---------------------------- MODULE DiscordWorker ----------------------------
(***************************************************************************)
(* The worker that keeps the launcher's Discord presence.  Listeners and   *)
(* commands enqueue messages without waiting, a change of what a game      *)
(* reports leaves one coalesced wake-up, and a timer ticks; after each of  *)
(* them the worker connects if it should and publishes the activity.       *)
(***************************************************************************)
EXTENDS Naturals, Sequences

CONSTANTS
    Instances,
    MaxGames,   \* bound: processes started; a process is named by its turn
    Places,     \* what a game may report, the main menu included
    Menu,
    None

Games == 1 .. MaxGames
Off == [enabled |-> FALSE, place |-> FALSE]
On == [enabled |-> TRUE, place |-> TRUE]

Preferences == {Off, On, [enabled |-> TRUE, place |-> FALSE]}
\* "ended" stands for Exited, Failed and Stopped.
Statuses == {"starting", "running", "ended"}
Snapshot == [game : Games, status : Statuses]

VARIABLES
    configured,  \* the build has an application id; without one nothing is ever shown
    preferences, \* the worker's
    wanted,      \* those last saved
    reported,    \* the preferences the interface is told
    queue,       \* messages to the worker
    wake,        \* the channel of capacity one
    games,       \* the last process state of each instance the worker was told
    connection,  \* "ready", "connected" or "lost"
    requested,   \* whether the worker should connect
    working,     \* "idle", "connect", "send" or "stopped"
    activity,    \* what it is about to publish
    shown,       \* what Discord shows
    snapshots    \* what each game reports, read when an activity is made

discord ==
    <<configured, preferences, wanted, reported, queue, wake, games, connection, requested,
      working, activity, shown>>
rest == <<configured, preferences, wanted, queue, wake, games>>

DiscordInit ==
    /\ configured \in BOOLEAN
    /\ wanted \in {Off, On}
    /\ preferences = wanted /\ reported = wanted
    /\ queue = <<>> /\ wake = FALSE
    /\ games = [i \in Instances |-> None]
    /\ connection = "ready" /\ requested = wanted.enabled
    /\ working = "idle" /\ activity = None /\ shown = None

Blocks(status) == status \in {"starting", "running"}

\* The most recently started running game wins, then a starting one (of two started
\* in one second, which the code tells apart by the instance, the later).
Winner(processes) ==
    LET live == {i \in Instances : processes[i] # None /\ Blocks(processes[i].status)}
        running == {i \in live : processes[i].status = "running"}
        among == IF running = {} THEN live ELSE running
    IN IF live = {} THEN None
       ELSE processes[CHOOSE i \in among : \A j \in among : processes[j].game <= processes[i].game]

\* What the preferences allow to be shown of a process.
Activity(prefs, process) ==
    IF ~prefs.enabled THEN None
    ELSE IF process = None THEN [status |-> "launcher", game |-> None, place |-> None]
    ELSE [status |-> process.status, game |-> process.game,
          place |-> IF process.status = "running" /\ prefs.place /\ snapshots[process.game] # Menu
                    THEN snapshots[process.game] ELSE None]

-----------------------------------------------------------------------------
(* The worker's loop                                                       *)

\* The loop waits again once the status the interface reads is written.
Wait == working' = "idle" /\ reported' = preferences'

\* The activity is made from what the games report now, then sent.
Make ==
    /\ working' = "send" /\ UNCHANGED reported
    /\ activity' = Activity(preferences', Winner(games'))

\* What follows a message: reconnecting closes the connection first.
Reconcile(reconnect, asked) ==
    /\ connection' = IF reconnect THEN "ready" ELSE connection
    /\ shown' = IF reconnect THEN None ELSE shown
    /\ IF connection' = "connected" THEN Make
       ELSE /\ UNCHANGED activity
            /\ IF asked THEN working' = "connect" /\ UNCHANGED reported ELSE Wait

Connect ==
    /\ Head(queue).kind = "connect"
    /\ UNCHANGED <<preferences, games>>
    /\ requested' = TRUE /\ Reconcile(TRUE, TRUE)

Preferred ==
    /\ Head(queue).kind = "preferences"
    /\ preferences' = Head(queue).preferences
    /\ requested' = (preferences'.enabled \/ connection = "connected")
    /\ UNCHANGED games
    /\ Reconcile(FALSE, requested')

Processed ==
    /\ Head(queue).kind = "process"
    /\ games' = [games EXCEPT ![Head(queue).instance] = Head(queue).process]
    /\ UNCHANGED <<preferences, requested>>
    /\ Reconcile(FALSE, requested)

Stop ==
    /\ Head(queue).kind = "shutdown"
    /\ working' = "stopped" /\ shown' = None /\ connection' = "ready"
    /\ queue' = <<>> /\ wake' = FALSE
    /\ UNCHANGED <<preferences, games, requested, reported, activity>>

Receive ==
    /\ working = "idle" /\ queue # <<>>
    /\ \/ Stop
       \/ (Connect \/ Preferred \/ Processed) /\ queue' = Tail(queue) /\ UNCHANGED wake
    /\ UNCHANGED <<configured, wanted>>

Woken ==
    /\ working = "idle" /\ wake
    /\ wake' = FALSE
    /\ UNCHANGED <<configured, preferences, wanted, queue, games, requested>>
    /\ Reconcile(FALSE, requested)

\* Every fifteen seconds.
Tick ==
    /\ working = "idle" /\ configured
    /\ UNCHANGED <<rest, requested>>
    /\ Reconcile(FALSE, requested)

\* fail: the connection is closed, and tried again if the presence is on.
Fail ==
    /\ requested' = preferences.enabled
    /\ connection' = "lost" /\ shown' = None
    /\ Wait

\* The transport's connect, which waits for Discord.
Connects(fails) ==
    /\ working = "connect" /\ UNCHANGED rest
    /\ IF fails
       THEN Fail /\ UNCHANGED activity
       ELSE connection' = "connected" /\ Make /\ UNCHANGED <<requested, shown>>

Publish(fails) ==
    /\ working = "send" /\ UNCHANGED rest
    /\ IF fails
       THEN Fail
       ELSE shown' = activity /\ Wait /\ UNCHANGED <<connection, requested>>
    /\ activity' = None

\* With fails: whether Discord fails at this step.
Work(fails) ==
    \/ Connects(fails) \/ Publish(fails)
    \/ ~fails /\ (Receive \/ Woken \/ Tick)

-----------------------------------------------------------------------------
(* What others do                                                          *)

\* An unconfigured worker takes a message and does nothing with it; one that
\* has stopped takes none.
Listens == configured /\ working # "stopped"

Tell(message) == queue' = IF Listens THEN Append(queue, message) ELSE queue

\* gameplay_changed.
Wake == wake' = Listens

\* preferences_changed, under the lock the saved preferences are written with.
SetPreferences ==
    /\ wanted' \in Preferences \ {wanted}
    /\ reported' = wanted'
    /\ Tell([kind |-> "preferences", preferences |-> wanted'])
    /\ UNCHANGED <<configured, preferences, wake, games, connection, requested, working,
                   activity, shown>>

Ask(kind) ==
    /\ Tell([kind |-> kind])
    /\ UNCHANGED <<configured, preferences, wanted, reported, wake, games, connection, requested,
                   working, activity, shown>>

\* The next start of the launcher; Discord clears a presence whose connection
\* is closed.
DiscordRestarts ==
    /\ preferences' = wanted /\ reported' = wanted /\ queue' = <<>> /\ wake' = FALSE
    /\ games' = [i \in Instances |-> None]
    /\ connection' = "ready" /\ requested' = wanted.enabled
    /\ working' = "idle" /\ activity' = None /\ shown' = None
    /\ UNCHANGED <<configured, wanted>>

Message ==
    [kind : {"connect", "shutdown"}] \cup [kind : {"preferences"}, preferences : Preferences]
    \cup [kind : {"process"}, instance : Instances, process : Snapshot]

DiscordTypeOK ==
    /\ {preferences, wanted, reported} \subseteq Preferences
    /\ queue \in Seq(Message) /\ wake \in BOOLEAN
    /\ games \in [Instances -> Snapshot \cup {None}]
    /\ connection \in {"ready", "connected", "lost"} /\ requested \in BOOLEAN
    /\ working \in {"idle", "connect", "send", "stopped"}
    /\ connection # "connected" => shown = None
=============================================================================
