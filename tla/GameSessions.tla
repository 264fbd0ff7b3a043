----------------------------- MODULE GameSessions -----------------------------
(***************************************************************************)
(* The life of a started game as the launcher follows it.  One thread      *)
(* starts the process and supervises it; a task receives what the game     *)
(* reports; both tell the presence worker of DiscordWorker and write the   *)
(* gameplay history.  A process state is changed under its lock and its    *)
(* listener is called after the lock is released, as the observer of a     *)
(* report is, so every such pair is two steps here.                        *)
(***************************************************************************)
EXTENDS DiscordWorker, FiniteSets, SequencesExt

CONSTANTS
    Bridged,     \* the instances whose games report what they do
    Unknown,     \* the place of a game that reports nothing
    MaxReports,  \* bound: what the games report together
    MaxSessions, \* the sessions the history keeps
    MaxVisits,   \* the visits a session keeps
    MaxUpsets,   \* bound: failures, restarts and requests of the user
    MaxFaults    \* the same where a history is kept

ASSUME SessionBounds ==
    /\ {MaxGames, MaxReports, MaxSessions, MaxUpsets, MaxFaults} \subseteq Nat
    /\ MaxVisits \in Nat \ {0}

ASSUME NoneIsNothing ==
    None \notin Instances \cup Places \cup {Unknown} \cup Snapshot
                 \cup {"normal", "abnormal", "interrupted"}

VARIABLES
    processes, \* the state of each instance's process
    children,  \* each game's supervisor: its instance and where it is
    bridges,   \* each game's receiver: valid, where it is, what it observes
    recorders, \* the recorder each listener holds, and the visit it is in
    history,   \* the sessions of the document, in memory and on disk alike
    archive,   \* sessions of each instance the document only counts
    opened,    \* whether the document was read since the launcher started
    heard,     \* the places each game went through as its bridge accepted them
    recorded,  \* the games a session was started for
    flawed,    \* games with a failed write or a report observed out of turn
    upsets

world == <<processes, children, bridges, snapshots>>
records == <<recorders, history, archive, opened, recorded, flawed>>
vars == <<discord, world, records, heard, upsets>>

NoProcess ==
    [instance |-> None, at |-> "none", outcome |-> None, recording |-> FALSE, visit |-> None]
NoBridge == [valid |-> FALSE, at |-> "none", place |-> None, sent |-> 0]
NoRecorder == [active |-> FALSE, current |-> None]

\* The history and the presence share nothing but the game they follow: the
\* launchers considered have a readable history or a presence, not both.
Readable == ~configured

Init ==
    /\ DiscordInit /\ (wanted = On => configured)
    /\ processes = [i \in Instances |-> None]
    /\ children = [g \in Games |-> NoProcess]
    /\ bridges = [g \in Games |-> NoBridge]
    /\ snapshots = [g \in Games |-> None]
    /\ recorders = [g \in Games |-> NoRecorder]
    /\ history = <<>> /\ archive = [i \in Instances |-> 0] /\ opened = FALSE
    /\ heard = [g \in Games |-> <<>>] /\ recorded = {} /\ flawed = {}
    /\ upsets = 0

-----------------------------------------------------------------------------
(* The history document                                                    *)

Indices(doc, g) == {n \in DOMAIN doc : doc[n].game = g}

\* A document and how much it counts of each instance.
Document(doc, counted) == [sessions |-> doc, archive |-> counted]

\* retain: the oldest ended session makes room; with none, nothing is written.
Retain(doc) ==
    IF Len(doc) <= MaxSessions THEN {Document(doc, archive)}
    ELSE LET ended == {n \in DOMAIN doc : doc[n].outcome # None}
         IN IF ended = {} THEN {}
            ELSE LET oldest == CHOOSE n \in ended : \A m \in ended : n <= m
                 IN {Document(RemoveAt(doc, oldest),
                              [archive EXCEPT ![doc[oldest].instance] = @ + 1])}

\* edit: what memory and disk hold once the edited document is written.
Edit(doc) ==
    \E kept \in Retain(doc) : history' = kept.sessions /\ archive' = kept.archive

\* The oldest visit makes room.
Visited(session, place) ==
    IF place = None THEN session
    ELSE [session EXCEPT !.visits =
              Append(IF Len(@) = MaxVisits THEN Tail(@) ELSE @, place)]

\* Store::open closes what an earlier launcher left open.
Interrupted(doc) ==
    [n \in DOMAIN doc |->
        IF doc[n].outcome = None THEN [doc[n] EXCEPT !.outcome = "interrupted"] ELSE doc[n]]

Opened == IF opened THEN history ELSE Interrupted(history)

Fresh(g) == [game |-> g, instance |-> children[g].instance, visits |-> <<>>, mode |-> Unknown,
             outcome |-> None]

\* Recorder::observe: the place the game left is recorded as a visit.
Observe(g, place) ==
    IF recorders[g].current = place THEN UNCHANGED <<recorders, history, archive>>
    ELSE /\ recorders' = [recorders EXCEPT ![g].current = place]
         /\ Edit([n \in DOMAIN history |->
                    IF n \in Indices(history, g)
                    THEN [Visited(history[n], recorders[g].current) EXCEPT !.mode = place]
                    ELSE history[n]])

\* A failed write has already taken the place the game was in.
ObserveFails(g, place) ==
    /\ recorders[g].current # place
    /\ recorders' = [recorders EXCEPT ![g].current = None]
    /\ UNCHANGED <<history, archive>>

\* Mutant: the place the game was in at its end is not recorded.
FinishShort(g, visit, outcome) ==
    Edit([n \in DOMAIN history |->
            IF n \in Indices(history, g) /\ history[n].outcome = None
            THEN [history[n] EXCEPT !.outcome = outcome] ELSE history[n]])

\* Recorder::finish, once it has taken the place the game was in.
Finish(g, visit, outcome) ==
    Edit([n \in DOMAIN history |->
            IF n \in Indices(history, g) /\ history[n].outcome = None
            THEN [Visited(history[n], visit) EXCEPT !.outcome = outcome]
            ELSE history[n]])

-----------------------------------------------------------------------------
(* The thread that starts a game and supervises it                         *)

\* What is left of a game the launcher no longer follows.
Over(g) == [NoProcess EXCEPT !.instance = children[g].instance, !.at = "done"]

At(g, step) == children' = [children EXCEPT ![g].at = step]

Process(g, status) == [game |-> g, status |-> status]

TellProcess(g, status) ==
    Tell([kind |-> "process", instance |-> children[g].instance, process |-> Process(g, status)])

\* What Tell and Wake leave alone.
discordQuiet ==
    <<configured, preferences, wanted, reported, games, connection, requested, working, activity,
      shown>>

Upset ==
    /\ upsets < (IF Readable THEN MaxFaults ELSE MaxUpsets)
    /\ upsets' = upsets + 1

\* A history write fails, which the listener and the observer ignore.
Spoil(g) == Upset /\ flawed' = flawed \cup {g}
Fine == UNCHANGED <<flawed, upsets>>

Start(i, g) ==
    /\ g = Cardinality({h \in Games : children[h].at # "none"}) + 1
    /\ processes[i] # None => ~Blocks(processes[i].status)
    /\ processes' = [processes EXCEPT ![i] = Process(g, "starting")]
    /\ children' = [children EXCEPT ![g] = [NoProcess EXCEPT !.instance = i, !.at = "starting"]]
    /\ bridges' = [bridges EXCEPT ![g].valid = i \in Bridged]
    /\ UNCHANGED <<discord, snapshots, records, heard, upsets>>

TellStarting(g) ==
    /\ children[g].at = "starting"
    /\ At(g, "launch") /\ TellProcess(g, "starting")
    /\ UNCHANGED <<discordQuiet, wake, processes, bridges, snapshots, records, heard, upsets>>

Launch(g) ==
    /\ children[g].at = "launch"
    /\ processes' = [processes EXCEPT ![children[g].instance] = Process(g, "running")]
    /\ At(g, "spawned")
    /\ UNCHANGED <<discord, bridges, snapshots, records, heard, upsets>>

\* fail_before_spawn: nothing was recorded, the listener is told.
LaunchFails(g) ==
    /\ children[g].at = "launch"
    /\ Upset
    /\ processes' = [processes EXCEPT ![children[g].instance] = Process(g, "ended")]
    /\ children' = [children EXCEPT ![g].at = "finishing", ![g].outcome = "abnormal"]
    /\ UNCHANGED <<discord, bridges, snapshots, records, heard>>

\* The listener of the running state opens the history and starts a session.
Record(g) ==
    /\ children[g].at = "spawned"
    /\ Readable /\ opened' = TRUE
    /\ LET begun == Append(Opened, Fresh(g))
       IN IF Retain(begun) = {}
          THEN /\ history' = Opened /\ flawed' = flawed \cup {g}
               /\ UNCHANGED <<archive, recorders, recorded>>
          ELSE /\ Edit(begun) /\ recorded' = recorded \cup {g}
               /\ recorders' = [recorders EXCEPT ![g].active = TRUE]
               /\ UNCHANGED flawed
    /\ At(g, "telling")
    /\ UNCHANGED <<discord, processes, bridges, snapshots, heard, upsets>>

\* Either the opening or the new session is not written.
RecordFails(g) ==
    /\ children[g].at = "spawned" /\ Readable
    /\ Spoil(g) /\ At(g, "telling")
    /\ \/ ~opened /\ history # Interrupted(history) /\ UNCHANGED <<opened, history>>
       \/ opened' = TRUE /\ history' = Opened
    /\ UNCHANGED <<discord, processes, bridges, snapshots, recorders, archive, recorded, heard>>

\* The receiver is started once the listener returned.  Without a readable
\* history the listener has nothing to record.
TellRunning(g) ==
    /\ children[g].at = IF Readable THEN "telling" ELSE "spawned"
    /\ At(g, "playing") /\ TellProcess(g, "running")
    /\ bridges' = [bridges EXCEPT ![g].at = IF bridges[g].valid THEN "listening" ELSE "none"]
    /\ UNCHANGED <<discordQuiet, wake, processes, snapshots, records, heard, upsets>>

Hear(g, place) ==
    heard' = [heard EXCEPT ![g] =
                IF ~Readable \/ (@ # <<>> /\ Last(@) = place) THEN @ ELSE Append(@, place)]

\* Only the history tells how a game ended.
Outcomes == IF Readable THEN {"normal", "abnormal"} ELSE {"normal"}

\* The child ended: the receiver is dropped, which ends what the game reports.
Exit(g, outcome) ==
    /\ children[g].at = "playing"
    /\ IF children[g].instance \in Bridged
       THEN /\ bridges' = [bridges EXCEPT ![g].valid = FALSE]
            /\ snapshots' = [snapshots EXCEPT ![g] = None]
            /\ children' = [children EXCEPT ![g].at = "observing", ![g].outcome = outcome]
            /\ Hear(g, Unknown)
       ELSE /\ children' = [children EXCEPT ![g].at = "draining", ![g].outcome = outcome]
            /\ UNCHANGED <<bridges, snapshots, heard>>
    /\ UNCHANGED <<discord, processes, records, upsets>>

\* A report the receiver still holds now will be observed after the end.
LateReport(g) == bridges[g].at \in {"cloning", "observing"} /\ bridges[g].place # Unknown

ExitObserved(g) ==
    /\ children[g].at = "observing"
    /\ \/ recorders[g].active /\ ObserveFails(g, Unknown) /\ Spoil(g)
       \/ /\ IF recorders[g].active THEN Observe(g, Unknown)
             ELSE UNCHANGED <<recorders, history, archive>>
          /\ flawed' = IF LateReport(g) THEN flawed \cup {g} ELSE flawed
          /\ UNCHANGED upsets
    /\ At(g, "draining") /\ Wake
    /\ UNCHANGED <<discordQuiet, queue, processes, bridges, snapshots, opened, recorded, heard>>

\* Mutant: the place the game was in stays with the recorder.
EndedKeeps(g) ==
    /\ children[g].at = "draining"
    /\ processes' = [processes EXCEPT ![children[g].instance] = Process(g, "ended")]
    /\ children' = [children EXCEPT ![g].at = "finishing", ![g].recording = recorders[g].active,
                                    ![g].visit = recorders[g].current]
    /\ recorders' = [recorders EXCEPT ![g].active = FALSE]
    /\ UNCHANGED <<discord, bridges, snapshots, history, archive, opened, recorded, flawed, heard,
                   upsets>>

\* The output is drained; the listener takes the recorder and what it holds.
Ended(g) ==
    /\ children[g].at = "draining"
    /\ processes' = [processes EXCEPT ![children[g].instance] = Process(g, "ended")]
    /\ children' = [children EXCEPT ![g].at = "finishing", ![g].recording = recorders[g].active,
                                    ![g].visit = recorders[g].current]
    /\ recorders' = [recorders EXCEPT ![g] = NoRecorder]
    /\ UNCHANGED <<discord, bridges, snapshots, history, archive, opened, recorded, flawed, heard,
                   upsets>>

\* The session is closed and the presence worker told.
Finished(g) ==
    /\ children[g].at = "finishing"
    /\ \/ children[g].recording /\ Finish(g, children[g].visit, children[g].outcome) /\ Fine
       \/ children[g].recording /\ Spoil(g) /\ UNCHANGED <<history, archive>>
       \/ ~children[g].recording /\ UNCHANGED <<history, archive>> /\ Fine
    /\ children' = [children EXCEPT ![g] = Over(g)]
    /\ TellProcess(g, "ended")
    /\ UNCHANGED <<discordQuiet, wake, processes, bridges, snapshots, recorders, opened, recorded,
                   heard>>

-----------------------------------------------------------------------------
(* The task that receives what a game reports                              *)

Sent == MapThenSumSet(LAMBDA h : bridges[h].sent, Games)

\* replace: a report after the child ended is ignored.
Report(g, place) ==
    /\ bridges[g].at = "listening" /\ Sent < MaxReports
    /\ bridges[g].sent = 0 => place = Menu
    /\ bridges[g].valid
    /\ bridges' = [bridges EXCEPT ![g].sent = @ + 1, ![g].at = "cloning", ![g].place = place]
    /\ snapshots' = [snapshots EXCEPT ![g] = place]
    /\ Hear(g, place)
    /\ UNCHANGED <<discord, processes, children, records, upsets>>

\* The connection ends or the task is aborted; the task clears what it left.
CloseBridge(g) ==
    /\ bridges[g].at = "listening"
    /\ bridges' = [bridges EXCEPT ![g].at = "cloning", ![g].place = Unknown, ![g].valid = FALSE]
    /\ snapshots' = [snapshots EXCEPT ![g] = None]
    /\ Hear(g, Unknown)
    /\ UNCHANGED <<discord, processes, children, records, upsets>>

After(g) == IF bridges[g].place = Unknown THEN "closed" ELSE "listening"

\* The observer looks for the recorder its listener holds.
Clone(g) ==
    /\ bridges[g].at = "cloning"
    /\ IF recorders[g].active
       THEN /\ bridges' = [bridges EXCEPT ![g].at = "observing"]
            /\ UNCHANGED discord
       ELSE /\ bridges' = [bridges EXCEPT ![g].at = After(g), ![g].place = None]
            /\ Wake /\ UNCHANGED <<discordQuiet, queue>>
    /\ UNCHANGED <<processes, children, snapshots, records, heard, upsets>>

Observed(g) ==
    /\ bridges[g].at = "observing"
    /\ bridges' = [bridges EXCEPT ![g].at = After(g), ![g].place = None]
    /\ \/ Observe(g, bridges[g].place) /\ Fine
       \/ ObserveFails(g, bridges[g].place) /\ Spoil(g)
    /\ Wake
    /\ UNCHANGED <<discordQuiet, queue, processes, children, snapshots, opened, recorded,
                   heard>>

-----------------------------------------------------------------------------
(* The launcher                                                            *)

\* A command reads the history.
OpenHistory ==
    /\ Readable /\ ~opened /\ opened' = TRUE /\ history' = Interrupted(history)
    /\ UNCHANGED <<discord, world, recorders, archive, recorded, flawed, heard, upsets>>

\* Bound: the user asks when the worker has taken every message.
User ==
    /\ configured /\ queue = <<>> /\ Upset /\ UNCHANGED <<world, records, heard>>
    /\ SetPreferences \/ Ask("connect") \/ Ask("shutdown")

\* The launcher ends, with whatever was going on, and is started again.
Restart ==
    /\ Upset /\ DiscordRestarts
    /\ processes' = [i \in Instances |-> None]
    /\ children' = [g \in Games |->
                        IF children[g].at = "none" THEN NoProcess ELSE Over(g)]
    /\ bridges' = [g \in Games |-> NoBridge]
    /\ snapshots' = [g \in Games |-> None]
    /\ recorders' = [g \in Games |-> NoRecorder]
    /\ opened' = FALSE
    /\ UNCHANGED <<history, archive, heard, recorded, flawed>>

DiscordWorks ==
    /\ Work(FALSE) /\ UNCHANGED <<world, records, heard, upsets>>

DiscordFails ==
    /\ Upset /\ Work(TRUE) /\ UNCHANGED <<world, records, heard>>

Step(g) ==
    \/ TellStarting(g) \/ Launch(g) \/ LaunchFails(g) \/ Record(g) \/ RecordFails(g)
    \/ TellRunning(g) \/ ExitObserved(g) \/ Ended(g) \/ Finished(g)
    \/ \E outcome \in Outcomes : Exit(g, outcome)
    \/ \E place \in Places : Report(g, place)
    \/ CloseBridge(g) \/ Clone(g) \/ Observed(g)

Next ==
    \/ \E g \in Games : Step(g) \/ \E i \in Instances : Start(i, g)
    \/ OpenHistory \/ User \/ Restart \/ DiscordWorks \/ DiscordFails

Spec == Init /\ [][Next]_vars

-----------------------------------------------------------------------------
(* Properties                                                              *)

Session ==
    [game : Games, instance : Instances, visits : Seq(Places \cup {Unknown}),
     mode : Places \cup {Unknown}, outcome : {"normal", "abnormal", "interrupted", None}]

TypeOK ==
    /\ DiscordTypeOK
    /\ processes \in [Instances -> Snapshot \cup {None}]
    /\ snapshots \in [Games -> Places \cup {None}]
    /\ history \in Seq(Session) /\ Len(history) <= MaxSessions
    /\ \A n \in DOMAIN history : Len(history[n].visits) <= MaxVisits
    /\ flawed \subseteq Games /\ upsets \in 0 .. (MaxUpsets + MaxFaults)

\* Nobody is between a change of what the presence depends on and telling it.
Settled ==
    /\ working = "idle" /\ queue = <<>> /\ ~wake
    /\ \A g \in Games : /\ children[g].at \in {"none", "launch", "playing", "draining", "done"}
                         /\ bridges[g].at \in {"none", "listening", "closed"}

\* The end of an instance's former game was told after its next one began.
Overtaken(i) ==
    /\ games[i] # None /\ processes[i] # None
    /\ games[i].game < processes[i].game /\ ~Blocks(games[i].status)

\* Once every thread has told what it changed and the worker has taken it,
\* Discord shows exactly what the saved preferences allow to be shown of the
\* games that run now, and the interface is told the saved preferences,
\* however messages, wake-ups, reports, failures and reconnections crossed.
PresenceSettles ==
    Settled /\ (\A i \in Instances : ~Overtaken(i)) =>
        /\ reported = wanted
        /\ connection = "connected" => shown = Activity(wanted, Winner(processes))
        /\ shown # None => wanted.enabled /\ (shown.place # None => wanted.place)

\* A presence that is switched on is never given up: whenever the worker
\* waits without a connection it will try again by itself.
StillTrying == working = "idle" /\ preferences.enabled => connection = "connected" \/ requested

\* What an ended game reported is gone for good, though its receiver may still
\* be handing over a report (ARCHITECTURE.md: late updates cannot resurrect
\* activity).
ActivityEnds == \A g \in Games : ~bridges[g].valid => snapshots[g] = None

\* Every recorded session counts once towards the time played of its
\* instance: in the document or, once it had to make room, in its archive.
CountedOnce ==
    \A i \in Instances :
        Cardinality({n \in DOMAIN history : history[n].instance = i}) + archive[i]
            = Cardinality({g \in recorded : children[g].instance = i})

\* A session that has ended keeps its outcome and its visits, however late the
\* observer, the supervisor or a later start of the launcher comes.
ClosedOnce ==
    [][\A n \in DOMAIN history : history[n].outcome # None =>
        \A m \in DOMAIN history' : history'[m].game = history[n].game =>
            /\ history'[m].outcome = history[n].outcome
            /\ history'[m].visits = history[n].visits]_vars

\* The visits of a closed session are the last places its game went through in
\* the order it reported them, though three parties record them.
VisitsFollowReports ==
    \A n \in DOMAIN history :
        LET s == history[n]
            places == heard[s.game]
        IN s.outcome \in {"normal", "abnormal"} /\ s.game \notin flawed =>
               s.visits = SubSeq(places, IF Len(places) > MaxVisits THEN Len(places) - MaxVisits + 1
                                         ELSE 1, Len(places))

\* What Discord shows, and what it is told about a game, is about a game that
\* runs; a connection that is wanted is there or being tried.
PresenceHolds == TypeOK /\ PresenceSettles /\ StillTrying /\ ActivityEnds

\* The history holds each game once, with the places it reported.
HistoryHolds == CountedOnce /\ VisitsFollowReports

\* Presence and history follow the games that run: what Discord shows and is
\* told is about one of them, and the history holds each game once, with the
\* places it reported.
SessionsHold == PresenceHolds /\ HistoryHolds
=============================================================================
