----------------------------- MODULE ConfigFile -----------------------------
(***************************************************************************)
(* config.json: what is made of the schemas that earlier launchers wrote,  *)
(* and how it is saved.  A save writes a sibling file and renames it; the  *)
(* name of the sibling is the same for every save.  The commands that      *)
(* change preferences, and a deletion, read and save under registry_lock;  *)
(* the selection of an instance, by the user or at the end of a creation,  *)
(* and the first start of the launcher do not take it.                     *)
(*                                                                         *)
(* A preference stands for the appearance, the home widgets and those of   *)
(* Discord alike; Bad is one that nothing accepts.                         *)
(***************************************************************************)
EXTENDS Naturals, FiniteSets

CONSTANTS
    Values,      \* of a preference; Default among them
    Default,
    Ids,         \* instances to select
    Tasks,       \* commands under way
    Found,       \* config.json as the launcher may find it
    MaxTasks,    \* bound: commands
    MaxFaults,   \* bound: failures and restarts
    Torn,        \* a file written in part
    Unknown,     \* an appearance with a theme or an accent of no launcher
    Bad, None

VARIABLES
    file,        \* config.json: a document, Torn or None
    sibling,     \* config.json.tmp
    task,        \* the command of each task
    owner,       \* who has registry_lock
    began, faults,
    \* the past
    at,          \* where what a task opened is by now: "sibling", "file" or None
    wanted,      \* the preference that was acknowledged last
    chosen,      \* the selection that was acknowledged last
    unlocked,    \* has a command without the lock saved beside another one?
    first        \* what was found

bounds == <<began, faults>>
past == <<wanted, chosen, unlocked, first>>
vars == <<file, sibling, task, owner, bounds, at, past>>

Preferences == {"appearance", "discord", "widgets"}

-----------------------------------------------------------------------------
(* The schemas *)

Unset == [p \in Preferences |-> Default]
Defaults == [schema |-> 7, selected |-> None, preferences |-> Unset, updates |-> FALSE]

\* The preferences that a schema knew.
Known(schema) ==
    CASE schema = 1 -> {}
      [] schema = 2 -> {"appearance"}
      [] OTHER -> Preferences

\* AppearancePreferences::normalized
Normalized(preferences) ==
    [preferences EXCEPT !.appearance = IF @ = Unknown THEN Default ELSE @]

\* HomeLayout::validate
ValidWidgets(layout) == layout # Bad

\* What from_json makes of a document that it admits.
Migrate(doc) ==
    [Defaults EXCEPT
        !.selected = doc.selected,
        !.preferences = [p \in Preferences |->
            IF p \in Known(doc.schema) THEN doc.preferences[p] ELSE Default]]

\* What is left of updates is validated before it is dropped, in schema 7 alone.
Admitted(doc) ==
    /\ doc.schema \in 1 .. 7
    /\ doc.selected # Bad
    /\ \A p \in Known(doc.schema) \ {"widgets"} : doc.preferences[p] # Bad
    /\ "widgets" \in Known(doc.schema) => ValidWidgets(doc.preferences.widgets)
    /\ doc.schema = 7 => doc.updates # Bad

\* load: None of a missing file, Bad of one that is refused.
Load ==
    IF file = None THEN None
    ELSE IF file = Torn THEN Bad
    ELSE IF ~Admitted(file) THEN Bad
    ELSE LET doc == Migrate(file)
         IN  [doc EXCEPT !.preferences = Normalized(@)]

-----------------------------------------------------------------------------
(* Commands *)

Idle == [at |-> "idle", kind |-> None, value |-> None, draft |-> None]

Locked(kind) == kind \in Preferences \cup {"delete", "restore"}

\* Two tasks between reading and saving, of which one does not take the lock.
Meets(t) ==
    \E other \in Tasks \ {t} :
        /\ task[other].at \in {"write", "finish", "rename"}
        /\ ~Locked(task[t].kind) \/ ~Locked(task[other].kind)

\* Mutant: the lock is taken for the save alone.
BeginAnyway(t) ==
    /\ task[t].at = "idle" /\ began < MaxTasks /\ began' = began + 1
    /\ \E kind \in Preferences \cup {"delete", "select", "automatic", "start"},
          value \in Values \cup Ids :
        /\ task' = [task EXCEPT ![t] = [Idle EXCEPT !.at = "read", !.kind = kind, !.value = value]]
        /\ UNCHANGED owner
    /\ UNCHANGED <<file, sibling, faults, at, past>>

Begin(t) ==
    /\ task[t].at = "idle" /\ began < MaxTasks /\ began' = began + 1
    /\ \/ \E kind \in Preferences, value \in Values :
            /\ owner = None /\ owner' = t
            /\ task' = [task EXCEPT ![t] = [Idle EXCEPT !.at = "read", !.kind = kind, !.value = value]]
       \/ \E id \in Ids :
            /\ owner = None /\ owner' = t
            /\ task' = [task EXCEPT ![t] = [Idle EXCEPT !.at = "read", !.kind = "delete", !.value = id]]
       \/ \E kind \in {"select", "automatic", "start"}, id \in Ids :
            /\ task' = [task EXCEPT ![t] = [Idle EXCEPT !.at = "read", !.kind = kind, !.value = id]]
            /\ UNCHANGED owner
    /\ UNCHANGED <<file, sibling, faults, at, past>>

Ends(t) ==
    /\ task' = [task EXCEPT ![t] = Idle]
    /\ owner' = IF owner = t THEN None ELSE owner

OrDefaults(loaded) == IF loaded = None THEN Defaults ELSE loaded

\* What a command makes of the document; None when it has nothing to save.
Changed(kind, value, loaded) ==
    LET doc == OrDefaults(loaded)
    IN  CASE kind \in Preferences -> [doc EXCEPT !.preferences[kind] = value]
          [] kind = "select" -> [doc EXCEPT !.selected = value]
          [] kind = "automatic" ->
                IF doc.selected = None THEN [doc EXCEPT !.selected = value] ELSE None
          [] kind = "delete" ->
                IF doc.selected = value THEN [doc EXCEPT !.selected = None] ELSE None
          [] kind = "start" -> IF loaded = None THEN Defaults ELSE None

Fault == faults < MaxFaults /\ faults' = faults + 1

\* Bad of a file that is refused.
Draft(t) == IF Load = Bad THEN Bad ELSE Changed(task[t].kind, task[t].value, Load)

\* A deletion whose files cannot be removed writes back what it had read,
\* whether it has changed it or not.
Restores(t, doc) ==
    /\ task[t].kind = "delete" /\ Fault
    /\ task' = [task EXCEPT ![t].kind = "restore", ![t].at = "write", ![t].draft = doc]
    /\ UNCHANGED owner

Read(t) ==
    /\ task[t].at = "read"
    /\ \/ /\ Draft(t) \in {None, Bad}
          /\ Ends(t) /\ UNCHANGED <<faults, unlocked>>
       \/ /\ Draft(t) \notin {None, Bad}
          /\ task' = [task EXCEPT ![t].draft = Draft(t), ![t].at = "write"]
          /\ unlocked' = (unlocked \/ Meets(t))
          /\ UNCHANGED <<owner, faults>>
       \/ /\ Draft(t) = None /\ Restores(t, OrDefaults(Load))
          /\ unlocked' = (unlocked \/ Meets(t))
    /\ UNCHANGED <<file, sibling, began, at, wanted, chosen, first>>

\* std::fs::write empties the sibling, whoever else writes to it, ...
Open(t) ==
    /\ task[t].at = "write"
    /\ \/ /\ task' = [task EXCEPT ![t].at = "finish"]
          /\ sibling' = Torn /\ at' = [at EXCEPT ![t] = "sibling"]
          /\ UNCHANGED <<owner, faults>>
       \/ /\ Fault /\ Ends(t) /\ sibling' = None
          /\ at' = [u \in Tasks |-> IF at[u] = "sibling" THEN None ELSE at[u]]
    /\ UNCHANGED <<file, began, past>>

\* ... and then writes, wherever the file is by now; over what another task
\* wrote there the end of that may remain.
Write(t) ==
    /\ task[t].at = "finish"
    /\ task' = [task EXCEPT ![t].at = "rename"]
    /\ CASE at[t] = "sibling" ->
                /\ \/ sibling' = task[t].draft
                   \/ sibling # Torn /\ sibling' = Torn
                /\ UNCHANGED file
         [] at[t] = "file" ->
                /\ \/ file' = task[t].draft
                   \/ file # Torn /\ file' = Torn
                /\ UNCHANGED sibling
         [] OTHER -> UNCHANGED <<file, sibling>>
    /\ UNCHANGED <<owner, bounds, at, past>>

Acknowledged(t) ==
    /\ wanted' = IF task[t].kind \in Preferences
                 THEN [wanted EXCEPT ![task[t].kind] = task[t].value] ELSE wanted
    /\ chosen' = IF task[t].kind \in Preferences \cup {"start"}
                 THEN chosen ELSE task[t].draft.selected

\* Renamed.
Saved(t) ==
    /\ Acknowledged(t)
    /\ \/ Ends(t) /\ UNCHANGED faults
       \/ Restores(t, [task[t].draft EXCEPT !.selected = task[t].value])

Rename(t) ==
    /\ task[t].at = "rename"
    /\ \/ /\ sibling # None /\ file' = sibling /\ sibling' = None
          /\ at' = [u \in Tasks |->
                        IF u = t \/ at[u] = "file" THEN None
                        ELSE IF at[u] = "sibling" THEN "file" ELSE at[u]]
          /\ Saved(t)
       \/ /\ IF sibling = None THEN UNCHANGED faults ELSE Fault
          /\ Ends(t) /\ sibling' = None
          /\ at' = [u \in Tasks |-> IF u = t \/ at[u] = "sibling" THEN None ELSE at[u]]
          /\ UNCHANGED <<file, wanted, chosen>>
    /\ UNCHANGED <<began, unlocked, first>>

\* The launcher dies, and starts again.
Crash ==
    /\ Fault
    /\ task' = [t \in Tasks |-> Idle] /\ owner' = None
    /\ at' = [t \in Tasks |-> None]
    /\ UNCHANGED <<file, sibling, began, past>>

Init ==
    /\ file \in Found /\ first = file
    /\ sibling = None /\ task = [t \in Tasks |-> Idle] /\ owner = None
    /\ began = 0 /\ faults = 0 /\ at = [t \in Tasks |-> None]
    /\ wanted = IF Load \in {None, Bad} THEN Unset ELSE Load.preferences
    /\ chosen = IF Load \in {None, Bad} THEN None ELSE Load.selected
    /\ unlocked = FALSE

Next ==
    \/ \E t \in Tasks : Begin(t) \/ Read(t) \/ Open(t) \/ Write(t) \/ Rename(t)
    \/ Crash

Spec == Init /\ [][Next]_vars

-----------------------------------------------------------------------------
(* Properties *)

\* The state is of this shape.
TypeOK ==
    /\ owner \in Tasks \cup {None}
    /\ \A t \in Tasks : at[t] \in {"sibling", "file", None}
    /\ began \in 0 .. MaxTasks /\ faults \in 0 .. MaxFaults

\* "malformed files are never silently replaced" (config.rs:4-5): what cannot
\* be read stays as it is, whatever is asked for.
MalformedStays == first # None /\ ~Admitted(first) => file = first

\* "so unrelated preferences cannot be lost to concurrent writes"
\* (application.rs:596): what was acknowledged last is there, through crashes
\* and migrations, and the file is never found half written; a selection that
\* is saved beside another command, without the lock, may undo this.
NothingIsLost ==
    ~unlocked =>
        /\ file # Torn
        /\ Load \notin {None, Bad} =>
            Load.preferences = wanted /\ Load.selected = chosen
=============================================================================
