--------------------------- MODULE BackgroundProofs ---------------------------
(***************************************************************************)
(* Theorems about an update of the Aurora client, the update card and the  *)
(* servers, for any releases, instances and servers and any number of      *)
(* updates, pages, refreshes, edits, commands, faults and crashes.         *)
(*                                                                         *)
(* The client.  The invariant CInv says what is under every name at every  *)
(* step of an update: a jar the update placed is the published one, a jar  *)
(* it retired is gone from its place and under its private name until the  *)
(* pin has moved, and every other jar is what it was when the update       *)
(* looked (FilesFollow).  With it come what the update had approved        *)
(* (Reviewed), how far it has come (Outline, Sets), the documents and the  *)
(* pin that go with each step (DocumentsFollow, PinFollows), and that no   *)
(* jar is there twice (NoDuplicates, for what is there and for what was).  *)
(* Files changed from outside while the update holds its locks are exempt. *)
(*                                                                         *)
(* The card.  CardInv: a command carries what its page's user was shown    *)
(* (CardChosen), also after the page is gone; each stage belongs to its    *)
(* command (CardStages); one command holds a lock or flag (CardOne); and   *)
(* what the card says goes with what it waits for (CardWaits).             *)
(*                                                                         *)
(* The servers.  ServersInv: a server is asked by one refresh at a time    *)
(* (OneQueryPerServer), and a failure about to be stored retained what the *)
(* cache holds unless an answer has overtaken it (LooksKept).              *)
(***************************************************************************)
EXTENDS MCBackground, WellFoundedInduction, TLAPS

-----------------------------------------------------------------------------
(* The client: the inductive invariant *)

Fresh ==
    /\ staged = {} /\ retired = {} /\ backups = NoBackups /\ active = {}
    /\ documented = FALSE /\ registered = FALSE

Exchanging == {"activate", "state", "entry", "validate", "register", "verify", "cleanup"}
Exchanged == Exchanging \ {"activate"}

\* How far the update has come.
Outline ==
    /\ Locked => before \in Snapshots
    /\ ~Locked => before = None
    /\ step = "idle" => plan = NoPlan
    /\ step # "idle" => plan.release \in Releases
    /\ step \in {"idle", "acquire", "commit", "guard"} => Fresh
    /\ Guarded => ~playing
    /\ step \in {"acquire", "commit"} =>
        approval[6] = plan.release /\ plan.release > approval[1]
    /\ exposed \subseteq edited

\* What the update had approved, and found still true under its locks.
Reviewed ==
    Locked =>
        /\ off = before.off /\ provided = before.provided
        /\ raced \/ plan.provided = provided
        /\ plan.release # before.pin
        /\ before.pin = before.state.release
        /\ before.state.api = ApiOf[before.pin]
        /\ before.pin \in Embedded \/ before.entry = before.pin
        /\ \A j \in Own(before.state) : before.mods[j] # "other"
        /\ \A j \in Planned(plan.release, before.provided) : j \notin before.off
        /\ \A s \in Releases \ {plan.release, before.state.release} :
            before.mods[s] = None

\* Which jars it stages, retires and places.
Sets ==
    Locked =>
        /\ staged \subseteq ToStage /\ active \subseteq staged
        /\ retired \subseteq ToRetire \ ToStage
        /\ retired # {} => staged = ToStage
        /\ step \in Exchanging => staged = ToStage
        /\ step = "stage" => active = {}

\* What is under the name of a jar that nobody changed from outside during
\* the update, and under its private name.
FilesFollow ==
    Locked =>
        /\ \A j \in Jars \ exposed :
            mods[j] = IF j \in active THEN "good"
                      ELSE IF j \in retired THEN None ELSE before.mods[j]
        /\ \A j \in active \ exposed : before.mods[j] = None
        /\ \A j \in retired \ exposed : backups[j] \in {None, before.mods[j]}
        /\ \A j \in Jars \ retired : backups[j] = None
        /\ \A j \in retired : backups[j] = None =>
            step \in {"cleanup", "undo"} /\ pin # before.pin
        /\ (step \in Exchanging \/ active # {}) =>
            \A j \in (ToRetire \ ToStage) \ exposed :
                j \in retired \/ before.mods[j] = None
        /\ step \in Exchanged =>
            \A j \in ToStage \ exposed : j \in active \/ before.mods[j] = "good"

NewState == [release |-> plan.release, api |-> NewApi]

\* The documents of each step.
DocumentsFollow ==
    Locked =>
        /\ step \in {"guard", "stage", "activate", "state"} =>
            state = before.state /\ entry = before.entry /\ ~documented
        /\ step = "entry" => state = NewState /\ entry = before.entry /\ ~documented
        /\ step \in {"validate", "register", "verify", "cleanup"} =>
            state = NewState /\ entry = plan.release /\ documented
        /\ step \in {"register", "verify", "cleanup"} => NewApi = ApiOf[plan.release]
        /\ step = "undo" /\ ~documented =>
            (state = before.state \/ torn) /\ entry = before.entry

\* The pin of each step.
PinFollows ==
    Locked =>
        /\ step \in {"verify", "cleanup"} => pin = plan.release /\ registered
        /\ step \notin {"verify", "cleanup", "undo"} => pin = before.pin /\ ~registered
        /\ step = "undo" /\ ~registered => pin = before.pin

\* Nothing was there twice when the update looked, either.
NoneTwice ==
    Locked =>
        /\ \A r, s \in Releases \ edited :
            before.mods[r] # None /\ before.mods[s] # None => r = s
        /\ \A r \in (Releases \cap before.off) \ edited : before.mods[r] = None
        /\ ~raced => \A a \in Apis \ edited :
            before.provided \/ a \in before.off => before.mods[a] = None

\* Outside an update the instance validates with its pin.
Ready ==
    ~Locked /\ Settled =>
        pin = state.release /\ Resolves(pin) /\ state.api = ApiOf[pin]

CInv ==
    /\ TypeOK /\ Outline /\ Reviewed /\ Sets /\ FilesFollow /\ DocumentsFollow
    /\ PinFollows /\ NoDuplicates /\ NoneTwice /\ Ready

-----------------------------------------------------------------------------
(* Every step preserves each of its parts *)

\* Among releases one is the newest.
LEMMA Newest ==
    ASSUME NEW newer \in SUBSET Releases, newer # {}
    PROVE  \E r \in newer : \A s \in newer : s <= r
<1> DEFINE ages == {Latest - r : r \in newer}
<1>1. ages \subseteq Nat /\ ages # {}
  <2>1. \A r \in newer : r \in Nat /\ r <= Latest
    BY ReleasesAssumption DEF Releases
  <2>2. \A r \in newer : Latest - r \in Nat
    BY <2>1, ReleasesAssumption
  <2> QED
    BY <2>2
<1>2. PICK x \in ages : \A y \in ages : ~(<<y, x>> \in OpToRel(<, Nat))
  BY <1>1, NatLessThanWellFounded, WFMin
<1>3. \A y \in ages : ~(y < x)
  BY <1>1, <1>2 DEF OpToRel
<1>4. PICK r \in newer : x = Latest - r
  BY <1>2
<1>5. \A s \in newer : ~(Latest - s < Latest - r)
  BY <1>3, <1>4
<1> QED
  BY <1>5, ReleasesAssumption DEF Releases

\* A candidate is newer than the pin.
LEMMA CandidateIsNewer ==
    ASSUME TypeOK, Candidate # None
    PROVE  Candidate \in Releases /\ Candidate > pin
<1> DEFINE newer == {r \in published : r > pin}
<1>1. newer # {}
  BY DEF Candidate
<1>2. \E r \in newer : \A s \in newer : s <= r
  BY <1>1, Newest DEF TypeOK
<1>3. Candidate = CHOOSE r \in newer : \A s \in newer : s <= r
  BY <1>1 DEF Candidate
<1>4. Candidate \in newer
  BY <1>2, <1>3
<1> QED
  BY <1>4 DEF TypeOK

\* What an update remembers is a snapshot.
LEMMA SnapshotTyped ==
    ASSUME TypeOK
    PROVE  [pin |-> pin, state |-> state, entry |-> entry, mods |-> mods,
            off |-> off, provided |-> provided] \in Snapshots
  BY DEF TypeOK, Snapshots

\* An update goes from step to step, and forgets everything when it returns.
LEMMA OutlineStep ==
    ASSUME TypeOK, Outline, [Next]_vars
    PROVE  Outline'
<1> USE NoneAssumption, NoneIsNoSnapshot DEF Outline, Fresh, TypeOK, Locked, Guarded,
   Steps
<1>1. CASE Preview
  BY <1>1 DEF Preview, Calm, instance, world, transaction, past, vars
<1>2. CASE Apply
  BY <1>2, CandidateIsNewer DEF Apply, Calm, Fingerprint, instance, world, transaction,
     past, vars
<1>3. CASE Acquire
  BY <1>3 DEF Acquire, Calm, Fault, Upset, Returned, instance, world, transaction,
     past, vars
<1>4. CASE Commit
  BY <1>4, SnapshotTyped DEF Commit, Calm, Returned, StillApproved, Fingerprint,
     instance, world, transaction, past, vars
<1>5. CASE Guard
  BY <1>5 DEF Guard, Stopped, Calm, Returned, instance, world, transaction, past, vars
<1>6. ASSUME NEW j \in Jars, Stage(j) PROVE Outline'
  BY <1>6 DEF Stage, Calm, Fault, Upset, Fails, Inside, instance, world, transaction,
     past, vars
<1>7. ASSUME NEW j \in Jars, Retire(j) PROVE Outline'
  BY <1>7 DEF Retire, Calm, Fault, Upset, Fails, Inside, instance, world, transaction,
     past, vars
<1>8. CASE Retired
  BY <1>8 DEF Retired, Calm, Inside, instance, world, transaction, past, vars
<1>9. ASSUME NEW j \in Jars, Activate(j) PROVE Outline'
  BY <1>9 DEF Activate, Calm, Fault, Upset, Fails, Inside, instance, world,
     transaction, past, vars
<1>10. CASE Activated
  BY <1>10 DEF Activated, Calm, Inside, instance, world, transaction, past, vars
<1>11. CASE WriteState
  BY <1>11 DEF WriteState, Calm, Fault, Upset, Fails, Inside, instance, world,
     transaction, past, vars
<1>12. CASE WriteEntry
  BY <1>12 DEF WriteEntry, Calm, Fault, Upset, Fails, Inside, instance, world,
     transaction, past, vars
<1>13. CASE Validate
  BY <1>13 DEF Validate, Calm, Fault, Upset, Fails, Inside, instance, world,
     transaction, past, vars
<1>14. CASE Register
  BY <1>14 DEF Register, Calm, Fault, Upset, Fails, Inside, instance, world,
     transaction, past, vars
<1>15. CASE Verify
  BY <1>15 DEF Verify, Calm, Fault, Upset, Fails, Inside, instance, world, transaction,
     past, vars
<1>16. ASSUME NEW j \in Jars, Cleanup(j) PROVE Outline'
  BY <1>16 DEF Cleanup, Calm, Fault, Upset, Fails, Inside, instance, world,
     transaction, past, vars
<1>17. CASE Finish
  BY <1>17 DEF Finish, Calm, Returned, instance, world, transaction, past, vars
<1>18. ASSUME NEW j \in Jars, Undo(j) PROVE Outline'
  BY <1>18 DEF Undo, Calm, Fault, Upset, Inside, RollbackFails, Returned, instance,
     world, transaction, past, vars
<1>19. ASSUME NEW j \in Jars, Return(j) PROVE Outline'
  BY <1>19 DEF Return, Calm, Fault, Upset, Inside, RollbackFails, Returned, instance,
     world, transaction, past, vars
<1>20. CASE RestoreState
  <2>1. CASE RollbackFails
    BY <1>20, <2>1
       DEF RestoreState, RollbackFails, Returned, Inside, Undone, instance, world, transaction,
           past, vars
  <2>2. CASE Inside /\ state' = before.state
                 /\ UNCHANGED <<mods, pin, entry, step, staged, retired, backups, active,
                             documented, registered, torn, unsettled>>
    BY <1>20, <2>2 DEF RestoreState, Inside, Undone, instance, world, transaction, past, vars
  <2> QED
    BY <1>20, <2>1, <2>2 DEF RestoreState
<1>21. CASE RestoreEntry
  <2>1. CASE RollbackFails
    BY <1>21, <2>1
       DEF RestoreEntry, RollbackFails, Returned, Inside, Undone, instance, world, transaction,
           past, vars
  <2>2. CASE Inside /\ entry' = before.entry /\ state = before.state
                 /\ UNCHANGED <<mods, pin, state, step, staged, retired, backups, active,
                             documented, registered, torn, unsettled>>
    BY <1>21, <2>2 DEF RestoreEntry, Inside, Undone, instance, world, transaction, past, vars
  <2> QED
    BY <1>21, <2>1, <2>2 DEF RestoreEntry
<1>22. CASE RestoreRegistry
  <2>1. CASE RollbackFails
    BY <1>22, <2>1
       DEF RestoreRegistry, RollbackFails, Returned, Inside, Undone, instance, world, transaction,
           past, vars
  <2>2. CASE Inside /\ pin' = before.pin
                 /\ UNCHANGED <<mods, state, entry, step, staged, retired, backups, active,
                             documented, registered, torn, unsettled>>
    BY <1>22, <2>2 DEF RestoreRegistry, Inside, Undone, instance, world, transaction, past, vars
  <2> QED
    BY <1>22, <2>1, <2>2 DEF RestoreRegistry
<1>23. CASE RolledBack
  BY <1>23 DEF RolledBack, Undone, DocumentsBack, Calm, Returned, instance, world,
     transaction, past, vars
<1>24. CASE Command
  BY <1>24 DEF Command, Upset, instance, world, transaction, past, vars
<1>25. ASSUME NEW j \in Jars, Edit(j) PROVE Outline'
  BY <1>25 DEF Edit, Upset, instance, world, transaction, past, vars
<1>26. CASE Publish
  BY <1>26 DEF Publish, Upset, instance, world, transaction, past, vars
<1>27. CASE Play
  BY <1>27 DEF Play, Upset, instance, world, transaction, past, vars
<1>28. CASE Quit
  BY <1>28 DEF Quit, Calm, instance, world, transaction, past, vars
<1>29. CASE Crash
  BY <1>29 DEF Crash, Upset, Returned, instance, world, transaction, past, vars
<1>30. CASE UNCHANGED vars
  BY <1>30 DEF instance, world, transaction, past, vars
<1> QED
  BY <1>1, <1>2, <1>3, <1>4, <1>5, <1>6, <1>7, <1>8, <1>9, <1>10, <1>11, <1>12, <1>13,
     <1>14, <1>15, <1>16, <1>17, <1>18, <1>19, <1>20, <1>21, <1>22, <1>23, <1>24,
     <1>25, <1>26, <1>27, <1>28, <1>29, <1>30 DEF Next, Transaction

\* What was approved stays true: nothing but the update changes the instance
\* under its locks, except the files.
LEMMA ReviewedStep ==
    ASSUME TypeOK, Outline, Reviewed, [Next]_vars
    PROVE  Reviewed'
<1> USE NoneAssumption DEF Reviewed, Locked, Own, Planned
<1>1. CASE Preview
  BY <1>1 DEF Preview, Calm, instance, world, transaction, past, vars
<1>2. CASE Apply
  BY <1>2 DEF Apply, Calm, instance, world, transaction, past, vars
<1>3. CASE Acquire
  BY <1>3 DEF Acquire, Calm, Fault, Upset, Returned, instance, world, transaction,
     past, vars
<1>4. CASE Commit
  <2>1. CASE ~StillApproved
    BY <1>4, <2>1 DEF Commit, Returned
  <2>2. CASE StillApproved
    <3> DEFINE old == [pin |-> pin, state |-> state, entry |-> entry, mods |-> mods,
                       off |-> off, provided |-> provided]
    <3>1. before' = old /\ plan' = plan /\ off' = off /\ provided' = provided
      BY <1>4, <2>2 DEF Commit, Inside, instance
    <3>2. /\ old.pin = pin /\ old.state = state /\ old.entry = entry
          /\ old.mods = mods /\ old.off = off /\ old.provided = provided
      OBVIOUS
    <3>3. raced' \/ plan.provided = provided
      BY <1>4, <2>2 DEF Commit
    <3>4. approval[1] = pin
      BY <2>2 DEF StillApproved, Fingerprint
    <3>5. plan.release # pin
      BY <1>4, <3>4 DEF Commit, Outline, TypeOK, Releases
    <3> HIDE DEF old
    <3> QED
      BY <2>2, <3>1, <3>2, <3>3, <3>5
         DEF StillApproved, Valid, Agrees, Resolves, Unblocked
  <2> QED
    BY <2>1, <2>2
<1>5. CASE Guard
  BY <1>5 DEF Guard, Stopped, Calm, Returned, instance, world, transaction, past, vars
<1>6. ASSUME NEW j \in Jars, Stage(j) PROVE Reviewed'
  BY <1>6 DEF Stage, Calm, Fault, Upset, Fails, Inside, instance, world, transaction,
     past, vars
<1>7. ASSUME NEW j \in Jars, Retire(j) PROVE Reviewed'
  BY <1>7 DEF Retire, Calm, Fault, Upset, Fails, Inside, instance, world, transaction,
     past, vars
<1>8. CASE Retired
  BY <1>8 DEF Retired, Calm, Inside, instance, world, transaction, past, vars
<1>9. ASSUME NEW j \in Jars, Activate(j) PROVE Reviewed'
  BY <1>9 DEF Activate, Calm, Fault, Upset, Fails, Inside, instance, world,
     transaction, past, vars
<1>10. CASE Activated
  BY <1>10 DEF Activated, Calm, Inside, instance, world, transaction, past, vars
<1>11. CASE WriteState
  BY <1>11 DEF WriteState, Calm, Fault, Upset, Fails, Inside, instance, world,
     transaction, past, vars
<1>12. CASE WriteEntry
  BY <1>12 DEF WriteEntry, Calm, Fault, Upset, Fails, Inside, instance, world,
     transaction, past, vars
<1>13. CASE Validate
  BY <1>13 DEF Validate, Calm, Fault, Upset, Fails, Inside, instance, world,
     transaction, past, vars
<1>14. CASE Register
  BY <1>14 DEF Register, Calm, Fault, Upset, Fails, Inside, instance, world,
     transaction, past, vars
<1>15. CASE Verify
  BY <1>15 DEF Verify, Calm, Fault, Upset, Fails, Inside, instance, world, transaction,
     past, vars
<1>16. ASSUME NEW j \in Jars, Cleanup(j) PROVE Reviewed'
  BY <1>16 DEF Cleanup, Calm, Fault, Upset, Fails, Inside, instance, world,
     transaction, past, vars
<1>17. CASE Finish
  BY <1>17 DEF Finish, Calm, Returned, instance, world, transaction, past, vars
<1>18. ASSUME NEW j \in Jars, Undo(j) PROVE Reviewed'
  BY <1>18 DEF Undo, Calm, Fault, Upset, Inside, RollbackFails, Returned, instance,
     world, transaction, past, vars
<1>19. ASSUME NEW j \in Jars, Return(j) PROVE Reviewed'
  BY <1>19 DEF Return, Calm, Fault, Upset, Inside, RollbackFails, Returned, instance,
     world, transaction, past, vars
<1>20. CASE RestoreState
  <2>1. CASE RollbackFails
    BY <1>20, <2>1
       DEF RestoreState, RollbackFails, Returned, Inside, Undone, instance, world, transaction,
           past, vars
  <2>2. CASE Inside /\ state' = before.state
                 /\ UNCHANGED <<mods, pin, entry, step, staged, retired, backups, active,
                             documented, registered, torn, unsettled>>
    BY <1>20, <2>2 DEF RestoreState, Inside, Undone, instance, world, transaction, past, vars
  <2> QED
    BY <1>20, <2>1, <2>2 DEF RestoreState
<1>21. CASE RestoreEntry
  <2>1. CASE RollbackFails
    BY <1>21, <2>1
       DEF RestoreEntry, RollbackFails, Returned, Inside, Undone, instance, world, transaction,
           past, vars
  <2>2. CASE Inside /\ entry' = before.entry /\ state = before.state
                 /\ UNCHANGED <<mods, pin, state, step, staged, retired, backups, active,
                             documented, registered, torn, unsettled>>
    BY <1>21, <2>2 DEF RestoreEntry, Inside, Undone, instance, world, transaction, past, vars
  <2> QED
    BY <1>21, <2>1, <2>2 DEF RestoreEntry
<1>22. CASE RestoreRegistry
  <2>1. CASE RollbackFails
    BY <1>22, <2>1
       DEF RestoreRegistry, RollbackFails, Returned, Inside, Undone, instance, world, transaction,
           past, vars
  <2>2. CASE Inside /\ pin' = before.pin
                 /\ UNCHANGED <<mods, state, entry, step, staged, retired, backups, active,
                             documented, registered, torn, unsettled>>
    BY <1>22, <2>2 DEF RestoreRegistry, Inside, Undone, instance, world, transaction, past, vars
  <2> QED
    BY <1>22, <2>1, <2>2 DEF RestoreRegistry
<1>23. CASE RolledBack
  BY <1>23 DEF RolledBack, Undone, DocumentsBack, Calm, Returned, instance, world,
     transaction, past, vars
<1>24. CASE Command
  BY <1>24 DEF Command, Upset, instance, world, transaction, past, vars
<1>25. ASSUME NEW j \in Jars, Edit(j) PROVE Reviewed'
  BY <1>25 DEF Edit, Upset, instance, world, transaction, past, vars
<1>26. CASE Publish
  BY <1>26 DEF Publish, Upset, instance, world, transaction, past, vars
<1>27. CASE Play
  BY <1>27 DEF Play, Upset, instance, world, transaction, past, vars
<1>28. CASE Quit
  BY <1>28 DEF Quit, Calm, instance, world, transaction, past, vars
<1>29. CASE Crash
  BY <1>29 DEF Crash, Upset, Returned, instance, world, transaction, past, vars
<1>30. CASE UNCHANGED vars
  BY <1>30 DEF instance, world, transaction, past, vars
<1> QED
  BY <1>1, <1>2, <1>3, <1>4, <1>5, <1>6, <1>7, <1>8, <1>9, <1>10, <1>11, <1>12, <1>13,
     <1>14, <1>15, <1>16, <1>17, <1>18, <1>19, <1>20, <1>21, <1>22, <1>23, <1>24,
     <1>25, <1>26, <1>27, <1>28, <1>29, <1>30 DEF Next, Transaction

\* It stages what it plans, retires the rest of the old client, and places
\* what it staged.
LEMMA SetsStep ==
    ASSUME TypeOK, Outline, Sets, [Next]_vars
    PROVE  Sets'
<1> USE NoneAssumption DEF Sets, Locked, Exchanging, ToStage, ToRetire, Planned, Own
<1>1. CASE Preview
  BY <1>1 DEF Preview, Calm, instance, world, transaction, past, vars
<1>2. CASE Apply
  BY <1>2 DEF Apply, Calm, instance, world, transaction, past, vars
<1>3. CASE Acquire
  BY <1>3 DEF Acquire, Calm, Fault, Upset, Returned, instance, world, transaction,
     past, vars
<1>4. CASE Commit
  BY <1>4 DEF Commit, Calm, Returned, Outline, Fresh, instance, world, transaction,
     past, vars
<1>5. CASE Guard
  BY <1>5 DEF Guard, Stopped, Calm, Returned, Outline, Fresh, instance, world,
     transaction, past, vars
<1>6. ASSUME NEW j \in Jars, Stage(j) PROVE Sets'
  BY <1>6 DEF Stage, Calm, Fault, Upset, Fails, Inside, instance, world, transaction,
     past, vars
<1>7. ASSUME NEW j \in Jars, Retire(j) PROVE Sets'
  BY <1>7 DEF Retire, Calm, Fault, Upset, Fails, Inside, instance, world, transaction,
     past, vars
<1>8. CASE Retired
  BY <1>8 DEF Retired, Calm, Inside, instance, world, transaction, past, vars
<1>9. ASSUME NEW j \in Jars, Activate(j) PROVE Sets'
  BY <1>9 DEF Activate, Calm, Fault, Upset, Fails, Inside, instance, world,
     transaction, past, vars
<1>10. CASE Activated
  BY <1>10 DEF Activated, Calm, Inside, instance, world, transaction, past, vars
<1>11. CASE WriteState
  BY <1>11 DEF WriteState, Calm, Fault, Upset, Fails, Inside, instance, world,
     transaction, past, vars
<1>12. CASE WriteEntry
  BY <1>12 DEF WriteEntry, Calm, Fault, Upset, Fails, Inside, instance, world,
     transaction, past, vars
<1>13. CASE Validate
  BY <1>13 DEF Validate, Calm, Fault, Upset, Fails, Inside, instance, world,
     transaction, past, vars
<1>14. CASE Register
  BY <1>14 DEF Register, Calm, Fault, Upset, Fails, Inside, instance, world,
     transaction, past, vars
<1>15. CASE Verify
  BY <1>15 DEF Verify, Calm, Fault, Upset, Fails, Inside, instance, world, transaction,
     past, vars
<1>16. ASSUME NEW j \in Jars, Cleanup(j) PROVE Sets'
  BY <1>16 DEF Cleanup, Calm, Fault, Upset, Fails, Inside, instance, world,
     transaction, past, vars
<1>17. CASE Finish
  BY <1>17 DEF Finish, Calm, Returned, instance, world, transaction, past, vars
<1>18. ASSUME NEW j \in Jars, Undo(j) PROVE Sets'
  BY <1>18 DEF Undo, Calm, Fault, Upset, Inside, RollbackFails, Returned, instance,
     world, transaction, past, vars
<1>19. ASSUME NEW j \in Jars, Return(j) PROVE Sets'
  BY <1>19 DEF Return, Calm, Fault, Upset, Inside, RollbackFails, Returned, instance,
     world, transaction, past, vars
<1>20. CASE RestoreState
  <2>1. CASE RollbackFails
    BY <1>20, <2>1
       DEF RestoreState, RollbackFails, Returned, Inside, Undone, instance, world, transaction,
           past, vars
  <2>2. CASE Inside /\ state' = before.state
                 /\ UNCHANGED <<mods, pin, entry, step, staged, retired, backups, active,
                             documented, registered, torn, unsettled>>
    BY <1>20, <2>2 DEF RestoreState, Inside, Undone, instance, world, transaction, past, vars
  <2> QED
    BY <1>20, <2>1, <2>2 DEF RestoreState
<1>21. CASE RestoreEntry
  <2>1. CASE RollbackFails
    BY <1>21, <2>1
       DEF RestoreEntry, RollbackFails, Returned, Inside, Undone, instance, world, transaction,
           past, vars
  <2>2. CASE Inside /\ entry' = before.entry /\ state = before.state
                 /\ UNCHANGED <<mods, pin, state, step, staged, retired, backups, active,
                             documented, registered, torn, unsettled>>
    BY <1>21, <2>2 DEF RestoreEntry, Inside, Undone, instance, world, transaction, past, vars
  <2> QED
    BY <1>21, <2>1, <2>2 DEF RestoreEntry
<1>22. CASE RestoreRegistry
  <2>1. CASE RollbackFails
    BY <1>22, <2>1
       DEF RestoreRegistry, RollbackFails, Returned, Inside, Undone, instance, world, transaction,
           past, vars
  <2>2. CASE Inside /\ pin' = before.pin
                 /\ UNCHANGED <<mods, state, entry, step, staged, retired, backups, active,
                             documented, registered, torn, unsettled>>
    BY <1>22, <2>2 DEF RestoreRegistry, Inside, Undone, instance, world, transaction, past, vars
  <2> QED
    BY <1>22, <2>1, <2>2 DEF RestoreRegistry
<1>23. CASE RolledBack
  BY <1>23 DEF RolledBack, Undone, DocumentsBack, Calm, Returned, instance, world,
     transaction, past, vars
<1>24. CASE Command
  BY <1>24 DEF Command, Upset, instance, world, transaction, past, vars
<1>25. ASSUME NEW j \in Jars, Edit(j) PROVE Sets'
  BY <1>25 DEF Edit, Upset, instance, world, transaction, past, vars
<1>26. CASE Publish
  BY <1>26 DEF Publish, Upset, instance, world, transaction, past, vars
<1>27. CASE Play
  BY <1>27 DEF Play, Upset, instance, world, transaction, past, vars
<1>28. CASE Quit
  BY <1>28 DEF Quit, Calm, instance, world, transaction, past, vars
<1>29. CASE Crash
  BY <1>29 DEF Crash, Upset, Returned, instance, world, transaction, past, vars
<1>30. CASE UNCHANGED vars
  BY <1>30 DEF instance, world, transaction, past, vars
<1> QED
  BY <1>1, <1>2, <1>3, <1>4, <1>5, <1>6, <1>7, <1>8, <1>9, <1>10, <1>11, <1>12, <1>13,
     <1>14, <1>15, <1>16, <1>17, <1>18, <1>19, <1>20, <1>21, <1>22, <1>23, <1>24,
     <1>25, <1>26, <1>27, <1>28, <1>29, <1>30 DEF Next, Transaction

\* State and release entry are written in their order, and put back together.
LEMMA DocumentsStep ==
    ASSUME TypeOK, Outline, Reviewed, DocumentsFollow, [Next]_vars
    PROVE  DocumentsFollow'
<1> USE NoneAssumption DEF DocumentsFollow, Locked, NewState, NewApi
<1>1. CASE Preview
  BY <1>1 DEF Preview, Calm, instance, world, transaction, past, vars
<1>2. CASE Apply
  BY <1>2 DEF Apply, Calm, instance, world, transaction, past, vars
<1>3. CASE Acquire
  BY <1>3 DEF Acquire, Calm, Fault, Upset, Returned, instance, world, transaction,
     past, vars
<1>4. CASE Commit
  BY <1>4 DEF Commit, Calm, Returned, Outline, Fresh, instance, world, transaction,
     past, vars
<1>5. CASE Guard
  BY <1>5 DEF Guard, Stopped, Calm, Returned, instance, world, transaction, past, vars
<1>6. ASSUME NEW j \in Jars, Stage(j) PROVE DocumentsFollow'
  BY <1>6 DEF Stage, Calm, Fault, Upset, Fails, Inside, instance, world, transaction,
     past, vars
<1>7. ASSUME NEW j \in Jars, Retire(j) PROVE DocumentsFollow'
  BY <1>7 DEF Retire, Calm, Fault, Upset, Fails, Inside, instance, world, transaction,
     past, vars
<1>8. CASE Retired
  BY <1>8 DEF Retired, Calm, Inside, instance, world, transaction, past, vars
<1>9. ASSUME NEW j \in Jars, Activate(j) PROVE DocumentsFollow'
  BY <1>9 DEF Activate, Calm, Fault, Upset, Fails, Inside, instance, world,
     transaction, past, vars
<1>10. CASE Activated
  BY <1>10 DEF Activated, Calm, Inside, instance, world, transaction, past, vars
<1>11. CASE WriteState
  BY <1>11 DEF WriteState, Calm, Fault, Upset, Fails, Inside, instance, world,
     transaction, past, vars
<1>12. CASE WriteEntry
  BY <1>12 DEF WriteEntry, Calm, Fault, Upset, Fails, Inside, instance, world,
     transaction, past, vars
<1>13. CASE Validate
  BY <1>13 DEF Validate, Calm, Fault, Upset, Fails, Inside, Agrees, instance, world,
     transaction, past, vars
<1>14. CASE Register
  BY <1>14 DEF Register, Calm, Fault, Upset, Fails, Inside, instance, world,
     transaction, past, vars
<1>15. CASE Verify
  BY <1>15 DEF Verify, Calm, Fault, Upset, Fails, Inside, instance, world, transaction,
     past, vars
<1>16. ASSUME NEW j \in Jars, Cleanup(j) PROVE DocumentsFollow'
  BY <1>16 DEF Cleanup, Calm, Fault, Upset, Fails, Inside, instance, world,
     transaction, past, vars
<1>17. CASE Finish
  BY <1>17 DEF Finish, Calm, Returned, instance, world, transaction, past, vars
<1>18. ASSUME NEW j \in Jars, Undo(j) PROVE DocumentsFollow'
  BY <1>18 DEF Undo, Calm, Fault, Upset, Inside, RollbackFails, Returned, instance,
     world, transaction, past, vars
<1>19. ASSUME NEW j \in Jars, Return(j) PROVE DocumentsFollow'
  BY <1>19 DEF Return, Calm, Fault, Upset, Inside, RollbackFails, Returned, instance,
     world, transaction, past, vars
<1>20. CASE RestoreState
  <2>1. CASE RollbackFails
    BY <1>20, <2>1
       DEF RestoreState, RollbackFails, Returned, Inside, Undone, instance, world, transaction,
           past, vars
  <2>2. CASE Inside /\ state' = before.state
                 /\ UNCHANGED <<mods, pin, entry, step, staged, retired, backups, active,
                             documented, registered, torn, unsettled>>
    BY <1>20, <2>2 DEF RestoreState, Inside, Undone, instance, world, transaction, past, vars
  <2> QED
    BY <1>20, <2>1, <2>2 DEF RestoreState
<1>21. CASE RestoreEntry
  <2>1. CASE RollbackFails
    BY <1>21, <2>1
       DEF RestoreEntry, RollbackFails, Returned, Inside, Undone, instance, world, transaction,
           past, vars
  <2>2. CASE Inside /\ entry' = before.entry /\ state = before.state
                 /\ UNCHANGED <<mods, pin, state, step, staged, retired, backups, active,
                             documented, registered, torn, unsettled>>
    BY <1>21, <2>2 DEF RestoreEntry, Inside, Undone, instance, world, transaction, past, vars
  <2> QED
    BY <1>21, <2>1, <2>2 DEF RestoreEntry
<1>22. CASE RestoreRegistry
  <2>1. CASE RollbackFails
    BY <1>22, <2>1
       DEF RestoreRegistry, RollbackFails, Returned, Inside, Undone, instance, world, transaction,
           past, vars
  <2>2. CASE Inside /\ pin' = before.pin
                 /\ UNCHANGED <<mods, state, entry, step, staged, retired, backups, active,
                             documented, registered, torn, unsettled>>
    BY <1>22, <2>2 DEF RestoreRegistry, Inside, Undone, instance, world, transaction, past, vars
  <2> QED
    BY <1>22, <2>1, <2>2 DEF RestoreRegistry
<1>23. CASE RolledBack
  BY <1>23 DEF RolledBack, Undone, DocumentsBack, Calm, Returned, instance, world,
     transaction, past, vars
<1>24. CASE Command
  BY <1>24 DEF Command, Upset, instance, world, transaction, past, vars
<1>25. ASSUME NEW j \in Jars, Edit(j) PROVE DocumentsFollow'
  BY <1>25 DEF Edit, Upset, instance, world, transaction, past, vars
<1>26. CASE Publish
  BY <1>26 DEF Publish, Upset, instance, world, transaction, past, vars
<1>27. CASE Play
  BY <1>27 DEF Play, Upset, instance, world, transaction, past, vars
<1>28. CASE Quit
  BY <1>28 DEF Quit, Calm, instance, world, transaction, past, vars
<1>29. CASE Crash
  BY <1>29 DEF Crash, Upset, Returned, instance, world, transaction, past, vars
<1>30. CASE UNCHANGED vars
  BY <1>30 DEF instance, world, transaction, past, vars
<1> QED
  BY <1>1, <1>2, <1>3, <1>4, <1>5, <1>6, <1>7, <1>8, <1>9, <1>10, <1>11, <1>12, <1>13,
     <1>14, <1>15, <1>16, <1>17, <1>18, <1>19, <1>20, <1>21, <1>22, <1>23, <1>24,
     <1>25, <1>26, <1>27, <1>28, <1>29, <1>30 DEF Next, Transaction

\* The pin is written after the documents, and put back after them.
LEMMA PinStep ==
    ASSUME TypeOK, Outline, PinFollows, [Next]_vars
    PROVE  PinFollows'
<1> USE NoneAssumption DEF PinFollows, Locked
<1>1. CASE Preview
  BY <1>1 DEF Preview, Calm, instance, world, transaction, past, vars
<1>2. CASE Apply
  BY <1>2 DEF Apply, Calm, instance, world, transaction, past, vars
<1>3. CASE Acquire
  BY <1>3 DEF Acquire, Calm, Fault, Upset, Returned, instance, world, transaction,
     past, vars
<1>4. CASE Commit
  BY <1>4 DEF Commit, Calm, Returned, Outline, Fresh, instance, world, transaction,
     past, vars
<1>5. CASE Guard
  BY <1>5 DEF Guard, Stopped, Calm, Returned, instance, world, transaction, past, vars
<1>6. ASSUME NEW j \in Jars, Stage(j) PROVE PinFollows'
  BY <1>6 DEF Stage, Calm, Fault, Upset, Fails, Inside, instance, world, transaction,
     past, vars
<1>7. ASSUME NEW j \in Jars, Retire(j) PROVE PinFollows'
  BY <1>7 DEF Retire, Calm, Fault, Upset, Fails, Inside, instance, world, transaction,
     past, vars
<1>8. CASE Retired
  BY <1>8 DEF Retired, Calm, Inside, instance, world, transaction, past, vars
<1>9. ASSUME NEW j \in Jars, Activate(j) PROVE PinFollows'
  BY <1>9 DEF Activate, Calm, Fault, Upset, Fails, Inside, instance, world,
     transaction, past, vars
<1>10. CASE Activated
  BY <1>10 DEF Activated, Calm, Inside, instance, world, transaction, past, vars
<1>11. CASE WriteState
  BY <1>11 DEF WriteState, Calm, Fault, Upset, Fails, Inside, instance, world,
     transaction, past, vars
<1>12. CASE WriteEntry
  BY <1>12 DEF WriteEntry, Calm, Fault, Upset, Fails, Inside, instance, world,
     transaction, past, vars
<1>13. CASE Validate
  BY <1>13 DEF Validate, Calm, Fault, Upset, Fails, Inside, instance, world,
     transaction, past, vars
<1>14. CASE Register
  BY <1>14 DEF Register, Calm, Fault, Upset, Fails, Inside, instance, world,
     transaction, past, vars
<1>15. CASE Verify
  BY <1>15 DEF Verify, Calm, Fault, Upset, Fails, Inside, instance, world, transaction,
     past, vars
<1>16. ASSUME NEW j \in Jars, Cleanup(j) PROVE PinFollows'
  BY <1>16 DEF Cleanup, Calm, Fault, Upset, Fails, Inside, instance, world,
     transaction, past, vars
<1>17. CASE Finish
  BY <1>17 DEF Finish, Calm, Returned, instance, world, transaction, past, vars
<1>18. ASSUME NEW j \in Jars, Undo(j) PROVE PinFollows'
  BY <1>18 DEF Undo, Calm, Fault, Upset, Inside, RollbackFails, Returned, instance,
     world, transaction, past, vars
<1>19. ASSUME NEW j \in Jars, Return(j) PROVE PinFollows'
  BY <1>19 DEF Return, Calm, Fault, Upset, Inside, RollbackFails, Returned, instance,
     world, transaction, past, vars
<1>20. CASE RestoreState
  <2>1. CASE RollbackFails
    BY <1>20, <2>1
       DEF RestoreState, RollbackFails, Returned, Inside, Undone, instance, world, transaction,
           past, vars
  <2>2. CASE Inside /\ state' = before.state
                 /\ UNCHANGED <<mods, pin, entry, step, staged, retired, backups, active,
                             documented, registered, torn, unsettled>>
    BY <1>20, <2>2 DEF RestoreState, Inside, Undone, instance, world, transaction, past, vars
  <2> QED
    BY <1>20, <2>1, <2>2 DEF RestoreState
<1>21. CASE RestoreEntry
  <2>1. CASE RollbackFails
    BY <1>21, <2>1
       DEF RestoreEntry, RollbackFails, Returned, Inside, Undone, instance, world, transaction,
           past, vars
  <2>2. CASE Inside /\ entry' = before.entry /\ state = before.state
                 /\ UNCHANGED <<mods, pin, state, step, staged, retired, backups, active,
                             documented, registered, torn, unsettled>>
    BY <1>21, <2>2 DEF RestoreEntry, Inside, Undone, instance, world, transaction, past, vars
  <2> QED
    BY <1>21, <2>1, <2>2 DEF RestoreEntry
<1>22. CASE RestoreRegistry
  <2>1. CASE RollbackFails
    BY <1>22, <2>1
       DEF RestoreRegistry, RollbackFails, Returned, Inside, Undone, instance, world, transaction,
           past, vars
  <2>2. CASE Inside /\ pin' = before.pin
                 /\ UNCHANGED <<mods, state, entry, step, staged, retired, backups, active,
                             documented, registered, torn, unsettled>>
    BY <1>22, <2>2 DEF RestoreRegistry, Inside, Undone, instance, world, transaction, past, vars
  <2> QED
    BY <1>22, <2>1, <2>2 DEF RestoreRegistry
<1>23. CASE RolledBack
  BY <1>23 DEF RolledBack, Undone, DocumentsBack, Calm, Returned, instance, world,
     transaction, past, vars
<1>24. CASE Command
  BY <1>24 DEF Command, Upset, instance, world, transaction, past, vars
<1>25. ASSUME NEW j \in Jars, Edit(j) PROVE PinFollows'
  BY <1>25 DEF Edit, Upset, instance, world, transaction, past, vars
<1>26. CASE Publish
  BY <1>26 DEF Publish, Upset, instance, world, transaction, past, vars
<1>27. CASE Play
  BY <1>27 DEF Play, Upset, instance, world, transaction, past, vars
<1>28. CASE Quit
  BY <1>28 DEF Quit, Calm, instance, world, transaction, past, vars
<1>29. CASE Crash
  BY <1>29 DEF Crash, Upset, Returned, instance, world, transaction, past, vars
<1>30. CASE UNCHANGED vars
  BY <1>30 DEF instance, world, transaction, past, vars
<1> QED
  BY <1>1, <1>2, <1>3, <1>4, <1>5, <1>6, <1>7, <1>8, <1>9, <1>10, <1>11, <1>12, <1>13,
     <1>14, <1>15, <1>16, <1>17, <1>18, <1>19, <1>20, <1>21, <1>22, <1>23, <1>24,
     <1>25, <1>26, <1>27, <1>28, <1>29, <1>30 DEF Next, Transaction

\* An update leaves an instance that validates as it found one.
LEMMA ReadyStep ==
    ASSUME TypeOK, Outline, Reviewed, DocumentsFollow, PinFollows, Ready, [Next]_vars
    PROVE  Ready'
<1> USE NoneAssumption DEF Ready, Locked, Settled, Resolves
<1>1. CASE Preview
  BY <1>1 DEF Preview, Calm, instance, world, transaction, past, vars
<1>2. CASE Apply
  BY <1>2 DEF Apply, Calm, instance, world, transaction, past, vars
<1>3. CASE Acquire
  BY <1>3 DEF Acquire, Calm, Fault, Upset, Returned, instance, world, transaction,
     past, vars
<1>4. CASE Commit
  BY <1>4 DEF Commit, Calm, Returned, instance, world, transaction, past, vars
<1>5. CASE Guard
  BY <1>5 DEF Guard, Stopped, Calm, Returned, Reviewed, DocumentsFollow, PinFollows, NewState,
     NewApi, TypeOK, State, instance, world, transaction, past, vars
<1>6. ASSUME NEW j \in Jars, Stage(j) PROVE Ready'
  BY <1>6 DEF Stage, Calm, Fault, Upset, Fails, Inside, instance, world, transaction,
     past, vars
<1>7. ASSUME NEW j \in Jars, Retire(j) PROVE Ready'
  BY <1>7 DEF Retire, Calm, Fault, Upset, Fails, Inside, instance, world, transaction,
     past, vars
<1>8. CASE Retired
  BY <1>8 DEF Retired, Calm, Inside, instance, world, transaction, past, vars
<1>9. ASSUME NEW j \in Jars, Activate(j) PROVE Ready'
  BY <1>9 DEF Activate, Calm, Fault, Upset, Fails, Inside, instance, world,
     transaction, past, vars
<1>10. CASE Activated
  BY <1>10 DEF Activated, Calm, Inside, instance, world, transaction, past, vars
<1>11. CASE WriteState
  BY <1>11 DEF WriteState, Calm, Fault, Upset, Fails, Inside, instance, world,
     transaction, past, vars
<1>12. CASE WriteEntry
  BY <1>12 DEF WriteEntry, Calm, Fault, Upset, Fails, Inside, instance, world,
     transaction, past, vars
<1>13. CASE Validate
  BY <1>13 DEF Validate, Calm, Fault, Upset, Fails, Inside, instance, world,
     transaction, past, vars
<1>14. CASE Register
  BY <1>14 DEF Register, Calm, Fault, Upset, Fails, Inside, instance, world,
     transaction, past, vars
<1>15. CASE Verify
  BY <1>15 DEF Verify, Calm, Fault, Upset, Fails, Inside, instance, world, transaction,
     past, vars
<1>16. ASSUME NEW j \in Jars, Cleanup(j) PROVE Ready'
  BY <1>16 DEF Cleanup, Calm, Fault, Upset, Fails, Inside, instance, world,
     transaction, past, vars
<1>17. CASE Finish
  BY <1>17 DEF Finish, Calm, Returned, DocumentsFollow, PinFollows, NewState, NewApi, TypeOK,
     State, instance, world, transaction, past, vars
<1>18. ASSUME NEW j \in Jars, Undo(j) PROVE Ready'
  BY <1>18 DEF Undo, Calm, Fault, Upset, Inside, RollbackFails, Returned, DocumentsFollow,
     PinFollows, NewState, NewApi, TypeOK, State, instance, world, transaction, past, vars
<1>19. ASSUME NEW j \in Jars, Return(j) PROVE Ready'
  BY <1>19 DEF Return, Calm, Fault, Upset, Inside, RollbackFails, Returned, DocumentsFollow,
     PinFollows, NewState, NewApi, TypeOK, State, instance, world, transaction, past, vars
<1>20. CASE RestoreState
  <2>1. CASE RollbackFails
    BY <1>20, <2>1
       DEF RestoreState, RollbackFails, Returned, Inside, Undone, instance, world, transaction,
           past, vars
  <2>2. CASE Inside /\ state' = before.state
                 /\ UNCHANGED <<mods, pin, entry, step, staged, retired, backups, active,
                             documented, registered, torn, unsettled>>
    BY <1>20, <2>2 DEF RestoreState, Inside, Undone, instance, world, transaction, past, vars
  <2> QED
    BY <1>20, <2>1, <2>2 DEF RestoreState
<1>21. CASE RestoreEntry
  <2>1. CASE RollbackFails
    BY <1>21, <2>1
       DEF RestoreEntry, RollbackFails, Returned, Inside, Undone, instance, world, transaction,
           past, vars
  <2>2. CASE Inside /\ entry' = before.entry /\ state = before.state
                 /\ UNCHANGED <<mods, pin, state, step, staged, retired, backups, active,
                             documented, registered, torn, unsettled>>
    BY <1>21, <2>2 DEF RestoreEntry, Inside, Undone, instance, world, transaction, past, vars
  <2> QED
    BY <1>21, <2>1, <2>2 DEF RestoreEntry
<1>22. CASE RestoreRegistry
  <2>1. CASE RollbackFails
    BY <1>22, <2>1
       DEF RestoreRegistry, RollbackFails, Returned, Inside, Undone, instance, world, transaction,
           past, vars
  <2>2. CASE Inside /\ pin' = before.pin
                 /\ UNCHANGED <<mods, state, entry, step, staged, retired, backups, active,
                             documented, registered, torn, unsettled>>
    BY <1>22, <2>2 DEF RestoreRegistry, Inside, Undone, instance, world, transaction, past, vars
  <2> QED
    BY <1>22, <2>1, <2>2 DEF RestoreRegistry
<1>23. CASE RolledBack
  BY <1>23 DEF RolledBack, Undone, DocumentsBack, Calm, Returned, Reviewed, DocumentsFollow,
     PinFollows, NewState, NewApi, TypeOK, State, instance, world, transaction, past, vars
<1>24. CASE Command
  BY <1>24 DEF Command, Upset, instance, world, transaction, past, vars
<1>25. ASSUME NEW j \in Jars, Edit(j) PROVE Ready'
  BY <1>25 DEF Edit, Upset, instance, world, transaction, past, vars
<1>26. CASE Publish
  BY <1>26 DEF Publish, Upset, instance, world, transaction, past, vars
<1>27. CASE Play
  BY <1>27 DEF Play, Upset, instance, world, transaction, past, vars
<1>28. CASE Quit
  BY <1>28 DEF Quit, Calm, instance, world, transaction, past, vars
<1>29. CASE Crash
  BY <1>29 DEF Crash, Upset, Returned, Reviewed, DocumentsFollow, PinFollows, NewState, NewApi,
     TypeOK, State, Guarded, instance, world, transaction, past, vars
<1>30. CASE UNCHANGED vars
  BY <1>30 DEF instance, world, transaction, past, vars
<1> QED
  BY <1>1, <1>2, <1>3, <1>4, <1>5, <1>6, <1>7, <1>8, <1>9, <1>10, <1>11, <1>12, <1>13,
     <1>14, <1>15, <1>16, <1>17, <1>18, <1>19, <1>20, <1>21, <1>22, <1>23, <1>24,
     <1>25, <1>26, <1>27, <1>28, <1>29, <1>30 DEF Next, Transaction

\* The type of every variable that is not a flag.
Shapes ==
    /\ mods \in [Jars -> Content] /\ off \subseteq Jars
    /\ pin \in Releases /\ state \in State /\ entry \in Releases \cup {None}
    /\ published \subseteq Releases /\ step \in Steps
    /\ staged \subseteq Jars /\ retired \subseteq Jars /\ active \subseteq staged
    /\ backups \in [Jars -> Content]
    /\ updates \in 0 .. MaxUpdates /\ upsets \in 0 .. MaxUpsets
    /\ edited \subseteq Jars /\ exposed \subseteq Jars

Plans == [release : Releases \cup {None}, provided : BOOLEAN]

Flags ==
    /\ provided \in BOOLEAN /\ playing \in BOOLEAN
    /\ documented \in BOOLEAN /\ registered \in BOOLEAN /\ raced \in BOOLEAN
    /\ torn \in BOOLEAN /\ unsettled \in BOOLEAN

\* Every step writes values of the types.
LEMMA ShapesStep ==
    ASSUME Shapes, Outline, [Next]_vars
    PROVE  Shapes'
<1> USE NoneAssumption, BoundsAssumption, ReleasesAssumption DEF Shapes, State,
   Content, Steps, NoPlan, NoBackups, Jars
<1>1. CASE Preview
  BY <1>1 DEF Preview, Calm, instance, world, transaction, past, vars
<1>2. CASE Apply
  BY <1>2 DEF Apply, Calm, instance, world, transaction, past, vars
<1>3. CASE Acquire
  BY <1>3 DEF Acquire, Calm, Fault, Upset, Returned, Locked, Snapshots, NewApi, instance, world,
     transaction, past, vars
<1>4. CASE Commit
  BY <1>4 DEF Commit, Calm, Returned, Locked, Snapshots, NewApi, instance, world, transaction,
     past, vars
<1>5. CASE Guard
  BY <1>5 DEF Guard, Stopped, Calm, Returned, instance, world, transaction, past, vars
<1>6. ASSUME NEW j \in Jars, Stage(j) PROVE Shapes'
  BY <1>6 DEF Stage, Calm, Fault, Upset, Fails, Inside, Locked, Snapshots, NewApi, instance,
     world, transaction, past, vars
<1>7. ASSUME NEW j \in Jars, Retire(j) PROVE Shapes'
  BY <1>7 DEF Retire, Calm, Fault, Upset, Fails, Inside, Locked, Snapshots, NewApi, instance,
     world, transaction, past, vars
<1>8. CASE Retired
  BY <1>8 DEF Retired, Calm, Inside, instance, world, transaction, past, vars
<1>9. ASSUME NEW j \in Jars, Activate(j) PROVE Shapes'
  BY <1>9 DEF Activate, Calm, Fault, Upset, Fails, Inside, Locked, Snapshots, NewApi, instance,
     world, transaction, past, vars
<1>10. CASE Activated
  BY <1>10 DEF Activated, Calm, Inside, instance, world, transaction, past, vars
<1>11. CASE WriteState
  BY <1>11 DEF WriteState, Calm, Fault, Upset, Fails, Inside, Outline, Locked,
     Snapshots, NewApi, instance, world, transaction, past, vars
<1>12. CASE WriteEntry
  BY <1>12 DEF WriteEntry, Calm, Fault, Upset, Fails, Inside, Outline, Locked,
     Snapshots, NewApi, instance, world, transaction, past, vars
<1>13. CASE Validate
  BY <1>13 DEF Validate, Calm, Fault, Upset, Fails, Inside, instance, world,
     transaction, past, vars
<1>14. CASE Register
  BY <1>14 DEF Register, Calm, Fault, Upset, Fails, Inside, Outline, Locked, Snapshots,
     NewApi, instance, world, transaction, past, vars
<1>15. CASE Verify
  BY <1>15 DEF Verify, Calm, Fault, Upset, Fails, Inside, instance, world, transaction,
     past, vars
<1>16. ASSUME NEW j \in Jars, Cleanup(j) PROVE Shapes'
  BY <1>16 DEF Cleanup, Calm, Fault, Upset, Fails, Inside, Locked, Snapshots, NewApi, instance,
     world, transaction, past, vars
<1>17. CASE Finish
  BY <1>17 DEF Finish, Calm, Returned, instance, world, transaction, past, vars
<1>18. ASSUME NEW j \in Jars, Undo(j) PROVE Shapes'
  BY <1>18 DEF Undo, Calm, Fault, Upset, Inside, RollbackFails, Returned, Locked, Snapshots,
     NewApi, instance, world, transaction, past, vars
<1>19. ASSUME NEW j \in Jars, Return(j) PROVE Shapes'
  BY <1>19 DEF Return, Calm, Fault, Upset, Inside, RollbackFails, Returned, Locked, Snapshots,
     NewApi, instance, world, transaction, past, vars
<1>20. CASE RestoreState
  <2>1. CASE RollbackFails
    BY <1>20, <2>1 DEF RestoreState, RollbackFails, Returned, Inside, Undone, instance, world,
       transaction, past, vars, Locked, Snapshots, Calm, Fault, Upset
  <2>2. CASE Inside /\ state' = before.state
                 /\ UNCHANGED <<mods, pin, entry, step, staged, retired, backups, active,
                             documented, registered, torn, unsettled>>
    BY <1>20, <2>2
       DEF RestoreState, Inside, Undone, instance, world, transaction, past, vars, Outline,
           Locked, Snapshots, Calm, Fault, Upset
  <2> QED
    BY <1>20, <2>1, <2>2 DEF RestoreState
<1>21. CASE RestoreEntry
  <2>1. CASE RollbackFails
    BY <1>21, <2>1 DEF RestoreEntry, RollbackFails, Returned, Inside, Undone, instance, world,
       transaction, past, vars, Locked, Snapshots, Calm, Fault, Upset
  <2>2. CASE Inside /\ entry' = before.entry /\ state = before.state
                 /\ UNCHANGED <<mods, pin, state, step, staged, retired, backups, active,
                             documented, registered, torn, unsettled>>
    BY <1>21, <2>2
       DEF RestoreEntry, Inside, Undone, instance, world, transaction, past, vars, Outline,
           Locked, Snapshots, Calm, Fault, Upset
  <2> QED
    BY <1>21, <2>1, <2>2 DEF RestoreEntry
<1>22. CASE RestoreRegistry
  <2>1. CASE RollbackFails
    BY <1>22, <2>1 DEF RestoreRegistry, RollbackFails, Returned, Inside, Undone, instance, world,
       transaction, past, vars, Locked, Snapshots, Calm, Fault, Upset
  <2>2. CASE Inside /\ pin' = before.pin
                 /\ UNCHANGED <<mods, state, entry, step, staged, retired, backups, active,
                             documented, registered, torn, unsettled>>
    BY <1>22, <2>2
       DEF RestoreRegistry, Inside, Undone, instance, world, transaction, past, vars, Outline,
           Locked, Snapshots, Calm, Fault, Upset
  <2> QED
    BY <1>22, <2>1, <2>2 DEF RestoreRegistry
<1>23. CASE RolledBack
  BY <1>23 DEF RolledBack, Undone, DocumentsBack, Calm, Returned, instance, world,
     transaction, past, vars
<1>24. CASE Command
  BY <1>24 DEF Command, Upset, Own, instance, world, transaction, past, vars
<1>25. ASSUME NEW j \in Jars, Edit(j) PROVE Shapes'
  BY <1>25 DEF Edit, Upset, instance, world, transaction, past, vars
<1>26. CASE Publish
  BY <1>26 DEF Publish, Upset, instance, world, transaction, past, vars
<1>27. CASE Play
  BY <1>27 DEF Play, Upset, instance, world, transaction, past, vars
<1>28. CASE Quit
  BY <1>28 DEF Quit, Calm, instance, world, transaction, past, vars
<1>29. CASE Crash
  BY <1>29 DEF Crash, Upset, Returned, instance, world, transaction, past, vars
<1>30. CASE UNCHANGED vars
  BY <1>30 DEF instance, world, transaction, past, vars
<1> QED
  BY <1>1, <1>2, <1>3, <1>4, <1>5, <1>6, <1>7, <1>8, <1>9, <1>10, <1>11, <1>12, <1>13,
     <1>14, <1>15, <1>16, <1>17, <1>18, <1>19, <1>20, <1>21, <1>22, <1>23, <1>24,
     <1>25, <1>26, <1>27, <1>28, <1>29, <1>30 DEF Next, Transaction

\* A flag stays a flag.
LEMMA FlagsStep ==
    ASSUME Shapes, Flags, [Next]_vars
    PROVE  Flags'
<1> USE DEF Flags
<1>1. CASE Preview
  BY <1>1 DEF Preview, Calm, instance, world, transaction, past, vars
<1>2. CASE Apply
  BY <1>2 DEF Apply, Calm, instance, world, transaction, past, vars
<1>3. CASE Acquire
  BY <1>3 DEF Acquire, Calm, Fault, Upset, Returned, instance, world, transaction,
     past, vars
<1>4. CASE Commit
  BY <1>4 DEF Commit, Calm, Returned, instance, world, transaction, past, vars
<1>5. CASE Guard
  BY <1>5 DEF Guard, Stopped, Calm, Returned, instance, world, transaction, past, vars
<1>6. ASSUME NEW j \in Jars, Stage(j) PROVE Flags'
  BY <1>6 DEF Stage, Calm, Fault, Upset, Fails, Inside, instance, world, transaction,
     past, vars
<1>7. ASSUME NEW j \in Jars, Retire(j) PROVE Flags'
  BY <1>7 DEF Retire, Calm, Fault, Upset, Fails, Inside, instance, world, transaction,
     past, vars
<1>8. CASE Retired
  BY <1>8 DEF Retired, Calm, Inside, instance, world, transaction, past, vars
<1>9. ASSUME NEW j \in Jars, Activate(j) PROVE Flags'
  BY <1>9 DEF Activate, Calm, Fault, Upset, Fails, Inside, instance, world,
     transaction, past, vars
<1>10. CASE Activated
  BY <1>10 DEF Activated, Calm, Inside, instance, world, transaction, past, vars
<1>11. CASE WriteState
  BY <1>11 DEF WriteState, Calm, Fault, Upset, Fails, Inside, instance, world,
     transaction, past, vars
<1>12. CASE WriteEntry
  BY <1>12 DEF WriteEntry, Calm, Fault, Upset, Fails, Inside, instance, world,
     transaction, past, vars
<1>13. CASE Validate
  BY <1>13 DEF Validate, Calm, Fault, Upset, Fails, Inside, instance, world,
     transaction, past, vars
<1>14. CASE Register
  BY <1>14 DEF Register, Calm, Fault, Upset, Fails, Inside, instance, world,
     transaction, past, vars
<1>15. CASE Verify
  BY <1>15 DEF Verify, Calm, Fault, Upset, Fails, Inside, instance, world, transaction,
     past, vars
<1>16. ASSUME NEW j \in Jars, Cleanup(j) PROVE Flags'
  BY <1>16 DEF Cleanup, Calm, Fault, Upset, Fails, Inside, instance, world,
     transaction, past, vars
<1>17. CASE Finish
  BY <1>17 DEF Finish, Calm, Returned, instance, world, transaction, past, vars
<1>18. ASSUME NEW j \in Jars, Undo(j) PROVE Flags'
  BY <1>18 DEF Undo, Calm, Fault, Upset, Inside, RollbackFails, Returned, instance,
     world, transaction, past, vars
<1>19. ASSUME NEW j \in Jars, Return(j) PROVE Flags'
  BY <1>19 DEF Return, Calm, Fault, Upset, Inside, RollbackFails, Returned, instance,
     world, transaction, past, vars
<1>20. CASE RestoreState
  <2>1. CASE RollbackFails
    BY <1>20, <2>1
       DEF RestoreState, RollbackFails, Returned, Inside, Undone, instance, world, transaction,
           past, vars
  <2>2. CASE Inside /\ state' = before.state
                 /\ UNCHANGED <<mods, pin, entry, step, staged, retired, backups, active,
                             documented, registered, torn, unsettled>>
    BY <1>20, <2>2 DEF RestoreState, Inside, Undone, instance, world, transaction, past, vars
  <2> QED
    BY <1>20, <2>1, <2>2 DEF RestoreState
<1>21. CASE RestoreEntry
  <2>1. CASE RollbackFails
    BY <1>21, <2>1
       DEF RestoreEntry, RollbackFails, Returned, Inside, Undone, instance, world, transaction,
           past, vars
  <2>2. CASE Inside /\ entry' = before.entry /\ state = before.state
                 /\ UNCHANGED <<mods, pin, state, step, staged, retired, backups, active,
                             documented, registered, torn, unsettled>>
    BY <1>21, <2>2 DEF RestoreEntry, Inside, Undone, instance, world, transaction, past, vars
  <2> QED
    BY <1>21, <2>1, <2>2 DEF RestoreEntry
<1>22. CASE RestoreRegistry
  <2>1. CASE RollbackFails
    BY <1>22, <2>1
       DEF RestoreRegistry, RollbackFails, Returned, Inside, Undone, instance, world, transaction,
           past, vars
  <2>2. CASE Inside /\ pin' = before.pin
                 /\ UNCHANGED <<mods, state, entry, step, staged, retired, backups, active,
                             documented, registered, torn, unsettled>>
    BY <1>22, <2>2 DEF RestoreRegistry, Inside, Undone, instance, world, transaction, past, vars
  <2> QED
    BY <1>22, <2>1, <2>2 DEF RestoreRegistry
<1>23. CASE RolledBack
  BY <1>23 DEF RolledBack, Undone, DocumentsBack, Calm, Returned, instance, world,
     transaction, past, vars
<1>24. CASE Command
  BY <1>24 DEF Command, Upset, instance, world, transaction, past, vars
<1>25. ASSUME NEW j \in Jars, Edit(j) PROVE Flags'
  BY <1>25 DEF Edit, Upset, instance, world, transaction, past, vars
<1>26. CASE Publish
  BY <1>26 DEF Publish, Upset, instance, world, transaction, past, vars
<1>27. CASE Play
  BY <1>27 DEF Play, Upset, instance, world, transaction, past, vars
<1>28. CASE Quit
  BY <1>28 DEF Quit, Calm, instance, world, transaction, past, vars
<1>29. CASE Crash
  BY <1>29 DEF Crash, Upset, Returned, instance, world, transaction, past, vars
<1>30. CASE UNCHANGED vars
  BY <1>30 DEF instance, world, transaction, past, vars
<1> QED
  BY <1>1, <1>2, <1>3, <1>4, <1>5, <1>6, <1>7, <1>8, <1>9, <1>10, <1>11, <1>12, <1>13,
     <1>14, <1>15, <1>16, <1>17, <1>18, <1>19, <1>20, <1>21, <1>22, <1>23, <1>24,
     <1>25, <1>26, <1>27, <1>28, <1>29, <1>30 DEF Next, Transaction

LEMMA NoPlanTyped == NoPlan \in Plans
  BY DEF NoPlan, Plans

\* The plan is that of a release, or none.
LEMMA PlanStep ==
    ASSUME TypeOK, provided \in BOOLEAN, plan \in Plans, [Next]_vars
    PROVE  plan' \in Plans
<1> USE NoPlanTyped DEF vars
<1>1. CASE Preview
  BY <1>1 DEF Preview, Calm, instance, world, transaction, past
<1>2. CASE Apply
  <2>1. plan' = plan \/ plan' = [release |-> Candidate, provided |-> FALSE]
    BY <1>2 DEF Apply, NoPlan
  <2>2. plan' # plan => Candidate # None
    BY <1>2 DEF Apply
  <2>3. Candidate # None => Candidate \in Releases
    BY CandidateIsNewer
  <2>4. CASE plan' = plan
    BY <2>4
  <2>5. CASE plan' # plan
    <3>1. Candidate \in Releases /\ plan' = [release |-> Candidate, provided |-> FALSE]
      BY <2>1, <2>2, <2>3, <2>5
    <3> QED
      BY <3>1 DEF Plans
  <2> QED
    BY <2>4, <2>5
<1>3. CASE Acquire
  <2>1. plan' = [plan EXCEPT !.provided = provided] \/ plan' = NoPlan
    BY <1>3 DEF Acquire, Returned
  <2> QED
    BY <2>1 DEF Plans
<1>4. CASE Commit
  BY <1>4 DEF Commit, Calm, Returned, instance, world, transaction, past
<1>5. CASE Guard
  BY <1>5 DEF Guard, Stopped, Calm, Returned, instance, world, transaction, past
<1>6. ASSUME NEW j \in Jars, Stage(j) PROVE plan' \in Plans
  BY <1>6 DEF Stage, Calm, Fault, Upset, Fails, Inside, instance, world, transaction,
     past
<1>7. ASSUME NEW j \in Jars, Retire(j) PROVE plan' \in Plans
  BY <1>7 DEF Retire, Calm, Fault, Upset, Fails, Inside, instance, world, transaction,
     past
<1>8. CASE Retired
  BY <1>8 DEF Retired, Calm, Inside, instance, world, transaction, past
<1>9. ASSUME NEW j \in Jars, Activate(j) PROVE plan' \in Plans
  BY <1>9 DEF Activate, Calm, Fault, Upset, Fails, Inside, instance, world,
     transaction, past
<1>10. CASE Activated
  BY <1>10 DEF Activated, Calm, Inside, instance, world, transaction, past
<1>11. CASE WriteState
  BY <1>11 DEF WriteState, Calm, Fault, Upset, Fails, Inside, instance, world,
     transaction, past
<1>12. CASE WriteEntry
  BY <1>12 DEF WriteEntry, Calm, Fault, Upset, Fails, Inside, instance, world,
     transaction, past
<1>13. CASE Validate
  BY <1>13 DEF Validate, Calm, Fault, Upset, Fails, Inside, instance, world,
     transaction, past
<1>14. CASE Register
  BY <1>14 DEF Register, Calm, Fault, Upset, Fails, Inside, instance, world,
     transaction, past
<1>15. CASE Verify
  BY <1>15 DEF Verify, Calm, Fault, Upset, Fails, Inside, instance, world, transaction,
     past
<1>16. ASSUME NEW j \in Jars, Cleanup(j) PROVE plan' \in Plans
  BY <1>16 DEF Cleanup, Calm, Fault, Upset, Fails, Inside, instance, world,
     transaction, past
<1>17. CASE Finish
  BY <1>17 DEF Finish, Calm, Returned, instance, world, transaction, past
<1>18. ASSUME NEW j \in Jars, Undo(j) PROVE plan' \in Plans
  BY <1>18 DEF Undo, Calm, Fault, Upset, Inside, RollbackFails, Returned, instance,
     world, transaction, past
<1>19. ASSUME NEW j \in Jars, Return(j) PROVE plan' \in Plans
  BY <1>19 DEF Return, Calm, Fault, Upset, Inside, RollbackFails, Returned, instance,
     world, transaction, past
<1>20. CASE RestoreState
  <2>1. CASE RollbackFails
    BY <1>20, <2>1
       DEF RestoreState, RollbackFails, Returned, Inside, Undone, instance, world, transaction,
           past, vars
  <2>2. CASE Inside /\ state' = before.state
                 /\ UNCHANGED <<mods, pin, entry, step, staged, retired, backups, active,
                             documented, registered, torn, unsettled>>
    BY <1>20, <2>2 DEF RestoreState, Inside, Undone, instance, world, transaction, past, vars
  <2> QED
    BY <1>20, <2>1, <2>2 DEF RestoreState
<1>21. CASE RestoreEntry
  <2>1. CASE RollbackFails
    BY <1>21, <2>1
       DEF RestoreEntry, RollbackFails, Returned, Inside, Undone, instance, world, transaction,
           past, vars
  <2>2. CASE Inside /\ entry' = before.entry /\ state = before.state
                 /\ UNCHANGED <<mods, pin, state, step, staged, retired, backups, active,
                             documented, registered, torn, unsettled>>
    BY <1>21, <2>2 DEF RestoreEntry, Inside, Undone, instance, world, transaction, past, vars
  <2> QED
    BY <1>21, <2>1, <2>2 DEF RestoreEntry
<1>22. CASE RestoreRegistry
  <2>1. CASE RollbackFails
    BY <1>22, <2>1
       DEF RestoreRegistry, RollbackFails, Returned, Inside, Undone, instance, world, transaction,
           past, vars
  <2>2. CASE Inside /\ pin' = before.pin
                 /\ UNCHANGED <<mods, state, entry, step, staged, retired, backups, active,
                             documented, registered, torn, unsettled>>
    BY <1>22, <2>2 DEF RestoreRegistry, Inside, Undone, instance, world, transaction, past, vars
  <2> QED
    BY <1>22, <2>1, <2>2 DEF RestoreRegistry
<1>23. CASE RolledBack
  BY <1>23 DEF RolledBack, Undone, DocumentsBack, Calm, Returned, instance, world,
     transaction, past
<1>24. CASE Command
  BY <1>24 DEF Command, Upset, instance, world, transaction, past
<1>25. ASSUME NEW j \in Jars, Edit(j) PROVE plan' \in Plans
  BY <1>25 DEF Edit, Upset, instance, world, transaction, past
<1>26. CASE Publish
  BY <1>26 DEF Publish, Upset, instance, world, transaction, past
<1>27. CASE Play
  BY <1>27 DEF Play, Upset, instance, world, transaction, past
<1>28. CASE Quit
  BY <1>28 DEF Quit, Calm, instance, world, transaction, past
<1>29. CASE Crash
  BY <1>29 DEF Crash, Upset, Returned, instance, world, transaction, past
<1>30. CASE UNCHANGED vars
  BY <1>30 DEF instance, world, transaction, past, vars
<1> QED
  BY <1>1, <1>2, <1>3, <1>4, <1>5, <1>6, <1>7, <1>8, <1>9, <1>10, <1>11, <1>12, <1>13,
     <1>14, <1>15, <1>16, <1>17, <1>18, <1>19, <1>20, <1>21, <1>22, <1>23, <1>24,
     <1>25, <1>26, <1>27, <1>28, <1>29, <1>30 DEF Next, Transaction

\* The files follow the sets, except those changed from outside.
LEMMA FilesStep ==
    ASSUME TypeOK, Outline, Reviewed, Sets, FilesFollow, DocumentsFollow, PinFollows,
       [Next]_vars
    PROVE  FilesFollow'
<1> USE NoneAssumption DEF FilesFollow, Locked, Exchanging, Exchanged, ToStage,
   ToRetire, Planned, Own
<1>1. CASE Preview
  BY <1>1 DEF Preview, Calm, instance, world, transaction, past, vars
<1>2. CASE Apply
  BY <1>2 DEF Apply, Calm, instance, world, transaction, past, vars
<1>3. CASE Acquire
  BY <1>3 DEF Acquire, Calm, Fault, Upset, Returned, instance, world, transaction,
     past, vars
<1>4. CASE Commit
  BY <1>4 DEF Commit, Calm, Returned, Outline, Fresh, NoBackups, TypeOK, instance,
     world, transaction, past, vars
<1>5. CASE Guard
  BY <1>5 DEF Guard, Stopped, Calm, Returned, Fresh, instance, world, transaction, past, vars
<1>6. ASSUME NEW j \in Jars, Stage(j) PROVE FilesFollow'
  BY <1>6 DEF Stage, Calm, Fault, Upset, Fails, Inside, TypeOK, Content, instance, world,
     transaction, past, vars
<1>7. ASSUME NEW j \in Jars, Retire(j) PROVE FilesFollow'
  BY <1>7 DEF Retire, Calm, Fault, Upset, Fails, Inside, TypeOK, Content, instance, world,
     transaction, past, vars
<1>8. CASE Retired
  BY <1>8 DEF Retired, Calm, Inside, Outline, Snapshots, State, Jars, instance, world,
     transaction, past, vars
<1>9. ASSUME NEW j \in Jars, Activate(j) PROVE FilesFollow'
  BY <1>9 DEF Activate, Calm, Fault, Upset, Fails, Inside, Sets, TypeOK, Content,
     instance, world, transaction, past, vars
<1>10. CASE Activated
  BY <1>10 DEF Activated, Calm, Inside, Sets, TypeOK, Content, instance, world,
     transaction, past, vars
<1>11. CASE WriteState
  BY <1>11 DEF WriteState, Calm, Fault, Upset, Fails, Inside, instance, world,
     transaction, past, vars
<1>12. CASE WriteEntry
  BY <1>12 DEF WriteEntry, Calm, Fault, Upset, Fails, Inside, instance, world,
     transaction, past, vars
<1>13. CASE Validate
  BY <1>13 DEF Validate, Calm, Fault, Upset, Fails, Inside, instance, world,
     transaction, past, vars
<1>14. CASE Register
  BY <1>14 DEF Register, Calm, Fault, Upset, Fails, Inside, PinFollows, instance, world,
     transaction, past, vars
<1>15. CASE Verify
  BY <1>15 DEF Verify, Calm, Fault, Upset, Fails, Inside, instance, world, transaction,
     past, vars
<1>16. ASSUME NEW j \in Jars, Cleanup(j) PROVE FilesFollow'
  BY <1>16 DEF Cleanup, Calm, Fault, Upset, Fails, Inside, Reviewed, PinFollows, TypeOK,
     instance, world, transaction, past, vars
<1>17. CASE Finish
  BY <1>17 DEF Finish, Calm, Returned, instance, world, transaction, past, vars
<1>18. ASSUME NEW j \in Jars, Undo(j) PROVE FilesFollow'
  BY <1>18 DEF Undo, Calm, Fault, Upset, Inside, RollbackFails, Returned, TypeOK, Content,
     instance, world, transaction, past, vars
<1>19. ASSUME NEW j \in Jars, Return(j) PROVE FilesFollow'
  BY <1>19 DEF Return, Calm, Fault, Upset, Inside, RollbackFails, Returned, TypeOK, Content,
     instance, world, transaction, past, vars
<1>20. CASE RestoreState
  <2>1. CASE RollbackFails
    BY <1>20, <2>1
       DEF RestoreState, RollbackFails, Returned, Inside, Undone, instance, world, transaction,
           past, vars
  <2>2. CASE Inside /\ state' = before.state
                 /\ UNCHANGED <<mods, pin, entry, step, staged, retired, backups, active,
                             documented, registered, torn, unsettled>>
    BY <1>20, <2>2 DEF RestoreState, Inside, Undone, instance, world, transaction, past, vars
  <2> QED
    BY <1>20, <2>1, <2>2 DEF RestoreState
<1>21. CASE RestoreEntry
  <2>1. CASE RollbackFails
    BY <1>21, <2>1
       DEF RestoreEntry, RollbackFails, Returned, Inside, Undone, instance, world, transaction,
           past, vars
  <2>2. CASE Inside /\ entry' = before.entry /\ state = before.state
                 /\ UNCHANGED <<mods, pin, state, step, staged, retired, backups, active,
                             documented, registered, torn, unsettled>>
    BY <1>21, <2>2 DEF RestoreEntry, Inside, Undone, instance, world, transaction, past, vars
  <2> QED
    BY <1>21, <2>1, <2>2 DEF RestoreEntry
<1>22. CASE RestoreRegistry
  <2>1. CASE RollbackFails
    BY <1>22, <2>1
       DEF RestoreRegistry, RollbackFails, Returned, Inside, Undone, instance, world, transaction,
           past, vars
  <2>2. CASE Inside /\ pin' = before.pin
                 /\ UNCHANGED <<mods, state, entry, step, staged, retired, backups, active,
                             documented, registered, torn, unsettled>>
    BY <1>22, <2>2 DEF RestoreRegistry, Inside, Undone, instance, world, transaction, past, vars
  <2> QED
    BY <1>22, <2>1, <2>2 DEF RestoreRegistry
<1>23. CASE RolledBack
  BY <1>23 DEF RolledBack, Undone, DocumentsBack, Calm, Returned, instance, world,
     transaction, past, vars
<1>24. CASE Command
  BY <1>24 DEF Command, Upset, instance, world, transaction, past, vars
<1>25. ASSUME NEW j \in Jars, Edit(j) PROVE FilesFollow'
  BY <1>25 DEF Edit, Upset, instance, world, transaction, past, vars
<1>26. CASE Publish
  BY <1>26 DEF Publish, Upset, instance, world, transaction, past, vars
<1>27. CASE Play
  BY <1>27 DEF Play, Upset, instance, world, transaction, past, vars
<1>28. CASE Quit
  BY <1>28 DEF Quit, Calm, instance, world, transaction, past, vars
<1>29. CASE Crash
  BY <1>29 DEF Crash, Upset, Returned, instance, world, transaction, past, vars
<1>30. CASE UNCHANGED vars
  BY <1>30 DEF instance, world, transaction, past, vars
<1> QED
  BY <1>1, <1>2, <1>3, <1>4, <1>5, <1>6, <1>7, <1>8, <1>9, <1>10, <1>11, <1>12, <1>13,
     <1>14, <1>15, <1>16, <1>17, <1>18, <1>19, <1>20, <1>21, <1>22, <1>23, <1>24,
     <1>25, <1>26, <1>27, <1>28, <1>29, <1>30 DEF Next, Transaction

\* What the update found stays free of duplicates, and what it finds is.
LEMMA NoneTwiceStep ==
    ASSUME TypeOK, Outline, NoDuplicates, NoneTwice, [Next]_vars
    PROVE  NoneTwice'
<1> USE NoneAssumption DEF NoneTwice, Locked
<1>1. CASE Preview
  BY <1>1 DEF Preview, Calm, instance, world, transaction, past, vars
<1>2. CASE Apply
  BY <1>2 DEF Apply, Calm, instance, world, transaction, past, vars
<1>3. CASE Acquire
  BY <1>3 DEF Acquire, Calm, Fault, Upset, Returned, instance, world, transaction,
     past, vars
<1>4. CASE Commit
  <2>1. CASE ~StillApproved
    BY <1>4, <2>1 DEF Commit, Returned
  <2>2. CASE StillApproved
    <3> DEFINE old == [pin |-> pin, state |-> state, entry |-> entry, mods |-> mods,
                       off |-> off, provided |-> provided]
    <3>1. before' = old /\ edited' = edited /\ (~raced' => ~raced)
      BY <1>4, <2>2 DEF Commit
    <3>2. old.mods = mods /\ old.off = off /\ old.provided = provided
      OBVIOUS
    <3> HIDE DEF old
    <3> QED
      BY <3>1, <3>2 DEF NoDuplicates
  <2> QED
    BY <2>1, <2>2
<1>5. CASE Guard
  BY <1>5 DEF Guard, Stopped, Calm, Returned, instance, world, transaction, past, vars
<1>6. ASSUME NEW j \in Jars, Stage(j) PROVE NoneTwice'
  BY <1>6 DEF Stage, Calm, Fault, Upset, Fails, Inside, instance, world, transaction,
     past, vars
<1>7. ASSUME NEW j \in Jars, Retire(j) PROVE NoneTwice'
  BY <1>7 DEF Retire, Calm, Fault, Upset, Fails, Inside, instance, world, transaction,
     past, vars
<1>8. CASE Retired
  BY <1>8 DEF Retired, Calm, Inside, instance, world, transaction, past, vars
<1>9. ASSUME NEW j \in Jars, Activate(j) PROVE NoneTwice'
  BY <1>9 DEF Activate, Calm, Fault, Upset, Fails, Inside, instance, world,
     transaction, past, vars
<1>10. CASE Activated
  BY <1>10 DEF Activated, Calm, Inside, instance, world, transaction, past, vars
<1>11. CASE WriteState
  BY <1>11 DEF WriteState, Calm, Fault, Upset, Fails, Inside, instance, world,
     transaction, past, vars
<1>12. CASE WriteEntry
  BY <1>12 DEF WriteEntry, Calm, Fault, Upset, Fails, Inside, instance, world,
     transaction, past, vars
<1>13. CASE Validate
  BY <1>13 DEF Validate, Calm, Fault, Upset, Fails, Inside, instance, world,
     transaction, past, vars
<1>14. CASE Register
  BY <1>14 DEF Register, Calm, Fault, Upset, Fails, Inside, instance, world,
     transaction, past, vars
<1>15. CASE Verify
  BY <1>15 DEF Verify, Calm, Fault, Upset, Fails, Inside, instance, world, transaction,
     past, vars
<1>16. ASSUME NEW j \in Jars, Cleanup(j) PROVE NoneTwice'
  BY <1>16 DEF Cleanup, Calm, Fault, Upset, Fails, Inside, instance, world,
     transaction, past, vars
<1>17. CASE Finish
  BY <1>17 DEF Finish, Calm, Returned, instance, world, transaction, past, vars
<1>18. ASSUME NEW j \in Jars, Undo(j) PROVE NoneTwice'
  BY <1>18 DEF Undo, Calm, Fault, Upset, Inside, RollbackFails, Returned, instance,
     world, transaction, past, vars
<1>19. ASSUME NEW j \in Jars, Return(j) PROVE NoneTwice'
  BY <1>19 DEF Return, Calm, Fault, Upset, Inside, RollbackFails, Returned, instance,
     world, transaction, past, vars
<1>20. CASE RestoreState
  <2>1. CASE RollbackFails
    BY <1>20, <2>1
       DEF RestoreState, RollbackFails, Returned, Inside, Undone, instance, world, transaction,
           past, vars
  <2>2. CASE Inside /\ state' = before.state
                 /\ UNCHANGED <<mods, pin, entry, step, staged, retired, backups, active,
                             documented, registered, torn, unsettled>>
    BY <1>20, <2>2 DEF RestoreState, Inside, Undone, instance, world, transaction, past, vars
  <2> QED
    BY <1>20, <2>1, <2>2 DEF RestoreState
<1>21. CASE RestoreEntry
  <2>1. CASE RollbackFails
    BY <1>21, <2>1
       DEF RestoreEntry, RollbackFails, Returned, Inside, Undone, instance, world, transaction,
           past, vars
  <2>2. CASE Inside /\ entry' = before.entry /\ state = before.state
                 /\ UNCHANGED <<mods, pin, state, step, staged, retired, backups, active,
                             documented, registered, torn, unsettled>>
    BY <1>21, <2>2 DEF RestoreEntry, Inside, Undone, instance, world, transaction, past, vars
  <2> QED
    BY <1>21, <2>1, <2>2 DEF RestoreEntry
<1>22. CASE RestoreRegistry
  <2>1. CASE RollbackFails
    BY <1>22, <2>1
       DEF RestoreRegistry, RollbackFails, Returned, Inside, Undone, instance, world, transaction,
           past, vars
  <2>2. CASE Inside /\ pin' = before.pin
                 /\ UNCHANGED <<mods, state, entry, step, staged, retired, backups, active,
                             documented, registered, torn, unsettled>>
    BY <1>22, <2>2 DEF RestoreRegistry, Inside, Undone, instance, world, transaction, past, vars
  <2> QED
    BY <1>22, <2>1, <2>2 DEF RestoreRegistry
<1>23. CASE RolledBack
  BY <1>23 DEF RolledBack, Undone, DocumentsBack, Calm, Returned, instance, world,
     transaction, past, vars
<1>24. CASE Command
  BY <1>24 DEF Command, Upset, instance, world, transaction, past, vars
<1>25. ASSUME NEW j \in Jars, Edit(j) PROVE NoneTwice'
  BY <1>25 DEF Edit, Upset, instance, world, transaction, past, vars
<1>26. CASE Publish
  BY <1>26 DEF Publish, Upset, instance, world, transaction, past, vars
<1>27. CASE Play
  BY <1>27 DEF Play, Upset, instance, world, transaction, past, vars
<1>28. CASE Quit
  BY <1>28 DEF Quit, Calm, instance, world, transaction, past, vars
<1>29. CASE Crash
  BY <1>29 DEF Crash, Upset, Returned, instance, world, transaction, past, vars
<1>30. CASE UNCHANGED vars
  BY <1>30 DEF instance, world, transaction, past, vars
<1> QED
  BY <1>1, <1>2, <1>3, <1>4, <1>5, <1>6, <1>7, <1>8, <1>9, <1>10, <1>11, <1>12, <1>13,
     <1>14, <1>15, <1>16, <1>17, <1>18, <1>19, <1>20, <1>21, <1>22, <1>23, <1>24,
     <1>25, <1>26, <1>27, <1>28, <1>29, <1>30 DEF Next, Transaction

\* What goes leaves no duplicate.
LEMMA FewerAreNoDuplicates ==
    ASSUME NoDuplicates, UNCHANGED <<off, provided, raced, edited>>,
           \A i \in Jars : mods'[i] # None => mods[i] # None
    PROVE  NoDuplicates'
  BY DEF NoDuplicates, Jars

\* What is beside a jar that is about to be placed, or to come back.
LEMMA PlacedAlone ==
    ASSUME TypeOK, Outline, Reviewed, Sets, FilesFollow, step = "activate",
           NEW j \in staged \ active, NEW s \in Releases \ edited,
           j \in Releases, s # j
    PROVE  mods[s] = None
<1>0. Locked
  BY DEF Locked
<1>1. j = plan.release
  BY <1>0, NoneAssumption, ReleasesAssumption
     DEF Sets, ToStage, Planned, Outline, Jars, Locked
<1>2. s \notin ToStage /\ s \notin active
  BY <1>0, <1>1, NoneAssumption, ReleasesAssumption DEF Sets, ToStage, Planned, Jars, Locked
<1>3. s \in Jars \ exposed
  BY DEF Outline, Jars
<1>4. CASE s \in retired
  BY <1>0, <1>2, <1>3, <1>4 DEF FilesFollow
<1>5. CASE s \notin retired
  <2>1. mods[s] = before.mods[s]
    BY <1>0, <1>2, <1>3, <1>5 DEF FilesFollow
  <2>2. CASE s = before.state.release
    <3>1. s \in (ToRetire \ ToStage) \ exposed
      BY <1>2, <1>3, <2>2 DEF ToRetire
    <3> QED
      BY <1>0, <1>5, <2>1, <3>1 DEF FilesFollow, Exchanging
  <2>3. CASE s # before.state.release
    BY <1>0, <1>1, <2>1, <2>3 DEF Reviewed
  <2> QED
    BY <2>2, <2>3
<1> QED
  BY <1>4, <1>5

LEMMA PlacedAllowed ==
    ASSUME Outline, Reviewed, Sets, step = "activate", NEW j \in staged
    PROVE  /\ j \in Releases => j \notin off
           /\ j \in Apis /\ ~raced => ~provided /\ j \notin off
<1>0. Locked
  BY DEF Locked
<1>1. j \in Planned(plan.release, plan.provided)
  BY <1>0 DEF Sets, ToStage
<1>2. off = before.off /\ provided = before.provided
  BY <1>0 DEF Reviewed
<1>3. \A i \in Planned(plan.release, before.provided) : i \notin off
  BY <1>0, <1>2 DEF Reviewed
<1>4. plan.release \in Releases /\ plan.release \notin Apis /\ ApiOf[plan.release] \in Apis
  BY NoneAssumption, ReleasesAssumption DEF Outline
<1>5. CASE j \in Releases
  <2>1. j = plan.release
    BY <1>1, <1>4, <1>5, NoneAssumption DEF Planned
  <2> QED
    BY <1>3, <1>5, <2>1, NoneAssumption DEF Planned
<1>6. CASE j \in Apis /\ ~raced
  <2>1. plan.provided = provided
    BY <1>0, <1>6 DEF Reviewed
  <2>2. ~plan.provided
    BY <1>1, <1>4, <1>6 DEF Planned
  <2> QED
    BY <1>1, <1>2, <1>3, <1>6, <2>1, <2>2, NoneAssumption
<1> QED
  BY <1>5, <1>6

\* No jar is placed beside another that does the same.
LEMMA NoDuplicatesStep ==
    ASSUME TypeOK, Outline, Reviewed, Sets, FilesFollow, NoDuplicates, NoneTwice,
       [Next]_vars
    PROVE  NoDuplicates'
<1> USE NoneAssumption DEF NoDuplicates, Locked
<1>1. CASE Preview
  BY <1>1 DEF Preview, Calm, instance, world, transaction, past, vars
<1>2. CASE Apply
  BY <1>2 DEF Apply, Calm, instance, world, transaction, past, vars
<1>3. CASE Acquire
  BY <1>3 DEF Acquire, Calm, Fault, Upset, Returned, instance, world, transaction,
     past, vars
<1>4. CASE Commit
  BY <1>4 DEF Commit, Calm, Returned, instance, world, transaction, past, vars
<1>5. CASE Guard
  BY <1>5 DEF Guard, Stopped, Calm, Returned, instance, world, transaction, past, vars
<1>6. ASSUME NEW j \in Jars, Stage(j) PROVE NoDuplicates'
  BY <1>6 DEF Stage, Calm, Fault, Upset, Fails, Inside, instance, world, transaction,
     past, vars
<1>7. ASSUME NEW j \in Jars, Retire(j) PROVE NoDuplicates'
  <2>1. UNCHANGED <<off, provided, raced, edited>>
    BY <1>7 DEF Retire, Inside, instance
  <2>2. mods' = mods \/ mods' = [mods EXCEPT ![j] = None]
    BY <1>7 DEF Retire, instance
  <2>3. mods \in [Jars -> Content]
    BY DEF TypeOK
  <2>4. \A i \in Jars : mods'[i] # None => mods[i] # None
    BY <2>2, <2>3
  <2> QED
    BY <2>1, <2>4, FewerAreNoDuplicates
<1>8. CASE Retired
  BY <1>8 DEF Retired, Calm, Inside, instance, world, transaction, past, vars
<1>9. ASSUME NEW j \in Jars, Activate(j) PROVE NoDuplicates'
  <2>1. UNCHANGED <<off, provided, raced, edited>> /\ step = "activate"
    BY <1>9 DEF Activate, Inside
  <2>2. mods' = mods \/ mods' = [mods EXCEPT ![j] = "good"]
    BY <1>9 DEF Activate
  <2>3. mods \in [Jars -> Content] /\ j \in staged \ active
    BY <1>9 DEF TypeOK, Activate
  <2>4. \A i \in Jars \ {j} : mods'[i] = mods[i]
    BY <2>2, <2>3
  <2>5. CASE mods' = mods
    BY <2>1, <2>5, FewerAreNoDuplicates
  <2>6. /\ j \in Releases => \A s \in Releases \ edited : s = j \/ mods[s] = None
        /\ j \in Releases => j \notin off
        /\ j \in Apis /\ ~raced => ~provided /\ j \notin off
    BY <2>1, <2>3, PlacedAlone, PlacedAllowed
  <2> QED
    BY <2>1, <2>4, <2>6 DEF Jars
<1>10. CASE Activated
  BY <1>10 DEF Activated, Calm, Inside, instance, world, transaction, past, vars
<1>11. CASE WriteState
  BY <1>11 DEF WriteState, Calm, Fault, Upset, Fails, Inside, instance, world,
     transaction, past, vars
<1>12. CASE WriteEntry
  BY <1>12 DEF WriteEntry, Calm, Fault, Upset, Fails, Inside, instance, world,
     transaction, past, vars
<1>13. CASE Validate
  BY <1>13 DEF Validate, Calm, Fault, Upset, Fails, Inside, instance, world,
     transaction, past, vars
<1>14. CASE Register
  BY <1>14 DEF Register, Calm, Fault, Upset, Fails, Inside, instance, world,
     transaction, past, vars
<1>15. CASE Verify
  BY <1>15 DEF Verify, Calm, Fault, Upset, Fails, Inside, instance, world, transaction,
     past, vars
<1>16. ASSUME NEW j \in Jars, Cleanup(j) PROVE NoDuplicates'
  BY <1>16 DEF Cleanup, Calm, Fault, Upset, Fails, Inside, instance, world,
     transaction, past, vars
<1>17. CASE Finish
  BY <1>17 DEF Finish, Calm, Returned, instance, world, transaction, past, vars
<1>18. ASSUME NEW j \in Jars, Undo(j) PROVE NoDuplicates'
  <2>1. UNCHANGED <<off, provided, raced, edited>>
    BY <1>18 DEF Undo, RollbackFails, Inside, instance
  <2>2. mods' = mods \/ mods' = [mods EXCEPT ![j] = None]
    BY <1>18 DEF Undo, RollbackFails, instance
  <2>3. mods \in [Jars -> Content]
    BY DEF TypeOK
  <2>4. \A i \in Jars : mods'[i] # None => mods[i] # None
    BY <2>2, <2>3
  <2> QED
    BY <2>1, <2>4, FewerAreNoDuplicates
<1>19. ASSUME NEW j \in Jars, Return(j) PROVE NoDuplicates'
  BY <1>19 DEF Return, Calm, Fault, Upset, Inside, RollbackFails, Returned, FilesFollow,
     Reviewed, NoneTwice, Outline, TypeOK, Exchanging, Exchanged, Snapshots, State, Jars,
     ToStage, ToRetire, Planned, Own, instance, world, transaction, past, vars
<1>20. CASE RestoreState
  <2>1. CASE RollbackFails
    BY <1>20, <2>1
       DEF RestoreState, RollbackFails, Returned, Inside, Undone, instance, world, transaction,
           past, vars
  <2>2. CASE Inside /\ state' = before.state
                 /\ UNCHANGED <<mods, pin, entry, step, staged, retired, backups, active,
                             documented, registered, torn, unsettled>>
    BY <1>20, <2>2 DEF RestoreState, Inside, Undone, instance, world, transaction, past, vars
  <2> QED
    BY <1>20, <2>1, <2>2 DEF RestoreState
<1>21. CASE RestoreEntry
  <2>1. CASE RollbackFails
    BY <1>21, <2>1
       DEF RestoreEntry, RollbackFails, Returned, Inside, Undone, instance, world, transaction,
           past, vars
  <2>2. CASE Inside /\ entry' = before.entry /\ state = before.state
                 /\ UNCHANGED <<mods, pin, state, step, staged, retired, backups, active,
                             documented, registered, torn, unsettled>>
    BY <1>21, <2>2 DEF RestoreEntry, Inside, Undone, instance, world, transaction, past, vars
  <2> QED
    BY <1>21, <2>1, <2>2 DEF RestoreEntry
<1>22. CASE RestoreRegistry
  <2>1. CASE RollbackFails
    BY <1>22, <2>1
       DEF RestoreRegistry, RollbackFails, Returned, Inside, Undone, instance, world, transaction,
           past, vars
  <2>2. CASE Inside /\ pin' = before.pin
                 /\ UNCHANGED <<mods, state, entry, step, staged, retired, backups, active,
                             documented, registered, torn, unsettled>>
    BY <1>22, <2>2 DEF RestoreRegistry, Inside, Undone, instance, world, transaction, past, vars
  <2> QED
    BY <1>22, <2>1, <2>2 DEF RestoreRegistry
<1>23. CASE RolledBack
  BY <1>23 DEF RolledBack, Undone, DocumentsBack, Calm, Returned, instance, world,
     transaction, past, vars
<1>24. CASE Command
  BY <1>24 DEF Command, Upset, TypeOK, State, Own, Jars, instance, world, transaction,
     past, vars
<1>25. ASSUME NEW j \in Jars, Edit(j) PROVE NoDuplicates'
  BY <1>25 DEF Edit, Upset, TypeOK, instance, world, transaction, past, vars
<1>26. CASE Publish
  BY <1>26 DEF Publish, Upset, instance, world, transaction, past, vars
<1>27. CASE Play
  BY <1>27 DEF Play, Upset, instance, world, transaction, past, vars
<1>28. CASE Quit
  BY <1>28 DEF Quit, Calm, instance, world, transaction, past, vars
<1>29. CASE Crash
  BY <1>29 DEF Crash, Upset, Returned, instance, world, transaction, past, vars
<1>30. CASE UNCHANGED vars
  BY <1>30 DEF instance, world, transaction, past, vars
<1> QED
  BY <1>1, <1>2, <1>3, <1>4, <1>5, <1>6, <1>7, <1>8, <1>9, <1>10, <1>11, <1>12, <1>13,
     <1>14, <1>15, <1>16, <1>17, <1>18, <1>19, <1>20, <1>21, <1>22, <1>23, <1>24,
     <1>25, <1>26, <1>27, <1>28, <1>29, <1>30 DEF Next, Transaction

-----------------------------------------------------------------------------
(* The invariant *)

\* What the parts of the type invariant are.
LEMMA Typed ==
    /\ TypeOK => Shapes /\ Flags /\ plan \in Plans
    /\ Shapes /\ Flags /\ plan \in Plans /\ Outline /\ FilesFollow => TypeOK
<1>1. ASSUME TypeOK PROVE Shapes /\ Flags /\ plan \in Plans
  <2>1. {documented, registered, raced, torn, unsettled} \subseteq BOOLEAN
        /\ provided \in BOOLEAN /\ playing \in BOOLEAN
    BY <1>1 DEF TypeOK
  <2>2. Flags
    BY <2>1 DEF Flags
  <2>3. Shapes /\ plan \in Plans
    BY <1>1 DEF TypeOK, Shapes, Plans
  <2> QED
    BY <2>2, <2>3
<1>2. ASSUME Shapes, Flags, plan \in Plans, Outline, FilesFollow PROVE TypeOK
  <2>1. \A j \in active : mods[j] # None \/ j \in edited
    <3>1. CASE ~Locked
      BY <1>2, <3>1 DEF Shapes, Outline, Fresh, Locked
    <3>2. CASE Locked
      <4>1. \A j \in active : j \in exposed \/ mods[j] = "good"
        BY <1>2, <3>2 DEF FilesFollow, Shapes
      <4> QED
        BY <1>2, <4>1, NoneAssumption DEF Outline
    <3> QED
      BY <3>1, <3>2
  <2>2. {documented, registered, raced, torn, unsettled} \subseteq BOOLEAN
        /\ provided \in BOOLEAN /\ playing \in BOOLEAN
    BY <1>2 DEF Flags
  <2> QED
    BY <1>2, <2>1, <2>2 DEF TypeOK, Shapes, Plans
<1> QED
  BY <1>1, <1>2

LEMMA InitCInv == Init => CInv
<1> SUFFICES ASSUME Init PROVE CInv
  OBVIOUS
<1>1. pin \in Releases /\ state.release = pin /\ state.api = ApiOf[pin] /\ state \in State
  BY ReleasesAssumption DEF Init, State
<1>2. Outline /\ ~Locked /\ step = "idle"
  BY DEF Init, Outline, Fresh, Locked, Guarded
<1>3. Reviewed /\ Sets /\ FilesFollow /\ DocumentsFollow /\ PinFollows /\ NoneTwice
  BY <1>2 DEF Reviewed, Sets, FilesFollow, DocumentsFollow, PinFollows, NoneTwice
<1>4. Ready
  BY <1>1 DEF Init, Ready, Resolves
<1>5. Own(state) \subseteq Jars /\ Own(state) \cap Releases = {pin}
  BY <1>1, ReleasesAssumption, NoneAssumption DEF Own, Jars
<1>6. \A j \in Jars : mods[j] # None => mods[j] = "good"
  BY DEF Init
<1>7. \A j \in Jars : mods[j] # None => j \in Own(state) \ off
  BY <1>6 DEF Init
<1>8. NoDuplicates
  <2>1. \A r \in Releases : mods[r] # None => r = pin /\ r \notin off
    BY <1>5, <1>7 DEF Jars
  <2>2. \A a \in Apis : mods[a] # None => a = state.api /\ a \notin off
    BY <1>1, <1>7, NoneAssumption DEF Own, Jars
  <2>3. provided => mods[state.api] = None
    BY DEF Init
  <2> QED
    BY <2>1, <2>2, <2>3 DEF NoDuplicates
<1>9. Shapes
  <2>1. published \subseteq Releases
    BY <1>1 DEF Init
  <2>2. entry \in Releases \cup {None}
    BY <1>1 DEF Init
  <2>3. off \subseteq Jars
    BY <1>5 DEF Init
  <2>4. mods \in [Jars -> Content]
    BY DEF Init, Content
  <2> QED
    BY <1>1, <2>1, <2>2, <2>3, <2>4, BoundsAssumption
       DEF Init, Shapes, Steps, NoBackups, Content
<1>10. Flags
  BY DEF Init, Flags
<1>11. plan \in Plans
  BY NoPlanTyped DEF Init
<1> QED
  BY <1>2, <1>3, <1>4, <1>8, <1>9, <1>10, <1>11, Typed DEF CInv

LEMMA NextCInv == CInv /\ [Next]_vars => CInv'
<1> SUFFICES ASSUME CInv, [Next]_vars PROVE CInv'
  OBVIOUS
<1>1. Shapes /\ Flags /\ plan \in Plans /\ provided \in BOOLEAN
  BY Typed DEF CInv, TypeOK
<1>2. Outline' /\ Reviewed' /\ Sets' /\ FilesFollow' /\ DocumentsFollow' /\ PinFollows'
  BY OutlineStep, ReviewedStep, SetsStep, FilesStep, DocumentsStep, PinStep DEF CInv
<1>3. NoDuplicates' /\ NoneTwice' /\ Ready'
  BY NoDuplicatesStep, NoneTwiceStep, ReadyStep DEF CInv
<1>4. Shapes' /\ Flags' /\ plan' \in Plans
  BY <1>1, ShapesStep, FlagsStep, PlanStep DEF CInv
<1>5. (Shapes /\ Flags /\ plan \in Plans /\ Outline /\ FilesFollow => TypeOK)'
  BY Typed, PTL
<1>6. TypeOK'
  BY <1>2, <1>4, <1>5
<1> QED
  BY <1>2, <1>3, <1>6 DEF CInv

\* The invariant, and with it the types, hold in every state.
THEOREM ClientInvariance == Spec => []CInv
<1>1. Init => CInv
  BY InitCInv
<1>2. CInv /\ [Next]_vars => CInv'
  BY NextCInv
<1> QED
  BY <1>1, <1>2, PTL DEF Spec

\* In every state the jars, documents and pin fit together: the old client can
\* be put back while the pin is the old one (a crash included), nothing is there
\* twice, and an instance no update is working on validates, unless a rollback
\* failed or the launcher died in an update (ClientHolds).
THEOREM ClientSafety == Spec => []ClientHolds
<1>1. CInv => ClientRecoverable
  <2> SUFFICES ASSUME CInv, before # None, pin = before.pin,
                      NEW j \in Own(before.state) \ edited, before.mods[j] = "good"
               PROVE  "good" \in {mods[j], backups[j]}
    BY DEF ClientRecoverable
  <2>1. Locked /\ before \in Snapshots
    BY DEF CInv, Outline
  <2>2. j \in Jars \ exposed
    BY <2>1, ReleasesAssumption DEF CInv, Outline, Own, Snapshots, State, Jars
  <2>3. CASE j \in retired
    BY <2>1, <2>2, <2>3 DEF CInv, FilesFollow
  <2>4. CASE j \notin retired
    BY <2>1, <2>2, <2>4 DEF CInv, FilesFollow
  <2> QED
    BY <2>3, <2>4
<1>2. CInv => ReadyAfterwards
  BY DEF CInv, Ready, ReadyAfterwards, Locked
<1>3. CInv => ClientHolds
  BY <1>1, <1>2 DEF CInv, ClientHolds
<1> QED
  BY <1>3, ClientInvariance, PTL

-----------------------------------------------------------------------------
(* What a step may never do *)

Undisturbed == playing /\ upsets' = upsets => UNCHANGED instance

BytesSurvive ==
    \A j \in Jars \ exposed :
        (mods[j] = "other" /\ upsets' = upsets) => mods'[j] = "other"

AsItWas ==
    /\ pin' = before.pin /\ entry' = before.entry /\ (torn' \/ state' = before.state)
    /\ \A j \in Jars \ edited : mods'[j] = before.mods[j]

Installed ==
    /\ pin' = plan.release /\ entry' = pin'
    /\ state' = [release |-> pin', api |-> ApiOf[pin']]
    /\ \A j \in Planned(pin', provided \/ raced) \ edited : mods'[j] = "good"
    /\ \A j \in Own(before.state) \ edited : mods'[j] = "good" => j \in Own(state')

WholeOrNothing ==
    (before # None /\ step' = "idle" /\ ~unsettled') => AsItWas \/ Installed

\* The game and the transaction exclude each other.
LEMMA UndisturbedStep ==
    ASSUME TypeOK, Outline, [Next]_vars
    PROVE  Undisturbed
<1> USE DEF Undisturbed, Locked, Guarded, Outline
<1>1. CASE Preview
  BY <1>1 DEF Preview, Calm, instance, world, transaction, past, vars
<1>2. CASE Apply
  BY <1>2 DEF Apply, Calm, instance, world, transaction, past, vars
<1>3. CASE Acquire
  BY <1>3 DEF Acquire, Calm, Fault, Upset, Returned, instance, world, transaction,
     past, vars
<1>4. CASE Commit
  BY <1>4 DEF Commit, Calm, Returned, instance, world, transaction, past, vars
<1>5. CASE Guard
  BY <1>5 DEF Guard, Stopped, Calm, Returned, instance, world, transaction, past, vars
<1>6. ASSUME NEW j \in Jars, Stage(j) PROVE Undisturbed
  BY <1>6 DEF Stage, Calm, Fault, Upset, Fails, Inside, instance, world, transaction,
     past, vars
<1>7. ASSUME NEW j \in Jars, Retire(j) PROVE Undisturbed
  BY <1>7 DEF Retire, Calm, Fault, Upset, Fails, Inside, instance, world, transaction,
     past, vars
<1>8. CASE Retired
  BY <1>8 DEF Retired, Calm, Inside, instance, world, transaction, past, vars
<1>9. ASSUME NEW j \in Jars, Activate(j) PROVE Undisturbed
  BY <1>9 DEF Activate, Calm, Fault, Upset, Fails, Inside, instance, world,
     transaction, past, vars
<1>10. CASE Activated
  BY <1>10 DEF Activated, Calm, Inside, instance, world, transaction, past, vars
<1>11. CASE WriteState
  BY <1>11 DEF WriteState, Calm, Fault, Upset, Fails, Inside, instance, world,
     transaction, past, vars
<1>12. CASE WriteEntry
  BY <1>12 DEF WriteEntry, Calm, Fault, Upset, Fails, Inside, instance, world,
     transaction, past, vars
<1>13. CASE Validate
  BY <1>13 DEF Validate, Calm, Fault, Upset, Fails, Inside, instance, world,
     transaction, past, vars
<1>14. CASE Register
  BY <1>14 DEF Register, Calm, Fault, Upset, Fails, Inside, instance, world,
     transaction, past, vars
<1>15. CASE Verify
  BY <1>15 DEF Verify, Calm, Fault, Upset, Fails, Inside, instance, world, transaction,
     past, vars
<1>16. ASSUME NEW j \in Jars, Cleanup(j) PROVE Undisturbed
  BY <1>16 DEF Cleanup, Calm, Fault, Upset, Fails, Inside, instance, world,
     transaction, past, vars
<1>17. CASE Finish
  BY <1>17 DEF Finish, Calm, Returned, instance, world, transaction, past, vars
<1>18. ASSUME NEW j \in Jars, Undo(j) PROVE Undisturbed
  BY <1>18 DEF Undo, Calm, Fault, Upset, Inside, RollbackFails, Returned, instance,
     world, transaction, past, vars
<1>19. ASSUME NEW j \in Jars, Return(j) PROVE Undisturbed
  BY <1>19 DEF Return, Calm, Fault, Upset, Inside, RollbackFails, Returned, instance,
     world, transaction, past, vars
<1>20. CASE RestoreState
  <2>1. CASE RollbackFails
    BY <1>20, <2>1
       DEF RestoreState, RollbackFails, Returned, Inside, Undone, instance, world, transaction,
           past, vars
  <2>2. CASE Inside /\ state' = before.state
                 /\ UNCHANGED <<mods, pin, entry, step, staged, retired, backups, active,
                             documented, registered, torn, unsettled>>
    BY <1>20, <2>2 DEF RestoreState, Inside, Undone, instance, world, transaction, past, vars
  <2> QED
    BY <1>20, <2>1, <2>2 DEF RestoreState
<1>21. CASE RestoreEntry
  <2>1. CASE RollbackFails
    BY <1>21, <2>1
       DEF RestoreEntry, RollbackFails, Returned, Inside, Undone, instance, world, transaction,
           past, vars
  <2>2. CASE Inside /\ entry' = before.entry /\ state = before.state
                 /\ UNCHANGED <<mods, pin, state, step, staged, retired, backups, active,
                             documented, registered, torn, unsettled>>
    BY <1>21, <2>2 DEF RestoreEntry, Inside, Undone, instance, world, transaction, past, vars
  <2> QED
    BY <1>21, <2>1, <2>2 DEF RestoreEntry
<1>22. CASE RestoreRegistry
  <2>1. CASE RollbackFails
    BY <1>22, <2>1
       DEF RestoreRegistry, RollbackFails, Returned, Inside, Undone, instance, world, transaction,
           past, vars
  <2>2. CASE Inside /\ pin' = before.pin
                 /\ UNCHANGED <<mods, state, entry, step, staged, retired, backups, active,
                             documented, registered, torn, unsettled>>
    BY <1>22, <2>2 DEF RestoreRegistry, Inside, Undone, instance, world, transaction, past, vars
  <2> QED
    BY <1>22, <2>1, <2>2 DEF RestoreRegistry
<1>23. CASE RolledBack
  BY <1>23 DEF RolledBack, Undone, DocumentsBack, Calm, Returned, instance, world,
     transaction, past, vars
<1>24. CASE Command
  BY <1>24 DEF Command, Upset, TypeOK, instance, world, transaction, past, vars
<1>25. ASSUME NEW j \in Jars, Edit(j) PROVE Undisturbed
  BY <1>25 DEF Edit, Upset, TypeOK, instance, world, transaction, past, vars
<1>26. CASE Publish
  BY <1>26 DEF Publish, Upset, instance, world, transaction, past, vars
<1>27. CASE Play
  BY <1>27 DEF Play, Upset, instance, world, transaction, past, vars
<1>28. CASE Quit
  BY <1>28 DEF Quit, Calm, instance, world, transaction, past, vars
<1>29. CASE Crash
  BY <1>29 DEF Crash, Upset, Returned, instance, world, transaction, past, vars
<1>30. CASE UNCHANGED vars
  BY <1>30 DEF instance, world, transaction, past, vars
<1> QED
  BY <1>1, <1>2, <1>3, <1>4, <1>5, <1>6, <1>7, <1>8, <1>9, <1>10, <1>11, <1>12, <1>13,
     <1>14, <1>15, <1>16, <1>17, <1>18, <1>19, <1>20, <1>21, <1>22, <1>23, <1>24,
     <1>25, <1>26, <1>27, <1>28, <1>29, <1>30 DEF Next, Transaction

\* Every jar an update moves is one it placed, or one it found published.
LEMMA BytesStep ==
    ASSUME TypeOK, Outline, Reviewed, Sets, FilesFollow, [Next]_vars
    PROVE  BytesSurvive
<1> USE NoneAssumption DEF BytesSurvive
<1>1. CASE Preview
  BY <1>1 DEF Preview, Calm, instance, world, transaction, past, vars
<1>2. CASE Apply
  BY <1>2 DEF Apply, Calm, instance, world, transaction, past, vars
<1>3. CASE Acquire
  BY <1>3 DEF Acquire, Calm, Fault, Upset, Returned, instance, world, transaction,
     past, vars
<1>4. CASE Commit
  BY <1>4 DEF Commit, Calm, Returned, instance, world, transaction, past, vars
<1>5. CASE Guard
  BY <1>5 DEF Guard, Stopped, Calm, Returned, instance, world, transaction, past, vars
<1>6. ASSUME NEW j \in Jars, Stage(j) PROVE BytesSurvive
  BY <1>6 DEF Stage, Calm, Fault, Upset, Fails, Inside, instance, world, transaction,
     past, vars
<1>7. ASSUME NEW j \in Jars, Retire(j) PROVE BytesSurvive
  <2>1. mods \in [Jars -> Content] /\ j \in Jars
    BY <1>7 DEF TypeOK
  <2>2. mods' = mods \/ mods' = [mods EXCEPT ![j] = None]
    BY <1>7 DEF Retire
  <2>3. j \in exposed \/ mods[j] # "other" \/ mods' = mods
    BY <1>7, <2>1 DEF Retire, Locked, Reviewed, FilesFollow, Planned, ToStage, ToRetire, Own,
       TypeOK
  <2> QED
    BY <2>1, <2>2, <2>3
<1>8. CASE Retired
  BY <1>8 DEF Retired, Calm, Inside, instance, world, transaction, past, vars
<1>9. ASSUME NEW j \in Jars, Activate(j) PROVE BytesSurvive
  <2>1. mods \in [Jars -> Content] /\ j \in Jars
    BY <1>9 DEF TypeOK
  <2>2. mods' = mods \/ mods' = [mods EXCEPT ![j] = "good"]
    BY <1>9 DEF Activate
  <2>3. j \in exposed \/ mods[j] # "other" \/ mods' = mods
    BY <1>9, <2>1 DEF Activate, Locked, Planned, ToStage, ToRetire, Own, TypeOK
  <2> QED
    BY <2>1, <2>2, <2>3
<1>10. CASE Activated
  BY <1>10 DEF Activated, Calm, Inside, instance, world, transaction, past, vars
<1>11. CASE WriteState
  BY <1>11 DEF WriteState, Calm, Fault, Upset, Fails, Inside, instance, world,
     transaction, past, vars
<1>12. CASE WriteEntry
  BY <1>12 DEF WriteEntry, Calm, Fault, Upset, Fails, Inside, instance, world,
     transaction, past, vars
<1>13. CASE Validate
  BY <1>13 DEF Validate, Calm, Fault, Upset, Fails, Inside, instance, world,
     transaction, past, vars
<1>14. CASE Register
  BY <1>14 DEF Register, Calm, Fault, Upset, Fails, Inside, instance, world,
     transaction, past, vars
<1>15. CASE Verify
  BY <1>15 DEF Verify, Calm, Fault, Upset, Fails, Inside, instance, world, transaction,
     past, vars
<1>16. ASSUME NEW j \in Jars, Cleanup(j) PROVE BytesSurvive
  BY <1>16 DEF Cleanup, Calm, Fault, Upset, Fails, Inside, instance, world,
     transaction, past, vars
<1>17. CASE Finish
  BY <1>17 DEF Finish, Calm, Returned, instance, world, transaction, past, vars
<1>18. ASSUME NEW j \in Jars, Undo(j) PROVE BytesSurvive
  <2>1. mods \in [Jars -> Content] /\ j \in Jars
    BY <1>18 DEF TypeOK
  <2>2. mods' = mods \/ mods' = [mods EXCEPT ![j] = None]
    BY <1>18 DEF Undo, RollbackFails, instance
  <2>3. j \in exposed \/ mods[j] # "other" \/ mods' = mods
    BY <1>18, <2>1 DEF Undo, RollbackFails, instance, Locked, FilesFollow, Planned, ToStage,
       ToRetire, Own, TypeOK
  <2> QED
    BY <2>1, <2>2, <2>3
<1>19. ASSUME NEW j \in Jars, Return(j) PROVE BytesSurvive
  <2>1. mods \in [Jars -> Content] /\ j \in Jars
    BY <1>19 DEF TypeOK
  <2>2. mods' = mods \/ mods' = [mods EXCEPT ![j] = backups[j]]
    BY <1>19 DEF Return, RollbackFails, instance
  <2>3. j \in exposed \/ mods[j] # "other" \/ mods' = mods
    BY <1>19, <2>1 DEF Return, RollbackFails, instance, Locked, FilesFollow, Planned, ToStage,
       ToRetire, Own, TypeOK
  <2> QED
    BY <2>1, <2>2, <2>3
<1>20. CASE RestoreState
  <2>1. CASE RollbackFails
    BY <1>20, <2>1
       DEF RestoreState, RollbackFails, Returned, Inside, Undone, instance, world, transaction,
           past, vars
  <2>2. CASE Inside /\ state' = before.state
                 /\ UNCHANGED <<mods, pin, entry, step, staged, retired, backups, active,
                             documented, registered, torn, unsettled>>
    BY <1>20, <2>2 DEF RestoreState, Inside, Undone, instance, world, transaction, past, vars
  <2> QED
    BY <1>20, <2>1, <2>2 DEF RestoreState
<1>21. CASE RestoreEntry
  <2>1. CASE RollbackFails
    BY <1>21, <2>1
       DEF RestoreEntry, RollbackFails, Returned, Inside, Undone, instance, world, transaction,
           past, vars
  <2>2. CASE Inside /\ entry' = before.entry /\ state = before.state
                 /\ UNCHANGED <<mods, pin, state, step, staged, retired, backups, active,
                             documented, registered, torn, unsettled>>
    BY <1>21, <2>2 DEF RestoreEntry, Inside, Undone, instance, world, transaction, past, vars
  <2> QED
    BY <1>21, <2>1, <2>2 DEF RestoreEntry
<1>22. CASE RestoreRegistry
  <2>1. CASE RollbackFails
    BY <1>22, <2>1
       DEF RestoreRegistry, RollbackFails, Returned, Inside, Undone, instance, world, transaction,
           past, vars
  <2>2. CASE Inside /\ pin' = before.pin
                 /\ UNCHANGED <<mods, state, entry, step, staged, retired, backups, active,
                             documented, registered, torn, unsettled>>
    BY <1>22, <2>2 DEF RestoreRegistry, Inside, Undone, instance, world, transaction, past, vars
  <2> QED
    BY <1>22, <2>1, <2>2 DEF RestoreRegistry
<1>23. CASE RolledBack
  BY <1>23 DEF RolledBack, Undone, DocumentsBack, Calm, Returned, instance, world,
     transaction, past, vars
<1>24. CASE Command
  BY <1>24 DEF Command, Upset, TypeOK, instance, world, transaction, past, vars
<1>25. ASSUME NEW j \in Jars, Edit(j) PROVE BytesSurvive
  BY <1>25 DEF Edit, Upset, TypeOK, instance, world, transaction, past, vars
<1>26. CASE Publish
  BY <1>26 DEF Publish, Upset, instance, world, transaction, past, vars
<1>27. CASE Play
  BY <1>27 DEF Play, Upset, instance, world, transaction, past, vars
<1>28. CASE Quit
  BY <1>28 DEF Quit, Calm, instance, world, transaction, past, vars
<1>29. CASE Crash
  BY <1>29 DEF Crash, Upset, Returned, instance, world, transaction, past, vars
<1>30. CASE UNCHANGED vars
  BY <1>30 DEF instance, world, transaction, past, vars
<1> QED
  BY <1>1, <1>2, <1>3, <1>4, <1>5, <1>6, <1>7, <1>8, <1>9, <1>10, <1>11, <1>12, <1>13,
     <1>14, <1>15, <1>16, <1>17, <1>18, <1>19, <1>20, <1>21, <1>22, <1>23, <1>24,
     <1>25, <1>26, <1>27, <1>28, <1>29, <1>30 DEF Next, Transaction

\* An update returns from its end, from a rollback, or before it began.
LEMMA WholeOrNothingStep ==
    ASSUME TypeOK, Outline, Reviewed, Sets, FilesFollow, DocumentsFollow, PinFollows,
       [Next]_vars
    PROVE  WholeOrNothing
<1> USE NoneAssumption DEF WholeOrNothing, Locked, Outline
<1>1. CASE Preview
  BY <1>1 DEF Preview, Calm, instance, world, transaction, past, vars
<1>2. CASE Apply
  BY <1>2 DEF Apply, Calm, instance, world, transaction, past, vars
<1>3. CASE Acquire
  BY <1>3 DEF Acquire, Calm, Fault, Upset, Returned, instance, world, transaction,
     past, vars
<1>4. CASE Commit
  BY <1>4 DEF Commit, Calm, Returned, instance, world, transaction, past, vars
<1>5. CASE Guard
  <2>1. UNCHANGED instance
    BY <1>5 DEF Guard
  <2>2. CASE step # "guard"
    BY <1>5, <2>2 DEF Guard
  <2>3. CASE step = "guard"
    <3>1. Locked
      BY <2>3 DEF Locked
    <3>2. active = {} /\ retired = {}
      BY <2>3 DEF Fresh
    <3>3. AsItWas
      BY <2>1, <2>3, <3>1, <3>2 DEF AsItWas, instance, DocumentsFollow, PinFollows, FilesFollow
    <3> QED
      BY <3>3
  <2> QED
    BY <2>2, <2>3
<1>6. ASSUME NEW j \in Jars, Stage(j) PROVE WholeOrNothing
  BY <1>6 DEF Stage, Calm, Fault, Upset, Fails, Inside, instance, world, transaction,
     past, vars
<1>7. ASSUME NEW j \in Jars, Retire(j) PROVE WholeOrNothing
  BY <1>7 DEF Retire, Calm, Fault, Upset, Fails, Inside, instance, world, transaction,
     past, vars
<1>8. CASE Retired
  BY <1>8 DEF Retired, Calm, Inside, instance, world, transaction, past, vars
<1>9. ASSUME NEW j \in Jars, Activate(j) PROVE WholeOrNothing
  BY <1>9 DEF Activate, Calm, Fault, Upset, Fails, Inside, instance, world,
     transaction, past, vars
<1>10. CASE Activated
  BY <1>10 DEF Activated, Calm, Inside, instance, world, transaction, past, vars
<1>11. CASE WriteState
  BY <1>11 DEF WriteState, Calm, Fault, Upset, Fails, Inside, instance, world,
     transaction, past, vars
<1>12. CASE WriteEntry
  BY <1>12 DEF WriteEntry, Calm, Fault, Upset, Fails, Inside, instance, world,
     transaction, past, vars
<1>13. CASE Validate
  BY <1>13 DEF Validate, Calm, Fault, Upset, Fails, Inside, instance, world,
     transaction, past, vars
<1>14. CASE Register
  BY <1>14 DEF Register, Calm, Fault, Upset, Fails, Inside, instance, world,
     transaction, past, vars
<1>15. CASE Verify
  BY <1>15 DEF Verify, Calm, Fault, Upset, Fails, Inside, instance, world, transaction,
     past, vars
<1>16. ASSUME NEW j \in Jars, Cleanup(j) PROVE WholeOrNothing
  BY <1>16 DEF Cleanup, Calm, Fault, Upset, Fails, Inside, instance, world,
     transaction, past, vars
<1>17. CASE Finish
  <2>1. UNCHANGED instance /\ step = "cleanup" /\ Locked
    BY <1>17 DEF Finish, Locked
  <2>2. pin = plan.release /\ entry = plan.release
        /\ state = [release |-> plan.release, api |-> ApiOf[plan.release]]
    BY <2>1 DEF PinFollows, DocumentsFollow, NewState
  <2>3. plan.release \in Releases /\ ToStage \subseteq Jars
    BY <2>1, ReleasesAssumption DEF ToStage, Planned, Jars
  <2>4. \A j \in ToStage \ edited : mods[j] = "good"
    <3> SUFFICES ASSUME NEW j \in ToStage \ edited PROVE mods[j] = "good"
      OBVIOUS
    <3>1. j \in Jars \ exposed /\ j \notin retired
      BY <2>1, <2>3 DEF Sets
    <3>2. j \in active \/ before.mods[j] = "good"
      BY <2>1, <3>1 DEF FilesFollow, Exchanged, Exchanging
    <3> QED
      BY <2>1, <3>1, <3>2 DEF FilesFollow
  <2>5. Planned(plan.release, provided \/ raced) \subseteq ToStage
    BY <2>1 DEF Reviewed, Planned, ToStage
  <2>6. \A j \in Own(before.state) \ edited :
            mods[j] = "good" => j \in {plan.release, ApiOf[plan.release]}
    <3> SUFFICES ASSUME NEW j \in Own(before.state) \ edited, mods[j] = "good", j \notin ToStage
                 PROVE  j = ApiOf[plan.release]
      BY <2>5 DEF ToStage, Planned
    <3>1. before \in Snapshots
      BY <2>1
    <3>2. j \in Jars \ exposed /\ j \notin active
      BY <2>1, <3>1 DEF Sets, Own, Snapshots, State, Jars
    <3>3. CASE j \in ToRetire
      <4>1. mods[j] = None
        BY <2>1, <3>2, <3>3 DEF FilesFollow, Exchanging
      <4> QED
        BY <4>1, NoneAssumption
    <3>4. CASE j \notin ToRetire
      BY <2>1, <3>4 DEF ToRetire, Own, DocumentsFollow, NewApi
    <3> QED
      BY <3>3, <3>4
  <2>7. Own(state) = {plan.release, ApiOf[plan.release]}
    BY <2>2 DEF Own
  <2>8. Own(state') = Own(state)
    BY <2>1 DEF Own, instance
  <2>9. Installed
    BY <2>1, <2>2, <2>4, <2>5, <2>6, <2>7, <2>8 DEF Installed, instance
  <2> QED
    BY <2>9
<1>18. ASSUME NEW j \in Jars, Undo(j) PROVE WholeOrNothing
  BY <1>18 DEF Undo, Calm, Fault, Upset, Inside, RollbackFails, Returned, instance,
     world, transaction, past, vars
<1>19. ASSUME NEW j \in Jars, Return(j) PROVE WholeOrNothing
  BY <1>19 DEF Return, Calm, Fault, Upset, Inside, RollbackFails, Returned, instance,
     world, transaction, past, vars
<1>20. CASE RestoreState
  <2>1. CASE RollbackFails
    BY <1>20, <2>1
       DEF RestoreState, RollbackFails, Returned, Inside, Undone, instance, world, transaction,
           past, vars
  <2>2. CASE Inside /\ state' = before.state
                 /\ UNCHANGED <<mods, pin, entry, step, staged, retired, backups, active,
                             documented, registered, torn, unsettled>>
    BY <1>20, <2>2 DEF RestoreState, Inside, Undone, instance, world, transaction, past, vars
  <2> QED
    BY <1>20, <2>1, <2>2 DEF RestoreState
<1>21. CASE RestoreEntry
  <2>1. CASE RollbackFails
    BY <1>21, <2>1
       DEF RestoreEntry, RollbackFails, Returned, Inside, Undone, instance, world, transaction,
           past, vars
  <2>2. CASE Inside /\ entry' = before.entry /\ state = before.state
                 /\ UNCHANGED <<mods, pin, state, step, staged, retired, backups, active,
                             documented, registered, torn, unsettled>>
    BY <1>21, <2>2 DEF RestoreEntry, Inside, Undone, instance, world, transaction, past, vars
  <2> QED
    BY <1>21, <2>1, <2>2 DEF RestoreEntry
<1>22. CASE RestoreRegistry
  <2>1. CASE RollbackFails
    BY <1>22, <2>1
       DEF RestoreRegistry, RollbackFails, Returned, Inside, Undone, instance, world, transaction,
           past, vars
  <2>2. CASE Inside /\ pin' = before.pin
                 /\ UNCHANGED <<mods, state, entry, step, staged, retired, backups, active,
                             documented, registered, torn, unsettled>>
    BY <1>22, <2>2 DEF RestoreRegistry, Inside, Undone, instance, world, transaction, past, vars
  <2> QED
    BY <1>22, <2>1, <2>2 DEF RestoreRegistry
<1>23. CASE RolledBack
  <2>1. UNCHANGED instance /\ Locked
    BY <1>23 DEF RolledBack, Undone, Locked
  <2>2. active = {} /\ retired = {} /\ step = "undo"
    BY <1>23 DEF RolledBack, Undone
  <2>3. pin = before.pin
    BY <1>23, <2>1, <2>2 DEF RolledBack, PinFollows
  <2>4. entry = before.entry /\ (torn \/ state = before.state)
    BY <1>23, <2>1, <2>2 DEF RolledBack, DocumentsBack, DocumentsFollow
  <2>5. \A j \in Jars \ edited : mods[j] = before.mods[j]
    BY <2>1, <2>2 DEF FilesFollow
  <2>6. torn' = torn
    BY <1>23 DEF RolledBack, past
  <2> QED
    BY <2>1, <2>3, <2>4, <2>5, <2>6 DEF AsItWas, instance
<1>24. CASE Command
  BY <1>24 DEF Command, Upset, instance, world, transaction, past, vars
<1>25. ASSUME NEW j \in Jars, Edit(j) PROVE WholeOrNothing
  BY <1>25 DEF Edit, Upset, instance, world, transaction, past, vars
<1>26. CASE Publish
  BY <1>26 DEF Publish, Upset, instance, world, transaction, past, vars
<1>27. CASE Play
  BY <1>27 DEF Play, Upset, instance, world, transaction, past, vars
<1>28. CASE Quit
  BY <1>28 DEF Quit, Calm, instance, world, transaction, past, vars
<1>29. CASE Crash
  <2>1. UNCHANGED instance
    BY <1>29 DEF Crash
  <2>2. CASE step # "guard"
    BY <1>29, <2>2 DEF Crash, Guarded, Locked
  <2>3. CASE step = "guard"
    <3>1. Locked
      BY <2>3 DEF Locked
    <3>2. active = {} /\ retired = {}
      BY <2>3 DEF Fresh
    <3>3. AsItWas
      BY <2>1, <2>3, <3>1, <3>2 DEF AsItWas, instance, DocumentsFollow, PinFollows, FilesFollow
    <3> QED
      BY <3>3
  <2> QED
    BY <2>2, <2>3
<1>30. CASE UNCHANGED vars
  BY <1>30 DEF instance, world, transaction, past, vars
<1> QED
  BY <1>1, <1>2, <1>3, <1>4, <1>5, <1>6, <1>7, <1>8, <1>9, <1>10, <1>11, <1>12, <1>13,
     <1>14, <1>15, <1>16, <1>17, <1>18, <1>19, <1>20, <1>21, <1>22, <1>23, <1>24,
     <1>25, <1>26, <1>27, <1>28, <1>29, <1>30 DEF Next, Transaction

\* An update of the client is done wholly or not at all: one that returns has
\* exchanged jars, documents and pin, or left them as they were, whatever
\* failed (AllOrNothing); files nobody published stay, and nothing changes
\* under a running game (NothingElseTouched).
THEOREM UpdateExactness == Spec => UpdateIsExact
<1>1. CInv /\ [Next]_vars => WholeOrNothing
  BY WholeOrNothingStep DEF CInv
<1>2. CInv /\ [Next]_vars => BytesSurvive /\ Undisturbed
  BY BytesStep, UndisturbedStep DEF CInv
<1>3. Spec => AllOrNothing
  <2>1. CInv /\ [Next]_vars => [WholeOrNothing]_vars
    BY <1>1
  <2> QED
    BY <2>1, ClientInvariance, PTL DEF Spec, AllOrNothing, WholeOrNothing, AsItWas, Installed
<1>4. Spec => UserBytesSurvive
  <2>1. CInv /\ [Next]_vars => [BytesSurvive]_vars
    BY <1>2
  <2> QED
    BY <2>1, ClientInvariance, PTL DEF Spec, UserBytesSurvive, BytesSurvive
<1>5. Spec => GameUndisturbed
  <2>1. CInv /\ [Next]_vars => [Undisturbed]_vars
    BY <1>2
  <2> QED
    BY <2>1, ClientInvariance, PTL DEF Spec, GameUndisturbed, Undisturbed
<1> QED
  BY <1>3, <1>4, <1>5 DEF UpdateIsExact, NothingElseTouched

-----------------------------------------------------------------------------
(* The update card *)

\* Work that may install something.
Updating == {"preview", "apply", "download", "install"}

\* The stages of a check that holds the check lock.
Checking == {"launcher", "client", "record"}
Stages ==
    {"none", "called", "returned", "launcher", "client", "record", "applying", "applied",
     "downloading", "installing", "rechecking"}

Centres ==
    [launcher : Updates!Availabilities, client : Updates!Availabilities,
     clientOf : Instances \cup {None}]

CardType ==
    [action : Updates!Actions, overview : Updates!Overviews \cup {None},
     work : Updates!Ops \cup {"none"},
     queued : BOOLEAN, started : BOOLEAN, viewed : BOOLEAN, again : BOOLEAN,
     clicks : 0 .. MaxClicks]

\* No version is newer than the changes so far allow.
Dated ==
    /\ changes \in 0 .. MaxChanges
    /\ offered \in 0 .. (changes + 1)
    /\ offer # None =>
        offer \in Updates!Offer /\ offer.version <= changes + 1 /\ offer.build <= changes

\* What the native side holds.
CardWorld ==
    /\ Dated
    /\ installed \in [Instances -> Updates!Versions] /\ selected \in Instances
    /\ pending \in Updates!Offer \cup {None}
    /\ center \in Centres
    /\ checking \in BOOLEAN /\ startedUp \in BOOLEAN /\ busy \subseteq {"client", "launcher"}

IsCall(c) ==
    /\ c = [op |-> c.op, at |-> c.at, instance |-> c.instance, version |-> c.version,
            from |-> c.from, result |-> c.result]
    /\ c.op \in Updates!Ops \cup {None} /\ c.at \in Stages

\* A call is a record of the fields of a call.
CallShapes ==
    /\ calls = [p \in Updates!Pages |-> calls[p]]
    /\ \A p \in Updates!Pages : IsCall(calls[p])

CardShapes ==
    /\ page \in Updates!Pages
    /\ card \in CardType
    /\ approved \in [Updates!Pages -> Updates!Overviews \cup {None}]

\* The shown page waits for the command of its work, and for nothing when idle;
\* a page that was never shown called nothing.
CardAwaits ==
    /\ \A p \in Updates!Pages : p > page => calls[p] = Updates!NoCall
    /\ card.work = "none" => calls[page] = Updates!NoCall
    /\ card.work # "none" => calls[page].op = card.work /\ calls[page].at # "none"

\* Each stage belongs to its command, and an answer to what was asked.
StageOK(c) ==
    /\ c.at \in Checking => c.op \in {"startup", "check"}
    /\ c.at \in {"applying", "applied"} => c.op = "apply"
    /\ c.at = "downloading" => c.op = "download"
    /\ c.at \in {"installing", "rechecking"} => c.op = "install"
    /\ c.at \in {"client", "record"} => c.instance \in Instances
    /\ c.op \in {"preview", "apply"} => c.instance \in Instances
    /\ c.at = "returned" /\ c.op \in {"startup", "check"} =>
        c.result \in Updates!Overviews \cup {Failed}
    /\ c.at = "returned" /\ c.op = "preview" => c.result \in Updates!Previewed \cup {Failed}

CardStages == \A p \in Updates!Pages : StageOK(calls[p])

\* What a command was called with is what its page had been shown.
ChosenFor(c, overview) ==
    /\ c.op = "apply" => c.version = overview.client /\ c.instance = overview.clientInstance
    /\ c.op \in {"download", "install"} => c.version = overview.launcher
    /\ c.at = "rechecking" => c.from.version = c.version

CardChosen ==
    /\ card.work \in Updating => approved[page] \in Updates!Overviews
    /\ \A p \in Updates!Pages : ChosenFor(calls[p], approved[p])

\* One command at a time is in a stage that needs a lock or flag, which is up
\* exactly then.
CardOne ==
    /\ \A d \in {"client", "launcher"} :
        /\ \A p, q \in Updates!Holding(d) : p = q
        /\ d \in busy <=> Updates!Holding(d) # {}
    /\ \A p, q \in Updates!Pages : calls[p].at \in Checking /\ calls[q].at \in Checking => p = q
    /\ checking <=> \E p \in Updates!Pages : calls[p].at \in Checking

\* What the card says goes with its work; a check is queued behind the startup
\* check only.
CardWaits ==
    /\ Updates!CardSettles
    /\ card.work = "startup" => card.action # "updating"
    /\ card.work = "startup" /\ ~card.queued => card.action # "checking"
    /\ card.queued => card.work = "startup"

Matched == CallShapes /\ CardAwaits /\ CardStages /\ CardChosen
CardInv == CardWorld /\ CardShapes /\ Matched /\ CardOne /\ CardWaits /\ Updates!ApprovedOnly

\* The commands of other pages, and what this one was called with, stay.
Others(p) == \A q \in Updates!Pages : q # p => calls'[q] = calls[q]
SameCall(p) ==
    /\ calls'[p].op = calls[p].op /\ calls'[p].instance = calls[p].instance
    /\ calls'[p].version = calls[p].version /\ calls'[p].from = calls[p].from

\* An idle page has a call of the right shape.
LEMMA NoCallFacts ==
    /\ IsCall(Updates!NoCall) /\ StageOK(Updates!NoCall) /\ Updates!NoCall.op = None
    /\ Updates!NoCall.at = "none" /\ None \notin Updates!Ops
  BY CardNone DEF Updates!NoCall, IsCall, StageOK, Checking, Updates!Ops, Stages

\* What the three ways of changing a call do to the calls: a further step,
LEMMA GoesEffect ==
    ASSUME CallShapes, NEW p \in Updates!Pages, NEW stage \in Stages, Updates!Goes(p, stage)
    PROVE  /\ CallShapes' /\ Others(p) /\ SameCall(p)
           /\ calls'[p].at = stage
  BY DEF CallShapes, Updates!Goes, IsCall, Others, SameCall

\* an answer, or silence when the page is gone,
LEMMA ReturnEffect ==
    ASSUME CallShapes, page \in Updates!Pages, NEW p \in Updates!Pages, NEW result,
           Updates!Return(p, result)
    PROVE  /\ CallShapes' /\ Others(p)
           /\ \/ p = page /\ SameCall(p) /\ calls'[p].at = "returned" /\ calls'[p].result = result
              \/ p # page /\ calls'[p] = Updates!NoCall
<1>1. CASE p = page
  <2>1. calls' = [calls EXCEPT ![p] = [@ EXCEPT !.at = "returned", !.result = result]]
    BY <1>1 DEF Updates!Return
  <2>2. calls'[p] = [calls[p] EXCEPT !.at = "returned", !.result = result] /\ Others(p)
        /\ calls' = [q \in Updates!Pages |-> calls'[q]]
    BY <2>1 DEF CallShapes, Others
  <2>3. IsCall(calls'[p]) /\ SameCall(p) /\ calls'[p].at = "returned" /\ calls'[p].result = result
    BY <2>2 DEF CallShapes, IsCall, Stages, SameCall
  <2>4. QED
    BY <1>1, <2>2, <2>3 DEF CallShapes, Others
<1>2. CASE p # page
  <2>1. calls' = [calls EXCEPT ![p] = Updates!NoCall]
    BY <1>2 DEF Updates!Return
  <2>2. QED
    BY <1>2, <2>1, NoCallFacts DEF CallShapes, Others
<1>3. QED
  BY <1>1, <1>2

\* a new call,
LEMMA CallEffect ==
    ASSUME CallShapes, page \in Updates!Pages, NEW op \in Updates!Ops, NEW which, NEW version,
           NEW from,
           Updates!Call(op, which, version, from)
    PROVE  /\ CallShapes' /\ Others(page)
           /\ calls'[page].op = op /\ calls'[page].at = "called"
           /\ calls'[page].instance = which /\ calls'[page].version = version
  BY DEF CallShapes, Updates!Call, IsCall, Stages, Others

\* and the end of one.
LEMMA QuietEffect ==
    ASSUME CallShapes, page \in Updates!Pages, Updates!Quiet
    PROVE  CallShapes' /\ Others(page) /\ calls'[page] = Updates!NoCall
  BY NoCallFacts DEF CallShapes, Updates!Quiet, Others

Restful == {"none", "called", "returned", "applied"}

\* A step, an answer, a call and an end leave calls, answers and approvals
\* matched.
LEMMA Advancing ==
    ASSUME Matched, page \in Updates!Pages, NEW p \in Updates!Pages,
           NEW stage \in Stages \ {"none", "rechecking"},
           calls[p].at # "none", Updates!Goes(p, stage), StageOK([calls[p] EXCEPT !.at = stage]),
           UNCHANGED <<page, approved>>, card'.work = card.work
    PROVE  Matched' /\ Others(p) /\ calls'[p].at = stage
<1>1. CallShapes' /\ Others(p) /\ SameCall(p) /\ calls'[p].at = stage
  BY GoesEffect DEF Matched
<1>2. CardAwaits'
  BY <1>1, NoCallFacts DEF Matched, CardAwaits, Others, SameCall
<1>3. calls'[p] = [calls[p] EXCEPT !.at = stage]
  BY DEF Matched, CallShapes, Updates!Goes
<1>4. CardStages'
  BY <1>1, <1>3 DEF Matched, CardStages, Others
<1>5. CardChosen'
  BY <1>1 DEF Matched, CardChosen, ChosenFor, Others, SameCall
<1>6. QED
  BY <1>1, <1>2, <1>4, <1>5 DEF Matched

LEMMA Answering ==
    ASSUME Matched, page \in Updates!Pages, NEW p \in Updates!Pages, NEW result,
           calls[p].at # "none", Updates!Return(p, result),
           calls[p].op \in {"startup", "check"} => result \in Updates!Overviews \cup {Failed},
           calls[p].op = "preview" => result \in Updates!Previewed \cup {Failed},
           UNCHANGED <<page, approved>>, card'.work = card.work
    PROVE  Matched' /\ Others(p) /\ calls'[p].at \in Restful
<1>1. /\ CallShapes' /\ Others(p)
      /\ \/ p = page /\ SameCall(p) /\ calls'[p].at = "returned" /\ calls'[p].result = result
         \/ p # page /\ calls'[p] = Updates!NoCall
  BY ReturnEffect DEF Matched
<1>2. CardAwaits'
  BY <1>1, NoCallFacts DEF Matched, CardAwaits, Others, SameCall
<1>3. CardStages'
  BY <1>1, NoCallFacts DEF Matched, CardStages, StageOK, Others, SameCall, Checking
<1>4. CardChosen'
  BY <1>1, NoCallFacts DEF Matched, CardChosen, ChosenFor, Others, SameCall, Updates!Ops
<1>5. QED
  BY <1>1, <1>2, <1>3, <1>4, NoCallFacts DEF Matched, Restful

LEMMA Calling ==
    ASSUME Matched, page \in Updates!Pages, NEW op \in Updates!Ops, NEW which, NEW version,
           NEW from,
           Updates!Call(op, which, version, from), card'.work = op, page' = page,
           \A q \in Updates!Pages : q # page => approved'[q] = approved[q],
           op \in {"preview", "apply"} => which \in Instances,
           op = "apply" =>
               version = approved'[page].client /\ which = approved'[page].clientInstance,
           op \in {"download", "install"} => version = approved'[page].launcher,
           op \in Updating => approved'[page] \in Updates!Overviews
    PROVE  Matched' /\ Others(page) /\ calls'[page].at = "called"
<1>1. /\ CallShapes' /\ Others(page)
      /\ calls'[page].op = op /\ calls'[page].at = "called"
      /\ calls'[page].instance = which /\ calls'[page].version = version
  BY CallEffect DEF Matched
<1>2. CardAwaits'
  BY <1>1, CardBounds DEF Matched, CardAwaits, Others, Updates!Ops, Updates!Pages
<1>3. CardStages'
  BY <1>1 DEF Matched, CardStages, StageOK, Others, Checking
<1>4. CardChosen'
  BY <1>1 DEF Matched, CardChosen, ChosenFor, Others
<1>5. QED
  BY <1>1, <1>2, <1>3, <1>4 DEF Matched

LEMMA Quieting ==
    ASSUME Matched, page \in Updates!Pages, Updates!Quiet, card'.work = "none", page' = page,
           \A q \in Updates!Pages : q # page => approved'[q] = approved[q]
    PROVE  Matched' /\ Others(page) /\ calls'[page].at = "none"
<1>1. CallShapes' /\ Others(page) /\ calls'[page] = Updates!NoCall
  BY QuietEffect DEF Matched
<1>2. CardAwaits' /\ CardStages' /\ CardChosen'
  BY <1>1, NoCallFacts
     DEF Matched, CardAwaits, CardStages, CardChosen, ChosenFor, Others, Updating, Updates!Ops
<1>3. QED
  BY <1>1, <1>2, NoCallFacts DEF Matched

\* A command that needs no lock before and after leaves the locks alone.
LEMMA OneSame ==
    ASSUME CardOne, NEW p \in Updates!Pages, Others(p), UNCHANGED <<busy, checking>>,
           calls[p].at \in Restful, calls'[p].at \in Restful
    PROVE  CardOne'
  BY DEF CardOne, Updates!Holding, Others, Restful, Checking

\* Overviews stay overviews when they are read and received.
LEMMA OverviewType ==
    ASSUME NEW i \in Instances,
           NEW c \in Centres
    PROVE  Updates!OverviewOf(i, c) \in Updates!Overviews
  BY DEF Updates!OverviewOf, Updates!Overviews, Updates!Availabilities, Centres

LEMMA ReceiveType ==
    ASSUME NEW c \in CardType, NEW overview \in Updates!Overviews
    PROVE  /\ Updates!Receive(c, overview) \in CardType
           /\ Updates!Receive(c, overview).work = c.work
           /\ Updates!Receive(c, overview).queued = c.queued
           /\ Updates!Receive(c, overview).action \in {"checking", "updating"} =>
                Updates!Receive(c, overview).action = c.action
           /\ Updates!Receive(c, overview).action = "available" =>
                Updates!HasUpdate(Updates!Receive(c, overview).overview)
  BY DEF Updates!Receive, CardType, Updates!Actions, Updates!HasUpdate

\* Versions stay dated.
LEMMA DatedSame ==
    ASSUME Dated, UNCHANGED <<changes, offered, offer>>
    PROVE  Dated'
  BY DEF Dated

LEMMA FaultDated ==
    ASSUME Dated, NEW fails \in BOOLEAN, Updates!Fault(fails), UNCHANGED <<offered, offer>>
    PROVE  Dated'
<1>1. PICK c \in 0 .. MaxChanges : changes' = c /\ changes <= c
  BY CardBounds DEF Updates!Fault, Dated
<1>2. QED
  BY <1>1, CardBounds DEF Dated, Updates!Offer, Updates!Versions, Updates!Builds

LEMMA DatedType ==
    ASSUME Dated
    PROVE  offered \in Updates!Versions /\ offer \in Updates!Offer \cup {None}
  BY CardBounds DEF Dated, Updates!Versions

\* A call written field by field.
LEMMA Twice ==
    ASSUME CallShapes, NEW p \in Updates!Pages, NEW c, IsCall(c), calls' = [calls EXCEPT ![p] = c]
    PROVE  CallShapes' /\ Others(p) /\ calls'[p] = c
  BY DEF CallShapes, Others
\* The record of a check is a record of a check.
LEMMA Centred ==
    ASSUME NEW c \in Centres,
           NEW a \in Updates!Availabilities,  NEW i \in Instances,
           NEW d, d = [c EXCEPT !.client = a, !.clientOf = i]
    PROVE  d \in Centres
  BY DEF Centres

\* Each step keeps the invariant: the native commands
LEMMA CheckBeginsKeeps ==
    ASSUME CardInv, NEW p \in Updates!Pages, Updates!CheckBegins(p)
    PROVE  CardInv'
<1>0. /\ CardWorld /\ CardShapes /\ Matched /\ CardOne /\ CardWaits /\ Updates!ApprovedOnly
      /\ page \in Updates!Pages
  BY DEF CardInv, CardShapes
<1>1. UNCHANGED <<Updates!world, changes, page, card, approved, done>>
  BY DEF Updates!CheckBegins
<1>2. CardShapes' /\ CardWaits' /\ Updates!ApprovedOnly'
  BY <1>0, <1>1
     DEF CardShapes, CardWaits, Updates!CardSettles, Updates!ApprovedOnly, Updates!HasUpdate,
         Updates!Offered
<1>3. CASE Updates!Return(p, Failed) /\ UNCHANGED Updates!native
  <2>1. Matched' /\ Others(p) /\ calls'[p].at \in Restful
    BY <1>0, <1>1, <1>3, Answering DEF Updates!CheckBegins
  <2>2. CardOne'
    BY <1>0, <1>3, <2>1, OneSame DEF Restful, Updates!CheckBegins, Updates!native
  <2>3. CardWorld'
    BY <1>0, <1>1, <1>3, DatedSame DEF CardWorld, Updates!world, Updates!native
  <2>4. QED
    BY <1>2, <2>1, <2>2, <2>3 DEF CardInv
<1>4. CASE Updates!Return(p, Updates!Overview(center)) /\ UNCHANGED Updates!native
  <2>1. Updates!Overview(center) \in Updates!Overviews
    BY <1>0, OverviewType DEF Updates!Overview, CardWorld
  <2>2. Matched' /\ Others(p) /\ calls'[p].at \in Restful
    BY <1>0, <1>1, <1>4, <2>1, Answering DEF Updates!CheckBegins
  <2>3. CardOne'
    BY <1>0, <1>4, <2>2, OneSame DEF Restful, Updates!CheckBegins, Updates!native
  <2>4. CardWorld'
    BY <1>0, <1>1, <1>4, DatedSame DEF CardWorld, Updates!world, Updates!native
  <2>5. QED
    BY <1>2, <2>2, <2>3, <2>4 DEF CardInv
<1>5. CASE /\ ~checking /\ checking' = TRUE /\ Updates!Goes(p, "launcher")
           /\ startedUp' = (startedUp \/ calls[p].op = "startup")
           /\ UNCHANGED <<center, busy, pending>>
  <2>1. Matched' /\ Others(p) /\ calls'[p].at = "launcher"
    BY <1>0, <1>1, <1>5, Advancing
       DEF Matched, CallShapes, IsCall, StageOK, Updates!CheckBegins, Checking, Stages
  <2>2. CardOne'
    BY <1>0, <1>5, <2>1 DEF CardOne, Updates!Holding, Others, Checking, Updates!CheckBegins
  <2>3. CardWorld'
    BY <1>0, <1>1, <1>5, DatedSame DEF CardWorld, Updates!world
  <2>4. QED
    BY <1>2, <2>1, <2>2, <2>3 DEF CardInv
<1>6. QED
  BY <1>0, <1>3, <1>4, <1>5 DEF Updates!CheckBegins, CardWorld

LEMMA LauncherAnswersKeeps ==
    ASSUME CardInv, NEW p \in Updates!Pages, NEW fails \in BOOLEAN,
           Updates!LauncherAnswers(p, fails)
    PROVE  CardInv'
<1>0. /\ CardWorld /\ CardShapes /\ Matched /\ CardOne /\ CardWaits /\ Updates!ApprovedOnly
      /\ page \in Updates!Pages
  BY DEF CardInv, CardShapes
<1>1. UNCHANGED <<page, card, approved, done>>
  BY DEF Updates!LauncherAnswers
<1>2. CardShapes' /\ CardWaits' /\ Updates!ApprovedOnly'
  BY <1>0, <1>1
     DEF CardShapes, CardWaits, Updates!CardSettles, Updates!ApprovedOnly, Updates!HasUpdate,
         Updates!Offered
<1>9. PICK c : calls' = [calls EXCEPT ![p] = c]
               /\ c = [calls[p] EXCEPT !.at = "client", !.instance = selected]
  BY DEF Updates!LauncherAnswers
<1>10. /\ IsCall(c) /\ c.at = "client" /\ c.instance = selected /\ c.op = calls[p].op
       /\ c.version = calls[p].version
  <2>1. IsCall(calls[p]) /\ "client" \in Stages
    BY <1>0 DEF Matched, CallShapes, Stages
  <2>2. QED
    BY <1>9, <2>1 DEF IsCall
<1>11. calls[p].at = "launcher" /\ UNCHANGED <<busy, checking>>
  BY DEF Updates!LauncherAnswers
<1>3. /\ CallShapes' /\ Others(p) /\ calls'[p].at = "client" /\ calls'[p].instance = selected
      /\ calls'[p].op = calls[p].op /\ calls'[p].version = calls[p].version
      /\ calls[p].op \in {"startup", "check"}
  BY <1>0, <1>9, <1>10, Twice DEF Updates!LauncherAnswers, Matched, CardStages, StageOK, Checking
<1>4. CardAwaits' /\ CardChosen'
  BY <1>0, <1>1, <1>3, <1>11, NoCallFacts DEF Matched, CardAwaits, CardChosen, ChosenFor, Others
<1>5. CardStages'
  BY <1>0, <1>3, CardNone DEF Matched, CardStages, StageOK, Others, CardWorld, Checking
<1>6. CardOne'
  BY <1>0, <1>3, <1>11 DEF CardOne, Updates!Holding, Others, Checking
<1>7. CardWorld'
  BY <1>0, CardBounds, FaultDated, DatedType
     DEF CardWorld, Centres, Updates!LauncherAnswers, Updates!world, Updates!Availabilities,
         Updates!Offer, Updates!Versions
<1>8. QED
  BY <1>2, <1>3, <1>4, <1>5, <1>6, <1>7 DEF CardInv, Matched

LEMMA ClientAnswersKeeps ==
    ASSUME CardInv, NEW p \in Updates!Pages, NEW fails \in BOOLEAN, Updates!ClientAnswers(p, fails)
    PROVE  CardInv'
<1>0. /\ CardWorld /\ CardShapes /\ Matched /\ CardOne /\ CardWaits /\ Updates!ApprovedOnly
      /\ page \in Updates!Pages
  BY DEF CardInv, CardShapes
<1>1. UNCHANGED <<page, card, approved, done>> /\ Updates!Goes(p, "record")
  BY DEF Updates!ClientAnswers
<1>2. CardShapes' /\ CardWaits' /\ Updates!ApprovedOnly'
  BY <1>0, <1>1
     DEF CardShapes, CardWaits, Updates!CardSettles, Updates!ApprovedOnly, Updates!HasUpdate,
         Updates!Offered
<1>3. Matched' /\ Others(p) /\ calls'[p].at = "record"
  BY <1>0, <1>1, Advancing
     DEF Matched, CallShapes, IsCall, CardStages, StageOK, Updates!ClientAnswers, Checking, Stages
<1>4. CardOne'
  BY <1>0, <1>3 DEF CardOne, Updates!Holding, Others, Checking, Updates!ClientAnswers
<1>5. CardWorld'
  BY <1>0, CardBounds, FaultDated, DatedType
     DEF CardWorld, Centres, Updates!ClientAnswers, Updates!world, Updates!Availabilities,
         Updates!Versions
<1>6. QED
  BY <1>2, <1>3, <1>4, <1>5 DEF CardInv

LEMMA CheckEndsKeeps ==
    ASSUME CardInv, NEW p \in Updates!Pages, Updates!CheckEnds(p)
    PROVE  CardInv'
<1>0. /\ CardWorld /\ CardShapes /\ Matched /\ CardOne /\ CardWaits /\ Updates!ApprovedOnly
      /\ page \in Updates!Pages
  BY DEF CardInv, CardShapes
<1>1. UNCHANGED <<page, approved, done>>
  BY DEF Updates!CheckEnds
<1>2. CardWorld'
  BY <1>0, DatedSame
     DEF CardWorld, Centres, Updates!CheckEnds, Updates!world, Matched, CardStages, StageOK
<1>3. Updates!Overview(center') \in Updates!Overviews
  BY <1>0, <1>2, OverviewType DEF Updates!Overview, CardWorld, Updates!CheckEnds, Updates!world
<1>4. card' = Updates!Receive(card, Updates!Overview(center')) /\ card \in CardType
  BY <1>0 DEF Updates!CheckEnds, CardShapes
<1>5. CardShapes' /\ CardWaits' /\ card'.work = card.work
  BY <1>0, <1>1, <1>3, <1>4, ReceiveType DEF CardShapes, CardWaits, Updates!CardSettles
<1>6. Matched' /\ Others(p) /\ calls'[p].at \in Restful
  BY <1>0, <1>1, <1>3, <1>5, Answering
     DEF Updates!CheckEnds, Matched, CardStages, StageOK, Checking
<1>7. CardOne'
  BY <1>0, <1>6 DEF CardOne, Updates!Holding, Others, Restful, Checking, Updates!CheckEnds
<1>8. Updates!ApprovedOnly'
  BY <1>0, <1>1 DEF Updates!ApprovedOnly
<1>9. QED
  BY <1>2, <1>5, <1>6, <1>7, <1>8 DEF CardInv

LEMMA PreviewsKeeps ==
    ASSUME CardInv, NEW p \in Updates!Pages, NEW fails \in BOOLEAN, Updates!Previews(p, fails)
    PROVE  CardInv'
<1>0. /\ CardWorld /\ CardShapes /\ Matched /\ CardOne /\ CardWaits /\ Updates!ApprovedOnly
      /\ page \in Updates!Pages
  BY DEF CardInv, CardShapes
<1>1. UNCHANGED <<Updates!world, Updates!native, page, card, approved, done>>
  BY DEF Updates!Previews
<1>2. CardShapes' /\ CardWaits' /\ Updates!ApprovedOnly'
  BY <1>0, <1>1
     DEF CardShapes, CardWaits, Updates!CardSettles, Updates!ApprovedOnly, Updates!HasUpdate,
         Updates!Offered
<1>3. CardWorld'
  BY <1>0, <1>1, FaultDated DEF CardWorld, Updates!Previews, Updates!world, Updates!native
<1>4. PICK result \in Updates!Previewed \cup {Failed} : Updates!Return(p, result)
  BY <1>0, DatedType
     DEF Updates!Previews, Updates!Previewed, CardWorld, Matched, CardStages, StageOK
<1>5. Matched' /\ Others(p) /\ calls'[p].at \in Restful
  BY <1>0, <1>1, <1>4, Answering DEF Updates!Previews
<1>6. CardOne'
  BY <1>0, <1>1, <1>5, OneSame DEF Restful, Updates!Previews, Updates!native
<1>7. QED
  BY <1>2, <1>3, <1>5, <1>6 DEF CardInv

LEMMA BeginsApplyKeeps ==
    ASSUME CardInv, NEW p \in Updates!Pages, Updates!Begins(p, "apply", "client", "applying"),
           UNCHANGED <<Updates!world, changes, page, card, approved, done>>
    PROVE  CardInv'
<1>0. /\ CardWorld /\ CardShapes /\ Matched /\ CardOne /\ CardWaits /\ Updates!ApprovedOnly
      /\ page \in Updates!Pages
  BY DEF CardInv, CardShapes
<1>2. CardShapes' /\ CardWaits' /\ Updates!ApprovedOnly'
  BY <1>0
     DEF CardShapes, CardWaits, Updates!CardSettles, Updates!ApprovedOnly, Updates!HasUpdate,
         Updates!Offered
<1>3. CASE Updates!Return(p, Failed) /\ UNCHANGED Updates!native
  <2>1. Matched' /\ Others(p) /\ calls'[p].at \in Restful
    BY <1>0, <1>3, Answering DEF Updates!Begins
  <2>2. CardOne'
    BY <1>0, <1>3, <2>1, OneSame DEF Restful, Updates!Begins, Updates!native
  <2>3. CardWorld'
    BY <1>0, <1>3, DatedSame DEF CardWorld, Updates!world, Updates!native
  <2>4. QED
    BY <1>2, <2>1, <2>2, <2>3 DEF CardInv
<1>4. CASE /\ "client" \notin busy /\ busy' = busy \cup {"client"} /\ Updates!Goes(p, "applying")
           /\ UNCHANGED <<center, checking, pending, startedUp>>
  <2>1. Matched' /\ Others(p) /\ calls'[p].at = "applying"
    BY <1>0, <1>4, Advancing
       DEF Matched, CallShapes, IsCall, CardStages, StageOK, Updates!Begins, Checking, Stages
  <2>2. CardOne'
    BY <1>0, <1>4, <2>1 DEF CardOne, Updates!Holding, Others, Checking, Updates!Begins
  <2>3. CardWorld'
    BY <1>0, <1>4, DatedSame DEF CardWorld, Updates!world
  <2>4. QED
    BY <1>2, <2>1, <2>2, <2>3 DEF CardInv
<1>5. QED
  BY <1>3, <1>4 DEF Updates!Begins

LEMMA BeginsDownloadKeeps ==
    ASSUME CardInv, NEW p \in Updates!Pages,
           Updates!Begins(p, "download", "launcher", "downloading"),
           UNCHANGED <<Updates!world, changes, page, card, approved, done>>
    PROVE  CardInv'
<1>0. /\ CardWorld /\ CardShapes /\ Matched /\ CardOne /\ CardWaits /\ Updates!ApprovedOnly
      /\ page \in Updates!Pages
  BY DEF CardInv, CardShapes
<1>2. CardShapes' /\ CardWaits' /\ Updates!ApprovedOnly'
  BY <1>0
     DEF CardShapes, CardWaits, Updates!CardSettles, Updates!ApprovedOnly, Updates!HasUpdate,
         Updates!Offered
<1>3. CASE Updates!Return(p, Failed) /\ UNCHANGED Updates!native
  <2>1. Matched' /\ Others(p) /\ calls'[p].at \in Restful
    BY <1>0, <1>3, Answering DEF Updates!Begins
  <2>2. CardOne'
    BY <1>0, <1>3, <2>1, OneSame DEF Restful, Updates!Begins, Updates!native
  <2>3. CardWorld'
    BY <1>0, <1>3, DatedSame DEF CardWorld, Updates!world, Updates!native
  <2>4. QED
    BY <1>2, <2>1, <2>2, <2>3 DEF CardInv
<1>4. CASE /\ "launcher" \notin busy /\ busy' = busy \cup {"launcher"}
           /\ Updates!Goes(p, "downloading")
           /\ UNCHANGED <<center, checking, pending, startedUp>>
  <2>1. Matched' /\ Others(p) /\ calls'[p].at = "downloading"
    BY <1>0, <1>4, Advancing
       DEF Matched, CallShapes, IsCall, CardStages, StageOK, Updates!Begins, Checking, Stages
  <2>2. CardOne'
    BY <1>0, <1>4, <2>1 DEF CardOne, Updates!Holding, Others, Checking, Updates!Begins
  <2>3. CardWorld'
    BY <1>0, <1>4, DatedSame DEF CardWorld, Updates!world
  <2>4. QED
    BY <1>2, <2>1, <2>2, <2>3 DEF CardInv
<1>5. QED
  BY <1>3, <1>4 DEF Updates!Begins

LEMMA BeginsInstallKeeps ==
    ASSUME CardInv, NEW p \in Updates!Pages,
           Updates!Begins(p, "install", "launcher", "installing"),
           UNCHANGED <<Updates!world, changes, page, card, approved, done>>
    PROVE  CardInv'
<1>0. /\ CardWorld /\ CardShapes /\ Matched /\ CardOne /\ CardWaits /\ Updates!ApprovedOnly
      /\ page \in Updates!Pages
  BY DEF CardInv, CardShapes
<1>2. CardShapes' /\ CardWaits' /\ Updates!ApprovedOnly'
  BY <1>0
     DEF CardShapes, CardWaits, Updates!CardSettles, Updates!ApprovedOnly, Updates!HasUpdate,
         Updates!Offered
<1>3. CASE Updates!Return(p, Failed) /\ UNCHANGED Updates!native
  <2>1. Matched' /\ Others(p) /\ calls'[p].at \in Restful
    BY <1>0, <1>3, Answering DEF Updates!Begins
  <2>2. CardOne'
    BY <1>0, <1>3, <2>1, OneSame DEF Restful, Updates!Begins, Updates!native
  <2>3. CardWorld'
    BY <1>0, <1>3, DatedSame DEF CardWorld, Updates!world, Updates!native
  <2>4. QED
    BY <1>2, <2>1, <2>2, <2>3 DEF CardInv
<1>4. CASE /\ "launcher" \notin busy /\ busy' = busy \cup {"launcher"}
           /\ Updates!Goes(p, "installing")
           /\ UNCHANGED <<center, checking, pending, startedUp>>
  <2>1. Matched' /\ Others(p) /\ calls'[p].at = "installing"
    BY <1>0, <1>4, Advancing
       DEF Matched, CallShapes, IsCall, CardStages, StageOK, Updates!Begins, Checking, Stages
  <2>2. CardOne'
    BY <1>0, <1>4, <2>1 DEF CardOne, Updates!Holding, Others, Checking, Updates!Begins
  <2>3. CardWorld'
    BY <1>0, <1>4, DatedSame DEF CardWorld, Updates!world
  <2>4. QED
    BY <1>2, <2>1, <2>2, <2>3 DEF CardInv
<1>5. QED
  BY <1>3, <1>4 DEF Updates!Begins

LEMMA AppliesKeeps ==
    ASSUME CardInv, NEW p \in Updates!Pages, NEW fails \in BOOLEAN, Updates!Applies(p, fails)
    PROVE  CardInv'
<1>0. /\ CardWorld /\ CardShapes /\ Matched /\ CardOne /\ CardWaits /\ Updates!ApprovedOnly
      /\ page \in Updates!Pages
  BY DEF CardInv, CardShapes
<1>1. UNCHANGED <<page, card, approved>> /\ busy' = busy \ {"client"} /\ UNCHANGED checking
  BY DEF Updates!Applies
<1>2. CardShapes' /\ CardWaits'
  BY <1>0, <1>1 DEF CardShapes, CardWaits, Updates!CardSettles, Updates!HasUpdate, Updates!Offered
<1>3. calls[p].op = "apply" /\ calls[p].at = "applying" /\ calls[p].instance \in Instances
  BY <1>0 DEF Updates!Applies, Matched, CardStages, StageOK
<1>4. CardWorld'
  BY <1>0, <1>3, FaultDated, DatedType DEF CardWorld, Updates!Applies, Updates!world
<1>5. CASE UNCHANGED done /\ \E result : Updates!Return(p, result)
  <2>1. Matched' /\ Others(p) /\ calls'[p].at \in Restful
    BY <1>0, <1>1, <1>3, <1>5, Answering
  <2>2. CardOne'
    BY <1>0, <1>1, <1>3, <2>1 DEF CardOne, Updates!Holding, Others, Restful, Checking
  <2>3. QED
    BY <1>0, <1>2, <1>4, <1>5, <2>1, <2>2 DEF CardInv, Updates!ApprovedOnly
<1>6. CASE /\ offered = calls[p].version /\ Updates!Goes(p, "applied")
           /\ Updates!Record(p, "client", calls[p].instance, offered)
  <2>1. Matched' /\ Others(p) /\ calls'[p].at = "applied"
    BY <1>0, <1>1, <1>3, <1>6, Advancing
       DEF Matched, CallShapes, IsCall, CardStages, StageOK, Checking, Stages
  <2>2. CardOne'
    BY <1>0, <1>1, <1>3, <2>1 DEF CardOne, Updates!Holding, Others, Checking
  <2>3. Updates!ApprovedOnly'
    BY <1>0, <1>3, <1>6 DEF Updates!ApprovedOnly, Updates!Record, Matched, CardChosen, ChosenFor
  <2>4. QED
    BY <1>2, <1>4, <2>1, <2>2, <2>3 DEF CardInv
<1>7. QED
  BY <1>5, <1>6 DEF Updates!Applies

LEMMA AppliedRecordedKeeps ==
    ASSUME CardInv, NEW p \in Updates!Pages, Updates!AppliedRecorded(p)
    PROVE  CardInv'
<1>0. /\ CardWorld /\ CardShapes /\ Matched /\ CardOne /\ CardWaits /\ Updates!ApprovedOnly
      /\ page \in Updates!Pages
  BY DEF CardInv, CardShapes
<1>1. UNCHANGED <<page, card, approved, done>> /\ UNCHANGED <<busy, checking>>
  BY DEF Updates!AppliedRecorded
<1>2. CardShapes' /\ CardWaits' /\ Updates!ApprovedOnly'
  BY <1>0, <1>1
     DEF CardShapes, CardWaits, Updates!CardSettles, Updates!ApprovedOnly, Updates!HasUpdate,
         Updates!Offered
<1>3. calls[p].op = "apply" /\ calls[p].at = "applied" /\ calls[p].instance \in Instances
  BY <1>0 DEF Updates!AppliedRecorded, Matched, CardStages, StageOK
<1>8. center' \in Centres
  <2>1. 0 \in Updates!Availabilities
    BY CardBounds DEF Updates!Availabilities, Updates!Versions
  <2>2. QED
    BY <1>0, <1>3, <2>1, Centred DEF CardWorld, Updates!AppliedRecorded
<1>4. CardWorld'
  BY <1>0, <1>8, DatedSame DEF CardWorld, Updates!AppliedRecorded, Updates!world
<1>5. Matched' /\ Others(p) /\ calls'[p].at \in Restful
  BY <1>0, <1>1, <1>3, Answering DEF Updates!AppliedRecorded
<1>6. CardOne'
  BY <1>0, <1>1, <1>3, <1>5, OneSame DEF Restful
<1>7. QED
  BY <1>2, <1>4, <1>5, <1>6 DEF CardInv

LEMMA DownloadsKeeps ==
    ASSUME CardInv, NEW p \in Updates!Pages, NEW fails \in BOOLEAN, Updates!Downloads(p, fails)
    PROVE  CardInv'
<1>0. /\ CardWorld /\ CardShapes /\ Matched /\ CardOne /\ CardWaits /\ Updates!ApprovedOnly
      /\ page \in Updates!Pages
  BY DEF CardInv, CardShapes
<1>1. UNCHANGED <<page, card, approved, done>> /\ busy' = busy \ {"launcher"} /\ UNCHANGED checking
  BY DEF Updates!Downloads
<1>2. CardShapes' /\ CardWaits' /\ Updates!ApprovedOnly'
  BY <1>0, <1>1
     DEF CardShapes, CardWaits, Updates!CardSettles, Updates!ApprovedOnly, Updates!HasUpdate,
         Updates!Offered
<1>3. calls[p].op = "download" /\ calls[p].at = "downloading"
  BY <1>0 DEF Updates!Downloads, Matched, CardStages, StageOK
<1>4. CardWorld'
  BY <1>0, FaultDated, DatedType DEF CardWorld, Updates!Downloads, Updates!world
<1>5. \E result : Updates!Return(p, result)
  BY DEF Updates!Downloads
<1>6. Matched' /\ Others(p) /\ calls'[p].at \in Restful
  BY <1>0, <1>1, <1>3, <1>5, Answering
<1>7. CardOne'
  BY <1>0, <1>1, <1>3, <1>6 DEF CardOne, Updates!Holding, Others, Restful, Checking
<1>8. QED
  BY <1>2, <1>4, <1>6, <1>7 DEF CardInv

LEMMA TakesKeeps ==
    ASSUME CardInv, NEW p \in Updates!Pages, Updates!Takes(p)
    PROVE  CardInv'
<1>0. /\ CardWorld /\ CardShapes /\ Matched /\ CardOne /\ CardWaits /\ Updates!ApprovedOnly
      /\ page \in Updates!Pages
  BY DEF CardInv, CardShapes
<1>1. UNCHANGED <<page, card, approved, done>> /\ UNCHANGED checking
  BY DEF Updates!Takes
<1>2. CardShapes' /\ CardWaits' /\ Updates!ApprovedOnly'
  BY <1>0, <1>1
     DEF CardShapes, CardWaits, Updates!CardSettles, Updates!ApprovedOnly, Updates!HasUpdate,
         Updates!Offered
<1>3. calls[p].op = "install" /\ calls[p].at = "installing"
  BY <1>0 DEF Updates!Takes, Matched, CardStages, StageOK
<1>4. CardWorld'
  BY <1>0, DatedSame DEF CardWorld, Updates!Takes, Updates!world
<1>5. CASE busy' = busy \ {"launcher"} /\ \E result : Updates!Return(p, result)
  <2>1. Matched' /\ Others(p) /\ calls'[p].at \in Restful
    BY <1>0, <1>1, <1>3, <1>5, Answering
  <2>2. CardOne'
    BY <1>0, <1>1, <1>3, <1>5, <2>1 DEF CardOne, Updates!Holding, Others, Restful, Checking
  <2>3. QED
    BY <1>2, <1>4, <2>1, <2>2 DEF CardInv
<1>6. CASE /\ pending # None /\ pending.version = calls[p].version /\ UNCHANGED busy
           /\ calls' = [calls EXCEPT ![p].at = "rechecking", ![p].from = pending]
  <2>7. PICK c : calls' = [calls EXCEPT ![p] = c]
                 /\ c = [calls[p] EXCEPT !.at = "rechecking", !.from = pending]
    BY <1>6
  <2>8. /\ IsCall(c) /\ c.at = "rechecking" /\ c.from = pending /\ c.op = calls[p].op
        /\ c.version = calls[p].version /\ c.instance = calls[p].instance
    <3>1. IsCall(calls[p]) /\ "rechecking" \in Stages
      BY <1>0 DEF Matched, CallShapes, Stages
    <3>2. QED
      BY <2>7, <3>1 DEF IsCall
  <2>1. /\ CallShapes' /\ Others(p) /\ calls'[p].at = "rechecking" /\ calls'[p].from = pending
        /\ calls'[p].op = calls[p].op /\ calls'[p].version = calls[p].version
        /\ calls'[p].instance = calls[p].instance
    BY <1>0, <2>7, <2>8, Twice DEF Matched
  <2>2. CardAwaits'
    BY <1>0, <1>1, <1>3, <2>1, NoCallFacts DEF Matched, CardAwaits, Others
  <2>3. CardStages'
    BY <1>0, <1>3, <2>1 DEF Matched, CardStages, StageOK, Others, Checking
  <2>4. CardChosen'
    BY <1>0, <1>1, <1>3, <1>6, <2>1 DEF Matched, CardChosen, ChosenFor, Others
  <2>9. UNCHANGED busy
    BY <1>6
  <2>5. CardOne'
    BY <1>0, <1>1, <1>3, <2>9, <2>1 DEF CardOne, Updates!Holding, Others, Checking
  <2>6. QED
    BY <1>2, <1>4, <2>1, <2>2, <2>3, <2>4, <2>5 DEF CardInv, Matched
<1>7. QED
  BY <1>5, <1>6 DEF Updates!Takes

LEMMA InstallsKeeps ==
    ASSUME CardInv, NEW p \in Updates!Pages, NEW fails \in BOOLEAN, Updates!Installs(p, fails)
    PROVE  CardInv'
<1>0. /\ CardWorld /\ CardShapes /\ Matched /\ CardOne /\ CardWaits /\ Updates!ApprovedOnly
      /\ page \in Updates!Pages
  BY DEF CardInv, CardShapes
<1>1. UNCHANGED <<page, card, approved>> /\ busy' = busy \ {"launcher"} /\ UNCHANGED checking
  BY DEF Updates!Installs
<1>2. CardShapes' /\ CardWaits'
  BY <1>0, <1>1 DEF CardShapes, CardWaits, Updates!CardSettles, Updates!HasUpdate, Updates!Offered
<1>3. calls[p].op = "install" /\ calls[p].at = "rechecking"
  BY <1>0 DEF Updates!Installs, Matched, CardStages, StageOK
<1>4. CardWorld'
  BY <1>0, FaultDated DEF CardWorld, Updates!Installs, Updates!world
<1>5. \E result : Updates!Return(p, result)
  BY DEF Updates!Installs
<1>6. Matched' /\ Others(p) /\ calls'[p].at \in Restful
  BY <1>0, <1>1, <1>3, <1>5, Answering
<1>7. CardOne'
  BY <1>0, <1>1, <1>3, <1>6 DEF CardOne, Updates!Holding, Others, Restful, Checking
<1>8. Updates!ApprovedOnly'
  BY <1>0, <1>3
     DEF Updates!Installs, Updates!ApprovedOnly, Updates!Record, Matched, CardChosen, ChosenFor
<1>9. QED
  BY <1>2, <1>4, <1>6, <1>7, <1>8 DEF CardInv

\* the controller of the shown page
LEMMA StartupKeeps ==
    ASSUME CardInv, Updates!Startup
    PROVE  CardInv'
<1>0. /\ CardWorld /\ CardShapes /\ Matched /\ CardOne /\ CardWaits /\ Updates!ApprovedOnly
      /\ page \in Updates!Pages /\ card \in CardType
  BY DEF CardInv, CardShapes
<1>1. CardWorld' /\ Updates!ApprovedOnly'
  BY <1>0, DatedSame
     DEF CardWorld, Updates!ApprovedOnly, Updates!world, Updates!native, Updates!Startup
<1>2. CASE /\ card.work = "none" /\ card' = [card EXCEPT !.started = TRUE, !.work = "startup"]
           /\ Updates!Call("startup", None, None, None)
  <2>1. card' \in CardType /\ card'.work = "startup"
    BY <1>0, <1>2 DEF CardType, Updates!Ops
  <2>2. CardShapes' /\ CardWaits'
    BY <1>0, <1>2, <2>1 DEF CardShapes, CardType, CardWaits, Updates!CardSettles, Updates!Startup
  <2>3. Matched' /\ Others(page) /\ calls'[page].at = "called"
    BY <1>0, <1>2, <2>1, Calling DEF Updates!Startup, Updates!Ops, Updating
  <2>4. CardOne'
    BY <1>0, <1>2, <2>3, NoCallFacts, OneSame
       DEF Updates!Startup, Restful, Updates!native, Matched, CardAwaits
  <2>5. QED
    BY <1>1, <2>2, <2>3, <2>4 DEF CardInv
<1>3. CASE card.work # "none" /\ card' = [card EXCEPT !.started = TRUE] /\ UNCHANGED calls
  <2>1. CardShapes' /\ CardWaits' /\ card'.work = card.work
    BY <1>0, <1>3 DEF CardShapes, CardType, CardWaits, Updates!CardSettles, Updates!Startup
  <2>2. Matched' /\ CardOne'
    BY <1>0, <1>3, <2>1
       DEF Matched, CallShapes, CardAwaits, CardStages, CardChosen, CardOne, Updates!Holding,
           Updates!Startup, Updates!native
  <2>3. QED
    BY <1>1, <2>1, <2>2 DEF CardInv
<1>4. QED
  BY <1>2, <1>3 DEF Updates!Startup

LEMMA StartupAnswersKeeps ==
    ASSUME CardInv, Updates!StartupAnswers
    PROVE  CardInv'
<1>0. /\ CardWorld /\ CardShapes /\ Matched /\ CardOne /\ CardWaits /\ Updates!ApprovedOnly
      /\ page \in Updates!Pages /\ card \in CardType
  BY DEF CardInv, CardShapes
<1>1. CardWorld' /\ Updates!ApprovedOnly'
  BY <1>0, DatedSame
     DEF CardWorld, Updates!ApprovedOnly, Updates!world, Updates!native, Updates!StartupAnswers
<1>2. card.work = "startup" /\ calls[page].op = "startup" /\ calls[page].at = "returned"
  BY <1>0 DEF Updates!StartupAnswers, Updates!Answered, Matched, CardAwaits
<1>3. Updates!Answer \in Updates!Overviews \cup {Failed}
  BY <1>0, <1>2 DEF Updates!Answer, Matched, CardStages, StageOK
<1>4. PICK c \in CardType :
         /\ c.work = card.work /\ c.queued = card.queued
         /\ c.action \in {"checking", "updating"} => c.action = card.action
         /\ c.action = "available" => Updates!HasUpdate(c.overview)
         /\ IF card.queued THEN Updates!PerformCheck(c) /\ Updates!Call("check", None, None, None)
            ELSE card' = [c EXCEPT !.work = "none"] /\ Updates!Quiet
  <2>1. CASE Updates!Answer = Failed
    BY <1>0, <2>1 DEF Updates!StartupAnswers, CardWaits, Updates!CardSettles
  <2>2. CASE Updates!Answer # Failed
    BY <1>0, <1>3, <2>2, ReceiveType DEF Updates!StartupAnswers
  <2>3. QED
    BY <2>1, <2>2
<1>5. UNCHANGED <<page, approved, busy, checking>>
  BY DEF Updates!StartupAnswers, Updates!native
<1>6. CASE card.queued
  <2>1. card' \in CardType /\ card'.work = "check" /\ ~card'.queued /\ card'.action = "checking"
    BY <1>4, <1>6 DEF Updates!PerformCheck, CardType, Updates!Actions, Updates!Ops
  <2>2. CardShapes' /\ CardWaits'
    BY <1>0, <1>5, <2>1 DEF CardShapes, CardWaits, Updates!CardSettles
  <2>3. Matched' /\ Others(page) /\ calls'[page].at = "called"
    BY <1>0, <1>4, <1>5, <1>6, <2>1, Calling DEF Updates!Ops, Updating
  <2>4. CardOne'
    BY <1>0, <1>2, <1>5, <2>3, OneSame DEF Restful
  <2>5. QED
    BY <1>1, <2>2, <2>3, <2>4 DEF CardInv
<1>7. CASE ~card.queued
  <2>1. /\ card' \in CardType /\ card'.work = "none" /\ card'.queued = card.queued
        /\ card'.action = c.action /\ card'.overview = c.overview
    BY <1>4, <1>7 DEF CardType
  <2>2. CardShapes' /\ CardWaits'
    BY <1>0, <1>2, <1>4, <1>5, <1>7, <2>1
       DEF CardShapes, CardWaits, Updates!CardSettles, Updates!HasUpdate, Updates!Offered
  <2>3. Matched' /\ Others(page) /\ calls'[page].at = "none"
    BY <1>0, <1>4, <1>5, <1>7, <2>1, Quieting
  <2>4. CardOne'
    BY <1>0, <1>2, <1>5, <2>3, OneSame DEF Restful
  <2>5. QED
    BY <1>1, <2>2, <2>3, <2>4 DEF CardInv
<1>8. QED
  BY <1>6, <1>7

LEMMA CheckAnswersKeeps ==
    ASSUME CardInv, Updates!CheckAnswers
    PROVE  CardInv'
<1>0. /\ CardWorld /\ CardShapes /\ Matched /\ CardOne /\ CardWaits /\ Updates!ApprovedOnly
      /\ page \in Updates!Pages /\ card \in CardType
  BY DEF CardInv, CardShapes
<1>1. CardWorld' /\ Updates!ApprovedOnly'
  BY <1>0, DatedSame
     DEF CardWorld, Updates!ApprovedOnly, Updates!world, Updates!native, Updates!CheckAnswers
<1>2. card.work = "check" /\ calls[page].op = "check" /\ calls[page].at = "returned"
  BY <1>0 DEF Updates!CheckAnswers, Updates!Answered, Matched, CardAwaits
<1>3. Updates!Answer \in Updates!Overviews \cup {Failed}
  BY <1>0, <1>2 DEF Updates!Answer, Matched, CardStages, StageOK
<1>5. UNCHANGED <<page, approved, busy, checking>> /\ Updates!Quiet
  BY DEF Updates!CheckAnswers, Updates!native
<1>6. PICK action \in {"checkError", "available", "noUpdate", "idle"},
               overview \in Updates!Overviews \cup {None} :
         /\ card' = [card EXCEPT !.work = "none", !.overview = overview, !.action = action]
         /\ action = "available" => Updates!HasUpdate(overview)
  BY <1>0, <1>3 DEF Updates!CheckAnswers, CardType
<1>7. card' \in CardType /\ card'.work = "none" /\ card'.queued = card.queued
      /\ card'.action = action /\ card'.overview = overview
  BY <1>0, <1>6 DEF CardType, Updates!Actions
<1>8. CardShapes' /\ CardWaits'
  BY <1>0, <1>2, <1>5, <1>6, <1>7
     DEF CardShapes, CardWaits, Updates!CardSettles, Updates!HasUpdate, Updates!Offered
<1>9. Matched' /\ Others(page) /\ calls'[page].at = "none"
  BY <1>0, <1>5, <1>7, Quieting
<1>10. CardOne'
  BY <1>0, <1>2, <1>5, <1>9, OneSame DEF Restful
<1>11. QED
  BY <1>1, <1>8, <1>9, <1>10 DEF CardInv

\* The two ways out of a piece of work: rest, or call the next command.
LEMMA RestsKeeps ==
    ASSUME CardInv, NEW c \in CardType, NEW action \in {"idle", "updateError"},
           NEW again \in BOOLEAN,
           Updates!Rests(c, action, again), ~c.queued, calls[page].at \in Restful,
           UNCHANGED <<page, busy, checking>>
    PROVE  CardShapes' /\ Matched' /\ CardOne' /\ CardWaits'
<1>0. CardWorld /\ CardShapes /\ Matched /\ CardOne /\ CardWaits /\ page \in Updates!Pages
  BY DEF CardInv, CardShapes
<1>1. /\ card' \in CardType /\ card'.work = "none" /\ card'.queued = c.queued
      /\ card'.action = action
  BY DEF Updates!Rests, CardType, Updates!Actions
<1>2. /\ approved' \in [Updates!Pages -> Updates!Overviews \cup {None}] /\ Updates!Quiet
      /\ \A q \in Updates!Pages : q # page => approved'[q] = approved[q]
  BY <1>0 DEF Updates!Rests, CardShapes
<1>3. CardShapes' /\ CardWaits'
  BY <1>0, <1>1, <1>2 DEF CardShapes, CardWaits, Updates!CardSettles
<1>4. Matched' /\ Others(page) /\ calls'[page].at = "none"
  BY <1>0, <1>1, <1>2, Quieting
<1>5. CardOne'
  BY <1>0, <1>4, OneSame DEF Restful
<1>6. QED
  BY <1>3, <1>4, <1>5

LEMMA CallsKeeps ==
    ASSUME CardInv, NEW c \in CardType, NEW op \in Updating, NEW which, NEW version, NEW from,
           Updates!Call(op, which, version, from),
           card' \in CardType, card'.work = op, ~card'.queued,
           card'.action = "available" => Updates!HasUpdate(card'.overview), page' = page,
           approved' \in [Updates!Pages -> Updates!Overviews \cup {None}],
           approved'[page] \in Updates!Overviews,
           \A q \in Updates!Pages : q # page => approved'[q] = approved[q],
           op \in {"preview", "apply"} => which \in Instances,
           op = "apply" =>
               version = approved'[page].client /\ which = approved'[page].clientInstance,
           op \in {"download", "install"} => version = approved'[page].launcher,
           calls[page].at \in Restful, UNCHANGED <<busy, checking>>
    PROVE  CardShapes' /\ Matched' /\ CardOne' /\ CardWaits'
<1>0. CardWorld /\ CardShapes /\ Matched /\ CardOne /\ CardWaits /\ page \in Updates!Pages
  BY DEF CardInv, CardShapes
<1>1. CardShapes' /\ CardWaits'
  BY <1>0 DEF CardShapes, CardWaits, Updates!CardSettles, Updating
<1>2. Matched' /\ Others(page) /\ calls'[page].at = "called"
  BY <1>0, Calling DEF Updating, Updates!Ops
<1>3. CardOne'
  BY <1>0, <1>2, OneSame DEF Restful
<1>4. QED
  BY <1>1, <1>2, <1>3

LEMMA PreviewAnswersKeeps ==
    ASSUME CardInv, Updates!PreviewAnswers
    PROVE  CardInv'
<1>0. /\ CardWorld /\ CardShapes /\ Matched /\ CardOne /\ CardWaits /\ Updates!ApprovedOnly
      /\ page \in Updates!Pages /\ card \in CardType
  BY DEF CardInv, CardShapes
<1>1. CardWorld' /\ Updates!ApprovedOnly'
  BY <1>0, DatedSame
     DEF CardWorld, Updates!ApprovedOnly, Updates!world, Updates!native, Updates!PreviewAnswers
<1>2. /\ card.work = "preview" /\ calls[page].op = "preview" /\ calls[page].at = "returned"
      /\ ~card.queued /\ approved[page] \in Updates!Overviews /\ calls[page].at \in Restful
  BY <1>0
     DEF Updates!PreviewAnswers, Updates!Answered, Matched, CardAwaits, CardChosen, CardWaits,
         CardType, Updating, Restful
<1>3. UNCHANGED <<page, busy, checking>>
  BY DEF Updates!PreviewAnswers, Updates!native
<1>4. CASE \E again \in BOOLEAN : Updates!Rests(card, "updateError", again)
  BY <1>0, <1>1, <1>2, <1>3, <1>4, RestsKeeps DEF CardInv
<1>5. CASE /\ Updates!Answer.version = approved[page].client /\ UNCHANGED approved
           /\ card' = [card EXCEPT !.work = "apply"]
           /\ Updates!Call("apply", approved[page].clientInstance,
                           Updates!Answer.version, Updates!Answer.from)
  <2>1. /\ card' \in CardType /\ card'.work = "apply" /\ ~card'.queued
        /\ card'.action = card.action
    BY <1>0, <1>2, <1>5 DEF CardType, Updates!Ops
  <2>2. card'.action = "available" => Updates!HasUpdate(card'.overview)
    <3>1. card'.overview = card.overview
      BY <1>0, <1>5 DEF CardType
    <3>2. QED
      BY <1>0, <2>1, <3>1 DEF CardWaits, Updates!CardSettles, Updates!HasUpdate, Updates!Offered
  <2>3. /\ approved' \in [Updates!Pages -> Updates!Overviews \cup {None}]
        /\ approved[page].clientInstance \in Instances
    BY <1>0, <1>2, <1>5 DEF CardShapes, Updates!Overviews
  <2>4. CardShapes' /\ Matched' /\ CardOne' /\ CardWaits'
    BY <1>0, <1>2, <1>3, <1>5, <2>1, <2>2, <2>3, CallsKeeps DEF Updating
  <2>5. QED
    BY <1>1, <2>4 DEF CardInv
<1>6. QED
  BY <1>4, <1>5 DEF Updates!PreviewAnswers

LEMMA DownloadAnswersKeeps ==
    ASSUME CardInv, Updates!DownloadAnswers
    PROVE  CardInv'
<1>0. /\ CardWorld /\ CardShapes /\ Matched /\ CardOne /\ CardWaits /\ Updates!ApprovedOnly
      /\ page \in Updates!Pages /\ card \in CardType
  BY DEF CardInv, CardShapes
<1>1. CardWorld' /\ Updates!ApprovedOnly'
  BY <1>0, DatedSame
     DEF CardWorld, Updates!ApprovedOnly, Updates!world, Updates!native, Updates!DownloadAnswers
<1>2. /\ card.work = "download" /\ calls[page].op = "download" /\ calls[page].at = "returned"
      /\ ~card.queued /\ approved[page] \in Updates!Overviews /\ calls[page].at \in Restful
  BY <1>0
     DEF Updates!DownloadAnswers, Updates!Answered, Matched, CardAwaits, CardChosen, CardWaits,
         CardType, Updating, Restful
<1>3. UNCHANGED <<page, busy, checking>>
  BY DEF Updates!DownloadAnswers, Updates!native
<1>4. CASE \E again \in BOOLEAN : Updates!Rests(card, "updateError", again)
  BY <1>0, <1>1, <1>2, <1>3, <1>4, RestsKeeps DEF CardInv
<1>5. CASE /\ UNCHANGED approved /\ card' = [card EXCEPT !.work = "install"]
           /\ Updates!Call("install", None, approved[page].launcher, None)
  <2>1. /\ card' \in CardType /\ card'.work = "install" /\ ~card'.queued
        /\ card'.action = card.action
    BY <1>0, <1>2, <1>5 DEF CardType, Updates!Ops
  <2>2. card'.action = "available" => Updates!HasUpdate(card'.overview)
    <3>1. card'.overview = card.overview
      BY <1>0, <1>5 DEF CardType
    <3>2. QED
      BY <1>0, <2>1, <3>1 DEF CardWaits, Updates!CardSettles, Updates!HasUpdate, Updates!Offered
  <2>3. approved' \in [Updates!Pages -> Updates!Overviews \cup {None}]
    BY <1>0, <1>5 DEF CardShapes
  <2>4. CardShapes' /\ Matched' /\ CardOne' /\ CardWaits'
    BY <1>0, <1>2, <1>3, <1>5, <2>1, <2>2, <2>3, CallsKeeps DEF Updating
  <2>5. QED
    BY <1>1, <2>4 DEF CardInv
<1>6. QED
  BY <1>4, <1>5 DEF Updates!DownloadAnswers

LEMMA InstallAnswersKeeps ==
    ASSUME CardInv, Updates!InstallAnswers
    PROVE  CardInv'
<1>0. /\ CardWorld /\ CardShapes /\ Matched /\ CardOne /\ CardWaits /\ Updates!ApprovedOnly
      /\ page \in Updates!Pages /\ card \in CardType
  BY DEF CardInv, CardShapes
<1>1. CardWorld' /\ Updates!ApprovedOnly'
  BY <1>0, DatedSame
     DEF CardWorld, Updates!ApprovedOnly, Updates!world, Updates!native, Updates!InstallAnswers
<1>2. /\ card.work = "install" /\ calls[page].op = "install" /\ calls[page].at = "returned"
      /\ ~card.queued /\ approved[page] \in Updates!Overviews /\ calls[page].at \in Restful
  BY <1>0
     DEF Updates!InstallAnswers, Updates!Answered, Matched, CardAwaits, CardChosen, CardWaits,
         CardType, Updating, Restful
<1>3. UNCHANGED <<page, busy, checking>>
  BY DEF Updates!InstallAnswers, Updates!native
<1>4. \E action \in {"idle", "updateError"}, again \in BOOLEAN : Updates!Rests(card, action, again)
  BY DEF Updates!InstallAnswers
<1>5. QED
  BY <1>0, <1>1, <1>2, <1>3, <1>4, RestsKeeps DEF CardInv

\* After the client comes the launcher, or rest.
LEMMA DownloadsNextKeeps ==
    ASSUME CardInv, NEW c \in CardType, NEW overview \in Updates!Overviews,
           Updates!DownloadsNext(c, overview),
           ~c.queued, calls[page].at \in Restful, UNCHANGED <<page, busy, checking>>
    PROVE  CardShapes' /\ Matched' /\ CardOne' /\ CardWaits'
<1>0. CardShapes /\ page \in Updates!Pages
  BY DEF CardInv, CardShapes
<1>1. CASE Updates!Offered(overview.launcher)
  <2>1. /\ card' \in CardType /\ card'.work = "download" /\ ~card'.queued
        /\ card'.action = "updating"
    BY <1>1 DEF Updates!DownloadsNext, CardType, Updates!Actions, Updates!Ops
  <2>2. /\ approved' \in [Updates!Pages -> Updates!Overviews \cup {None}]
        /\ approved'[page] = overview
        /\ \A q \in Updates!Pages : q # page => approved'[q] = approved[q]
    BY <1>0, <1>1 DEF Updates!DownloadsNext, CardShapes
  <2>3. Updates!Call("download", None, overview.launcher, None)
    BY <1>1 DEF Updates!DownloadsNext
  <2>4. QED
    BY <2>1, <2>2, <2>3, CallsKeeps DEF Updating
<1>2. CASE ~Updates!Offered(overview.launcher)
  BY <1>2, RestsKeeps DEF Updates!DownloadsNext
<1>3. QED
  BY <1>1, <1>2

LEMMA ApplyAnswersKeeps ==
    ASSUME CardInv, NEW fails \in BOOLEAN, Updates!ApplyAnswers(fails)
    PROVE  CardInv'
<1>0. /\ CardWorld /\ CardShapes /\ Matched /\ CardOne /\ CardWaits /\ Updates!ApprovedOnly
      /\ page \in Updates!Pages /\ card \in CardType
  BY DEF CardInv, CardShapes
<1>1. CardWorld' /\ Updates!ApprovedOnly'
  BY <1>0, FaultDated
     DEF CardWorld, Updates!ApprovedOnly, Updates!world, Updates!native, Updates!ApplyAnswers,
         Updates!Fault
<1>2. /\ card.work = "apply" /\ calls[page].op = "apply" /\ calls[page].at = "returned"
      /\ ~card.queued /\ approved[page] \in Updates!Overviews /\ calls[page].at \in Restful
  BY <1>0
     DEF Updates!ApplyAnswers, Updates!Answered, Matched, CardAwaits, CardChosen, CardWaits,
         CardType, Updating, Restful
<1>3. UNCHANGED <<page, busy, checking>>
  BY DEF Updates!ApplyAnswers, Updates!native
<1>4. CASE \E again \in BOOLEAN : Updates!Rests(card, "updateError", again)
  BY <1>0, <1>1, <1>2, <1>3, <1>4, RestsKeeps DEF CardInv
<1>5. CASE \E c \in CardType : /\ c = [card EXCEPT !.overview = [approved[page] EXCEPT !.client = 0]]
                               /\ \/ Updates!Rests(c, "updateError", FALSE)
                                  \/ Updates!DownloadsNext(Updates!Receive(c, Updates!Overview(center)),
                                                            approved[page])
  <2>1. PICK c \in CardType : /\ c = [card EXCEPT !.overview = [approved[page] EXCEPT !.client = 0]]
                              /\ \/ Updates!Rests(c, "updateError", FALSE)
                                 \/ Updates!DownloadsNext(Updates!Receive(c, Updates!Overview(center)),
                                                            approved[page])
    BY <1>5
  <2>2. ~c.queued
    BY <1>0, <1>2, <2>1 DEF CardType
  <2>3. Updates!Overview(center) \in Updates!Overviews
    BY <1>0, OverviewType DEF Updates!Overview, CardWorld
  <2>4. /\ Updates!Receive(c, Updates!Overview(center)) \in CardType
        /\ ~Updates!Receive(c, Updates!Overview(center)).queued
    BY <2>2, <2>3, ReceiveType
  <2>5. QED
    BY <1>1, <1>2, <1>3, <2>1, <2>2, <2>4, RestsKeeps, DownloadsNextKeeps DEF CardInv
<1>6. [card EXCEPT !.overview = [approved[page] EXCEPT !.client = 0]] \in CardType
  <2>1. 0 \in Updates!Availabilities
    BY CardBounds DEF Updates!Availabilities, Updates!Versions
  <2>2. [approved[page] EXCEPT !.client = 0] \in Updates!Overviews
    BY <1>2, <2>1 DEF Updates!Overviews
  <2>3. QED
    BY <1>0, <2>2 DEF CardType
<1>7. QED
  BY <1>4, <1>5, <1>6 DEF Updates!ApplyAnswers

LEMMA ClickKeeps ==
    ASSUME CardInv, Updates!Click
    PROVE  CardInv'
<1>0. /\ CardWorld /\ CardShapes /\ Matched /\ CardOne /\ CardWaits /\ Updates!ApprovedOnly
      /\ page \in Updates!Pages /\ card \in CardType
  BY DEF CardInv, CardShapes
<1>1. CardWorld' /\ Updates!ApprovedOnly'
  BY <1>0, DatedSame
     DEF CardWorld, Updates!ApprovedOnly, Updates!world, Updates!native, Updates!Click
<1>2. UNCHANGED <<page, busy, checking>> /\ card.clicks < MaxClicks
  BY DEF Updates!Click, Updates!native
<1>3. PICK c : c = [card EXCEPT !.clicks = @ + 1]
  OBVIOUS
<1>4. /\ c \in CardType /\ c.work = card.work /\ c.queued = card.queued /\ c.action = card.action
      /\ c.overview = card.overview
  BY <1>0, <1>2, <1>3, CardBounds DEF CardType
<1>5. card.work = "none" => calls[page].at \in Restful /\ ~card.queued
  BY <1>0, NoCallFacts DEF Matched, CardAwaits, Restful, CardWaits, CardType
<1>6. CASE /\ card.work = "none" /\ Updates!HasUpdate(card.overview)
           /\ Updates!Offered(card.overview.client)
           /\ card' = [c EXCEPT !.action = "updating", !.work = "preview"]
           /\ Updates!Call("preview", card.overview.clientInstance, None, None)
           /\ approved' = [approved EXCEPT ![page] = card.overview]
  <2>1. card.overview \in Updates!Overviews /\ card.overview.clientInstance \in Instances
    BY <1>0, <1>6 DEF Updates!HasUpdate, CardType, Updates!Overviews
  <2>2. /\ card' \in CardType /\ card'.work = "preview" /\ ~card'.queued
        /\ card'.action = "updating"
    BY <1>4, <1>5, <1>6 DEF CardType, Updates!Ops, Updates!Actions
  <2>3. /\ approved' \in [Updates!Pages -> Updates!Overviews \cup {None}]
        /\ approved'[page] = card.overview
        /\ \A q \in Updates!Pages : q # page => approved'[q] = approved[q]
    BY <1>0, <1>6, <2>1 DEF CardShapes
  <2>4. CardShapes' /\ Matched' /\ CardOne' /\ CardWaits'
    BY <1>0, <1>2, <1>5, <1>6, <2>1, <2>2, <2>3, CallsKeeps DEF Updating
  <2>5. QED
    BY <1>1, <2>4 DEF CardInv
<1>7. CASE /\ card.work = "none" /\ Updates!HasUpdate(card.overview)
           /\ Updates!DownloadsNext(c, card.overview)
  <2>1. card.overview \in Updates!Overviews
    BY <1>0, <1>7 DEF Updates!HasUpdate, CardType
  <2>2. QED
    BY <1>1, <1>2, <1>4, <1>5, <1>7, <2>1, DownloadsNextKeeps DEF CardInv
<1>8. CASE /\ UNCHANGED <<approved, calls>> /\ card.work = "startup"
           /\ card' = [c EXCEPT !.action = "checking", !.queued = TRUE]
  <2>1. card' \in CardType /\ card'.work = card.work /\ card'.action = "checking" /\ card'.queued
    BY <1>4, <1>8 DEF CardType, Updates!Actions
  <2>2. CardShapes' /\ CardWaits'
    BY <1>0, <1>2, <1>8, <2>1 DEF CardShapes, CardWaits, Updates!CardSettles
  <2>3. Matched' /\ CardOne'
    BY <1>0, <1>2, <1>8, <2>1
       DEF Matched, CallShapes, CardAwaits, CardStages, CardChosen, CardOne, Updates!Holding
  <2>4. QED
    BY <1>1, <2>2, <2>3 DEF CardInv
<1>9. CASE /\ UNCHANGED approved /\ card.work = "none"
           /\ Updates!PerformCheck(c) /\ Updates!Call("check", None, None, None)
  <2>1. card' \in CardType /\ card'.work = "check" /\ ~card'.queued /\ card'.action = "checking"
    BY <1>4, <1>9 DEF Updates!PerformCheck, CardType, Updates!Actions, Updates!Ops
  <2>2. CardShapes' /\ CardWaits'
    BY <1>0, <1>2, <1>9, <2>1 DEF CardShapes, CardWaits, Updates!CardSettles
  <2>3. Matched' /\ Others(page) /\ calls'[page].at = "called"
    BY <1>0, <1>2, <1>9, <2>1, Calling DEF Updates!Ops, Updating
  <2>4. CardOne'
    BY <1>0, <1>2, <1>5, <1>9, <2>3, OneSame DEF Restful
  <2>5. QED
    BY <1>1, <2>2, <2>3, <2>4 DEF CardInv
<1>10. QED
  BY <1>3, <1>6, <1>7, <1>8, <1>9 DEF Updates!Click

LEMMA ViewKeeps ==
    ASSUME CardInv, Updates!View
    PROVE  CardInv'
<1>0. /\ CardWorld /\ CardShapes /\ Matched /\ CardOne /\ CardWaits /\ Updates!ApprovedOnly
      /\ page \in Updates!Pages /\ card \in CardType
  BY DEF CardInv, CardShapes
<1>1. CardWorld' /\ Updates!ApprovedOnly'
  BY <1>0, DatedSame
     DEF CardWorld, Updates!ApprovedOnly, Updates!world, Updates!native, Updates!View
<1>3. /\ card' \in CardType /\ card'.work = card.work /\ card'.queued = card.queued
      /\ card'.action \in {"checking", "updating"} => card'.action = card.action
      /\ card'.action = "available" => Updates!HasUpdate(card'.overview)
  <2>1. CASE card.viewed
    BY <1>0, <2>1 DEF Updates!View, CardType, Updates!Actions, CardWaits, Updates!CardSettles
  <2>2. CASE ~card.viewed
    <3>1. PICK c : c = [card EXCEPT !.viewed = TRUE, !.clicks = @ + 1]
      OBVIOUS
    <3>6. card.clicks + 1 \in 0 .. MaxClicks
      BY <1>0, CardBounds DEF Updates!View, CardType
    <3>2. c \in CardType /\ c.work = card.work /\ c.queued = card.queued /\ c.action = card.action
      BY <1>0, <3>1, <3>6 DEF CardType
    <3>3. Updates!Overview(center) \in Updates!Overviews
      BY <1>0, OverviewType DEF Updates!Overview, CardWorld
    <3>4. card' = Updates!Receive(c, Updates!Overview(center))
      BY <2>2, <3>1 DEF Updates!View
    <3>5. QED
      BY <3>2, <3>3, <3>4, ReceiveType
  <2>3. QED
    BY <2>1, <2>2
<1>4. UNCHANGED <<page, approved, calls, busy, checking>>
  BY DEF Updates!View, Updates!native
<1>5. CardShapes' /\ CardWaits'
  BY <1>0, <1>3, <1>4 DEF CardShapes, CardWaits, Updates!CardSettles
<1>6. Matched' /\ CardOne'
  BY <1>0, <1>3, <1>4
     DEF Matched, CallShapes, CardAwaits, CardStages, CardChosen, CardOne, Updates!Holding
<1>7. QED
  BY <1>1, <1>5, <1>6 DEF CardInv

LEMMA TimerEndsKeeps ==
    ASSUME CardInv, Updates!TimerEnds
    PROVE  CardInv'
<1>0. /\ CardWorld /\ CardShapes /\ Matched /\ CardOne /\ CardWaits /\ Updates!ApprovedOnly
      /\ page \in Updates!Pages /\ card \in CardType
  BY DEF CardInv, CardShapes
<1>1. CardWorld' /\ Updates!ApprovedOnly'
  BY <1>0, DatedSame
     DEF CardWorld, Updates!ApprovedOnly, Updates!world, Updates!native, Updates!TimerEnds
<1>3. /\ card' \in CardType /\ card'.work = card.work /\ card'.queued = card.queued
      /\ card'.action \in {"checking", "updating"} => card'.action = card.action
      /\ card'.action = "available" => Updates!HasUpdate(card'.overview)
  BY <1>0 DEF Updates!TimerEnds, CardType, Updates!Actions
<1>4. UNCHANGED <<page, approved, calls, busy, checking>>
  BY DEF Updates!TimerEnds, Updates!native
<1>5. CardShapes' /\ CardWaits'
  BY <1>0, <1>3, <1>4 DEF CardShapes, CardWaits, Updates!CardSettles
<1>6. Matched' /\ CardOne'
  BY <1>0, <1>3, <1>4
     DEF Matched, CallShapes, CardAwaits, CardStages, CardChosen, CardOne, Updates!Holding
<1>7. QED
  BY <1>1, <1>5, <1>6 DEF CardInv

LEMMA SelectsKeeps ==
    ASSUME CardInv, Updates!Selects
    PROVE  CardInv'
<1>0. /\ CardWorld /\ CardShapes /\ Matched /\ CardOne /\ CardWaits /\ Updates!ApprovedOnly
      /\ page \in Updates!Pages /\ card \in CardType
  BY DEF CardInv, CardShapes
<1>1. CardWorld' /\ Updates!ApprovedOnly'
  <2>1. Dated'
    BY <1>0, FaultDated DEF CardWorld, Updates!Selects, Updates!Changed, Updates!Fault
  <2>2. QED
    BY <1>0, <2>1 DEF CardWorld, Updates!ApprovedOnly, Updates!native, Updates!Selects
<1>3. /\ card' \in CardType /\ card'.work = card.work /\ card'.queued = card.queued
      /\ card'.action \in {"checking", "updating"} => card'.action = card.action
      /\ card'.action = "available" => Updates!HasUpdate(card'.overview)
  <2>1. PICK i \in Instances : 
          selected' = i /\ card' = Updates!Receive(card, Updates!OverviewOf(i, center))
    BY DEF Updates!Selects
  <2>2. Updates!OverviewOf(i, center) \in Updates!Overviews
    BY <1>0, OverviewType DEF CardWorld
  <2>3. QED
    BY <1>0, <2>1, <2>2, ReceiveType
<1>4. UNCHANGED <<page, approved, calls, busy, checking>>
  BY DEF Updates!Selects, Updates!native
<1>5. CardShapes' /\ CardWaits'
  BY <1>0, <1>3, <1>4 DEF CardShapes, CardWaits, Updates!CardSettles
<1>6. Matched' /\ CardOne'
  BY <1>0, <1>3, <1>4
     DEF Matched, CallShapes, CardAwaits, CardStages, CardChosen, CardOne, Updates!Holding
<1>7. QED
  BY <1>1, <1>5, <1>6 DEF CardInv

LEMMA ReloadKeeps ==
    ASSUME CardInv, Updates!Reload
    PROVE  CardInv'
<1>0. /\ CardWorld /\ CardShapes /\ Matched /\ CardOne /\ CardWaits /\ Updates!ApprovedOnly
      /\ page \in Updates!Pages /\ card \in CardType
  BY DEF CardInv, CardShapes
<1>1. CardWorld' /\ Updates!ApprovedOnly'
  BY <1>0, DatedSame
     DEF CardWorld, Updates!ApprovedOnly, Updates!world, Updates!native, Updates!Reload
<1>2. page' = page + 1 /\ page' \in Updates!Pages /\ UNCHANGED <<approved, busy, checking>>
  BY <1>0, CardBounds DEF Updates!Reload, Updates!Pages, Updates!native
<1>3. /\ Updates!Overview(center) \in Updates!Overviews /\ Updates!Card \in CardType
      /\ Updates!Card.work = "none" /\ ~Updates!Card.queued /\ Updates!Card.action = "idle"
  BY <1>0, OverviewType, CardBounds
     DEF Updates!Overview, CardWorld, Updates!Card, CardType, Updates!Actions
<1>4. /\ card' \in CardType /\ card'.work = "none" /\ ~card'.queued
      /\ card'.action \notin {"checking", "updating"}
      /\ card'.action = "available" => Updates!HasUpdate(card'.overview)
  BY <1>3, ReceiveType DEF Updates!Reload
<1>5. CardShapes' /\ CardWaits'
  BY <1>0, <1>2, <1>4 DEF CardShapes, CardWaits, Updates!CardSettles
<1>6. /\ calls'[page] = (IF calls[page].at = "returned" THEN Updates!NoCall ELSE calls[page])
      /\ Others(page) /\ CallShapes'
  BY <1>0, NoCallFacts DEF Updates!Reload, Matched, CallShapes, Others
<1>7. CardAwaits'
  BY <1>0, <1>2, <1>4, <1>6, CardBounds DEF Matched, CardAwaits, Others, Updates!Pages
<1>8. CardStages' /\ CardChosen'
  BY <1>0, <1>2, <1>4, <1>6, NoCallFacts
     DEF Matched, CardStages, CardChosen, ChosenFor, Others, Updating, Updates!Ops
<1>9. CardOne'
  BY <1>0, <1>2, <1>6, NoCallFacts DEF CardOne, Updates!Holding, Others, Checking
<1>10. QED
  BY <1>1, <1>5, <1>6, <1>7, <1>8, <1>9 DEF CardInv, Matched

\* and what changes around the card.
LEMMA PublishesKeeps ==
    ASSUME CardInv, Updates!Publishes
    PROVE  CardInv'
<1>0. /\ CardWorld /\ CardShapes /\ Matched /\ CardOne /\ CardWaits /\ Updates!ApprovedOnly
      /\ page \in Updates!Pages /\ card \in CardType
  BY DEF CardInv, CardShapes
<1>1. Dated'
  BY <1>0, CardBounds
     DEF CardWorld, Dated, Updates!Publishes, Updates!Changed, Updates!Offer, Updates!Versions,
         Updates!Builds
<1>2. CardWorld' /\ Updates!ApprovedOnly'
  BY <1>0, <1>1 DEF CardWorld, Updates!ApprovedOnly, Updates!native, Updates!Publishes
<1>3. UNCHANGED <<page, approved, calls, card, busy, checking>>
  BY DEF Updates!Publishes, Updates!native
<1>4. CardShapes' /\ CardWaits' /\ Matched' /\ CardOne'
  BY <1>0, <1>3
     DEF CardShapes, CardWaits, Updates!CardSettles, Updates!HasUpdate, Updates!Offered, Matched,
         CallShapes, CardAwaits, CardStages, CardChosen, CardOne, Updates!Holding
<1>5. QED
  BY <1>2, <1>4 DEF CardInv

LEMMA OffersKeeps ==
    ASSUME CardInv, Updates!Offers
    PROVE  CardInv'
<1>0. /\ CardWorld /\ CardShapes /\ Matched /\ CardOne /\ CardWaits /\ Updates!ApprovedOnly
      /\ page \in Updates!Pages /\ card \in CardType
  BY DEF CardInv, CardShapes
<1>1. Dated'
  <2>1. PICK c \in 1 .. MaxChanges : changes' = c /\ c = changes + 1 /\ UNCHANGED offered
    BY <1>0, CardBounds DEF CardWorld, Dated, Updates!Offers, Updates!Changed
  <2>2. offer' # None => offer' \in Updates!Offer /\ offer'.version <= c + 1 /\ offer'.build <= c
    BY <1>0, <2>1, CardBounds, CardNone
       DEF CardWorld, Dated, Updates!Offers, Updates!Offer, Updates!Versions, Updates!Builds
  <2>3. QED
    BY <1>0, <2>1, <2>2, CardBounds DEF CardWorld, Dated
<1>2. CardWorld' /\ Updates!ApprovedOnly'
  BY <1>0, <1>1 DEF CardWorld, Updates!ApprovedOnly, Updates!native, Updates!Offers
<1>3. UNCHANGED <<page, approved, calls, card, busy, checking>>
  BY DEF Updates!Offers, Updates!native
<1>4. CardShapes' /\ CardWaits' /\ Matched' /\ CardOne'
  BY <1>0, <1>3
     DEF CardShapes, CardWaits, Updates!CardSettles, Updates!HasUpdate, Updates!Offered, Matched,
         CallShapes, CardAwaits, CardStages, CardChosen, CardOne, Updates!Holding
<1>5. QED
  BY <1>2, <1>4 DEF CardInv

\* Every step keeps the invariant.
LEMMA CardStep == CardInv /\ [Updates!Next]_(Updates!vars) => CardInv'
<1>1. ASSUME CardInv, Updates!Next PROVE CardInv'
  BY <1>1, CheckBeginsKeeps, LauncherAnswersKeeps, ClientAnswersKeeps, CheckEndsKeeps,
     PreviewsKeeps, BeginsApplyKeeps, BeginsDownloadKeeps, BeginsInstallKeeps, AppliesKeeps,
     AppliedRecordedKeeps, DownloadsKeeps, TakesKeeps, InstallsKeeps, StartupKeeps,
     StartupAnswersKeeps, CheckAnswersKeeps, PreviewAnswersKeeps, DownloadAnswersKeeps,
     InstallAnswersKeeps, ApplyAnswersKeeps, ClickKeeps, ViewKeeps, TimerEndsKeeps, ReloadKeeps,
     PublishesKeeps, OffersKeeps, SelectsKeeps
     DEF Updates!Next, Updates!Serve, Updates!Controller, Updates!User
<1>2. ASSUME CardInv, UNCHANGED Updates!vars PROVE CardInv'
  BY <1>2
     DEF CardInv, CardWorld, Dated, CardShapes, Matched, CallShapes, CardAwaits, CardStages,
         CardChosen, CardOne, Updates!Holding, CardWaits, Updates!CardSettles, Updates!HasUpdate,
         Updates!Offered, Updates!ApprovedOnly, Updates!vars, Updates!world, Updates!native
<1>3. QED
  BY <1>1, <1>2

\* It holds at the start.
LEMMA CardInit == Updates!Init => CardInv
<1> SUFFICES ASSUME Updates!Init PROVE CardInv
  OBVIOUS
<1>1. CardWorld
  <2>1. Dated
    BY CardBounds, CardNone
       DEF Updates!Init, Dated, Updates!Offer, Updates!Versions, Updates!Builds
  <2>2. installed \in [Instances -> Updates!Versions] /\ pending \in Updates!Offer \cup {None}
    BY CardBounds DEF Updates!Init, Updates!Versions
  <2>3. Updates!Unchecked \in Centres
    BY DEF Updates!Unchecked, Updates!Availabilities, Centres
  <2>4. QED
    BY <2>1, <2>2, <2>3 DEF Updates!Init, CardWorld
<1>2. CardShapes /\ Matched
  BY CardBounds, NoCallFacts
     DEF Updates!Init, CardShapes, CardType, Updates!Card, Updates!Pages, Updates!Actions,
         Updates!Ops, Updating, Matched, CallShapes, CardAwaits, CardStages, CardChosen, ChosenFor
<1>3. CardOne
  BY NoCallFacts DEF Updates!Init, CardOne, Updates!Holding, Checking
<1>4. CardWaits /\ Updates!ApprovedOnly
  BY DEF Updates!Init, CardWaits, Updates!CardSettles, Updates!Card, Updates!ApprovedOnly
<1>5. QED
  BY <1>1, <1>2, <1>3, <1>4 DEF CardInv

-----------------------------------------------------------------------------
(* The servers *)

Progress ==
    {"none", "skipped", "due", "left", "asked", "reached", "missed", "online", "offline", "gone"}

\* A server that answered is not backed off from.
Sound(document) ==
    document # None => document \in Enrichment!Document /\ (document.online => document.until = 0)

ServersShape ==
    /\ now \in 0 .. MaxTime
    /\ documents = [s \in Servers |-> documents[s]] /\ inFlight \subseteq Servers
    /\ \A s \in Servers : Sound(documents[s])
    /\ started \in [Enrichment!Refreshes -> 0 .. MaxTime \cup {None}]
    /\ read = [r \in Enrichment!Refreshes |-> [s \in Servers |-> read[r][s]]]
    /\ \A r \in Enrichment!Refreshes, s \in Servers : Sound(read[r][s])
    /\ asks \in [Enrichment!Refreshes -> [Servers -> Progress]]
    /\ retained \in [Enrichment!Refreshes -> [Servers -> BOOLEAN]]

\* Whether the cache holds the look of a server.
KnownOf(s) == documents[s] # None /\ documents[s].known

\* A failure that is about to be stored found in the cache what is there still,
\* unless an answer has overtaken it.
LooksKept ==
    \A r \in Enrichment!Refreshes, s \in Servers :
        asks[r][s] = "missed" /\ s \notin overtaken => retained[r][s] = KnownOf(s)

\* Whoever waits for an answer has read the cache.
Begun ==
    \A r \in Enrichment!Refreshes, s \in Servers :
        asks[r][s] \notin {"none", "gone"} => started[r] # None

ServersInv ==
    /\ ServersShape /\ Enrichment!OneQueryPerServer /\ LooksKept /\ Enrichment!HonestStatus
    /\ Begun

\* A backoff is never longer than the cap.
LEMMA BackoffBounded ==
    ASSUME NEW failures \in Nat \ {0}
    PROVE  Enrichment!Backoff(failures) \in 0 .. BackoffCap
  BY ServerBounds DEF Enrichment!Backoff

\* The invariant holds at the start.
LEMMA ServersInit == Enrichment!Init => ServersInv
  BY ServerBounds
     DEF Enrichment!Init, ServersInv, ServersShape, Sound, Progress, Enrichment!OneQueryPerServer,
         Enrichment!Asked, LooksKept, Enrichment!HonestStatus, Begun

\* A refresh that begins has read the cache.
LEMMA StartKeeps ==
    ASSUME ServersInv, NEW r \in Enrichment!Refreshes, NEW wanted \in SUBSET Servers,
           Enrichment!Start(r, wanted)
    PROVE  ServersInv'
<1>0. ServersShape /\ Enrichment!OneQueryPerServer /\ LooksKept /\ Enrichment!HonestStatus /\ Begun
  BY DEF ServersInv
<1>1. /\ now \in 0 .. MaxTime /\ started[r] = None /\ started'[r] = now
      /\ \A q \in Enrichment!Refreshes \ {r} : started'[q] = started[q]
      /\ UNCHANGED <<now, documents, inFlight, retained, overtaken>>
      /\ \A s \in Servers : asks[r][s] \in {"none", "gone"}
  BY <1>0 DEF ServersShape, Enrichment!Start, Begun
<1>2. /\ \A q \in Enrichment!Refreshes \ {r}, s \in Servers :
           read'[q][s] = read[q][s] /\ asks'[q][s] = asks[q][s]
      /\ \A s \in Servers : read'[r][s] = IF s \in wanted THEN documents[s] ELSE None
      /\ \A s \in Servers : asks'[r][s] = IF s \notin wanted THEN "none"
                                     ELSE IF Enrichment!Skip(documents[s]) THEN "skipped" ELSE "due"
      /\ asks' \in [Enrichment!Refreshes -> [Servers -> Progress]]
      /\ started' \in [Enrichment!Refreshes -> 0 .. MaxTime \cup {None}]
      /\ read' = [q \in Enrichment!Refreshes |-> [s \in Servers |-> read'[q][s]]]
  BY <1>0, <1>1 DEF ServersShape, Enrichment!Start, Progress
<1>3. ServersShape'
  <2>1. ASSUME NEW q \in Enrichment!Refreshes, NEW s \in Servers PROVE Sound(read'[q][s])
    <3>1. Sound(None)
      BY DEF Sound
    <3>2. Sound(read[q][s]) /\ Sound(documents[s])
      BY <1>0 DEF ServersShape
    <3>3. read'[q][s] \in {read[q][s], documents[s], None}
      BY <1>2
    <3>4. QED
      BY <3>1, <3>2, <3>3
  <2>2. QED
    BY <1>0, <1>1, <1>2, <2>1 DEF ServersShape
<1>4. Enrichment!OneQueryPerServer'
  <2>1. ASSUME NEW s \in Servers, NEW q \in Enrichment!Refreshes
        PROVE  asks'[q][s] = "asked" <=> asks[q][s] = "asked"
    BY <1>1, <1>2
  <2>2. \A s \in Servers : Enrichment!Asked(s)' = Enrichment!Asked(s)
    BY <2>1 DEF Enrichment!Asked
  <2>3. QED
    BY <1>0, <1>1, <2>2 DEF Enrichment!OneQueryPerServer
<1>5. LooksKept' /\ Begun'
  <2>1. now # None
    BY <1>1, ServerNone, ServerBounds
  <2>2. ASSUME NEW s \in Servers, NEW q \in Enrichment!Refreshes
        PROVE  asks'[q][s] = "missed" <=> asks[q][s] = "missed"
    BY <1>1, <1>2
  <2>3. LooksKept'
    BY <1>0, <1>1, <2>2 DEF LooksKept, KnownOf
  <2>4. QED
    BY <1>0, <1>1, <1>2, <2>1, <2>3 DEF Begun
<1>6. Enrichment!HonestStatus'
  <2>1. ASSUME NEW s \in Servers, asks'[r][s] = "skipped", read'[r][s] # None, read'[r][s].online
        PROVE  started'[r] < read'[r][s].saved + SuccessTTL
    <3>1. s \in wanted /\ Enrichment!Skip(documents[s]) /\ read'[r][s] = documents[s]
      BY <2>1, <1>2
    <3>2. documents[s] \in Enrichment!Document /\ documents[s].until = 0
      BY <2>1, <3>1, <1>0 DEF ServersShape, Sound
    <3>3. now < documents[s].saved + SuccessTTL
      BY <3>1, <3>2, <1>1, ServerBounds DEF Enrichment!Skip
    <3>4. QED
      BY <3>1, <3>3, <1>1
  <2>2. QED
    BY <2>1, <1>0, <1>1, <1>2 DEF Enrichment!HonestStatus
<1>7. QED
  BY <1>3, <1>4, <1>5, <1>6 DEF ServersInv

\* A refresh goes on with one server.
LEMMA AsksEffect ==
    ASSUME ServersShape, NEW r \in Enrichment!Refreshes, NEW s \in Servers,
           NEW stage \in Progress, Enrichment!Asks(r, s, stage)
    PROVE  /\ asks' \in [Enrichment!Refreshes -> [Servers -> Progress]]
           /\ asks'[r][s] = stage
           /\ \A q \in Enrichment!Refreshes, t \in Servers :
                q # r \/ t # s => asks'[q][t] = asks[q][t]
  BY DEF ServersShape, Enrichment!Asks

LEMMA AskKeeps ==
    ASSUME ServersInv, NEW r \in Enrichment!Refreshes, NEW s \in Servers,
               Enrichment!Ask(r, s)
    PROVE  ServersInv'
<1>0. ServersShape /\ Enrichment!OneQueryPerServer /\ LooksKept /\ Enrichment!HonestStatus /\ Begun
  BY DEF ServersInv
<1>1. PICK stage \in {"left", "asked"} :
        /\ asks[r][s] = "due" /\ Enrichment!Asks(r, s, stage)
        /\ stage = "left" => s \in inFlight /\ UNCHANGED inFlight
        /\ stage = "asked" => s \notin inFlight /\ inFlight' = inFlight \cup {s}
        /\ UNCHANGED <<now, documents, started, read, retained, overtaken>>
  BY DEF Enrichment!Ask
<1>2. /\ asks' \in [Enrichment!Refreshes -> [Servers -> Progress]]
      /\ asks'[r][s] = stage
      /\ \A q \in Enrichment!Refreshes, t \in Servers :
                q # r \/ t # s => asks'[q][t] = asks[q][t]
  BY <1>0, <1>1, AsksEffect DEF Progress
<1>3. ServersShape'
  BY <1>0, <1>1, <1>2 DEF ServersShape, Sound
<1>4. Enrichment!OneQueryPerServer'
  BY <1>0, <1>1, <1>2 DEF Enrichment!OneQueryPerServer, Enrichment!Asked
<1>5. LooksKept' /\ Begun' /\ Enrichment!HonestStatus'
  BY <1>0, <1>1, <1>2 DEF LooksKept, KnownOf, Begun, Enrichment!HonestStatus
<1>6. QED
  BY <1>3, <1>4, <1>5 DEF ServersInv

LEMMA ReachKeeps ==
    ASSUME ServersInv, NEW r \in Enrichment!Refreshes, NEW s \in Servers, Enrichment!Reach(r, s)
    PROVE  ServersInv'
<1>0. ServersShape /\ Enrichment!OneQueryPerServer /\ LooksKept /\ Enrichment!HonestStatus /\ Begun
  BY DEF ServersInv
<1>1. /\ asks[r][s] = "asked" /\ inFlight' = inFlight \ {s}
      /\ UNCHANGED <<now, documents, started, read, retained, overtaken>>
  BY DEF Enrichment!Reach
<1>2. /\ asks' \in [Enrichment!Refreshes -> [Servers -> Progress]]
      /\ asks'[r][s] = "reached"
      /\ \A q \in Enrichment!Refreshes, t \in Servers :
                q # r \/ t # s => asks'[q][t] = asks[q][t]
  BY <1>0, AsksEffect DEF Progress, Enrichment!Reach
<1>3. ServersShape'
  BY <1>0, <1>1, <1>2 DEF ServersShape, Sound
<1>4. Enrichment!OneQueryPerServer'
  BY <1>0, <1>1, <1>2 DEF Enrichment!OneQueryPerServer, Enrichment!Asked
<1>5. LooksKept' /\ Begun' /\ Enrichment!HonestStatus'
  BY <1>0, <1>1, <1>2 DEF LooksKept, KnownOf, Begun, Enrichment!HonestStatus
<1>6. QED
  BY <1>3, <1>4, <1>5 DEF ServersInv

LEMMA MissKeeps ==
    ASSUME ServersInv, NEW r \in Enrichment!Refreshes, NEW s \in Servers, Enrichment!Miss(r, s)
    PROVE  ServersInv'
<1>0. ServersShape /\ Enrichment!OneQueryPerServer /\ LooksKept /\ Enrichment!HonestStatus /\ Begun
  BY DEF ServersInv
<1>1. /\ asks[r][s] = "asked" /\ inFlight' = inFlight \ {s}
      /\ UNCHANGED <<now, documents, started, read, overtaken>>
      /\ retained' = [retained EXCEPT ![r][s] = KnownOf(s)]
  BY DEF Enrichment!Miss, KnownOf
<1>2. /\ asks' \in [Enrichment!Refreshes -> [Servers -> Progress]]
      /\ asks'[r][s] = "missed"
      /\ \A q \in Enrichment!Refreshes, t \in Servers :
                q # r \/ t # s => asks'[q][t] = asks[q][t]
  BY <1>0, AsksEffect DEF Progress, Enrichment!Miss
<1>3. KnownOf(s) \in BOOLEAN
  BY <1>0 DEF KnownOf, ServersShape, Sound, Enrichment!Document
<1>4. /\ retained' \in [Enrichment!Refreshes -> [Servers -> BOOLEAN]]
      /\ retained'[r][s] = KnownOf(s)
      /\ \A q \in Enrichment!Refreshes, t \in Servers :
                q # r \/ t # s => retained'[q][t] = retained[q][t]
  BY <1>0, <1>1, <1>3 DEF ServersShape
<1>5. ServersShape'
  BY <1>0, <1>1, <1>2, <1>4 DEF ServersShape, Sound
<1>6. Enrichment!OneQueryPerServer'
  BY <1>0, <1>1, <1>2 DEF Enrichment!OneQueryPerServer, Enrichment!Asked
<1>7. LooksKept'
  BY <1>0, <1>1, <1>2, <1>4 DEF LooksKept, KnownOf
<1>8. Begun' /\ Enrichment!HonestStatus'
  BY <1>0, <1>1, <1>2 DEF Begun, Enrichment!HonestStatus
<1>9. QED
  BY <1>5, <1>6, <1>7, <1>8 DEF ServersInv

\* What a stored document leaves as it was.
\* A stored document replaces that of its server, or none.
LEMMA SaveEffect ==
    ASSUME ServersShape, NEW r \in Enrichment!Refreshes, NEW s \in Servers, NEW document,
           Enrichment!Save(r, s, document)
    PROVE  /\ read' = [q \in Enrichment!Refreshes |-> [t \in Servers |-> read'[q][t]]]
           /\ read'[r][s] = document
           /\ \A q \in Enrichment!Refreshes, t \in Servers :
                q # r \/ t # s => read'[q][t] = read[q][t]
           /\ documents' = [t \in Servers |-> documents'[t]]
           /\ documents'[s] = documents[s] \/ documents'[s] = document
           /\ \A t \in Servers \ {s} : documents'[t] = documents[t]
           /\ UNCHANGED <<now, inFlight, started, retained>>
  BY DEF ServersShape, Enrichment!Save

\* An answer that is stored makes a server known.
LEMMA StoreReachedKeeps ==
    ASSUME ServersInv, NEW r \in Enrichment!Refreshes, NEW s \in Servers,
           Enrichment!StoreReached(r, s)
    PROVE  ServersInv' /\ (KnownOf(s) => KnownOf(s)')
           /\ \A t \in Servers \ {s} : documents'[t] = documents[t]
<1>0. ServersShape /\ Enrichment!OneQueryPerServer /\ LooksKept /\ Enrichment!HonestStatus /\ Begun
  BY DEF ServersInv
<1>1. PICK document : 
        document = [known |-> TRUE, online |-> TRUE, saved |-> now, failures |-> 0, until |-> 0]
  OBVIOUS
<1>2. document \in Enrichment!Document /\ document.known /\ document.until = 0 /\ document # None
  <2>1. now \in Enrichment!Times /\ 0 \in Enrichment!Times
    BY <1>0, ServerBounds DEF Enrichment!Times, ServersShape
  <2>2. document \in Enrichment!Document
    BY <1>1, <2>1 DEF Enrichment!Document
  <2>3. QED
    BY <1>1, <2>2, ServerNone
<1>3. /\ asks' \in [Enrichment!Refreshes -> [Servers -> Progress]]
      /\ asks[r][s] = "reached" /\ asks'[r][s] = "online"
      /\ \A q \in Enrichment!Refreshes, t \in Servers :
                q # r \/ t # s => asks'[q][t] = asks[q][t]
  BY <1>0, AsksEffect DEF Progress, Enrichment!StoreReached
<1>4. Enrichment!Save(r, s, document)
  BY <1>1 DEF Enrichment!StoreReached
<1>5. /\ read' = [q \in Enrichment!Refreshes |-> [t \in Servers |-> read'[q][t]]]
      /\ read'[r][s] = document
      /\ \A q \in Enrichment!Refreshes, t \in Servers :
                q # r \/ t # s => read'[q][t] = read[q][t]
      /\ documents' = [t \in Servers |-> documents'[t]]
      /\ documents'[s] = documents[s] \/ documents'[s] = document
      /\ \A t \in Servers \ {s} : documents'[t] = documents[t]
      /\ UNCHANGED <<now, inFlight, started, retained>>
  BY <1>0, <1>4, SaveEffect
<1>6. ServersShape'
  <2>1. Sound(document)
    BY <1>2 DEF Sound
  <2>2. \A q \in Enrichment!Refreshes, t \in Servers : Sound(read'[q][t])
    BY <1>0, <1>5, <2>1 DEF ServersShape
  <2>3. \A t \in Servers : Sound(documents'[t])
    BY <1>0, <1>5, <2>1 DEF ServersShape
  <2>4. QED
    BY <1>0, <1>3, <1>5, <2>2, <2>3 DEF ServersShape
<1>7. Enrichment!OneQueryPerServer'
  <2>1. ASSUME NEW t \in Servers, NEW q \in Enrichment!Refreshes
        PROVE  asks'[q][t] = "asked" <=> asks[q][t] = "asked"
    BY <1>3
  <2>2. \A t \in Servers : Enrichment!Asked(t)' = Enrichment!Asked(t)
    BY <2>1 DEF Enrichment!Asked
  <2>3. QED
    BY <1>0, <1>5, <2>2 DEF Enrichment!OneQueryPerServer
<1>8. Begun' /\ Enrichment!HonestStatus'
  BY <1>0, <1>3, <1>5 DEF Begun, Enrichment!HonestStatus
<1>9. KnownOf(s) => KnownOf(s)'
  BY <1>2, <1>5 DEF KnownOf
<1>10. /\ overtaken \subseteq overtaken'
       /\ \A q \in Enrichment!Refreshes :
            asks[q][s] = "missed" /\ s \notin overtaken' => retained[q][s]
  BY DEF Enrichment!StoreReached
<1>11. LooksKept'
  <2>1. ASSUME NEW q \in Enrichment!Refreshes, NEW t \in Servers,
               asks'[q][t] = "missed", t \notin overtaken'
        PROVE  retained'[q][t] = KnownOf(t)'
    <3>1. asks[q][t] = "missed" /\ t \notin overtaken /\ retained[q][t] = KnownOf(t)
      BY <2>1, <1>0, <1>3, <1>10 DEF LooksKept
    <3>2. CASE t = s
      BY <3>1, <3>2, <2>1, <1>0, <1>5, <1>9, <1>10 DEF KnownOf, ServersShape
    <3>3. CASE t # s
      BY <3>1, <3>3, <1>5 DEF KnownOf
    <3>4. QED
      BY <3>2, <3>3
  <2>2. QED
    BY <2>1 DEF LooksKept
<1>12. QED
  BY <1>5, <1>6, <1>7, <1>8, <1>9, <1>11 DEF ServersInv

\* A stored failure keeps what was known, unless overtaken.
LEMMA StoreMissedKeeps ==
    ASSUME ServersInv, NEW r \in Enrichment!Refreshes, NEW s \in Servers,
           Enrichment!StoreMissed(r, s)
    PROVE  ServersInv' /\ (KnownOf(s) /\ s \notin overtaken => KnownOf(s)')
           /\ \A t \in Servers \ {s} : documents'[t] = documents[t]
<1>0. ServersShape /\ Enrichment!OneQueryPerServer /\ LooksKept /\ Enrichment!HonestStatus /\ Begun
  BY DEF ServersInv
<1>1. PICK document : document = [known |-> retained[r][s], online |-> FALSE, saved |-> now,
                   failures |-> Enrichment!Failures(r, s),
                   until |-> now + Enrichment!Backoff(Enrichment!Failures(r, s))]
  OBVIOUS
<1>2. Enrichment!Failures(r, s) \in Nat \ {0}
  BY <1>0 DEF ServersShape, Sound, Enrichment!Failures, Enrichment!Document
<1>3. /\ now + Enrichment!Backoff(Enrichment!Failures(r, s)) \in Enrichment!Times
      /\ now \in Enrichment!Times
  BY <1>0, <1>2, BackoffBounded, ServerBounds DEF ServersShape, Enrichment!Times
<1>4. /\ document \in Enrichment!Document /\ ~document.online /\ document.known = retained[r][s]
      /\ document # None
  <2>1. retained[r][s] \in BOOLEAN
    BY <1>0 DEF ServersShape
  <2>2. document \in Enrichment!Document
    BY <1>1, <1>2, <1>3, <2>1 DEF Enrichment!Document
  <2>3. QED
    BY <1>1, <2>2, ServerNone
<1>5. /\ asks' \in [Enrichment!Refreshes -> [Servers -> Progress]]
      /\ asks[r][s] = "missed" /\ asks'[r][s] = "offline"
      /\ \A q \in Enrichment!Refreshes, t \in Servers :
                q # r \/ t # s => asks'[q][t] = asks[q][t]
  BY <1>0, AsksEffect DEF Progress, Enrichment!StoreMissed
<1>6. Enrichment!Save(r, s, document) /\ UNCHANGED overtaken
  BY <1>1 DEF Enrichment!StoreMissed
<1>7. /\ read' = [q \in Enrichment!Refreshes |-> [t \in Servers |-> read'[q][t]]]
      /\ read'[r][s] = document
      /\ \A q \in Enrichment!Refreshes, t \in Servers :
                q # r \/ t # s => read'[q][t] = read[q][t]
      /\ documents' = [t \in Servers |-> documents'[t]]
      /\ documents'[s] = documents[s] \/ documents'[s] = document
      /\ \A t \in Servers \ {s} : documents'[t] = documents[t]
      /\ UNCHANGED <<now, inFlight, started, retained>>
  BY <1>0, <1>6, SaveEffect
<1>8. ServersShape'
  <2>1. Sound(document)
    BY <1>4 DEF Sound
  <2>2. \A q \in Enrichment!Refreshes, t \in Servers : Sound(read'[q][t])
    BY <1>0, <1>7, <2>1 DEF ServersShape
  <2>3. \A t \in Servers : Sound(documents'[t])
    BY <1>0, <1>7, <2>1 DEF ServersShape
  <2>4. QED
    BY <1>0, <1>5, <1>7, <2>2, <2>3 DEF ServersShape
<1>9. Enrichment!OneQueryPerServer'
  <2>1. ASSUME NEW t \in Servers, NEW q \in Enrichment!Refreshes
        PROVE  asks'[q][t] = "asked" <=> asks[q][t] = "asked"
    BY <1>5
  <2>2. \A t \in Servers : Enrichment!Asked(t)' = Enrichment!Asked(t)
    BY <2>1 DEF Enrichment!Asked
  <2>3. QED
    BY <1>0, <1>7, <2>2 DEF Enrichment!OneQueryPerServer
<1>10. Begun' /\ Enrichment!HonestStatus'
  BY <1>0, <1>4, <1>5, <1>7 DEF Begun, Enrichment!HonestStatus
<1>11. s \notin overtaken => KnownOf(s)' = KnownOf(s)
  BY <1>0, <1>4, <1>5, <1>7 DEF LooksKept, KnownOf
<1>12. LooksKept'
  BY <1>0, <1>5, <1>6, <1>7, <1>11 DEF LooksKept, KnownOf
<1>13. QED
  BY <1>7, <1>8, <1>9, <1>10, <1>11, <1>12 DEF ServersInv

LEMMA TickKeeps ==
    ASSUME ServersInv, Enrichment!Tick
    PROVE  ServersInv'
<1>1. now' \in 0 .. MaxTime
  BY ServerBounds DEF ServersInv, ServersShape, Enrichment!Tick
<1>2. QED
  BY <1>1
     DEF Enrichment!Tick, ServersInv, ServersShape, Sound, Enrichment!OneQueryPerServer,
         Enrichment!Asked, LooksKept, KnownOf, Enrichment!HonestStatus, Begun

LEMMA RestartKeeps ==
    ASSUME ServersInv, Enrichment!Restart
    PROVE  ServersInv'
<1>1. \A r \in Enrichment!Refreshes, s \in Servers : asks'[r][s] \in {"none", "gone"}
  BY DEF Enrichment!Restart
<1>2. asks' \in [Enrichment!Refreshes -> [Servers -> Progress]]
  BY DEF Enrichment!Restart, Progress
<1>3. QED
  BY <1>1, <1>2
     DEF Enrichment!Restart, ServersInv, ServersShape, Sound, Enrichment!OneQueryPerServer,
         Enrichment!Asked, LooksKept, KnownOf, Enrichment!HonestStatus, Begun

\* Every step keeps the invariant, and a known look unless overtaken.
LEMMA ServersStep ==
    ASSUME ServersInv, [Enrichment!Next]_(Enrichment!vars)
    PROVE  ServersInv' /\ \A s \in Servers : KnownOf(s) /\ s \notin overtaken => KnownOf(s)'
<1>1. CASE Enrichment!Next
  <2>1. ASSUME NEW r \in Enrichment!Refreshes, NEW wanted \in SUBSET Servers,
               Enrichment!Start(r, wanted)
        PROVE  ServersInv' /\ UNCHANGED documents
    BY <2>1, StartKeeps DEF Enrichment!Start
  <2>2. ASSUME NEW r \in Enrichment!Refreshes, NEW s \in Servers,
               Enrichment!Ask(r, s) \/ Enrichment!Reach(r, s) \/ Enrichment!Miss(r, s)
        PROVE  ServersInv' /\ UNCHANGED documents
    BY <2>2, AskKeeps, ReachKeeps, MissKeeps DEF Enrichment!Ask, Enrichment!Reach, Enrichment!Miss
  <2>3. ASSUME Enrichment!Tick \/ Enrichment!Restart
        PROVE  ServersInv' /\ UNCHANGED documents
    BY <2>3, TickKeeps, RestartKeeps DEF Enrichment!Tick, Enrichment!Restart
  <2>4. ASSUME NEW r \in Enrichment!Refreshes, NEW s \in Servers,
               Enrichment!StoreReached(r, s) \/ Enrichment!StoreMissed(r, s)
        PROVE  /\ ServersInv' /\ (KnownOf(s) /\ s \notin overtaken => KnownOf(s)')
               /\ \A t \in Servers \ {s} : documents'[t] = documents[t]
    BY <2>4, StoreReachedKeeps, StoreMissedKeeps
  <2>5. QED
    BY <1>1, <2>1, <2>2, <2>3, <2>4 DEF Enrichment!Next, KnownOf
<1>2. CASE UNCHANGED Enrichment!vars
  BY <1>2
     DEF Enrichment!vars, ServersInv, ServersShape, Sound, Enrichment!OneQueryPerServer,
         Enrichment!Asked, LooksKept, KnownOf, Enrichment!HonestStatus, Begun
<1>3. QED
  BY <1>1, <1>2

\* Types, among the rest.
LEMMA ServersTyped == ServersInv => Enrichment!TypeOK
  BY DEF ServersInv, ServersShape, Sound, Enrichment!TypeOK, Progress

-----------------------------------------------------------------------------
(* The services together *)

\* A behaviour of the background is one of each service: those that are not
\* chosen stay as they are.
THEOREM ServicesApart == Background => Spec /\ Updates!Spec /\ Enrichment!Spec
<1>1. BackgroundInit => Init /\ Updates!Init /\ Enrichment!Init
  BY DEF BackgroundInit
<1>2. [BackgroundNext]_<<vars, serverVars, updateVars, service>> =>
        [Next]_vars /\ [Updates!Next]_(Updates!vars) /\ [Enrichment!Next]_(Enrichment!vars)
  <2>1. UNCHANGED updateVars => UNCHANGED Updates!vars
    BY DEF updateVars, Updates!vars, Updates!world, Updates!native
  <2>2. UNCHANGED serverVars => UNCHANGED Enrichment!vars
    BY DEF serverVars, Enrichment!vars
  <2> QED
    BY <2>1, <2>2 DEF BackgroundNext
<1> QED
  BY <1>1, <1>2, PTL DEF Background, Spec, Updates!Spec, Enrichment!Spec

\* The invariant of the card holds in every state.
THEOREM CardInvariance == Updates!Spec => []CardInv
  BY CardInit, CardStep, PTL DEF Updates!Spec

\* The invariant of the servers holds in every state.
THEOREM ServersInvariance == Enrichment!Spec => []ServersInv
<1>1. ServersInv /\ [Enrichment!Next]_(Enrichment!vars) => ServersInv'
  BY ServersStep
<1> QED
  BY <1>1, ServersInit, PTL DEF Enrichment!Spec

\* Whatever is installed, the client or the launcher, is what the user was shown
\* when choosing Update, for any number of pages, publications, selections and
\* retries (ApprovedOnly).
THEOREM OnlyApproved == Background => []ApprovedOnly
<1>1. CardInv => ApprovedOnly
  BY DEF CardInv, ApprovedOnly
<1> QED
  BY <1>1, ServicesApart, CardInvariance, PTL

\* Refreshes that overlap ask a server once at a time and show only what it
\* answered; two pages never update one domain at once, no flag stays up behind
\* a command, and the card never waits for nothing (ServicesHold).
THEOREM ServicesSound == Background => []ServicesHold
<1>1. CardInv => Updates!TypeOK
  <2> SUFFICES ASSUME CardInv PROVE Updates!TypeOK
    OBVIOUS
  <2>1. offered \in Updates!Versions /\ offer \in Updates!Offer \cup {None}
    BY DatedType DEF CardInv, CardWorld
  <2> QED
    BY <2>1 DEF CardInv, CardWorld, Dated, CardShapes, CardType, Centres, Updates!TypeOK
<1>2. CardInv => Updates!OneAtATime
  BY DEF CardInv, CardOne, Checking, Updates!OneAtATime
<1>3. CardInv => Updates!CardSettles
  BY DEF CardInv, CardWaits
<1>4. CardInv /\ ServersInv => ServicesHold
  BY <1>1, <1>2, <1>3, ServersTyped DEF ServersInv, ServicesHold
<1> QED
  BY <1>4, ServicesApart, CardInvariance, ServersInvariance, PTL

\* A failed refresh never loses the look of a server, however refreshes overlap
\* and restarts fall, unless an answer was stored between its look into the
\* cache and its own document (KnownGoodKept).
THEOREM LooksAreKept == Background => KnownGoodKept
<1>1. ServersInv /\ [Enrichment!Next]_(Enrichment!vars) =>
        [\A s \in Servers : documents[s] # None /\ documents[s].known /\ s \notin overtaken =>
           documents'[s].known]_(Enrichment!vars)
  BY ServersStep DEF KnownOf
<1> QED
  BY <1>1, ServicesApart, ServersInvariance, PTL
     DEF Enrichment!Spec, KnownGoodKept, Enrichment!KnownGoodKept
=============================================================================
