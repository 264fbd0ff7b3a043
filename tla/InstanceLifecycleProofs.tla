---------------------- MODULE InstanceLifecycleProofs ----------------------
(***************************************************************************)
(* Theorems about InstanceLifecycle for any number of instances, workers,  *)
(* versions, names and preferences and any set of commands (crashes        *)
(* included).                                                              *)
(*                                                                         *)
(* The first part needs the locks alone.  Its inductive invariant is IInv: *)
(* types, who holds which lock at which step (Held), the row a checked     *)
(* transition relies on (Frozen), the Play reservations (Plays) and the    *)
(* owner of every Starting status (Starting).  One lemma per part shows    *)
(* that a step preserves it.                                               *)
(*                                                                         *)
(* The second part is about files, rows and the contract.  Nothing in the  *)
(* launcher keeps two installations of an instance apart, and where they   *)
(* overlap (crossed) nothing is claimed of the files: everywhere else      *)
(* files never outlive their row and a row becomes ready only complete,    *)
(* and the commands together implement InstanceContract.  The invariant    *)
(* CInv adds to IInv what a row guarantees about the files and the process *)
(* of its instance: whoever installs works under an installing row         *)
(* (InstallRows), whoever changes a checked instance works under a ready   *)
(* one (CheckedRows), so neither sees the other's files half-done; and a   *)
(* modpack always installs alone (PackIsAlone).                            *)
(***************************************************************************)
EXTENDS InstanceLifecycle, TLAPS

-----------------------------------------------------------------------------
(* The inductive invariant *)

\* The steps that run under each lock.
RegistryLabels == MutatingLabels \cup {"starting", "spawn", "preferenceWrite"}
ContentLabels ==
    DeleteLabels \cup (TransitionLabels \ {"txPrepared"})
        \cup {"boundary", "starting", "spawn"}
StagingLabels == {"stageGame", "retireGame", "promoteGame"}

\* A thread holds a lock exactly while it is at a step that runs under it.
Held ==
    /\ \A t \in Threads : registryLock = t <=> pc[t] \in RegistryLabels
    /\ \A t \in Workers : processLock = t <=> pc[t] \in MutatingLabels
    /\ \A t \in Workers, i \in Instances :
        contentLock[i] = t <=> target[t] = i /\ pc[t] \in ContentLabels
    /\ \A t \in Workers, i \in Instances :
        installLock[i] = t <=> target[t] = i /\ pc[t] \in StagingLabels

\* The row a transition has checked is the row it replaces.
Frozen ==
    \A t \in Workers :
        pc[t] \in {"txActivate", "txPersist"} => registry[target[t]] = record[t]

\* Every Play has the reservation of its instance, and only Plays have one.
Plays ==
    /\ \A t \in Workers : pc[t] \in PlayLabels => target[t] \in preparing
    /\ \A i \in preparing :
        \E t \in Workers : target[t] = i /\ pc[t] \in PlayLabels
    /\ \A t, u \in Workers :
        (pc[t] \in PlayLabels /\ pc[u] \in PlayLabels /\ target[t] = target[u])
            => t = u

\* Starting belongs to the Play that is about to spawn.
Starting ==
    /\ \A t \in Workers : pc[t] = "spawn" => process[target[t]] = "starting"
    /\ \A i \in Instances :
        process[i] = "starting"
            => \E t \in Workers : target[t] = i /\ pc[t] = "spawn"

IInv ==
    TypeOK /\ Held /\ Frozen /\ MutationExcludesGame /\ Plays /\ Starting

-----------------------------------------------------------------------------
(* It holds initially *)

\* A launcher started on an empty directory satisfies it.
LEMMA InitIInv == Init => IInv
<1> SUFFICES ASSUME Init PROVE IInv
  OBVIOUS
<1> USE NoneAssumption, MainAssumption DEF Init, NoneYet, Stopped, Idle, Nothing,
        NoViews, NoView, Threads
<1>1. DiskOK
  BY DEF DiskOK, Configurations, Games
<1>2. MemoryOK
  BY DEF MemoryOK, Statuses
<1>3. LocalsOK
  BY DEF LocalsOK, Labels, Views, Games, MainLabels, RecordLabels, DraftLabels,
         InstallLabels, DeleteLabels, TransitionLabels
<1>4. Held
  BY DEF Held, RegistryLabels, ContentLabels, StagingLabels, MutatingLabels,
         DeleteLabels
<1>5. Frozen /\ MutationExcludesGame
  BY DEF Frozen, MutationExcludesGame, MutatingLabels
<1>6. Plays /\ Starting
  BY DEF Plays, Starting, PlayLabels
<1>7. crossed \in SUBSET Instances
  OBVIOUS
<1> QED
  BY <1>1, <1>2, <1>3, <1>4, <1>5, <1>6, <1>7 DEF TypeOK, IInv

-----------------------------------------------------------------------------
(* Every step preserves each of its parts *)

\* A command that returns leaves its thread idle with no locals.
LEMMA ReturnLocals ==
    ASSUME LocalsOK, NEW t \in Threads, Return(t)
    PROVE  LocalsOK'
  BY MainAssumption
  DEF LocalsOK, Return, Threads, Labels, MainLabels, InstallLabels, PlayLabels,
      DeleteLabels, TransitionLabels, RecordLabels, DraftLabels, Views, NoView,
      Games

\* Every write of the registry, the game trees and the configuration is typed.
LEMMA DiskStep ==
    ASSUME TypeOK, Frozen, [Next]_vars
    PROVE  DiskOK'
<1> USE MainAssumption
    DEF TypeOK, DiskOK, MemoryOK, LocalsOK, Frozen,
       Records, Pins, Configurations, Games, Views, RecordLabels,
       DraftLabels, vars, launcher, disk, shared, locks, locals, Threads, Labels,
       MainLabels, InstallLabels, PlayLabels, DeleteLabels, TransitionLabels
<1>1. ASSUME NEW t \in Workers, CreateInstance(t) PROVE DiskOK'
  BY <1>1 DEF CreateInstance, Begin, Goto
<1>2. ASSUME NEW t \in Workers, BeginPack(t) PROVE DiskOK'
  BY <1>2 DEF BeginPack, Begin, Goto
<1>3. ASSUME NEW t \in Workers, RetryInstall(t) PROVE DiskOK'
  BY <1>3 DEF RetryInstall, Begin, Goto
<1>4. ASSUME NEW t \in Workers, InstallConfiguration(t) PROVE DiskOK'
  BY <1>4 DEF InstallConfiguration, Begin, Goto
<1>5. ASSUME NEW t \in Workers, ReservePlay(t) PROVE DiskOK'
  BY <1>5 DEF ReservePlay, Begin, Goto
<1>6. ASSUME NEW t \in Workers, BeginDelete(t) PROVE DiskOK'
  BY <1>6 DEF BeginDelete, Begin, Goto
<1>7. ASSUME NEW t \in Workers, PreviewTransition(t) PROVE DiskOK'
  BY <1>7 DEF PreviewTransition, Begin, Goto
<1>8. ASSUME NEW t \in Workers, PersistPin(t) PROVE DiskOK'
  <2>1. CASE registry[target[t]] = None
    BY <1>8, <2>1 DEF PersistPin
  <2>2. CASE registry[target[t]] # None
    <3> DEFINE pinned == [registry[target[t]] EXCEPT
                            !.installed = record[t].desired,
                            !.state = "installing"]
    <3>1. registry[target[t]] \in Records /\ record[t] \in Records
      BY <1>8, <2>2 DEF PersistPin
    <3>2. pinned \in Records
      BY <3>1
    <3>3. registry' = [registry EXCEPT ![target[t]] = pinned]
      BY <1>8, <2>2 DEF PersistPin
    <3> HIDE DEF pinned
    <3> QED
      BY <1>8, <3>2, <3>3 DEF PersistPin
  <2> QED
    BY <2>1, <2>2
<1>9. ASSUME NEW t \in Workers, InstallFails(t) PROVE DiskOK'
  BY <1>9 DEF InstallFails, Return
<1>10. ASSUME NEW t \in Workers, StartGameInstall(t) PROVE DiskOK'
  BY <1>10 DEF StartGameInstall, KeepLocals, Goto, Return
<1>11. ASSUME NEW t \in Workers, StageGame(t) PROVE DiskOK'
  BY <1>11 DEF StageGame, Step, Goto, KeepLocals
<1>12. ASSUME NEW t \in Workers, StageGameFails(t) PROVE DiskOK'
  BY <1>12 DEF StageGameFails, Return
<1>13. ASSUME NEW t \in Workers, RetireGame(t) PROVE DiskOK'
  BY <1>13 DEF RetireGame, Step, Goto
<1>14. ASSUME NEW t \in Workers, PromoteGame(t) PROVE DiskOK'
  BY <1>14 DEF PromoteGame, Step, Goto, AfterGame
<1>15. ASSUME NEW t \in Workers, PromoteGameFails(t) PROVE DiskOK'
  BY <1>15 DEF PromoteGameFails, Return
<1>16. ASSUME NEW t \in Workers, InstallAurora(t) PROVE DiskOK'
  BY <1>16 DEF InstallAurora, Step, Goto, KeepLocals
<1>17. ASSUME NEW t \in Workers, ValidateInstall(t) PROVE DiskOK'
  BY <1>17 DEF ValidateInstall, KeepLocals, Goto, Return
<1>18. ASSUME NEW t \in Workers, CommitReady(t) PROVE DiskOK'
  <2> DEFINE i == target[t]
             committed == [registry[i] EXCEPT !.state = "ready"]
  <2>1. i \in Instances /\ registry[i] \in Records \cup {None}
    BY <1>18 DEF CommitReady, Step
  <2>2. registry[i] # None => committed \in Records
    BY <2>1
  <2>3. \/ registry' = [registry EXCEPT ![i] = committed] /\ registry[i] # None
        \/ registry' = [registry EXCEPT ![i] = None]
    BY <1>18 DEF CommitReady
  <2>4. registry' \in [Instances -> Records \cup {None}]
    <3> HIDE DEF Records, committed, i
    <3> QED
      BY <2>1, <2>2, <2>3
  <2>5. UNCHANGED <<game, aurora, staging, config>>
    BY <1>18 DEF CommitReady
  <2> QED
    BY <2>4, <2>5
<1>19. ASSUME NEW t \in Workers, CompletePack(t) PROVE DiskOK'
  <2> DEFINE i == target[t]
             committed == [registry[i] EXCEPT !.state = "ready"]
  <2>1. i \in Instances /\ registry[i] \in Records
    BY <1>19 DEF CompletePack, Step
  <2>2. committed \in Records
    BY <2>1
  <2>3. registry' = [registry EXCEPT ![i] = committed]
    BY <1>19 DEF CompletePack
  <2>4. registry' \in [Instances -> Records \cup {None}]
    <3> HIDE DEF Records, committed, i
    <3> QED
      BY <2>1, <2>2, <2>3
  <2>5. UNCHANGED <<game, aurora, staging, config>>
    BY <1>19 DEF CompletePack
  <2> QED
    BY <2>4, <2>5
<1>20. ASSUME NEW t \in Workers, RollbackPack(t) PROVE DiskOK'
  BY <1>20 DEF RollbackPack, KeepLocals, Goto, Return
<1>21. ASSUME NEW t \in Workers, AbandonPack(t) PROVE DiskOK'
  BY <1>21 DEF AbandonPack, Return
<1>22. ASSUME NEW t \in Workers, ReadSelection(t) PROVE DiskOK'
  BY <1>22 DEF ReadSelection, Goto, Return
<1>23. ASSUME NEW t \in Workers, WriteSelection(t) PROVE DiskOK'
  BY <1>23 DEF WriteSelection, Return
<1>24. ASSUME NEW t \in Workers, CapturePlay(t) PROVE DiskOK'
  BY <1>24 DEF CapturePlay, Goto, EndPlay, Return
<1>25. ASSUME NEW t \in Workers, ResolvePlay(t) PROVE DiskOK'
  BY <1>25 DEF ResolvePlay, KeepLocals, Goto, EndPlay, Return
<1>26. ASSUME NEW t \in Workers, PlayFails(t) PROVE DiskOK'
  BY <1>26 DEF PlayFails, EndPlay, Return
<1>27. ASSUME NEW t \in Workers, EnterBoundary(t) PROVE DiskOK'
  BY <1>27 DEF EnterBoundary, KeepLocals, Goto, EndPlay, Return
<1>28. ASSUME NEW t \in Workers, CheckBoundary(t) PROVE DiskOK'
  BY <1>28 DEF CheckBoundary, KeepLocals, Goto, EndPlay, Return
<1>29. ASSUME NEW t \in Workers, StartProcess(t) PROVE DiskOK'
  BY <1>29 DEF StartProcess, KeepLocals, Goto, EndPlay, Return
<1>30. ASSUME NEW t \in Workers, SpawnProcess(t) PROVE DiskOK'
  BY <1>30 DEF SpawnProcess, EndPlay, Return
<1>31. ASSUME NEW t \in Workers, CheckDelete(t) PROVE DiskOK'
  BY <1>31 DEF CheckDelete, Goto, Release, Return, MayDelete
<1>32. ASSUME NEW t \in Workers, DeleteSelection(t) PROVE DiskOK'
  BY <1>32 DEF DeleteSelection, Step, Goto, KeepLocals
<1>33. ASSUME NEW t \in Workers, DeleteFiles(t) PROVE DiskOK'
  BY <1>33 DEF DeleteFiles, Step, Goto, KeepLocals
<1>34. ASSUME NEW t \in Workers, DeleteFilesFails(t) PROVE DiskOK'
  BY <1>34 DEF DeleteFilesFails, Release, Return
<1>35. ASSUME NEW t \in Workers, DeleteRow(t) PROVE DiskOK'
  BY <1>35 DEF DeleteRow, Release, Return
<1>36. ASSUME NEW t \in Workers, DeleteFails(t) PROVE DiskOK'
  BY <1>36 DEF DeleteFails, Release, Return
<1>37. ASSUME NEW t \in Workers, TransitionFails(t) PROVE DiskOK'
  BY <1>37 DEF TransitionFails, Return
<1>38. ASSUME NEW t \in Workers, LockTransition(t) PROVE DiskOK'
  BY <1>38 DEF LockTransition, Step, Goto, KeepLocals
<1>39. ASSUME NEW t \in Workers, CheckTransition(t) PROVE DiskOK'
  BY <1>39 DEF CheckTransition, KeepLocals, Goto, Release, Return
<1>40. ASSUME NEW t \in Workers, ActivateTransition(t) PROVE DiskOK'
  BY <1>40 DEF ActivateTransition, Step, Goto, KeepLocals, Toggled
<1>41. ASSUME NEW t \in Workers, PersistTransition(t) PROVE DiskOK'
  <2> DEFINE pin == Toggled(record[t].installed)
             updated == [registry[target[t]] EXCEPT !.desired = pin,
                                                    !.installed = pin]
  <2>0. pc[t] = "txPersist"
    BY <1>41 DEF PersistTransition, Step
  <2>1. registry[target[t]] \in Records
    BY <2>0
  <2>2. pin \in Pins
    <3>1. record[t] \in Records
      BY <2>0
    <3>2. record[t].installed \in Pins
      BY <3>1
    <3> QED
      BY <3>2 DEF Toggled
  <2>3. updated \in Records
    <3> HIDE DEF pin
    <3> QED
      BY <2>1, <2>2
  <2>4. registry' = [registry EXCEPT ![target[t]] = updated]
    BY <1>41 DEF PersistTransition
  <2> HIDE DEF updated
  <2> QED
    BY <1>41, <2>0, <2>3, <2>4 DEF PersistTransition
<1>42. ASSUME NEW t \in Workers, FinishTransition(t) PROVE DiskOK'
  BY <1>42 DEF FinishTransition, Release, Return
<1>43. ASSUME NEW t \in Workers, RollbackTransition(t) PROVE DiskOK'
  <2>1. record[t] \in Records /\ target[t] \in Instances
    BY <1>43 DEF RollbackTransition
  <2>2. record[t].installed.version \in Versions
    BY <2>1
  <2>3. aurora' \in [Instances -> Versions \cup {None}]
    BY <1>43, <2>1, <2>2 DEF RollbackTransition
  <2>4. registry' \in [Instances -> Records \cup {None}]
    <3> HIDE DEF Records
    <3> QED
      BY <1>43, <2>1 DEF RollbackTransition
  <2> QED
    BY <1>43, <2>3, <2>4 DEF RollbackTransition
<1>44. CASE UpdateConfiguration
  <2>1. PICK i \in Instances, p \in Pins :
            /\ registry[i] # None
            /\ registry[i].state = "ready"
            /\ p.aurora = registry[i].installed.aurora
            /\ registry' = [registry EXCEPT ![i].desired = p]
    BY <1>44, Zenon DEF UpdateConfiguration
  <2> DEFINE updated == [registry[i] EXCEPT !.desired = p]
  <2>2. registry[i] \in Records
    BY <2>1
  <2>3. updated \in Records
    BY <2>2
  <2>4. registry' = [registry EXCEPT ![i] = updated]
    BY <2>1
  <2>5. registry' \in [Instances -> Records \cup {None}]
    <3> HIDE DEF Records, updated
    <3> QED
      BY <2>3, <2>4
  <2>6. UNCHANGED <<game, aurora, staging, config>>
    BY <1>44 DEF UpdateConfiguration
  <2> QED
    BY <2>5, <2>6
<1>45. CASE RenameInstance
  <2>1. PICK i \in Instances, n \in Names :
            /\ registry[i] # None
            /\ registry' = [registry EXCEPT ![i].name = n]
    BY <1>45 DEF RenameInstance
  <2> DEFINE renamed == [registry[i] EXCEPT !.name = n]
  <2>2. registry[i] \in Records
    BY <2>1
  <2>3. renamed \in Records
    BY <2>2
  <2>4. registry' = [registry EXCEPT ![i] = renamed]
    BY <2>1
  <2>5. registry' \in [Instances -> Records \cup {None}]
    <3> HIDE DEF Records, renamed
    <3> QED
      BY <2>3, <2>4
  <2>6. UNCHANGED <<game, aurora, staging, config>>
    BY <1>45 DEF RenameInstance
  <2> QED
    BY <2>5, <2>6
<1>46. CASE SelectInstance
  BY <1>46 DEF SelectInstance, Begin, Goto
<1>47. CASE LoadPreferences
  BY <1>47 DEF LoadPreferences, Step, Goto
<1>48. CASE LoadSelected
  BY <1>48 DEF LoadSelected, Step, Goto
<1>49. CASE SaveSelected
  BY <1>49 DEF SaveSelected, Return
<1>50. CASE SavePreferences
  <2>1. draft[Main] \in Configurations
    BY <1>50 DEF SavePreferences
  <2>2. ASSUME NEW p \in Preferences,
               config' = [draft[Main] EXCEPT !.preferences = p]
        PROVE  config' \in Configurations
    BY <2>1, <2>2
  <2>3. config' \in Configurations
    BY <1>50, <2>2 DEF SavePreferences
  <2>4. UNCHANGED <<registry, game, aurora, staging>>
    BY <1>50 DEF SavePreferences
  <2> QED
    BY <2>3, <2>4
<1>51. ASSUME NEW i \in Instances, ProcessExits(i) PROVE DiskOK'
  BY <1>51 DEF ProcessExits
<1>52. CASE Crash
  BY <1>52 DEF Crash, NoneYet, Stopped, Idle, Nothing, NoViews, NoView
<1>53. CASE UNCHANGED vars
  BY <1>53
<1> QED
  BY <1>1, <1>2, <1>3, <1>4, <1>5, <1>6, <1>7, <1>8, <1>9, <1>10, <1>11,
       <1>12, <1>13, <1>14, <1>15, <1>16, <1>17, <1>18, <1>19, <1>20, <1>21,
       <1>22, <1>23, <1>24, <1>25, <1>26, <1>27, <1>28, <1>29, <1>30, <1>31,
       <1>32, <1>33, <1>34, <1>35, <1>36, <1>37, <1>38, <1>39, <1>40, <1>41,
       <1>42, <1>43, <1>44, <1>45, <1>46, <1>47, <1>48, <1>49, <1>50, <1>51,
       <1>52, <1>53
     DEF Next, CommandNext, StartCommand, Continue, InstallStep, PlayStep, DeleteStep,
         TransitionStep, StartMain, ContinueMain

\* Locks, statuses and reservations keep their types.
LEMMA MemoryStep ==
    ASSUME TypeOK, [Next]_vars
    PROVE  MemoryOK'
<1> USE MainAssumption
    DEF TypeOK, MemoryOK, LocalsOK, Statuses, vars, launcher,
       disk, shared, locks, locals, Threads, Labels, MainLabels,
       InstallLabels, PlayLabels, DeleteLabels, TransitionLabels
<1>1. ASSUME NEW t \in Workers, CreateInstance(t) PROVE MemoryOK'
  BY <1>1 DEF CreateInstance, Begin, Goto
<1>2. ASSUME NEW t \in Workers, BeginPack(t) PROVE MemoryOK'
  BY <1>2 DEF BeginPack, Begin, Goto
<1>3. ASSUME NEW t \in Workers, RetryInstall(t) PROVE MemoryOK'
  BY <1>3 DEF RetryInstall, Begin, Goto
<1>4. ASSUME NEW t \in Workers, InstallConfiguration(t) PROVE MemoryOK'
  BY <1>4 DEF InstallConfiguration, Begin, Goto
<1>5. ASSUME NEW t \in Workers, ReservePlay(t) PROVE MemoryOK'
  BY <1>5 DEF ReservePlay, Begin, Goto
<1>6. ASSUME NEW t \in Workers, BeginDelete(t) PROVE MemoryOK'
  BY <1>6 DEF BeginDelete, Begin, Goto
<1>7. ASSUME NEW t \in Workers, PreviewTransition(t) PROVE MemoryOK'
  BY <1>7 DEF PreviewTransition, Begin, Goto
<1>8. ASSUME NEW t \in Workers, PersistPin(t) PROVE MemoryOK'
  BY <1>8 DEF PersistPin, Goto, Return
<1>9. ASSUME NEW t \in Workers, InstallFails(t) PROVE MemoryOK'
  BY <1>9 DEF InstallFails, Return
<1>10. ASSUME NEW t \in Workers, StartGameInstall(t) PROVE MemoryOK'
  BY <1>10 DEF StartGameInstall, KeepLocals, Goto, Return
<1>11. ASSUME NEW t \in Workers, StageGame(t) PROVE MemoryOK'
  BY <1>11 DEF StageGame, Step, Goto, KeepLocals
<1>12. ASSUME NEW t \in Workers, StageGameFails(t) PROVE MemoryOK'
  BY <1>12 DEF StageGameFails, Return
<1>13. ASSUME NEW t \in Workers, RetireGame(t) PROVE MemoryOK'
  BY <1>13 DEF RetireGame, Step, Goto
<1>14. ASSUME NEW t \in Workers, PromoteGame(t) PROVE MemoryOK'
  BY <1>14 DEF PromoteGame, Step, Goto, AfterGame
<1>15. ASSUME NEW t \in Workers, PromoteGameFails(t) PROVE MemoryOK'
  BY <1>15 DEF PromoteGameFails, Return
<1>16. ASSUME NEW t \in Workers, InstallAurora(t) PROVE MemoryOK'
  BY <1>16 DEF InstallAurora, Step, Goto, KeepLocals
<1>17. ASSUME NEW t \in Workers, ValidateInstall(t) PROVE MemoryOK'
  BY <1>17 DEF ValidateInstall, KeepLocals, Goto, Return
<1>18. ASSUME NEW t \in Workers, CommitReady(t) PROVE MemoryOK'
  BY <1>18 DEF CommitReady, Step, Goto, KeepLocals
<1>19. ASSUME NEW t \in Workers, CompletePack(t) PROVE MemoryOK'
  BY <1>19 DEF CompletePack, Step, Goto, KeepLocals
<1>20. ASSUME NEW t \in Workers, RollbackPack(t) PROVE MemoryOK'
  BY <1>20 DEF RollbackPack, KeepLocals, Goto, Return
<1>21. ASSUME NEW t \in Workers, AbandonPack(t) PROVE MemoryOK'
  BY <1>21 DEF AbandonPack, Return
<1>22. ASSUME NEW t \in Workers, ReadSelection(t) PROVE MemoryOK'
  BY <1>22 DEF ReadSelection, Goto, Return
<1>23. ASSUME NEW t \in Workers, WriteSelection(t) PROVE MemoryOK'
  BY <1>23 DEF WriteSelection, Return
<1>24. ASSUME NEW t \in Workers, CapturePlay(t) PROVE MemoryOK'
  BY <1>24 DEF CapturePlay, Goto, EndPlay, Return
<1>25. ASSUME NEW t \in Workers, ResolvePlay(t) PROVE MemoryOK'
  BY <1>25 DEF ResolvePlay, KeepLocals, Goto, EndPlay, Return
<1>26. ASSUME NEW t \in Workers, PlayFails(t) PROVE MemoryOK'
  BY <1>26 DEF PlayFails, EndPlay, Return
<1>27. ASSUME NEW t \in Workers, EnterBoundary(t) PROVE MemoryOK'
  BY <1>27 DEF EnterBoundary, KeepLocals, Goto, EndPlay, Return
<1>28. ASSUME NEW t \in Workers, CheckBoundary(t) PROVE MemoryOK'
  BY <1>28 DEF CheckBoundary, KeepLocals, Goto, EndPlay, Return
<1>29. ASSUME NEW t \in Workers, StartProcess(t) PROVE MemoryOK'
  BY <1>29 DEF StartProcess, KeepLocals, Goto, EndPlay, Return
<1>30. ASSUME NEW t \in Workers, SpawnProcess(t) PROVE MemoryOK'
  BY <1>30 DEF SpawnProcess, EndPlay, Return
<1>31. ASSUME NEW t \in Workers, CheckDelete(t) PROVE MemoryOK'
  BY <1>31 DEF CheckDelete, Goto, Release, Return, MayDelete
<1>32. ASSUME NEW t \in Workers, DeleteSelection(t) PROVE MemoryOK'
  BY <1>32 DEF DeleteSelection, Step, Goto, KeepLocals
<1>33. ASSUME NEW t \in Workers, DeleteFiles(t) PROVE MemoryOK'
  BY <1>33 DEF DeleteFiles, Step, Goto, KeepLocals
<1>34. ASSUME NEW t \in Workers, DeleteFilesFails(t) PROVE MemoryOK'
  BY <1>34 DEF DeleteFilesFails, Release, Return
<1>35. ASSUME NEW t \in Workers, DeleteRow(t) PROVE MemoryOK'
  BY <1>35 DEF DeleteRow, Release, Return
<1>36. ASSUME NEW t \in Workers, DeleteFails(t) PROVE MemoryOK'
  BY <1>36 DEF DeleteFails, Release, Return
<1>37. ASSUME NEW t \in Workers, TransitionFails(t) PROVE MemoryOK'
  BY <1>37 DEF TransitionFails, Return
<1>38. ASSUME NEW t \in Workers, LockTransition(t) PROVE MemoryOK'
  BY <1>38 DEF LockTransition, Step, Goto, KeepLocals
<1>39. ASSUME NEW t \in Workers, CheckTransition(t) PROVE MemoryOK'
  BY <1>39 DEF CheckTransition, KeepLocals, Goto, Release, Return
<1>40. ASSUME NEW t \in Workers, ActivateTransition(t) PROVE MemoryOK'
  BY <1>40 DEF ActivateTransition, Step, Goto, KeepLocals
<1>41. ASSUME NEW t \in Workers, PersistTransition(t) PROVE MemoryOK'
  BY <1>41 DEF PersistTransition, Step, Goto, KeepLocals
<1>42. ASSUME NEW t \in Workers, FinishTransition(t) PROVE MemoryOK'
  BY <1>42 DEF FinishTransition, Release, Return
<1>43. ASSUME NEW t \in Workers, RollbackTransition(t) PROVE MemoryOK'
  BY <1>43 DEF RollbackTransition, Release, Return
<1>44. CASE UpdateConfiguration
  BY <1>44 DEF UpdateConfiguration
<1>45. CASE RenameInstance
  BY <1>45 DEF RenameInstance
<1>46. CASE SelectInstance
  BY <1>46 DEF SelectInstance, Begin, Goto
<1>47. CASE LoadPreferences
  BY <1>47 DEF LoadPreferences, Step, Goto
<1>48. CASE LoadSelected
  BY <1>48 DEF LoadSelected, Step, Goto
<1>49. CASE SaveSelected
  BY <1>49 DEF SaveSelected, Return
<1>50. CASE SavePreferences
  BY <1>50 DEF SavePreferences, Return
<1>51. ASSUME NEW i \in Instances, ProcessExits(i) PROVE MemoryOK'
  BY <1>51 DEF ProcessExits
<1>52. CASE Crash
  BY <1>52 DEF Crash, NoneYet, Stopped, Idle, Nothing, NoViews, NoView
<1>53. CASE UNCHANGED vars
  BY <1>53
<1> QED
  BY <1>1, <1>2, <1>3, <1>4, <1>5, <1>6, <1>7, <1>8, <1>9, <1>10, <1>11,
       <1>12, <1>13, <1>14, <1>15, <1>16, <1>17, <1>18, <1>19, <1>20, <1>21,
       <1>22, <1>23, <1>24, <1>25, <1>26, <1>27, <1>28, <1>29, <1>30, <1>31,
       <1>32, <1>33, <1>34, <1>35, <1>36, <1>37, <1>38, <1>39, <1>40, <1>41,
       <1>42, <1>43, <1>44, <1>45, <1>46, <1>47, <1>48, <1>49, <1>50, <1>51,
       <1>52, <1>53
     DEF Next, CommandNext, StartCommand, Continue, InstallStep, PlayStep, DeleteStep,
         TransitionStep, StartMain, ContinueMain

\* Every step finds what it works from.
LEMMA LocalsStep ==
    ASSUME TypeOK, [Next]_vars
    PROVE  LocalsOK'
<1> USE MainAssumption
    DEF TypeOK, DiskOK, LocalsOK, Records, Pins,
       Configurations, Games, Views, NoView, RecordLabels, DraftLabels,
       vars, launcher, disk, shared, locks, locals, Threads, Labels, MainLabels,
       InstallLabels, PlayLabels, DeleteLabels, TransitionLabels
<1>1. ASSUME NEW t \in Workers, CreateInstance(t) PROVE LocalsOK'
  BY <1>1 DEF CreateInstance, Begin, Goto
<1>2. ASSUME NEW t \in Workers, BeginPack(t) PROVE LocalsOK'
  BY <1>2 DEF BeginPack, Begin, Goto
<1>3. ASSUME NEW t \in Workers, RetryInstall(t) PROVE LocalsOK'
  BY <1>3 DEF RetryInstall, Begin, Goto
<1>4. ASSUME NEW t \in Workers, InstallConfiguration(t) PROVE LocalsOK'
  BY <1>4 DEF InstallConfiguration, Begin, Goto
<1>5. ASSUME NEW t \in Workers, ReservePlay(t) PROVE LocalsOK'
  BY <1>5 DEF ReservePlay, Begin, Goto
<1>6. ASSUME NEW t \in Workers, BeginDelete(t) PROVE LocalsOK'
  BY <1>6 DEF BeginDelete, Begin, Goto
<1>7. ASSUME NEW t \in Workers, PreviewTransition(t) PROVE LocalsOK'
  BY <1>7 DEF PreviewTransition, Begin, Goto, Ready
<1>8. ASSUME NEW t \in Workers, PersistPin(t) PROVE LocalsOK'
  <2>1. CASE registry[target[t]] = None
    BY <1>8, <2>1, ReturnLocals DEF PersistPin
  <2>2. CASE registry[target[t]] # None
    <3> DEFINE pinned == [registry[target[t]] EXCEPT
                            !.installed = record[t].desired,
                            !.state = "installing"]
    <3>1. registry[target[t]] \in Records /\ record[t] \in Records
      BY <1>8, <2>2 DEF PersistPin
    <3>2. pinned \in Records
      BY <3>1
    <3>3. record' = [record EXCEPT ![t] = pinned]
      BY <1>8, <2>2 DEF PersistPin
    <3> HIDE DEF pinned
    <3> QED
      BY <1>8, <2>2, <3>2, <3>3 DEF PersistPin, Goto
  <2> QED
    BY <2>1, <2>2
<1>9. ASSUME NEW t \in Workers, InstallFails(t) PROVE LocalsOK'
  BY <1>9 DEF InstallFails, Return
<1>10. ASSUME NEW t \in Workers, StartGameInstall(t) PROVE LocalsOK'
  <2>1. CASE Return(t)
    BY <2>1, ReturnLocals
  <2>2. CASE ~Return(t)
    BY <1>10, <2>2 DEF StartGameInstall, Goto, KeepLocals
  <2> QED
    BY <2>1, <2>2
<1>11. ASSUME NEW t \in Workers, StageGame(t) PROVE LocalsOK'
  BY <1>11 DEF StageGame, Step, Goto, KeepLocals
<1>12. ASSUME NEW t \in Workers, StageGameFails(t) PROVE LocalsOK'
  BY <1>12 DEF StageGameFails, Return
<1>13. ASSUME NEW t \in Workers, RetireGame(t) PROVE LocalsOK'
  BY <1>13 DEF RetireGame, Step, Goto
<1>14. ASSUME NEW t \in Workers, PromoteGame(t) PROVE LocalsOK'
  BY <1>14 DEF PromoteGame, Step, Goto, AfterGame
<1>15. ASSUME NEW t \in Workers, PromoteGameFails(t) PROVE LocalsOK'
  BY <1>15 DEF PromoteGameFails, Return
<1>16. ASSUME NEW t \in Workers, InstallAurora(t) PROVE LocalsOK'
  BY <1>16 DEF InstallAurora, Step, Goto, KeepLocals
<1>17. ASSUME NEW t \in Workers, ValidateInstall(t) PROVE LocalsOK'
  <2>1. CASE Return(t)
    BY <2>1, ReturnLocals
  <2>2. CASE ~Return(t)
    BY <1>17, <2>2 DEF ValidateInstall, Goto, KeepLocals
  <2> QED
    BY <2>1, <2>2
<1>18. ASSUME NEW t \in Workers, CommitReady(t) PROVE LocalsOK'
  BY <1>18 DEF CommitReady, Step, Goto, KeepLocals
<1>19. ASSUME NEW t \in Workers, CompletePack(t) PROVE LocalsOK'
  BY <1>19 DEF CompletePack, Step, Goto, KeepLocals
<1>20. ASSUME NEW t \in Workers, RollbackPack(t) PROVE LocalsOK'
  <2>1. CASE Return(t)
    BY <2>1, ReturnLocals
  <2>2. CASE ~Return(t)
    BY <1>20, <2>2 DEF RollbackPack, Goto, KeepLocals
  <2> QED
    BY <2>1, <2>2
<1>21. ASSUME NEW t \in Workers, AbandonPack(t) PROVE LocalsOK'
  BY <1>21 DEF AbandonPack, Return
<1>22. ASSUME NEW t \in Workers, ReadSelection(t) PROVE LocalsOK'
  <2>1. CASE Return(t)
    BY <2>1, ReturnLocals
  <2>2. CASE ~Return(t)
    <3>1. /\ pc[t] = "readSelection"
          /\ pc' = [pc EXCEPT ![t] = "writeSelection"]
          /\ draft' = [draft EXCEPT ![t] = config]
          /\ UNCHANGED <<command, target, record, view>>
      BY <1>22, <2>2 DEF ReadSelection, Goto
    <3> QED
      BY <3>1
  <2> QED
    BY <2>1, <2>2
<1>23. ASSUME NEW t \in Workers, WriteSelection(t) PROVE LocalsOK'
  BY <1>23 DEF WriteSelection, Return
<1>24. ASSUME NEW t \in Workers, CapturePlay(t) PROVE LocalsOK'
  <2>1. CASE EndPlay(t)
    BY <2>1, ReturnLocals DEF EndPlay
  <2>2. CASE ~EndPlay(t)
    <3> DEFINE seen == [game |-> game[target[t]], aurora |-> aurora[target[t]]]
    <3>1. registry[target[t]] \in Records /\ seen \in Views
      BY <1>24, <2>2 DEF CapturePlay
    <3>2. /\ pc' = [pc EXCEPT ![t] = "resolvePlay"]
          /\ record' = [record EXCEPT ![t] = registry[target[t]]]
          /\ view' = [view EXCEPT ![t] = seen]
          /\ UNCHANGED <<command, target, draft>>
      BY <1>24, <2>2 DEF CapturePlay, Goto
    <3>3. pc[t] = "capture"
      BY <1>24 DEF CapturePlay
    <3> HIDE DEF seen
    <3> QED
      BY <3>1, <3>2, <3>3
  <2> QED
    BY <2>1, <2>2
<1>25. ASSUME NEW t \in Workers, ResolvePlay(t) PROVE LocalsOK'
  <2>1. CASE Return(t)
    BY <2>1, ReturnLocals
  <2>2. CASE ~Return(t)
    BY <1>25, <2>2 DEF ResolvePlay, EndPlay, Goto, KeepLocals
  <2> QED
    BY <2>1, <2>2
<1>26. ASSUME NEW t \in Workers, PlayFails(t) PROVE LocalsOK'
  BY <1>26 DEF PlayFails, EndPlay, Return
<1>27. ASSUME NEW t \in Workers, EnterBoundary(t) PROVE LocalsOK'
  <2>1. CASE Return(t)
    BY <2>1, ReturnLocals
  <2>2. CASE ~Return(t)
    BY <1>27, <2>2 DEF EnterBoundary, EndPlay, Goto, KeepLocals
  <2> QED
    BY <2>1, <2>2
<1>28. ASSUME NEW t \in Workers, CheckBoundary(t) PROVE LocalsOK'
  <2>1. CASE Return(t)
    BY <2>1, ReturnLocals
  <2>2. CASE ~Return(t)
    BY <1>28, <2>2 DEF CheckBoundary, EndPlay, Goto, KeepLocals
  <2> QED
    BY <2>1, <2>2
<1>29. ASSUME NEW t \in Workers, StartProcess(t) PROVE LocalsOK'
  <2>1. CASE Return(t)
    BY <2>1, ReturnLocals
  <2>2. CASE ~Return(t)
    BY <1>29, <2>2 DEF StartProcess, EndPlay, Goto, KeepLocals
  <2> QED
    BY <2>1, <2>2
<1>30. ASSUME NEW t \in Workers, SpawnProcess(t) PROVE LocalsOK'
  BY <1>30, ReturnLocals DEF SpawnProcess, EndPlay
<1>31. ASSUME NEW t \in Workers, CheckDelete(t) PROVE LocalsOK'
  <2>1. CASE MayDelete(t)
    <3>1. /\ pc' = [pc EXCEPT ![t] = "delSelection"]
          /\ draft' = [draft EXCEPT ![t] = config]
          /\ UNCHANGED <<command, target, record, view>>
      BY <1>31, <2>1 DEF CheckDelete, Goto
    <3>2. pc[t] = "delRegistry"
      BY <1>31 DEF CheckDelete
    <3> QED
      BY <3>1, <3>2
  <2>2. CASE ~MayDelete(t)
    <3>1. Return(t)
      BY <1>31, <2>2 DEF CheckDelete, Release
    <3> QED
      BY <3>1, ReturnLocals
  <2> QED
    BY <2>1, <2>2
<1>32. ASSUME NEW t \in Workers, DeleteSelection(t) PROVE LocalsOK'
  BY <1>32 DEF DeleteSelection, Step, Goto, KeepLocals
<1>33. ASSUME NEW t \in Workers, DeleteFiles(t) PROVE LocalsOK'
  BY <1>33 DEF DeleteFiles, Step, Goto, KeepLocals
<1>34. ASSUME NEW t \in Workers, DeleteFilesFails(t) PROVE LocalsOK'
  BY <1>34 DEF DeleteFilesFails, Release, Return
<1>35. ASSUME NEW t \in Workers, DeleteRow(t) PROVE LocalsOK'
  BY <1>35 DEF DeleteRow, Release, Return
<1>36. ASSUME NEW t \in Workers, DeleteFails(t) PROVE LocalsOK'
  BY <1>36 DEF DeleteFails, Release, Return
<1>37. ASSUME NEW t \in Workers, TransitionFails(t) PROVE LocalsOK'
  BY <1>37 DEF TransitionFails, Return
<1>38. ASSUME NEW t \in Workers, LockTransition(t) PROVE LocalsOK'
  BY <1>38 DEF LockTransition, Step, Goto, KeepLocals
<1>39. ASSUME NEW t \in Workers, CheckTransition(t) PROVE LocalsOK'
  <2>1. CASE Return(t)
    BY <2>1, ReturnLocals
  <2>2. CASE ~Return(t)
    BY <1>39, <2>2 DEF CheckTransition, Release, Goto, KeepLocals
  <2> QED
    BY <2>1, <2>2
<1>40. ASSUME NEW t \in Workers, ActivateTransition(t) PROVE LocalsOK'
  BY <1>40 DEF ActivateTransition, Step, Goto, KeepLocals
<1>41. ASSUME NEW t \in Workers, PersistTransition(t) PROVE LocalsOK'
  BY <1>41 DEF PersistTransition, Step, Goto, KeepLocals
<1>42. ASSUME NEW t \in Workers, FinishTransition(t) PROVE LocalsOK'
  BY <1>42 DEF FinishTransition, Release, Return
<1>43. ASSUME NEW t \in Workers, RollbackTransition(t) PROVE LocalsOK'
  BY <1>43 DEF RollbackTransition, Release, Return
<1>44. CASE UpdateConfiguration
  BY <1>44 DEF UpdateConfiguration
<1>45. CASE RenameInstance
  BY <1>45 DEF RenameInstance
<1>46. CASE SelectInstance
  BY <1>46 DEF SelectInstance, Begin, Goto
<1>47. CASE LoadPreferences
  BY <1>47 DEF LoadPreferences, Step, Goto
<1>48. CASE LoadSelected
  BY <1>48 DEF LoadSelected, Step, Goto
<1>49. CASE SaveSelected
  BY <1>49 DEF SaveSelected, Return
<1>50. CASE SavePreferences
  BY <1>50 DEF SavePreferences, Return
<1>51. ASSUME NEW i \in Instances, ProcessExits(i) PROVE LocalsOK'
  BY <1>51 DEF ProcessExits
<1>52. CASE Crash
  BY <1>52 DEF Crash, NoneYet, Stopped, Idle, Nothing, NoViews, NoView
<1>53. CASE UNCHANGED vars
  BY <1>53
<1> QED
  BY <1>1, <1>2, <1>3, <1>4, <1>5, <1>6, <1>7, <1>8, <1>9, <1>10, <1>11,
       <1>12, <1>13, <1>14, <1>15, <1>16, <1>17, <1>18, <1>19, <1>20, <1>21,
       <1>22, <1>23, <1>24, <1>25, <1>26, <1>27, <1>28, <1>29, <1>30, <1>31,
       <1>32, <1>33, <1>34, <1>35, <1>36, <1>37, <1>38, <1>39, <1>40, <1>41,
       <1>42, <1>43, <1>44, <1>45, <1>46, <1>47, <1>48, <1>49, <1>50, <1>51,
       <1>52, <1>53
     DEF Next, CommandNext, StartCommand, Continue, InstallStep, PlayStep, DeleteStep,
         TransitionStep, StartMain, ContinueMain

\* A lock is taken and released by the steps between which it is held.
LEMMA HeldStep ==
    ASSUME TypeOK, Held, [Next]_vars
    PROVE  Held'
<1> USE NoneAssumption, MainAssumption
    DEF TypeOK, MemoryOK, LocalsOK,
       Held, RegistryLabels, MutatingLabels, ContentLabels,
       StagingLabels, vars, launcher, disk, shared, locks, locals, Threads, Labels,
       MainLabels, InstallLabels, PlayLabels, DeleteLabels, TransitionLabels
<1>1. ASSUME NEW t \in Workers, CreateInstance(t) PROVE Held'
  BY <1>1 DEF CreateInstance, Begin, Goto
<1>2. ASSUME NEW t \in Workers, BeginPack(t) PROVE Held'
  BY <1>2 DEF BeginPack, Begin, Goto
<1>3. ASSUME NEW t \in Workers, RetryInstall(t) PROVE Held'
  BY <1>3 DEF RetryInstall, Begin, Goto
<1>4. ASSUME NEW t \in Workers, InstallConfiguration(t) PROVE Held'
  BY <1>4 DEF InstallConfiguration, Begin, Goto
<1>5. ASSUME NEW t \in Workers, ReservePlay(t) PROVE Held'
  BY <1>5 DEF ReservePlay, Begin, Goto
<1>6. ASSUME NEW t \in Workers, BeginDelete(t) PROVE Held'
  BY <1>6 DEF BeginDelete, Begin, Goto
<1>7. ASSUME NEW t \in Workers, PreviewTransition(t) PROVE Held'
  BY <1>7 DEF PreviewTransition, Begin, Goto
<1>8. ASSUME NEW t \in Workers, PersistPin(t) PROVE Held'
  BY <1>8 DEF PersistPin, Goto, Return
<1>9. ASSUME NEW t \in Workers, InstallFails(t) PROVE Held'
  BY <1>9 DEF InstallFails, Return
<1>10. ASSUME NEW t \in Workers, StartGameInstall(t) PROVE Held'
  BY <1>10 DEF StartGameInstall, KeepLocals, Goto, Return
<1>11. ASSUME NEW t \in Workers, StageGame(t) PROVE Held'
  BY <1>11 DEF StageGame, Step, Goto, KeepLocals
<1>12. ASSUME NEW t \in Workers, StageGameFails(t) PROVE Held'
  BY <1>12 DEF StageGameFails, Return
<1>13. ASSUME NEW t \in Workers, RetireGame(t) PROVE Held'
  BY <1>13 DEF RetireGame, Step, Goto
<1>14. ASSUME NEW t \in Workers, PromoteGame(t) PROVE Held'
  BY <1>14 DEF PromoteGame, Step, Goto, AfterGame
<1>15. ASSUME NEW t \in Workers, PromoteGameFails(t) PROVE Held'
  BY <1>15 DEF PromoteGameFails, Return
<1>16. ASSUME NEW t \in Workers, InstallAurora(t) PROVE Held'
  BY <1>16 DEF InstallAurora, Step, Goto, KeepLocals
<1>17. ASSUME NEW t \in Workers, ValidateInstall(t) PROVE Held'
  BY <1>17 DEF ValidateInstall, KeepLocals, Goto, Return
<1>18. ASSUME NEW t \in Workers, CommitReady(t) PROVE Held'
  BY <1>18 DEF CommitReady, Step, Goto, KeepLocals
<1>19. ASSUME NEW t \in Workers, CompletePack(t) PROVE Held'
  BY <1>19 DEF CompletePack, Step, Goto, KeepLocals
<1>20. ASSUME NEW t \in Workers, RollbackPack(t) PROVE Held'
  BY <1>20 DEF RollbackPack, KeepLocals, Goto, Return
<1>21. ASSUME NEW t \in Workers, AbandonPack(t) PROVE Held'
  BY <1>21 DEF AbandonPack, Return
<1>22. ASSUME NEW t \in Workers, ReadSelection(t) PROVE Held'
  BY <1>22 DEF ReadSelection, Goto, Return
<1>23. ASSUME NEW t \in Workers, WriteSelection(t) PROVE Held'
  BY <1>23 DEF WriteSelection, Return
<1>24. ASSUME NEW t \in Workers, CapturePlay(t) PROVE Held'
  BY <1>24 DEF CapturePlay, Goto, EndPlay, Return
<1>25. ASSUME NEW t \in Workers, ResolvePlay(t) PROVE Held'
  BY <1>25 DEF ResolvePlay, KeepLocals, Goto, EndPlay, Return
<1>26. ASSUME NEW t \in Workers, PlayFails(t) PROVE Held'
  BY <1>26 DEF PlayFails, EndPlay, Return
<1>27. ASSUME NEW t \in Workers, EnterBoundary(t) PROVE Held'
  BY <1>27 DEF EnterBoundary, KeepLocals, Goto, EndPlay, Return
<1>28. ASSUME NEW t \in Workers, CheckBoundary(t) PROVE Held'
  BY <1>28 DEF CheckBoundary, KeepLocals, Goto, EndPlay, Return
<1>29. ASSUME NEW t \in Workers, StartProcess(t) PROVE Held'
  BY <1>29 DEF StartProcess, KeepLocals, Goto, EndPlay, Return
<1>30. ASSUME NEW t \in Workers, SpawnProcess(t) PROVE Held'
  BY <1>30 DEF SpawnProcess, EndPlay, Return
<1>31. ASSUME NEW t \in Workers, CheckDelete(t) PROVE Held'
  BY <1>31 DEF CheckDelete, Goto, Release, Return, MayDelete
<1>32. ASSUME NEW t \in Workers, DeleteSelection(t) PROVE Held'
  BY <1>32 DEF DeleteSelection, Step, Goto, KeepLocals
<1>33. ASSUME NEW t \in Workers, DeleteFiles(t) PROVE Held'
  BY <1>33 DEF DeleteFiles, Step, Goto, KeepLocals
<1>34. ASSUME NEW t \in Workers, DeleteFilesFails(t) PROVE Held'
  BY <1>34 DEF DeleteFilesFails, Release, Return
<1>35. ASSUME NEW t \in Workers, DeleteRow(t) PROVE Held'
  BY <1>35 DEF DeleteRow, Release, Return
<1>36. ASSUME NEW t \in Workers, DeleteFails(t) PROVE Held'
  BY <1>36 DEF DeleteFails, Release, Return
<1>37. ASSUME NEW t \in Workers, TransitionFails(t) PROVE Held'
  BY <1>37 DEF TransitionFails, Return
<1>38. ASSUME NEW t \in Workers, LockTransition(t) PROVE Held'
  BY <1>38 DEF LockTransition, Step, Goto, KeepLocals
<1>39. ASSUME NEW t \in Workers, CheckTransition(t) PROVE Held'
  BY <1>39 DEF CheckTransition, KeepLocals, Goto, Release, Return
<1>40. ASSUME NEW t \in Workers, ActivateTransition(t) PROVE Held'
  BY <1>40 DEF ActivateTransition, Step, Goto, KeepLocals
<1>41. ASSUME NEW t \in Workers, PersistTransition(t) PROVE Held'
  BY <1>41 DEF PersistTransition, Step, Goto, KeepLocals
<1>42. ASSUME NEW t \in Workers, FinishTransition(t) PROVE Held'
  BY <1>42 DEF FinishTransition, Release, Return
<1>43. ASSUME NEW t \in Workers, RollbackTransition(t) PROVE Held'
  BY <1>43 DEF RollbackTransition, Release, Return
<1>44. CASE UpdateConfiguration
  BY <1>44 DEF UpdateConfiguration
<1>45. CASE RenameInstance
  BY <1>45 DEF RenameInstance
<1>46. CASE SelectInstance
  BY <1>46 DEF SelectInstance, Begin, Goto
<1>47. CASE LoadPreferences
  BY <1>47 DEF LoadPreferences, Step, Goto
<1>48. CASE LoadSelected
  BY <1>48 DEF LoadSelected, Step, Goto
<1>49. CASE SaveSelected
  BY <1>49 DEF SaveSelected, Return
<1>50. CASE SavePreferences
  BY <1>50 DEF SavePreferences, Return
<1>51. ASSUME NEW i \in Instances, ProcessExits(i) PROVE Held'
  BY <1>51 DEF ProcessExits
<1>52. CASE Crash
  BY <1>52 DEF Crash, NoneYet, Stopped, Idle, Nothing, NoViews, NoView
<1>53. CASE UNCHANGED vars
  BY <1>53
<1> QED
  BY <1>1, <1>2, <1>3, <1>4, <1>5, <1>6, <1>7, <1>8, <1>9, <1>10, <1>11,
       <1>12, <1>13, <1>14, <1>15, <1>16, <1>17, <1>18, <1>19, <1>20, <1>21,
       <1>22, <1>23, <1>24, <1>25, <1>26, <1>27, <1>28, <1>29, <1>30, <1>31,
       <1>32, <1>33, <1>34, <1>35, <1>36, <1>37, <1>38, <1>39, <1>40, <1>41,
       <1>42, <1>43, <1>44, <1>45, <1>46, <1>47, <1>48, <1>49, <1>50, <1>51,
       <1>52, <1>53
     DEF Next, CommandNext, StartCommand, Continue, InstallStep, PlayStep, DeleteStep,
         TransitionStep, StartMain, ContinueMain

\* No status changes under a deletion or a transition.
LEMMA MutationStep ==
    ASSUME TypeOK, Held, MutationExcludesGame, [Next]_vars
    PROVE  MutationExcludesGame'
<1> USE NoneAssumption, MainAssumption
    DEF TypeOK, MemoryOK, LocalsOK,
       Held, MutationExcludesGame, Blocks, RegistryLabels, MutatingLabels,
       vars, launcher, disk, shared, locks, locals, Threads, Labels, MainLabels,
       InstallLabels, PlayLabels, DeleteLabels, TransitionLabels
<1>1. ASSUME NEW t \in Workers, CreateInstance(t) PROVE MutationExcludesGame'
  BY <1>1 DEF CreateInstance, Begin, Goto
<1>2. ASSUME NEW t \in Workers, BeginPack(t) PROVE MutationExcludesGame'
  BY <1>2 DEF BeginPack, Begin, Goto
<1>3. ASSUME NEW t \in Workers, RetryInstall(t) PROVE MutationExcludesGame'
  BY <1>3 DEF RetryInstall, Begin, Goto
<1>4. ASSUME NEW t \in Workers, InstallConfiguration(t) PROVE MutationExcludesGame'
  BY <1>4 DEF InstallConfiguration, Begin, Goto
<1>5. ASSUME NEW t \in Workers, ReservePlay(t) PROVE MutationExcludesGame'
  BY <1>5 DEF ReservePlay, Begin, Goto
<1>6. ASSUME NEW t \in Workers, BeginDelete(t) PROVE MutationExcludesGame'
  BY <1>6 DEF BeginDelete, Begin, Goto
<1>7. ASSUME NEW t \in Workers, PreviewTransition(t) PROVE MutationExcludesGame'
  BY <1>7 DEF PreviewTransition, Begin, Goto
<1>8. ASSUME NEW t \in Workers, PersistPin(t) PROVE MutationExcludesGame'
  BY <1>8 DEF PersistPin, Goto, Return
<1>9. ASSUME NEW t \in Workers, InstallFails(t) PROVE MutationExcludesGame'
  BY <1>9 DEF InstallFails, Return
<1>10. ASSUME NEW t \in Workers, StartGameInstall(t) PROVE MutationExcludesGame'
  BY <1>10 DEF StartGameInstall, KeepLocals, Goto, Return
<1>11. ASSUME NEW t \in Workers, StageGame(t) PROVE MutationExcludesGame'
  BY <1>11 DEF StageGame, Step, Goto, KeepLocals
<1>12. ASSUME NEW t \in Workers, StageGameFails(t) PROVE MutationExcludesGame'
  BY <1>12 DEF StageGameFails, Return
<1>13. ASSUME NEW t \in Workers, RetireGame(t) PROVE MutationExcludesGame'
  BY <1>13 DEF RetireGame, Step, Goto
<1>14. ASSUME NEW t \in Workers, PromoteGame(t) PROVE MutationExcludesGame'
  BY <1>14 DEF PromoteGame, Step, Goto, AfterGame
<1>15. ASSUME NEW t \in Workers, PromoteGameFails(t) PROVE MutationExcludesGame'
  BY <1>15 DEF PromoteGameFails, Return
<1>16. ASSUME NEW t \in Workers, InstallAurora(t) PROVE MutationExcludesGame'
  BY <1>16 DEF InstallAurora, Step, Goto, KeepLocals
<1>17. ASSUME NEW t \in Workers, ValidateInstall(t) PROVE MutationExcludesGame'
  BY <1>17 DEF ValidateInstall, KeepLocals, Goto, Return
<1>18. ASSUME NEW t \in Workers, CommitReady(t) PROVE MutationExcludesGame'
  BY <1>18 DEF CommitReady, Step, Goto, KeepLocals
<1>19. ASSUME NEW t \in Workers, CompletePack(t) PROVE MutationExcludesGame'
  BY <1>19 DEF CompletePack, Step, Goto, KeepLocals
<1>20. ASSUME NEW t \in Workers, RollbackPack(t) PROVE MutationExcludesGame'
  BY <1>20 DEF RollbackPack, KeepLocals, Goto, Return
<1>21. ASSUME NEW t \in Workers, AbandonPack(t) PROVE MutationExcludesGame'
  BY <1>21 DEF AbandonPack, Return
<1>22. ASSUME NEW t \in Workers, ReadSelection(t) PROVE MutationExcludesGame'
  BY <1>22 DEF ReadSelection, Goto, Return
<1>23. ASSUME NEW t \in Workers, WriteSelection(t) PROVE MutationExcludesGame'
  BY <1>23 DEF WriteSelection, Return
<1>24. ASSUME NEW t \in Workers, CapturePlay(t) PROVE MutationExcludesGame'
  BY <1>24 DEF CapturePlay, Goto, EndPlay, Return
<1>25. ASSUME NEW t \in Workers, ResolvePlay(t) PROVE MutationExcludesGame'
  BY <1>25 DEF ResolvePlay, KeepLocals, Goto, EndPlay, Return
<1>26. ASSUME NEW t \in Workers, PlayFails(t) PROVE MutationExcludesGame'
  BY <1>26 DEF PlayFails, EndPlay, Return
<1>27. ASSUME NEW t \in Workers, EnterBoundary(t) PROVE MutationExcludesGame'
  BY <1>27 DEF EnterBoundary, KeepLocals, Goto, EndPlay, Return
<1>28. ASSUME NEW t \in Workers, CheckBoundary(t) PROVE MutationExcludesGame'
  BY <1>28 DEF CheckBoundary, KeepLocals, Goto, EndPlay, Return
<1>29. ASSUME NEW t \in Workers, StartProcess(t) PROVE MutationExcludesGame'
  BY <1>29 DEF StartProcess, KeepLocals, Goto, EndPlay, Return
<1>30. ASSUME NEW t \in Workers, SpawnProcess(t) PROVE MutationExcludesGame'
  BY <1>30 DEF SpawnProcess, EndPlay, Return
<1>31. ASSUME NEW t \in Workers, CheckDelete(t) PROVE MutationExcludesGame'
  BY <1>31 DEF CheckDelete, Goto, Release, Return, MayDelete
<1>32. ASSUME NEW t \in Workers, DeleteSelection(t) PROVE MutationExcludesGame'
  BY <1>32 DEF DeleteSelection, Step, Goto, KeepLocals
<1>33. ASSUME NEW t \in Workers, DeleteFiles(t) PROVE MutationExcludesGame'
  BY <1>33 DEF DeleteFiles, Step, Goto, KeepLocals
<1>34. ASSUME NEW t \in Workers, DeleteFilesFails(t) PROVE MutationExcludesGame'
  BY <1>34 DEF DeleteFilesFails, Release, Return
<1>35. ASSUME NEW t \in Workers, DeleteRow(t) PROVE MutationExcludesGame'
  BY <1>35 DEF DeleteRow, Release, Return
<1>36. ASSUME NEW t \in Workers, DeleteFails(t) PROVE MutationExcludesGame'
  BY <1>36 DEF DeleteFails, Release, Return
<1>37. ASSUME NEW t \in Workers, TransitionFails(t) PROVE MutationExcludesGame'
  BY <1>37 DEF TransitionFails, Return
<1>38. ASSUME NEW t \in Workers, LockTransition(t) PROVE MutationExcludesGame'
  BY <1>38 DEF LockTransition, Step, Goto, KeepLocals
<1>39. ASSUME NEW t \in Workers, CheckTransition(t) PROVE MutationExcludesGame'
  BY <1>39 DEF CheckTransition, KeepLocals, Goto, Release, Return,
       TransitionApproved
<1>40. ASSUME NEW t \in Workers, ActivateTransition(t) PROVE MutationExcludesGame'
  BY <1>40 DEF ActivateTransition, Step, Goto, KeepLocals
<1>41. ASSUME NEW t \in Workers, PersistTransition(t) PROVE MutationExcludesGame'
  BY <1>41 DEF PersistTransition, Step, Goto, KeepLocals
<1>42. ASSUME NEW t \in Workers, FinishTransition(t) PROVE MutationExcludesGame'
  BY <1>42 DEF FinishTransition, Release, Return
<1>43. ASSUME NEW t \in Workers, RollbackTransition(t) PROVE MutationExcludesGame'
  BY <1>43 DEF RollbackTransition, Release, Return
<1>44. CASE UpdateConfiguration
  BY <1>44 DEF UpdateConfiguration
<1>45. CASE RenameInstance
  BY <1>45 DEF RenameInstance
<1>46. CASE SelectInstance
  BY <1>46 DEF SelectInstance, Begin, Goto
<1>47. CASE LoadPreferences
  BY <1>47 DEF LoadPreferences, Step, Goto
<1>48. CASE LoadSelected
  BY <1>48 DEF LoadSelected, Step, Goto
<1>49. CASE SaveSelected
  BY <1>49 DEF SaveSelected, Return
<1>50. CASE SavePreferences
  BY <1>50 DEF SavePreferences, Return
<1>51. ASSUME NEW i \in Instances, ProcessExits(i) PROVE MutationExcludesGame'
  BY <1>51 DEF ProcessExits
<1>52. CASE Crash
  BY <1>52 DEF Crash, NoneYet, Stopped, Idle, Nothing, NoViews, NoView
<1>53. CASE UNCHANGED vars
  BY <1>53
<1> QED
  BY <1>1, <1>2, <1>3, <1>4, <1>5, <1>6, <1>7, <1>8, <1>9, <1>10, <1>11,
       <1>12, <1>13, <1>14, <1>15, <1>16, <1>17, <1>18, <1>19, <1>20, <1>21,
       <1>22, <1>23, <1>24, <1>25, <1>26, <1>27, <1>28, <1>29, <1>30, <1>31,
       <1>32, <1>33, <1>34, <1>35, <1>36, <1>37, <1>38, <1>39, <1>40, <1>41,
       <1>42, <1>43, <1>44, <1>45, <1>46, <1>47, <1>48, <1>49, <1>50, <1>51,
       <1>52, <1>53
     DEF Next, CommandNext, StartCommand, Continue, InstallStep, PlayStep, DeleteStep,
         TransitionStep, StartMain, ContinueMain

\* No row changes under a transition that has checked it.
LEMMA FrozenStep ==
    ASSUME TypeOK, Held, Frozen, [Next]_vars
    PROVE  Frozen'
<1> USE NoneAssumption, MainAssumption
    DEF TypeOK, MemoryOK, LocalsOK,
       Held, Frozen, RegistryLabels, MutatingLabels, vars, launcher, disk, shared,
       locks, locals, Threads, Labels, MainLabels, InstallLabels,
       PlayLabels, DeleteLabels, TransitionLabels
<1>1. ASSUME NEW t \in Workers, CreateInstance(t) PROVE Frozen'
  BY <1>1 DEF CreateInstance, Begin, Goto
<1>2. ASSUME NEW t \in Workers, BeginPack(t) PROVE Frozen'
  BY <1>2 DEF BeginPack, Begin, Goto
<1>3. ASSUME NEW t \in Workers, RetryInstall(t) PROVE Frozen'
  BY <1>3 DEF RetryInstall, Begin, Goto
<1>4. ASSUME NEW t \in Workers, InstallConfiguration(t) PROVE Frozen'
  BY <1>4 DEF InstallConfiguration, Begin, Goto
<1>5. ASSUME NEW t \in Workers, ReservePlay(t) PROVE Frozen'
  BY <1>5 DEF ReservePlay, Begin, Goto
<1>6. ASSUME NEW t \in Workers, BeginDelete(t) PROVE Frozen'
  BY <1>6 DEF BeginDelete, Begin, Goto
<1>7. ASSUME NEW t \in Workers, PreviewTransition(t) PROVE Frozen'
  BY <1>7 DEF PreviewTransition, Begin, Goto
<1>8. ASSUME NEW t \in Workers, PersistPin(t) PROVE Frozen'
  BY <1>8 DEF PersistPin, Goto, Return
<1>9. ASSUME NEW t \in Workers, InstallFails(t) PROVE Frozen'
  BY <1>9 DEF InstallFails, Return
<1>10. ASSUME NEW t \in Workers, StartGameInstall(t) PROVE Frozen'
  BY <1>10 DEF StartGameInstall, KeepLocals, Goto, Return
<1>11. ASSUME NEW t \in Workers, StageGame(t) PROVE Frozen'
  BY <1>11 DEF StageGame, Step, Goto, KeepLocals
<1>12. ASSUME NEW t \in Workers, StageGameFails(t) PROVE Frozen'
  BY <1>12 DEF StageGameFails, Return
<1>13. ASSUME NEW t \in Workers, RetireGame(t) PROVE Frozen'
  BY <1>13 DEF RetireGame, Step, Goto
<1>14. ASSUME NEW t \in Workers, PromoteGame(t) PROVE Frozen'
  BY <1>14 DEF PromoteGame, Step, Goto, AfterGame
<1>15. ASSUME NEW t \in Workers, PromoteGameFails(t) PROVE Frozen'
  BY <1>15 DEF PromoteGameFails, Return
<1>16. ASSUME NEW t \in Workers, InstallAurora(t) PROVE Frozen'
  BY <1>16 DEF InstallAurora, Step, Goto, KeepLocals
<1>17. ASSUME NEW t \in Workers, ValidateInstall(t) PROVE Frozen'
  BY <1>17 DEF ValidateInstall, KeepLocals, Goto, Return
<1>18. ASSUME NEW t \in Workers, CommitReady(t) PROVE Frozen'
  BY <1>18 DEF CommitReady, Step, Goto, KeepLocals
<1>19. ASSUME NEW t \in Workers, CompletePack(t) PROVE Frozen'
  BY <1>19 DEF CompletePack, Step, Goto, KeepLocals
<1>20. ASSUME NEW t \in Workers, RollbackPack(t) PROVE Frozen'
  BY <1>20 DEF RollbackPack, KeepLocals, Goto, Return
<1>21. ASSUME NEW t \in Workers, AbandonPack(t) PROVE Frozen'
  BY <1>21 DEF AbandonPack, Return
<1>22. ASSUME NEW t \in Workers, ReadSelection(t) PROVE Frozen'
  BY <1>22 DEF ReadSelection, Goto, Return
<1>23. ASSUME NEW t \in Workers, WriteSelection(t) PROVE Frozen'
  BY <1>23 DEF WriteSelection, Return
<1>24. ASSUME NEW t \in Workers, CapturePlay(t) PROVE Frozen'
  BY <1>24 DEF CapturePlay, Goto, EndPlay, Return
<1>25. ASSUME NEW t \in Workers, ResolvePlay(t) PROVE Frozen'
  BY <1>25 DEF ResolvePlay, KeepLocals, Goto, EndPlay, Return
<1>26. ASSUME NEW t \in Workers, PlayFails(t) PROVE Frozen'
  BY <1>26 DEF PlayFails, EndPlay, Return
<1>27. ASSUME NEW t \in Workers, EnterBoundary(t) PROVE Frozen'
  BY <1>27 DEF EnterBoundary, KeepLocals, Goto, EndPlay, Return
<1>28. ASSUME NEW t \in Workers, CheckBoundary(t) PROVE Frozen'
  BY <1>28 DEF CheckBoundary, KeepLocals, Goto, EndPlay, Return
<1>29. ASSUME NEW t \in Workers, StartProcess(t) PROVE Frozen'
  BY <1>29 DEF StartProcess, KeepLocals, Goto, EndPlay, Return
<1>30. ASSUME NEW t \in Workers, SpawnProcess(t) PROVE Frozen'
  BY <1>30 DEF SpawnProcess, EndPlay, Return
<1>31. ASSUME NEW t \in Workers, CheckDelete(t) PROVE Frozen'
  BY <1>31 DEF CheckDelete, Goto, Release, Return, MayDelete
<1>32. ASSUME NEW t \in Workers, DeleteSelection(t) PROVE Frozen'
  BY <1>32 DEF DeleteSelection, Step, Goto, KeepLocals
<1>33. ASSUME NEW t \in Workers, DeleteFiles(t) PROVE Frozen'
  BY <1>33 DEF DeleteFiles, Step, Goto, KeepLocals
<1>34. ASSUME NEW t \in Workers, DeleteFilesFails(t) PROVE Frozen'
  BY <1>34 DEF DeleteFilesFails, Release, Return
<1>35. ASSUME NEW t \in Workers, DeleteRow(t) PROVE Frozen'
  BY <1>35 DEF DeleteRow, Release, Return
<1>36. ASSUME NEW t \in Workers, DeleteFails(t) PROVE Frozen'
  BY <1>36 DEF DeleteFails, Release, Return
<1>37. ASSUME NEW t \in Workers, TransitionFails(t) PROVE Frozen'
  BY <1>37 DEF TransitionFails, Return
<1>38. ASSUME NEW t \in Workers, LockTransition(t) PROVE Frozen'
  BY <1>38 DEF LockTransition, Step, Goto, KeepLocals
<1>39. ASSUME NEW t \in Workers, CheckTransition(t) PROVE Frozen'
  BY <1>39 DEF CheckTransition, KeepLocals, Goto, Release, Return,
       TransitionApproved
<1>40. ASSUME NEW t \in Workers, ActivateTransition(t) PROVE Frozen'
  BY <1>40 DEF ActivateTransition, Step, Goto, KeepLocals
<1>41. ASSUME NEW t \in Workers, PersistTransition(t) PROVE Frozen'
  BY <1>41 DEF PersistTransition, Step, Goto, KeepLocals
<1>42. ASSUME NEW t \in Workers, FinishTransition(t) PROVE Frozen'
  BY <1>42 DEF FinishTransition, Release, Return
<1>43. ASSUME NEW t \in Workers, RollbackTransition(t) PROVE Frozen'
  BY <1>43 DEF RollbackTransition, Release, Return
<1>44. CASE UpdateConfiguration
  BY <1>44 DEF UpdateConfiguration
<1>45. CASE RenameInstance
  BY <1>45 DEF RenameInstance
<1>46. CASE SelectInstance
  BY <1>46 DEF SelectInstance, Begin, Goto
<1>47. CASE LoadPreferences
  BY <1>47 DEF LoadPreferences, Step, Goto
<1>48. CASE LoadSelected
  BY <1>48 DEF LoadSelected, Step, Goto
<1>49. CASE SaveSelected
  BY <1>49 DEF SaveSelected, Return
<1>50. CASE SavePreferences
  BY <1>50 DEF SavePreferences, Return
<1>51. ASSUME NEW i \in Instances, ProcessExits(i) PROVE Frozen'
  BY <1>51 DEF ProcessExits
<1>52. CASE Crash
  BY <1>52 DEF Crash, NoneYet, Stopped, Idle, Nothing, NoViews, NoView
<1>53. CASE UNCHANGED vars
  BY <1>53
<1> QED
  BY <1>1, <1>2, <1>3, <1>4, <1>5, <1>6, <1>7, <1>8, <1>9, <1>10, <1>11,
       <1>12, <1>13, <1>14, <1>15, <1>16, <1>17, <1>18, <1>19, <1>20, <1>21,
       <1>22, <1>23, <1>24, <1>25, <1>26, <1>27, <1>28, <1>29, <1>30, <1>31,
       <1>32, <1>33, <1>34, <1>35, <1>36, <1>37, <1>38, <1>39, <1>40, <1>41,
       <1>42, <1>43, <1>44, <1>45, <1>46, <1>47, <1>48, <1>49, <1>50, <1>51,
       <1>52, <1>53
     DEF Next, CommandNext, StartCommand, Continue, InstallStep, PlayStep, DeleteStep,
         TransitionStep, StartMain, ContinueMain

\* A reservation is made once, and lives as long as its Play.
LEMMA PlaysStep ==
    ASSUME TypeOK, Plays, [Next]_vars
    PROVE  Plays'
<1> USE MainAssumption
    DEF TypeOK, MemoryOK, LocalsOK, Plays, vars, launcher,
       disk, shared, locks, locals, Threads, Labels, MainLabels,
       InstallLabels, PlayLabels, DeleteLabels, TransitionLabels
<1>1. ASSUME NEW t \in Workers, CreateInstance(t) PROVE Plays'
  BY <1>1 DEF CreateInstance, Begin, Goto
<1>2. ASSUME NEW t \in Workers, BeginPack(t) PROVE Plays'
  BY <1>2 DEF BeginPack, Begin, Goto
<1>3. ASSUME NEW t \in Workers, RetryInstall(t) PROVE Plays'
  BY <1>3 DEF RetryInstall, Begin, Goto
<1>4. ASSUME NEW t \in Workers, InstallConfiguration(t) PROVE Plays'
  BY <1>4 DEF InstallConfiguration, Begin, Goto
<1>5. ASSUME NEW t \in Workers, ReservePlay(t) PROVE Plays'
  BY <1>5 DEF ReservePlay, Begin, Goto, MayReserve
<1>6. ASSUME NEW t \in Workers, BeginDelete(t) PROVE Plays'
  BY <1>6 DEF BeginDelete, Begin, Goto
<1>7. ASSUME NEW t \in Workers, PreviewTransition(t) PROVE Plays'
  BY <1>7 DEF PreviewTransition, Begin, Goto
<1>8. ASSUME NEW t \in Workers, PersistPin(t) PROVE Plays'
  BY <1>8 DEF PersistPin, Goto, Return
<1>9. ASSUME NEW t \in Workers, InstallFails(t) PROVE Plays'
  BY <1>9 DEF InstallFails, Return
<1>10. ASSUME NEW t \in Workers, StartGameInstall(t) PROVE Plays'
  BY <1>10 DEF StartGameInstall, KeepLocals, Goto, Return
<1>11. ASSUME NEW t \in Workers, StageGame(t) PROVE Plays'
  BY <1>11 DEF StageGame, Step, Goto, KeepLocals
<1>12. ASSUME NEW t \in Workers, StageGameFails(t) PROVE Plays'
  BY <1>12 DEF StageGameFails, Return
<1>13. ASSUME NEW t \in Workers, RetireGame(t) PROVE Plays'
  BY <1>13 DEF RetireGame, Step, Goto
<1>14. ASSUME NEW t \in Workers, PromoteGame(t) PROVE Plays'
  BY <1>14 DEF PromoteGame, Step, Goto, AfterGame
<1>15. ASSUME NEW t \in Workers, PromoteGameFails(t) PROVE Plays'
  BY <1>15 DEF PromoteGameFails, Return
<1>16. ASSUME NEW t \in Workers, InstallAurora(t) PROVE Plays'
  BY <1>16 DEF InstallAurora, Step, Goto, KeepLocals
<1>17. ASSUME NEW t \in Workers, ValidateInstall(t) PROVE Plays'
  BY <1>17 DEF ValidateInstall, KeepLocals, Goto, Return
<1>18. ASSUME NEW t \in Workers, CommitReady(t) PROVE Plays'
  BY <1>18 DEF CommitReady, Step, Goto, KeepLocals
<1>19. ASSUME NEW t \in Workers, CompletePack(t) PROVE Plays'
  BY <1>19 DEF CompletePack, Step, Goto, KeepLocals
<1>20. ASSUME NEW t \in Workers, RollbackPack(t) PROVE Plays'
  BY <1>20 DEF RollbackPack, KeepLocals, Goto, Return
<1>21. ASSUME NEW t \in Workers, AbandonPack(t) PROVE Plays'
  BY <1>21 DEF AbandonPack, Return
<1>22. ASSUME NEW t \in Workers, ReadSelection(t) PROVE Plays'
  BY <1>22 DEF ReadSelection, Goto, Return
<1>23. ASSUME NEW t \in Workers, WriteSelection(t) PROVE Plays'
  BY <1>23 DEF WriteSelection, Return
<1>24. ASSUME NEW t \in Workers, CapturePlay(t) PROVE Plays'
  BY <1>24 DEF CapturePlay, Goto, EndPlay, Return
<1>25. ASSUME NEW t \in Workers, ResolvePlay(t) PROVE Plays'
  BY <1>25 DEF ResolvePlay, KeepLocals, Goto, EndPlay, Return
<1>26. ASSUME NEW t \in Workers, PlayFails(t) PROVE Plays'
  BY <1>26 DEF PlayFails, EndPlay, Return
<1>27. ASSUME NEW t \in Workers, EnterBoundary(t) PROVE Plays'
  BY <1>27 DEF EnterBoundary, KeepLocals, Goto, EndPlay, Return
<1>28. ASSUME NEW t \in Workers, CheckBoundary(t) PROVE Plays'
  BY <1>28 DEF CheckBoundary, KeepLocals, Goto, EndPlay, Return
<1>29. ASSUME NEW t \in Workers, StartProcess(t) PROVE Plays'
  BY <1>29 DEF StartProcess, KeepLocals, Goto, EndPlay, Return
<1>30. ASSUME NEW t \in Workers, SpawnProcess(t) PROVE Plays'
  BY <1>30 DEF SpawnProcess, EndPlay, Return
<1>31. ASSUME NEW t \in Workers, CheckDelete(t) PROVE Plays'
  BY <1>31 DEF CheckDelete, Goto, Release, Return, MayDelete
<1>32. ASSUME NEW t \in Workers, DeleteSelection(t) PROVE Plays'
  BY <1>32 DEF DeleteSelection, Step, Goto, KeepLocals
<1>33. ASSUME NEW t \in Workers, DeleteFiles(t) PROVE Plays'
  BY <1>33 DEF DeleteFiles, Step, Goto, KeepLocals
<1>34. ASSUME NEW t \in Workers, DeleteFilesFails(t) PROVE Plays'
  BY <1>34 DEF DeleteFilesFails, Release, Return
<1>35. ASSUME NEW t \in Workers, DeleteRow(t) PROVE Plays'
  BY <1>35 DEF DeleteRow, Release, Return
<1>36. ASSUME NEW t \in Workers, DeleteFails(t) PROVE Plays'
  BY <1>36 DEF DeleteFails, Release, Return
<1>37. ASSUME NEW t \in Workers, TransitionFails(t) PROVE Plays'
  BY <1>37 DEF TransitionFails, Return
<1>38. ASSUME NEW t \in Workers, LockTransition(t) PROVE Plays'
  BY <1>38 DEF LockTransition, Step, Goto, KeepLocals
<1>39. ASSUME NEW t \in Workers, CheckTransition(t) PROVE Plays'
  BY <1>39 DEF CheckTransition, KeepLocals, Goto, Release, Return
<1>40. ASSUME NEW t \in Workers, ActivateTransition(t) PROVE Plays'
  BY <1>40 DEF ActivateTransition, Step, Goto, KeepLocals
<1>41. ASSUME NEW t \in Workers, PersistTransition(t) PROVE Plays'
  BY <1>41 DEF PersistTransition, Step, Goto, KeepLocals
<1>42. ASSUME NEW t \in Workers, FinishTransition(t) PROVE Plays'
  BY <1>42 DEF FinishTransition, Release, Return
<1>43. ASSUME NEW t \in Workers, RollbackTransition(t) PROVE Plays'
  BY <1>43 DEF RollbackTransition, Release, Return
<1>44. CASE UpdateConfiguration
  BY <1>44 DEF UpdateConfiguration
<1>45. CASE RenameInstance
  BY <1>45 DEF RenameInstance
<1>46. CASE SelectInstance
  BY <1>46 DEF SelectInstance, Begin, Goto
<1>47. CASE LoadPreferences
  BY <1>47 DEF LoadPreferences, Step, Goto
<1>48. CASE LoadSelected
  BY <1>48 DEF LoadSelected, Step, Goto
<1>49. CASE SaveSelected
  BY <1>49 DEF SaveSelected, Return
<1>50. CASE SavePreferences
  BY <1>50 DEF SavePreferences, Return
<1>51. ASSUME NEW i \in Instances, ProcessExits(i) PROVE Plays'
  BY <1>51 DEF ProcessExits
<1>52. CASE Crash
  BY <1>52 DEF Crash, NoneYet, Stopped, Idle, Nothing, NoViews, NoView
<1>53. CASE UNCHANGED vars
  BY <1>53
<1> QED
  BY <1>1, <1>2, <1>3, <1>4, <1>5, <1>6, <1>7, <1>8, <1>9, <1>10, <1>11,
       <1>12, <1>13, <1>14, <1>15, <1>16, <1>17, <1>18, <1>19, <1>20, <1>21,
       <1>22, <1>23, <1>24, <1>25, <1>26, <1>27, <1>28, <1>29, <1>30, <1>31,
       <1>32, <1>33, <1>34, <1>35, <1>36, <1>37, <1>38, <1>39, <1>40, <1>41,
       <1>42, <1>43, <1>44, <1>45, <1>46, <1>47, <1>48, <1>49, <1>50, <1>51,
       <1>52, <1>53
     DEF Next, CommandNext, StartCommand, Continue, InstallStep, PlayStep, DeleteStep,
         TransitionStep, StartMain, ContinueMain

\* Starting is set by the step before the spawn and ended by the spawn.
LEMMA StartingStep ==
    ASSUME TypeOK, Plays, Held, Starting, [Next]_vars
    PROVE  Starting'
<1> USE MainAssumption
    DEF TypeOK, MemoryOK, LocalsOK, Plays, Held,
       Starting, Blocks, RegistryLabels, MutatingLabels, vars, launcher, disk, shared,
       locks, locals, Threads, Labels, MainLabels, InstallLabels,
       PlayLabels, DeleteLabels, TransitionLabels
<1>1. ASSUME NEW t \in Workers, CreateInstance(t) PROVE Starting'
  BY <1>1 DEF CreateInstance, Begin, Goto
<1>2. ASSUME NEW t \in Workers, BeginPack(t) PROVE Starting'
  BY <1>2 DEF BeginPack, Begin, Goto
<1>3. ASSUME NEW t \in Workers, RetryInstall(t) PROVE Starting'
  BY <1>3 DEF RetryInstall, Begin, Goto
<1>4. ASSUME NEW t \in Workers, InstallConfiguration(t) PROVE Starting'
  BY <1>4 DEF InstallConfiguration, Begin, Goto
<1>5. ASSUME NEW t \in Workers, ReservePlay(t) PROVE Starting'
  BY <1>5 DEF ReservePlay, Begin, Goto
<1>6. ASSUME NEW t \in Workers, BeginDelete(t) PROVE Starting'
  BY <1>6 DEF BeginDelete, Begin, Goto
<1>7. ASSUME NEW t \in Workers, PreviewTransition(t) PROVE Starting'
  BY <1>7 DEF PreviewTransition, Begin, Goto
<1>8. ASSUME NEW t \in Workers, PersistPin(t) PROVE Starting'
  BY <1>8 DEF PersistPin, Goto, Return
<1>9. ASSUME NEW t \in Workers, InstallFails(t) PROVE Starting'
  BY <1>9 DEF InstallFails, Return
<1>10. ASSUME NEW t \in Workers, StartGameInstall(t) PROVE Starting'
  BY <1>10 DEF StartGameInstall, KeepLocals, Goto, Return
<1>11. ASSUME NEW t \in Workers, StageGame(t) PROVE Starting'
  BY <1>11 DEF StageGame, Step, Goto, KeepLocals
<1>12. ASSUME NEW t \in Workers, StageGameFails(t) PROVE Starting'
  BY <1>12 DEF StageGameFails, Return
<1>13. ASSUME NEW t \in Workers, RetireGame(t) PROVE Starting'
  BY <1>13 DEF RetireGame, Step, Goto
<1>14. ASSUME NEW t \in Workers, PromoteGame(t) PROVE Starting'
  BY <1>14 DEF PromoteGame, Step, Goto, AfterGame
<1>15. ASSUME NEW t \in Workers, PromoteGameFails(t) PROVE Starting'
  BY <1>15 DEF PromoteGameFails, Return
<1>16. ASSUME NEW t \in Workers, InstallAurora(t) PROVE Starting'
  BY <1>16 DEF InstallAurora, Step, Goto, KeepLocals
<1>17. ASSUME NEW t \in Workers, ValidateInstall(t) PROVE Starting'
  BY <1>17 DEF ValidateInstall, KeepLocals, Goto, Return
<1>18. ASSUME NEW t \in Workers, CommitReady(t) PROVE Starting'
  BY <1>18 DEF CommitReady, Step, Goto, KeepLocals
<1>19. ASSUME NEW t \in Workers, CompletePack(t) PROVE Starting'
  BY <1>19 DEF CompletePack, Step, Goto, KeepLocals
<1>20. ASSUME NEW t \in Workers, RollbackPack(t) PROVE Starting'
  BY <1>20 DEF RollbackPack, KeepLocals, Goto, Return
<1>21. ASSUME NEW t \in Workers, AbandonPack(t) PROVE Starting'
  BY <1>21 DEF AbandonPack, Return
<1>22. ASSUME NEW t \in Workers, ReadSelection(t) PROVE Starting'
  BY <1>22 DEF ReadSelection, Goto, Return
<1>23. ASSUME NEW t \in Workers, WriteSelection(t) PROVE Starting'
  BY <1>23 DEF WriteSelection, Return
<1>24. ASSUME NEW t \in Workers, CapturePlay(t) PROVE Starting'
  BY <1>24 DEF CapturePlay, Goto, EndPlay, Return
<1>25. ASSUME NEW t \in Workers, ResolvePlay(t) PROVE Starting'
  BY <1>25 DEF ResolvePlay, KeepLocals, Goto, EndPlay, Return
<1>26. ASSUME NEW t \in Workers, PlayFails(t) PROVE Starting'
  BY <1>26 DEF PlayFails, EndPlay, Return
<1>27. ASSUME NEW t \in Workers, EnterBoundary(t) PROVE Starting'
  BY <1>27 DEF EnterBoundary, KeepLocals, Goto, EndPlay, Return
<1>28. ASSUME NEW t \in Workers, CheckBoundary(t) PROVE Starting'
  BY <1>28 DEF CheckBoundary, KeepLocals, Goto, EndPlay, Return
<1>29. ASSUME NEW t \in Workers, StartProcess(t) PROVE Starting'
  BY <1>29 DEF StartProcess, KeepLocals, Goto, EndPlay, Return
<1>30. ASSUME NEW t \in Workers, SpawnProcess(t) PROVE Starting'
  BY <1>30 DEF SpawnProcess, EndPlay, Return
<1>31. ASSUME NEW t \in Workers, CheckDelete(t) PROVE Starting'
  BY <1>31 DEF CheckDelete, Goto, Release, Return, MayDelete
<1>32. ASSUME NEW t \in Workers, DeleteSelection(t) PROVE Starting'
  BY <1>32 DEF DeleteSelection, Step, Goto, KeepLocals
<1>33. ASSUME NEW t \in Workers, DeleteFiles(t) PROVE Starting'
  BY <1>33 DEF DeleteFiles, Step, Goto, KeepLocals
<1>34. ASSUME NEW t \in Workers, DeleteFilesFails(t) PROVE Starting'
  BY <1>34 DEF DeleteFilesFails, Release, Return
<1>35. ASSUME NEW t \in Workers, DeleteRow(t) PROVE Starting'
  BY <1>35 DEF DeleteRow, Release, Return
<1>36. ASSUME NEW t \in Workers, DeleteFails(t) PROVE Starting'
  BY <1>36 DEF DeleteFails, Release, Return
<1>37. ASSUME NEW t \in Workers, TransitionFails(t) PROVE Starting'
  BY <1>37 DEF TransitionFails, Return
<1>38. ASSUME NEW t \in Workers, LockTransition(t) PROVE Starting'
  BY <1>38 DEF LockTransition, Step, Goto, KeepLocals
<1>39. ASSUME NEW t \in Workers, CheckTransition(t) PROVE Starting'
  BY <1>39 DEF CheckTransition, KeepLocals, Goto, Release, Return
<1>40. ASSUME NEW t \in Workers, ActivateTransition(t) PROVE Starting'
  BY <1>40 DEF ActivateTransition, Step, Goto, KeepLocals
<1>41. ASSUME NEW t \in Workers, PersistTransition(t) PROVE Starting'
  BY <1>41 DEF PersistTransition, Step, Goto, KeepLocals
<1>42. ASSUME NEW t \in Workers, FinishTransition(t) PROVE Starting'
  BY <1>42 DEF FinishTransition, Release, Return
<1>43. ASSUME NEW t \in Workers, RollbackTransition(t) PROVE Starting'
  BY <1>43 DEF RollbackTransition, Release, Return
<1>44. CASE UpdateConfiguration
  BY <1>44 DEF UpdateConfiguration
<1>45. CASE RenameInstance
  BY <1>45 DEF RenameInstance
<1>46. CASE SelectInstance
  BY <1>46 DEF SelectInstance, Begin, Goto
<1>47. CASE LoadPreferences
  BY <1>47 DEF LoadPreferences, Step, Goto
<1>48. CASE LoadSelected
  BY <1>48 DEF LoadSelected, Step, Goto
<1>49. CASE SaveSelected
  BY <1>49 DEF SaveSelected, Return
<1>50. CASE SavePreferences
  BY <1>50 DEF SavePreferences, Return
<1>51. ASSUME NEW i \in Instances, ProcessExits(i) PROVE Starting'
  BY <1>51 DEF ProcessExits
<1>52. CASE Crash
  BY <1>52 DEF Crash, NoneYet, Stopped, Idle, Nothing, NoViews, NoView
<1>53. CASE UNCHANGED vars
  BY <1>53
<1> QED
  BY <1>1, <1>2, <1>3, <1>4, <1>5, <1>6, <1>7, <1>8, <1>9, <1>10, <1>11,
       <1>12, <1>13, <1>14, <1>15, <1>16, <1>17, <1>18, <1>19, <1>20, <1>21,
       <1>22, <1>23, <1>24, <1>25, <1>26, <1>27, <1>28, <1>29, <1>30, <1>31,
       <1>32, <1>33, <1>34, <1>35, <1>36, <1>37, <1>38, <1>39, <1>40, <1>41,
       <1>42, <1>43, <1>44, <1>45, <1>46, <1>47, <1>48, <1>49, <1>50, <1>51,
       <1>52, <1>53
     DEF Next, CommandNext, StartCommand, Continue, InstallStep, PlayStep, DeleteStep,
         TransitionStep, StartMain, ContinueMain

-----------------------------------------------------------------------------
(* The theorems *)

\* Every action of every command preserves the inductive invariant.
LEMMA NextIInv == IInv /\ [Next]_vars => IInv'
<1> SUFFICES ASSUME IInv, [Next]_vars PROVE IInv'
  OBVIOUS
<1>1. TypeOK'
  <2>1. crossed' \in SUBSET Instances
    BY DEF IInv, TypeOK, Next, NoteCrossing, vars
  <2> QED
    BY <2>1, DiskStep, MemoryStep, LocalsStep DEF IInv, TypeOK
<1>2. Held'
  BY HeldStep DEF IInv
<1>3. Frozen'
  BY FrozenStep DEF IInv
<1>4. MutationExcludesGame'
  BY MutationStep DEF IInv
<1>5. Plays'
  BY PlaysStep DEF IInv
<1>6. Starting'
  BY StartingStep DEF IInv
<1> QED
  BY <1>1, <1>2, <1>3, <1>4, <1>5, <1>6 DEF IInv

\* The strengthening the theorems below rest on holds in every behaviour of
\* the commands, crashes included.
THEOREM InductiveInvariant == Spec => []IInv
<1>1. Init => IInv
  BY InitIInv
<1>2. IInv /\ [Next]_vars => IInv'
  BY NextIInv
<1> QED
  BY <1>1, <1>2, PTL DEF Spec

\* Rows, locks, statuses and locals keep their types, and no command runs a
\* step on a record or a configuration it has not loaded.
THEOREM TypeCorrectness == Spec => []TypeOK
<1>1. IInv => TypeOK
  BY DEF IInv
<1> QED
  BY <1>1, InductiveInvariant, PTL

\* Deletion and the Aurora transition never change an instance whose game is
\* starting or running (deletion.rs and transition.rs under lock_stopped).
THEOREM MutationSafety == Spec => []MutationExcludesGame
<1>1. IInv => MutationExcludesGame
  BY DEF IInv
<1> QED
  BY <1>1, InductiveInvariant, PTL

\* An instance has one Play at a time, and Starting is that Play's until it
\* spawns (process.rs, PreparationGuard and spawn_supervised_with_bridge).
THEOREM SingleStart == Spec => []StartingHasOneOwner
<1>1. IInv => StartingHasOneOwner
  BY DEF IInv, Plays, Starting, StartingHasOneOwner, PlayLabels
<1> QED
  BY <1>1, InductiveInvariant, PTL

\* Every return path of every command drops the locks and the reservation the
\* command holds.
THEOREM NoLeaks == Spec => []NothingLeaks
<1>1. IInv => NothingLeaks
  <2> SUFFICES ASSUME IInv PROVE NothingLeaks
    OBVIOUS
  <2>1. ASSUME NEW t \in Threads, pc[t] = "idle"
        PROVE  /\ t \notin {registryLock, processLock}
               /\ \A i \in Instances : t \notin {contentLock[i], installLock[i]}
    <3> USE DEF RegistryLabels, MutatingLabels, ContentLabels, StagingLabels,
                DeleteLabels, TransitionLabels
    <3>1. CASE t \in Workers
      BY <2>1, <3>1 DEF IInv, Held, Threads
    <3>2. CASE t = Main
      BY <2>1, <3>2, NoneAssumption, MainAssumption
      DEF IInv, Held, TypeOK, MemoryOK, Threads
    <3> QED
      BY <3>1, <3>2 DEF Threads
  <2> QED
    BY <2>1 DEF IInv, Plays, NothingLeaks
<1> QED
  BY <1>1, InductiveInvariant, PTL

\* The lock order of the commands (content, then registry, then process)
\* leaves no circular wait between deletion, transition, Play, the installers
\* and the main thread.
THEOREM LockOrder == Spec => []HoldersNeverWait
<1>1. IInv => HoldersNeverWait
  <2> SUFFICES ASSUME IInv PROVE HoldersNeverWait
    OBVIOUS
  <2> USE DEF RegistryLabels, MutatingLabels, AwaitsRegistry, AwaitsProcess
  <2>1. ASSUME registryLock # None
        PROVE  /\ registryLock \in Threads
               /\ pc[registryLock] \in RegistryLabels
    BY <2>1 DEF IInv, Held, TypeOK, MemoryOK
  <2>2. ASSUME processLock # None
        PROVE  /\ processLock \in Workers
               /\ pc[processLock] \in MutatingLabels
    BY <2>2 DEF IInv, Held, TypeOK, MemoryOK
  <2>3. ASSUME processLock # None PROVE registryLock = processLock
    BY <2>2, <2>3 DEF IInv, Held, Threads
  <2> QED
    BY <2>1, <2>2, <2>3 DEF HoldersNeverWait
<1> QED
  BY <1>1, InductiveInvariant, PTL

-----------------------------------------------------------------------------
(* Files and rows: the inductive invariant *)

\* The steps of an installation after its pin is in the registry.
InstallsInto == InstallLabels \ {"resolveConfig"}

\* The steps that run on an instance checked under registry_lock.
CheckedLabels == MutatingLabels \cup {"starting", "spawn"}

HasRow(i, state) == registry[i] # None /\ registry[i].state = state

NoFiles(i) == game[i] = None /\ aurora[i] = None /\ staging[i] = None

\* Where two installations are under way, the instance is crossed.
OneInstaller ==
    \A t, u \in Workers :
        (/\ pc[t] \in InstallLabels /\ pc[u] \in InstallLabels
         /\ target[t] = target[u] /\ target[t] \notin crossed) => t = u

\* An installation works on an installing row.
InstallRows ==
    \A t \in Workers :
        pc[t] \in InstallsInto /\ target[t] \notin crossed =>
            HasRow(target[t], "installing")

\* Deletion, a transition and a launch work on a ready row.
CheckedRows ==
    \A t \in Workers : pc[t] \in CheckedLabels => HasRow(target[t], "ready")

\* Which command an installation step belongs to.
Stages ==
    \A t \in Workers :
        /\ pc[t] = "resolveConfig" => command[t] = "install"
        /\ pc[t] \in {"packContent", "abandonPack"} => command[t] = "pack"
        /\ pc[t] = "installAurora" => command[t] # "pack"

\* A pack installs alone: its row, marked as a modpack, refuses a retry and a
\* reconfiguration.  Until its content is installed the instance has no Aurora
\* and no game of it runs; its staging is consumed before that, and its row
\* goes only after its game.
PackIsAlone ==
    \A t \in Workers :
        /\ pc[t] \in InstallsInto /\ command[t] = "pack" =>
            /\ HasRow(target[t], "installing") /\ registry[target[t]].pack
            /\ \A u \in Workers :
                pc[u] \in InstallLabels /\ target[u] = target[t] => u = t
            /\ aurora[target[t]] = None /\ ~Blocks(process[target[t]])
        /\ pc[t] \in {"packContent", "abandonPack"} => staging[target[t]] = None
        /\ pc[t] = "abandonPack" => game[target[t]] = None

\* What validation found complete is complete at the ready commit.
Validated ==
    \A t \in Workers :
        pc[t] = "commitReady" /\ target[t] \notin crossed =>
            Complete(registry[target[t]], game[target[t]], aurora[target[t]])

\* What the launch boundary validated is what the process starts on.
Bounded ==
    \A t \in Workers :
        pc[t] \in {"starting", "spawn"} /\ target[t] \notin crossed =>
            Ready(target[t])

\* Deletion removes the row last.
Deleted ==
    \A t \in Workers :
        pc[t] = "delRow" /\ target[t] \notin crossed => NoFiles(target[t])

\* An unregistered instance has no game, and no files unless it is crossed.
Absent ==
    \A i \in Instances :
        registry[i] = None =>
            ~Blocks(process[i]) /\ (i \notin crossed => NoFiles(i))

CInv ==
    /\ OneInstaller /\ InstallRows /\ CheckedRows /\ Stages /\ PackIsAlone
    /\ Validated /\ Bounded /\ Deleted /\ Absent

-----------------------------------------------------------------------------
(* What the writes of the registry write *)

\* A creation registers an installing row for an identifier nothing uses.
LEMMA CreationWrites ==
    ASSUME TypeOK, NEW t \in Workers, CreateInstance(t) \/ BeginPack(t)
    PROVE  \E i \in Instances, r \in Records, c \in {"create", "pack"} :
            /\ registry[i] = None /\ NoFiles(i)
            /\ \A s \in Threads : target[s] # i
            /\ r # None /\ r.state = "installing" /\ (c = "pack" => r.pack)
            /\ registry' = [registry EXCEPT ![i] = r]
            /\ pc' = [pc EXCEPT ![t] = "installGame"]
            /\ command' = [command EXCEPT ![t] = c]
            /\ target' = [target EXCEPT ![t] = i]
            /\ UNCHANGED <<game, aurora, staging, process>>
<1>1. CASE CreateInstance(t)
  <2>1. PICK i \in Instances, p \in Pins, n \in Names :
            /\ registry[i] = None /\ game[i] = None
            /\ aurora[i] = None /\ staging[i] = None
            /\ i \notin {target[s] : s \in Threads} \cup {config.selected}
            /\ registry' = [registry EXCEPT ![i] =
                  [state |-> "installing", name |-> n, desired |-> p,
                   installed |-> p, pack |-> FALSE]]
            /\ pc' = [pc EXCEPT ![t] = "installGame"]
            /\ command' = [command EXCEPT ![t] = "create"]
            /\ target' = [target EXCEPT ![t] = i]
    BY <1>1 DEF CreateInstance, Begin, Goto
  <2> DEFINE r == [state |-> "installing", name |-> n, desired |-> p,
                   installed |-> p, pack |-> FALSE]
  <2>2. r \in Records
    BY DEF Records
  <2>3. r # None /\ r.state = "installing" /\ r.pack = FALSE
    BY <2>2, NoneIsNoRecord
  <2>4. registry' = [registry EXCEPT ![i] = r]
    BY <2>1
  <2>5. UNCHANGED <<game, aurora, staging, process>>
    BY <1>1 DEF CreateInstance, shared
  <2> HIDE DEF r
  <2> QED
    BY <2>1, <2>2, <2>3, <2>4, <2>5 DEF NoFiles
<1>2. CASE BeginPack(t)
  <2>1. PICK i \in Instances, v \in Versions, n \in Names :
            /\ registry[i] = None /\ game[i] = None
            /\ aurora[i] = None /\ staging[i] = None
            /\ i \notin {target[s] : s \in Threads} \cup {config.selected}
            /\ registry' = [registry EXCEPT ![i] =
                  [state |-> "installing", name |-> n,
                   desired |-> [version |-> v, aurora |-> FALSE],
                   installed |-> [version |-> v, aurora |-> FALSE],
                   pack |-> TRUE]]
            /\ pc' = [pc EXCEPT ![t] = "installGame"]
            /\ command' = [command EXCEPT ![t] = "pack"]
            /\ target' = [target EXCEPT ![t] = i]
    BY <1>2 DEF BeginPack, Begin, Goto
  <2> DEFINE p == [version |-> v, aurora |-> FALSE]
             r == [state |-> "installing", name |-> n, desired |-> p,
                   installed |-> p, pack |-> TRUE]
  <2>2. r \in Records
    <3>1. p \in Pins
      BY DEF Pins
    <3> HIDE DEF p
    <3> QED
      BY <3>1 DEF Records
  <2>3. r # None /\ r.state = "installing" /\ r.pack = TRUE
    BY <2>2, NoneIsNoRecord
  <2>4. registry' = [registry EXCEPT ![i] = r]
    BY <2>1
  <2>5. UNCHANGED <<game, aurora, staging, process>>
    BY <1>2 DEF BeginPack, shared
  <2> HIDE DEF r, p
  <2> QED
    BY <2>1, <2>2, <2>3, <2>4, <2>5 DEF NoFiles
<1> QED
  BY <1>1, <1>2

\* A new pin turns the row it is written into an installing one.
LEMMA PinWrites ==
    ASSUME TypeOK, NEW t \in Workers, PersistPin(t), registry[target[t]] # None
    PROVE  \E r \in Records :
            /\ r # None /\ r.state = "installing"
            /\ registry' = [registry EXCEPT ![target[t]] = r]
<1> DEFINE pinned == [registry[target[t]] EXCEPT !.installed = record[t].desired,
                                                 !.state = "installing"]
<1>1. registry[target[t]] \in Records /\ record[t] \in Records
  BY MainAssumption
     DEF TypeOK, DiskOK, LocalsOK, PersistPin, RecordLabels, InstallLabels, Threads
<1>2. pinned \in Records /\ pinned.state = "installing"
  BY <1>1 DEF Records
<1>3. registry' = [registry EXCEPT ![target[t]] = pinned]
  BY DEF PersistPin
<1> HIDE DEF pinned
<1> QED
  BY <1>2, <1>3, NoneIsNoRecord

\* A transition writes a row that stays ready.
LEMMA TransitionWrites ==
    ASSUME TypeOK, CheckedRows, NEW t \in Workers, PersistTransition(t)
    PROVE  \E r \in Records :
            /\ r # None /\ r.state = "ready"
            /\ registry' = [registry EXCEPT ![target[t]] = r]
<1> DEFINE pin == Toggled(record[t].installed)
           updated == [registry[target[t]] EXCEPT !.desired = pin,
                                                  !.installed = pin]
<1>1. registry[target[t]] \in Records /\ registry[target[t]].state = "ready"
  BY MainAssumption
     DEF TypeOK, DiskOK, LocalsOK, PersistTransition, Step, CheckedRows, HasRow,
         CheckedLabels, MutatingLabels, Threads
<1>2. record[t] \in Records
  BY MainAssumption
     DEF TypeOK, LocalsOK, PersistTransition, Step, RecordLabels,
         TransitionLabels, Threads
<1>3. pin \in Pins
  BY <1>2 DEF Records, Pins, Toggled
<1> HIDE DEF pin
<1>4. updated \in Records /\ updated.state = "ready"
  BY <1>1, <1>3 DEF Records
<1>5. registry' = [registry EXCEPT ![target[t]] = updated]
  BY DEF PersistTransition, pin
<1> HIDE DEF updated
<1> QED
  BY <1>4, <1>5, NoneIsNoRecord

\* A commit keeps the row and makes it ready.
LEMMA ReadyWrites ==
    ASSUME TypeOK, NEW t \in Workers, CommitReady(t) \/ CompletePack(t),
           registry[target[t]] # None
    PROVE  \E r \in Records :
            /\ r # None /\ r.state = "ready"
            /\ r.desired = registry[target[t]].desired
            /\ r.installed = registry[target[t]].installed
            /\ registry' = [registry EXCEPT ![target[t]] = r]
<1> DEFINE row == [registry[target[t]] EXCEPT !.state = "ready"]
<1>1. registry[target[t]] \in Records
  BY MainAssumption
     DEF TypeOK, DiskOK, LocalsOK, CommitReady, CompletePack, Step, Threads
<1>2. /\ row \in Records /\ row.state = "ready"
      /\ row.desired = registry[target[t]].desired
      /\ row.installed = registry[target[t]].installed
  BY <1>1 DEF Records
<1>3. registry' = [registry EXCEPT ![target[t]] = row]
  BY <1>1, NoneIsNoRecord DEF CommitReady, CompletePack
<1> HIDE DEF row
<1> QED
  BY <1>2, <1>3, NoneIsNoRecord

\* A rename and a new wish keep the state of the row and its pin; a rename
\* also keeps the wish.
LEMMA WishWrites ==
    ASSUME TypeOK, RenameInstance \/ UpdateConfiguration
    PROVE  \E i \in Instances, r \in Records :
            /\ registry[i] # None /\ registryLock = None
            /\ r # None /\ r.state = registry[i].state
            /\ r.installed = registry[i].installed /\ r.pack = registry[i].pack
            /\ r.desired = registry[i].desired \/ r.state = "ready"
            /\ registry' = [registry EXCEPT ![i] = r]
<1>1. CASE RenameInstance
  <2>1. PICK i \in Instances, n \in Names :
            /\ registry[i] # None
            /\ registry' = [registry EXCEPT ![i].name = n]
    BY <1>1 DEF RenameInstance
  <2> DEFINE renamed == [registry[i] EXCEPT !.name = n]
  <2>2. registry[i] \in Records
    BY <2>1 DEF TypeOK, DiskOK
  <2>3. /\ renamed \in Records /\ renamed.state = registry[i].state
        /\ renamed.installed = registry[i].installed
        /\ renamed.desired = registry[i].desired
        /\ renamed.pack = registry[i].pack
    BY <2>2 DEF Records
  <2>4. registry' = [registry EXCEPT ![i] = renamed]
    BY <2>1
  <2>5. registryLock = None
    BY <1>1 DEF RenameInstance
  <2> HIDE DEF renamed
  <2> QED
    BY <2>1, <2>3, <2>4, <2>5, NoneIsNoRecord
<1>2. CASE UpdateConfiguration
  <2>1. PICK i \in Instances, p \in Pins :
            /\ registry[i] # None /\ registry[i].state = "ready"
            /\ registryLock = None
            /\ registry' = [registry EXCEPT ![i].desired = p]
    BY <1>2 DEF UpdateConfiguration
  <2> DEFINE wished == [registry[i] EXCEPT !.desired = p]
  <2>2. registry[i] \in Records
    BY <2>1 DEF TypeOK, DiskOK
  <2>3. /\ wished \in Records /\ wished.state = "ready"
        /\ wished.installed = registry[i].installed
        /\ wished.pack = registry[i].pack
    BY <2>1, <2>2 DEF Records
  <2>4. registry' = [registry EXCEPT ![i] = wished]
    BY <2>1
  <2> HIDE DEF wished
  <2> QED
    BY <2>1, <2>3, <2>4, NoneIsNoRecord
<1> QED
  BY <1>1, <1>2

-----------------------------------------------------------------------------
(* Every step preserves each part of CInv *)

\* A command still at work keeps its instance crossed.
Kept == \A t \in Workers : target'[t] \in crossed => target'[t] \in crossed'

\* An instance that is no longer crossed has its row, or nothing left.
Cleared ==
    \A i \in Instances :
        i \in crossed /\ i \notin crossed' /\ registry'[i] = None => NoFiles(i)'

\* The history variable follows the commands: an overlap is noted when it
\* begins, and forgotten only when nothing works on the instance.
LEMMA CrossingStep ==
    ASSUME TypeOK, TypeOK', OneInstaller, [Next]_vars
    PROVE  OneInstaller' /\ Kept /\ Cleared
<1>1. CASE NoteCrossing
  <2>1. Kept
    BY <1>1 DEF Kept, NoteCrossing, Settled, TypeOK
  <2>2. Cleared
    BY <1>1 DEF Cleared, NoteCrossing, Settled, NoFiles
  <2>3. ASSUME NEW t \in Workers, NEW u \in Workers, t # u,
               pc'[t] \in InstallLabels, pc'[u] \in InstallLabels,
               target'[t] = target'[u]
        PROVE  target'[t] \in crossed'
    <3>1. PICK i \in Instances : target'[t] = i
      BY <2>3 DEF TypeOK, LocalsOK, Threads, InstallLabels
    <3>2. Overlapping(i)'
      BY <2>3, <3>1 DEF Overlapping
    <3>3. ~Settled(i)'
      BY <3>1 DEF Settled
    <3> QED
      BY <1>1, <3>1, <3>2, <3>3 DEF NoteCrossing
  <2> QED
    BY <2>1, <2>2, <2>3 DEF OneInstaller
<1>2. CASE UNCHANGED vars
  BY <1>2 DEF vars, launcher, disk, locals, OneInstaller, Kept, Cleared
<1> QED
  BY <1>1, <1>2 DEF Next

\* Rows change under registry_lock, and nobody takes the row of another's
\* command out of the state it works under.
LEMMA RowStep ==
    ASSUME TypeOK, Held, OneInstaller, InstallRows, CheckedRows, Kept,
         [Next]_vars
    PROVE  InstallRows' /\ CheckedRows'
<1> USE NoneAssumption, MainAssumption DEF TypeOK, MemoryOK, LocalsOK,
     DiskOK, Records, Held, OneInstaller, InstallRows, CheckedRows, Kept, HasRow,
     InstallsInto, CheckedLabels, RegistryLabels, MutatingLabels, vars, launcher, disk,
     shared, locks, locals, Threads, Labels, MainLabels, InstallLabels,
     PlayLabels, DeleteLabels, TransitionLabels
<1>1. ASSUME NEW t \in Workers, CreateInstance(t) PROVE InstallRows' /\ CheckedRows'
  BY <1>1, CreationWrites
<1>2. ASSUME NEW t \in Workers, BeginPack(t) PROVE InstallRows' /\ CheckedRows'
  BY <1>2, CreationWrites
<1>3. ASSUME NEW t \in Workers, RetryInstall(t) PROVE InstallRows' /\ CheckedRows'
  BY <1>3 DEF RetryInstall, Begin, Goto
<1>4. ASSUME NEW t \in Workers, InstallConfiguration(t) PROVE InstallRows' /\ CheckedRows'
  BY <1>4 DEF InstallConfiguration, Begin, Goto
<1>5. ASSUME NEW t \in Workers, ReservePlay(t) PROVE InstallRows' /\ CheckedRows'
  BY <1>5 DEF ReservePlay, Begin, Goto
<1>6. ASSUME NEW t \in Workers, BeginDelete(t) PROVE InstallRows' /\ CheckedRows'
  BY <1>6 DEF BeginDelete, Begin, Goto
<1>7. ASSUME NEW t \in Workers, PreviewTransition(t) PROVE InstallRows' /\ CheckedRows'
  BY <1>7 DEF PreviewTransition, Begin, Goto
<1>8. ASSUME NEW t \in Workers, PersistPin(t) PROVE InstallRows' /\ CheckedRows'
  <2>1. CASE registry[target[t]] = None
    BY <1>8, <2>1 DEF PersistPin, Goto, Return
  <2>2. CASE registry[target[t]] # None
    <3>1. PICK r \in Records :
            /\ r # None /\ r.state = "installing"
            /\ registry' = [registry EXCEPT ![target[t]] = r]
      BY <1>8, <2>2, PinWrites
    <3> QED
      BY <1>8, <2>2, <3>1 DEF PersistPin, Goto, Return
  <2> QED
    BY <2>1, <2>2
<1>9. ASSUME NEW t \in Workers, InstallFails(t) PROVE InstallRows' /\ CheckedRows'
  BY <1>9 DEF InstallFails, Return
<1>10. ASSUME NEW t \in Workers, StartGameInstall(t) PROVE InstallRows' /\ CheckedRows'
  BY <1>10 DEF StartGameInstall, KeepLocals, Goto, Return
<1>11. ASSUME NEW t \in Workers, StageGame(t) PROVE InstallRows' /\ CheckedRows'
  BY <1>11 DEF StageGame, Step, Goto, KeepLocals
<1>12. ASSUME NEW t \in Workers, StageGameFails(t) PROVE InstallRows' /\ CheckedRows'
  BY <1>12 DEF StageGameFails, Return
<1>13. ASSUME NEW t \in Workers, RetireGame(t) PROVE InstallRows' /\ CheckedRows'
  BY <1>13 DEF RetireGame, Step, Goto
<1>14. ASSUME NEW t \in Workers, PromoteGame(t) PROVE InstallRows' /\ CheckedRows'
  BY <1>14 DEF PromoteGame, Step, Goto, AfterGame
<1>15. ASSUME NEW t \in Workers, PromoteGameFails(t) PROVE InstallRows' /\ CheckedRows'
  BY <1>15 DEF PromoteGameFails, Return
<1>16. ASSUME NEW t \in Workers, InstallAurora(t) PROVE InstallRows' /\ CheckedRows'
  BY <1>16 DEF InstallAurora, Step, Goto, KeepLocals
<1>17. ASSUME NEW t \in Workers, ValidateInstall(t) PROVE InstallRows' /\ CheckedRows'
  BY <1>17 DEF ValidateInstall, KeepLocals, Goto, Return
<1>18. ASSUME NEW t \in Workers, CommitReady(t) PROVE InstallRows' /\ CheckedRows'
  BY <1>18 DEF CommitReady, Step, Goto, KeepLocals
<1>19. ASSUME NEW t \in Workers, CompletePack(t) PROVE InstallRows' /\ CheckedRows'
  BY <1>19 DEF CompletePack, Step, Goto, KeepLocals
<1>20. ASSUME NEW t \in Workers, RollbackPack(t) PROVE InstallRows' /\ CheckedRows'
  BY <1>20 DEF RollbackPack, KeepLocals, Goto, Return
<1>21. ASSUME NEW t \in Workers, AbandonPack(t) PROVE InstallRows' /\ CheckedRows'
  BY <1>21 DEF AbandonPack, Return
<1>22. ASSUME NEW t \in Workers, ReadSelection(t) PROVE InstallRows' /\ CheckedRows'
  BY <1>22 DEF ReadSelection, Goto, Return
<1>23. ASSUME NEW t \in Workers, WriteSelection(t) PROVE InstallRows' /\ CheckedRows'
  BY <1>23 DEF WriteSelection, Return
<1>24. ASSUME NEW t \in Workers, CapturePlay(t) PROVE InstallRows' /\ CheckedRows'
  BY <1>24 DEF CapturePlay, Goto, EndPlay, Return
<1>25. ASSUME NEW t \in Workers, ResolvePlay(t) PROVE InstallRows' /\ CheckedRows'
  BY <1>25 DEF ResolvePlay, KeepLocals, Goto, EndPlay, Return
<1>26. ASSUME NEW t \in Workers, PlayFails(t) PROVE InstallRows' /\ CheckedRows'
  BY <1>26 DEF PlayFails, EndPlay, Return
<1>27. ASSUME NEW t \in Workers, EnterBoundary(t) PROVE InstallRows' /\ CheckedRows'
  BY <1>27 DEF EnterBoundary, KeepLocals, Goto, EndPlay, Return
<1>28. ASSUME NEW t \in Workers, CheckBoundary(t) PROVE InstallRows' /\ CheckedRows'
  BY <1>28 DEF CheckBoundary, KeepLocals, Goto, EndPlay, Return,
       BoundaryHolds, Ready
<1>29. ASSUME NEW t \in Workers, StartProcess(t) PROVE InstallRows' /\ CheckedRows'
  BY <1>29 DEF StartProcess, KeepLocals, Goto, EndPlay, Return
<1>30. ASSUME NEW t \in Workers, SpawnProcess(t) PROVE InstallRows' /\ CheckedRows'
  BY <1>30 DEF SpawnProcess, EndPlay, Return
<1>31. ASSUME NEW t \in Workers, CheckDelete(t) PROVE InstallRows' /\ CheckedRows'
  BY <1>31 DEF CheckDelete, Goto, Release, Return, MayDelete
<1>32. ASSUME NEW t \in Workers, DeleteSelection(t) PROVE InstallRows' /\ CheckedRows'
  BY <1>32 DEF DeleteSelection, Step, Goto, KeepLocals
<1>33. ASSUME NEW t \in Workers, DeleteFiles(t) PROVE InstallRows' /\ CheckedRows'
  BY <1>33 DEF DeleteFiles, Step, Goto, KeepLocals
<1>34. ASSUME NEW t \in Workers, DeleteFilesFails(t) PROVE InstallRows' /\ CheckedRows'
  BY <1>34 DEF DeleteFilesFails, Release, Return
<1>35. ASSUME NEW t \in Workers, DeleteRow(t) PROVE InstallRows' /\ CheckedRows'
  BY <1>35 DEF DeleteRow, Release, Return
<1>36. ASSUME NEW t \in Workers, DeleteFails(t) PROVE InstallRows' /\ CheckedRows'
  BY <1>36 DEF DeleteFails, Release, Return
<1>37. ASSUME NEW t \in Workers, TransitionFails(t) PROVE InstallRows' /\ CheckedRows'
  BY <1>37 DEF TransitionFails, Return
<1>38. ASSUME NEW t \in Workers, LockTransition(t) PROVE InstallRows' /\ CheckedRows'
  BY <1>38 DEF LockTransition, Step, Goto, KeepLocals
<1>39. ASSUME NEW t \in Workers, CheckTransition(t) PROVE InstallRows' /\ CheckedRows'
  BY <1>39 DEF CheckTransition, KeepLocals, Goto, Release, Return,
       TransitionApproved, Ready
<1>40. ASSUME NEW t \in Workers, ActivateTransition(t) PROVE InstallRows' /\ CheckedRows'
  BY <1>40 DEF ActivateTransition, Step, Goto, KeepLocals
<1>41. ASSUME NEW t \in Workers, PersistTransition(t) PROVE InstallRows' /\ CheckedRows'
  <2>1. PICK r \in Records :
            /\ r # None /\ r.state = "ready"
            /\ registry' = [registry EXCEPT ![target[t]] = r]
    BY <1>41, TransitionWrites
  <2> QED
    BY <1>41, <2>1 DEF PersistTransition, Step, Goto, KeepLocals
<1>42. ASSUME NEW t \in Workers, FinishTransition(t) PROVE InstallRows' /\ CheckedRows'
  BY <1>42 DEF FinishTransition, Release, Return
<1>43. ASSUME NEW t \in Workers, RollbackTransition(t) PROVE InstallRows' /\ CheckedRows'
  BY <1>43 DEF RollbackTransition, Release, Return
<1>44. CASE UpdateConfiguration
  BY <1>44 DEF UpdateConfiguration
<1>45. CASE RenameInstance
  <2>1. PICK i \in Instances, r \in Records :
            /\ registry[i] # None /\ registryLock = None
            /\ r # None /\ r.state = registry[i].state
            /\ r.installed = registry[i].installed /\ r.pack = registry[i].pack
            /\ r.desired = registry[i].desired \/ r.state = "ready"
            /\ registry' = [registry EXCEPT ![i] = r]
    BY <1>45, WishWrites
  <2> QED
    BY <1>45, <2>1 DEF RenameInstance
<1>46. CASE SelectInstance
  BY <1>46 DEF SelectInstance, Begin, Goto
<1>47. CASE LoadPreferences
  BY <1>47 DEF LoadPreferences, Step, Goto
<1>48. CASE LoadSelected
  BY <1>48 DEF LoadSelected, Step, Goto
<1>49. CASE SaveSelected
  BY <1>49 DEF SaveSelected, Return
<1>50. CASE SavePreferences
  BY <1>50 DEF SavePreferences, Return
<1>51. ASSUME NEW i \in Instances, ProcessExits(i) PROVE InstallRows' /\ CheckedRows'
  BY <1>51 DEF ProcessExits
<1>52. CASE Crash
  BY <1>52 DEF Crash, NoneYet, Stopped, Idle, Nothing, NoViews, NoView
<1>53. CASE UNCHANGED vars
  BY <1>53
<1> QED
  BY <1>1, <1>2, <1>3, <1>4, <1>5, <1>6, <1>7, <1>8, <1>9, <1>10, <1>11,
       <1>12, <1>13, <1>14, <1>15, <1>16, <1>17, <1>18, <1>19, <1>20, <1>21,
       <1>22, <1>23, <1>24, <1>25, <1>26, <1>27, <1>28, <1>29, <1>30, <1>31,
       <1>32, <1>33, <1>34, <1>35, <1>36, <1>37, <1>38, <1>39, <1>40, <1>41,
       <1>42, <1>43, <1>44, <1>45, <1>46, <1>47, <1>48, <1>49, <1>50, <1>51,
       <1>52, <1>53 DEF Next, CommandNext, StartCommand, Continue, InstallStep, PlayStep,
       DeleteStep, TransitionStep, StartMain, ContinueMain

\* A pack installs into an instance that is its own: nothing else installs
\* there, no transition touches it and no game of it starts.
LEMMA PackStep ==
    ASSUME TypeOK, Held, CheckedRows, Stages, PackIsAlone, Absent, [Next]_vars
    PROVE  Stages' /\ PackIsAlone'
<1> USE NoneAssumption, MainAssumption DEF TypeOK, MemoryOK, LocalsOK,
     DiskOK, Held, CheckedRows, HasRow,
     InstallsInto, CheckedLabels, RegistryLabels, MutatingLabels, Stages,
     PackIsAlone, Blocks, vars, launcher, disk, shared, locks, locals, Threads, Labels,
     MainLabels, InstallLabels, PlayLabels, DeleteLabels, TransitionLabels
<1>1. ASSUME NEW t \in Workers, CreateInstance(t) PROVE Stages' /\ PackIsAlone'
  <2>1. PICK i \in Instances, r \in Records, c \in {"create", "pack"} :
            /\ registry[i] = None /\ NoFiles(i)
            /\ \A s \in Threads : target[s] # i
            /\ r # None /\ r.state = "installing" /\ (c = "pack" => r.pack)
            /\ registry' = [registry EXCEPT ![i] = r]
            /\ pc' = [pc EXCEPT ![t] = "installGame"]
            /\ command' = [command EXCEPT ![t] = c]
            /\ target' = [target EXCEPT ![t] = i]
            /\ UNCHANGED <<game, aurora, staging, process>>
    BY <1>1, CreationWrites
  <2>2. aurora[i] = None /\ ~Blocks(process[i])
    BY <2>1 DEF Absent, NoFiles
  <2> QED
    BY <2>1, <2>2
<1>2. ASSUME NEW t \in Workers, BeginPack(t) PROVE Stages' /\ PackIsAlone'
  <2>1. PICK i \in Instances, r \in Records, c \in {"create", "pack"} :
            /\ registry[i] = None /\ NoFiles(i)
            /\ \A s \in Threads : target[s] # i
            /\ r # None /\ r.state = "installing" /\ (c = "pack" => r.pack)
            /\ registry' = [registry EXCEPT ![i] = r]
            /\ pc' = [pc EXCEPT ![t] = "installGame"]
            /\ command' = [command EXCEPT ![t] = c]
            /\ target' = [target EXCEPT ![t] = i]
            /\ UNCHANGED <<game, aurora, staging, process>>
    BY <1>2, CreationWrites
  <2>2. aurora[i] = None /\ ~Blocks(process[i])
    BY <2>1 DEF Absent, NoFiles
  <2> QED
    BY <2>1, <2>2
<1>3. ASSUME NEW t \in Workers, RetryInstall(t) PROVE Stages' /\ PackIsAlone'
  BY <1>3 DEF RetryInstall, Begin, Goto
<1>4. ASSUME NEW t \in Workers, InstallConfiguration(t) PROVE Stages' /\ PackIsAlone'
  BY <1>4 DEF InstallConfiguration, Begin, Goto
<1>5. ASSUME NEW t \in Workers, ReservePlay(t) PROVE Stages' /\ PackIsAlone'
  BY <1>5 DEF ReservePlay, Begin, Goto
<1>6. ASSUME NEW t \in Workers, BeginDelete(t) PROVE Stages' /\ PackIsAlone'
  BY <1>6 DEF BeginDelete, Begin, Goto
<1>7. ASSUME NEW t \in Workers, PreviewTransition(t) PROVE Stages' /\ PackIsAlone'
  BY <1>7 DEF PreviewTransition, Begin, Goto
<1>8. ASSUME NEW t \in Workers, PersistPin(t) PROVE Stages' /\ PackIsAlone'
  BY <1>8 DEF PersistPin, Goto, Return
<1>9. ASSUME NEW t \in Workers, InstallFails(t) PROVE Stages' /\ PackIsAlone'
  BY <1>9 DEF InstallFails, Return
<1>10. ASSUME NEW t \in Workers, StartGameInstall(t) PROVE Stages' /\ PackIsAlone'
  BY <1>10 DEF StartGameInstall, KeepLocals, Goto, Return
<1>11. ASSUME NEW t \in Workers, StageGame(t) PROVE Stages' /\ PackIsAlone'
  BY <1>11 DEF StageGame, Step, Goto, KeepLocals
<1>12. ASSUME NEW t \in Workers, StageGameFails(t) PROVE Stages' /\ PackIsAlone'
  BY <1>12 DEF StageGameFails, Return
<1>13. ASSUME NEW t \in Workers, RetireGame(t) PROVE Stages' /\ PackIsAlone'
  BY <1>13 DEF RetireGame, Step, Goto
<1>14. ASSUME NEW t \in Workers, PromoteGame(t) PROVE Stages' /\ PackIsAlone'
  BY <1>14 DEF PromoteGame, Step, Goto, AfterGame
<1>15. ASSUME NEW t \in Workers, PromoteGameFails(t) PROVE Stages' /\ PackIsAlone'
  BY <1>15 DEF PromoteGameFails, Return
<1>16. ASSUME NEW t \in Workers, InstallAurora(t) PROVE Stages' /\ PackIsAlone'
  BY <1>16 DEF InstallAurora, Step, Goto, KeepLocals
<1>17. ASSUME NEW t \in Workers, ValidateInstall(t) PROVE Stages' /\ PackIsAlone'
  BY <1>17 DEF ValidateInstall, KeepLocals, Goto, Return
<1>18. ASSUME NEW t \in Workers, CommitReady(t) PROVE Stages' /\ PackIsAlone'
  BY <1>18 DEF CommitReady, Step, Goto, KeepLocals
<1>19. ASSUME NEW t \in Workers, CompletePack(t) PROVE Stages' /\ PackIsAlone'
  BY <1>19 DEF CompletePack, Step, Goto, KeepLocals
<1>20. ASSUME NEW t \in Workers, RollbackPack(t) PROVE Stages' /\ PackIsAlone'
  BY <1>20 DEF RollbackPack, KeepLocals, Goto, Return
<1>21. ASSUME NEW t \in Workers, AbandonPack(t) PROVE Stages' /\ PackIsAlone'
  BY <1>21 DEF AbandonPack, Return
<1>22. ASSUME NEW t \in Workers, ReadSelection(t) PROVE Stages' /\ PackIsAlone'
  BY <1>22 DEF ReadSelection, Goto, Return
<1>23. ASSUME NEW t \in Workers, WriteSelection(t) PROVE Stages' /\ PackIsAlone'
  BY <1>23 DEF WriteSelection, Return
<1>24. ASSUME NEW t \in Workers, CapturePlay(t) PROVE Stages' /\ PackIsAlone'
  BY <1>24 DEF CapturePlay, Goto, EndPlay, Return
<1>25. ASSUME NEW t \in Workers, ResolvePlay(t) PROVE Stages' /\ PackIsAlone'
  BY <1>25 DEF ResolvePlay, KeepLocals, Goto, EndPlay, Return
<1>26. ASSUME NEW t \in Workers, PlayFails(t) PROVE Stages' /\ PackIsAlone'
  BY <1>26 DEF PlayFails, EndPlay, Return
<1>27. ASSUME NEW t \in Workers, EnterBoundary(t) PROVE Stages' /\ PackIsAlone'
  BY <1>27 DEF EnterBoundary, KeepLocals, Goto, EndPlay, Return
<1>28. ASSUME NEW t \in Workers, CheckBoundary(t) PROVE Stages' /\ PackIsAlone'
  BY <1>28 DEF CheckBoundary, KeepLocals, Goto, EndPlay, Return
<1>29. ASSUME NEW t \in Workers, StartProcess(t) PROVE Stages' /\ PackIsAlone'
  BY <1>29 DEF StartProcess, KeepLocals, Goto, EndPlay, Return
<1>30. ASSUME NEW t \in Workers, SpawnProcess(t) PROVE Stages' /\ PackIsAlone'
  BY <1>30 DEF SpawnProcess, EndPlay, Return
<1>31. ASSUME NEW t \in Workers, CheckDelete(t) PROVE Stages' /\ PackIsAlone'
  BY <1>31 DEF CheckDelete, Goto, Release, Return, MayDelete
<1>32. ASSUME NEW t \in Workers, DeleteSelection(t) PROVE Stages' /\ PackIsAlone'
  BY <1>32 DEF DeleteSelection, Step, Goto, KeepLocals
<1>33. ASSUME NEW t \in Workers, DeleteFiles(t) PROVE Stages' /\ PackIsAlone'
  BY <1>33 DEF DeleteFiles, Step, Goto, KeepLocals
<1>34. ASSUME NEW t \in Workers, DeleteFilesFails(t) PROVE Stages' /\ PackIsAlone'
  BY <1>34 DEF DeleteFilesFails, Release, Return
<1>35. ASSUME NEW t \in Workers, DeleteRow(t) PROVE Stages' /\ PackIsAlone'
  BY <1>35 DEF DeleteRow, Release, Return
<1>36. ASSUME NEW t \in Workers, DeleteFails(t) PROVE Stages' /\ PackIsAlone'
  BY <1>36 DEF DeleteFails, Release, Return
<1>37. ASSUME NEW t \in Workers, TransitionFails(t) PROVE Stages' /\ PackIsAlone'
  BY <1>37 DEF TransitionFails, Return
<1>38. ASSUME NEW t \in Workers, LockTransition(t) PROVE Stages' /\ PackIsAlone'
  BY <1>38 DEF LockTransition, Step, Goto, KeepLocals
<1>39. ASSUME NEW t \in Workers, CheckTransition(t) PROVE Stages' /\ PackIsAlone'
  BY <1>39 DEF CheckTransition, KeepLocals, Goto, Release, Return,
       TransitionApproved
<1>40. ASSUME NEW t \in Workers, ActivateTransition(t) PROVE Stages' /\ PackIsAlone'
  BY <1>40 DEF ActivateTransition, Step, Goto, KeepLocals
<1>41. ASSUME NEW t \in Workers, PersistTransition(t) PROVE Stages' /\ PackIsAlone'
  BY <1>41 DEF PersistTransition, Step, Goto, KeepLocals
<1>42. ASSUME NEW t \in Workers, FinishTransition(t) PROVE Stages' /\ PackIsAlone'
  BY <1>42 DEF FinishTransition, Release, Return
<1>43. ASSUME NEW t \in Workers, RollbackTransition(t) PROVE Stages' /\ PackIsAlone'
  BY <1>43 DEF RollbackTransition, Release, Return
<1>44. CASE UpdateConfiguration
  BY <1>44 DEF UpdateConfiguration
<1>45. CASE RenameInstance
  <2>1. PICK i \in Instances, r \in Records :
            /\ registry[i] # None /\ registryLock = None
            /\ r # None /\ r.state = registry[i].state
            /\ r.installed = registry[i].installed /\ r.pack = registry[i].pack
            /\ r.desired = registry[i].desired \/ r.state = "ready"
            /\ registry' = [registry EXCEPT ![i] = r]
    BY <1>45, WishWrites
  <2> QED
    BY <1>45, <2>1 DEF RenameInstance
<1>46. CASE SelectInstance
  BY <1>46 DEF SelectInstance, Begin, Goto
<1>47. CASE LoadPreferences
  BY <1>47 DEF LoadPreferences, Step, Goto
<1>48. CASE LoadSelected
  BY <1>48 DEF LoadSelected, Step, Goto
<1>49. CASE SaveSelected
  BY <1>49 DEF SaveSelected, Return
<1>50. CASE SavePreferences
  BY <1>50 DEF SavePreferences, Return
<1>51. ASSUME NEW i \in Instances, ProcessExits(i) PROVE Stages' /\ PackIsAlone'
  BY <1>51 DEF ProcessExits
<1>52. CASE Crash
  BY <1>52 DEF Crash, NoneYet, Stopped, Idle, Nothing, NoViews, NoView
<1>53. CASE UNCHANGED vars
  BY <1>53
<1> QED
  BY <1>1, <1>2, <1>3, <1>4, <1>5, <1>6, <1>7, <1>8, <1>9, <1>10, <1>11,
       <1>12, <1>13, <1>14, <1>15, <1>16, <1>17, <1>18, <1>19, <1>20, <1>21,
       <1>22, <1>23, <1>24, <1>25, <1>26, <1>27, <1>28, <1>29, <1>30, <1>31,
       <1>32, <1>33, <1>34, <1>35, <1>36, <1>37, <1>38, <1>39, <1>40, <1>41,
       <1>42, <1>43, <1>44, <1>45, <1>46, <1>47, <1>48, <1>49, <1>50, <1>51,
       <1>52, <1>53 DEF Next, CommandNext, StartCommand, Continue, InstallStep, PlayStep,
       DeleteStep, TransitionStep, StartMain, ContinueMain

\* What was validated for the ready commit, and what the launch boundary
\* validated, stays complete until it is used.
LEMMA CompleteStep ==
    ASSUME TypeOK, Held, OneInstaller, InstallRows, CheckedRows, Stages,
         Validated, Bounded, Kept, [Next]_vars
    PROVE  Validated' /\ Bounded'
<1> USE NoneAssumption, MainAssumption DEF TypeOK, MemoryOK, LocalsOK,
     DiskOK, Held, OneInstaller, InstallRows, CheckedRows, HasRow,
     InstallsInto, CheckedLabels, RegistryLabels, MutatingLabels, Validated,
     Kept, Bounded, Ready, Complete, vars, launcher, disk, shared, locks, locals, Threads,
     Labels, MainLabels, InstallLabels, PlayLabels, DeleteLabels,
     TransitionLabels
<1>1. ASSUME NEW t \in Workers, CreateInstance(t) PROVE Validated' /\ Bounded'
  BY <1>1, CreationWrites
<1>2. ASSUME NEW t \in Workers, BeginPack(t) PROVE Validated' /\ Bounded'
  BY <1>2, CreationWrites
<1>3. ASSUME NEW t \in Workers, RetryInstall(t) PROVE Validated' /\ Bounded'
  BY <1>3 DEF RetryInstall, Begin, Goto
<1>4. ASSUME NEW t \in Workers, InstallConfiguration(t) PROVE Validated' /\ Bounded'
  BY <1>4 DEF InstallConfiguration, Begin, Goto
<1>5. ASSUME NEW t \in Workers, ReservePlay(t) PROVE Validated' /\ Bounded'
  BY <1>5 DEF ReservePlay, Begin, Goto
<1>6. ASSUME NEW t \in Workers, BeginDelete(t) PROVE Validated' /\ Bounded'
  BY <1>6 DEF BeginDelete, Begin, Goto
<1>7. ASSUME NEW t \in Workers, PreviewTransition(t) PROVE Validated' /\ Bounded'
  BY <1>7 DEF PreviewTransition, Begin, Goto
<1>8. ASSUME NEW t \in Workers, PersistPin(t) PROVE Validated' /\ Bounded'
  <2>1. CASE registry[target[t]] = None
    BY <1>8, <2>1 DEF PersistPin, Goto, Return
  <2>2. CASE registry[target[t]] # None
    <3>1. PICK r \in Records :
            /\ r # None /\ r.state = "installing"
            /\ registry' = [registry EXCEPT ![target[t]] = r]
      BY <1>8, <2>2, PinWrites
    <3> QED
      BY <1>8, <2>2, <3>1 DEF PersistPin, Goto, Return
  <2> QED
    BY <2>1, <2>2
<1>9. ASSUME NEW t \in Workers, InstallFails(t) PROVE Validated' /\ Bounded'
  BY <1>9 DEF InstallFails, Return
<1>10. ASSUME NEW t \in Workers, StartGameInstall(t) PROVE Validated' /\ Bounded'
  BY <1>10 DEF StartGameInstall, KeepLocals, Goto, Return
<1>11. ASSUME NEW t \in Workers, StageGame(t) PROVE Validated' /\ Bounded'
  BY <1>11 DEF StageGame, Step, Goto, KeepLocals
<1>12. ASSUME NEW t \in Workers, StageGameFails(t) PROVE Validated' /\ Bounded'
  BY <1>12 DEF StageGameFails, Return
<1>13. ASSUME NEW t \in Workers, RetireGame(t) PROVE Validated' /\ Bounded'
  BY <1>13 DEF RetireGame, Step, Goto
<1>14. ASSUME NEW t \in Workers, PromoteGame(t) PROVE Validated' /\ Bounded'
  BY <1>14 DEF PromoteGame, Step, Goto, AfterGame
<1>15. ASSUME NEW t \in Workers, PromoteGameFails(t) PROVE Validated' /\ Bounded'
  BY <1>15 DEF PromoteGameFails, Return
<1>16. ASSUME NEW t \in Workers, InstallAurora(t) PROVE Validated' /\ Bounded'
  BY <1>16 DEF InstallAurora, Step, Goto, KeepLocals
<1>17. ASSUME NEW t \in Workers, ValidateInstall(t) PROVE Validated' /\ Bounded'
  BY <1>17 DEF ValidateInstall, KeepLocals, Goto, Return
<1>18. ASSUME NEW t \in Workers, CommitReady(t) PROVE Validated' /\ Bounded'
  BY <1>18 DEF CommitReady, Step, Goto, KeepLocals
<1>19. ASSUME NEW t \in Workers, CompletePack(t) PROVE Validated' /\ Bounded'
  BY <1>19 DEF CompletePack, Step, Goto, KeepLocals
<1>20. ASSUME NEW t \in Workers, RollbackPack(t) PROVE Validated' /\ Bounded'
  BY <1>20 DEF RollbackPack, KeepLocals, Goto, Return
<1>21. ASSUME NEW t \in Workers, AbandonPack(t) PROVE Validated' /\ Bounded'
  BY <1>21 DEF AbandonPack, Return
<1>22. ASSUME NEW t \in Workers, ReadSelection(t) PROVE Validated' /\ Bounded'
  BY <1>22 DEF ReadSelection, Goto, Return
<1>23. ASSUME NEW t \in Workers, WriteSelection(t) PROVE Validated' /\ Bounded'
  BY <1>23 DEF WriteSelection, Return
<1>24. ASSUME NEW t \in Workers, CapturePlay(t) PROVE Validated' /\ Bounded'
  BY <1>24 DEF CapturePlay, Goto, EndPlay, Return
<1>25. ASSUME NEW t \in Workers, ResolvePlay(t) PROVE Validated' /\ Bounded'
  BY <1>25 DEF ResolvePlay, KeepLocals, Goto, EndPlay, Return
<1>26. ASSUME NEW t \in Workers, PlayFails(t) PROVE Validated' /\ Bounded'
  BY <1>26 DEF PlayFails, EndPlay, Return
<1>27. ASSUME NEW t \in Workers, EnterBoundary(t) PROVE Validated' /\ Bounded'
  BY <1>27 DEF EnterBoundary, KeepLocals, Goto, EndPlay, Return
<1>28. ASSUME NEW t \in Workers, CheckBoundary(t) PROVE Validated' /\ Bounded'
  BY <1>28 DEF CheckBoundary, KeepLocals, Goto, EndPlay, Return,
       BoundaryHolds
<1>29. ASSUME NEW t \in Workers, StartProcess(t) PROVE Validated' /\ Bounded'
  BY <1>29 DEF StartProcess, KeepLocals, Goto, EndPlay, Return
<1>30. ASSUME NEW t \in Workers, SpawnProcess(t) PROVE Validated' /\ Bounded'
  BY <1>30 DEF SpawnProcess, EndPlay, Return
<1>31. ASSUME NEW t \in Workers, CheckDelete(t) PROVE Validated' /\ Bounded'
  BY <1>31 DEF CheckDelete, Goto, Release, Return, MayDelete
<1>32. ASSUME NEW t \in Workers, DeleteSelection(t) PROVE Validated' /\ Bounded'
  BY <1>32 DEF DeleteSelection, Step, Goto, KeepLocals
<1>33. ASSUME NEW t \in Workers, DeleteFiles(t) PROVE Validated' /\ Bounded'
  BY <1>33 DEF DeleteFiles, Step, Goto, KeepLocals
<1>34. ASSUME NEW t \in Workers, DeleteFilesFails(t) PROVE Validated' /\ Bounded'
  BY <1>34 DEF DeleteFilesFails, Release, Return
<1>35. ASSUME NEW t \in Workers, DeleteRow(t) PROVE Validated' /\ Bounded'
  BY <1>35 DEF DeleteRow, Release, Return
<1>36. ASSUME NEW t \in Workers, DeleteFails(t) PROVE Validated' /\ Bounded'
  BY <1>36 DEF DeleteFails, Release, Return
<1>37. ASSUME NEW t \in Workers, TransitionFails(t) PROVE Validated' /\ Bounded'
  BY <1>37 DEF TransitionFails, Return
<1>38. ASSUME NEW t \in Workers, LockTransition(t) PROVE Validated' /\ Bounded'
  BY <1>38 DEF LockTransition, Step, Goto, KeepLocals
<1>39. ASSUME NEW t \in Workers, CheckTransition(t) PROVE Validated' /\ Bounded'
  BY <1>39 DEF CheckTransition, KeepLocals, Goto, Release, Return,
       TransitionApproved
<1>40. ASSUME NEW t \in Workers, ActivateTransition(t) PROVE Validated' /\ Bounded'
  BY <1>40 DEF ActivateTransition, Step, Goto, KeepLocals
<1>41. ASSUME NEW t \in Workers, PersistTransition(t) PROVE Validated' /\ Bounded'
  <2>1. PICK r \in Records :
            /\ r # None /\ r.state = "ready"
            /\ registry' = [registry EXCEPT ![target[t]] = r]
    BY <1>41, TransitionWrites
  <2> QED
    BY <1>41, <2>1 DEF PersistTransition, Step, Goto, KeepLocals
<1>42. ASSUME NEW t \in Workers, FinishTransition(t) PROVE Validated' /\ Bounded'
  BY <1>42 DEF FinishTransition, Release, Return
<1>43. ASSUME NEW t \in Workers, RollbackTransition(t) PROVE Validated' /\ Bounded'
  BY <1>43 DEF RollbackTransition, Release, Return
<1>44. CASE UpdateConfiguration
  <2>1. PICK i \in Instances, r \in Records :
            /\ registry[i] # None /\ registryLock = None
            /\ r # None /\ r.state = registry[i].state
            /\ r.installed = registry[i].installed /\ r.pack = registry[i].pack
            /\ r.desired = registry[i].desired \/ r.state = "ready"
            /\ registry' = [registry EXCEPT ![i] = r]
    BY <1>44, WishWrites
  <2> QED
    BY <1>44, <2>1 DEF UpdateConfiguration
<1>45. CASE RenameInstance
  <2>1. PICK i \in Instances, r \in Records :
            /\ registry[i] # None /\ registryLock = None
            /\ r # None /\ r.state = registry[i].state
            /\ r.installed = registry[i].installed /\ r.pack = registry[i].pack
            /\ r.desired = registry[i].desired \/ r.state = "ready"
            /\ registry' = [registry EXCEPT ![i] = r]
    BY <1>45, WishWrites
  <2> QED
    BY <1>45, <2>1 DEF RenameInstance
<1>46. CASE SelectInstance
  BY <1>46 DEF SelectInstance, Begin, Goto
<1>47. CASE LoadPreferences
  BY <1>47 DEF LoadPreferences, Step, Goto
<1>48. CASE LoadSelected
  BY <1>48 DEF LoadSelected, Step, Goto
<1>49. CASE SaveSelected
  BY <1>49 DEF SaveSelected, Return
<1>50. CASE SavePreferences
  BY <1>50 DEF SavePreferences, Return
<1>51. ASSUME NEW i \in Instances, ProcessExits(i) PROVE Validated' /\ Bounded'
  BY <1>51 DEF ProcessExits
<1>52. CASE Crash
  BY <1>52 DEF Crash, NoneYet, Stopped, Idle, Nothing, NoViews, NoView
<1>53. CASE UNCHANGED vars
  BY <1>53
<1> QED
  BY <1>1, <1>2, <1>3, <1>4, <1>5, <1>6, <1>7, <1>8, <1>9, <1>10, <1>11,
       <1>12, <1>13, <1>14, <1>15, <1>16, <1>17, <1>18, <1>19, <1>20, <1>21,
       <1>22, <1>23, <1>24, <1>25, <1>26, <1>27, <1>28, <1>29, <1>30, <1>31,
       <1>32, <1>33, <1>34, <1>35, <1>36, <1>37, <1>38, <1>39, <1>40, <1>41,
       <1>42, <1>43, <1>44, <1>45, <1>46, <1>47, <1>48, <1>49, <1>50, <1>51,
       <1>52, <1>53 DEF Next, CommandNext, StartCommand, Continue, InstallStep, PlayStep,
       DeleteStep, TransitionStep, StartMain, ContinueMain

\* Files go before their row, and nothing installs where there is no row.
LEMMA GoneStep ==
    ASSUME TypeOK, Held, OneInstaller, InstallRows, CheckedRows, Stages,
         PackIsAlone, Deleted, MutationExcludesGame, Absent, Kept, Cleared,
         [Next]_vars
    PROVE  Deleted' /\ Absent'
<1> USE NoneAssumption, MainAssumption DEF TypeOK, MemoryOK, LocalsOK,
     DiskOK, Held, OneInstaller, InstallRows, CheckedRows, HasRow,
     InstallsInto, CheckedLabels, RegistryLabels, MutatingLabels, Deleted,
     Kept, Cleared, Absent, NoFiles, Blocks, vars, launcher, disk, shared, locks, locals, Threads,
     Labels, MainLabels, InstallLabels, PlayLabels, DeleteLabels,
     TransitionLabels
<1>1. ASSUME NEW t \in Workers, CreateInstance(t) PROVE Deleted' /\ Absent'
  BY <1>1, CreationWrites
<1>2. ASSUME NEW t \in Workers, BeginPack(t) PROVE Deleted' /\ Absent'
  BY <1>2, CreationWrites
<1>3. ASSUME NEW t \in Workers, RetryInstall(t) PROVE Deleted' /\ Absent'
  BY <1>3 DEF RetryInstall, Begin, Goto
<1>4. ASSUME NEW t \in Workers, InstallConfiguration(t) PROVE Deleted' /\ Absent'
  BY <1>4 DEF InstallConfiguration, Begin, Goto
<1>5. ASSUME NEW t \in Workers, ReservePlay(t) PROVE Deleted' /\ Absent'
  BY <1>5 DEF ReservePlay, Begin, Goto
<1>6. ASSUME NEW t \in Workers, BeginDelete(t) PROVE Deleted' /\ Absent'
  BY <1>6 DEF BeginDelete, Begin, Goto
<1>7. ASSUME NEW t \in Workers, PreviewTransition(t) PROVE Deleted' /\ Absent'
  BY <1>7 DEF PreviewTransition, Begin, Goto
<1>8. ASSUME NEW t \in Workers, PersistPin(t) PROVE Deleted' /\ Absent'
  <2>1. CASE registry[target[t]] = None
    BY <1>8, <2>1 DEF PersistPin, Goto, Return
  <2>2. CASE registry[target[t]] # None
    <3>1. PICK r \in Records :
            /\ r # None /\ r.state = "installing"
            /\ registry' = [registry EXCEPT ![target[t]] = r]
      BY <1>8, <2>2, PinWrites
    <3> QED
      BY <1>8, <2>2, <3>1 DEF PersistPin, Goto, Return
  <2> QED
    BY <2>1, <2>2
<1>9. ASSUME NEW t \in Workers, InstallFails(t) PROVE Deleted' /\ Absent'
  BY <1>9 DEF InstallFails, Return
<1>10. ASSUME NEW t \in Workers, StartGameInstall(t) PROVE Deleted' /\ Absent'
  BY <1>10 DEF StartGameInstall, KeepLocals, Goto, Return
<1>11. ASSUME NEW t \in Workers, StageGame(t) PROVE Deleted' /\ Absent'
  BY <1>11 DEF StageGame, Step, Goto, KeepLocals
<1>12. ASSUME NEW t \in Workers, StageGameFails(t) PROVE Deleted' /\ Absent'
  BY <1>12 DEF StageGameFails, Return
<1>13. ASSUME NEW t \in Workers, RetireGame(t) PROVE Deleted' /\ Absent'
  BY <1>13 DEF RetireGame, Step, Goto
<1>14. ASSUME NEW t \in Workers, PromoteGame(t) PROVE Deleted' /\ Absent'
  BY <1>14 DEF PromoteGame, Step, Goto, AfterGame
<1>15. ASSUME NEW t \in Workers, PromoteGameFails(t) PROVE Deleted' /\ Absent'
  BY <1>15 DEF PromoteGameFails, Return
<1>16. ASSUME NEW t \in Workers, InstallAurora(t) PROVE Deleted' /\ Absent'
  BY <1>16 DEF InstallAurora, Step, Goto, KeepLocals
<1>17. ASSUME NEW t \in Workers, ValidateInstall(t) PROVE Deleted' /\ Absent'
  BY <1>17 DEF ValidateInstall, KeepLocals, Goto, Return
<1>18. ASSUME NEW t \in Workers, CommitReady(t) PROVE Deleted' /\ Absent'
  <2>1. CASE registry[target[t]] = None
    BY <1>18, <2>1 DEF CommitReady, Step, Goto, KeepLocals
  <2>2. CASE registry[target[t]] # None
    <3>1. PICK r \in Records :
            /\ r # None /\ r.state = "ready"
            /\ registry' = [registry EXCEPT ![target[t]] = r]
      BY <1>18, <2>2, ReadyWrites
    <3> QED
      BY <1>18, <2>2, <3>1 DEF CommitReady, Step, Goto, KeepLocals
  <2> QED
    BY <2>1, <2>2
<1>19. ASSUME NEW t \in Workers, CompletePack(t) PROVE Deleted' /\ Absent'
  <2>1. CASE registry[target[t]] = None
    BY <1>19, <2>1 DEF CompletePack, Step, Goto, KeepLocals
  <2>2. CASE registry[target[t]] # None
    <3>1. PICK r \in Records :
            /\ r # None /\ r.state = "ready"
            /\ registry' = [registry EXCEPT ![target[t]] = r]
      BY <1>19, <2>2, ReadyWrites
    <3> QED
      BY <1>19, <2>2, <3>1 DEF CompletePack, Step, Goto, KeepLocals
  <2> QED
    BY <2>1, <2>2
<1>20. ASSUME NEW t \in Workers, RollbackPack(t) PROVE Deleted' /\ Absent'
  BY <1>20 DEF RollbackPack, KeepLocals, Goto, Return
<1>21. ASSUME NEW t \in Workers, AbandonPack(t) PROVE Deleted' /\ Absent'
  BY <1>21 DEF AbandonPack, Return, PackIsAlone, Stages
<1>22. ASSUME NEW t \in Workers, ReadSelection(t) PROVE Deleted' /\ Absent'
  BY <1>22 DEF ReadSelection, Goto, Return
<1>23. ASSUME NEW t \in Workers, WriteSelection(t) PROVE Deleted' /\ Absent'
  BY <1>23 DEF WriteSelection, Return
<1>24. ASSUME NEW t \in Workers, CapturePlay(t) PROVE Deleted' /\ Absent'
  BY <1>24 DEF CapturePlay, Goto, EndPlay, Return
<1>25. ASSUME NEW t \in Workers, ResolvePlay(t) PROVE Deleted' /\ Absent'
  BY <1>25 DEF ResolvePlay, KeepLocals, Goto, EndPlay, Return
<1>26. ASSUME NEW t \in Workers, PlayFails(t) PROVE Deleted' /\ Absent'
  BY <1>26 DEF PlayFails, EndPlay, Return
<1>27. ASSUME NEW t \in Workers, EnterBoundary(t) PROVE Deleted' /\ Absent'
  BY <1>27 DEF EnterBoundary, KeepLocals, Goto, EndPlay, Return
<1>28. ASSUME NEW t \in Workers, CheckBoundary(t) PROVE Deleted' /\ Absent'
  BY <1>28 DEF CheckBoundary, KeepLocals, Goto, EndPlay, Return
<1>29. ASSUME NEW t \in Workers, StartProcess(t) PROVE Deleted' /\ Absent'
  BY <1>29 DEF StartProcess, KeepLocals, Goto, EndPlay, Return
<1>30. ASSUME NEW t \in Workers, SpawnProcess(t) PROVE Deleted' /\ Absent'
  BY <1>30 DEF SpawnProcess, EndPlay, Return
<1>31. ASSUME NEW t \in Workers, CheckDelete(t) PROVE Deleted' /\ Absent'
  BY <1>31 DEF CheckDelete, Goto, Release, Return, MayDelete
<1>32. ASSUME NEW t \in Workers, DeleteSelection(t) PROVE Deleted' /\ Absent'
  BY <1>32 DEF DeleteSelection, Step, Goto, KeepLocals
<1>33. ASSUME NEW t \in Workers, DeleteFiles(t) PROVE Deleted' /\ Absent'
  BY <1>33 DEF DeleteFiles, Step, Goto, KeepLocals
<1>34. ASSUME NEW t \in Workers, DeleteFilesFails(t) PROVE Deleted' /\ Absent'
  BY <1>34 DEF DeleteFilesFails, Release, Return
<1>35. ASSUME NEW t \in Workers, DeleteRow(t) PROVE Deleted' /\ Absent'
  BY <1>35 DEF DeleteRow, Release, Return, MutationExcludesGame
<1>36. ASSUME NEW t \in Workers, DeleteFails(t) PROVE Deleted' /\ Absent'
  BY <1>36 DEF DeleteFails, Release, Return
<1>37. ASSUME NEW t \in Workers, TransitionFails(t) PROVE Deleted' /\ Absent'
  BY <1>37 DEF TransitionFails, Return
<1>38. ASSUME NEW t \in Workers, LockTransition(t) PROVE Deleted' /\ Absent'
  BY <1>38 DEF LockTransition, Step, Goto, KeepLocals
<1>39. ASSUME NEW t \in Workers, CheckTransition(t) PROVE Deleted' /\ Absent'
  BY <1>39 DEF CheckTransition, KeepLocals, Goto, Release, Return,
       TransitionApproved
<1>40. ASSUME NEW t \in Workers, ActivateTransition(t) PROVE Deleted' /\ Absent'
  BY <1>40 DEF ActivateTransition, Step, Goto, KeepLocals
<1>41. ASSUME NEW t \in Workers, PersistTransition(t) PROVE Deleted' /\ Absent'
  <2>1. PICK r \in Records :
            /\ r # None /\ r.state = "ready"
            /\ registry' = [registry EXCEPT ![target[t]] = r]
    BY <1>41, TransitionWrites
  <2> QED
    BY <1>41, <2>1 DEF PersistTransition, Step, Goto, KeepLocals
<1>42. ASSUME NEW t \in Workers, FinishTransition(t) PROVE Deleted' /\ Absent'
  BY <1>42 DEF FinishTransition, Release, Return
<1>43. ASSUME NEW t \in Workers, RollbackTransition(t) PROVE Deleted' /\ Absent'
  BY <1>43, NoneIsNoRecord DEF RollbackTransition, Release, Return,
       RecordLabels
<1>44. CASE UpdateConfiguration
  <2>1. PICK i \in Instances, r \in Records :
            /\ registry[i] # None /\ registryLock = None
            /\ r # None /\ r.state = registry[i].state
            /\ r.installed = registry[i].installed /\ r.pack = registry[i].pack
            /\ r.desired = registry[i].desired \/ r.state = "ready"
            /\ registry' = [registry EXCEPT ![i] = r]
    BY <1>44, WishWrites
  <2> QED
    BY <1>44, <2>1 DEF UpdateConfiguration
<1>45. CASE RenameInstance
  <2>1. PICK i \in Instances, r \in Records :
            /\ registry[i] # None /\ registryLock = None
            /\ r # None /\ r.state = registry[i].state
            /\ r.installed = registry[i].installed /\ r.pack = registry[i].pack
            /\ r.desired = registry[i].desired \/ r.state = "ready"
            /\ registry' = [registry EXCEPT ![i] = r]
    BY <1>45, WishWrites
  <2> QED
    BY <1>45, <2>1 DEF RenameInstance
<1>46. CASE SelectInstance
  BY <1>46 DEF SelectInstance, Begin, Goto
<1>47. CASE LoadPreferences
  BY <1>47 DEF LoadPreferences, Step, Goto
<1>48. CASE LoadSelected
  BY <1>48 DEF LoadSelected, Step, Goto
<1>49. CASE SaveSelected
  BY <1>49 DEF SaveSelected, Return
<1>50. CASE SavePreferences
  BY <1>50 DEF SavePreferences, Return
<1>51. ASSUME NEW i \in Instances, ProcessExits(i) PROVE Deleted' /\ Absent'
  BY <1>51 DEF ProcessExits
<1>52. CASE Crash
  BY <1>52 DEF Crash, NoneYet, Stopped, Idle, Nothing, NoViews, NoView
<1>53. CASE UNCHANGED vars
  BY <1>53
<1> QED
  BY <1>1, <1>2, <1>3, <1>4, <1>5, <1>6, <1>7, <1>8, <1>9, <1>10, <1>11,
       <1>12, <1>13, <1>14, <1>15, <1>16, <1>17, <1>18, <1>19, <1>20, <1>21,
       <1>22, <1>23, <1>24, <1>25, <1>26, <1>27, <1>28, <1>29, <1>30, <1>31,
       <1>32, <1>33, <1>34, <1>35, <1>36, <1>37, <1>38, <1>39, <1>40, <1>41,
       <1>42, <1>43, <1>44, <1>45, <1>46, <1>47, <1>48, <1>49, <1>50, <1>51,
       <1>52, <1>53 DEF Next, CommandNext, StartCommand, Continue, InstallStep, PlayStep,
       DeleteStep, TransitionStep, StartMain, ContinueMain

\* A launcher started on an empty directory satisfies it.
LEMMA InitCInv == Init => CInv
<1> SUFFICES ASSUME Init PROVE CInv
  OBVIOUS
<1> USE NoneAssumption, MainAssumption DEF Init, NoneYet, Stopped, Idle, Threads
<1>1. OneInstaller /\ InstallRows /\ CheckedRows /\ Stages /\ PackIsAlone
  BY DEF OneInstaller, InstallRows, CheckedRows, Stages, PackIsAlone,
         InstallsInto, CheckedLabels, InstallLabels, MutatingLabels
<1>2. Validated /\ Bounded /\ Deleted /\ Absent
  BY DEF Validated, Bounded, Deleted, Absent, NoFiles, Blocks
<1> QED
  BY <1>1, <1>2 DEF CInv

\* CInv is inductive beside IInv.
LEMMA NextCInv ==
    ASSUME IInv, IInv', CInv, [Next]_vars
    PROVE  CInv'
<1> USE DEF IInv, CInv
<1>1. OneInstaller' /\ Kept /\ Cleared
  BY CrossingStep
<1>2. InstallRows' /\ CheckedRows'
  BY <1>1, RowStep
<1>3. Stages' /\ PackIsAlone'
  BY PackStep
<1>4. Validated' /\ Bounded'
  BY <1>1, CompleteStep
<1>5. Deleted' /\ Absent'
  BY <1>1, GoneStep
<1> QED
  BY <1>1, <1>2, <1>3, <1>4, <1>5

-----------------------------------------------------------------------------
(* Files and rows *)

\* Whatever commands run, and however many installations overlap, CInv holds
\* of every instance (with what it leaves open of the crossed ones).
THEOREM ContractInvariance == Spec => []CInv
<1>1. Init => CInv
  BY InitCInv
<1>2. IInv /\ IInv' /\ CInv /\ [Next]_vars => CInv'
  BY NextCInv
<1> QED
  BY <1>1, <1>2, InductiveInvariant, PTL DEF Spec

\* No file outlives its registry row: deletion and the rollback of a pack
\* remove the row last, and nothing installs into an unregistered instance,
\* unless two of its installations have overlapped.
THEOREM RowsOutliveFiles == Spec => []RowOutlivesFiles
<1>1. CInv => RowOutlivesFiles
  BY DEF CInv, Absent, NoFiles, RowOutlivesFiles
<1> QED
  BY <1>1, ContractInvariance, PTL

-----------------------------------------------------------------------------
(* The ready commit *)

CommitsComplete ==
    \A i \in Instances \ crossed :
        (/\ registry[i] # None /\ registry[i].state = "installing"
         /\ registry'[i] # None /\ registry'[i].state = "ready")
            => Complete(registry'[i], game[i], aurora[i])

\* Only the ready commit and the completion of a pack make a row ready, and
\* each on what it validated.
LEMMA CommitStep ==
    ASSUME TypeOK, OneInstaller, InstallRows, CheckedRows, Validated,
         [Next]_vars
    PROVE  CommitsComplete
<1> USE NoneAssumption, MainAssumption DEF TypeOK, MemoryOK, LocalsOK,
     DiskOK, OneInstaller, InstallRows, CheckedRows, HasRow, InstallsInto,
     CheckedLabels, MutatingLabels, CommitsComplete, vars, launcher, disk, shared,
     locks, locals, Threads, Labels, MainLabels, InstallLabels, PlayLabels,
     DeleteLabels, TransitionLabels
<1>1. ASSUME NEW t \in Workers, CreateInstance(t) PROVE CommitsComplete
  BY <1>1, CreationWrites
<1>2. ASSUME NEW t \in Workers, BeginPack(t) PROVE CommitsComplete
  BY <1>2, CreationWrites
<1>3. ASSUME NEW t \in Workers, RetryInstall(t) PROVE CommitsComplete
  BY <1>3 DEF RetryInstall, Begin, Goto
<1>4. ASSUME NEW t \in Workers, InstallConfiguration(t) PROVE CommitsComplete
  BY <1>4 DEF InstallConfiguration, Begin, Goto
<1>5. ASSUME NEW t \in Workers, ReservePlay(t) PROVE CommitsComplete
  BY <1>5 DEF ReservePlay, Begin, Goto
<1>6. ASSUME NEW t \in Workers, BeginDelete(t) PROVE CommitsComplete
  BY <1>6 DEF BeginDelete, Begin, Goto
<1>7. ASSUME NEW t \in Workers, PreviewTransition(t) PROVE CommitsComplete
  BY <1>7 DEF PreviewTransition, Begin, Goto
<1>8. ASSUME NEW t \in Workers, PersistPin(t) PROVE CommitsComplete
  <2>1. CASE registry[target[t]] = None
    BY <1>8, <2>1 DEF PersistPin, Goto, Return
  <2>2. CASE registry[target[t]] # None
    <3>1. PICK r \in Records :
            /\ r # None /\ r.state = "installing"
            /\ registry' = [registry EXCEPT ![target[t]] = r]
      BY <1>8, <2>2, PinWrites
    <3> QED
      BY <1>8, <2>2, <3>1 DEF PersistPin, Goto, Return
  <2> QED
    BY <2>1, <2>2
<1>9. ASSUME NEW t \in Workers, InstallFails(t) PROVE CommitsComplete
  BY <1>9 DEF InstallFails, Return
<1>10. ASSUME NEW t \in Workers, StartGameInstall(t) PROVE CommitsComplete
  BY <1>10 DEF StartGameInstall, KeepLocals, Goto, Return
<1>11. ASSUME NEW t \in Workers, StageGame(t) PROVE CommitsComplete
  BY <1>11 DEF StageGame, Step, Goto, KeepLocals
<1>12. ASSUME NEW t \in Workers, StageGameFails(t) PROVE CommitsComplete
  BY <1>12 DEF StageGameFails, Return
<1>13. ASSUME NEW t \in Workers, RetireGame(t) PROVE CommitsComplete
  BY <1>13 DEF RetireGame, Step, Goto
<1>14. ASSUME NEW t \in Workers, PromoteGame(t) PROVE CommitsComplete
  BY <1>14 DEF PromoteGame, Step, Goto, AfterGame
<1>15. ASSUME NEW t \in Workers, PromoteGameFails(t) PROVE CommitsComplete
  BY <1>15 DEF PromoteGameFails, Return
<1>16. ASSUME NEW t \in Workers, InstallAurora(t) PROVE CommitsComplete
  BY <1>16 DEF InstallAurora, Step, Goto, KeepLocals
<1>17. ASSUME NEW t \in Workers, ValidateInstall(t) PROVE CommitsComplete
  BY <1>17 DEF ValidateInstall, KeepLocals, Goto, Return
<1>18. ASSUME NEW t \in Workers, CommitReady(t) PROVE CommitsComplete
  <2>1. CASE registry[target[t]] = None \/ target[t] \in crossed
    BY <1>18, <2>1 DEF CommitReady, Step
  <2>2. CASE registry[target[t]] # None /\ target[t] \notin crossed
    <3>1. PICK r \in Records :
            /\ r # None /\ r.state = "ready"
            /\ r.desired = registry[target[t]].desired
            /\ r.installed = registry[target[t]].installed
            /\ registry' = [registry EXCEPT ![target[t]] = r]
      BY <1>18, <2>2, ReadyWrites
    <3>2. Complete(registry[target[t]], game[target[t]], aurora[target[t]])
      BY <1>18, <2>2 DEF CommitReady, Step, Validated
    <3> QED
      BY <1>18, <2>2, <3>1, <3>2 DEF Complete
  <2> QED
    BY <2>1, <2>2
<1>19. ASSUME NEW t \in Workers, CompletePack(t) PROVE CommitsComplete
  <2>1. PICK r \in Records :
            /\ r # None /\ r.state = "ready"
            /\ r.desired = registry[target[t]].desired
            /\ r.installed = registry[target[t]].installed
            /\ registry' = [registry EXCEPT ![target[t]] = r]
    <3>1. registry[target[t]] # None
      BY <1>19 DEF CompletePack
    <3> QED
      BY <1>19, <3>1, ReadyWrites
  <2>2. Complete(registry[target[t]], game[target[t]], aurora[target[t]])
    BY <1>19 DEF CompletePack, Step, Validated
  <2> QED
    BY <1>19, <2>1, <2>2 DEF Complete
<1>20. ASSUME NEW t \in Workers, RollbackPack(t) PROVE CommitsComplete
  BY <1>20 DEF RollbackPack, KeepLocals, Goto, Return
<1>21. ASSUME NEW t \in Workers, AbandonPack(t) PROVE CommitsComplete
  BY <1>21 DEF AbandonPack, Return
<1>22. ASSUME NEW t \in Workers, ReadSelection(t) PROVE CommitsComplete
  BY <1>22 DEF ReadSelection, Goto, Return
<1>23. ASSUME NEW t \in Workers, WriteSelection(t) PROVE CommitsComplete
  BY <1>23 DEF WriteSelection, Return
<1>24. ASSUME NEW t \in Workers, CapturePlay(t) PROVE CommitsComplete
  BY <1>24 DEF CapturePlay, Goto, EndPlay, Return
<1>25. ASSUME NEW t \in Workers, ResolvePlay(t) PROVE CommitsComplete
  BY <1>25 DEF ResolvePlay, KeepLocals, Goto, EndPlay, Return
<1>26. ASSUME NEW t \in Workers, PlayFails(t) PROVE CommitsComplete
  BY <1>26 DEF PlayFails, EndPlay, Return
<1>27. ASSUME NEW t \in Workers, EnterBoundary(t) PROVE CommitsComplete
  BY <1>27 DEF EnterBoundary, KeepLocals, Goto, EndPlay, Return
<1>28. ASSUME NEW t \in Workers, CheckBoundary(t) PROVE CommitsComplete
  BY <1>28 DEF CheckBoundary, KeepLocals, Goto, EndPlay, Return
<1>29. ASSUME NEW t \in Workers, StartProcess(t) PROVE CommitsComplete
  BY <1>29 DEF StartProcess, KeepLocals, Goto, EndPlay, Return
<1>30. ASSUME NEW t \in Workers, SpawnProcess(t) PROVE CommitsComplete
  BY <1>30 DEF SpawnProcess, EndPlay, Return
<1>31. ASSUME NEW t \in Workers, CheckDelete(t) PROVE CommitsComplete
  BY <1>31 DEF CheckDelete, Goto, Release, Return, MayDelete
<1>32. ASSUME NEW t \in Workers, DeleteSelection(t) PROVE CommitsComplete
  BY <1>32 DEF DeleteSelection, Step, Goto, KeepLocals
<1>33. ASSUME NEW t \in Workers, DeleteFiles(t) PROVE CommitsComplete
  BY <1>33 DEF DeleteFiles, Step, Goto, KeepLocals
<1>34. ASSUME NEW t \in Workers, DeleteFilesFails(t) PROVE CommitsComplete
  BY <1>34 DEF DeleteFilesFails, Release, Return
<1>35. ASSUME NEW t \in Workers, DeleteRow(t) PROVE CommitsComplete
  BY <1>35 DEF DeleteRow, Release, Return
<1>36. ASSUME NEW t \in Workers, DeleteFails(t) PROVE CommitsComplete
  BY <1>36 DEF DeleteFails, Release, Return
<1>37. ASSUME NEW t \in Workers, TransitionFails(t) PROVE CommitsComplete
  BY <1>37 DEF TransitionFails, Return
<1>38. ASSUME NEW t \in Workers, LockTransition(t) PROVE CommitsComplete
  BY <1>38 DEF LockTransition, Step, Goto, KeepLocals
<1>39. ASSUME NEW t \in Workers, CheckTransition(t) PROVE CommitsComplete
  BY <1>39 DEF CheckTransition, KeepLocals, Goto, Release, Return,
       TransitionApproved
<1>40. ASSUME NEW t \in Workers, ActivateTransition(t) PROVE CommitsComplete
  BY <1>40 DEF ActivateTransition, Step, Goto, KeepLocals
<1>41. ASSUME NEW t \in Workers, PersistTransition(t) PROVE CommitsComplete
  <2>1. PICK r \in Records :
            /\ r # None /\ r.state = "ready"
            /\ registry' = [registry EXCEPT ![target[t]] = r]
    BY <1>41, TransitionWrites
  <2> QED
    BY <1>41, <2>1 DEF PersistTransition, Step, Goto, KeepLocals
<1>42. ASSUME NEW t \in Workers, FinishTransition(t) PROVE CommitsComplete
  BY <1>42 DEF FinishTransition, Release, Return
<1>43. ASSUME NEW t \in Workers, RollbackTransition(t) PROVE CommitsComplete
  BY <1>43 DEF RollbackTransition, Release, Return
<1>44. CASE UpdateConfiguration
  <2>1. PICK i \in Instances, r \in Records :
            /\ registry[i] # None /\ registryLock = None
            /\ r # None /\ r.state = registry[i].state
            /\ r.installed = registry[i].installed /\ r.pack = registry[i].pack
            /\ r.desired = registry[i].desired \/ r.state = "ready"
            /\ registry' = [registry EXCEPT ![i] = r]
    BY <1>44, WishWrites
  <2> QED
    BY <1>44, <2>1 DEF UpdateConfiguration
<1>45. CASE RenameInstance
  <2>1. PICK i \in Instances, r \in Records :
            /\ registry[i] # None /\ registryLock = None
            /\ r # None /\ r.state = registry[i].state
            /\ r.installed = registry[i].installed /\ r.pack = registry[i].pack
            /\ r.desired = registry[i].desired \/ r.state = "ready"
            /\ registry' = [registry EXCEPT ![i] = r]
    BY <1>45, WishWrites
  <2> QED
    BY <1>45, <2>1 DEF RenameInstance
<1>46. CASE SelectInstance
  BY <1>46 DEF SelectInstance, Begin, Goto
<1>47. CASE LoadPreferences
  BY <1>47 DEF LoadPreferences, Step, Goto
<1>48. CASE LoadSelected
  BY <1>48 DEF LoadSelected, Step, Goto
<1>49. CASE SaveSelected
  BY <1>49 DEF SaveSelected, Return
<1>50. CASE SavePreferences
  BY <1>50 DEF SavePreferences, Return
<1>51. ASSUME NEW i \in Instances, ProcessExits(i) PROVE CommitsComplete
  BY <1>51 DEF ProcessExits
<1>52. CASE Crash
  BY <1>52 DEF Crash, NoneYet, Stopped, Idle, Nothing, NoViews, NoView
<1>53. CASE UNCHANGED vars
  BY <1>53
<1> QED
  BY <1>1, <1>2, <1>3, <1>4, <1>5, <1>6, <1>7, <1>8, <1>9, <1>10, <1>11,
       <1>12, <1>13, <1>14, <1>15, <1>16, <1>17, <1>18, <1>19, <1>20, <1>21,
       <1>22, <1>23, <1>24, <1>25, <1>26, <1>27, <1>28, <1>29, <1>30, <1>31,
       <1>32, <1>33, <1>34, <1>35, <1>36, <1>37, <1>38, <1>39, <1>40, <1>41,
       <1>42, <1>43, <1>44, <1>45, <1>46, <1>47, <1>48, <1>49, <1>50, <1>51,
       <1>52, <1>53 DEF Next, CommandNext, StartCommand, Continue, InstallStep, PlayStep,
       DeleteStep, TransitionStep, StartMain, ContinueMain

\* A row becomes ready only while its content is complete for it, whatever
\* other commands do between the validation and the commit; of them only a
\* second installation can, and such an instance is crossed.
THEOREM ReadyMeansComplete == Spec => ReadyOnlyWhenComplete
<1>1. IInv /\ CInv /\ [Next]_vars => [CommitsComplete]_vars
  BY CommitStep DEF IInv, CInv
<1> QED
  BY <1>1, ContractInvariance, InductiveInvariant, PTL
     DEF Spec, ReadyOnlyWhenComplete, CommitsComplete

-----------------------------------------------------------------------------
(* The commands implement InstanceContract *)

Content(i) == registry[i] # None /\ Complete(registry[i], game[i], aurora[i])

\* Nothing the contract sees of instance i changes.
Same(i) == Phase(i)' = Phase(i) /\ (Content(i)' <=> Content(i))

\* The refinement mapping, one instance at a time.
LEMMA ContractView ==
    /\ Contract!vars = <<[i \in Instances |-> Phase(i)],
                         [i \in Instances |-> Content(i)], process>>
    /\ Contract!Init <=>
        /\ [i \in Instances |-> Phase(i)] = [i \in Instances |-> "absent"]
        /\ [i \in Instances |-> Content(i)] = [i \in Instances |-> FALSE]
        /\ process = [i \in Instances |-> "stopped"]
  BY DEF Contract!vars, Contract!Init, Content

\* A step that shows nothing of itself.
LEMMA QuietMatches ==
    ASSUME \A j \in Instances : Same(j), UNCHANGED process
    PROVE  UNCHANGED Contract!vars
  BY DEF Same, Content, Contract!vars

\* A creation registers.
LEMMA RegisterMatches ==
    ASSUME NEW i \in Instances, Phase(i) = "absent", Phase(i)' = "installing",
           ~Content(i)', UNCHANGED process,
           \A j \in Instances : j # i => Same(j)
    PROVE  Contract!Register(i)
  BY DEF Same, Content, Contract!Register

\* A change of files or of the row, of an instance that is not starting, or
\* of the files of a crossed one.
LEMMA ReworkMatches ==
    ASSUME NEW i \in Instances, Phase(i) # "absent", UNCHANGED process,
           \/ process[i] # "starting" /\ Phase(i)' \in {Phase(i), "installing"}
           \/ i \in crossed /\ Phase(i)' = Phase(i),
           \A j \in Instances : j # i => Same(j)
    PROVE  Contract!Rework(i)
  BY DEF Same, Content, Contract!Rework

\* A commit finishes an installation.
LEMMA FinishMatches ==
    ASSUME NEW i \in Instances, Phase(i) = "installing", Phase(i)' = "ready",
           Content(i) \/ i \in crossed, Content(i)' <=> Content(i),
           UNCHANGED process,
           \A j \in Instances : j # i => Same(j)
    PROVE  Contract!Finish(i)
  BY DEF Same, Content, Contract!Finish

\* A removal of the row forgets the instance.
LEMMA ForgetMatches ==
    ASSUME NEW i \in Instances, Phase(i) # "absent", ~Blocks(process[i]),
           Phase(i)' = "absent", ~Content(i)', UNCHANGED process,
           \A j \in Instances : j # i => Same(j)
    PROVE  Contract!Forget(i)
  BY DEF Same, Content, Blocks, Contract!Forget, Contract!Occupied

\* A step that writes at most the row and the files of instance i leaves the
\* others as they are.
LEMMA OthersSame ==
    ASSUME TypeOK, NEW i \in Instances,
           \A j \in Instances : j # i =>
                /\ registry'[j] = registry[j] /\ game'[j] = game[j]
                /\ aurora'[j] = aurora[j]
    PROVE  \A j \in Instances : j # i => Same(j)
  BY DEF Same, Phase, Content, Complete

\* A step that leaves rows, games, Aurora and processes alone is no step of
\* the contract.
LEMMA QuietStep ==
    ASSUME UNCHANGED <<registry, game, aurora, process>>
    PROVE  UNCHANGED Contract!vars
<1>1. \A j \in Instances : Same(j)
  BY DEF Same, Phase, Content, Complete
<1> QED
  BY <1>1, QuietMatches

\* An instance that starts is ready, and registry_lock is taken.
LEMMA StartingIsReady ==
    ASSUME IInv, CInv, NEW i \in Instances, process[i] = "starting"
    PROVE  HasRow(i, "ready") /\ registryLock # None
<1>1. PICK t \in Workers : target[t] = i /\ pc[t] = "spawn"
  BY DEF IInv, Starting
<1>2. registryLock = t
  BY <1>1 DEF IInv, Held, RegistryLabels, Threads
<1>3. HasRow(i, "ready")
  BY <1>1 DEF CInv, CheckedRows, CheckedLabels
<1> QED
  BY <1>2, <1>3, NoneAssumption

\* The files of an installing row may change at any time: its instance does
\* not start.  Those of a crossed one change whatever its row says.
LEMMA InstallingReworks ==
    ASSUME IInv, CInv, NEW t \in Workers, pc[t] \in InstallsInto,
           NEW i \in Instances, target[t] = i,
           registry' = registry, process' = process,
           \A j \in Instances : j # i =>
                game'[j] = game[j] /\ aurora'[j] = aurora[j]
    PROVE  Contract!Rework(i) \/ UNCHANGED Contract!vars
<1>1. \A j \in Instances : j # i => Same(j)
  BY OthersSame DEF IInv
<1>2. Phase(i)' = Phase(i)
  BY DEF Phase
<1>3. CASE i \notin crossed
  <2>1. HasRow(i, "installing")
    BY <1>3, MainAssumption
       DEF IInv, TypeOK, LocalsOK, CInv, InstallRows, InstallsInto,
           InstallLabels, Threads
  <2>2. process[i] # "starting"
    BY <2>1, StartingIsReady DEF HasRow
  <2>3. Phase(i) = "installing"
    BY <2>1 DEF HasRow, Phase
  <2> QED
    BY <1>1, <1>2, <2>2, <2>3, ReworkMatches
<1>4. CASE i \in crossed /\ registry[i] # None
  <2>1. Phase(i) # "absent"
    BY <1>4 DEF Phase, IInv, TypeOK, DiskOK, Records
  <2> QED
    BY <1>1, <1>2, <1>4, <2>1, ReworkMatches
<1>5. CASE registry[i] = None
  <2>1. Same(i)
    BY <1>2, <1>5 DEF Same, Content
  <2> QED
    BY <1>1, <2>1, QuietMatches
<1> QED
  BY <1>3, <1>4, <1>5

\* Deletion and a transition change the files of a ready row, and the row,
\* under the process-state mutex: no game starts.
LEMMA MutatingReworks ==
    ASSUME IInv, CInv, NEW t \in Workers, pc[t] \in MutatingLabels,
           NEW i \in Instances, target[t] = i,
           process' = process,
           registry'[i] # None, registry'[i].state \in {"ready", "installing"},
           \A j \in Instances : j # i =>
                /\ registry'[j] = registry[j] /\ game'[j] = game[j]
                /\ aurora'[j] = aurora[j]
    PROVE  Contract!Rework(i)
<1>1. HasRow(i, "ready")
  BY MainAssumption
     DEF IInv, TypeOK, LocalsOK, CInv, CheckedRows, CheckedLabels,
         MutatingLabels, Threads
<1>2. process[i] # "starting"
  BY DEF IInv, MutationExcludesGame, Blocks
<1>3. Phase(i) = "ready" /\ Phase(i)' \in {"ready", "installing"}
  BY <1>1 DEF HasRow, Phase
<1>4. \A j \in Instances : j # i => Same(j)
  BY <1>1, OthersSame DEF IInv
<1> QED
  BY <1>1, <1>2, <1>3, <1>4, ReworkMatches

\* A commit on a complete row is the contract's Finish; one that crossed
\* another finds any row, or none.
LEMMA ReadyFinishes ==
    ASSUME IInv, CInv, NEW t \in Workers, CommitReady(t) \/ CompletePack(t),
           NEW i \in Instances, target[t] = i
    PROVE  Contract!Finish(i) \/ UNCHANGED Contract!vars
<1>1. UNCHANGED <<game, aurora, process>>
  BY DEF CommitReady, CompletePack, shared
<1>2. CASE registry[i] = None
  <2>1. registry' = registry
    BY <1>2 DEF CommitReady, CompletePack, IInv, TypeOK, DiskOK
  <2> QED
    BY <1>1, <2>1, QuietStep
<1>3. CASE registry[i] # None
  <2>1. PICK r \in Records :
            /\ r # None /\ r.state = "ready"
            /\ r.desired = registry[i].desired
            /\ r.installed = registry[i].installed
            /\ registry' = [registry EXCEPT ![i] = r]
    BY <1>3, ReadyWrites DEF IInv
  <2>2. registry'[i] = r
    BY <2>1 DEF IInv, TypeOK, DiskOK
  <2>3. Content(i)' <=> Content(i)
    BY <1>1, <1>3, <2>1, <2>2 DEF Content, Complete
  <2>4. Phase(i)' = "ready"
    BY <2>1, <2>2 DEF Phase
  <2>5. \A j \in Instances : j # i => Same(j)
    BY <1>1, <2>1, OthersSame DEF IInv, TypeOK, DiskOK
  <2>6. CASE registry[i].state = "ready"
    <3>1. Phase(i) = "ready"
      BY <1>3, <2>6 DEF Phase
    <3> QED
      BY <1>1, <2>3, <2>4, <2>5, <3>1, QuietMatches DEF Same
  <2>7. CASE registry[i].state = "installing"
    <3>1. Phase(i) = "installing"
      BY <1>3, <2>7 DEF Phase
    <3>2. Content(i) \/ i \in crossed
      BY <1>3 DEF CInv, Validated, CommitReady, CompletePack, Step, Content
    <3> QED
      BY <1>1, <2>3, <2>4, <2>5, <3>1, <3>2, FinishMatches
  <2>8. registry[i].state \in {"installing", "ready"}
    BY <1>3 DEF IInv, TypeOK, DiskOK, Records
  <2> QED
    BY <2>6, <2>7, <2>8
<1> QED
  BY <1>2, <1>3

\* A launch, a spawn, an exit and a restart change the process alone.
LEMMA LaunchMatches ==
    ASSUME NEW i \in Instances, \A j \in Instances : Same(j),
           Phase(i) = "ready", Content(i) \/ i \in crossed, ~Blocks(process[i]),
           process' = [process EXCEPT ![i] = "starting"]
    PROVE  Contract!Launch(i)
  BY DEF Same, Content, Blocks, Contract!Launch, Contract!Occupied

LEMMA RunMatches ==
    ASSUME \A j \in Instances : Same(j)
    PROVE  /\ \A i \in Instances, s \in {"running", "failed"} :
                process[i] = "starting" /\ process' = [process EXCEPT ![i] = s]
                    => Contract!Spawned(i)
           /\ \A i \in Instances, s \in {"exited", "failed"} :
                process[i] = "running" /\ process' = [process EXCEPT ![i] = s]
                    => Contract!Exited(i)
           /\ process' = [i \in Instances |-> "stopped"] => Contract!Restart
  BY DEF Same, Content, Contract!Spawned, Contract!Exited, Contract!Restart

\* Every step of a command is a step of the contract, or none.
LEMMA ContractStep ==
    ASSUME IInv, CInv, [Next]_vars
    PROVE  Contract!Next \/ UNCHANGED Contract!vars
<1> USE DEF disk, shared, locks, locals
<1>1. ASSUME NEW t \in Workers, RetryInstall(t) \/ InstallConfiguration(t) \/ ReservePlay(t) PROVE Contract!Next \/ UNCHANGED Contract!vars
  BY <1>1, QuietStep DEF RetryInstall, InstallConfiguration, ReservePlay
<1>2. ASSUME NEW t \in Workers, BeginDelete(t) \/ PreviewTransition(t) PROVE Contract!Next \/ UNCHANGED Contract!vars
  BY <1>2, QuietStep DEF BeginDelete, PreviewTransition
<1>3. ASSUME NEW t \in Workers, InstallFails(t) \/ StartGameInstall(t) \/ StageGame(t) PROVE Contract!Next \/ UNCHANGED Contract!vars
  BY <1>3, QuietStep DEF InstallFails, StartGameInstall, StageGame
<1>4. ASSUME NEW t \in Workers, StageGameFails(t) \/ ValidateInstall(t) \/ ReadSelection(t) \/ WriteSelection(t) PROVE Contract!Next \/ UNCHANGED Contract!vars
  BY <1>4, QuietStep DEF StageGameFails, ValidateInstall, ReadSelection,
       WriteSelection
<1>5. ASSUME NEW t \in Workers, CapturePlay(t) \/ ResolvePlay(t) \/ PlayFails(t) PROVE Contract!Next \/ UNCHANGED Contract!vars
  BY <1>5, QuietStep DEF CapturePlay, ResolvePlay, PlayFails
<1>6. ASSUME NEW t \in Workers, EnterBoundary(t) \/ CheckBoundary(t) PROVE Contract!Next \/ UNCHANGED Contract!vars
  BY <1>6, QuietStep DEF EnterBoundary, CheckBoundary
<1>7. ASSUME NEW t \in Workers, CheckDelete(t) \/ DeleteSelection(t) \/ DeleteFails(t) PROVE Contract!Next \/ UNCHANGED Contract!vars
  BY <1>7, QuietStep DEF CheckDelete, DeleteSelection, DeleteFails
<1>8. ASSUME NEW t \in Workers, TransitionFails(t) \/ LockTransition(t) \/ CheckTransition(t) \/ FinishTransition(t) PROVE Contract!Next \/ UNCHANGED Contract!vars
  BY <1>8, QuietStep DEF TransitionFails, LockTransition, CheckTransition,
       FinishTransition
<1>9. CASE SelectInstance \/ LoadSelected \/ SaveSelected
  BY <1>9, QuietStep DEF SelectInstance, LoadSelected, SaveSelected
<1>10. CASE LoadPreferences \/ SavePreferences
  BY <1>10, QuietStep DEF LoadPreferences, SavePreferences
<1>11. ASSUME NEW t \in Workers, CreateInstance(t) \/ BeginPack(t) PROVE Contract!Next \/ UNCHANGED Contract!vars
  <2>1. PICK i \in Instances, r \in Records, c \in {"create", "pack"} :
            /\ registry[i] = None /\ NoFiles(i)
            /\ \A s \in Threads : target[s] # i
            /\ r # None /\ r.state = "installing" /\ (c = "pack" => r.pack)
            /\ registry' = [registry EXCEPT ![i] = r]
            /\ pc' = [pc EXCEPT ![t] = "installGame"]
            /\ command' = [command EXCEPT ![t] = c]
            /\ target' = [target EXCEPT ![t] = i]
            /\ UNCHANGED <<game, aurora, staging, process>>
    BY <1>11, CreationWrites DEF IInv
  <2>2. registry'[i] = r
    BY <2>1 DEF IInv, TypeOK, DiskOK
  <2>3. Phase(i) = "absent" /\ Phase(i)' = "installing"
    BY <2>1, <2>2 DEF Phase
  <2>4. r.installed.version # None
    BY <2>1, NoneAssumption DEF Records, Pins
  <2>5. ~Content(i)'
    BY <2>1, <2>2, <2>4 DEF Content, Complete, NoFiles
  <2>6. \A j \in Instances : j # i => Same(j)
    BY <2>1, OthersSame DEF IInv, TypeOK, DiskOK
  <2>7. Contract!Register(i)
    BY <2>1, <2>3, <2>5, <2>6, RegisterMatches
  <2> QED
    BY <2>7 DEF Contract!Next
<1>12. ASSUME NEW t \in Workers, PersistPin(t) PROVE Contract!Next \/ UNCHANGED Contract!vars
  <2>1. PICK i \in Instances : target[t] = i
    BY <1>12, MainAssumption
       DEF IInv, TypeOK, LocalsOK, Threads, PersistPin
  <2>2. CASE registry[i] = None
    BY <1>12, <2>1, <2>2, QuietStep DEF PersistPin
  <2>3. CASE registry[i] # None
    <3>1. PICK r \in Records :
            /\ r # None /\ r.state = "installing"
            /\ registry' = [registry EXCEPT ![i] = r]
      BY <1>12, <2>1, <2>3, PinWrites DEF IInv
    <3>2. process[i] # "starting"
      BY <1>12, StartingIsReady DEF PersistPin
    <3>3. UNCHANGED <<game, aurora, process>>
      BY <1>12 DEF PersistPin
    <3>4. registry'[i] = r
      BY <3>1 DEF IInv, TypeOK, DiskOK
    <3>5. Phase(i) # "absent" /\ Phase(i)' = "installing"
      BY <2>3, <3>1, <3>4 DEF Phase, IInv, TypeOK, DiskOK, Records
    <3>6. \A j \in Instances : j # i => Same(j)
      BY <3>1, <3>3, OthersSame DEF IInv, TypeOK, DiskOK
    <3>7. Contract!Rework(i)
      BY <3>2, <3>3, <3>5, <3>6, ReworkMatches
    <3> QED
      BY <3>7 DEF Contract!Next
  <2> QED
    BY <2>2, <2>3
<1>13. ASSUME NEW t \in Workers, RetireGame(t) PROVE Contract!Next \/ UNCHANGED Contract!vars
  <2>1. PICK i \in Instances : target[t] = i
    BY <1>13, MainAssumption DEF IInv, TypeOK, LocalsOK, Threads, RetireGame,
         Step
  <2>2. pc[t] \in InstallsInto
    BY <1>13 DEF RetireGame, Step, InstallsInto, InstallLabels
  <2>3. /\ registry' = registry /\ process' = process
        /\ \A j \in Instances : j # i => game'[j] = game[j] /\ aurora'[j] = aurora[j]
    BY <1>13, <2>1 DEF IInv, TypeOK, DiskOK, RetireGame
  <2>4. Contract!Rework(i) \/ UNCHANGED Contract!vars
    BY <2>1, <2>2, <2>3, InstallingReworks
  <2> QED
    BY <2>4 DEF Contract!Next
<1>14. ASSUME NEW t \in Workers, PromoteGame(t) PROVE Contract!Next \/ UNCHANGED Contract!vars
  <2>1. PICK i \in Instances : target[t] = i
    BY <1>14, MainAssumption DEF IInv, TypeOK, LocalsOK, Threads, PromoteGame,
         Step
  <2>2. pc[t] \in InstallsInto
    BY <1>14 DEF PromoteGame, Step, InstallsInto, InstallLabels
  <2>3. /\ registry' = registry /\ process' = process
        /\ \A j \in Instances : j # i => game'[j] = game[j] /\ aurora'[j] = aurora[j]
    BY <1>14, <2>1 DEF IInv, TypeOK, DiskOK, PromoteGame
  <2>4. Contract!Rework(i) \/ UNCHANGED Contract!vars
    BY <2>1, <2>2, <2>3, InstallingReworks
  <2> QED
    BY <2>4 DEF Contract!Next
<1>15. ASSUME NEW t \in Workers, PromoteGameFails(t) PROVE Contract!Next \/ UNCHANGED Contract!vars
  <2>1. PICK i \in Instances : target[t] = i
    BY <1>15, MainAssumption DEF IInv, TypeOK, LocalsOK, Threads,
         PromoteGameFails, Step
  <2>2. pc[t] \in InstallsInto
    BY <1>15 DEF PromoteGameFails, Step, InstallsInto, InstallLabels
  <2>3. /\ registry' = registry /\ process' = process
        /\ \A j \in Instances : j # i => game'[j] = game[j] /\ aurora'[j] = aurora[j]
    BY <1>15, <2>1 DEF IInv, TypeOK, DiskOK, PromoteGameFails
  <2>4. Contract!Rework(i) \/ UNCHANGED Contract!vars
    BY <2>1, <2>2, <2>3, InstallingReworks
  <2> QED
    BY <2>4 DEF Contract!Next
<1>16. ASSUME NEW t \in Workers, InstallAurora(t) PROVE Contract!Next \/ UNCHANGED Contract!vars
  <2>1. PICK i \in Instances : target[t] = i
    BY <1>16, MainAssumption DEF IInv, TypeOK, LocalsOK, Threads, InstallAurora,
         Step
  <2>2. pc[t] \in InstallsInto
    BY <1>16 DEF InstallAurora, Step, InstallsInto, InstallLabels
  <2>3. /\ registry' = registry /\ process' = process
        /\ \A j \in Instances : j # i => game'[j] = game[j] /\ aurora'[j] = aurora[j]
    BY <1>16, <2>1 DEF IInv, TypeOK, DiskOK, InstallAurora
  <2>4. Contract!Rework(i) \/ UNCHANGED Contract!vars
    BY <2>1, <2>2, <2>3, InstallingReworks
  <2> QED
    BY <2>4 DEF Contract!Next
<1>17. ASSUME NEW t \in Workers, RollbackPack(t) PROVE Contract!Next \/ UNCHANGED Contract!vars
  <2>1. PICK i \in Instances : target[t] = i
    BY <1>17, MainAssumption DEF IInv, TypeOK, LocalsOK, Threads, RollbackPack,
         Step
  <2>2. pc[t] \in InstallsInto
    BY <1>17 DEF RollbackPack, Step, InstallsInto, InstallLabels
  <2>3. /\ registry' = registry /\ process' = process
        /\ \A j \in Instances : j # i => game'[j] = game[j] /\ aurora'[j] = aurora[j]
    BY <1>17, <2>1 DEF IInv, TypeOK, DiskOK, RollbackPack
  <2>4. Contract!Rework(i) \/ UNCHANGED Contract!vars
    BY <2>1, <2>2, <2>3, InstallingReworks
  <2> QED
    BY <2>4 DEF Contract!Next
<1>18. ASSUME NEW t \in Workers, CommitReady(t) \/ CompletePack(t) PROVE Contract!Next \/ UNCHANGED Contract!vars
  <2>1. PICK i \in Instances : target[t] = i
    BY <1>18, MainAssumption
       DEF IInv, TypeOK, LocalsOK, Threads, CommitReady, CompletePack, Step
  <2>2. Contract!Finish(i) \/ UNCHANGED Contract!vars
    BY <1>18, <2>1, ReadyFinishes
  <2> QED
    BY <2>2 DEF Contract!Next
<1>19. ASSUME NEW t \in Workers, AbandonPack(t) PROVE Contract!Next \/ UNCHANGED Contract!vars
  <2>1. PICK i \in Instances : target[t] = i
    BY <1>19, MainAssumption DEF IInv, TypeOK, LocalsOK, Threads, AbandonPack
  <2>2. CASE registry' = registry
    BY <1>19, <2>2, QuietStep DEF AbandonPack
  <2>3. CASE registry' = [registry EXCEPT ![i] = None]
    <3>1. UNCHANGED <<game, aurora, process>>
      BY <1>19 DEF AbandonPack
    <3>2. HasRow(i, "installing") /\ ~Blocks(process[i])
      BY <1>19, <2>1
         DEF AbandonPack, CInv, Stages, PackIsAlone, InstallsInto, InstallLabels
    <3>3. registry'[i] = None
      BY <2>3 DEF IInv, TypeOK, DiskOK
    <3>4. Phase(i) # "absent" /\ Phase(i)' = "absent" /\ ~Content(i)'
      BY <3>2, <3>3 DEF Phase, Content, HasRow
    <3>5. \A j \in Instances : j # i => Same(j)
      BY <2>3, <3>1, OthersSame DEF IInv, TypeOK, DiskOK
    <3>6. Contract!Forget(i)
      BY <3>1, <3>2, <3>4, <3>5, ForgetMatches
    <3> QED
      BY <3>6 DEF Contract!Next
  <2> QED
    BY <1>19, <2>1, <2>2, <2>3 DEF AbandonPack
<1>20. ASSUME NEW t \in Workers, DeleteRow(t) PROVE Contract!Next \/ UNCHANGED Contract!vars
  <2>1. PICK i \in Instances : target[t] = i
    BY <1>20, MainAssumption DEF IInv, TypeOK, LocalsOK, Threads, DeleteRow
  <2>2. HasRow(i, "ready") /\ ~Blocks(process[i])
    BY <1>20, <2>1
       DEF DeleteRow, IInv, MutationExcludesGame, MutatingLabels, CInv,
           CheckedRows, CheckedLabels
  <2>3. registry' = [registry EXCEPT ![i] = None] /\ UNCHANGED <<game, aurora, process>>
    BY <1>20, <2>1 DEF DeleteRow
  <2>4. registry'[i] = None
    BY <2>3 DEF IInv, TypeOK, DiskOK
  <2>5. Phase(i) # "absent" /\ Phase(i)' = "absent" /\ ~Content(i)'
    BY <2>2, <2>4 DEF Phase, Content, HasRow
  <2>6. \A j \in Instances : j # i => Same(j)
    BY <2>3, OthersSame DEF IInv, TypeOK, DiskOK
  <2>7. Contract!Forget(i)
    BY <2>2, <2>3, <2>5, <2>6, ForgetMatches
  <2> QED
    BY <2>7 DEF Contract!Next
<1>21. ASSUME NEW t \in Workers, DeleteFiles(t) PROVE Contract!Next \/ UNCHANGED Contract!vars
  <2>1. PICK i \in Instances : target[t] = i
    BY <1>21, MainAssumption DEF IInv, TypeOK, LocalsOK, Threads, DeleteFiles,
         Step
  <2>2. pc[t] \in MutatingLabels
    BY <1>21 DEF DeleteFiles, Step, MutatingLabels
  <2>3. registry'[i] # None /\ registry'[i].state \in {"ready", "installing"}
        /\ \A j \in Instances : j # i => registry'[j] = registry[j]
    BY <1>21, <2>1, <2>2 DEF DeleteFiles, CInv, CheckedRows, CheckedLabels,
         HasRow
  <2>4. /\ process' = process
        /\ \A j \in Instances : j # i => game'[j] = game[j] /\ aurora'[j] = aurora[j]
    BY <1>21, <2>1 DEF IInv, TypeOK, DiskOK, DeleteFiles
  <2>5. Contract!Rework(i)
    BY <2>1, <2>2, <2>3, <2>4, MutatingReworks
  <2> QED
    BY <2>5 DEF Contract!Next
<1>22. ASSUME NEW t \in Workers, DeleteFilesFails(t) PROVE Contract!Next \/ UNCHANGED Contract!vars
  <2>1. PICK i \in Instances : target[t] = i
    BY <1>22, MainAssumption DEF IInv, TypeOK, LocalsOK, Threads,
         DeleteFilesFails, Step
  <2>2. pc[t] \in MutatingLabels
    BY <1>22 DEF DeleteFilesFails, Step, MutatingLabels
  <2>3. registry'[i] # None /\ registry'[i].state \in {"ready", "installing"}
        /\ \A j \in Instances : j # i => registry'[j] = registry[j]
    BY <1>22, <2>1, <2>2 DEF DeleteFilesFails, CInv, CheckedRows, CheckedLabels,
         HasRow
  <2>4. /\ process' = process
        /\ \A j \in Instances : j # i => game'[j] = game[j] /\ aurora'[j] = aurora[j]
    BY <1>22, <2>1 DEF IInv, TypeOK, DiskOK, DeleteFilesFails
  <2>5. Contract!Rework(i)
    BY <2>1, <2>2, <2>3, <2>4, MutatingReworks
  <2> QED
    BY <2>5 DEF Contract!Next
<1>23. ASSUME NEW t \in Workers, ActivateTransition(t) PROVE Contract!Next \/ UNCHANGED Contract!vars
  <2>1. PICK i \in Instances : target[t] = i
    BY <1>23, MainAssumption DEF IInv, TypeOK, LocalsOK, Threads,
         ActivateTransition, Step
  <2>2. pc[t] \in MutatingLabels
    BY <1>23 DEF ActivateTransition, Step, MutatingLabels
  <2>3. registry'[i] # None /\ registry'[i].state \in {"ready", "installing"}
        /\ \A j \in Instances : j # i => registry'[j] = registry[j]
    BY <1>23, <2>1, <2>2 DEF ActivateTransition, CInv, CheckedRows,
         CheckedLabels, HasRow
  <2>4. /\ process' = process
        /\ \A j \in Instances : j # i => game'[j] = game[j] /\ aurora'[j] = aurora[j]
    BY <1>23, <2>1 DEF IInv, TypeOK, DiskOK, ActivateTransition
  <2>5. Contract!Rework(i)
    BY <2>1, <2>2, <2>3, <2>4, MutatingReworks
  <2> QED
    BY <2>5 DEF Contract!Next
<1>24. ASSUME NEW t \in Workers, PersistTransition(t) PROVE Contract!Next \/ UNCHANGED Contract!vars
  <2>1. PICK i \in Instances : target[t] = i
    BY <1>24, MainAssumption DEF IInv, TypeOK, LocalsOK, Threads,
         PersistTransition, Step
  <2>2. pc[t] \in MutatingLabels
    BY <1>24 DEF PersistTransition, Step, MutatingLabels
  <2>3. registry'[i] # None /\ registry'[i].state \in {"ready", "installing"}
        /\ \A j \in Instances : j # i => registry'[j] = registry[j]
    <3>1. PICK r \in Records :
            /\ r # None /\ r.state = "ready"
            /\ registry' = [registry EXCEPT ![i] = r]
      BY <1>24, <2>1, TransitionWrites DEF IInv, CInv
    <3> QED
      BY <3>1 DEF IInv, TypeOK, DiskOK
  <2>4. /\ process' = process
        /\ \A j \in Instances : j # i => game'[j] = game[j] /\ aurora'[j] = aurora[j]
    BY <1>24, <2>1 DEF IInv, TypeOK, DiskOK, PersistTransition
  <2>5. Contract!Rework(i)
    BY <2>1, <2>2, <2>3, <2>4, MutatingReworks
  <2> QED
    BY <2>5 DEF Contract!Next
<1>25. ASSUME NEW t \in Workers, RollbackTransition(t) PROVE Contract!Next \/ UNCHANGED Contract!vars
  <2>1. PICK i \in Instances : target[t] = i
    BY <1>25, MainAssumption DEF IInv, TypeOK, LocalsOK, Threads,
         RollbackTransition, Step
  <2>2. pc[t] \in MutatingLabels
    BY <1>25 DEF RollbackTransition, Step, MutatingLabels
  <2>3. registry'[i] # None /\ registry'[i].state \in {"ready", "installing"}
        /\ \A j \in Instances : j # i => registry'[j] = registry[j]
    <3>1. CASE registry' = registry
      BY <2>1, <2>2, <3>1 DEF CInv, CheckedRows, CheckedLabels, HasRow
    <3>2. CASE registry' = [registry EXCEPT ![i] = record[t]]
      <4>1. record[t] \in Records
        BY <2>2, MainAssumption
           DEF IInv, TypeOK, LocalsOK, RecordLabels, MutatingLabels, DeleteLabels,
               TransitionLabels, Threads
      <4>2. record[t].state \in {"ready", "installing"} /\ record[t] # None
        BY <4>1, NoneIsNoRecord DEF Records
      <4> QED
        BY <2>1, <3>2, <4>2 DEF IInv, TypeOK, DiskOK
    <3> QED
      BY <1>25, <2>1, <3>1, <3>2 DEF RollbackTransition
  <2>4. /\ process' = process
        /\ \A j \in Instances : j # i => game'[j] = game[j] /\ aurora'[j] = aurora[j]
    BY <1>25, <2>1 DEF IInv, TypeOK, DiskOK, RollbackTransition
  <2>5. Contract!Rework(i)
    BY <2>1, <2>2, <2>3, <2>4, MutatingReworks
  <2> QED
    BY <2>5 DEF Contract!Next
<1>26. CASE RenameInstance \/ UpdateConfiguration
  <2>1. PICK i \in Instances, r \in Records :
            /\ registry[i] # None /\ registryLock = None
            /\ r # None /\ r.state = registry[i].state
            /\ r.installed = registry[i].installed /\ r.pack = registry[i].pack
            /\ r.desired = registry[i].desired \/ r.state = "ready"
            /\ registry' = [registry EXCEPT ![i] = r]
    BY <1>26, WishWrites DEF IInv
  <2>2. UNCHANGED <<game, aurora, process>>
    BY <1>26 DEF RenameInstance, UpdateConfiguration
  <2>3. process[i] # "starting"
    BY <2>1, StartingIsReady
  <2>4. registry'[i] = r
    BY <2>1 DEF IInv, TypeOK, DiskOK
  <2>5. Phase(i) # "absent" /\ Phase(i)' = Phase(i)
    BY <2>1, <2>4 DEF Phase, IInv, TypeOK, DiskOK, Records
  <2>6. \A j \in Instances : j # i => Same(j)
    BY <2>1, <2>2, OthersSame DEF IInv, TypeOK, DiskOK
  <2>7. Contract!Rework(i)
    BY <2>2, <2>3, <2>5, <2>6, ReworkMatches
  <2> QED
    BY <2>7 DEF Contract!Next
<1>27. ASSUME NEW t \in Workers, StartProcess(t) PROVE Contract!Next \/ UNCHANGED Contract!vars
  <2>1. PICK i \in Instances : target[t] = i
    BY <1>27, MainAssumption DEF IInv, TypeOK, LocalsOK, Threads, StartProcess
  <2>2. UNCHANGED <<registry, game, aurora>>
    BY <1>27 DEF StartProcess
  <2>3. \A j \in Instances : Same(j)
    BY <2>2 DEF Same, Phase, Content, Complete
  <2>4. CASE Blocks(process[i])
    BY <1>27, <2>1, <2>2, <2>4, QuietStep DEF StartProcess
  <2>5. CASE ~Blocks(process[i])
    <3>1. process' = [process EXCEPT ![i] = "starting"]
      BY <1>27, <2>1, <2>5 DEF StartProcess
    <3>2. HasRow(i, "ready") /\ (Ready(i) \/ i \in crossed)
      BY <1>27, <2>1 DEF StartProcess, CInv, Bounded, CheckedRows, CheckedLabels
    <3>3. Phase(i) = "ready" /\ (Content(i) \/ i \in crossed)
      BY <3>2 DEF HasRow, Ready, Phase, Content
    <3>4. Contract!Launch(i)
      BY <2>3, <2>5, <3>1, <3>3, LaunchMatches
    <3> QED
      BY <3>4 DEF Contract!Next
  <2> QED
    BY <2>4, <2>5
<1>28. ASSUME NEW t \in Workers, SpawnProcess(t) PROVE Contract!Next \/ UNCHANGED Contract!vars
  <2>1. PICK i \in Instances : target[t] = i
    BY <1>28, MainAssumption DEF IInv, TypeOK, LocalsOK, Threads, SpawnProcess
  <2>2. PICK s \in {"running", "failed"} : process' = [process EXCEPT ![i] = s]
    BY <1>28, <2>1 DEF SpawnProcess
  <2>3. UNCHANGED <<registry, game, aurora>> /\ process[i] = "starting"
    BY <1>28, <2>1 DEF SpawnProcess, IInv, Starting
  <2>4. \A j \in Instances : Same(j)
    BY <2>3 DEF Same, Phase, Content, Complete
  <2>5. Contract!Spawned(i)
    BY <2>2, <2>3, <2>4, RunMatches
  <2> QED
    BY <2>5 DEF Contract!Next
<1>29. ASSUME NEW i \in Instances, ProcessExits(i) PROVE Contract!Next \/ UNCHANGED Contract!vars
  <2>1. PICK s \in {"exited", "failed"} : process' = [process EXCEPT ![i] = s]
    BY <1>29 DEF ProcessExits
  <2>2. UNCHANGED <<registry, game, aurora>> /\ process[i] = "running"
    BY <1>29 DEF ProcessExits
  <2>3. \A j \in Instances : Same(j)
    BY <2>2 DEF Same, Phase, Content, Complete
  <2>4. Contract!Exited(i)
    BY <2>1, <2>2, <2>3, RunMatches
  <2> QED
    BY <2>4 DEF Contract!Next
<1>30. CASE Crash
  <2>1. UNCHANGED <<registry, game, aurora>> /\ process' = Stopped
    BY <1>30 DEF Crash
  <2>2. \A j \in Instances : Same(j)
    BY <2>1 DEF Same, Phase, Content, Complete
  <2>3. Contract!Restart
    BY <2>1, <2>2, RunMatches DEF Stopped
  <2> QED
    BY <2>3 DEF Contract!Next
<1>31. CASE UNCHANGED vars
  BY <1>31, QuietStep DEF vars, launcher
<1> QED
  BY <1>1, <1>2, <1>3, <1>4, <1>5, <1>6, <1>7, <1>8, <1>9, <1>10, <1>11,
       <1>12, <1>13, <1>14, <1>15, <1>16, <1>17, <1>18, <1>19, <1>20, <1>21,
       <1>22, <1>23, <1>24, <1>25, <1>26, <1>27, <1>28, <1>29, <1>30, <1>31
       DEF Next, CommandNext, StartCommand, Continue, InstallStep, PlayStep, DeleteStep,
       TransitionStep, StartMain, ContinueMain

\* However commands interleave, an instance becomes ready only complete, is
\* launched only ready and complete, is not touched while it starts, and is
\* not deleted under its game: the commands implement InstanceContract, whose
\* promises about the content leave out the crossed instances.
THEOREM ContractIsKept == Spec => ImplementsContract
<1>1. Init => Contract!Init
  BY DEF Init, NoneYet, Stopped, Phase, Contract!Init
<1>2. IInv /\ CInv /\ [Next]_vars => [Contract!Next]_(Contract!vars)
  BY ContractStep
<1> QED
  BY <1>1, <1>2, ContractInvariance, InductiveInvariant, PTL
     DEF Spec, ImplementsContract, Contract!Spec

=============================================================================
