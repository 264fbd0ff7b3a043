------------------------- MODULE GameInstallProofs -------------------------
(***************************************************************************)
(* Theorems about GameInstall for any versions, any number of files, any   *)
(* batch size, and crashes at any step.  The invariant says of each of the *)
(* three trees what it may be at each phase (Sound), of the list of files  *)
(* that it is in plan order (Ordered), and where the game/ an attempt      *)
(* found is at each phase (Kept).                                          *)
(***************************************************************************)
EXTENDS GameInstall, TLAPS, FiniteSetTheorems

-----------------------------------------------------------------------------
(* The inductive invariant *)

\* A tree of exactly one version, verified, with its manifest.
Whole(tree) ==
    /\ tree \in Trees
    /\ Valid(tree)
    /\ tree.files = Plan(tree.manifest)

Filling == {"acquire", "settle", "materialize", "validate", "record"}

\* game/ and the retired tree are whole when they are there; the staged tree
\* holds files of the version being installed, has no manifest before the
\* last step, and is whole from then on.
Sound ==
    /\ game # None => Whole(game)
    /\ retired # None => Whole(retired)
    /\ phase \in Filling =>
        /\ staged \in Trees
        /\ staged.manifest = None
        /\ staged.files \subseteq Plan(version)
    /\ phase = "record" => Plan(version) \subseteq staged.files \ staged.bad
    /\ phase \in {"promote", "exchange"} => Whole(staged)

\* The files pushed so far are the first ones of the plan, in its order.
Ordered ==
    /\ Len(files) <= Size
    /\ \A n \in 1 .. Len(files) : files[n] = n
    /\ phase = "materialize" => Len(files) = Size
    /\ phase # "settle" => fetching = {}

\* The previous game/ is where it was until it is moved, and then in staging.
Kept ==
    /\ phase \in Filling \cup {"promote"} => game = before
    /\ phase = "exchange" => game = None /\ retired = before

IInv == TypeOK /\ Sound /\ Ordered /\ Kept

-----------------------------------------------------------------------------
\* A batch is the next interval of the plan, so settling it appends the
\* numbers that follow, and stays within the plan.
LEMMA BatchSize ==
    ASSUME NEW n \in Nat, n <= Size
    PROVE  /\ Cardinality(Batch(n)) \in Nat
           /\ n + Cardinality(Batch(n)) <= Size
<1> DEFINE last == IF n + Concurrency <= Size THEN n + Concurrency ELSE Size
<1>1. last \in Int /\ n <= last /\ last <= Size
  BY SizeAssumption, ConcurrencyAssumption
<1>2. Batch(n) = (n + 1) .. last
  BY SizeAssumption, ConcurrencyAssumption DEF Batch, Files
<1> HIDE DEF last
<1>3. Cardinality((n + 1) .. last) = IF n + 1 > last THEN 0 ELSE last - (n + 1) + 1
  <2>1. n + 1 \in Int
    OBVIOUS
  <2> QED
    BY <1>1, <2>1, FS_Interval
<1> QED
  BY <1>1, <1>2, <1>3, SizeAssumption

\* A list of files that is empty is one in plan order.
LEMMA NoFiles ==
    <<>> \in Seq(Files) /\ Len(<<>>) = 0 /\ 0 \in 0 .. Size
  BY SizeAssumption

\* An empty launcher satisfies the invariant.
LEMMA InitIInv == Init => IInv
<1> SUFFICES ASSUME Init PROVE IInv
  OBVIOUS
<1>1. TypeOK
  BY NoFiles DEF Init, TypeOK, Phases
<1>2. Sound /\ Kept
  BY DEF Init, Sound, Kept, Filling
<1>3. Ordered
  BY NoFiles, SizeAssumption DEF Init, Ordered
<1> QED
  BY <1>1, <1>2, <1>3 DEF IInv

\* Ending an attempt keeps the invariant when each tree stays what it is
\* allowed to be.
LEMMA EndIInv ==
    ASSUME IInv, End,
           game' \in {None, game, staged, retired}, game' # None => Whole(game'),
           staged' \in {None, staged},
           retired' \in {None, retired}
    PROVE  IInv'
<1>1. {game, staged, retired} \subseteq Trees \cup {None}
  BY DEF IInv, TypeOK
<1>2. {game', staged', retired', before'} \subseteq Trees \cup {None}
  BY <1>1 DEF End
<1>3. TypeOK'
  BY <1>2, NoFiles DEF End, TypeOK, Phases
<1>4. Sound' /\ Kept'
  BY DEF IInv, End, Sound, Kept, Filling, Whole, Valid
<1>5. Ordered'
  BY NoFiles, SizeAssumption DEF End, Ordered
<1> QED
  BY <1>3, <1>4, <1>5 DEF IInv

\* The settled batch continues the plan's order.
LEMMA SettleIInv ==
    ASSUME IInv, Settle
    PROVE  IInv'
<1>1. CASE failed /\ End
  BY <1>1, EndIInv DEF Settle, disk, IInv, Sound
<1>2. CASE ~failed /\ phase' = "acquire"
  <2> DEFINE size == Cardinality(Batch(Len(files)))
             batch == [n \in 1 .. size |-> Len(files) + n]
  <2>1. files \in Seq(Files) /\ Len(files) \in Nat /\ Len(files) <= Size
    BY DEF IInv, TypeOK, Ordered
  <2>2. size \in Nat /\ Len(files) + size <= Size
    BY <2>1, BatchSize
  <2> HIDE DEF size
  <2>3. batch \in Seq(Files) /\ Len(batch) = size
    <3>1. \A n \in 1 .. size : Len(files) + n \in Files
      BY <2>1, <2>2, SizeAssumption DEF Files
    <3> QED
      BY <2>2, <3>1
  <2>4. files' = files \o batch
    BY <1>2 DEF Settle, End, size
  <2>5. /\ UNCHANGED <<disk, version, replacing, fetching, failed, copied, before>>
        /\ phase = "settle" /\ fetching = {}
    BY <1>2 DEF Settle, End
  <2>6. /\ files' \in Seq(Files)
        /\ Len(files') = Len(files) + size
        /\ \A n \in 1 .. Len(files') : files'[n] = n
    <3>1. files' \in Seq(Files) /\ Len(files') = Len(files) + size
      BY <2>1, <2>2, <2>3, <2>4
    <3>2. ASSUME NEW n \in 1 .. Len(files') PROVE files'[n] = n
      <4>1. CASE n <= Len(files)
        BY <2>1, <2>2, <2>3, <2>4, <3>1, <3>2, <4>1 DEF IInv, Ordered
      <4>2. CASE n > Len(files)
        BY <2>1, <2>2, <2>3, <2>4, <3>1, <3>2, <4>2
      <4> QED
        BY <4>1, <4>2, <2>1, <2>2, <3>1, <3>2
    <3> QED
      BY <3>1, <3>2
  <2>7. TypeOK'
    BY <1>2, <2>5, <2>6 DEF IInv, TypeOK, Phases, disk
  <2>8. Sound' /\ Kept'
    BY <1>2, <2>5 DEF IInv, Sound, Kept, Filling, disk, Whole, Valid
  <2>9. Ordered'
    BY <1>2, <2>2, <2>5, <2>6 DEF Ordered
  <2> QED
    BY <2>7, <2>8, <2>9 DEF IInv
<1> QED
  BY <1>1, <1>2 DEF Settle

\* Copying a file adds it to the staged tree, verified or not.
LEMMA MaterializeIInv ==
    ASSUME IInv, Materialize
    PROVE  IInv'
<1> DEFINE file == <<version, files[copied + 1]>>
<1>1. /\ phase = "materialize" /\ phase' = phase /\ copied < Size
      /\ copied' = copied + 1
      /\ UNCHANGED <<game, retired, version, replacing, files, fetching,
                     failed, before>>
  BY DEF Materialize
<1>2. PICK bad \in SUBSET {file} :
        staged' = [staged EXCEPT !.files = @ \cup {file},
                                 !.bad = (@ \ {file}) \cup bad]
  BY DEF Materialize
<1>3. /\ staged \in Trees /\ staged.manifest = None
      /\ staged.files \subseteq Plan(version)
      /\ version \in Versions
  BY <1>1 DEF IInv, TypeOK, Sound, Filling
<1>4. files[copied + 1] \in Files
  BY <1>1, SizeAssumption DEF IInv, TypeOK, Ordered, Files
<1>5. file \in Plan(version) /\ file \in Planned
  BY <1>3, <1>4 DEF Plan, Planned
<1> HIDE DEF file
<1>6. /\ staged' \in Trees /\ staged'.manifest = None
      /\ staged'.files \subseteq Plan(version)
  BY <1>2, <1>3, <1>5 DEF Trees
<1>7. TypeOK'
  BY <1>1, <1>6, NoneIsNoTree, SizeAssumption DEF IInv, TypeOK, Phases
<1>8. Sound'
  BY <1>1, <1>6 DEF IInv, Sound, Filling, Whole, Valid
<1>9. Ordered' /\ Kept'
  BY <1>1 DEF IInv, Ordered, Kept, Filling
<1> QED
  BY <1>7, <1>8, <1>9 DEF IInv

\* Every step of an attempt, and a crash, preserves the invariant.
LEMMA NextIInv == IInv /\ [Next]_vars => IInv'
<1> SUFFICES ASSUME IInv, [Next]_vars PROVE IInv'
  OBVIOUS
<1>1. CASE Begin
  <2>1. EmptyTree \in Trees /\ EmptyTree.files = {} /\ EmptyTree.manifest = None
    BY DEF EmptyTree, Trees
  <2> QED
    BY <1>1, <2>1, NoneIsNoTree
    DEF IInv, Begin, PrepareStaging, TypeOK, Phases, Sound, Ordered, Kept,
        Filling, Whole, Valid
<1>2. CASE StartBatch
  BY <1>2 DEF StartBatch, IInv, disk, TypeOK, Phases, Sound, Ordered, Kept,
              Filling, Whole, Valid, Batch
<1>3. ASSUME NEW k \in Files, Fetched(k) PROVE IInv'
  BY <1>3 DEF Fetched, IInv, disk, TypeOK, Sound, Ordered, Kept, Whole, Valid
<1>4. CASE Settle
  BY <1>4, SettleIInv
<1>5. CASE StartMaterializing
  BY <1>5, NoneIsNoTree
  DEF StartMaterializing, IInv, disk, TypeOK, Phases, Sound, Ordered, Kept,
      Filling, Whole, Valid
<1>6. CASE Materialize
  BY <1>6, MaterializeIInv
<1>7. CASE StartValidating
  BY <1>7 DEF StartValidating, IInv, disk, TypeOK, Phases, Sound, Ordered,
              Kept, Filling, Whole, Valid
<1>8. CASE ValidateStaged
  BY <1>8 DEF ValidateStaged, IInv, disk, TypeOK, Phases, Sound, Ordered, Kept,
              Filling, Whole, Valid
<1>9. CASE RecordState
  <2>1. /\ staged \in Trees /\ staged.files = Plan(version)
        /\ Plan(version) \subseteq staged.files \ staged.bad
        /\ version \in Versions
    BY <1>9 DEF RecordState, IInv, TypeOK, Sound, Filling
  <2>2. Whole(staged')
    BY <1>9, <2>1, NoneAssumption, NoneIsNoTree
    DEF RecordState, Whole, Valid, Trees
  <2> QED
    BY <1>9, <2>2, NoneIsNoTree
    DEF RecordState, IInv, TypeOK, Phases, Sound, Ordered, Kept, Filling, Whole,
        Valid
<1>10. CASE Fail
  BY <1>10, EndIInv DEF Fail, disk, IInv, Sound
<1>11. CASE PromoteFresh
  BY <1>11 DEF PromoteFresh, IInv, TypeOK, Phases, Sound, Ordered, Kept,
               Filling, Whole, Valid
<1>12. CASE RetirePrevious
  BY <1>12 DEF RetirePrevious, IInv, TypeOK, Phases, Sound, Ordered, Kept,
               Filling, Whole, Valid
<1>13. CASE PromoteReplacement
  BY <1>13 DEF PromoteReplacement, IInv, TypeOK, Phases, Sound, Ordered, Kept,
               Filling, Whole, Valid
<1>14. CASE RestorePrevious
  BY <1>14, EndIInv DEF RestorePrevious, IInv, Sound
<1>15. CASE Clean
  BY <1>15, EndIInv DEF Clean, IInv, Sound
<1>16. CASE Crash
  BY <1>16, EndIInv DEF Crash, disk, IInv, Sound
<1>17. CASE UNCHANGED vars
  BY <1>17 DEF vars, disk, attempt, IInv, TypeOK, Sound, Ordered, Kept, Whole,
               Valid
<1> QED
  BY <1>1, <1>2, <1>3, <1>4, <1>5, <1>6, <1>7, <1>8, <1>9, <1>10, <1>11, <1>12,
     <1>13, <1>14, <1>15, <1>16, <1>17 DEF Next, Work

-----------------------------------------------------------------------------
(* The theorems *)

\* The invariant holds in every behaviour of install_game, crashes included.
THEOREM Invariance == Spec => []IInv
  BY InitIInv, NextIInv, PTL DEF Spec

\* Every variable keeps its type, and a staged tree is there at every step
\* that works on it.
THEOREM TypeCorrectness == Spec => []TypeOK
<1>1. IInv => TypeOK
  BY DEF IInv
<1> QED
  BY <1>1, Invariance, PTL

\* install_game: game/ is absent or one version's verified files with their
\* manifest, whatever fails and whenever the launcher dies.
THEOREM WholeOrAbsent == Spec => []GameIsWholeOrAbsent
<1>1. IInv => GameIsWholeOrAbsent
  BY DEF IInv, Sound, Whole, GameIsWholeOrAbsent
<1> QED
  BY <1>1, Invariance, PTL

\* install_game and its join_all: an attempt that is over, however it ended,
\* has left no acquisition running.
THEOREM NoneAbandoned == Spec => []NothingInFlight
<1>1. IInv => NothingInFlight
  BY DEF IInv, Ordered, NothingInFlight
<1> QED
  BY <1>1, Invariance, PTL

\* install_game: the classpath has the order of the plan, in whatever order
\* the acquisitions of a batch complete.
THEOREM ClasspathOrder == Spec => []ClasspathInOrder
<1>1. IInv => ClasspathInOrder
  BY DEF IInv, Ordered, ClasspathInOrder
<1> QED
  BY <1>1, Invariance, PTL

\* promote_staged_game: an attempt that ends without success has left game/
\* as it found it, or moved it into staging.
THEOREM FailureIsHarmless == Spec => FailureDestroysNothing
<1>1. IInv /\ [Next]_vars =>
        ((phase # "idle" /\ phase' = "idle" /\ phase # "clean")
          => \/ game' = before
             \/ phase = "exchange" /\ game' = None /\ retired' = before)
  <2> SUFFICES ASSUME IInv, [Next]_vars, phase # "idle", phase' = "idle",
                      phase # "clean"
               PROVE  \/ game' = before
                      \/ phase = "exchange" /\ game' = None /\ retired' = before
    OBVIOUS
  <2>1. phase \in Phases \ {"idle", "clean"}
    BY DEF IInv, TypeOK
  <2>2. CASE Settle \/ Fail \/ Crash
    BY <2>1, <2>2 DEF Settle, Fail, Crash, disk, IInv, Kept, Filling, Phases
  <2>3. CASE RestorePrevious
    BY <2>3 DEF RestorePrevious, IInv, Kept
  <2>4. Settle \/ Fail \/ Crash \/ RestorePrevious
    BY DEF Next, Work, Begin, StartBatch, Fetched, StartMaterializing,
           Materialize, StartValidating, ValidateStaged, RecordState,
           PromoteFresh, RetirePrevious, PromoteReplacement, Clean, vars, attempt
  <2> QED
    BY <2>2, <2>3, <2>4
<1> QED
  BY <1>1, Invariance, PTL DEF Spec, FailureDestroysNothing
=============================================================================
