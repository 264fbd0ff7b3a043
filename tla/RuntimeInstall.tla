---------------------------- MODULE RuntimeInstall ----------------------------
(***************************************************************************)
(* Shared Java runtimes.  ensure_runtime takes the lock of one runtime     *)
(* without waiting, reuses what is valid, and otherwise acquires the files *)
(* through the artifact cache, copies them into staging, marks the staged  *)
(* tree complete and exchanges it with what is at the runtime's place.     *)
(* Several commands need runtimes at once; operations fail, files change   *)
(* from outside, and the launcher may die at any step.                     *)
(***************************************************************************)
EXTENDS ArtifactCache

CONSTANTS
    Runtimes, \* runtimes, by identity
    Plan,     \* the files of each
    Calls     \* bound: how often ensure_runtime is called

ASSUME PlanAssumption == Plan \in [Runtimes -> (SUBSET (Files \ Hinted)) \ {{}}]
ASSUME CallsAssumption == Calls \in Nat
ASSUME WorkersAssumption == None \notin Workers

VARIABLES
    root,       \* the tree at the place of each runtime
    staging,    \* its .installing- directory: the staged and the retired tree
    locks,      \* who holds the lock of each runtime
    doing,      \* the call of each command
    calls,
    tampered,   \* runtimes changed from outside
    orphaned    \* those whose exchange the launcher died in, or could not undo

runtimeVars == <<root, staging, locks, doing, calls, tampered, orphaned>>
vars == <<cacheVars, runtimeVars>>

\* A tree of files; mark is whose completion state it has, if any.
Tree == [files : [Files -> {None, "mixed"} \cup Files], mark : {"none", "own"}]
Empty == [files |-> [f \in Files |-> None], mark |-> "none"]
ASSUME NoneIsNoTree == None \notin Tree
Stagings == [is : BOOLEAN, staged : Tree \cup {None}, retired : Tree \cup {None}]
NoStaging == [is |-> FALSE, staged |-> None, retired |-> None]

Idle == [step |-> "idle", runtime |-> None, replacing |-> FALSE, copied |-> {}]
Steps ==
    {"idle", "validate", "acquire", "stage", "copy", "check", "mark", "retire",
     "promote", "restore", "clean", "final", "fetch"}
Doings ==
    [step : Steps, runtime : Runtimes \cup {None}, replacing : BOOLEAN, copied : SUBSET Files]

TypeOK ==
    /\ CacheTypeOK
    /\ root \in [Runtimes -> Tree \cup {None}]
    /\ staging \in [Runtimes -> Stagings]
    /\ locks \in [Runtimes -> Workers \cup {None}]
    /\ doing \in [Workers -> Doings]
    /\ calls \in 0 .. Calls /\ tampered \subseteq Runtimes /\ orphaned \subseteq Runtimes

Whole(r) ==
    [files |-> [f \in Files |-> IF f \in Plan[r] THEN f ELSE None], mark |-> "own"]

\* Nothing, a valid runtime, a damaged one, or a tree of somebody else.
Init ==
    /\ CacheInit
    /\ root \in [Runtimes -> {None, Empty} \cup
            UNION {{Whole(r), [Whole(r) EXCEPT !.files[CHOOSE f \in Plan[r] : TRUE] = "mixed"]}
                    : r \in Runtimes}]
    /\ \A r \in Runtimes : root[r] \notin {None, Empty} =>
        \A f \in Files : (root[r].files[f] = None) = (f \notin Plan[r])
    /\ staging = [r \in Runtimes |-> NoStaging]
    /\ locks = [r \in Runtimes |-> None]
    /\ doing = [w \in Workers |-> Idle]
    /\ calls = 0 /\ orphaned = {}
    /\ tampered = {r \in Runtimes : root[r] \notin {None, Whole(r)}}

-----------------------------------------------------------------------------

\* validate_runtime: the state is there and every file hashes.
Ready(r) == root[r] # None /\ root[r].mark = "own" /\ \A f \in Plan[r] : root[r].files[f] = f

\* Mutant: a directory is replaced whatever it holds.
ReplaceableAnyway(r) == TRUE

\* decide_replacement: only what its state proves to be this runtime.
Replaceable(r) == root[r] # None => root[r].mark = "own"

Goto(w, step) == doing' = [doing EXCEPT ![w].step = step]

\* A call that returns drops the lock.
Returns(w) ==
    /\ doing' = [doing EXCEPT ![w] = Idle]
    /\ locks' = [locks EXCEPT ![doing[w].runtime] = None]

CacheRests == UNCHANGED <<cache, spoiled>>
Settled == [w \in Workers |-> [f \in Files |-> NoAcquisition]]

\* A second call for one runtime fails at once.
Enter(w, r) ==
    /\ doing[w].step = "idle" /\ calls < Calls /\ calls' = calls + 1
    /\ IF locks[r] = None
       THEN /\ locks' = [locks EXCEPT ![r] = w]
            /\ doing' = [doing EXCEPT ![w] =
                    [Idle EXCEPT !.step = "validate", !.runtime = r]]
       ELSE UNCHANGED <<locks, doing>>
    /\ CacheRests /\ Calm /\ UNCHANGED <<acquiring, root, staging, tampered, orphaned>>

\* Reuse, refuse, or start the downloads with a new cache object.
Validate(w) ==
    LET r == doing[w].runtime
    IN /\ doing[w].step = "validate"
       /\ \/ /\ Replaceable(r) => Ready(r)
             /\ Returns(w) /\ Calm /\ UNCHANGED <<acquiring, named>>
          \/ /\ ~Ready(r) /\ Replaceable(r)
             /\ doing' = [doing EXCEPT ![w].step = "acquire", ![w].replacing = root[r] # None]
             /\ acquiring' = [acquiring EXCEPT ![w] = [f \in Files |->
                    IF f \in Plan[r] THEN [NoAcquisition EXCEPT !.step = "look"]
                    ELSE NoAcquisition]]
             /\ named' = [named EXCEPT ![w] = 0]
             /\ Calm /\ UNCHANGED locks
          \/ Returns(w) /\ Fault /\ UNCHANGED <<acquiring, named>>
       /\ UNCHANGED <<store, hints, parts, spoiled, root, staging, calls, tampered, orphaned>>

\* The batch is settled before an error of it returns.
Acquired(w) ==
    /\ doing[w].step = "acquire"
    /\ \A f \in Files : acquiring[w][f].step \notin Running
    /\ IF \E f \in Files : At(w, f, "failed")
       THEN Returns(w)
       ELSE Goto(w, "stage") /\ UNCHANGED locks
    /\ acquiring' = [acquiring EXCEPT ![w] = Settled[w]]
    /\ CacheRests /\ Calm /\ UNCHANGED <<root, staging, calls, tampered, orphaned>>

\* Any other command of the launcher that needs one artifact.
Fetch(w, f) ==
    /\ doing[w].step = "idle" /\ calls < Calls /\ calls' = calls + 1
    /\ f \in Hinted
    /\ doing' = [doing EXCEPT ![w].step = "fetch"]
    /\ acquiring' = [acquiring EXCEPT ![w][f].step = "look"]
    /\ named' = [named EXCEPT ![w] = 0]
    /\ Calm
    /\ UNCHANGED <<store, hints, parts, spoiled, root, staging, locks, tampered, orphaned>>

Fetched(w) ==
    /\ doing[w].step = "fetch"
    /\ \A f \in Files : acquiring[w][f].step \notin Running
    /\ doing' = [doing EXCEPT ![w] = Idle]
    /\ acquiring' = [acquiring EXCEPT ![w] = Settled[w]]
    /\ CacheRests /\ Calm /\ UNCHANGED <<root, staging, locks, calls, tampered, orphaned>>

-----------------------------------------------------------------------------

\* prepare_staging clears whatever an earlier attempt left.
Stage(w) ==
    LET r == doing[w].runtime
    IN /\ doing[w].step = "stage"
       /\ \/ /\ staging' = [staging EXCEPT ![r] =
                    [is |-> TRUE, staged |-> Empty, retired |-> None]]
             /\ Goto(w, "copy") /\ Calm /\ UNCHANGED locks
          \/ Returns(w) /\ Fault /\ UNCHANGED staging
       /\ CacheRests /\ UNCHANGED <<acquiring, root, calls, tampered, orphaned>>

\* The bytes the slot has by now; only their number is compared.
Copy(w, f) ==
    LET r == doing[w].runtime
    IN /\ doing[w].step = "copy" /\ f \in Plan[r] \ doing[w].copied
       /\ \/ /\ store[f] \in {f, "mixed"} /\ staging[r].staged # None
             /\ staging' = [staging EXCEPT ![r].staged.files[f] = store[f]]
             /\ doing' = [doing EXCEPT ![w].copied = @ \cup {f}]
             /\ Calm /\ UNCHANGED locks
          \/ /\ \/ (store[f] \notin {f, "mixed"} \/ staging[r].staged = None) /\ Calm
                \/ Fault
             /\ Returns(w) /\ UNCHANGED staging
       /\ CacheRests /\ UNCHANGED <<acquiring, root, calls, tampered, orphaned>>

\* Mutant: what was copied is what was acquired.
Unchecked(tree, r) == \A f \in Plan[r] : tree.files[f] # None

\* validate_root_against_state, before the state is written.
Checked(tree, r) == \A f \in Plan[r] : tree.files[f] = f

Check(w) ==
    LET r == doing[w].runtime
    IN /\ doing[w].step = "copy" /\ doing[w].copied = Plan[r]
       /\ \/ /\ staging[r].staged # None /\ Checked(staging[r].staged, r)
             /\ staging' = [staging EXCEPT ![r].staged.mark = "own"]
             /\ Goto(w, IF doing[w].replacing THEN "retire" ELSE "promote")
             /\ Calm /\ UNCHANGED locks
          \/ /\ \/ ~(staging[r].staged # None /\ Checked(staging[r].staged, r)) /\ Calm
                \/ Fault
             /\ Returns(w) /\ UNCHANGED staging
       /\ CacheRests /\ UNCHANGED <<acquiring, root, calls, tampered, orphaned>>

\* promote_staged_runtime: the runtime that is there goes into staging.
Retire(w) ==
    LET r == doing[w].runtime
    IN /\ doing[w].step = "retire"
       /\ \/ /\ root[r] # None
             /\ staging' = [staging EXCEPT ![r].retired = root[r]]
             /\ root' = [root EXCEPT ![r] = None]
             /\ Goto(w, "promote") /\ Calm /\ UNCHANGED locks
          \/ /\ \/ root[r] = None /\ Calm
                \/ Fault
             /\ Returns(w) /\ UNCHANGED <<root, staging>>
       /\ CacheRests /\ UNCHANGED <<acquiring, calls, tampered, orphaned>>

\* A tree at the place is never overwritten.
Promote(w) ==
    LET r == doing[w].runtime
    IN /\ doing[w].step = "promote"
       /\ \/ /\ root[r] = None /\ staging[r].staged # None
             /\ root' = [root EXCEPT ![r] = staging[r].staged]
             /\ staging' = [staging EXCEPT ![r].staged = None]
             /\ tampered' = tampered \ {r}
             /\ Goto(w, "clean") /\ Calm /\ UNCHANGED locks
          \/ /\ \/ ~(root[r] = None /\ staging[r].staged # None) /\ Calm
                \/ Fault
             /\ IF doing[w].replacing THEN Goto(w, "restore") /\ UNCHANGED locks ELSE Returns(w)
             /\ UNCHANGED <<root, staging, tampered>>
       /\ CacheRests /\ UNCHANGED <<acquiring, calls, orphaned>>

\* Whether this works is not looked at.
Restore(w) ==
    LET r == doing[w].runtime
    IN /\ doing[w].step = "restore"
       /\ \/ /\ root[r] = None /\ staging[r].retired # None
             /\ root' = [root EXCEPT ![r] = staging[r].retired]
             /\ staging' = [staging EXCEPT ![r].retired = None]
             /\ Calm /\ UNCHANGED orphaned
          \/ /\ \/ ~(root[r] = None /\ staging[r].retired # None) /\ Calm
                \/ Fault
             /\ orphaned' = orphaned \cup {r} /\ UNCHANGED <<root, staging>>
       /\ Returns(w)
       /\ CacheRests /\ UNCHANGED <<acquiring, calls, tampered>>

Clean(w) ==
    LET r == doing[w].runtime
    IN /\ doing[w].step = "clean"
       /\ \/ staging' = [staging EXCEPT ![r] = NoStaging] /\ Calm
          \/ Fault /\ UNCHANGED staging
       /\ Goto(w, "final")
       /\ CacheRests /\ UNCHANGED <<acquiring, root, locks, calls, tampered, orphaned>>

\* The runtime is validated once more, and Java may be run.
Final(w) ==
    /\ doing[w].step = "final"
    /\ Returns(w)
    /\ CacheRests /\ Calm /\ UNCHANGED <<acquiring, root, staging, calls, tampered, orphaned>>

-----------------------------------------------------------------------------

\* A file of an installed runtime changes from outside.
SpoilRuntime(r, f) ==
    /\ Upset("spoil")
    /\ root[r] # None /\ f \in Plan[r]
    /\ root' = [root EXCEPT ![r].files[f] = "mixed"]
    /\ tampered' = tampered \cup {r}
    /\ CacheRests /\ UNCHANGED <<acquiring, staging, locks, doing, calls, orphaned>>

Crash ==
    /\ Upset("crash")
    /\ \E w \in Workers : doing[w].step # "idle"
    /\ orphaned' = orphaned \cup {doing[w].runtime :
            w \in {v \in Workers : doing[v].step \in {"promote", "restore"} /\ doing[v].replacing}}
    /\ doing' = [w \in Workers |-> Idle] /\ locks' = [r \in Runtimes |-> None]
    /\ acquiring' = Settled
    /\ CacheRests /\ UNCHANGED <<root, staging, calls, tampered>>

Install(w) ==
    \/ \E r \in Runtimes : Enter(w, r)
    \/ Validate(w) \/ Acquired(w) \/ Stage(w) \/ Check(w)
    \/ Fetched(w)
    \/ \E f \in Files : Copy(w, f) \/ Fetch(w, f)
    \/ Retire(w) \/ Promote(w) \/ Restore(w) \/ Clean(w) \/ Final(w)

Download(w) ==
    /\ \E f \in Files : Acquire(w, f)
    /\ UNCHANGED runtimeVars

Outside ==
    \/ \E f \in Files : SpoilStore(f) /\ UNCHANGED runtimeVars
    \/ \E r \in Runtimes, f \in Files : SpoilRuntime(r, f)

Next == (\E w \in Workers : Install(w) \/ Download(w)) \/ Outside \/ Crash

Spec == Init /\ [][Next]_vars

-----------------------------------------------------------------------------

\* A runtime with its completion state has every file of the plan as
\* published, unless it was changed from outside: "completion marker written
\* last", over bytes hashed after they were copied.
RuntimeIsWhole ==
    \A r \in Runtimes \ tampered :
        root[r] # None /\ root[r].mark = "own" => Ready(r)

\* Two installations of one runtime never share its staging: what is staged
\* is what this one copied.
StagedIsMine ==
    \A w \in Workers : doing[w].step = "copy" =>
        LET tree == staging[doing[w].runtime].staged
        IN tree # None /\ {f \in Files : tree.files[f] # None} = doing[w].copied

\* "The previous runtime was restored": an installation that is over leaves a
\* runtime where there was one, unless the launcher died or restoring failed.
RuntimeStays ==
    \A r \in Runtimes \ orphaned :
        (locks[r] = None /\ staging[r].retired # None) => root[r] # None

\* A tree without this runtime's completion state stays where it is.
ForeignTreesStay ==
    [][\A r \in Runtimes :
        (root[r] # None /\ root[r].mark # "own" /\ upsets' = upsets) => root'[r] = root[r]]_vars

\* Nobody downloads for a call that has returned, or holds its lock.
NothingLeaks ==
    /\ \A w \in Workers : doing[w].step \notin {"acquire", "fetch"} =>
        \A f \in Files : acquiring[w][f].step \notin Running
    /\ \A r \in Runtimes : locks[r] # None =>
        doing[locks[r]].step # "idle" /\ doing[locks[r]].runtime = r

\* A marked runtime is whole, and every tree under construction holds what its
\* one owner copied, through every exchange; locks and acquisitions belong to
\* the command at the step that uses them.
RuntimeHolds == TypeOK /\ RuntimeIsWhole /\ StagedIsMine /\ RuntimeStays /\ NothingLeaks

\* The store of digests holds only what its digests name, and the runtimes
\* copied from it are whole when they are marked so.
RuntimesHold == StoreIsSound /\ RuntimeHolds
=============================================================================
