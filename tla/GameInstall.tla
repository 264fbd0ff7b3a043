---------------------------- MODULE GameInstall ----------------------------
(***************************************************************************)
(* install_game for one instance: acquisition in batches, materialization  *)
(* into .install-staging/game, staged validation, the manifest written     *)
(* last, and the promotion that exchanges the staged tree with the         *)
(* previous game/ by two renames.  The launcher may die between any two    *)
(* steps; what is on disk survives.                                        *)
(*                                                                         *)
(* InstanceLifecycle takes an attempt as four steps and the trees as whole *)
(* versions; this module says why that is enough.                          *)
(***************************************************************************)
EXTENDS Naturals, Sequences, FiniteSets

CONSTANTS
    Versions,      \* what an attempt can be asked to install
    Size,          \* files of a plan, in classpath order
    Concurrency,   \* small_artifact_concurrency: acquisitions of a batch
    Crashes,       \* may the launcher die?
    None

ASSUME SizeAssumption == Size \in Nat \ {0}
ASSUME ConcurrencyAssumption == Concurrency \in Nat \ {0}
ASSUME NoneAssumption == None \notin Versions

Files == 1 .. Size

\* One file of one version's plan.
Planned == Versions \X Files

\* A game tree: the files in it, those of them whose bytes are not what was
\* acquired, and the version its manifest describes.
Trees ==
    [files : SUBSET Planned, bad : SUBSET Planned,
     manifest : Versions \cup {None}]

ASSUME NoneIsNoTree == None \notin Trees

EmptyTree == [files |-> {}, bad |-> {}, manifest |-> None]

Plan(v) == {v} \X Files

Batch(n) == {k \in Files : n < k /\ k <= n + Concurrency}

VARIABLES
    \* on disk
    game,        \* game/, or None
    staged,      \* .install-staging/game, or None
    retired,     \* .install-staging/<replaced game>, or None
    \* the attempt
    phase,       \* the step it is at, "idle" when there is none
    version,     \* what it installs
    replacing,   \* decide_replacement's answer
    files,       \* the planned files, in the order they were pushed
    fetching,    \* acquisitions of the batch still in flight
    failed,      \* did one of the batch fail?
    copied,      \* files materialized so far
    before       \* game/ as the attempt found it

disk == <<game, staged, retired>>
attempt == <<phase, version, replacing, files, fetching, failed, copied, before>>
vars == <<disk, attempt>>

Phases ==
    {"idle", "acquire", "settle", "materialize", "validate", "record",
     "promote", "exchange", "clean"}

\* validate_installed_game: manifest present, every file it names verified.
Valid(tree) ==
    /\ tree # None
    /\ tree.manifest # None
    /\ Plan(tree.manifest) \subseteq tree.files \ tree.bad

-----------------------------------------------------------------------------
\* The attempt is over; its memory is dropped.
End ==
    /\ phase' = "idle"
    /\ version' = None
    /\ replacing' = FALSE
    /\ files' = <<>>
    /\ fetching' = {}
    /\ failed' = FALSE
    /\ copied' = 0
    /\ before' = None

\* Mutant: staging is created, not emptied first.
PrepareStagingKeeps ==
    /\ staged' = IF staged = None THEN EmptyTree ELSE staged
    /\ retired' = retired

\* prepare_staging: whatever an earlier attempt left goes.
PrepareStaging ==
    /\ staged' = EmptyTree
    /\ retired' = None

\* decide_replacement: no game/, or one with a manifest; anything else is a
\* conflict and nothing is touched.
Begin ==
    /\ phase = "idle"
    /\ game # None => game.manifest # None
    /\ PrepareStaging
    /\ \E v \in Versions : version' = v
    /\ replacing' = (game # None)
    /\ before' = game
    /\ phase' = "acquire"
    /\ UNCHANGED <<game, files, fetching, failed, copied>>

\* The next batch of acquisitions starts.
StartBatch ==
    /\ phase = "acquire"
    /\ Len(files) < Size
    /\ fetching' = Batch(Len(files))
    /\ phase' = "settle"
    /\ UNCHANGED <<disk, version, replacing, files, failed, copied, before>>

\* One acquisition of the batch completes, out of order, perhaps with an
\* error.
Fetched(k) ==
    /\ k \in fetching
    /\ fetching' = fetching \ {k}
    /\ failed' \in {failed, TRUE}
    /\ UNCHANGED <<disk, phase, version, replacing, files,
                   copied, before>>

\* Mutant: a batch is pushed in the order of its completion.
SettleBackwards ==
    /\ phase = "settle"
    /\ fetching = {}
    /\ ~failed
    /\ files' = files \o [n \in 1 .. Cardinality(Batch(Len(files))) |->
                              Len(files) + Cardinality(Batch(Len(files))) + 1 - n]
    /\ phase' = "acquire"
    /\ UNCHANGED <<disk, version, replacing, fetching, failed, copied, before>>

\* Mutant: a failed batch is started over.
SettleRetries ==
    /\ phase = "settle"
    /\ fetching = {}
    /\ failed' = FALSE
    /\ files' = IF failed THEN files
                ELSE files \o [n \in 1 .. Cardinality(Batch(Len(files))) |->
                                   Len(files) + n]
    /\ phase' = "acquire"
    /\ UNCHANGED <<disk, version, replacing, fetching, copied, before>>

\* join_all: the whole batch has settled; its files are pushed in plan order,
\* or the attempt fails with the first error.
Settle ==
    /\ phase = "settle"
    /\ fetching = {}
    /\ \/ failed /\ End
       \/ /\ ~failed
          /\ files' = files \o [n \in 1 .. Cardinality(Batch(Len(files))) |->
                                    Len(files) + n]
          /\ phase' = "acquire"
          /\ UNCHANGED <<version, replacing, fetching, failed, copied, before>>
    /\ UNCHANGED disk

\* Everything is acquired.
StartMaterializing ==
    /\ phase = "acquire"
    /\ Len(files) = Size
    /\ phase' = "materialize"
    /\ UNCHANGED <<disk, version, replacing, files, fetching, failed, copied,
                   before>>

\* materialize_file: the copy has the right length; its bytes are checked
\* later.
Materialize ==
    /\ phase = "materialize"
    /\ copied < Size
    /\ LET file == <<version, files[copied + 1]>>
       IN  \E bad \in SUBSET {file} :
            staged' = [staged EXCEPT !.files = @ \cup {file},
                                     !.bad = (@ \ {file}) \cup bad]
    /\ copied' = copied + 1
    /\ UNCHANGED <<game, retired, phase, version, replacing, files,
                   fetching, failed, before>>

\* Natives are extracted and the loader's processors run, in the staged tree.
StartValidating ==
    /\ phase = "materialize"
    /\ copied = Size
    /\ phase' = "validate"
    /\ UNCHANGED <<disk, version, replacing, files, fetching, failed, copied,
                   before>>

\* validate_staged_files: every planned file is hashed again.
ValidateStaged ==
    /\ phase = "validate"
    /\ Plan(version) \subseteq staged.files \ staged.bad
    /\ phase' = "record"
    /\ UNCHANGED <<disk, version, replacing, files, fetching, failed, copied,
                   before>>

\* The manifest is the last file written into staging.
RecordState ==
    /\ phase = "record"
    /\ staged' = [staged EXCEPT !.manifest = version]
    /\ phase' = "promote"
    /\ UNCHANGED <<game, retired, version, replacing, files, fetching,
                   failed, copied, before>>

\* An error: an acquisition outside a batch, I/O, a file that does not
\* verify, a processor that fails, or the first rename of the promotion.
Fail ==
    /\ phase \in {"acquire", "materialize", "validate", "record", "promote"}
    /\ End
    /\ UNCHANGED disk

\* promote_staged_game, fresh: one rename.
PromoteFresh ==
    /\ phase = "promote"
    /\ ~replacing
    /\ game' = staged
    /\ staged' = None
    /\ phase' = "clean"
    /\ UNCHANGED <<retired, version, replacing, files, fetching, failed,
                   copied, before>>

\* promote_staged_game, replacing: the previous tree goes into staging, ...
RetirePrevious ==
    /\ phase = "promote"
    /\ replacing
    /\ retired' = game
    /\ game' = None
    /\ phase' = "exchange"
    /\ UNCHANGED <<staged, version, replacing, files, fetching, failed,
                   copied, before>>

\* ... the staged one into its place, ...
PromoteReplacement ==
    /\ phase = "exchange"
    /\ game' = staged
    /\ staged' = None
    /\ phase' = "clean"
    /\ UNCHANGED <<retired, version, replacing, files, fetching, failed,
                   copied, before>>

\* Mutant: a failed promotion removes staging, and the previous tree with it.
RestoreCleansUp ==
    /\ phase = "exchange"
    /\ staged' = None
    /\ retired' = None
    /\ End
    /\ UNCHANGED game

\* ... or, when that cannot be done, the previous one back; the error of this
\* second rename is not looked at.
RestorePrevious ==
    /\ phase = "exchange"
    /\ \/ game' = retired /\ retired' = None
       \/ UNCHANGED <<game, retired>>
    /\ End
    /\ UNCHANGED staged

\* The committed installation stands whether or not staging can be removed.
Clean ==
    /\ phase = "clean"
    /\ \/ staged' = None /\ retired' = None
       \/ UNCHANGED <<staged, retired>>
    /\ End
    /\ UNCHANGED game

Crash ==
    /\ Crashes
    /\ phase # "idle"
    /\ End
    /\ UNCHANGED disk

Init ==
    /\ game = None
    /\ staged = None
    /\ retired = None
    /\ phase = "idle"
    /\ version = None
    /\ replacing = FALSE
    /\ files = <<>>
    /\ fetching = {}
    /\ failed = FALSE
    /\ copied = 0
    /\ before = None

\* What the attempt does by itself.
Work ==
    \/ StartBatch \/ (\E k \in Files : Fetched(k)) \/ Settle
    \/ StartMaterializing \/ Materialize \/ StartValidating \/ ValidateStaged
    \/ RecordState \/ Fail \/ PromoteFresh \/ RetirePrevious
    \/ PromoteReplacement \/ RestorePrevious \/ Clean

Next == Begin \/ Work \/ Crash

\* An acquisition is bounded by its timeouts and every other step is local.
Spec == Init /\ [][Next]_vars
FairSpec == Spec /\ WF_vars(Work)

-----------------------------------------------------------------------------
(* Properties *)

TypeOK ==
    /\ {game, staged, retired, before} \subseteq Trees \cup {None}
    /\ phase \in Phases
    /\ version \in Versions \cup {None}
    /\ replacing \in BOOLEAN
    /\ files \in Seq(Files)
    /\ fetching \in SUBSET Files
    /\ failed \in BOOLEAN
    /\ copied \in 0 .. Size
    /\ phase # "idle" => version \in Versions
    /\ phase \in {"materialize", "validate", "record", "promote"} =>
        staged # None

\* Whatever fails and whenever the launcher dies, game/ is absent or holds
\* exactly one version's files, all of them verified, and its manifest: never
\* a mixture, never a tree that the next attempt would refuse.
GameIsWholeOrAbsent ==
    game # None => Valid(game) /\ game.files = Plan(game.manifest)

\* An attempt that fails by itself leaves game/ as it found it, or, when the
\* promotion fails twice, leaves it in staging: nothing of the previous
\* installation is destroyed by a failure.
FailureDestroysNothing ==
    [][(phase # "idle" /\ phase' = "idle" /\ phase # "clean")
        => \/ game' = before
           \/ phase = "exchange" /\ game' = None /\ retired' = before]_vars

\* "No download task is abandoned": an attempt that is over has none left.
NothingInFlight == phase = "idle" => fetching = {}

\* Out-of-order completions leave the classpath in plan order.
ClasspathInOrder == \A n \in 1 .. Len(files) : files[n] = n

\* Every attempt comes to an end.
AttemptsEnd == phase # "idle" ~> phase = "idle"
=============================================================================
