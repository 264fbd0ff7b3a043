------------------------------ MODULE PackUpdate ------------------------------
(***************************************************************************)
(* The update of one installed modpack to its next version: the three-way  *)
(* classification of files, the reviewed fingerprint, the receipt, the two *)
(* windows under the content lock with the game transition between them,   *)
(* the rollbacks, and the recovery of an interrupted update.  The user may *)
(* edit a file, another content command may run and the launcher may die   *)
(* between any two steps.                                                  *)
(*                                                                         *)
(* Bytes are compared with bytes of the same path only, so one name serves *)
(* every path: "first" is what the installed version authored, "second"    *)
(* what the next one authors instead, "own" and "edited" are the user's.   *)
(***************************************************************************)
EXTENDS Naturals, FiniteSets, TLC

CONSTANTS
    Paths,        \* files either version of the pack knows
    Components,   \* those that are provider components, the rest overrides
    Library,      \* components that are versions of one project, on which
                  \* content outside the pack may depend
    None,
    Kinds,        \* what may come between: "edit" by the user or another
                  \* command, "fault" of a save, a link, a lock or an install,
                  \* "crash" of the launcher
    Upsets        \* bound: how many of them

ASSUME PathsAssumption == Library \subseteq Components /\ Components \subseteq Paths
ASSUME BoundsAssumption == Upsets \in Nat /\ Kinds \subseteq {"edit", "fault", "crash"}
ASSUME NoneIsNothing ==
    None \notin {"first", "second", "own", "edited"} \cup Paths

VARIABLES
    \* what the next version publishes
    next,        \* the bytes it authors at each path
    transition,  \* does it need another game?
    \* on disk
    files,       \* the bytes at each path
    backups,     \* .pack-update-retired-* copies, by path
    staged,      \* paths with a .pack-update-staged-* copy
    pack,        \* pack-installed.json
    content,     \* content-managed.json: the records of components, and
                 \* is there content outside the pack that needs the library?
    row,         \* the registry record
    game,        \* the installed game
    receipt,     \* pack-update.json
    \* the interface and the command under way
    review,      \* the world the user reviewed, which the fingerprint binds
    wanted,      \* the conflicts the user resolved with useNewPack
    pc,
    plan,        \* the reconciliation derived by apply
    moving,      \* the path whose bytes the retirement has just proven
    retired, active,   \* the lists the rollback works from
    saved,       \* the documents committed
    unproven,    \* rollback_files met something it could not restore
    outcome,     \* what the last command answered
    \* upsets, and what the properties need of the past
    upsets,      \* edits, faults and crashes so far
    mine,        \* the user's bytes at each path
    agreed,      \* paths the user ever resolved with useNewPack
    edited,      \* paths the user changed since the plan was derived
    late,        \* other content changed since then
    undone,      \* a commit was reached and taken back
    ignored,     \* a document could not be put back, and nobody was told
    crashed      \* the update planned last met a crash

published == <<next, transition>>
disk == <<files, backups, staged>>
documents == <<pack, content, row, receipt>>
run == <<retired, active, saved, unproven, moving>>
ghosts == <<mine, agreed, edited, late, undone, ignored, crashed>>
vars == <<published, disk, documents, game, review, wanted, pc, plan, run, outcome,
          upsets, ghosts>>

AuthoredBytes == {"first", "second"}
Bytes == AuthoredBytes \cup {"own", "edited"}
File == Bytes \cup {None}
Disk == [Paths -> File]
Versions == {"v1", "v2"}
Packs ==
    [version : Versions, owned : [Paths -> AuthoredBytes \cup {None}], kept : Disk]
Contents == [records : [Components -> File], dependent : BOOLEAN]
Rows == [state : {"ready", "installing"}, version : Versions]
Worlds == [files : Disk, pack : Packs, content : Contents, row : Rows]
ASSUME NoneIsNoWorld == None \notin Worlds

\* The steps that run inside a window of the content lock.
LockedSteps ==
    {"mark", "retire", "move", "activate", "saveContent", "savePack", "saveRow",
     "dropReceipt", "cleanup", "unactivate", "unretire", "undoDocuments",
     "finalizeReceipt", "undoContent", "undoPack", "undoRow"}
Steps ==
    {"idle", "recover", "derive", "acquire", "begin", "game", "stage", "validate",
     "restoreGame", "restoreCommitted", "finalize"} \cup LockedSteps
Outcomes == {"none", "failed", "rollbackFailed", "updated", "completed"}

Absent == [p \in Paths |-> None]

\* The game each version runs on.
Needs(version) == IF transition /\ version = "v2" THEN "new" ELSE "old"

TypeOK ==
    /\ next \in Disk /\ transition \in BOOLEAN
    /\ files \in Disk /\ backups \in Disk /\ staged \subseteq Paths
    /\ pack \in Packs /\ content \in Contents /\ row \in Rows
    /\ game \in {"old", "new"} /\ receipt \in BOOLEAN
    /\ review \in Worlds \cup {None} /\ wanted \subseteq Paths
    /\ pc \in Steps
    /\ plan \in Worlds \cup {None}
    /\ moving \in Paths \cup {None}
    /\ retired \subseteq Paths /\ active \subseteq Paths
    /\ saved \subseteq {"content", "pack", "row"}
    /\ unproven \in BOOLEAN /\ outcome \in Outcomes
    /\ upsets \in 0 .. Upsets
    /\ mine \in Disk /\ agreed \subseteq Paths /\ edited \subseteq Paths
    /\ late \in BOOLEAN /\ undone \in BOOLEAN /\ ignored \in BOOLEAN
    /\ crashed \in BOOLEAN

Init ==
    /\ transition \in BOOLEAN
    /\ \E owned \in [Paths -> {"first", None}], kept \in [Paths -> {"own", None}],
          dependent \in BOOLEAN :
        /\ \A p \in Paths : None \in {owned[p], kept[p]}
        /\ pack = [version |-> "v1", owned |-> owned, kept |-> kept]
        /\ content = [records |-> [p \in Components |-> owned[p]],
                      dependent |-> dependent]
        \* Content that needs the library was installed beside it.
        /\ dependent => \E p \in Library : owned[p] # None
    /\ next \in [Paths -> {"first", "second", None}]
    /\ \A p \in Paths :
        /\ next[p] = "first" => pack.owned[p] = "first"
        /\ {next[p], pack.owned[p], pack.kept[p]} # {None}
    /\ files \in [Paths -> {"first", "second", "own", None}]
    /\ \A p \in Paths :
        /\ files[p] = "first" => pack.owned[p] = "first"
        /\ files[p] = "second" => next[p] = "second"
    /\ backups = Absent /\ staged = {}
    /\ row = [state |-> "ready", version |-> "v1"]
    /\ game = "old" /\ receipt = FALSE
    /\ review = None /\ wanted = {} /\ pc = "idle" /\ plan = None
    /\ moving = None /\ retired = {} /\ active = {} /\ saved = {}
    /\ unproven = FALSE /\ outcome = "none"
    /\ upsets = 0
    /\ mine = [p \in Paths |-> IF files[p] = "own" THEN "own" ELSE None]
    /\ agreed = {} /\ edited = {} /\ late = FALSE /\ undone = FALSE
    /\ ignored = FALSE /\ crashed = FALSE

-----------------------------------------------------------------------------
(* The three-way classification: w is the world a plan is derived from     *)

World == [files |-> files, pack |-> pack, content |-> content, row |-> row]

New == {p \in Paths : next[p] # None}
Owned(w) == {p \in Paths : w.pack.owned[p] # None}
Kept(w) == {p \in Paths : w.pack.kept[p] # None}
Missing(w) == {p \in Paths : w.files[p] = None}
MatchesOld(w) == {p \in Owned(w) : w.files[p] = w.pack.owned[p]}
Equivalent(w) == {p \in New : w.files[p] = next[p]}
Same(w) == {p \in Owned(w) \cap New : w.pack.owned[p] = next[p]}

KeepAuthored(w) == Same(w) \cap MatchesOld(w)
RestoreAuthored(w) == Same(w) \cap Missing(w)
Adopt(w) == Equivalent(w) \ Same(w)
InstallNew(w) == (New \ (Owned(w) \cup Kept(w))) \cap Missing(w)
ReplaceOld(w) ==
    (((Owned(w) \cup Kept(w)) \cap Missing(w)) \cup MatchesOld(w)) \cap (New \ Same(w))
Removed(w) == MatchesOld(w) \ New
ReleaseOwnership(w) == (Owned(w) \ New) \cap Missing(w)
KeepDivergence(w) == Kept(w) \ New
Conflict(w) ==
    (Owned(w) \cup Kept(w) \cup New)
        \ UNION {KeepAuthored(w), RestoreAuthored(w), Adopt(w), InstallNew(w),
                 ReplaceOld(w), Removed(w), ReleaseOwnership(w), KeepDivergence(w)}

\* The conflicts that offer useNewPack; the others keep the local file.
Choosable(w) == Conflict(w) \cap (New \ Same(w))

\* A successor of the library joins, so its old version may go.  A conflict
\* counts as joining whatever its resolution.
Joins(w) ==
    Library \cap New \cap UNION {RestoreAuthored(w), Adopt(w), InstallNew(w),
                                 ReplaceOld(w), Conflict(w)} # {}

\* Removed files that content outside the pack still requires: only the
\* pack's ownership of them ends.
Shared(w) ==
    {p \in Removed(w) \cap Library :
        /\ ~Joins(w)
        /\ w.content.dependent
        /\ w.content.records[p] = w.pack.owned[p]}

\* Files moved aside, files written, and records that leave the document,
\* when the user wants the new version of the conflicts in use.
Retires(w, use) ==
    (Removed(w) \ Shared(w)) \cup (ReplaceOld(w) \ Missing(w)) \cup use

Writes(w, use) == RestoreAuthored(w) \cup InstallNew(w) \cup ReplaceOld(w) \cup use

RetiredRecords(w) ==
    Owned(w) \cap UNION {RestoreAuthored(w), Adopt(w), ReplaceOld(w),
                         Removed(w) \ Shared(w), ReleaseOwnership(w), Conflict(w)}

Authored(w, use) == Writes(w, use) \cup Adopt(w)

NextPack(w, use) ==
    [version |-> "v2",
     owned |-> [p \in Paths |->
        IF p \in Authored(w, use) \cup KeepAuthored(w) THEN next[p] ELSE None],
     kept |-> [p \in Paths |->
        IF p \in (Conflict(w) \ use) \cup KeepDivergence(w) THEN w.files[p] ELSE None]]

NextContent(w, use) ==
    [w.content EXCEPT !.records = [p \in Components |->
        IF p \in Authored(w, use) THEN next[p]
        ELSE IF p \in RetiredRecords(w) THEN None
        ELSE w.content.records[p]]]

\* The mods of the projected instance satisfy what depends on them.
Projected(w, use) ==
    w.content.dependent =>
        \E p \in Library :
            \/ NextPack(w, use).owned[p] # None
            \/ NextPack(w, use).kept[p] # None
            \/ NextContent(w, use).records[p] # None

\* The facts of a row: what the pack and the disk say, not the digests seen.
LocalState(w, p) ==
    IF p \in Missing(w) THEN "missing"
    ELSE IF p \notin Owned(w) THEN "absent"
    ELSE IF p \in MatchesOld(w) THEN "matchesOld" ELSE "modified"

Fingerprint(w) ==
    [rows |-> [p \in Paths |-> <<LocalState(w, p), p \in Conflict(w)>>],
     pack |-> w.pack, content |-> w.content, row |-> w.row]

\* InstalledPack::validate_installed against the disk.
Installed(p) ==
    /\ row.version = p.version
    /\ \A f \in Paths :
        /\ p.owned[f] # None => files[f] = p.owned[f]
        /\ p.kept[f] # None => files[f] = p.kept[f]
    /\ \A c \in Components : p.owned[c] # None => content.records[c] = p.owned[c]

-----------------------------------------------------------------------------
(* The interface, the user and the other commands                          *)

Ends(answer) == pc' = "idle" /\ outcome' = answer

\* So many more failures, within the bound.
Failing(n) ==
    "fault" \in Kinds /\ upsets + n <= Upsets /\ upsets' = upsets + n

Fault == Failing(1)

\* One more edit: before the review it would be another initial state, and
\* after the update nothing looks.
Edit ==
    /\ review # None /\ (pc = "idle" => outcome # "updated")
    /\ "edit" \in Kinds /\ upsets < Upsets /\ upsets' = upsets + 1

\* preview_modpack_update, for a ready instance.
Preview ==
    /\ pc = "idle"
    /\ row.state = "ready" /\ pack.version = "v1"
    /\ review' = World
    /\ UNCHANGED <<published, disk, documents, game, wanted, pc, plan, run, outcome,
                   upsets, ghosts>>

\* apply_modpack_update with a fingerprint reviewed earlier, perhaps before a
\* restart, and a resolution of each conflict.
Apply ==
    /\ pc = "idle" /\ review # None
    /\ wanted' \in SUBSET Choosable(review)
    /\ pc' = "recover" /\ outcome' = "none"
    /\ UNCHANGED <<published, disk, documents, game, review, plan, run, upsets, ghosts>>

\* The user, or the game, replaces or deletes a file at any time.  Bytes
\* written between the proof of a retirement and its rename are not followed.
UserEdits(p) ==
    /\ Edit
    /\ \E b \in {"own", "edited", None} \ {files[p]} :
        /\ files' = [files EXCEPT ![p] = b]
        /\ mine' = [mine EXCEPT ![p] = IF moving = p THEN None ELSE b]
    /\ edited' = edited \cup {p}
    /\ UNCHANGED <<published, backups, staged, documents, game, review, wanted, pc,
                   plan, run, outcome, agreed, late, undone, ignored,
                   crashed>>

\* Another command of the content page: it takes the content lock, and does
\* not look at the state of the row.
ContentCommand ==
    /\ Edit
    /\ pc \notin LockedSteps
    /\ content.dependent \/ \E p \in Library : content.records[p] # None
    /\ content' = [content EXCEPT !.dependent = ~@]
    /\ late' = TRUE
    /\ UNCHANGED <<published, disk, pack, row, receipt, game, review, wanted, pc, plan,
                   run, outcome, mine, agreed, edited, undone, ignored,
                   crashed>>

\* The launcher dies; what it had in memory is gone.
Crash ==
    /\ pc # "idle"
    /\ "crash" \in Kinds /\ upsets < Upsets /\ upsets' = upsets + 1
    /\ Ends("none")
    /\ crashed' = TRUE
    /\ moving' = None /\ retired' = {} /\ active' = {} /\ saved' = {}
    /\ UNCHANGED <<published, disk, documents, game, review, wanted, plan, unproven,
                   mine, agreed, edited, late, undone, ignored>>

-----------------------------------------------------------------------------
(* Recovery, and the plan                                                  *)

Debris == backups' = Absent /\ staged' = {} /\ UNCHANGED files

NewStateProven == pack.version = "v2" /\ Installed(pack)
\* Mutant: recovery takes the files for proof that the old game is there.
OldStateByFiles == pack.version = "v1" /\ Installed(pack)

OldStateProven == pack.version = "v1" /\ Installed(pack) /\ game = Needs(row.version)

\* recover_interrupted_update.  A failed save ends it between the debris and
\* the row, or between the row and the receipt.
Recover ==
    /\ pc = "recover"
    /\ UNCHANGED <<published, pack, content, game, review, wanted, plan, run, ghosts>>
    /\ \/ /\ ~receipt
          /\ pc' = "derive"
          /\ UNCHANGED <<disk, row, receipt, outcome, upsets>>
       \/ /\ receipt /\ NewStateProven
          /\ UNCHANGED disk
          /\ \/ /\ row' = [row EXCEPT !.state = "ready"]
                /\ receipt' = FALSE
                /\ Ends("completed") /\ UNCHANGED upsets
             \/ /\ row' \in {row, [row EXCEPT !.state = "ready"]}
                /\ Ends("failed") /\ Fault /\ UNCHANGED receipt
       \/ /\ receipt /\ OldStateProven
          /\ Debris
          /\ \/ /\ row' = [row EXCEPT !.state = "ready"]
                /\ receipt' = FALSE
                /\ pc' = "derive" /\ UNCHANGED <<outcome, upsets>>
             \/ /\ row' \in {row, [row EXCEPT !.state = "ready"]}
                /\ Ends("failed") /\ Fault /\ UNCHANGED receipt
       \/ /\ receipt /\ ~NewStateProven /\ ~OldStateProven
          /\ Ends("failed")
          /\ UNCHANGED <<disk, row, receipt, upsets>>

\* build_plan, and the comparison with the reviewed fingerprint.
Derive ==
    /\ pc = "derive"
    /\ UNCHANGED <<published, disk, documents, game, review, wanted, upsets, mine,
                   undone, ignored>>
    /\ IF /\ row.state = "ready" /\ pack.version = "v1"
          /\ Fingerprint(World) = Fingerprint(review)
       THEN /\ pc' = "acquire" /\ plan' = World
            /\ agreed' = agreed \cup wanted
            /\ edited' = {} /\ late' = FALSE /\ crashed' = FALSE
            /\ moving' = None /\ retired' = {} /\ active' = {} /\ saved' = {}
            /\ unproven' = FALSE
            /\ UNCHANGED outcome
       ELSE /\ Ends("failed")
            /\ UNCHANGED <<plan, run, agreed, edited, late, crashed>>

\* acquire_all, build_next_documents and the projected compatibility: a
\* download may fail.
Acquire ==
    /\ pc = "acquire"
    /\ \/ Projected(plan, wanted) /\ pc' = "begin" /\ UNCHANGED outcome
       \/ Ends("failed")
    /\ UNCHANGED <<published, disk, documents, game, review, wanted, plan, run, upsets,
                   ghosts>>

-----------------------------------------------------------------------------
(* Window 1, and the game                                                  *)

\* Every file to be retired, and every file the old version authored that the
\* new one authors too and that is not retired, is what it was.
StillAsReviewed ==
    /\ World.row = plan.row /\ World.content = plan.content /\ World.pack = plan.pack
    /\ \A p \in Retires(plan, wanted) : files[p] = plan.files[p]
    /\ \A p \in ((Authored(plan, wanted) \cup KeepAuthored(plan)) \cap Owned(plan))
                    \ Retires(plan, wanted) :
        files[p] = plan.pack.owned[p]

Begin ==
    /\ pc = "begin"
    /\ UNCHANGED <<published, disk, pack, content, row, game, review, wanted, plan, run,
                   ghosts>>
    /\ \/ /\ StillAsReviewed
          /\ receipt' = TRUE /\ pc' = "mark"
          /\ UNCHANGED <<outcome, upsets>>
       \/ ~StillAsReviewed /\ Ends("failed") /\ UNCHANGED <<receipt, upsets>>
       \/ Ends("failed") /\ Fault /\ UNCHANGED receipt

Mark ==
    /\ pc = "mark"
    /\ \/ /\ row' = [row EXCEPT !.state = "installing"]
          /\ pc' = IF transition THEN "game" ELSE "stage"
          /\ UNCHANGED <<outcome, upsets>>
       \/ Ends("failed") /\ Fault /\ UNCHANGED row
    /\ UNCHANGED <<published, disk, pack, content, receipt, game, review, wanted, plan,
                   run, ghosts>>

\* install_game of the target; a failure costs nothing of the old game, and
\* abort_begin forgets the update.
InstallGame ==
    /\ pc = "game"
    /\ \/ /\ game' = "new" /\ pc' = "stage"
          /\ UNCHANGED <<row, receipt, outcome, upsets>>
       \/ /\ Ends("failed") /\ UNCHANGED game
          /\ \/ Fault /\ row' = [row EXCEPT !.state = "ready"] /\ receipt' = FALSE
             \* abort_begin ignores what it cannot lock, save or remove.
             \/ /\ Failing(2)
                /\ row' \in {row, [row EXCEPT !.state = "ready"]}
                /\ receipt' \in BOOLEAN
    /\ UNCHANGED <<published, disk, pack, content, review, wanted, plan, run, ghosts>>

-----------------------------------------------------------------------------
(* Window 2: commit_steps                                                  *)

\* The error of a commit step: rollback_files comes next.
FailsTo(step) == pc' = step /\ outcome' = "failed"

\* Every file is copied and verified beside its target.  A lock somebody else
\* holds ends the window before it starts, with nothing to roll back.
Stage ==
    /\ pc = "stage"
    /\ LET writes == Writes(plan, wanted)
           occupied == \E p \in writes \ Retires(plan, wanted) : files[p] # None
       IN \/ /\ ~occupied
             /\ staged' = writes /\ pc' = "retire"
             /\ UNCHANGED <<outcome, upsets>>
          \/ /\ occupied
             /\ FailsTo("unactivate") /\ UNCHANGED <<staged, upsets>>
          \/ /\ Fault /\ staged' \in SUBSET writes
             /\ FailsTo("unactivate")
          \/ Fault /\ FailsTo("restoreGame") /\ UNCHANGED staged
    /\ UNCHANGED <<published, files, backups, documents, game, review, wanted, plan, run,
                   ghosts>>

\* The proof of a retirement, then its rename.
RetireProves(p) ==
    /\ pc = "retire" /\ p \in Retires(plan, wanted) \ retired
    /\ IF files[p] = plan.files[p]
       THEN pc' = "move" /\ moving' = p /\ UNCHANGED outcome
       ELSE FailsTo("unactivate") /\ UNCHANGED moving
    /\ UNCHANGED <<published, disk, documents, game, review, wanted, plan, retired,
                   active, saved, unproven, upsets, ghosts>>

RetireMoves ==
    /\ pc = "move"
    /\ moving' = None
    /\ \/ /\ files[moving] # None
          /\ backups' = [backups EXCEPT ![moving] = files[moving]]
          /\ files' = [files EXCEPT ![moving] = None]
          /\ retired' = retired \cup {moving}
          /\ pc' = "retire" /\ UNCHANGED <<outcome, upsets>>
       \/ /\ files[moving] = None
          /\ FailsTo("unactivate") /\ UNCHANGED <<files, backups, retired, upsets>>
       \/ Fault /\ FailsTo("unactivate") /\ UNCHANGED <<files, backups, retired>>
    /\ UNCHANGED <<published, staged, documents, game, review, wanted, plan, active,
                   saved, unproven, ghosts>>

Retired ==
    /\ pc = "retire" /\ Retires(plan, wanted) \subseteq retired
    /\ pc' = "activate"
    /\ UNCHANGED <<published, disk, documents, game, review, wanted, plan, run, outcome,
                   upsets, ghosts>>

\* Mutant: activation renames over whatever is there.
ActivateOver(p) ==
    /\ pc = "activate" /\ p \in Writes(plan, wanted) \ active
    /\ \/ /\ files' = [files EXCEPT ![p] = next[p]]
          /\ staged' = staged \ {p}
          /\ active' = active \cup {p}
          /\ UNCHANGED <<pc, outcome, upsets>>
       \/ Fault /\ FailsTo("unactivate") /\ UNCHANGED <<files, staged, active>>
    /\ UNCHANGED <<published, backups, documents, game, review, wanted, plan, retired,
                   saved, unproven, moving, ghosts>>

\* hard_link refuses a target that exists.
Activate(p) ==
    /\ pc = "activate" /\ p \in Writes(plan, wanted) \ active
    /\ \/ /\ files[p] = None
          /\ files' = [files EXCEPT ![p] = next[p]]
          /\ staged' = staged \ {p}
          /\ active' = active \cup {p}
          /\ UNCHANGED <<pc, outcome, upsets>>
       \/ /\ files[p] # None
          /\ FailsTo("unactivate") /\ UNCHANGED <<files, staged, active, upsets>>
       \/ Fault /\ FailsTo("unactivate") /\ UNCHANGED <<files, staged, active>>
    /\ UNCHANGED <<published, backups, documents, game, review, wanted, plan, retired,
                   saved, unproven, moving, ghosts>>

Activated ==
    /\ pc = "activate" /\ Writes(plan, wanted) \subseteq active
    /\ pc' = "saveContent"
    /\ UNCHANGED <<published, disk, documents, game, review, wanted, plan, run, outcome,
                   upsets, ghosts>>

SaveContent ==
    /\ pc = "saveContent"
    /\ \/ /\ content' = NextContent(plan, wanted)
          /\ saved' = saved \cup {"content"}
          /\ pc' = "savePack" /\ UNCHANGED <<outcome, upsets>>
       \/ Fault /\ FailsTo("unactivate") /\ UNCHANGED <<content, saved>>
    /\ UNCHANGED <<published, disk, pack, row, receipt, game, review, wanted, plan,
                   retired, active, unproven, moving, ghosts>>

\* InstalledPack::replace, which expects the document of the plan.
SavePack ==
    /\ pc = "savePack"
    /\ \/ /\ pack = plan.pack
          /\ pack' = NextPack(plan, wanted)
          /\ saved' = saved \cup {"pack"}
          /\ pc' = "saveRow" /\ UNCHANGED <<outcome, upsets>>
       \/ pack # plan.pack /\ FailsTo("unactivate") /\ UNCHANGED <<pack, saved, upsets>>
       \/ Fault /\ FailsTo("unactivate") /\ UNCHANGED <<pack, saved>>
    /\ UNCHANGED <<published, disk, content, row, receipt, game, review, wanted, plan,
                   retired, active, unproven, moving, ghosts>>

\* The commit: ready with the new identity.
SaveRow ==
    /\ pc = "saveRow"
    /\ \/ /\ row' = [state |-> "ready", version |-> "v2"]
          /\ saved' = saved \cup {"row"}
          /\ pc' = "dropReceipt" /\ UNCHANGED <<outcome, upsets>>
       \/ Fault /\ FailsTo("unactivate") /\ UNCHANGED <<row, saved>>
    /\ UNCHANGED <<published, disk, pack, content, receipt, game, review, wanted, plan,
                   retired, active, unproven, moving, ghosts>>

DropReceipt ==
    /\ pc = "dropReceipt"
    /\ \/ receipt' = FALSE /\ pc' = "cleanup" /\ UNCHANGED <<outcome, upsets>>
       \/ Fault /\ FailsTo("unactivate") /\ UNCHANGED receipt
    /\ UNCHANGED <<published, disk, pack, content, row, game, review, wanted, plan, run,
                   ghosts>>

Cleanup ==
    /\ pc = "cleanup"
    /\ backups' = [p \in Paths |-> IF p \in retired THEN None ELSE backups[p]]
    /\ pc' = "validate"
    /\ UNCHANGED <<published, files, staged, documents, game, review, wanted, plan, run,
                   outcome, upsets, ghosts>>

\* validate_committed, in a window of its own: a lock somebody holds counts
\* as a failed validation.
Validate ==
    /\ pc = "validate"
    /\ LET valid == Installed(NextPack(plan, wanted)) /\ game = Needs(row.version)
       IN \/ valid /\ Ends("updated") /\ UNCHANGED <<upsets, undone>>
          \/ ~valid /\ FailsTo("restoreCommitted") /\ undone' = TRUE /\ UNCHANGED upsets
          \/ Fault /\ FailsTo("restoreCommitted") /\ undone' = TRUE
    /\ UNCHANGED <<published, disk, documents, game, review, wanted, plan, run, mine,
                   agreed, edited, late, ignored, crashed>>

-----------------------------------------------------------------------------
(* The rollback of a failed commit                                         *)

\* An activated file is removed if it still is what was activated.
Unactivate(p) ==
    /\ pc = "unactivate" /\ p \in active
    /\ active' = active \ {p}
    /\ \/ /\ files[p] = next[p]
          /\ files' = [files EXCEPT ![p] = None]
          /\ UNCHANGED <<unproven, upsets>>
       \/ files[p] # next[p] /\ unproven' = TRUE /\ UNCHANGED <<files, upsets>>
       \/ Fault /\ unproven' = TRUE /\ UNCHANGED files
    /\ UNCHANGED <<published, backups, staged, documents, game, review, wanted, pc, plan,
                   retired, saved, moving, outcome, ghosts>>

Unactivated ==
    /\ pc = "unactivate" /\ active = {}
    /\ pc' = "unretire"
    /\ UNCHANGED <<published, disk, documents, game, review, wanted, plan, run, outcome,
                   upsets, ghosts>>

\* A retired file is linked back; one that somebody wrote meanwhile stays.
Unretire(p) ==
    /\ pc = "unretire" /\ p \in retired
    /\ retired' = retired \ {p}
    /\ \/ /\ files' = [files EXCEPT ![p] = IF @ = None THEN backups[p] ELSE @]
          /\ UNCHANGED <<unproven, upsets>>
       \/ files[p] = None /\ Fault /\ unproven' = TRUE /\ UNCHANGED files
    /\ UNCHANGED <<published, backups, staged, documents, game, review, wanted, pc, plan,
                   active, saved, moving, outcome, ghosts>>

Unretired ==
    /\ pc = "unretire" /\ retired = {}
    /\ pc' = "undoDocuments"
    /\ UNCHANGED <<published, disk, documents, game, review, wanted, plan, run, outcome,
                   upsets, ghosts>>

\* What rollback_files returns: whether everything was proven restored.
RollbackFiles == ~unproven

\* The documents committed are put back, in order; their errors are ignored.
\* The caller takes the answer of rollback_files for its failure.
UndoDocuments ==
    /\ pc = "undoDocuments"
    /\ LET rollbackFailed == RollbackFiles
           undo(d) == saved' = saved \ {d} /\ UNCHANGED <<pc, outcome>>
       IN \/ /\ "content" \in saved
             /\ undo("content")
             /\ \/ content' = plan.content /\ UNCHANGED <<upsets, ignored>>
                \/ Fault /\ ignored' = TRUE /\ UNCHANGED content
             /\ UNCHANGED <<pack, row>>
          \/ /\ "content" \notin saved /\ "pack" \in saved
             /\ undo("pack")
             /\ \/ pack' = plan.pack /\ UNCHANGED <<upsets, ignored>>
                \/ Fault /\ ignored' = TRUE /\ UNCHANGED pack
             /\ UNCHANGED <<content, row>>
          \/ /\ saved = {"row"}
             /\ undo("row")
             /\ \/ row' = plan.row /\ UNCHANGED <<upsets, ignored>>
                \/ Fault /\ ignored' = TRUE /\ UNCHANGED row
             /\ UNCHANGED <<content, pack>>
          \/ /\ saved = {}
             /\ pc' = "restoreGame"
             /\ outcome' = IF rollbackFailed THEN "rollbackFailed" ELSE "failed"
             /\ \/ /\ row' = IF rollbackFailed
                           THEN [row EXCEPT !.state = "installing"] ELSE row
                   /\ UNCHANGED upsets
                \/ rollbackFailed /\ Fault /\ UNCHANGED row
             /\ UNCHANGED <<content, pack, saved, ignored>>
    /\ UNCHANGED <<published, disk, receipt, game, review, wanted, plan, retired, active,
                   unproven, moving, mine, agreed, edited, late, undone, crashed>>

\* restore_old_game; if it fails, leave_unavailable ends the command.
RestoreGame ==
    /\ pc \in {"restoreGame", "restoreCommitted"}
    /\ \/ /\ game' = "old"
          /\ pc' = IF pc = "restoreCommitted" THEN "undoContent" ELSE "finalize"
          /\ UNCHANGED <<row, outcome, upsets>>
       \/ /\ transition
          /\ \/ Fault /\ row' = [row EXCEPT !.state = "installing"]
             \/ Failing(2) /\ UNCHANGED row
          /\ Ends("rollbackFailed") /\ UNCHANGED game
    /\ UNCHANGED <<published, disk, pack, content, receipt, review, wanted, plan, run,
                   ghosts>>

\* undo_commit, after a validation that failed: the documents only.
UndoContent ==
    /\ pc = "undoContent"
    /\ \/ content' = plan.content /\ pc' = "undoPack" /\ UNCHANGED <<outcome, upsets>>
       \/ Ends("failed") /\ Fault /\ UNCHANGED content
    /\ UNCHANGED <<published, disk, pack, row, receipt, game, review, wanted, plan, run,
                   ghosts>>

UndoPack ==
    /\ pc = "undoPack"
    /\ \/ pack' = plan.pack /\ pc' = "undoRow" /\ UNCHANGED <<outcome, upsets>>
       \/ Ends("failed") /\ Fault /\ UNCHANGED pack
    /\ UNCHANGED <<published, disk, content, row, receipt, game, review, wanted, plan,
                   run, ghosts>>

UndoRow ==
    /\ pc = "undoRow"
    /\ \/ row' = plan.row /\ pc' = "finalize" /\ UNCHANGED <<outcome, upsets>>
       \/ Ends("failed") /\ Fault /\ UNCHANGED row
    /\ UNCHANGED <<published, disk, pack, content, receipt, game, review, wanted, plan,
                   run, ghosts>>

\* finalize_aborted: the row, then the receipt, then the debris.
Finalize ==
    /\ pc = "finalize"
    /\ \/ /\ row' = [row EXCEPT !.state = "ready"]
          /\ pc' = "finalizeReceipt" /\ UNCHANGED <<outcome, upsets>>
       \/ Ends("failed") /\ Fault /\ UNCHANGED row
    /\ UNCHANGED <<published, disk, pack, content, receipt, game, review, wanted, plan,
                   run, ghosts>>

FinalizeReceipt ==
    /\ pc = "finalizeReceipt"
    /\ \/ /\ receipt' = FALSE /\ Debris
          /\ Ends(outcome) /\ UNCHANGED upsets
       \/ Ends("failed") /\ Fault /\ UNCHANGED <<receipt, disk>>
    /\ UNCHANGED <<published, pack, content, row, game, review, wanted, plan, run, ghosts>>

-----------------------------------------------------------------------------

Update ==
    \/ Recover \/ Derive \/ Acquire \/ Begin \/ Mark \/ InstallGame
    \/ Stage \/ RetireMoves \/ Retired \/ Activated
    \/ \E p \in Paths : RetireProves(p) \/ Activate(p) \/ Unactivate(p) \/ Unretire(p)
    \/ SaveContent \/ SavePack \/ SaveRow \/ DropReceipt \/ Cleanup \/ Validate
    \/ Unactivated \/ Unretired \/ UndoDocuments \/ RestoreGame
    \/ UndoContent \/ UndoPack \/ UndoRow \/ Finalize \/ FinalizeReceipt

Next ==
    \/ Preview \/ Apply \/ Update
    \/ \E p \in Paths : UserEdits(p)
    \/ ContentCommand \/ Crash

Spec == Init /\ [][Next]_vars

-----------------------------------------------------------------------------
(* What the update must do                                                 *)

\* An update that fails before its commit, with no crash and a rollback that
\* met nothing unexpected, has changed no file the user left alone, no pack
\* document and no game, and no content record unless another command wrote
\* the document meanwhile: rollback_files and the document restorations of
\* commit_reconciliation.
AllOrNothing ==
    (/\ pc = "idle" /\ outcome \in {"failed", "rollbackFailed"} /\ plan # None
     /\ ~unproven /\ ~ignored /\ ~undone /\ ~crashed /\ pack.version = "v1")
    => /\ \A p \in Paths \ edited : files[p] = plan.files[p]
       /\ pack = plan.pack
       /\ late \/ content = plan.content

\* A ready instance nobody is updating, with no receipt left to recover from,
\* runs the game its pack and its row name, and every provider component of
\* the pack has its record.
ReadyMeansAgreed ==
    (pc = "idle" /\ row.state = "ready" /\ ~receipt /\ ~undone /\ ~ignored)
    => /\ row.version = pack.version
       /\ game = Needs(row.version)
       /\ \A c \in Components : pack.owned[c] # None => content.records[c] = pack.owned[c]

\* The user's bytes, whatever fails and whenever the launcher dies, are where
\* the user left them or beside it, unless the user resolved the conflict
\* with useNewPack.  Retirement proves digests, activation refuses an
\* occupied target and a rollback leaves what it did not write.
UserBytesSurvive ==
    \A p \in Paths \ agreed : mine[p] # None => mine[p] \in {files[p], backups[p]}

\* After a finished update every content record left describes the file that
\* is there, unless somebody touched either meanwhile, or a crash had left
\* records of another version than the pack it started from: what the update
\* takes away or hands to the user takes its record along, what it shares
\* keeps it.
RecordsDescribeFiles ==
    (/\ pc = "idle" /\ outcome = "updated" /\ ~late
     /\ \A c \in Components : plan.content.records[c] \in {None, plan.pack.owned[c]})
    => \A c \in Components \ edited :
        content.records[c] # None => files[c] = content.records[c]

\* What a returned update leaves is one state: documents of their types, a
\* ready row that its pack and its game bear out, records of the files that
\* are there.
StateIsCoherent == TypeOK /\ ReadyMeansAgreed /\ RecordsDescribeFiles

\* What an update leaves is all of one version or of the other, in the files,
\* the documents, the row and the game: a failure takes nothing away, and
\* ready means that they agree.
UpdateIsWhole == AllOrNothing /\ StateIsCoherent

-----------------------------------------------------------------------------
\* For TLC: where every path is a component of the library, they are
\* interchangeable.
Symmetry == Permutations(Paths)
=============================================================================
