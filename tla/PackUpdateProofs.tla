--------------------------- MODULE PackUpdateProofs ---------------------------
(***************************************************************************)
(* Theorems about PackUpdate, for any set of paths, any relation of the    *)
(* installed version, the next one and the local files, any number of      *)
(* edits, failures and crashes, and any number of updates one after the    *)
(* other.                                                                  *)
(***************************************************************************)
EXTENDS PackUpdate, TLAPS

-----------------------------------------------------------------------------
(* The plan of the update under way *)

\* What apply does under the plan it derived: files retired and written, and
\* the documents it commits.
ToRetire == Retires(plan, wanted)
ToWrite == Writes(plan, wanted)
ThePack == NextPack(plan, wanted)
TheContent == NextContent(plan, wanted)
NewGame == Needs("v2")

\* No update has a plan at these steps; one may be left from an earlier one.
Waiting == {"idle", "recover", "derive"}

\* The plan was made, no file has been touched.
Prepares == {"acquire", "begin", "mark", "game", "stage"}

\* The commit, before it takes anything back.
Commits ==
    {"retire", "move", "activate", "saveContent", "savePack", "saveRow",
     "dropReceipt", "cleanup", "validate"}

\* The rollback after a failed commit, until the documents.
RollsFiles == {"unactivate", "unretire"}

\* The end of an update that failed.
Ending == {"undoDocuments", "restoreGame", "finalize", "finalizeReceipt"}

\* After a commit that was reached and failed to validate.
Undoing == {"restoreCommitted", "undoContent", "undoPack", "undoRow"}

Forward == Prepares \cup Commits \cup RollsFiles

\* The steps at which lists and documents are what the plan says.
Follows == pc \in Forward \/ (pc \in Ending /\ ~undone)

-----------------------------------------------------------------------------
(* The inductive invariant *)

\* No pack owns a path it records as the user's.
SeparatePack(p) == \A f \in Paths : None \in {p.owned[f], p.kept[f]}
Separate == SeparatePack(pack) /\ (plan # None => SeparatePack(plan.pack))

\* The update under way has a plan of a ready instance at the old version, and
\* writes over no file the user did not agree to.
Planned ==
    /\ pc \notin Waiting =>
        /\ plan \in Worlds /\ plan.row.state = "ready" /\ plan.pack.version = "v1"
        /\ wanted \subseteq agreed /\ wanted \subseteq Choosable(plan)
        /\ ~crashed
    /\ pc \in {"recover", "derive"} => review \in Worlds /\ wanted \subseteq Choosable(review)
    /\ pc \in Undoing => undone
    /\ pc = "move" => moving \in ToRetire \ retired
    /\ pc # "move" => moving = None
    /\ pc = "game" => transition
    /\ pc # "idle" => outcome # "updated"
    /\ wanted \subseteq Paths

\* Bytes of the user are where the user left them; a file about to be moved
\* aside has been proven to be none of them.
Stays ==
    /\ \A p \in Paths : mine[p] \notin AuthoredBytes
    /\ \A p \in Paths \ agreed : mine[p] # None => mine[p] = files[p]
    /\ moving # None /\ moving \notin agreed => mine[moving] = None

\* What next publishes is authored; how far each list has come at each step.
Listed ==
    /\ next \in [Paths -> AuthoredBytes \cup {None}]
    /\ Follows => retired \subseteq ToRetire /\ active \subseteq ToWrite
    /\ pc \in Prepares => retired = {} /\ active = {} /\ saved = {}
    /\ pc \in Prepares \cup Commits => ~unproven
    /\ pc \in {"retire", "move"} => active = {} /\ saved = {}
    /\ pc = "activate" => retired = ToRetire /\ saved = {}
    /\ pc \in Commits \ {"retire", "move", "activate"} => retired = ToRetire /\ active = ToWrite
    /\ pc = "saveContent" => saved = {}
    /\ pc = "savePack" => saved = {"content"}
    /\ pc = "saveRow" => saved = {"content", "pack"}
    /\ pc \in {"dropReceipt", "cleanup", "validate"} => saved = {"content", "pack", "row"}
    /\ pc = "unretire" => active = {}
    /\ pc \in Ending /\ ~undone => active = {} /\ retired = {}
    /\ pc \in Ending \ {"undoDocuments"} /\ ~undone => saved = {}

\* A file the user left alone is what the lists say, and what was moved aside
\* is in its copy.
FileAt(p) ==
    /\ files[p] = IF p \in active THEN next[p] ELSE IF p \in retired THEN None ELSE plan.files[p]
    /\ p \in active => p \in retired \/ plan.files[p] = None
    /\ p \in retired /\ pc # "validate" => backups[p] = plan.files[p]
FilesFollow == Follows /\ ~unproven => \A p \in Paths \ edited : FileAt(p)

\* The documents are what has been saved of the plan, if what was put back
\* could be.
DocumentsFollow ==
    pc \in Forward \/ (pc \in Ending /\ ~undone /\ ~ignored) =>
        /\ pack = IF "pack" \in saved THEN ThePack ELSE plan.pack
        /\ content.records = IF "content" \in saved THEN TheContent.records
                             ELSE plan.content.records
        /\ late \/ content = IF "content" \in saved THEN TheContent ELSE plan.content
        /\ row.version = IF "row" \in saved THEN "v2" ELSE plan.row.version

\* Row, game and records bear out the pack.
Agreed ==
    /\ row.version = pack.version
    /\ game = Needs(row.version)
    /\ \A c \in Components : pack.owned[c] # None => content.records[c] = pack.owned[c]

\* The plan was made of documents that agree, the game changes once and back,
\* and the receipt is there while they may disagree.
GameFollows ==
    ~ignored /\ ~undone =>
        /\ pc \notin Waiting =>
            /\ plan.row.version = "v1"
            /\ \A c \in Components :
                plan.pack.owned[c] # None => plan.content.records[c] = plan.pack.owned[c]
        /\ pc \in {"acquire", "begin", "mark", "game", "finalize", "finalizeReceipt"} => game = "old"
        /\ pc \in {"stage", "undoDocuments"} \cup Commits \cup RollsFiles => game = NewGame
        /\ pack.version = "v2" => game = NewGame
        /\ pc \in (Forward \cup Ending) \ {"acquire", "begin", "cleanup", "validate"} => receipt
        /\ pc = "derive" => ~receipt
        /\ pc \in Waiting /\ row.state = "ready" /\ ~receipt => Agreed

\* Between two commands everything is as it was before an update that failed.
AsBefore ==
    (/\ pc \in Waiting /\ plan # None
     /\ ~unproven /\ ~ignored /\ ~undone /\ ~crashed /\ pack.version = "v1")
    => /\ \A p \in Paths \ edited : files[p] = plan.files[p]
       /\ pack = plan.pack
       /\ late \/ content = plan.content

UInv ==
    /\ TypeOK /\ Separate /\ Planned /\ Stays /\ Listed /\ FilesFollow /\ DocumentsFollow
    /\ GameFollows /\ AsBefore /\ RecordsDescribeFiles

-----------------------------------------------------------------------------
(* The plan                                                                *)

\* What apply does under a plan is fixed with the plan.
LEMMA PlanFixed ==
    ASSUME UNCHANGED <<published, plan, wanted>>
    PROVE  /\ ToRetire' = ToRetire /\ ToWrite' = ToWrite
           /\ ThePack' = ThePack /\ TheContent' = TheContent
           /\ Choosable(plan)' = Choosable(plan) /\ NewGame' = NewGame
<1>1. /\ Owned(plan)' = Owned(plan) /\ Kept(plan)' = Kept(plan) /\ Missing(plan)' = Missing(plan)
      /\ MatchesOld(plan)' = MatchesOld(plan) /\ New' = New
      /\ Equivalent(plan)' = Equivalent(plan) /\ Same(plan)' = Same(plan)
  BY DEF published, Owned, Kept, Missing, MatchesOld, New, Equivalent, Same
<1>2. /\ KeepAuthored(plan)' = KeepAuthored(plan) /\ RestoreAuthored(plan)' = RestoreAuthored(plan)
      /\ Adopt(plan)' = Adopt(plan) /\ InstallNew(plan)' = InstallNew(plan)
      /\ ReplaceOld(plan)' = ReplaceOld(plan) /\ Removed(plan)' = Removed(plan)
      /\ ReleaseOwnership(plan)' = ReleaseOwnership(plan)
      /\ KeepDivergence(plan)' = KeepDivergence(plan)
  BY <1>1 DEF KeepAuthored, RestoreAuthored, Adopt, InstallNew, ReplaceOld, Removed,
     ReleaseOwnership, KeepDivergence
<1>3. Conflict(plan)' = Conflict(plan)
  BY <1>1, <1>2 DEF Conflict
<1>4. Choosable(plan)' = Choosable(plan)
  BY <1>1, <1>3 DEF Choosable
<1>5. Joins(plan)' = Joins(plan)
  BY <1>1, <1>2, <1>3 DEF Joins
<1>6. Shared(plan)' = Shared(plan)
  BY <1>2, <1>5 DEF Shared
<1>7. RetiredRecords(plan)' = RetiredRecords(plan)
  BY <1>1, <1>2, <1>3, <1>6 DEF RetiredRecords
<1>8. ToRetire' = ToRetire
  BY <1>1, <1>2, <1>6 DEF ToRetire, Retires
<1>9. ToWrite' = ToWrite
  BY <1>2 DEF ToWrite, Writes
<1>10. Authored(plan, wanted)' = Authored(plan, wanted)
  BY <1>2 DEF Authored, Writes
<1>11. ThePack' = ThePack
  BY <1>2, <1>3, <1>10 DEF ThePack, NextPack, published
<1>12. TheContent' = TheContent
  BY <1>7, <1>10 DEF TheContent, NextContent, published
<1>13. NewGame' = NewGame
  BY DEF NewGame, Needs, published
<1> QED
  BY <1>4, <1>8, <1>9, <1>11, <1>12, <1>13

\* The conflicts to choose among follow from the review.
LEMMA ReviewFixed ==
    ASSUME UNCHANGED <<published, review>>
    PROVE  Choosable(review)' = Choosable(review)
<1>1. /\ Owned(review)' = Owned(review) /\ Kept(review)' = Kept(review)
      /\ Missing(review)' = Missing(review) /\ MatchesOld(review)' = MatchesOld(review)
      /\ New' = New /\ Equivalent(review)' = Equivalent(review) /\ Same(review)' = Same(review)
  BY DEF published, Owned, Kept, Missing, MatchesOld, New, Equivalent, Same
<1>2. Conflict(review)' = Conflict(review)
  BY <1>1 DEF Conflict, KeepAuthored, RestoreAuthored, Adopt, InstallNew, ReplaceOld, Removed,
     ReleaseOwnership, KeepDivergence
<1> QED
  BY <1>1, <1>2 DEF Choosable

\* The reviewed fingerprint binds them: what was a conflict still is.
LEMMA FingerprintBinds ==
    ASSUME Fingerprint(World) = Fingerprint(review)
    PROVE  Choosable(World) = Choosable(review)
<1>1. \A p \in Paths : (p \in Conflict(World)) = (p \in Conflict(review))
  <2>1. Fingerprint(World).rows = Fingerprint(review).rows
    OBVIOUS
  <2> QED
    BY <2>1 DEF Fingerprint
<1>2. World.pack = review.pack
  BY DEF Fingerprint
<1>3. Same(World) = Same(review)
  BY <1>2 DEF Same, Owned
<1> QED
  BY <1>1, <1>3 DEF Choosable, New

\* What is a conflict of the world is one of the plan made of it.
LEMMA PlanOfWorld ==
    ASSUME UNCHANGED <<published, disk, documents>>, plan' = World
    PROVE  Choosable(plan)' = Choosable(World)
<1>1. /\ Owned(plan)' = Owned(World) /\ Kept(plan)' = Kept(World)
      /\ Missing(plan)' = Missing(World) /\ MatchesOld(plan)' = MatchesOld(World)
      /\ New' = New /\ Equivalent(plan)' = Equivalent(World) /\ Same(plan)' = Same(World)
  BY DEF published, Owned, Kept, Missing, MatchesOld, New, Equivalent, Same
<1>2. Conflict(plan)' = Conflict(World)
  BY <1>1 DEF Conflict, KeepAuthored, RestoreAuthored, Adopt, InstallNew, ReplaceOld, Removed,
     ReleaseOwnership, KeepDivergence
<1> QED
  BY <1>1, <1>2 DEF Choosable

\* Failures stay within their bound.
LEMMA FailTyped ==
    ASSUME TypeOK, UNCHANGED upsets \/ Failing(1) \/ Failing(2)
    PROVE  upsets' \in 0 .. Upsets
  BY BoundsAssumption DEF TypeOK, Failing

\* What the plan names are of their types, and the pack it commits separates
\* its own from the user's.
LEMMA PlanTypes ==
    ASSUME TypeOK, Listed, plan \in Worlds, SeparatePack(plan.pack),
           wanted \subseteq Choosable(plan)
    PROVE  /\ ToRetire \subseteq Paths /\ ToWrite \subseteq Paths
           /\ ThePack \in Packs /\ ThePack.version = "v2" /\ SeparatePack(ThePack)
           /\ TheContent \in Contents
<1>1. plan.pack \in Packs /\ plan.files \in Disk /\ plan.content \in Contents
  BY DEF Worlds
<1>2. wanted \subseteq Paths
  BY DEF Choosable, New
<1>3. /\ Owned(plan) \subseteq Paths /\ Kept(plan) \subseteq Paths /\ Missing(plan) \subseteq Paths
      /\ MatchesOld(plan) \subseteq Paths /\ New \subseteq Paths /\ Same(plan) \subseteq Paths
      /\ Equivalent(plan) \subseteq Paths
  BY DEF Owned, Kept, Missing, MatchesOld, New, Same, Equivalent
<1>4. Conflict(plan) \subseteq Paths
  BY <1>3 DEF Conflict
<1>5. /\ ToRetire \subseteq Paths /\ ToWrite \subseteq Paths
  BY <1>2, <1>3 DEF ToRetire, ToWrite, Retires, Writes, Removed, ReplaceOld, RestoreAuthored,
     InstallNew
<1>6. \A p \in Authored(plan, wanted) \cup KeepAuthored(plan) : p \in New
  BY <1>3 DEF Authored, Writes, Adopt, KeepAuthored, RestoreAuthored, InstallNew, ReplaceOld,
     Choosable, Same, Equivalent
<1>7. \A p \in New : next[p] \in AuthoredBytes
  BY DEF New, Listed
<1>8. ThePack = [version |-> "v2", owned |-> ThePack.owned, kept |-> ThePack.kept]
  BY DEF ThePack, NextPack
<1>9. ThePack.owned \in [Paths -> AuthoredBytes \cup {None}]
  BY <1>6, <1>7 DEF ThePack, NextPack
<1>10. ThePack.kept \in Disk
  BY <1>1 DEF ThePack, NextPack, Disk, File
<1>11. ThePack \in Packs
  BY <1>8, <1>9, <1>10 DEF Packs, Versions
<1>12. SeparatePack(ThePack)
  <2>1. ((Conflict(plan) \ wanted) \cup KeepDivergence(plan))
            \cap (Authored(plan, wanted) \cup KeepAuthored(plan)) = {}
    BY <1>6 DEF Conflict, KeepDivergence, Authored, Writes
  <2> QED
    BY <2>1 DEF SeparatePack, ThePack, NextPack
<1>13. TheContent \in Contents
  <2>1. plan.content.records \in [Components -> File]
    BY <1>1 DEF Contents
  <2>2. \A p \in Authored(plan, wanted) : next[p] \in File
    BY <1>6, <1>7 DEF File, Bytes
  <2> QED
    BY <1>1, <2>1, <2>2 DEF TheContent, NextContent, Contents, File
<1> QED
  BY <1>5, <1>8, <1>11, <1>12, <1>13

\* What is moved aside without the user's leave is what the pack authored.
LEMMA OnlyAuthoredRetire ==
    ASSUME NEW p \in ToRetire, p \notin wanted, plan.pack \in Packs
    PROVE  plan.files[p] \in AuthoredBytes
<1>1. p \in MatchesOld(plan)
  BY DEF ToRetire, Retires, Removed, ReplaceOld
<1> QED
  BY <1>1 DEF MatchesOld, Owned, Packs

\* The documents of the plan bear each other out when those it started from
\* did.
LEMMA PlanAgrees ==
    ASSUME wanted \subseteq Choosable(plan), Components \subseteq Paths,
           \A c \in Components :
                plan.pack.owned[c] # None => plan.content.records[c] = plan.pack.owned[c]
    PROVE  \A c \in Components :
                ThePack.owned[c] # None => TheContent.records[c] = ThePack.owned[c]
<1> SUFFICES ASSUME NEW c \in Components, ThePack.owned[c] # None
             PROVE  TheContent.records[c] = ThePack.owned[c]
  OBVIOUS
<1>1. ThePack.owned[c] = next[c] /\ c \in Authored(plan, wanted) \cup KeepAuthored(plan)
  BY DEF ThePack, NextPack
<1>2. CASE c \in Authored(plan, wanted)
  BY <1>1, <1>2 DEF TheContent, NextContent
<1>3. CASE c \in KeepAuthored(plan) \ Authored(plan, wanted)
  <2>1. c \notin RetiredRecords(plan)
    BY <1>3 DEF KeepAuthored, RetiredRecords, RestoreAuthored, Adopt, ReplaceOld, Removed, Conflict,
       ReleaseOwnership, Missing, MatchesOld, Same, Owned, New
  <2> QED
    BY <1>1, <1>3, <2>1 DEF TheContent, NextContent, KeepAuthored, Same, Owned
<1> QED
  BY <1>1, <1>2, <1>3

\* Whatever record the plan leaves describes the file it leaves.
LEMMA PlanDescribes ==
    ASSUME wanted \subseteq Choosable(plan), SeparatePack(plan.pack), plan \in Worlds,
           NEW c \in Components, Components \subseteq Paths,
           plan.content.records[c] \in {None, plan.pack.owned[c]},
           TheContent.records[c] # None
    PROVE  TheContent.records[c] =
                IF c \in ToWrite THEN next[c] ELSE IF c \in ToRetire THEN None ELSE plan.files[c]
<1>1. CASE c \in ToWrite
  BY <1>1 DEF TheContent, NextContent, Authored, ToWrite
<1>2. CASE c \in Adopt(plan) \ ToWrite
  <2>1. TheContent.records[c] = next[c] /\ plan.files[c] = next[c]
    BY <1>2 DEF TheContent, NextContent, Authored, Adopt, Equivalent
  <2>2. c \notin ToRetire
    BY <1>2 DEF ToRetire, Retires, Removed, ReplaceOld, Adopt, Equivalent, Choosable, Conflict,
       MatchesOld, Same, Owned, New, Missing
  <2> QED
    BY <1>2, <2>1, <2>2
<1>3. CASE c \notin ToWrite /\ c \notin Adopt(plan)
  <2>1. /\ TheContent.records[c] = plan.content.records[c]
        /\ c \notin RetiredRecords(plan)
    BY <1>3 DEF TheContent, NextContent, Authored, ToWrite
  <2>2. c \in Owned(plan) /\ TheContent.records[c] = plan.pack.owned[c]
    BY <2>1 DEF Owned
  <2>3. c \notin Kept(plan)
    BY <2>2 DEF SeparatePack, Owned, Kept
  <2>4. c \in KeepAuthored(plan) \/ c \in Shared(plan)
    BY <1>3, <2>1, <2>2, <2>3 DEF RetiredRecords, Conflict, KeepDivergence, InstallNew, ToWrite,
       Writes
  <2>5. c \in MatchesOld(plan) /\ c \notin ToRetire
    BY <2>4 DEF KeepAuthored, Shared, Removed, ToRetire, Retires, ReplaceOld, Same, Choosable,
       Conflict
  <2> QED
    BY <1>3, <2>2, <2>5 DEF MatchesOld
<1> QED
  BY <1>1, <1>2, <1>3

-----------------------------------------------------------------------------
(* The interface, the user and the other commands                          *)

\* From here on steps are told apart by the sets they are in, and a tuple of
\* variables stands for its members.
USE DEF Waiting, Prepares, Commits, RollsFiles, Ending, Undoing, Forward, Follows,
        published, disk, documents, run, ghosts, Ends, FailsTo, Debris

\* A review records the world and changes none of it.
LEMMA PreviewStep ==
    ASSUME UInv, Preview
    PROVE  UInv'
<1>1. UNCHANGED <<published, plan, wanted>>
  BY DEF Preview
<1>2. World \in Worlds
  BY DEF UInv, TypeOK, World, Worlds
<1> QED
  BY <1>1, <1>2 DEF Preview, UInv, TypeOK, Separate, Planned, Stays, Listed, FilesFollow,
     DocumentsFollow, GameFollows, Agreed, AsBefore, RecordsDescribeFiles, Needs

\* The user writes or deletes a file at any moment.
LEMMA UserEditsStep ==
    ASSUME UInv, NEW p \in Paths, UserEdits(p)
    PROVE  UInv'
<1>1. UNCHANGED <<published, plan, wanted>>
  BY DEF UserEdits
<1>2. TypeOK'
  <2>1. upsets' \in 0 .. Upsets
    BY BoundsAssumption DEF UserEdits, Edit, UInv, TypeOK
  <2> QED
    BY <2>1 DEF UserEdits, UInv, TypeOK, Steps, Outcomes, Disk, File, Bytes
<1>3. Separate'
  BY <1>1 DEF UserEdits, UInv, Separate
<1>4. Planned'
  BY <1>1, PlanFixed, ReviewFixed DEF UserEdits, UInv, Planned
<1>5. Stays'
  <2>1. PICK b \in {"own", "edited", None} :
            /\ files' = [files EXCEPT ![p] = b]
            /\ mine' = [mine EXCEPT ![p] = IF moving = p THEN None ELSE b]
    BY DEF UserEdits
  <2>2. UNCHANGED <<agreed, moving>>
    BY DEF UserEdits
  <2> QED
    BY <2>1, <2>2, NoneIsNothing DEF UInv, TypeOK, Disk, Stays, AuthoredBytes
<1>6. Listed' /\ FilesFollow'
  BY <1>1, PlanFixed DEF UserEdits, UInv, Listed, FilesFollow, FileAt
<1>7. DocumentsFollow' /\ GameFollows'
  BY <1>1, PlanFixed DEF UserEdits, UInv, DocumentsFollow, GameFollows, Agreed, Needs
<1>8. AsBefore' /\ RecordsDescribeFiles'
  BY <1>1 DEF UserEdits, UInv, AsBefore, RecordsDescribeFiles
<1> QED
  BY <1>2, <1>3, <1>4, <1>5, <1>6, <1>7, <1>8 DEF UInv

LEMMA ContentCommandStep ==
    ASSUME UInv, ContentCommand
    PROVE  UInv'
<1>1. UNCHANGED <<published, plan, wanted>>
  BY DEF ContentCommand
<1>2. TypeOK'
  <2>1. upsets' \in 0 .. Upsets
    BY BoundsAssumption DEF ContentCommand, Edit, UInv, TypeOK
  <2>2. content' \in Contents /\ late' \in BOOLEAN
    BY DEF ContentCommand, Contents, UInv, TypeOK
  <2> QED
    BY <2>1, <2>2 DEF ContentCommand, UInv, TypeOK
<1>3. Separate' /\ Planned' /\ Stays'
  BY <1>1, PlanFixed, ReviewFixed DEF ContentCommand, UInv, Separate, Planned, Stays
<1>4. Listed' /\ FilesFollow'
  BY <1>1, PlanFixed DEF ContentCommand, UInv, Listed, FilesFollow, FileAt
<1>5. DocumentsFollow' /\ GameFollows'
  BY <1>1, PlanFixed DEF ContentCommand, UInv, DocumentsFollow, GameFollows, Agreed, Needs
<1>6. AsBefore' /\ RecordsDescribeFiles'
  BY <1>1 DEF ContentCommand, UInv, AsBefore, RecordsDescribeFiles
<1> QED
  BY <1>2, <1>3, <1>4, <1>5, <1>6 DEF UInv

\* A crash forgets the lists; with the receipt there, recovery decides.
LEMMA CrashStep ==
    ASSUME UInv, Crash
    PROVE  UInv'
<1>1. UNCHANGED <<published, plan, wanted>>
  BY DEF Crash
<1>2. TypeOK'
  <2>1. upsets' \in 0 .. Upsets
    BY BoundsAssumption DEF Crash, Edit, UInv, TypeOK
  <2> QED
    BY <2>1 DEF Crash, UInv, TypeOK, Steps, Outcomes
<1>3. Separate' /\ Planned' /\ Stays'
  BY <1>1 DEF Crash, UInv, Separate, Planned, Stays
<1>4. Listed' /\ FilesFollow'
  BY <1>1 DEF Crash, UInv, Listed, FilesFollow
<1>5. DocumentsFollow'
  BY <1>1 DEF Crash, UInv, DocumentsFollow
<1>6. GameFollows'
  <2> SUFFICES ASSUME ~ignored, ~undone PROVE GameFollows'
    BY DEF Crash, GameFollows
  <2>1. UNCHANGED <<pack, row, content, game, receipt>> /\ pc' = "idle" /\ pc # "idle"
    BY DEF Crash
  <2>2. pack.version = "v2" => game = NewGame
    BY DEF UInv, GameFollows
  <2>3. row.state = "ready" /\ ~receipt => Agreed
    <3> SUFFICES ASSUME row.state = "ready", ~receipt PROVE Agreed
      OBVIOUS
    <3>1. CASE pc \in Waiting
      BY <3>1 DEF UInv, GameFollows
    <3>2. CASE pc \in {"acquire", "begin"}
      BY <3>2 DEF UInv, GameFollows, DocumentsFollow, Listed, Agreed, Needs, Planned
    <3>3. CASE pc \in {"cleanup", "validate"}
      <4>1. /\ wanted \subseteq Choosable(plan) /\ Components \subseteq Paths
            /\ saved = {"content", "pack", "row"} /\ ThePack.version = "v2"
        BY <3>3, PathsAssumption DEF UInv, Planned, Listed, ThePack, NextPack
      <4> QED
        BY <3>3, <4>1, PlanAgrees DEF UInv, DocumentsFollow, GameFollows, Agreed, NewGame
    <3> QED
      BY <3>1, <3>2, <3>3 DEF UInv, TypeOK, Steps, LockedSteps, GameFollows, Planned
  <2> QED
    BY <1>1, <2>1, <2>2, <2>3, PlanFixed DEF GameFollows, Agreed, Needs
<1>7. AsBefore' /\ RecordsDescribeFiles'
  BY <1>1 DEF Crash, UInv, AsBefore, RecordsDescribeFiles
<1> QED
  BY <1>2, <1>3, <1>4, <1>5, <1>6, <1>7 DEF UInv

\* A command begins: the review may be as old as it likes.
LEMMA ApplyStep ==
    ASSUME UInv, Apply
    PROVE  UInv'
<1>1. wanted' \subseteq Choosable(review)' /\ wanted' \subseteq Paths /\ review \in Worlds
  BY ReviewFixed DEF Apply, Choosable, New, UInv, TypeOK
<1>2. NewGame' = NewGame
  BY DEF Apply, NewGame, Needs
<1>3. TypeOK'
  BY <1>1 DEF Apply, UInv, TypeOK, Steps, Outcomes
<1>4. Separate' /\ Planned' /\ Stays'
  BY <1>1 DEF Apply, UInv, Separate, Planned, Stays
<1>5. Listed' /\ FilesFollow' /\ DocumentsFollow'
  BY DEF Apply, UInv, Listed, FilesFollow, DocumentsFollow
<1>6. GameFollows'
  BY <1>2 DEF Apply, UInv, GameFollows, Agreed, Needs
<1>7. AsBefore' /\ RecordsDescribeFiles'
  BY DEF Apply, UInv, AsBefore, RecordsDescribeFiles
<1> QED
  BY <1>3, <1>4, <1>5, <1>6, <1>7 DEF UInv

\* Recovery proves one of the two versions from row, pack, files and game.
LEMMA RecoverStep ==
    ASSUME UInv, Recover
    PROVE  UInv'
<1>1. UNCHANGED <<published, plan, wanted>>
  BY DEF Recover
<1>2. TypeOK'
  <2>1. row' \in Rows /\ backups' \in Disk /\ staged' \subseteq Paths /\ UNCHANGED files
    BY DEF Recover, UInv, TypeOK, Rows, Absent, Disk, File
  <2>2. upsets' \in 0 .. Upsets
    BY FailTyped DEF Recover, UInv, Fault
  <2>3. pc' \in Steps /\ outcome' \in Outcomes /\ receipt' \in BOOLEAN
    BY DEF Recover, UInv, TypeOK, Steps, LockedSteps, Outcomes
  <2> QED
    BY <2>1, <2>2, <2>3 DEF Recover, UInv, TypeOK
<1>3. Separate' /\ Planned' /\ Stays'
  BY <1>1, ReviewFixed DEF Recover, UInv, Separate, Planned, Stays
<1>4. Listed' /\ FilesFollow'
  BY <1>1 DEF Recover, UInv, Listed, FilesFollow
<1>5. DocumentsFollow'
  BY <1>1 DEF Recover, UInv, DocumentsFollow
<1>6. GameFollows'
  <2>1. CASE row'.state = "ready" /\ ~receipt' /\ receipt /\ ~ignored /\ ~undone
    <3>1. Agreed'
      BY <2>1 DEF Recover, NewStateProven, OldStateProven, Installed, Agreed, Needs, NewGame,
         UInv, TypeOK, GameFollows, Rows
    <3> QED
      BY <1>1, <2>1, <3>1, PlanFixed DEF Recover, UInv, GameFollows
  <2>2. CASE ~(row'.state = "ready" /\ ~receipt' /\ receipt /\ ~ignored /\ ~undone)
    BY <1>1, <2>2, PlanFixed DEF Recover, UInv, GameFollows, Agreed, Needs
  <2> QED
    BY <2>1, <2>2
<1>7. AsBefore' /\ RecordsDescribeFiles'
  BY <1>1 DEF Recover, UInv, AsBefore, RecordsDescribeFiles
<1> QED
  BY <1>2, <1>3, <1>4, <1>5, <1>6, <1>7 DEF UInv

\* The conflicts the user resolved are conflicts of the plan: the fingerprint
\* binds them.
LEMMA DeriveStep ==
    ASSUME UInv, Derive
    PROVE  UInv'
<1>1. World \in Worlds
  BY DEF UInv, TypeOK, World, Worlds
<1>2. CASE /\ row.state = "ready" /\ pack.version = "v1" /\ wanted \subseteq Choosable(World)
           /\ pc' = "acquire" /\ plan' = World /\ agreed' = agreed \cup wanted
           /\ edited' = {} /\ late' = FALSE /\ crashed' = FALSE
           /\ moving' = None /\ retired' = {} /\ active' = {} /\ saved' = {} /\ unproven' = FALSE
           /\ UNCHANGED outcome
  <2>1. UNCHANGED <<published, disk, documents, game, review, wanted, upsets, mine, undone, ignored>>
    BY DEF Derive
  <2>2. TypeOK'
    BY <1>1, <1>2, <2>1 DEF UInv, TypeOK, Steps
  <2>3. Choosable(plan)' = Choosable(World)
    BY <1>2, <2>1, PlanOfWorld
  <2>4. Separate' /\ Planned' /\ Stays'
    <3>1. World.pack = pack /\ World.row = row /\ UNCHANGED pack
      BY <2>1 DEF World
    <3>2. Separate'
      BY <1>2, <3>1 DEF UInv, Separate
    <3>3. Planned'
      BY <1>1, <1>2, <2>1, <2>3, <3>1 DEF Derive, UInv, Planned
    <3>4. Stays'
      BY <1>2, <2>1 DEF UInv, Stays
    <3> QED
      BY <3>2, <3>3, <3>4
  <2>5. Listed' /\ FilesFollow' /\ DocumentsFollow'
    BY <1>2, <2>1 DEF UInv, Listed, FilesFollow, FileAt, DocumentsFollow, World
  <2>6. GameFollows'
    <3>1. NewGame' = NewGame
      BY <2>1 DEF NewGame, Needs
    <3> QED
      BY <1>2, <2>1, <3>1 DEF Derive, UInv, GameFollows, Agreed, Needs, World
  <2>7. AsBefore' /\ RecordsDescribeFiles'
    BY <1>2 DEF AsBefore, RecordsDescribeFiles
  <2> QED
    BY <2>2, <2>4, <2>5, <2>6, <2>7 DEF UInv
<1>3. CASE Ends("failed") /\ UNCHANGED <<plan, run, agreed, edited, late, crashed>>
  <2>1. UNCHANGED <<published, plan, wanted>>
    BY <1>3 DEF Derive
  <2>2. TypeOK'
    BY <1>3 DEF Derive, UInv, TypeOK, Steps, Outcomes
  <2>3. Separate' /\ Planned' /\ Stays'
    BY <1>3, <2>1 DEF Derive, UInv, Separate, Planned, Stays
  <2>4. Listed' /\ FilesFollow' /\ DocumentsFollow'
    BY <1>3, <2>1 DEF Derive, UInv, Listed, FilesFollow, DocumentsFollow
  <2>5. GameFollows'
    BY <1>3, <2>1, PlanFixed DEF Derive, UInv, GameFollows, Agreed, Needs
  <2>6. AsBefore' /\ RecordsDescribeFiles'
    BY <1>3, <2>1 DEF Derive, UInv, AsBefore, RecordsDescribeFiles
  <2> QED
    BY <2>2, <2>3, <2>4, <2>5, <2>6 DEF UInv
<1> QED
  <2>1. pc = "derive" => wanted \subseteq Choosable(review)
    BY DEF UInv, Planned
  <2> QED
    BY <1>2, <1>3, <2>1, FingerprintBinds DEF Derive

-----------------------------------------------------------------------------
(* The update, step by step *)

LEMMA AcquireStep ==
    ASSUME UInv, Acquire
    PROVE  UInv'
<1>1. UNCHANGED <<published, plan, wanted>>
  BY DEF Acquire
<1>2. TypeOK'
  <2>1. upsets' \in 0 .. Upsets
    BY FailTyped DEF Acquire, UInv
  <2>2. pc' \in Steps /\ outcome' \in Outcomes
    BY DEF Acquire, UInv, TypeOK, Steps, LockedSteps, Outcomes
  <2> QED
    BY <2>1, <2>2 DEF Acquire, UInv, TypeOK
<1>3. Separate' /\ Planned' /\ Stays'
  BY <1>1, PlanFixed DEF Acquire, UInv, Separate, Planned, Stays
<1>4. Listed' /\ FilesFollow'
  BY <1>1 DEF Acquire, UInv, Listed, FilesFollow, FileAt
<1>5. DocumentsFollow' /\ GameFollows'
  BY <1>1 DEF Acquire, UInv, Planned, Listed, DocumentsFollow, GameFollows, Agreed, Needs
<1>6. AsBefore' /\ RecordsDescribeFiles'
  BY <1>1 DEF Acquire, UInv, Listed, FilesFollow, FileAt, DocumentsFollow, AsBefore,
     RecordsDescribeFiles
<1> QED
  BY <1>2, <1>3, <1>4, <1>5, <1>6 DEF UInv

LEMMA BeginStep ==
    ASSUME UInv, Begin
    PROVE  UInv'
<1>1. UNCHANGED <<published, plan, wanted>>
  BY DEF Begin
<1>2. TypeOK'
  <2>1. upsets' \in 0 .. Upsets
    BY FailTyped DEF Begin, UInv, Fault
  <2>2. pc' \in Steps /\ outcome' \in Outcomes /\ receipt' \in BOOLEAN
    BY DEF Begin, UInv, TypeOK, Steps, LockedSteps, Outcomes
  <2> QED
    BY <2>1, <2>2 DEF Begin, UInv, TypeOK
<1>3. Separate' /\ Planned' /\ Stays'
  BY <1>1, PlanFixed DEF Begin, UInv, Separate, Planned, Stays
<1>4. Listed' /\ FilesFollow'
  BY <1>1 DEF Begin, UInv, Listed, FilesFollow, FileAt
<1>5. DocumentsFollow' /\ GameFollows'
  BY <1>1 DEF Begin, UInv, Planned, Listed, DocumentsFollow, GameFollows, Agreed, Needs
<1>6. AsBefore' /\ RecordsDescribeFiles'
  BY <1>1 DEF Begin, UInv, Listed, FilesFollow, FileAt, DocumentsFollow, AsBefore,
     RecordsDescribeFiles
<1> QED
  BY <1>2, <1>3, <1>4, <1>5, <1>6 DEF UInv

LEMMA MarkStep ==
    ASSUME UInv, Mark
    PROVE  UInv'
<1>1. UNCHANGED <<published, plan, wanted>>
  BY DEF Mark
<1>2. TypeOK'
  <2>1. upsets' \in 0 .. Upsets
    BY FailTyped DEF Mark, UInv, Fault
  <2>2. pc' \in Steps /\ outcome' \in Outcomes
    BY DEF Mark, UInv, TypeOK, Steps, LockedSteps, Outcomes
  <2> QED
    BY <2>1, <2>2 DEF Mark, UInv, TypeOK, Rows
<1>3. Separate' /\ Planned' /\ Stays'
  BY <1>1, PlanFixed DEF Mark, UInv, Separate, Planned, Stays
<1>4. Listed' /\ FilesFollow'
  BY <1>1 DEF Mark, UInv, Listed, FilesFollow, FileAt
<1>5. DocumentsFollow' /\ GameFollows'
  BY <1>1, PlanFixed DEF Mark, UInv, TypeOK, DocumentsFollow, GameFollows, Needs, NewGame, Rows
<1>6. AsBefore' /\ RecordsDescribeFiles'
  BY <1>1 DEF Mark, UInv, Listed, FilesFollow, FileAt, DocumentsFollow, AsBefore,
     RecordsDescribeFiles
<1> QED
  BY <1>2, <1>3, <1>4, <1>5, <1>6 DEF UInv

LEMMA InstallGameStep ==
    ASSUME UInv, InstallGame
    PROVE  UInv'
<1>1. UNCHANGED <<published, plan, wanted>>
  BY DEF InstallGame
<1>2. TypeOK'
  <2>1. upsets' \in 0 .. Upsets
    BY FailTyped DEF InstallGame, UInv, Fault
  <2>2. pc' \in Steps /\ outcome' \in Outcomes /\ receipt' \in BOOLEAN
    BY DEF InstallGame, UInv, TypeOK, Steps, LockedSteps, Outcomes
  <2> QED
    BY <2>1, <2>2 DEF InstallGame, UInv, TypeOK, Rows
<1>3. Separate' /\ Planned' /\ Stays'
  BY <1>1, PlanFixed DEF InstallGame, UInv, Separate, Planned, Stays
<1>4. Listed' /\ FilesFollow'
  BY <1>1 DEF InstallGame, UInv, Listed, FilesFollow, FileAt
<1>5. DocumentsFollow' /\ GameFollows'
  BY <1>1 DEF InstallGame, UInv, TypeOK, Planned, Listed, DocumentsFollow, GameFollows, Agreed,
     Needs, NewGame, Rows
<1>6. AsBefore' /\ RecordsDescribeFiles'
  BY <1>1 DEF InstallGame, UInv, Listed, FilesFollow, FileAt, DocumentsFollow, AsBefore,
     RecordsDescribeFiles
<1> QED
  BY <1>2, <1>3, <1>4, <1>5, <1>6 DEF UInv

\* The commit: lists and documents grow as the plan says.
LEMMA StageStep ==
    ASSUME UInv, Stage
    PROVE  UInv'
<1>1. UNCHANGED <<published, plan, wanted>>
  BY DEF Stage
<1>2. TypeOK'
  <2>1. staged' \subseteq Paths
    <3>1. ToWrite \subseteq Paths
      BY NoneIsNoWorld, PlanTypes DEF Stage, UInv, Planned, Separate
    <3> QED
      BY <3>1 DEF Stage, ToWrite, UInv, TypeOK
  <2>2. upsets' \in 0 .. Upsets
    BY FailTyped DEF Stage, UInv, Fault
  <2>3. pc' \in Steps /\ outcome' \in Outcomes
    BY DEF Stage, UInv, TypeOK, Steps, LockedSteps, Outcomes
  <2> QED
    BY <2>1, <2>2, <2>3 DEF Stage, UInv, TypeOK
<1>3. Separate' /\ Planned' /\ Stays'
  BY <1>1, PlanFixed DEF Stage, UInv, Separate, Planned, Stays
<1>4. Listed' /\ FilesFollow'
  BY <1>1 DEF Stage, UInv, Listed, FilesFollow, FileAt
<1>5. DocumentsFollow' /\ GameFollows'
  BY <1>1, PlanFixed DEF Stage, UInv, DocumentsFollow, GameFollows
<1>6. AsBefore' /\ RecordsDescribeFiles'
  BY <1>1 DEF Stage, UInv, AsBefore, RecordsDescribeFiles
<1> QED
  BY <1>2, <1>3, <1>4, <1>5, <1>6 DEF UInv

\* What is proven to be the pack's own may go; what the user agreed to, too.
LEMMA RetireProvesStep ==
    ASSUME UInv, NEW p \in Paths, RetireProves(p)
    PROVE  UInv'
<1>1. UNCHANGED <<published, plan, wanted>>
  BY DEF RetireProves
<1>2. TypeOK'
  <2>1. upsets' \in 0 .. Upsets
    BY FailTyped DEF RetireProves, UInv
  <2>2. pc' \in Steps /\ outcome' \in Outcomes
    BY DEF RetireProves, UInv, TypeOK, Steps, LockedSteps, Outcomes
  <2> QED
    BY <2>1, <2>2 DEF RetireProves, UInv, TypeOK
<1>3. Separate'
  BY <1>1 DEF RetireProves, UInv, Separate
<1>4. Planned'
  BY <1>1, PlanFixed DEF RetireProves, UInv, Planned, ToRetire
<1>5. Stays'
  <2>1. UNCHANGED <<mine, agreed, files>> /\ moving' \in {moving, p}
    BY DEF RetireProves
  <2>2. CASE moving' = p /\ p \notin agreed
    <3>1. p \in ToRetire /\ p \notin wanted /\ plan.pack \in Packs
      BY <2>2 DEF RetireProves, UInv, Planned, ToRetire, Worlds
    <3>2. CASE files[p] = plan.files[p]
      <4>1. files[p] \in AuthoredBytes
        BY <3>1, <3>2, OnlyAuthoredRetire
      <4> QED
        BY <2>1, <2>2, <4>1 DEF UInv, Stays
    <3>3. CASE files[p] # plan.files[p]
      BY <2>1, <3>3 DEF RetireProves, UInv, Stays
    <3> QED
      BY <3>2, <3>3
  <2> QED
    BY <2>1, <2>2 DEF UInv, Stays
<1>6. Listed' /\ FilesFollow'
  BY <1>1, PlanFixed DEF RetireProves, UInv, Listed, FilesFollow, FileAt
<1>7. DocumentsFollow' /\ GameFollows'
  BY <1>1, PlanFixed DEF RetireProves, UInv, DocumentsFollow, GameFollows
<1>8. AsBefore' /\ RecordsDescribeFiles'
  BY <1>1 DEF RetireProves, UInv, AsBefore, RecordsDescribeFiles
<1> QED
  BY <1>2, <1>3, <1>4, <1>5, <1>6, <1>7, <1>8 DEF UInv

LEMMA RetireMovesStep ==
    ASSUME UInv, RetireMoves
    PROVE  UInv'
<1>1. UNCHANGED <<published, plan, wanted>>
  BY DEF RetireMoves
<1>0. moving \in Paths /\ moving # None
  <2>1. ToRetire \subseteq Paths /\ moving \in ToRetire
    BY NoneIsNoWorld, PlanTypes DEF RetireMoves, UInv, Planned, Separate
  <2> QED
    BY <2>1, NoneIsNothing
<1>2. TypeOK'
  <2>1. moving \in Paths
    BY <1>0
  <2>2. upsets' \in 0 .. Upsets
    BY FailTyped DEF RetireMoves, UInv, Fault
  <2>3. pc' \in Steps /\ outcome' \in Outcomes
    BY DEF RetireMoves, UInv, TypeOK, Steps, LockedSteps, Outcomes
  <2> QED
    BY <2>1, <2>2, <2>3 DEF RetireMoves, UInv, TypeOK, Disk, File
<1>3. Separate'
  BY <1>1 DEF RetireMoves, UInv, Separate
<1>4. Planned'
  BY <1>1, PlanFixed DEF RetireMoves, UInv, Planned
<1>5. Stays'
  <2>1. UNCHANGED <<mine, agreed>> /\ moving' = None
    BY DEF RetireMoves
  <2>2. \A q \in Paths : files'[q] = files[q] \/ q = moving
    BY DEF RetireMoves, UInv, TypeOK, Disk
  <2> QED
    BY <1>0, <2>1, <2>2 DEF UInv, Stays
<1>6. Listed' /\ FilesFollow'
  BY <1>1, PlanFixed DEF RetireMoves, UInv, TypeOK, Planned, Disk, Listed, FilesFollow, FileAt
<1>7. DocumentsFollow' /\ GameFollows'
  BY <1>1, PlanFixed DEF RetireMoves, UInv, DocumentsFollow, GameFollows
<1>8. AsBefore' /\ RecordsDescribeFiles'
  BY <1>1 DEF RetireMoves, UInv, AsBefore, RecordsDescribeFiles
<1> QED
  BY <1>2, <1>3, <1>4, <1>5, <1>6, <1>7, <1>8 DEF UInv

LEMMA RetiredStep ==
    ASSUME UInv, Retired
    PROVE  UInv'
<1>1. UNCHANGED <<published, plan, wanted>>
  BY DEF Retired
<1>2. TypeOK'
  <2>1. upsets' \in 0 .. Upsets
    BY FailTyped DEF Retired, UInv
  <2>2. pc' \in Steps /\ outcome' \in Outcomes
    BY DEF Retired, UInv, TypeOK, Steps, LockedSteps, Outcomes
  <2> QED
    BY <2>1, <2>2 DEF Retired, UInv, TypeOK
<1>3. Separate' /\ Planned' /\ Stays'
  BY <1>1, PlanFixed DEF Retired, UInv, Separate, Planned, Stays
<1>4. Listed'
  <2>1. retired = ToRetire
    BY DEF Retired, UInv, Listed, ToRetire
  <2> QED
    BY <1>1, <2>1, PlanFixed DEF Retired, UInv, Listed
<1>5. FilesFollow'
  BY <1>1 DEF Retired, UInv, FilesFollow, FileAt
<1>6. DocumentsFollow' /\ GameFollows'
  BY <1>1, PlanFixed DEF Retired, UInv, DocumentsFollow, GameFollows
<1>7. AsBefore' /\ RecordsDescribeFiles'
  BY <1>1 DEF Retired, UInv, AsBefore, RecordsDescribeFiles
<1> QED
  BY <1>2, <1>3, <1>4, <1>5, <1>6, <1>7 DEF UInv

LEMMA ActivateStep ==
    ASSUME UInv, NEW p \in Paths, Activate(p)
    PROVE  UInv'
<1>1. UNCHANGED <<published, plan, wanted>>
  BY DEF Activate
<1>2. TypeOK'
  <2>1. upsets' \in 0 .. Upsets
    BY FailTyped DEF Activate, UInv, Fault
  <2>2. pc' \in Steps /\ outcome' \in Outcomes
    BY DEF Activate, UInv, TypeOK, Steps, LockedSteps, Outcomes
  <2> QED
    BY <2>1, <2>2 DEF Activate, UInv, TypeOK, Disk, File, Bytes
<1>3. Separate' /\ Planned' /\ Stays'
  BY <1>1, PlanFixed DEF Activate, UInv, TypeOK, Disk, Separate, Planned, Stays
<1>4. Listed'
  BY <1>1, PlanFixed DEF Activate, UInv, Listed, ToRetire, ToWrite
<1>5. FilesFollow'
  BY <1>1 DEF Activate, UInv, TypeOK, Disk, FilesFollow, FileAt
<1>6. DocumentsFollow' /\ GameFollows'
  BY <1>1, PlanFixed DEF Activate, UInv, DocumentsFollow, GameFollows
<1>7. AsBefore' /\ RecordsDescribeFiles'
  BY <1>1 DEF Activate, UInv, AsBefore, RecordsDescribeFiles
<1> QED
  BY <1>2, <1>3, <1>4, <1>5, <1>6, <1>7 DEF UInv

LEMMA ActivatedStep ==
    ASSUME UInv, Activated
    PROVE  UInv'
<1>1. UNCHANGED <<published, plan, wanted>>
  BY DEF Activated
<1>2. TypeOK'
  <2>1. upsets' \in 0 .. Upsets
    BY FailTyped DEF Activated, UInv
  <2>2. pc' \in Steps /\ outcome' \in Outcomes
    BY DEF Activated, UInv, TypeOK, Steps, LockedSteps, Outcomes
  <2> QED
    BY <2>1, <2>2 DEF Activated, UInv, TypeOK
<1>3. Separate' /\ Planned' /\ Stays'
  BY <1>1, PlanFixed DEF Activated, UInv, Separate, Planned, Stays
<1>4. Listed'
  <2>1. active = ToWrite
    BY DEF Activated, UInv, Listed, ToWrite
  <2> QED
    BY <1>1, <2>1, PlanFixed DEF Activated, UInv, Listed
<1>5. FilesFollow'
  BY <1>1 DEF Activated, UInv, FilesFollow, FileAt
<1>6. DocumentsFollow' /\ GameFollows'
  BY <1>1, PlanFixed DEF Activated, UInv, DocumentsFollow, GameFollows
<1>7. AsBefore' /\ RecordsDescribeFiles'
  BY <1>1 DEF Activated, UInv, AsBefore, RecordsDescribeFiles
<1> QED
  BY <1>2, <1>3, <1>4, <1>5, <1>6, <1>7 DEF UInv

LEMMA SaveContentStep ==
    ASSUME UInv, SaveContent
    PROVE  UInv'
<1>1. UNCHANGED <<published, plan, wanted>>
  BY DEF SaveContent
<1>2. TypeOK'
  <2>1. content' \in Contents /\ saved' \subseteq {"content", "pack", "row"}
    <3>1. TheContent \in Contents /\ content' \in {content, TheContent}
      BY NoneIsNoWorld, PlanTypes DEF SaveContent, TheContent, UInv, Planned, Separate
    <3> QED
      BY <3>1 DEF SaveContent, UInv, TypeOK
  <2>2. upsets' \in 0 .. Upsets
    BY FailTyped DEF SaveContent, UInv, Fault
  <2>3. pc' \in Steps /\ outcome' \in Outcomes
    BY DEF SaveContent, UInv, TypeOK, Steps, LockedSteps, Outcomes
  <2> QED
    BY <2>1, <2>2, <2>3 DEF SaveContent, UInv, TypeOK
<1>3. Separate' /\ Planned' /\ Stays'
  BY <1>1, PlanFixed DEF SaveContent, UInv, Separate, Planned, Stays
<1>4. Listed' /\ FilesFollow'
  BY <1>1, PlanFixed DEF SaveContent, UInv, Listed, FilesFollow, FileAt
<1>5. DocumentsFollow'
  BY <1>1, PlanFixed DEF SaveContent, TheContent, UInv, DocumentsFollow
<1>6. GameFollows'
  BY <1>1, PlanFixed DEF SaveContent, UInv, GameFollows
<1>7. AsBefore' /\ RecordsDescribeFiles'
  BY <1>1 DEF SaveContent, UInv, AsBefore, RecordsDescribeFiles
<1> QED
  BY <1>2, <1>3, <1>4, <1>5, <1>6, <1>7 DEF UInv

LEMMA SavePackStep ==
    ASSUME UInv, SavePack
    PROVE  UInv'
<1>1. UNCHANGED <<published, plan, wanted>>
  BY DEF SavePack
<1>0. ThePack \in Packs /\ SeparatePack(ThePack) /\ pack' \in {pack, ThePack}
  BY NoneIsNoWorld, PlanTypes DEF SavePack, UInv, Planned, Separate, ThePack
<1>2. TypeOK'
  <2>1. pack' \in Packs /\ saved' \subseteq {"content", "pack", "row"}
    BY <1>0 DEF SavePack, UInv, TypeOK
  <2>2. upsets' \in 0 .. Upsets
    BY FailTyped DEF SavePack, UInv, Fault
  <2>3. pc' \in Steps /\ outcome' \in Outcomes
    BY DEF SavePack, UInv, TypeOK, Steps, LockedSteps, Outcomes
  <2> QED
    BY <2>1, <2>2, <2>3 DEF SavePack, UInv, TypeOK
<1>3. Separate'
  BY <1>0, <1>1 DEF UInv, Separate
<1>4. Planned'
  BY <1>1, PlanFixed DEF SavePack, UInv, Planned
<1>5. Stays'
  BY <1>1 DEF SavePack, UInv, Stays
<1>6. Listed' /\ FilesFollow'
  BY <1>1, PlanFixed DEF SavePack, UInv, Listed, FilesFollow, FileAt
<1>7. DocumentsFollow'
  BY <1>1, PlanFixed DEF SavePack, ThePack, UInv, DocumentsFollow
<1>8. GameFollows'
  BY <1>1, PlanFixed DEF SavePack, UInv, GameFollows
<1>9. AsBefore' /\ RecordsDescribeFiles'
  BY <1>1 DEF SavePack, UInv, AsBefore, RecordsDescribeFiles
<1> QED
  BY <1>2, <1>3, <1>4, <1>5, <1>6, <1>7, <1>8, <1>9 DEF UInv

LEMMA SaveRowStep ==
    ASSUME UInv, SaveRow
    PROVE  UInv'
<1>1. UNCHANGED <<published, plan, wanted>>
  BY DEF SaveRow
<1>2. TypeOK'
  <2>1. row' \in Rows /\ saved' \subseteq {"content", "pack", "row"}
    <3>1. row' \in {row, [state |-> "ready", version |-> "v2"]}
      BY DEF SaveRow
    <3>2. row' \in Rows
      BY <3>1 DEF UInv, TypeOK, Rows, Versions
    <3> QED
      BY <3>2 DEF SaveRow, UInv, TypeOK
  <2>2. upsets' \in 0 .. Upsets
    BY FailTyped DEF SaveRow, UInv, Fault
  <2>3. pc' \in Steps /\ outcome' \in Outcomes
    BY DEF SaveRow, UInv, TypeOK, Steps, LockedSteps, Outcomes
  <2> QED
    BY <2>1, <2>2, <2>3 DEF SaveRow, UInv, TypeOK
<1>3. Separate' /\ Planned' /\ Stays'
  BY <1>1, PlanFixed DEF SaveRow, UInv, Separate, Planned, Stays
<1>4. Listed' /\ FilesFollow'
  BY <1>1, PlanFixed DEF SaveRow, UInv, Listed, FilesFollow, FileAt
<1>5. DocumentsFollow' /\ GameFollows'
  BY <1>1, PlanFixed DEF SaveRow, UInv, DocumentsFollow, GameFollows
<1>6. AsBefore' /\ RecordsDescribeFiles'
  BY <1>1 DEF SaveRow, UInv, AsBefore, RecordsDescribeFiles
<1> QED
  BY <1>2, <1>3, <1>4, <1>5, <1>6 DEF UInv

LEMMA DropReceiptStep ==
    ASSUME UInv, DropReceipt
    PROVE  UInv'
<1>1. UNCHANGED <<published, plan, wanted>>
  BY DEF DropReceipt
<1>2. TypeOK'
  <2>1. upsets' \in 0 .. Upsets
    BY FailTyped DEF DropReceipt, UInv, Fault
  <2>2. pc' \in Steps /\ outcome' \in Outcomes /\ receipt' \in BOOLEAN
    BY DEF DropReceipt, UInv, TypeOK, Steps, LockedSteps, Outcomes
  <2> QED
    BY <2>1, <2>2 DEF DropReceipt, UInv, TypeOK
<1>3. Separate' /\ Planned' /\ Stays'
  BY <1>1, PlanFixed DEF DropReceipt, UInv, Separate, Planned, Stays
<1>4. Listed' /\ FilesFollow'
  BY <1>1, PlanFixed DEF DropReceipt, UInv, Listed, FilesFollow, FileAt
<1>5. DocumentsFollow' /\ GameFollows'
  BY <1>1, PlanFixed DEF DropReceipt, UInv, DocumentsFollow, GameFollows
<1>6. AsBefore' /\ RecordsDescribeFiles'
  BY <1>1 DEF DropReceipt, UInv, AsBefore, RecordsDescribeFiles
<1> QED
  BY <1>2, <1>3, <1>4, <1>5, <1>6 DEF UInv

LEMMA CleanupStep ==
    ASSUME UInv, Cleanup
    PROVE  UInv'
<1>1. UNCHANGED <<published, plan, wanted>>
  BY DEF Cleanup
<1>2. TypeOK'
  <2>1. upsets' \in 0 .. Upsets
    BY FailTyped DEF Cleanup, UInv
  <2>2. pc' \in Steps /\ outcome' \in Outcomes
    BY DEF Cleanup, UInv, TypeOK, Steps, LockedSteps, Outcomes
  <2> QED
    BY <2>1, <2>2 DEF Cleanup, UInv, TypeOK, Disk, File
<1>3. Separate' /\ Planned' /\ Stays'
  BY <1>1, PlanFixed DEF Cleanup, UInv, Separate, Planned, Stays
<1>4. Listed' /\ FilesFollow'
  BY <1>1, PlanFixed DEF Cleanup, UInv, Listed, FilesFollow, FileAt
<1>5. DocumentsFollow' /\ GameFollows'
  BY <1>1, PlanFixed DEF Cleanup, UInv, DocumentsFollow, GameFollows
<1>6. AsBefore' /\ RecordsDescribeFiles'
  BY <1>1 DEF Cleanup, UInv, AsBefore, RecordsDescribeFiles
<1> QED
  BY <1>2, <1>3, <1>4, <1>5, <1>6 DEF UInv

\* A commit that validates is the plan as a whole; one that does not is
\* undone in the documents only.
LEMMA ValidateStep ==
    ASSUME UInv, Validate
    PROVE  UInv'
<1>1. UNCHANGED <<published, plan, wanted>>
  BY DEF Validate
<1>2. TypeOK'
  <2>1. upsets' \in 0 .. Upsets
    BY FailTyped DEF Validate, UInv, Fault
  <2>2. pc' \in Steps /\ outcome' \in Outcomes /\ undone' \in BOOLEAN
    BY DEF Validate, UInv, TypeOK, Steps, LockedSteps, Outcomes
  <2> QED
    BY <2>1, <2>2 DEF Validate, UInv, TypeOK
<1>3. Separate' /\ Planned' /\ Stays'
  BY <1>1, PlanFixed DEF Validate, UInv, Separate, Planned, Stays
<1>4. Listed' /\ FilesFollow'
  BY <1>1 DEF Validate, UInv, Listed, FilesFollow
<1>5. DocumentsFollow'
  BY <1>1 DEF Validate, UInv, DocumentsFollow
<1>6. GameFollows'
  <2>1. CASE outcome' = "updated"
    <3>1. /\ plan \in Worlds /\ wanted \subseteq Choosable(plan) /\ Components \subseteq Paths
          /\ saved = {"content", "pack", "row"} /\ pc = "validate"
      BY PathsAssumption DEF Validate, UInv, Planned, Listed
    <3>2. ThePack.version = "v2"
      BY DEF ThePack, NextPack
    <3> QED
      BY <1>1, <2>1, <3>1, <3>2, PlanFixed, PlanAgrees DEF Validate, UInv, DocumentsFollow,
         GameFollows, Agreed, NewGame
  <2>2. CASE outcome' # "updated"
    BY <1>1, <2>2 DEF Validate, UInv, GameFollows
  <2> QED
    BY <2>1, <2>2
<1>7. AsBefore'
  <2>1. ThePack.version = "v2"
    BY DEF ThePack, NextPack
  <2> QED
    BY <1>1, <2>1 DEF Validate, UInv, Listed, DocumentsFollow, AsBefore
<1>8. RecordsDescribeFiles'
  <2> SUFFICES ASSUME outcome' = "updated", ~late, NEW c \in Components \ edited,
                      plan.content.records[c] \in {None, plan.pack.owned[c]},
                      content.records[c] # None
               PROVE  files[c] = content.records[c]
    BY <1>1 DEF Validate, RecordsDescribeFiles
  <2>1. /\ pc = "validate" /\ plan \in Worlds /\ wanted \subseteq Choosable(plan)
        /\ Components \subseteq Paths /\ SeparatePack(plan.pack)
    BY NoneIsNoWorld, PathsAssumption DEF Validate, UInv, Planned, Separate
  <2>2. content.records = TheContent.records
    BY <2>1 DEF UInv, Listed, DocumentsFollow
  <2>3. files[c] = IF c \in ToWrite THEN next[c] ELSE IF c \in ToRetire THEN None
                   ELSE plan.files[c]
    BY <2>1 DEF UInv, Listed, FilesFollow, FileAt
  <2> QED
    BY <2>1, <2>2, <2>3, PlanDescribes
<1> QED
  BY <1>2, <1>3, <1>4, <1>5, <1>6, <1>7, <1>8 DEF UInv

\* The rollback takes back what the lists name, if nobody touched it.
LEMMA UnactivateStep ==
    ASSUME UInv, NEW p \in Paths, Unactivate(p)
    PROVE  UInv'
<1>1. UNCHANGED <<published, plan, wanted>>
  BY DEF Unactivate
<1>2. TypeOK'
  <2>1. upsets' \in 0 .. Upsets
    BY FailTyped DEF Unactivate, UInv, Fault
  <2>2. pc' \in Steps /\ outcome' \in Outcomes /\ unproven' \in BOOLEAN
    BY DEF Unactivate, UInv, TypeOK, Steps, LockedSteps, Outcomes
  <2> QED
    BY <2>1, <2>2 DEF Unactivate, UInv, TypeOK, Disk, File
<1>3. Separate'
  BY <1>1 DEF Unactivate, UInv, Separate
<1>4. Planned'
  BY <1>1, PlanFixed DEF Unactivate, UInv, Planned
<1>5. Stays'
  <2>1. UNCHANGED <<mine, agreed, moving>>
    BY DEF Unactivate
  <2>2. \A q \in Paths : files'[q] = files[q] \/ files[q] \in AuthoredBytes \cup {None}
    BY DEF Unactivate, UInv, TypeOK, Disk, Listed
  <2> QED
    BY <2>1, <2>2 DEF UInv, Stays
<1>6. Listed' /\ FilesFollow'
  BY <1>1, PlanFixed DEF Unactivate, UInv, TypeOK, Disk, Listed, FilesFollow, FileAt
<1>7. DocumentsFollow' /\ GameFollows'
  BY <1>1, PlanFixed DEF Unactivate, UInv, DocumentsFollow, GameFollows
<1>8. AsBefore' /\ RecordsDescribeFiles'
  BY <1>1 DEF Unactivate, UInv, AsBefore, RecordsDescribeFiles
<1> QED
  BY <1>2, <1>3, <1>4, <1>5, <1>6, <1>7, <1>8 DEF UInv

LEMMA UnactivatedStep ==
    ASSUME UInv, Unactivated
    PROVE  UInv'
<1>1. UNCHANGED <<published, plan, wanted>>
  BY DEF Unactivated
<1>2. TypeOK'
  <2>1. upsets' \in 0 .. Upsets
    BY FailTyped DEF Unactivated, UInv
  <2>2. pc' \in Steps /\ outcome' \in Outcomes
    BY DEF Unactivated, UInv, TypeOK, Steps, LockedSteps, Outcomes
  <2> QED
    BY <2>1, <2>2 DEF Unactivated, UInv, TypeOK
<1>3. Separate' /\ Planned' /\ Stays'
  BY <1>1, PlanFixed DEF Unactivated, UInv, Separate, Planned, Stays
<1>4. Listed' /\ FilesFollow'
  BY <1>1, PlanFixed DEF Unactivated, UInv, Listed, FilesFollow, FileAt
<1>5. DocumentsFollow' /\ GameFollows'
  BY <1>1, PlanFixed DEF Unactivated, UInv, DocumentsFollow, GameFollows
<1>6. AsBefore' /\ RecordsDescribeFiles'
  BY <1>1 DEF Unactivated, UInv, AsBefore, RecordsDescribeFiles
<1> QED
  BY <1>2, <1>3, <1>4, <1>5, <1>6 DEF UInv

LEMMA UnretireStep ==
    ASSUME UInv, NEW p \in Paths, Unretire(p)
    PROVE  UInv'
<1>1. UNCHANGED <<published, plan, wanted>>
  BY DEF Unretire
<1>2. TypeOK'
  <2>1. upsets' \in 0 .. Upsets
    BY FailTyped DEF Unretire, UInv, Fault
  <2>2. pc' \in Steps /\ outcome' \in Outcomes /\ unproven' \in BOOLEAN
    BY DEF Unretire, UInv, TypeOK, Steps, LockedSteps, Outcomes
  <2> QED
    BY <2>1, <2>2 DEF Unretire, UInv, TypeOK, Disk, File
<1>3. Separate' /\ Planned' /\ Stays'
  BY <1>1, PlanFixed DEF Unretire, UInv, TypeOK, Disk, Separate, Planned, Stays
<1>4. Listed' /\ FilesFollow'
  BY <1>1, PlanFixed DEF Unretire, UInv, TypeOK, Disk, Listed, FilesFollow, FileAt
<1>5. DocumentsFollow' /\ GameFollows'
  BY <1>1, PlanFixed DEF Unretire, UInv, DocumentsFollow, GameFollows
<1>6. AsBefore' /\ RecordsDescribeFiles'
  BY <1>1 DEF Unretire, UInv, AsBefore, RecordsDescribeFiles
<1> QED
  BY <1>2, <1>3, <1>4, <1>5, <1>6 DEF UInv

LEMMA UnretiredStep ==
    ASSUME UInv, Unretired
    PROVE  UInv'
<1>1. UNCHANGED <<published, plan, wanted>>
  BY DEF Unretired
<1>2. TypeOK'
  <2>1. upsets' \in 0 .. Upsets
    BY FailTyped DEF Unretired, UInv
  <2>2. pc' \in Steps /\ outcome' \in Outcomes
    BY DEF Unretired, UInv, TypeOK, Steps, LockedSteps, Outcomes
  <2> QED
    BY <2>1, <2>2 DEF Unretired, UInv, TypeOK
<1>3. Separate' /\ Planned' /\ Stays'
  BY <1>1, PlanFixed DEF Unretired, UInv, Separate, Planned, Stays
<1>4. Listed' /\ FilesFollow'
  BY <1>1 DEF Unretired, UInv, Listed, FilesFollow, FileAt
<1>5. DocumentsFollow' /\ GameFollows'
  BY <1>1, PlanFixed DEF Unretired, UInv, DocumentsFollow, GameFollows
<1>6. AsBefore' /\ RecordsDescribeFiles'
  BY <1>1 DEF Unretired, UInv, AsBefore, RecordsDescribeFiles
<1> QED
  BY <1>2, <1>3, <1>4, <1>5, <1>6 DEF UInv

LEMMA UndoDocumentsStep ==
    ASSUME UInv, UndoDocuments
    PROVE  UInv'
<1>1. UNCHANGED <<published, plan, wanted>>
  BY DEF UndoDocuments
<1>2. TypeOK'
  <2>1. upsets' \in 0 .. Upsets
    BY FailTyped DEF UndoDocuments, UInv, Fault
  <2>2. pc' \in Steps /\ outcome' \in Outcomes /\ ignored' \in BOOLEAN
    BY DEF UndoDocuments, UInv, TypeOK, Steps, LockedSteps, Outcomes
  <2> QED
    BY <2>1, <2>2 DEF UndoDocuments, UInv, TypeOK, Worlds, Rows, Planned
<1>3. Separate'
  <2>1. pack' \in {pack, plan.pack} /\ plan # None
    BY NoneIsNoWorld DEF UndoDocuments, UInv, Planned
  <2> QED
    BY <1>1, <2>1 DEF UInv, Separate
<1>4. Planned'
  BY <1>1, PlanFixed DEF UndoDocuments, UInv, Planned
<1>5. Stays'
  BY <1>1 DEF UndoDocuments, UInv, Stays
<1>6. Listed' /\ FilesFollow'
  BY <1>1 DEF UndoDocuments, UInv, Listed, FilesFollow, FileAt
<1>7. DocumentsFollow' /\ GameFollows'
  BY <1>1, PlanFixed DEF UndoDocuments, UInv, TypeOK, DocumentsFollow, GameFollows, Rows
<1>8. AsBefore' /\ RecordsDescribeFiles'
  BY <1>1 DEF UndoDocuments, UInv, AsBefore, RecordsDescribeFiles
<1> QED
  BY <1>2, <1>3, <1>4, <1>5, <1>6, <1>7, <1>8 DEF UInv

LEMMA RestoreGameStep ==
    ASSUME UInv, RestoreGame
    PROVE  UInv'
<1>1. UNCHANGED <<published, plan, wanted>>
  BY DEF RestoreGame
<1>2. TypeOK'
  <2>1. upsets' \in 0 .. Upsets
    BY FailTyped DEF RestoreGame, UInv, Fault
  <2>2. pc' \in Steps /\ outcome' \in Outcomes
    BY DEF RestoreGame, UInv, TypeOK, Steps, LockedSteps, Outcomes
  <2> QED
    BY <2>1, <2>2 DEF RestoreGame, UInv, TypeOK, Rows
<1>3. Separate' /\ Planned' /\ Stays'
  BY <1>1, PlanFixed DEF RestoreGame, UInv, Separate, Planned, Stays
<1>4. Listed' /\ FilesFollow'
  BY <1>1 DEF RestoreGame, UInv, Listed, FilesFollow, FileAt
<1>5. DocumentsFollow' /\ GameFollows'
  BY <1>1 DEF RestoreGame, UInv, Planned, Listed, DocumentsFollow, GameFollows
<1>6. AsBefore' /\ RecordsDescribeFiles'
  BY <1>1 DEF RestoreGame, UInv, Planned, Listed, FilesFollow, FileAt, DocumentsFollow, AsBefore,
     RecordsDescribeFiles
<1> QED
  BY <1>2, <1>3, <1>4, <1>5, <1>6 DEF UInv

\* After the undoing of a commit nothing is claimed of files and documents.
LEMMA UndoContentStep ==
    ASSUME UInv, UndoContent
    PROVE  UInv'
<1>1. UNCHANGED <<published, plan, wanted>>
  BY DEF UndoContent
<1>2. TypeOK'
  <2>1. upsets' \in 0 .. Upsets
    BY FailTyped DEF UndoContent, UInv, Fault
  <2>2. pc' \in Steps /\ outcome' \in Outcomes
    BY DEF UndoContent, UInv, TypeOK, Steps, LockedSteps, Outcomes
  <2> QED
    BY <2>1, <2>2 DEF UndoContent, UInv, TypeOK, Worlds, Planned
<1>3. Separate' /\ Planned' /\ Stays'
  BY <1>1, PlanFixed DEF UndoContent, UInv, Separate, Planned, Stays
<1>4. Listed' /\ FilesFollow'
  BY <1>1 DEF UndoContent, UInv, Listed, FilesFollow
<1>5. DocumentsFollow' /\ GameFollows'
  BY <1>1 DEF UndoContent, UInv, Planned, DocumentsFollow, GameFollows
<1>6. AsBefore' /\ RecordsDescribeFiles'
  BY <1>1 DEF UndoContent, UInv, Planned, AsBefore, RecordsDescribeFiles
<1> QED
  BY <1>2, <1>3, <1>4, <1>5, <1>6 DEF UInv

LEMMA UndoPackStep ==
    ASSUME UInv, UndoPack
    PROVE  UInv'
<1>1. UNCHANGED <<published, plan, wanted>>
  BY DEF UndoPack
<1>2. TypeOK'
  <2>1. upsets' \in 0 .. Upsets
    BY FailTyped DEF UndoPack, UInv, Fault
  <2>2. pc' \in Steps /\ outcome' \in Outcomes
    BY DEF UndoPack, UInv, TypeOK, Steps, LockedSteps, Outcomes
  <2> QED
    BY <2>1, <2>2 DEF UndoPack, UInv, TypeOK, Worlds, Planned
<1>3. Separate'
  <2>1. pack' \in {pack, plan.pack} /\ plan # None
    BY NoneIsNoWorld DEF UndoPack, UInv, Planned
  <2> QED
    BY <1>1, <2>1 DEF UInv, Separate
<1>4. Planned'
  BY <1>1, PlanFixed DEF UndoPack, UInv, Planned
<1>5. Stays'
  BY <1>1 DEF UndoPack, UInv, Stays
<1>6. Listed' /\ FilesFollow'
  BY <1>1 DEF UndoPack, UInv, Listed, FilesFollow
<1>7. DocumentsFollow' /\ GameFollows'
  BY <1>1 DEF UndoPack, UInv, Planned, DocumentsFollow, GameFollows
<1>8. AsBefore' /\ RecordsDescribeFiles'
  BY <1>1 DEF UndoPack, UInv, Planned, AsBefore, RecordsDescribeFiles
<1> QED
  BY <1>2, <1>3, <1>4, <1>5, <1>6, <1>7, <1>8 DEF UInv

LEMMA UndoRowStep ==
    ASSUME UInv, UndoRow
    PROVE  UInv'
<1>1. UNCHANGED <<published, plan, wanted>>
  BY DEF UndoRow
<1>2. TypeOK'
  <2>1. upsets' \in 0 .. Upsets
    BY FailTyped DEF UndoRow, UInv, Fault
  <2>2. pc' \in Steps /\ outcome' \in Outcomes
    BY DEF UndoRow, UInv, TypeOK, Steps, LockedSteps, Outcomes
  <2> QED
    BY <2>1, <2>2 DEF UndoRow, UInv, TypeOK, Worlds, Planned
<1>3. Separate' /\ Planned' /\ Stays'
  BY <1>1, PlanFixed DEF UndoRow, UInv, Separate, Planned, Stays
<1>4. Listed' /\ FilesFollow'
  BY <1>1 DEF UndoRow, UInv, Planned, Listed, FilesFollow
<1>5. DocumentsFollow' /\ GameFollows'
  BY <1>1 DEF UndoRow, UInv, Planned, DocumentsFollow, GameFollows
<1>6. AsBefore' /\ RecordsDescribeFiles'
  BY <1>1 DEF UndoRow, UInv, Planned, AsBefore, RecordsDescribeFiles
<1> QED
  BY <1>2, <1>3, <1>4, <1>5, <1>6 DEF UInv

LEMMA FinalizeStep ==
    ASSUME UInv, Finalize
    PROVE  UInv'
<1>1. UNCHANGED <<published, plan, wanted>>
  BY DEF Finalize
<1>2. TypeOK'
  <2>1. upsets' \in 0 .. Upsets
    BY FailTyped DEF Finalize, UInv, Fault
  <2>2. pc' \in Steps /\ outcome' \in Outcomes
    BY DEF Finalize, UInv, TypeOK, Steps, LockedSteps, Outcomes
  <2> QED
    BY <2>1, <2>2 DEF Finalize, UInv, TypeOK, Rows
<1>3. Separate' /\ Planned' /\ Stays'
  BY <1>1, PlanFixed DEF Finalize, UInv, Separate, Planned, Stays
<1>4. Listed' /\ FilesFollow'
  BY <1>1 DEF Finalize, UInv, Listed, FilesFollow, FileAt
<1>5. DocumentsFollow' /\ GameFollows'
  BY <1>1, PlanFixed DEF Finalize, UInv, TypeOK, DocumentsFollow, GameFollows, Rows
<1>6. AsBefore' /\ RecordsDescribeFiles'
  BY <1>1 DEF Finalize, UInv, Listed, FilesFollow, FileAt, DocumentsFollow, AsBefore,
     RecordsDescribeFiles
<1> QED
  BY <1>2, <1>3, <1>4, <1>5, <1>6 DEF UInv

LEMMA FinalizeReceiptStep ==
    ASSUME UInv, FinalizeReceipt
    PROVE  UInv'
<1>1. UNCHANGED <<published, plan, wanted>>
  BY DEF FinalizeReceipt
<1>2. TypeOK'
  <2>1. upsets' \in 0 .. Upsets
    BY FailTyped DEF FinalizeReceipt, UInv, Fault
  <2>2. pc' \in Steps /\ outcome' \in Outcomes /\ receipt' \in BOOLEAN
    BY DEF FinalizeReceipt, UInv, TypeOK, Steps, LockedSteps, Outcomes
  <2> QED
    BY <2>1, <2>2 DEF FinalizeReceipt, UInv, TypeOK, Disk, File, Absent
<1>3. Separate' /\ Planned' /\ Stays'
  BY <1>1 DEF FinalizeReceipt, UInv, Separate, Planned, Stays
<1>4. Listed' /\ FilesFollow'
  BY <1>1 DEF FinalizeReceipt, UInv, Listed, FilesFollow
<1>5. DocumentsFollow' /\ GameFollows'
  BY <1>1 DEF FinalizeReceipt, UInv, Planned, Listed, DocumentsFollow, GameFollows, Agreed, Needs
<1>6. AsBefore' /\ RecordsDescribeFiles'
  BY <1>1 DEF FinalizeReceipt, UInv, Planned, Listed, FilesFollow, FileAt, DocumentsFollow,
     AsBefore, RecordsDescribeFiles
<1> QED
  BY <1>2, <1>3, <1>4, <1>5, <1>6 DEF UInv

-----------------------------------------------------------------------------
(* The theorems *)

LEMMA InitUInv == Init => UInv
<1> SUFFICES ASSUME Init PROVE UInv
  OBVIOUS
<1>1. TypeOK
  <2>1. files \in Disk /\ backups \in Disk /\ next \in Disk
    <3>1. files \in [Paths -> {"first", "second", "own", None}] /\ backups = Absent
          /\ next \in [Paths -> {"first", "second", None}]
      BY DEF Init
    <3> QED
      BY <3>1 DEF Disk, File, Bytes, AuthoredBytes, Absent
  <2>2. pack \in Packs /\ content \in Contents /\ row \in Rows
    BY PathsAssumption DEF Init, Packs, Contents, Rows, Versions, AuthoredBytes, Disk, File,
       Bytes
  <2>3. mine \in Disk
    BY DEF Init, Disk, File, Bytes
  <2>4. upsets \in 0 .. Upsets
    BY BoundsAssumption DEF Init
  <2> QED
    BY <2>1, <2>2, <2>3, <2>4 DEF Init, TypeOK, Steps, Outcomes
<1>2. Separate /\ Planned
  BY DEF Init, Separate, SeparatePack, Planned
<1>3. Stays
  BY NoneIsNothing DEF Init, Stays, AuthoredBytes
<1>4. Listed /\ FilesFollow /\ DocumentsFollow
  BY DEF Init, Listed, FilesFollow, DocumentsFollow, AuthoredBytes
<1>5. GameFollows
  BY PathsAssumption DEF Init, GameFollows, Agreed, Needs
<1>6. AsBefore /\ RecordsDescribeFiles
  BY DEF Init, AsBefore, RecordsDescribeFiles
<1> QED
  BY <1>1, <1>2, <1>3, <1>4, <1>5, <1>6 DEF UInv

LEMMA StepUInv == UInv /\ [Next]_vars => UInv'
<1> SUFFICES ASSUME UInv, [Next]_vars PROVE UInv'
  OBVIOUS
<1>1. CASE Preview \/ Apply \/ ContentCommand \/ Crash
  BY <1>1, PreviewStep, ApplyStep, ContentCommandStep, CrashStep
<1>2. ASSUME NEW p \in Paths, UserEdits(p) PROVE UInv'
  BY <1>2, UserEditsStep
<1>3. CASE \/ Recover \/ Derive \/ Acquire \/ Begin \/ Mark \/ InstallGame \/ Stage
  BY <1>3, RecoverStep, DeriveStep, AcquireStep, BeginStep, MarkStep, InstallGameStep, StageStep
<1>4. CASE \/ RetireMoves \/ Retired \/ Activated \/ SaveContent \/ SavePack \/ SaveRow
           \/ DropReceipt \/ Cleanup \/ Validate
  BY <1>4, RetireMovesStep, RetiredStep, ActivatedStep, SaveContentStep, SavePackStep,
     SaveRowStep, DropReceiptStep, CleanupStep, ValidateStep
<1>5. CASE \/ Unactivated \/ Unretired \/ UndoDocuments \/ RestoreGame \/ UndoContent \/ UndoPack
           \/ UndoRow \/ Finalize \/ FinalizeReceipt
  BY <1>5, UnactivatedStep, UnretiredStep, UndoDocumentsStep, RestoreGameStep, UndoContentStep,
     UndoPackStep, UndoRowStep, FinalizeStep, FinalizeReceiptStep
<1>6. ASSUME NEW p \in Paths, RetireProves(p) \/ Activate(p) \/ Unactivate(p) \/ Unretire(p)
      PROVE UInv'
  BY <1>6, RetireProvesStep, ActivateStep, UnactivateStep, UnretireStep
<1>7. CASE UNCHANGED vars
  <2>1. UNCHANGED <<published, plan, wanted>>
    BY <1>7 DEF vars
  <2>2. TypeOK' /\ Separate' /\ Stays' /\ AsBefore' /\ RecordsDescribeFiles'
    BY <1>7 DEF vars, UInv, TypeOK, Separate, Stays, AsBefore, RecordsDescribeFiles
  <2>3. Planned'
    BY <1>7, <2>1, PlanFixed, ReviewFixed DEF vars, UInv, Planned
  <2>4. Listed' /\ FilesFollow' /\ DocumentsFollow'
    BY <1>7, <2>1, PlanFixed DEF vars, UInv, Listed, FilesFollow, FileAt, DocumentsFollow
  <2>5. GameFollows'
    BY <1>7, <2>1, PlanFixed DEF vars, UInv, GameFollows, Agreed, Needs
  <2> QED
    BY <2>2, <2>3, <2>4, <2>5 DEF UInv
<1> QED
  BY <1>1, <1>2, <1>3, <1>4, <1>5, <1>6, <1>7 DEF Next, Update

\* The strengthening: how far lists, documents and game have come at each
\* step, that no file moved aside is the user's own, and what recovery finds.
THEOREM UpdateInvariance == Spec => []UInv
  BY InitUInv, StepUInv, PTL DEF Spec

\* The user's bytes are where the user left them or beside it, for any files,
\* any number of updates, edits, failures and crashes, unless the user agreed
\* to the new version's: retirement proves what it moves, activation refuses
\* an occupied target and a rollback leaves what it did not write.
THEOREM UserBytesAreKept == Spec => []UserBytesSurvive
<1>1. UInv => UserBytesSurvive
  BY DEF UInv, Stays, UserBytesSurvive
<1> QED
  BY <1>1, UpdateInvariance, PTL

\* An update that returns has changed everything or nothing the user left
\* alone, a ready instance bears its pack and its row out in game and records,
\* and every record left describes its file.
THEOREM UpdateWholeness == Spec => []UpdateIsWhole
<1>1. UInv => UpdateIsWhole
  <2> SUFFICES ASSUME UInv PROVE UpdateIsWhole
    OBVIOUS
  <2>1. AllOrNothing
    BY DEF UInv, AsBefore, AllOrNothing
  <2>2. ReadyMeansAgreed
    BY DEF UInv, GameFollows, Agreed, ReadyMeansAgreed
  <2> QED
    BY <2>1, <2>2 DEF UInv, UpdateIsWhole, StateIsCoherent
<1> QED
  BY <1>1, UpdateInvariance, PTL

=============================================================================
