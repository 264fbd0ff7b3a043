-------------------------- MODULE AuroraTransition --------------------------
(***************************************************************************)
(* The Aurora transitions of one instance, file by file: preview, staging, *)
(* retirement behind a verified rollback copy, activation by hard links,   *)
(* the two ownership documents, the registry, cleanup, and the rollback of *)
(* all of it.  commit runs under the content lock, registry_lock and the   *)
(* process-state mutex, so InstanceLifecycle sees it as a few steps; every *)
(* filesystem operation here may fail, the launcher may die between any    *)
(* two of them, and as long as commit has not started the user may remove  *)
(* launcher-managed mods.                                                  *)
(***************************************************************************)
EXTENDS FiniteSets

CONSTANTS
    Files,       \* launcher-managed mod files: the client, Fabric API
    Client,      \* the one a release always requires
    CommitsDie      \* may the launcher die in a commit?

VARIABLES
    \* on disk
    live,        \* files at their place in mods/
    staged,      \* .aurora-transition-stage-*
    retired,     \* .aurora-transition-retired-*
    copies,      \* .aurora-transition-rollback-*, verified or not
    owned,       \* aurora-installed.json: the files it lists, {} when absent
    kept,        \* aurora-retained.json
    pin,         \* does the registry's installed pin include Aurora?
    \* the transaction
    phase,
    plan,        \* what preview made of the disk and the user approved
    stages,      \* files pushed to `staged`
    backups,     \* files pushed to `backups`
    activated,   \* files pushed to `activated`
    touched,     \* state_touched and registry_touched
    outcome      \* "open", "refused", "committed", "failed", "rollbackFailed"

disk == <<live, staged, retired, copies, owned, kept, pin>>
memory == <<plan, stages, backups, activated, touched>>
transitionVars == <<disk, memory, phase, outcome>>

ForwardPhases ==
    {"acquire", "commit", "stage", "retire", "activate", "owned", "kept", "validate",
     "registry", "check", "cleanStaged", "cleanRetired"}

UndoPhases ==
    {"undoActivated", "undoRetired", "undoOwned", "undoKept", "undoRegistry"}

Phases ==
    ForwardPhases \cup UndoPhases
        \cup {"idle", "cleanCopies", "sweepStaged", "sweepCopies", "done"}

\* A plan, and the state its fingerprint stands for.
Plans ==
    [enabled : BOOLEAN, install : SUBSET Files, remove : SUBSET Files,
     retain : SUBSET Files, live : SUBSET Files, owned : SUBSET Files,
     kept : SUBSET Files]

NoPlan ==
    [enabled |-> FALSE, install |-> {}, remove |-> {}, retain |-> {},
     live |-> {}, owned |-> {}, kept |-> {}]

\* What the disk holds after a committed transition.
TargetLive == (plan.live \cup plan.install) \ plan.remove
TargetOwned == plan.install

-----------------------------------------------------------------------------
(* preview *)

\* Enabling: everything the release requires is listed, and what the
\* launcher retained earlier leaves the retained list.  A required file that
\* is there and was not retained is a blocker.
EnablePlan(required) ==
    [enabled |-> TRUE, install |-> required, remove |-> {},
     retain |-> (kept \cap live) \ required,
     live |-> live, owned |-> owned, kept |-> kept]

\* Mutant: files other content needs stay, and are listed nowhere.
DisablePlanForgets(needed) ==
    [enabled |-> FALSE, install |-> {}, remove |-> (owned \ needed) \cap live,
     retain |-> kept \cap live, live |-> live, owned |-> owned, kept |-> kept]

\* Disabling: owned files that are there are removed, or retained when other
\* content needs them; absent ones are not recreated.
DisablePlan(needed) ==
    [enabled |-> FALSE, install |-> {}, remove |-> (owned \ needed) \cap live,
     retain |-> (kept \cup needed) \cap live,
     live |-> live, owned |-> owned, kept |-> kept]

\* Only a valid configuration has a preview: the ownership state is there
\* exactly when the pin includes Aurora.  What earlier transactions left
\* beside the mods is never read again.
Preview(p) ==
    /\ phase = "idle"
    /\ pin <=> owned # {}
    /\ plan' = p
    /\ phase' = "acquire"
    /\ outcome' = "open"
    /\ staged' = {} /\ retired' = {} /\ copies' = {}
    /\ stages' = {} /\ backups' = {} /\ activated' = {} /\ touched' = {}
    /\ UNCHANGED <<live, owned, kept, pin>>

PreviewEnable ==
    /\ ~pin
    /\ \E required \in SUBSET Files :
        /\ Client \in required
        /\ required \cap live \subseteq kept
        /\ Preview(EnablePlan(required))

PreviewDisable ==
    /\ pin
    /\ \E needed \in SUBSET (owned \ {Client}) : Preview(DisablePlan(needed))

\* remove_instance_mod: files the launcher installed are user controllable.
\* It takes the content lock, which commit holds and acquisition does not.
UserRemoves(f) ==
    /\ phase \in {"idle", "acquire", "commit"}
    /\ f \in live
    /\ live' = live \ {f}
    /\ UNCHANGED <<staged, retired, copies, owned, kept, pin, memory, phase,
                   outcome>>

-----------------------------------------------------------------------------
(* The forward path *)

\* apply: what the retained document lists is verified in place, there or
\* not; the rest is acquired into the cache.
Acquire ==
    /\ phase = "acquire"
    /\ plan.install \cap kept \subseteq live
    /\ phase' = "commit"
    /\ UNCHANGED <<disk, memory, outcome>>

\* Mutant: the state is not compared with the approved one.
ApprovedAnyway == TRUE

\* A new preview under the locks has the fingerprint of the approved one.
Approved ==
    <<live, owned, kept, pin>>
        = <<plan.live, plan.owned, plan.kept, ~plan.enabled>>

StartCommit ==
    /\ phase = "commit"
    /\ Approved
    /\ phase' = "stage"
    /\ UNCHANGED <<disk, memory, outcome>>

\* An acquisition failed, a lock was taken, a game is running, or the state
\* is stale: nothing has been touched.
Refused ==
    /\ phase \in {"acquire", "commit"}
    /\ phase' = "done"
    /\ outcome' = "refused"
    /\ UNCHANGED <<disk, memory>>

\* The stage is pushed before the copy is made: a copy that fails may be
\* there or not.  The destination must not exist.
StageFile(f) ==
    /\ phase = "stage"
    /\ f \in plan.install \ (kept \cup stages \cup live)
    /\ stages' = stages \cup {f}
    /\ \/ staged' = staged \cup {f} /\ UNCHANGED phase
       \/ staged' \in {staged, staged \cup {f}} /\ phase' = "undoActivated"
    /\ UNCHANGED <<live, retired, copies, owned, kept, pin, plan, backups,
                   activated, touched, outcome>>

StagingDone ==
    /\ phase = "stage"
    /\ plan.install \ kept \subseteq stages
    /\ phase' = "retire"
    /\ UNCHANGED <<disk, memory, outcome>>

\* Mutant: the file is renamed away with no rollback copy made.
RetireWithoutCopy(f) ==
    /\ phase = "retire"
    /\ f \in plan.remove \ backups
    /\ backups' = backups \cup {f}
    /\ live' = live \ {f}
    /\ retired' = retired \cup {f}
    /\ UNCHANGED <<plan, staged, copies, owned, kept, pin, phase, stages,
                   activated, touched, outcome>>

\* A rollback copy is made and verified, the pair is pushed, the file is
\* renamed.  A copy that does not verify is not pushed.
RetireFile(f) ==
    /\ phase = "retire"
    /\ f \in plan.remove \ backups
    /\ \/ /\ copies' = copies \cup {f}
          /\ backups' = backups \cup {f}
          /\ \/ /\ live' = live \ {f}
                /\ retired' = retired \cup {f}
                /\ UNCHANGED phase
             \/ /\ phase' = "undoActivated"
                /\ UNCHANGED <<live, retired>>
       \/ /\ copies' \in {copies, copies \cup {f}}
          /\ phase' = "undoActivated"
          /\ UNCHANGED <<live, retired, backups>>
    /\ UNCHANGED <<plan, staged, owned, kept, pin, stages, activated, touched,
                   outcome>>

RetirementDone ==
    /\ phase = "retire"
    /\ plan.remove \subseteq backups
    /\ phase' = "activate"
    /\ UNCHANGED <<disk, memory, outcome>>

\* hard_link refuses an existing destination.
ActivateFile(f) ==
    /\ phase = "activate"
    /\ f \in stages \ (activated \cup live)
    /\ live' = live \cup {f}
    /\ activated' = activated \cup {f}
    /\ UNCHANGED <<plan, staged, retired, copies, owned, kept, pin, phase,
                   stages, backups, touched, outcome>>

\* state_touched is set before the first document is written.
ActivationDone ==
    /\ phase = "activate"
    /\ stages \subseteq activated
    /\ phase' = "owned"
    /\ touched' = {"documents"}
    /\ UNCHANGED <<plan, disk, stages, backups, activated, outcome>>

\* Enabling, every required file is verified at its place first.
WriteOwned ==
    /\ phase = "owned"
    /\ plan.install \subseteq live
    /\ owned' = TargetOwned
    /\ phase' = "kept"
    /\ UNCHANGED <<live, staged, retired, copies, kept, pin, memory, outcome>>

WriteKept ==
    /\ phase = "kept"
    /\ kept' = plan.retain
    /\ phase' = "validate"
    /\ UNCHANGED <<live, staged, retired, copies, owned, pin, memory, outcome>>

\* validate_instance on the updated record; registry_touched is set.
Validate ==
    /\ phase = "validate"
    /\ plan.enabled <=> owned # {}
    /\ phase' = "registry"
    /\ touched' = touched \cup {"registry"}
    /\ UNCHANGED <<plan, disk, stages, backups, activated, outcome>>

SaveRegistry ==
    /\ phase = "registry"
    /\ pin' = plan.enabled
    /\ phase' = "check"
    /\ UNCHANGED <<live, staged, retired, copies, owned, kept, memory, outcome>>

\* verified_required_mods_with_manifest once more.
CheckRequired ==
    /\ phase = "check"
    /\ pin <=> owned # {}
    /\ phase' = "cleanStaged"
    /\ UNCHANGED <<disk, memory, outcome>>

CleanStaged(f) ==
    /\ phase = "cleanStaged"
    /\ f \in staged
    /\ staged' = staged \ {f}
    /\ UNCHANGED <<plan, live, retired, copies, owned, kept, pin, phase, stages,
                   backups, activated, touched, outcome>>

StagedClean ==
    /\ phase = "cleanStaged"
    /\ staged = {}
    /\ phase' = "cleanRetired"
    /\ UNCHANGED <<disk, memory, outcome>>

CleanRetired(f) ==
    /\ phase = "cleanRetired"
    /\ f \in retired
    /\ retired' = retired \ {f}
    /\ UNCHANGED <<plan, live, staged, copies, owned, kept, pin, phase, stages,
                   backups, activated, touched, outcome>>

\* The transaction is committed.
Commit ==
    /\ phase = "cleanRetired"
    /\ retired = {}
    /\ phase' = "cleanCopies"
    /\ outcome' = "committed"
    /\ UNCHANGED <<disk, memory>>

\* Removing what is no longer needed may fail, and says so; that is all.
CleanCopies ==
    /\ phase = "cleanCopies"
    /\ copies' \in SUBSET copies
    /\ phase' = "done"
    /\ UNCHANGED <<live, staged, retired, owned, kept, pin, memory, outcome>>

\* Any other operation of commit's forward path fails without effect.
CommitFails ==
    /\ phase \in ForwardPhases \ {"acquire", "commit"}
    /\ phase' = "undoActivated"
    /\ UNCHANGED <<disk, memory, outcome>>

-----------------------------------------------------------------------------
(* The rollback *)

UndoActivated(f) ==
    /\ phase = "undoActivated"
    /\ f \in activated
    /\ live' = live \ {f}
    /\ activated' = activated \ {f}
    /\ UNCHANGED <<plan, staged, retired, copies, owned, kept, pin, phase,
                   stages, backups, touched, outcome>>

ActivatedUndone ==
    /\ phase = "undoActivated"
    /\ activated = {}
    /\ phase' = "undoRetired"
    /\ UNCHANGED <<disk, memory, outcome>>

\* A retired file is renamed back; one whose retired copy is gone already is
\* copied from its rollback copy; some of them, when an operation fails.
UndoRetired ==
    /\ phase = "undoRetired"
    /\ \E back \in SUBSET (backups \cap (live \cup retired \cup copies)) :
        /\ live' = live \cup back
        /\ retired' = retired \ back
        /\ IF back = backups
           THEN phase' = "undoOwned" /\ UNCHANGED outcome
           ELSE phase' = "done" /\ outcome' = "rollbackFailed"
    /\ UNCHANGED <<staged, copies, owned, kept, pin, memory>>

UndoOwned ==
    /\ phase = "undoOwned"
    /\ owned' = IF "documents" \in touched THEN plan.owned ELSE owned
    /\ phase' = "undoKept"
    /\ UNCHANGED <<live, staged, retired, copies, kept, pin, memory, outcome>>

UndoKept ==
    /\ phase = "undoKept"
    /\ kept' = IF "documents" \in touched THEN plan.kept ELSE kept
    /\ phase' = "undoRegistry"
    /\ UNCHANGED <<live, staged, retired, copies, owned, pin, memory, outcome>>

UndoRegistry ==
    /\ phase = "undoRegistry"
    /\ pin' = IF "registry" \in touched THEN ~plan.enabled ELSE pin
    /\ phase' = "sweepStaged"
    /\ UNCHANGED <<live, staged, retired, copies, owned, kept, memory, outcome>>

\* aurora_transition_rollback_failed: an operation of the rollback failed,
\* and everything stays where it is.
RollbackFails ==
    /\ \/ phase = "undoActivated" /\ activated # {}
       \/ phase \in {"undoOwned", "undoKept"} /\ "documents" \in touched
       \/ phase = "undoRegistry" /\ "registry" \in touched
    /\ phase' = "done"
    /\ outcome' = "rollbackFailed"
    /\ UNCHANGED <<disk, memory>>

\* The error is reported as it was; a stage or a copy that cannot be removed
\* ends the sweep.
SweepStaged ==
    /\ phase = "sweepStaged"
    /\ staged' \in SUBSET staged
    /\ IF staged' = {}
       THEN phase' = "sweepCopies" /\ UNCHANGED outcome
       ELSE phase' = "done" /\ outcome' = "failed"
    /\ UNCHANGED <<live, retired, copies, owned, kept, pin, memory>>

SweepCopies ==
    /\ phase = "sweepCopies"
    /\ \E gone \in SUBSET backups : copies' = copies \ gone
    /\ phase' = "done"
    /\ outcome' = "failed"
    /\ UNCHANGED <<live, staged, retired, owned, kept, pin, memory>>

\* The command returns; nothing of the transaction is remembered.
ReturnOutcome ==
    /\ phase = "done"
    /\ phase' = "idle"
    /\ plan' = NoPlan
    /\ stages' = {} /\ backups' = {} /\ activated' = {} /\ touched' = {}
    /\ outcome' = "open"
    /\ UNCHANGED disk

\* The launcher dies in the middle of it.
CommitDies ==
    /\ CommitsDie
    /\ phase \notin {"idle", "done"}
    /\ phase' = "idle"
    /\ plan' = NoPlan
    /\ stages' = {} /\ backups' = {} /\ activated' = {} /\ touched' = {}
    /\ outcome' = "open"
    /\ UNCHANGED disk

\* An instance created with Aurora, or without.
TransitionInit ==
    /\ owned \in {{}} \cup {s \in SUBSET Files : Client \in s}
    /\ live = owned
    /\ pin = (owned # {})
    /\ kept = {}
    /\ staged = {} /\ retired = {} /\ copies = {}
    /\ phase = "idle"
    /\ plan = NoPlan
    /\ stages = {} /\ backups = {} /\ activated = {} /\ touched = {}
    /\ outcome = "open"

TransitionNext ==
    \/ PreviewEnable \/ PreviewDisable \/ Acquire \/ StartCommit \/ Refused
    \/ \E f \in Files :
        \/ UserRemoves(f) \/ StageFile(f) \/ RetireFile(f) \/ ActivateFile(f)
        \/ CleanStaged(f) \/ CleanRetired(f) \/ UndoActivated(f)
    \/ StagingDone \/ RetirementDone \/ ActivationDone
    \/ WriteOwned \/ WriteKept \/ Validate \/ SaveRegistry \/ CheckRequired
    \/ StagedClean \/ Commit \/ CleanCopies \/ CommitFails
    \/ ActivatedUndone \/ UndoRetired \/ UndoOwned \/ UndoKept \/ UndoRegistry
    \/ RollbackFails \/ SweepStaged \/ SweepCopies
    \/ ReturnOutcome \/ CommitDies

TransitionSpec == TransitionInit /\ [][TransitionNext]_transitionVars

-----------------------------------------------------------------------------
(* Properties *)

\* Every variable keeps its type, and the lists the rollback works from hold
\* files of the plan only.
TransitionTypeOK ==
    /\ {live, staged, retired, copies, owned, kept} \subseteq SUBSET Files
    /\ pin \in BOOLEAN
    /\ phase \in Phases
    /\ plan \in Plans
    /\ stages \subseteq plan.install /\ activated \subseteq stages
    /\ backups \subseteq plan.remove
    /\ touched \subseteq {"documents", "registry"}
    /\ outcome \in {"open", "refused", "committed", "failed", "rollbackFailed"}

\* A transition that returns has done all of its plan or, when it reports an
\* error other than a failed rollback, nothing of it: in the mods directory,
\* in both ownership documents and in the registry.
AllOrNothing ==
    phase = "done" =>
        CASE outcome = "committed" ->
                <<live, owned, kept, pin>>
                    = <<TargetLive, TargetOwned, plan.retain, plan.enabled>>
          [] outcome = "failed" ->
                <<live, owned, kept, pin>>
                    = <<plan.live, plan.owned, plan.kept, ~plan.enabled>>
          [] OTHER -> outcome \in {"refused", "rollbackFailed"}

\* From the start of commit until the transition is committed, the bytes of
\* every file of the plan's starting point are in mods/, in a retired file or
\* in a rollback copy: at every step, and when the rollback itself fails.
RecoveryFilesPreserved ==
    (/\ phase \notin {"idle", "acquire", "commit"}
     /\ outcome \notin {"refused", "committed"})
        => plan.live \subseteq live \cup retired \cup copies

\* A committed plan accounts for every launcher-managed file: what preview
\* found accounted for is afterwards either owned or retained, not both and
\* never neither (a stray file would block every later transition), and the
\* ownership document is there exactly when the pin includes Aurora.
CommitAccountsForFiles ==
    (/\ phase = "done" /\ outcome = "committed"
     /\ plan.live \subseteq plan.owned \cup plan.kept
     /\ plan.owned \cap plan.kept = {})
        => /\ live \subseteq owned \cup kept
           /\ owned \cap kept = {}
           /\ pin <=> owned # {}
=============================================================================
