------------------------- MODULE LauncherStateProofs -------------------------
(***************************************************************************)
(* Theorems about what the launcher keeps under its data root, for any     *)
(* sets of files, accounts, tasks, addresses, contents, skins and capes,   *)
(* and any bounds on commands, failures and restarts.  Each part has an    *)
(* inductive invariant of its own:                                         *)
(*  - TransitionInv follows one transaction of the client: what mods/, the *)
(*    documents and the registry are at each phase in terms of the plan    *)
(*    and of the lists the rollback works from, and that every file taken  *)
(*    out of mods/ has a copy until the outcome is settled;                *)
(*  - AccountsInv: types, and what each command has in hand;               *)
(*  - TransferInv: what is staged is what was verified;                    *)
(*  - StoreInv: what an address gave is what its record says, or the       *)
(*    record was lost, whoever read, removed or renamed it meanwhile;      *)
(*  - ConfigInv: while nothing was saved without the lock, one task at a   *)
(*    time has the sibling, and drafts what was acknowledged;              *)
(*  - RegistryInv: the rows are those that were found, or touched since;   *)
(*  - CosmeticInv: an identity has one image, and a page shows what its    *)
(*    account was when it was asked.                                       *)
(* A behaviour of the run is one of each part (PartsApart); the last two   *)
(* theorems put them together.                                             *)
(***************************************************************************)
EXTENDS MCLauncherState, FiniteSetTheorems, SequenceTheorems, TLAPS

-----------------------------------------------------------------------------
(* A transition of the Aurora client: the inductive invariant *)

\* The phases of the forward path that follow a step of it.
FromCheck == {"check", "cleanStaged", "cleanRetired"}
FromRegistry == FromCheck \cup {"registry"}
FromValidate == FromRegistry \cup {"validate"}
FromKept == FromValidate \cup {"kept"}
FromOwned == FromKept \cup {"owned"}
FromActivate == FromOwned \cup {"activate"}
FromRetire == FromActivate \cup {"retire"}
FromStage == FromRetire \cup {"stage"}

Sweeps == {"sweepStaged", "sweepCopies"}

\* Between the start of commit and its outcome.
Open == FromStage \cup UndoPhases \cup Sweeps

\* A plan removes only what it found, and never what it installs; what it
\* leaves in mods/ is installed by it or retained, not both.
PlanSound ==
    /\ plan.remove \subseteq plan.live
    /\ plan.install \cap (plan.remove \cup plan.retain) = {}
    /\ plan.enabled <=> plan.install # {}
    /\ plan.live \subseteq plan.owned \cup plan.kept =>
        TargetLive \subseteq plan.install \cup plan.retain

\* The lists grow in the order of the phases and name what they should.
PlanLists ==
    /\ phase \in {"acquire", "commit"} => stages = {}
    /\ phase \in {"acquire", "commit", "stage"} => backups = {}
    /\ phase \in {"acquire", "commit", "stage", "retire"} => activated = {}
    /\ phase \in {"acquire", "commit", "stage", "retire", "activate"} => touched = {}
    /\ stages \cap plan.live = {}
    /\ stages \cap plan.kept = {}
    /\ phase \in FromRetire => plan.install \ plan.kept \subseteq stages
    /\ phase \in FromActivate => backups = plan.remove
    /\ phase \in FromOwned => activated = stages /\ "documents" \in touched
    /\ phase \in FromRegistry => "registry" \in touched

\* mods/ is the plan's starting point without the files backed up and with
\* the files activated; a rollback brings it back.
PlanMods ==
    /\ phase \in FromStage => live = (plan.live \ backups) \cup activated
    /\ phase \in FromKept => plan.install \subseteq live
    /\ phase \in {"undoActivated", "undoRetired"} =>
        /\ plan.live \ backups \subseteq live
        /\ live \subseteq plan.live \cup activated
    /\ phase = "undoRetired" => activated = {}
    /\ phase \in Sweeps \cup {"undoOwned", "undoKept", "undoRegistry"} =>
        live = plan.live

\* Each document, and the pin, is the plan's from its own step on and the old
\* one before; what the transaction has not touched is the old one.
PlanDocuments ==
    /\ phase \in FromStage \ FromKept => owned = plan.owned
    /\ phase \in FromKept => owned = plan.install
    /\ phase \in FromStage \ FromValidate => kept = plan.kept
    /\ phase \in FromValidate => kept = plan.retain
    /\ phase \in FromStage \ FromCheck => pin = ~plan.enabled
    /\ phase \in FromCheck => pin = plan.enabled
    /\ phase \in UndoPhases =>
        /\ "documents" \notin touched => owned = plan.owned /\ kept = plan.kept
        /\ "registry" \notin touched => pin = ~plan.enabled
    /\ phase \in Sweeps \cup {"undoKept", "undoRegistry"} => owned = plan.owned
    /\ phase \in Sweeps \cup {"undoRegistry"} => kept = plan.kept
    /\ phase \in Sweeps => pin = ~plan.enabled

\* What was taken out of mods/ has its copy.
PlanCopies ==
    phase \in Open \/ (phase = "done" /\ outcome = "rollbackFailed") =>
        /\ backups \subseteq copies
        /\ plan.live \ backups \subseteq live

\* The outcome is settled by the step that settles it.
PlanOutcomes ==
    /\ phase \in Open \cup {"idle", "acquire", "commit"} => outcome = "open"
    /\ phase = "cleanCopies" =>
        /\ outcome = "committed"
        /\ <<live, owned, kept, pin>>
            = <<TargetLive, TargetOwned, plan.retain, plan.enabled>>

TransitionInv ==
    /\ TransitionTypeOK /\ PlanSound /\ PlanLists /\ PlanMods /\ PlanDocuments /\ PlanCopies /\ PlanOutcomes
    /\ AllOrNothing

-----------------------------------------------------------------------------
\* What the parts of an approved plan are.
LEMMA PlanTypes ==
    ASSUME TransitionTypeOK
    PROVE  /\ plan.enabled \in BOOLEAN
           /\ plan.install \subseteq Files /\ plan.remove \subseteq Files
           /\ plan.retain \subseteq Files /\ plan.live \subseteq Files
           /\ plan.owned \subseteq Files /\ plan.kept \subseteq Files
  BY DEF TransitionTypeOK, Plans

\* An instance created with Aurora, or without, satisfies the invariant.
LEMMA TransitionStarts == TransitionInit => TransitionInv
<1> SUFFICES ASSUME TransitionInit PROVE TransitionInv
  OBVIOUS
<1>1. TransitionTypeOK
  BY DEF TransitionInit, TransitionTypeOK, Phases, Plans, NoPlan
<1>2. PlanSound /\ PlanOutcomes /\ AllOrNothing
  BY DEF TransitionInit, PlanSound, TargetLive, NoPlan, PlanOutcomes, AllOrNothing
<1>3. PlanLists /\ PlanMods /\ PlanDocuments /\ PlanCopies
  BY DEF TransitionInit, NoPlan, PlanLists, PlanMods, PlanDocuments, PlanCopies, FromStage, FromRetire,
         FromActivate, FromOwned, FromKept, FromValidate, FromRegistry,
         FromCheck, UndoPhases, Sweeps, Open
<1> QED
  BY <1>1, <1>2, <1>3 DEF TransitionInv

\* Every step of a transition, a removal by the user and a crash preserve the
\* invariant.  A step disturbs the parts that speak of its own phase and of
\* the one it leads to, so each leaf has the sets of phases before it.
LEMMA TransitionStep == TransitionInv /\ [TransitionNext]_transitionVars => TransitionInv'
<1> SUFFICES ASSUME TransitionInv, [TransitionNext]_transitionVars PROVE TransitionInv'
  OBVIOUS
<1> USE DEF TransitionInv, TransitionTypeOK, PlanSound, PlanLists, PlanMods, PlanDocuments, PlanCopies, PlanOutcomes,
            AllOrNothing, TargetLive, TargetOwned, disk, memory
<1> USE DEF Phases, ForwardPhases, UndoPhases, FromStage, FromRetire,
            FromActivate, FromOwned, FromKept, FromValidate, FromRegistry,
            FromCheck, Sweeps, Open
<1>1. CASE PreviewEnable
  BY <1>1 DEF PreviewEnable, Preview, EnablePlan, Plans
<1>2. CASE PreviewDisable
  BY <1>2 DEF PreviewDisable, Preview, DisablePlan, Plans
<1>3. CASE Acquire
  BY <1>3 DEF Acquire
<1>4. CASE StartCommit
  BY <1>4 DEF StartCommit, Approved
<1>5. CASE Refused
  BY <1>5 DEF Refused
<1>6. CASE StagingDone
  BY <1>6 DEF StagingDone
<1>7. CASE RetirementDone
  BY <1>7 DEF RetirementDone
<1>8. CASE ActivationDone
  BY <1>8 DEF ActivationDone
<1>9. CASE WriteOwned
  BY <1>9 DEF WriteOwned
<1>10. CASE WriteKept
  <2>1. kept' \subseteq Files
    BY <1>10, PlanTypes DEF WriteKept
  <2>2. TransitionTypeOK'
    BY <1>10, <2>1 DEF WriteKept
  <2>3. (PlanSound /\ PlanLists /\ PlanMods)'
    BY <1>10 DEF WriteKept
  <2>4. PlanDocuments'
    BY <1>10 DEF WriteKept
  <2>5. (PlanCopies /\ PlanOutcomes /\ AllOrNothing)'
    BY <1>10 DEF WriteKept
  <2> QED
    BY <2>2, <2>3, <2>4, <2>5
<1>11. CASE Validate
  BY <1>11 DEF Validate
<1>12. CASE SaveRegistry
  <2>1. pin' \in BOOLEAN
    BY <1>12, PlanTypes DEF SaveRegistry
  <2>2. TransitionTypeOK'
    BY <1>12, <2>1 DEF SaveRegistry
  <2>3. (PlanSound /\ PlanLists /\ PlanMods)'
    BY <1>12 DEF SaveRegistry
  <2>4. PlanDocuments'
    BY <1>12 DEF SaveRegistry
  <2>5. (PlanCopies /\ PlanOutcomes /\ AllOrNothing)'
    BY <1>12 DEF SaveRegistry
  <2> QED
    BY <2>2, <2>3, <2>4, <2>5
<1>13. CASE CheckRequired
  BY <1>13 DEF CheckRequired
<1>14. CASE StagedClean
  BY <1>14 DEF StagedClean
<1>15. CASE Commit
  BY <1>15 DEF Commit
<1>16. CASE CleanCopies
  BY <1>16 DEF CleanCopies
<1>17. CASE CommitFails
  BY <1>17 DEF CommitFails
<1>18. CASE ActivatedUndone
  BY <1>18 DEF ActivatedUndone
<1>19. CASE UndoRetired
  BY <1>19 DEF UndoRetired
<1>20. CASE UndoOwned
  <2>1. owned' \subseteq Files
    BY <1>20, PlanTypes DEF UndoOwned
  <2>2. TransitionTypeOK'
    BY <1>20, <2>1 DEF UndoOwned
  <2>3. (PlanSound /\ PlanLists /\ PlanMods)'
    BY <1>20 DEF UndoOwned
  <2>4. PlanDocuments'
    BY <1>20 DEF UndoOwned
  <2>5. (PlanCopies /\ PlanOutcomes /\ AllOrNothing)'
    BY <1>20 DEF UndoOwned
  <2> QED
    BY <2>2, <2>3, <2>4, <2>5
<1>21. CASE UndoKept
  <2>1. kept' \subseteq Files
    BY <1>21, PlanTypes DEF UndoKept
  <2>2. TransitionTypeOK'
    BY <1>21, <2>1 DEF UndoKept
  <2>3. (PlanSound /\ PlanLists /\ PlanMods)'
    BY <1>21 DEF UndoKept
  <2>4. PlanDocuments'
    BY <1>21 DEF UndoKept
  <2>5. (PlanCopies /\ PlanOutcomes /\ AllOrNothing)'
    BY <1>21 DEF UndoKept
  <2> QED
    BY <2>2, <2>3, <2>4, <2>5
<1>22. CASE UndoRegistry
  BY <1>22 DEF UndoRegistry
<1>23. CASE RollbackFails
  BY <1>23 DEF RollbackFails
<1>24. CASE SweepStaged
  BY <1>24 DEF SweepStaged
<1>25. CASE SweepCopies
  BY <1>25 DEF SweepCopies
<1>26. CASE ReturnOutcome
  BY <1>26 DEF ReturnOutcome, NoPlan, Plans
<1>27. CASE CommitDies
  BY <1>27 DEF CommitDies, NoPlan, Plans
<1>28. ASSUME NEW f \in Files, UserRemoves(f) PROVE TransitionInv'
  BY <1>28 DEF UserRemoves
<1>29. ASSUME NEW f \in Files, StageFile(f) PROVE TransitionInv'
  BY <1>29 DEF StageFile
<1>30. ASSUME NEW f \in Files, RetireFile(f) PROVE TransitionInv'
  BY <1>30 DEF RetireFile
<1>31. ASSUME NEW f \in Files, ActivateFile(f) PROVE TransitionInv'
  BY <1>31 DEF ActivateFile
<1>32. ASSUME NEW f \in Files, CleanStaged(f) PROVE TransitionInv'
  BY <1>32 DEF CleanStaged
<1>33. ASSUME NEW f \in Files, CleanRetired(f) PROVE TransitionInv'
  BY <1>33 DEF CleanRetired
<1>34. ASSUME NEW f \in Files, UndoActivated(f) PROVE TransitionInv'
  BY <1>34 DEF UndoActivated
<1>35. CASE UNCHANGED transitionVars
  BY <1>35 DEF transitionVars
<1> QED
  BY <1>1, <1>2, <1>3, <1>4, <1>5, <1>6, <1>7, <1>8, <1>9, <1>10, <1>11,
     <1>12, <1>13, <1>14, <1>15, <1>16, <1>17, <1>18, <1>19, <1>20, <1>21,
     <1>22, <1>23, <1>24, <1>25, <1>26, <1>27, <1>28, <1>29, <1>30, <1>31,
     <1>32, <1>33, <1>34, <1>35
  DEF TransitionNext

-----------------------------------------------------------------------------
(* A transition: the theorems *)

\* The invariant holds in every behaviour of the transitions of an instance.
THEOREM TransitionInvariance == TransitionSpec => []TransitionInv
  BY TransitionStarts, TransitionStep, PTL DEF TransitionSpec

\* Every variable keeps its type, and the lists of a rollback hold files
\* of its plan only.
THEOREM TransitionTypeCorrectness == TransitionSpec => []TransitionTypeOK
<1>1. TransitionInv => TransitionTypeOK
  BY DEF TransitionInv
<1> QED
  BY <1>1, TransitionInvariance, PTL

\* commit and its rollback: a transition that returns has done all of its
\* plan, or nothing of it, or says that its rollback failed.
THEOREM Atomicity == TransitionSpec => []AllOrNothing
<1>1. TransitionInv => AllOrNothing
  BY DEF TransitionInv
<1> QED
  BY <1>1, TransitionInvariance, PTL

\* commit and its rollback: until the transition is committed every file it
\* started from is in mods/, in a retired file or in a rollback copy.
THEOREM NothingLost == TransitionSpec => []RecoveryFilesPreserved
<1>1. TransitionInv => RecoveryFilesPreserved
  <2> SUFFICES ASSUME TransitionInv, phase \notin {"idle", "acquire", "commit"},
                      outcome \notin {"refused", "committed"}
               PROVE  plan.live \subseteq live \cup retired \cup copies
    BY DEF RecoveryFilesPreserved
  <2>1. CASE phase \in Open \/ (phase = "done" /\ outcome = "rollbackFailed")
    BY <2>1 DEF TransitionInv, PlanCopies
  <2>2. CASE phase = "done" /\ outcome = "failed"
    BY <2>2 DEF TransitionInv, AllOrNothing
  <2>3. outcome # "open" \/ phase # "done"
    BY DEF TransitionInv, AllOrNothing
  <2> QED
    BY <2>1, <2>2, <2>3
    DEF TransitionInv, TransitionTypeOK, Phases, ForwardPhases, UndoPhases, PlanOutcomes, Open,
        FromStage, FromRetire, FromActivate, FromOwned, FromKept, FromValidate,
        FromRegistry, FromCheck, Sweeps
<1> QED
  BY <1>1, TransitionInvariance, PTL

\* commit: afterwards every file that was accounted for is owned or retained,
\* not both, and the ownership document is there exactly when the pin
\* includes Aurora.
THEOREM FilesAccountedFor == TransitionSpec => []CommitAccountsForFiles
<1>1. TransitionInv => CommitAccountsForFiles
  BY DEF TransitionInv, AllOrNothing, PlanSound, TargetOwned, CommitAccountsForFiles
<1> QED
  BY <1>1, TransitionInvariance, PTL

-----------------------------------------------------------------------------
(* Accounts: the inductive invariant *)

\* What a command has in hand at each step.
KnowsAccount == Steps \ {"idle", "browser", "exchange", "chain"}
KnowsName ==
    {"commit", "commitSave", "commitCredential", "commitSession", "rename",
     "renameSave", "cache"}
HoldsFresh == {"chain", "commit", "commitSave", "commitCredential", "rotate"}

InHand ==
    \A w \in Workers :
        /\ pc[w] \in KnowsAccount => subject[w] \in Accounts
        /\ pc[w] \in KnowsName => profile[w] \in Names
        /\ pc[w] \in HoldsFresh \cup {"redeem"} => held[w] \in 1 .. issued

\* A token not yet saved is alive and nobody else's; a stored one is one
\* account's.
Fresh ==
    /\ \A w \in Workers : pc[w] \in HoldsFresh =>
        /\ held[w] \notin dead
        /\ \A a \in Accounts : credentials[a] # held[w]
        /\ \A v \in Workers \ {w} :
            pc[v] \in HoldsFresh \cup {"redeem"} => held[v] # held[w]
    /\ \A a, b \in Accounts :
        credentials[a] = credentials[b] /\ credentials[a] # 0 => a = b
    /\ \A w \in Workers, a \in Accounts :
        pc[w] = "redeem" /\ credentials[a] = held[w] => a = subject[w]
    /\ \A a \in Accounts : credentials[a] \in 0 .. issued

\* What the stores hold of the account at hand, inside the guards.
Recorded ==
    \A w \in Workers :
        /\ pc[w] \in GatedSteps \cup {"commitCredential", "commitSession"} =>
            names[subject[w]] # None
        /\ pc[w] \in {"redeem", "rotate"} => credentials[subject[w]] # 0
        /\ pc[w] = "removeSave" => credentials[subject[w]] = 0

\* The documents loaded and not yet saved list the accounts that the stored
\* one lists, the account at hand apart.
Drafts ==
    /\ \A w \in Workers, a \in Accounts :
        /\ pc[w] = "commitSave" =>
            (draft[w].names[a] = None <=> names[a] = None /\ a # subject[w])
        /\ pc[w] = "renameSave" => (draft[w].names[a] = None <=> names[a] = None)
        /\ pc[w] \in {"removeCredential", "removeSave"} =>
            (draft[w].names[a] = None <=> names[a] = None \/ a = subject[w])
    /\ choice # None =>
        /\ loginSlot = None
        /\ \A w \in Workers : pc[w] \notin {"removeGate"} \cup RemoveSteps
        /\ \A a \in Accounts : choice.names[a] = None <=> names[a] = None
        /\ \E a \in Accounts : names[a] # None

Rest ==
    /\ NothingLeaks /\ InHand /\ Fresh /\ Recorded /\ Drafts
    /\ CredentialIsAddressed /\ SessionHasRecord /\ RotatedCredentialIsKept

AccountsInv == TypeOK /\ Rest


-----------------------------------------------------------------------------
(* Accounts: types *)

LEMMA NoDocumentType == NoDocument \in Documents
  BY DEF NoDocument, Documents

\* A command that returns leaves its guards free and its locals empty.
LEMMA ReturnTypes ==
    ASSUME GuardsOK, LocalsOK, NEW w \in Workers, Return(w), choice' = choice,
           cancelled' \in BOOLEAN
    PROVE  GuardsOK' /\ LocalsOK'
  BY NoDocumentType, TokensAssumption
  DEF GuardsOK, LocalsOK, Return, Steps, Kinds, Tokens

\* Every step keeps the types.
LEMMA TypeStep ==
    ASSUME TypeOK, InHand, [Next]_vars
    PROVE  TypeOK'
<1> USE NoneIsNothing, TokensAssumption, NoDocumentType
    DEF TypeOK, StoresOK, GuardsOK, LocalsOK, ProviderOK,
       InHand, At, vars, document, stores, guards, locals, provider, Kinds,
       LoginSteps, GatedSteps, RemoveSteps, Steps, KnowsAccount, KnowsName,
       HoldsFresh, Tokens, Documents
<1>1. ASSUME NEW w \in Workers, BeginLogin(w) PROVE TypeOK'
  BY <1>1 DEF BeginLogin, Goto, AccountBusy
<1>2. ASSUME NEW w \in Workers, Callback(w) PROVE TypeOK'
  BY <1>2 DEF Callback, Goto
<1>3. ASSUME NEW w \in Workers, LoginCancelled(w) PROVE TypeOK'
  <2>1. StoresOK'
    BY <1>3 DEF LoginCancelled
  <2>2. GuardsOK' /\ LocalsOK'
    BY ReturnTypes, <1>3 DEF LoginCancelled
  <2>3. ProviderOK'
    BY <1>3 DEF LoginCancelled
  <2> QED
    BY <2>1, <2>2, <2>3
<1>4. ASSUME NEW w \in Workers, Exchange(w) PROVE TypeOK'
  BY <1>4 DEF Exchange, Goto
<1>5. ASSUME NEW w \in Workers, LoginChain(w) PROVE TypeOK'
  BY <1>5 DEF LoginChain, Goto
<1>6. ASSUME NEW w \in Workers, CommitLoad(w) PROVE TypeOK'
  BY <1>6 DEF CommitLoad, Goto, Merged
<1>7. ASSUME NEW w \in Workers, CommitSave(w) PROVE TypeOK'
  BY <1>7 DEF CommitSave, Goto, Save
<1>8. ASSUME NEW w \in Workers, CommitCredential(w) PROVE TypeOK'
  BY <1>8 DEF CommitCredential, Goto, Keep
<1>9. ASSUME NEW w \in Workers, CommitSession(w) PROVE TypeOK'
  <2>0. subject[w] \in Accounts
    BY <1>9 DEF CommitSession
  <2>1. StoresOK'
    BY <1>9, <2>0 DEF CommitSession
  <2>2. GuardsOK' /\ LocalsOK'
    BY ReturnTypes, <1>9 DEF CommitSession
  <2>3. ProviderOK'
    BY <1>9 DEF CommitSession
  <2> QED
    BY <2>1, <2>2, <2>3
<1>10. ASSUME NEW w \in Workers, LoginFails(w) PROVE TypeOK'
  BY <1>10 DEF LoginFails, Return
<1>11. ASSUME NEW w \in Workers, SessionFound(w) PROVE TypeOK'
  <2>1. StoresOK'
    BY <1>11 DEF SessionFound
  <2>2. GuardsOK' /\ LocalsOK'
    BY ReturnTypes, <1>11 DEF SessionFound, Goto
  <2>3. ProviderOK'
    BY <1>11 DEF SessionFound
  <2> QED
    BY <2>1, <2>2, <2>3
<1>12. ASSUME NEW w \in Workers, NothingToRestore(w) PROVE TypeOK'
  BY <1>12 DEF NothingToRestore, Return
<1>13. ASSUME NEW w \in Workers, EnterGate(w) PROVE TypeOK'
  BY <1>13 DEF EnterGate, Goto
<1>14. ASSUME NEW w \in Workers, Redeem(w) PROVE TypeOK'
  <2>1. StoresOK'
    BY <1>14 DEF Redeem
  <2>2. GuardsOK' /\ LocalsOK'
    BY <1>14 DEF Redeem, Goto
  <2>3. ProviderOK'
    <3>1. /\ issued' = issued + 1 /\ issued < MaxTokens /\ excused' = excused
          /\ dead' = dead \cup {held[w]}
      BY <1>14 DEF Redeem
    <3>2. held[w] \in 1 .. issued
      BY <1>14 DEF Redeem
    <3>3. issued' \in 0 .. MaxTokens /\ excused' \subseteq Accounts
      BY <3>1
    <3>4. dead' \subseteq 1 .. issued'
      <4>1. dead \subseteq 1 .. issued + 1 /\ held[w] \in 1 .. issued + 1
        BY <3>2
      <4> QED
        BY <3>1, <4>1
    <3> QED
      BY <3>3, <3>4
  <2> QED
    BY <2>1, <2>2, <2>3
<1>15. ASSUME NEW w \in Workers, RedeemLost(w) PROVE TypeOK'
  <2>1. StoresOK'
    BY <1>15 DEF RedeemLost
  <2>2. GuardsOK' /\ LocalsOK'
    BY ReturnTypes, <1>15 DEF RedeemLost
  <2>3. held[w] \in 1 .. issued
    BY <1>15 DEF RedeemLost
  <2>4. ProviderOK'
    <3> HIDE DEF InHand
    <3> QED
      BY <1>15, <2>3 DEF RedeemLost
  <2> QED
    BY <2>1, <2>2, <2>4
<1>16. ASSUME NEW w \in Workers, RedeemRejected(w) PROVE TypeOK'
  BY <1>16 DEF RedeemRejected, Goto
<1>17. ASSUME NEW w \in Workers, Reject(w) PROVE TypeOK'
  <2>0. subject[w] \in Accounts
    BY <1>17 DEF Reject
  <2>1. StoresOK'
    BY <1>17, <2>0 DEF Reject
  <2>2. GuardsOK' /\ LocalsOK'
    BY ReturnTypes, <1>17 DEF Reject
  <2>3. ProviderOK'
    BY <1>17 DEF Reject
  <2> QED
    BY <2>1, <2>2, <2>3
<1>18. ASSUME NEW w \in Workers, Rotate(w) PROVE TypeOK'
  BY <1>18 DEF Rotate, Goto, Keep
<1>19. ASSUME NEW w \in Workers, RotateFails(w) PROVE TypeOK'
  BY <1>19 DEF RotateFails, Return
<1>20. ASSUME NEW w \in Workers, RestoreChain(w) PROVE TypeOK'
  BY <1>20 DEF RestoreChain, Goto
<1>21. ASSUME NEW w \in Workers, ChainMismatch(w) PROVE TypeOK'
  <2>0. subject[w] \in Accounts
    BY <1>21 DEF ChainMismatch
  <2>1. StoresOK'
    BY <1>21, <2>0 DEF ChainMismatch
  <2>2. GuardsOK' /\ LocalsOK'
    BY ReturnTypes, <1>21 DEF ChainMismatch
  <2>3. ProviderOK'
    BY <1>21 DEF ChainMismatch
  <2> QED
    BY <2>1, <2>2, <2>3
<1>22. ASSUME NEW w \in Workers, NameUnchanged(w) PROVE TypeOK'
  BY <1>22 DEF NameUnchanged, Goto
<1>23. ASSUME NEW w \in Workers, RenameLoad(w) PROVE TypeOK'
  BY <1>23 DEF RenameLoad, Goto, Renamed
<1>24. ASSUME NEW w \in Workers, RenameSave(w) PROVE TypeOK'
  BY <1>24 DEF RenameSave, Goto, Save
<1>25. ASSUME NEW w \in Workers, CacheSession(w) PROVE TypeOK'
  <2>0. subject[w] \in Accounts
    BY <1>25 DEF CacheSession
  <2>1. StoresOK' /\ ProviderOK'
    BY <1>25, <2>0 DEF CacheSession
  <2>2. CASE kind[w] = "avatar"
    <3>1. GuardsOK'
      BY <1>25, <2>2 DEF CacheSession
    <3>2. /\ held' = [held EXCEPT ![w] = 0]
          /\ profile' = [profile EXCEPT ![w] = None]
          /\ pc' = [pc EXCEPT ![w] = "image"]
          /\ UNCHANGED <<kind, subject, draft, choice>>
      BY <1>25, <2>2 DEF CacheSession, Goto
    <3>3. LocalsOK'
      BY <3>2
    <3> QED
      BY <2>1, <3>1, <3>3
  <2>3. CASE kind[w] # "avatar"
    <3>1. GuardsOK' /\ LocalsOK'
      BY ReturnTypes, <1>25, <2>3 DEF CacheSession
    <3> QED
      BY <2>1, <3>1
  <2> QED
    BY <2>2, <2>3
<1>26. ASSUME NEW w \in Workers, RestoreFails(w) PROVE TypeOK'
  BY <1>26 DEF RestoreFails, Return
<1>27. ASSUME NEW w \in Workers, FetchAvatar(w) PROVE TypeOK'
  BY <1>27 DEF FetchAvatar, Goto
<1>28. ASSUME NEW w \in Workers, StoreAvatar(w) PROVE TypeOK'
  <2>0. subject[w] \in Accounts
    BY <1>28 DEF StoreAvatar
  <2>1. StoresOK'
    BY <1>28, <2>0 DEF StoreAvatar
  <2>2. GuardsOK' /\ LocalsOK'
    BY ReturnTypes, <1>28 DEF StoreAvatar
  <2>3. ProviderOK'
    BY <1>28 DEF StoreAvatar
  <2> QED
    BY <2>1, <2>2, <2>3
<1>29. ASSUME NEW w \in Workers, NoAvatar(w) PROVE TypeOK'
  BY <1>29 DEF NoAvatar, Return
<1>30. ASSUME NEW w \in Workers, EnterRemoval(w) PROVE TypeOK'
  BY <1>30 DEF EnterRemoval, Goto
<1>31. ASSUME NEW w \in Workers, RemoveLoad(w) PROVE TypeOK'
  BY <1>31 DEF RemoveLoad, Goto, Without
<1>32. ASSUME NEW w \in Workers, RemoveCredential(w) PROVE TypeOK'
  <2>0. subject[w] \in Accounts
    BY <1>32 DEF RemoveCredential
  <2>1. StoresOK'
    BY <1>32, <2>0 DEF RemoveCredential
  <2>2. GuardsOK' /\ LocalsOK'
    BY <1>32 DEF RemoveCredential, Goto
  <2>3. ProviderOK'
    BY <1>32 DEF RemoveCredential
  <2> QED
    BY <2>1, <2>2, <2>3
<1>33. ASSUME NEW w \in Workers, RemoveSave(w) PROVE TypeOK'
  BY <1>33 DEF RemoveSave, Goto, Save
<1>34. ASSUME NEW w \in Workers, RemoveSession(w) PROVE TypeOK'
  BY <1>34 DEF RemoveSession, Goto
<1>35. ASSUME NEW w \in Workers, RemoveAvatar(w) PROVE TypeOK'
  BY <1>35 DEF RemoveAvatar, Return
<1>36. ASSUME NEW w \in Workers, RemoveFails(w) PROVE TypeOK'
  BY <1>36 DEF RemoveFails, Return
<1>37. ASSUME NEW w \in Workers, LoginStep(w) PROVE TypeOK'
  BY <1>37, <1>2, <1>3, <1>4, <1>5, <1>6, <1>7, <1>8, <1>9, <1>10 DEF LoginStep
<1>38. ASSUME NEW w \in Workers, RestoreStep(w) PROVE TypeOK'
  BY <1>38, <1>11, <1>12, <1>13, <1>14, <1>15, <1>16, <1>17, <1>18, <1>19, <1>20,
     <1>21, <1>22, <1>23, <1>24, <1>25, <1>26, <1>27, <1>28, <1>29 DEF RestoreStep
<1>39. ASSUME NEW w \in Workers, RemoveStep(w) PROVE TypeOK'
  BY <1>39, <1>30, <1>31, <1>32, <1>33, <1>34, <1>35, <1>36 DEF RemoveStep
<1>40. ASSUME NEW w \in Workers, NEW k \in Kinds, NEW a \in Accounts, BeginRestore(w, k, a)
       PROVE TypeOK'
  BY <1>40 DEF BeginRestore, Goto
<1>41. ASSUME NEW w \in Workers, NEW a \in Accounts, BeginRemove(w, a) PROVE TypeOK'
  BY <1>41 DEF BeginRemove, Goto, AccountBusy
<1>42. CASE Cancel
  BY <1>42 DEF Cancel
<1>43. ASSUME NEW a \in Accounts, SelectLoad(a) PROVE TypeOK'
  BY <1>43 DEF SelectLoad, Selecting, AccountBusy, SignInBusy
<1>44. CASE SelectSave
  BY <1>44 DEF SelectSave, Save
<1>45. CASE SelectFails
  BY <1>45 DEF SelectFails
<1>46. ASSUME NEW a \in Accounts, Expire(a) PROVE TypeOK'
  BY <1>46 DEF Expire
<1>47. ASSUME NEW a \in Accounts, Revoke(a) PROVE TypeOK'
  BY <1>47 DEF Revoke
<1>48. CASE Crash
  <2>1. StoresOK' /\ GuardsOK' /\ ProviderOK'
    BY <1>48 DEF Crash
  <2>2. LocalsOK'
    BY <1>48 DEF Crash
  <2> QED
    BY <2>1, <2>2
<1>49. CASE UNCHANGED vars
  BY <1>49
<1> QED
  BY <1>1, <1>37, <1>38, <1>39, <1>40, <1>41, <1>42, <1>43, <1>44, <1>45, <1>46,
     <1>47, <1>48, <1>49
  DEF Next, Step

-----------------------------------------------------------------------------
(* Accounts: what is in hand, and what the stores hold *)

\* A command that moves to a step where it holds no token takes nothing from
\* the others.
LEMMA FreshLess ==
    ASSUME LocalsOK, Fresh, NEW w \in Workers,
           NEW s \in Steps \ (HoldsFresh \cup {"redeem"}),
           pc' = [pc EXCEPT ![w] = s],
           \A v \in Workers \ {w} : held'[v] = held[v] /\ subject'[v] = subject[v],
           UNCHANGED <<credentials, dead, issued>>
    PROVE  Fresh'
  BY DEF LocalsOK, Fresh, HoldsFresh

\* Every step keeps the rest of it.
LEMMA RestStep ==
    ASSUME TypeOK, Rest, [Next]_vars
    PROVE  Rest'
<1> USE NoneIsNothing, TokensAssumption
    DEF At, vars, document, stores, guards, locals, provider, LoginSteps, GatedSteps,
       RemoveSteps, Steps, LockedSteps, Tokens, Documents, NoDocument, TypeOK,
       StoresOK, GuardsOK, LocalsOK, ProviderOK, Kinds, Rest,
       NothingLeaks, InHand, Fresh, Recorded, Drafts, KnowsAccount,
       KnowsName, HoldsFresh, CredentialIsAddressed, SessionHasRecord,
       RotatedCredentialIsKept
<1>1. ASSUME NEW w \in Workers, BeginLogin(w) PROVE Rest'
  <2>1. NothingLeaks'
    BY <1>1 DEF BeginLogin, Goto, AccountBusy
  <2>2. InHand'
    BY <1>1 DEF BeginLogin, Goto, AccountBusy
  <2>3. Fresh'
    BY <1>1 DEF BeginLogin, Goto, AccountBusy
  <2>4. Recorded'
    BY <1>1 DEF BeginLogin, Goto, AccountBusy
  <2>5. Drafts'
    BY <1>1 DEF BeginLogin, Goto, AccountBusy
  <2>6. CredentialIsAddressed'
    BY <1>1 DEF BeginLogin, Goto, AccountBusy
  <2>7. SessionHasRecord'
    BY <1>1 DEF BeginLogin, Goto, AccountBusy
  <2>8. RotatedCredentialIsKept'
    BY <1>1 DEF BeginLogin, Goto, AccountBusy
  <2> QED
    BY <2>1, <2>2, <2>3, <2>4, <2>5, <2>6, <2>7, <2>8
<1>2. ASSUME NEW w \in Workers, Callback(w) PROVE Rest'
  BY <1>2 DEF Callback, Goto
<1>3. ASSUME NEW w \in Workers, LoginCancelled(w) PROVE Rest'
  <2>1. NothingLeaks'
    BY <1>3 DEF LoginCancelled, Return
  <2>2. InHand'
    BY <1>3 DEF LoginCancelled, Return
  <2>3. Fresh'
    BY <1>3 DEF LoginCancelled, Return
  <2>4. Recorded'
    BY <1>3 DEF LoginCancelled, Return
  <2>5. Drafts'
    BY <1>3 DEF LoginCancelled, Return
  <2>6. CredentialIsAddressed'
    BY <1>3 DEF LoginCancelled, Return
  <2>7. SessionHasRecord'
    BY <1>3 DEF LoginCancelled, Return
  <2>8. RotatedCredentialIsKept'
    BY <1>3 DEF LoginCancelled, Return
  <2> QED
    BY <2>1, <2>2, <2>3, <2>4, <2>5, <2>6, <2>7, <2>8
<1>4. ASSUME NEW w \in Workers, Exchange(w) PROVE Rest'
  BY <1>4 DEF Exchange, Goto
<1>5. ASSUME NEW w \in Workers, LoginChain(w) PROVE Rest'
  <2>1. NothingLeaks'
    BY <1>5 DEF LoginChain, Goto
  <2>2. InHand'
    BY <1>5 DEF LoginChain, Goto
  <2>3. Fresh'
    BY <1>5 DEF LoginChain, Goto
  <2>4. Recorded'
    BY <1>5 DEF LoginChain, Goto
  <2>5. Drafts'
    BY <1>5 DEF LoginChain, Goto
  <2>6. CredentialIsAddressed'
    BY <1>5 DEF LoginChain, Goto
  <2>7. SessionHasRecord'
    BY <1>5 DEF LoginChain, Goto
  <2>8. RotatedCredentialIsKept'
    BY <1>5 DEF LoginChain, Goto
  <2> QED
    BY <2>1, <2>2, <2>3, <2>4, <2>5, <2>6, <2>7, <2>8
<1>6. ASSUME NEW w \in Workers, CommitLoad(w) PROVE Rest'
  <2>1. NothingLeaks'
    BY <1>6 DEF CommitLoad, Goto, Merged
  <2>2. InHand'
    BY <1>6 DEF CommitLoad, Goto, Merged
  <2>3. Fresh'
    BY <1>6 DEF CommitLoad, Goto, Merged
  <2>4. Recorded'
    BY <1>6 DEF CommitLoad, Goto, Merged
  <2>5. Drafts'
    BY <1>6 DEF CommitLoad, Goto, Merged
  <2>6. CredentialIsAddressed'
    BY <1>6 DEF CommitLoad, Goto, Merged
  <2>7. SessionHasRecord'
    BY <1>6 DEF CommitLoad, Goto, Merged
  <2>8. RotatedCredentialIsKept'
    BY <1>6 DEF CommitLoad, Goto, Merged
  <2> QED
    BY <2>1, <2>2, <2>3, <2>4, <2>5, <2>6, <2>7, <2>8
<1>7. ASSUME NEW w \in Workers, CommitSave(w) PROVE Rest'
  <2>1. NothingLeaks'
    BY <1>7 DEF CommitSave, Goto, Save
  <2>2. InHand'
    BY <1>7 DEF CommitSave, Goto, Save
  <2>3. Fresh'
    BY <1>7 DEF CommitSave, Goto, Save
  <2>4. Recorded'
    <3>1. \A a \in Accounts : names[a] # None => names'[a] # None
      BY <1>7 DEF CommitSave, Save
    <3>2. names'[subject[w]] # None
      <4>1. subject[w] \in Accounts
        BY <1>7 DEF CommitSave
      <4>2. draft[w].names[subject[w]] # None
        BY <1>7, <4>1 DEF CommitSave
      <4> QED
        BY <1>7, <4>2 DEF CommitSave, Save
    <3>3. ASSUME NEW v \in Workers,
                 pc'[v] \in GatedSteps \cup {"commitCredential", "commitSession"}
          PROVE  names'[subject'[v]] # None
      <4>1. CASE v = w
        BY <1>7, <3>2, <4>1 DEF CommitSave
      <4>2. CASE v # w
        <5>1. pc[v] = pc'[v] /\ subject[v] = subject'[v]
          BY <1>7, <4>2 DEF CommitSave, Goto
        <5>2. subject[v] \in Accounts /\ names[subject[v]] # None
          BY <3>3, <5>1
        <5> QED
          BY <3>1, <5>1, <5>2
      <4> QED
        BY <4>1, <4>2
    <3>4. UNCHANGED <<credentials, subject>> /\ pc' = [pc EXCEPT ![w] = "commitCredential"]
      BY <1>7 DEF CommitSave, Goto
    <3> QED
      BY <3>3, <3>4
  <2>5. Drafts'
    BY <1>7 DEF CommitSave, Goto, Save
  <2>6. CredentialIsAddressed'
    BY <1>7 DEF CommitSave, Goto, Save
  <2>7. SessionHasRecord'
    BY <1>7 DEF CommitSave, Goto, Save
  <2>8. RotatedCredentialIsKept'
    BY <1>7 DEF CommitSave, Goto, Save
  <2> QED
    BY <2>1, <2>2, <2>3, <2>4, <2>5, <2>6, <2>7, <2>8
<1>8. ASSUME NEW w \in Workers, CommitCredential(w) PROVE Rest'
  <2>1. NothingLeaks'
    BY <1>8 DEF CommitCredential, Goto, Keep
  <2>2. InHand'
    BY <1>8 DEF CommitCredential, Goto, Keep
  <2>3. Fresh'
    BY <1>8 DEF CommitCredential, Goto, Keep
  <2>4. Recorded'
    BY <1>8 DEF CommitCredential, Goto, Keep
  <2>5. Drafts'
    BY <1>8 DEF CommitCredential, Goto, Keep
  <2>6. CredentialIsAddressed'
    BY <1>8 DEF CommitCredential, Goto, Keep
  <2>7. SessionHasRecord'
    BY <1>8 DEF CommitCredential, Goto, Keep
  <2>8. RotatedCredentialIsKept'
    BY <1>8 DEF CommitCredential, Goto, Keep
  <2> QED
    BY <2>1, <2>2, <2>3, <2>4, <2>5, <2>6, <2>7, <2>8
<1>9. ASSUME NEW w \in Workers, CommitSession(w) PROVE Rest'
  <2>1. NothingLeaks'
    BY <1>9 DEF CommitSession, Return
  <2>2. InHand'
    BY <1>9 DEF CommitSession, Return
  <2>3. Fresh'
    BY <1>9 DEF CommitSession, Return
  <2>4. Recorded'
    BY <1>9 DEF CommitSession, Return
  <2>5. Drafts'
    BY <1>9 DEF CommitSession, Return
  <2>6. CredentialIsAddressed'
    BY <1>9 DEF CommitSession, Return
  <2>7. SessionHasRecord'
    BY <1>9 DEF CommitSession, Return
  <2>8. RotatedCredentialIsKept'
    BY <1>9 DEF CommitSession, Return
  <2> QED
    BY <2>1, <2>2, <2>3, <2>4, <2>5, <2>6, <2>7, <2>8
<1>10. ASSUME NEW w \in Workers, LoginFails(w) PROVE Rest'
  BY <1>10 DEF LoginFails, Return
<1>11. ASSUME NEW w \in Workers, SessionFound(w) PROVE Rest'
  <2>0. CASE kind[w] = "avatar"
    <3>1. NothingLeaks'
      BY <1>11, <2>0 DEF SessionFound, Goto
    <3>2. InHand'
      BY <1>11, <2>0 DEF SessionFound, Goto
    <3>3. Fresh'
      <4>1. /\ pc' = [pc EXCEPT ![w] = "image"]
            /\ \A v \in Workers \ {w} : held'[v] = held[v] /\ subject'[v] = subject[v]
            /\ UNCHANGED <<credentials, dead, issued>>
        BY <1>11, <2>0 DEF SessionFound, Goto
      <4> QED
        BY <4>1, FreshLess
    <3>4. Recorded'
      BY <1>11, <2>0 DEF SessionFound, Goto
    <3>5. Drafts'
      BY <1>11, <2>0 DEF SessionFound, Goto
    <3>6. CredentialIsAddressed'
      BY <1>11, <2>0 DEF SessionFound, Goto
    <3>7. SessionHasRecord'
      BY <1>11, <2>0 DEF SessionFound, Goto
    <3>8. RotatedCredentialIsKept'
      BY <1>11, <2>0 DEF SessionFound, Goto
    <3> QED
      BY <3>1, <3>2, <3>3, <3>4, <3>5, <3>6, <3>7, <3>8
  <2>1. CASE kind[w] # "avatar"
    <3>1. NothingLeaks'
      BY <1>11, <2>1 DEF SessionFound, Return
    <3>2. InHand'
      BY <1>11, <2>1 DEF SessionFound, Return
    <3>3. Fresh'
      <4>1. /\ pc' = [pc EXCEPT ![w] = "idle"]
            /\ \A v \in Workers \ {w} : held'[v] = held[v] /\ subject'[v] = subject[v]
            /\ UNCHANGED <<credentials, dead, issued>>
        BY <1>11, <2>1 DEF SessionFound, Return
      <4> QED
        BY <4>1, FreshLess
    <3>4. Recorded'
      BY <1>11, <2>1 DEF SessionFound, Return
    <3>5. Drafts'
      <4>1. Return(w) /\ UNCHANGED <<names, choice>> /\ loginSlot' = loginSlot
        BY <1>11, <2>1 DEF SessionFound, Return
      <4> QED
        BY <4>1 DEF Return
    <3>6. CredentialIsAddressed'
      BY <1>11, <2>1 DEF SessionFound, Return
    <3>7. SessionHasRecord'
      BY <1>11, <2>1 DEF SessionFound, Return
    <3>8. RotatedCredentialIsKept'
      BY <1>11, <2>1 DEF SessionFound, Return
    <3> QED
      BY <3>1, <3>2, <3>3, <3>4, <3>5, <3>6, <3>7, <3>8
  <2> QED
    BY <2>0, <2>1
<1>12. ASSUME NEW w \in Workers, NothingToRestore(w) PROVE Rest'
  BY <1>12 DEF NothingToRestore, Return
<1>13. ASSUME NEW w \in Workers, EnterGate(w) PROVE Rest'
  BY <1>13 DEF EnterGate, Goto
<1>14. ASSUME NEW w \in Workers, Redeem(w) PROVE Rest'
  <2>1. NothingLeaks'
    BY <1>14 DEF Redeem, Goto
  <2>2. InHand'
    BY <1>14 DEF Redeem, Goto
  <2>3. Fresh'
    BY <1>14 DEF Redeem, Goto
  <2>4. Recorded'
    BY <1>14 DEF Redeem, Goto
  <2>5. Drafts'
    BY <1>14 DEF Redeem, Goto
  <2>6. CredentialIsAddressed'
    BY <1>14 DEF Redeem, Goto
  <2>7. SessionHasRecord'
    BY <1>14 DEF Redeem, Goto
  <2>8. RotatedCredentialIsKept'
    BY <1>14 DEF Redeem, Goto
  <2> QED
    BY <2>1, <2>2, <2>3, <2>4, <2>5, <2>6, <2>7, <2>8
<1>15. ASSUME NEW w \in Workers, RedeemLost(w) PROVE Rest'
  <2>1. NothingLeaks'
    BY <1>15 DEF RedeemLost, Return
  <2>2. InHand'
    BY <1>15 DEF RedeemLost, Return
  <2>3. Fresh'
    BY <1>15 DEF RedeemLost, Return
  <2>4. Recorded'
    BY <1>15 DEF RedeemLost, Return
  <2>5. Drafts'
    BY <1>15 DEF RedeemLost, Return
  <2>6. CredentialIsAddressed'
    BY <1>15 DEF RedeemLost, Return
  <2>7. SessionHasRecord'
    BY <1>15 DEF RedeemLost, Return
  <2>8. RotatedCredentialIsKept'
    BY <1>15 DEF RedeemLost, Return
  <2> QED
    BY <2>1, <2>2, <2>3, <2>4, <2>5, <2>6, <2>7, <2>8
<1>16. ASSUME NEW w \in Workers, RedeemRejected(w) PROVE Rest'
  BY <1>16 DEF RedeemRejected, Goto
<1>17. ASSUME NEW w \in Workers, Reject(w) PROVE Rest'
  BY <1>17 DEF Reject, Return
<1>18. ASSUME NEW w \in Workers, Rotate(w) PROVE Rest'
  BY <1>18 DEF Rotate, Goto, Keep
<1>19. ASSUME NEW w \in Workers, RotateFails(w) PROVE Rest'
  BY <1>19 DEF RotateFails, Return
<1>20. ASSUME NEW w \in Workers, RestoreChain(w) PROVE Rest'
  BY <1>20 DEF RestoreChain, Goto
<1>21. ASSUME NEW w \in Workers, ChainMismatch(w) PROVE Rest'
  <2>1. NothingLeaks'
    BY <1>21 DEF ChainMismatch, Return
  <2>2. InHand'
    BY <1>21 DEF ChainMismatch, Return
  <2>3. Fresh'
    BY <1>21 DEF ChainMismatch, Return
  <2>4. Recorded'
    BY <1>21 DEF ChainMismatch, Return
  <2>5. Drafts'
    BY <1>21 DEF ChainMismatch, Return
  <2>6. CredentialIsAddressed'
    BY <1>21 DEF ChainMismatch, Return
  <2>7. SessionHasRecord'
    BY <1>21 DEF ChainMismatch, Return
  <2>8. RotatedCredentialIsKept'
    BY <1>21 DEF ChainMismatch, Return
  <2> QED
    BY <2>1, <2>2, <2>3, <2>4, <2>5, <2>6, <2>7, <2>8
<1>22. ASSUME NEW w \in Workers, NameUnchanged(w) PROVE Rest'
  BY <1>22 DEF NameUnchanged, Goto
<1>23. ASSUME NEW w \in Workers, RenameLoad(w) PROVE Rest'
  BY <1>23 DEF RenameLoad, Goto, Renamed
<1>24. ASSUME NEW w \in Workers, RenameSave(w) PROVE Rest'
  BY <1>24 DEF RenameSave, Goto, Save
<1>25. ASSUME NEW w \in Workers, CacheSession(w) PROVE Rest'
  <2>0. CASE kind[w] = "avatar"
    <3>1. NothingLeaks'
      BY <1>25, <2>0 DEF CacheSession, Goto
    <3>2. InHand'
      BY <1>25, <2>0 DEF CacheSession, Goto
    <3>3. Fresh'
      <4>1. /\ pc' = [pc EXCEPT ![w] = "image"]
            /\ \A v \in Workers \ {w} : held'[v] = held[v] /\ subject'[v] = subject[v]
            /\ UNCHANGED <<credentials, dead, issued>>
        BY <1>25, <2>0 DEF CacheSession, Goto
      <4> QED
        BY <4>1, FreshLess
    <3>4. Recorded'
      BY <1>25, <2>0 DEF CacheSession, Goto
    <3>5. Drafts'
      BY <1>25, <2>0 DEF CacheSession, Goto
    <3>6. CredentialIsAddressed'
      BY <1>25, <2>0 DEF CacheSession, Goto
    <3>7. SessionHasRecord'
      BY <1>25, <2>0 DEF CacheSession, Goto
    <3>8. RotatedCredentialIsKept'
      BY <1>25, <2>0 DEF CacheSession, Goto
    <3> QED
      BY <3>1, <3>2, <3>3, <3>4, <3>5, <3>6, <3>7, <3>8
  <2>1. CASE kind[w] # "avatar"
    <3>1. NothingLeaks'
      BY <1>25, <2>1 DEF CacheSession, Return
    <3>2. InHand'
      BY <1>25, <2>1 DEF CacheSession, Return
    <3>3. Fresh'
      <4>1. /\ pc' = [pc EXCEPT ![w] = "idle"]
            /\ \A v \in Workers \ {w} : held'[v] = held[v] /\ subject'[v] = subject[v]
            /\ UNCHANGED <<credentials, dead, issued>>
        BY <1>25, <2>1 DEF CacheSession, Return
      <4> QED
        BY <4>1, FreshLess
    <3>4. Recorded'
      BY <1>25, <2>1 DEF CacheSession, Return
    <3>5. Drafts'
      BY <1>25, <2>1 DEF CacheSession, Return
    <3>6. CredentialIsAddressed'
      BY <1>25, <2>1 DEF CacheSession, Return
    <3>7. SessionHasRecord'
      BY <1>25, <2>1 DEF CacheSession, Return
    <3>8. RotatedCredentialIsKept'
      BY <1>25, <2>1 DEF CacheSession, Return
    <3> QED
      BY <3>1, <3>2, <3>3, <3>4, <3>5, <3>6, <3>7, <3>8
  <2> QED
    BY <2>0, <2>1
<1>26. ASSUME NEW w \in Workers, RestoreFails(w) PROVE Rest'
  BY <1>26 DEF RestoreFails, Return
<1>27. ASSUME NEW w \in Workers, FetchAvatar(w) PROVE Rest'
  BY <1>27 DEF FetchAvatar, Goto
<1>28. ASSUME NEW w \in Workers, StoreAvatar(w) PROVE Rest'
  BY <1>28 DEF StoreAvatar, Return
<1>29. ASSUME NEW w \in Workers, NoAvatar(w) PROVE Rest'
  BY <1>29 DEF NoAvatar, Return
<1>30. ASSUME NEW w \in Workers, EnterRemoval(w) PROVE Rest'
  BY <1>30 DEF EnterRemoval, Goto
<1>31. ASSUME NEW w \in Workers, RemoveLoad(w) PROVE Rest'
  BY <1>31 DEF RemoveLoad, Goto, Without
<1>32. ASSUME NEW w \in Workers, RemoveCredential(w) PROVE Rest'
  BY <1>32 DEF RemoveCredential, Goto
<1>33. ASSUME NEW w \in Workers, RemoveSave(w) PROVE Rest'
  BY <1>33 DEF RemoveSave, Goto, Save
<1>34. ASSUME NEW w \in Workers, RemoveSession(w) PROVE Rest'
  BY <1>34 DEF RemoveSession, Goto
<1>35. ASSUME NEW w \in Workers, RemoveAvatar(w) PROVE Rest'
  BY <1>35 DEF RemoveAvatar, Return
<1>36. ASSUME NEW w \in Workers, RemoveFails(w) PROVE Rest'
  BY <1>36 DEF RemoveFails, Return
<1>37. ASSUME NEW w \in Workers, LoginStep(w) PROVE Rest'
  BY <1>37, <1>2, <1>3, <1>4, <1>5, <1>6, <1>7, <1>8, <1>9, <1>10 DEF LoginStep
<1>38. ASSUME NEW w \in Workers, RestoreStep(w) PROVE Rest'
  BY <1>38, <1>11, <1>12, <1>13, <1>14, <1>15, <1>16, <1>17, <1>18, <1>19, <1>20,
     <1>21, <1>22, <1>23, <1>24, <1>25, <1>26, <1>27, <1>28, <1>29 DEF RestoreStep
<1>39. ASSUME NEW w \in Workers, RemoveStep(w) PROVE Rest'
  BY <1>39, <1>30, <1>31, <1>32, <1>33, <1>34, <1>35, <1>36 DEF RemoveStep
<1>40. ASSUME NEW w \in Workers, NEW k \in Kinds, NEW a \in Accounts, BeginRestore(w, k, a)
       PROVE Rest'
  <2>1. NothingLeaks'
    BY <1>40 DEF BeginRestore, Goto
  <2>2. InHand'
    BY <1>40 DEF BeginRestore, Goto
  <2>3. Fresh'
    BY <1>40 DEF BeginRestore, Goto
  <2>4. Recorded'
    BY <1>40 DEF BeginRestore, Goto
  <2>5. Drafts'
    BY <1>40 DEF BeginRestore, Goto
  <2>6. CredentialIsAddressed'
    BY <1>40 DEF BeginRestore, Goto
  <2>7. SessionHasRecord'
    BY <1>40 DEF BeginRestore, Goto
  <2>8. RotatedCredentialIsKept'
    BY <1>40 DEF BeginRestore, Goto
  <2> QED
    BY <2>1, <2>2, <2>3, <2>4, <2>5, <2>6, <2>7, <2>8
<1>41. ASSUME NEW w \in Workers, NEW a \in Accounts, BeginRemove(w, a) PROVE Rest'
  <2>1. NothingLeaks'
    BY <1>41 DEF BeginRemove, Goto, AccountBusy
  <2>2. InHand'
    BY <1>41 DEF BeginRemove, Goto, AccountBusy
  <2>3. Fresh'
    BY <1>41 DEF BeginRemove, Goto, AccountBusy
  <2>4. Recorded'
    BY <1>41 DEF BeginRemove, Goto, AccountBusy
  <2>5. Drafts'
    BY <1>41 DEF BeginRemove, Goto, AccountBusy
  <2>6. CredentialIsAddressed'
    BY <1>41 DEF BeginRemove, Goto, AccountBusy
  <2>7. SessionHasRecord'
    BY <1>41 DEF BeginRemove, Goto, AccountBusy
  <2>8. RotatedCredentialIsKept'
    BY <1>41 DEF BeginRemove, Goto, AccountBusy
  <2> QED
    BY <2>1, <2>2, <2>3, <2>4, <2>5, <2>6, <2>7, <2>8
<1>42. CASE Cancel
  BY <1>42 DEF Cancel
<1>43. ASSUME NEW a \in Accounts, SelectLoad(a) PROVE Rest'
  BY <1>43 DEF SelectLoad, Selecting, AccountBusy, SignInBusy
<1>44. CASE SelectSave
  BY <1>44 DEF SelectSave, Save
<1>45. CASE SelectFails
  BY <1>45 DEF SelectFails
<1>46. ASSUME NEW a \in Accounts, Expire(a) PROVE Rest'
  BY <1>46 DEF Expire
<1>47. ASSUME NEW a \in Accounts, Revoke(a) PROVE Rest'
  <2>1. NothingLeaks'
    BY <1>47 DEF Revoke
  <2>2. InHand'
    BY <1>47 DEF Revoke
  <2>3. Fresh'
    BY <1>47 DEF Revoke
  <2>4. Recorded'
    BY <1>47 DEF Revoke
  <2>5. Drafts'
    BY <1>47 DEF Revoke
  <2>6. CredentialIsAddressed'
    BY <1>47 DEF Revoke
  <2>7. SessionHasRecord'
    BY <1>47 DEF Revoke
  <2>8. RotatedCredentialIsKept'
    BY <1>47 DEF Revoke
  <2> QED
    BY <2>1, <2>2, <2>3, <2>4, <2>5, <2>6, <2>7, <2>8
<1>48. CASE Crash
  <2>1. NothingLeaks'
    BY <1>48 DEF Crash
  <2>2. InHand'
    BY <1>48 DEF Crash
  <2>3. Fresh'
    BY <1>48 DEF Crash
  <2>4. Recorded'
    BY <1>48 DEF Crash
  <2>5. Drafts'
    BY <1>48 DEF Crash
  <2>6. CredentialIsAddressed'
    BY <1>48 DEF Crash
  <2>7. SessionHasRecord'
    BY <1>48 DEF Crash
  <2>8. RotatedCredentialIsKept'
    BY <1>48 DEF Crash
  <2> QED
    BY <2>1, <2>2, <2>3, <2>4, <2>5, <2>6, <2>7, <2>8
<1>49. CASE UNCHANGED vars
  BY <1>49
<1> QED
  BY <1>1, <1>37, <1>38, <1>39, <1>40, <1>41, <1>42, <1>43, <1>44, <1>45, <1>46,
     <1>47, <1>48, <1>49
  DEF Next, Step

-----------------------------------------------------------------------------
(* Accounts: creation *)

Creates == \A a \in Accounts : SignInOfCreates(a)

\* Only the two writes of commit_account create a record or a credential.
LEMMA CreatesStep ==
    ASSUME StoresOK, LocalsOK, InHand, Recorded, Drafts, CredentialIsAddressed, [Next]_vars
    PROVE  Creates
<1> USE NoneIsNothing, TokensAssumption
    DEF At, vars, document, stores, guards, locals, provider, LoginSteps, GatedSteps,
       RemoveSteps, Steps, Documents, NoDocument, StoresOK, LocalsOK, InHand, Recorded,
       Drafts, KnowsAccount, KnowsName, CredentialIsAddressed, Creates, SignInOfCreates
<1>1. ASSUME NEW w \in Workers, BeginLogin(w) PROVE Creates
  BY <1>1 DEF BeginLogin, Goto, AccountBusy
<1>2. ASSUME NEW w \in Workers, Callback(w) PROVE Creates
  BY <1>2 DEF Callback, Goto
<1>3. ASSUME NEW w \in Workers, LoginCancelled(w) PROVE Creates
  BY <1>3 DEF LoginCancelled, Return
<1>4. ASSUME NEW w \in Workers, Exchange(w) PROVE Creates
  BY <1>4 DEF Exchange, Goto
<1>5. ASSUME NEW w \in Workers, LoginChain(w) PROVE Creates
  BY <1>5 DEF LoginChain, Goto
<1>6. ASSUME NEW w \in Workers, CommitLoad(w) PROVE Creates
  BY <1>6 DEF CommitLoad, Goto, Merged
<1>7. ASSUME NEW w \in Workers, CommitSave(w) PROVE Creates
  BY <1>7 DEF CommitSave, Goto, Save
<1>8. ASSUME NEW w \in Workers, CommitCredential(w) PROVE Creates
  BY <1>8 DEF CommitCredential, Goto, Keep
<1>9. ASSUME NEW w \in Workers, CommitSession(w) PROVE Creates
  BY <1>9 DEF CommitSession, Return
<1>10. ASSUME NEW w \in Workers, LoginFails(w) PROVE Creates
  BY <1>10 DEF LoginFails, Return
<1>11. ASSUME NEW w \in Workers, SessionFound(w) PROVE Creates
  BY <1>11 DEF SessionFound, Goto, Return
<1>12. ASSUME NEW w \in Workers, NothingToRestore(w) PROVE Creates
  BY <1>12 DEF NothingToRestore, Return
<1>13. ASSUME NEW w \in Workers, EnterGate(w) PROVE Creates
  BY <1>13 DEF EnterGate, Goto
<1>14. ASSUME NEW w \in Workers, Redeem(w) PROVE Creates
  BY <1>14 DEF Redeem, Goto
<1>15. ASSUME NEW w \in Workers, RedeemLost(w) PROVE Creates
  BY <1>15 DEF RedeemLost, Return
<1>16. ASSUME NEW w \in Workers, RedeemRejected(w) PROVE Creates
  BY <1>16 DEF RedeemRejected, Goto
<1>17. ASSUME NEW w \in Workers, Reject(w) PROVE Creates
  BY <1>17 DEF Reject, Return
<1>18. ASSUME NEW w \in Workers, Rotate(w) PROVE Creates
  BY <1>18 DEF Rotate, Goto, Keep
<1>19. ASSUME NEW w \in Workers, RotateFails(w) PROVE Creates
  BY <1>19 DEF RotateFails, Return
<1>20. ASSUME NEW w \in Workers, RestoreChain(w) PROVE Creates
  BY <1>20 DEF RestoreChain, Goto
<1>21. ASSUME NEW w \in Workers, ChainMismatch(w) PROVE Creates
  BY <1>21 DEF ChainMismatch, Return
<1>22. ASSUME NEW w \in Workers, NameUnchanged(w) PROVE Creates
  BY <1>22 DEF NameUnchanged, Goto
<1>23. ASSUME NEW w \in Workers, RenameLoad(w) PROVE Creates
  BY <1>23 DEF RenameLoad, Goto, Renamed
<1>24. ASSUME NEW w \in Workers, RenameSave(w) PROVE Creates
  BY <1>24 DEF RenameSave, Goto, Save
<1>25. ASSUME NEW w \in Workers, CacheSession(w) PROVE Creates
  BY <1>25 DEF CacheSession, Goto, Return
<1>26. ASSUME NEW w \in Workers, RestoreFails(w) PROVE Creates
  BY <1>26 DEF RestoreFails, Return
<1>27. ASSUME NEW w \in Workers, FetchAvatar(w) PROVE Creates
  BY <1>27 DEF FetchAvatar, Goto
<1>28. ASSUME NEW w \in Workers, StoreAvatar(w) PROVE Creates
  BY <1>28 DEF StoreAvatar, Return
<1>29. ASSUME NEW w \in Workers, NoAvatar(w) PROVE Creates
  BY <1>29 DEF NoAvatar, Return
<1>30. ASSUME NEW w \in Workers, EnterRemoval(w) PROVE Creates
  BY <1>30 DEF EnterRemoval, Goto
<1>31. ASSUME NEW w \in Workers, RemoveLoad(w) PROVE Creates
  BY <1>31 DEF RemoveLoad, Goto, Without
<1>32. ASSUME NEW w \in Workers, RemoveCredential(w) PROVE Creates
  BY <1>32 DEF RemoveCredential, Goto
<1>33. ASSUME NEW w \in Workers, RemoveSave(w) PROVE Creates
  BY <1>33 DEF RemoveSave, Goto, Save
<1>34. ASSUME NEW w \in Workers, RemoveSession(w) PROVE Creates
  BY <1>34 DEF RemoveSession, Goto
<1>35. ASSUME NEW w \in Workers, RemoveAvatar(w) PROVE Creates
  BY <1>35 DEF RemoveAvatar, Return
<1>36. ASSUME NEW w \in Workers, RemoveFails(w) PROVE Creates
  BY <1>36 DEF RemoveFails, Return
<1>37. ASSUME NEW w \in Workers, LoginStep(w) PROVE Creates
  BY <1>37, <1>2, <1>3, <1>4, <1>5, <1>6, <1>7, <1>8, <1>9, <1>10 DEF LoginStep
<1>38. ASSUME NEW w \in Workers, RestoreStep(w) PROVE Creates
  BY <1>38, <1>11, <1>12, <1>13, <1>14, <1>15, <1>16, <1>17, <1>18, <1>19, <1>20,
     <1>21, <1>22, <1>23, <1>24, <1>25, <1>26, <1>27, <1>28, <1>29 DEF RestoreStep
<1>39. ASSUME NEW w \in Workers, RemoveStep(w) PROVE Creates
  BY <1>39, <1>30, <1>31, <1>32, <1>33, <1>34, <1>35, <1>36 DEF RemoveStep
<1>40. ASSUME NEW w \in Workers, NEW k \in Kinds, NEW a \in Accounts, BeginRestore(w, k, a)
       PROVE Creates
  BY <1>40 DEF BeginRestore, Goto
<1>41. ASSUME NEW w \in Workers, NEW a \in Accounts, BeginRemove(w, a) PROVE Creates
  BY <1>41 DEF BeginRemove, Goto, AccountBusy
<1>42. CASE Cancel
  BY <1>42 DEF Cancel
<1>43. ASSUME NEW a \in Accounts, SelectLoad(a) PROVE Creates
  BY <1>43 DEF SelectLoad, Selecting, AccountBusy, SignInBusy
<1>44. CASE SelectSave
  BY <1>44 DEF SelectSave, Save
<1>45. CASE SelectFails
  BY <1>45 DEF SelectFails
<1>46. ASSUME NEW a \in Accounts, Expire(a) PROVE Creates
  BY <1>46 DEF Expire
<1>47. ASSUME NEW a \in Accounts, Revoke(a) PROVE Creates
  BY <1>47 DEF Revoke
<1>48. CASE Crash
  BY <1>48 DEF Crash
<1>49. CASE UNCHANGED vars
  BY <1>49
<1> QED
  BY <1>1, <1>37, <1>38, <1>39, <1>40, <1>41, <1>42, <1>43, <1>44, <1>45, <1>46,
     <1>47, <1>48, <1>49
  DEF Next, Step

-----------------------------------------------------------------------------
(* Accounts: the theorems *)

\* A launcher that starts for the first time has no account and runs nothing.
LEMMA AccountsStart == Init => AccountsInv
<1> SUFFICES ASSUME Init PROVE AccountsInv
  OBVIOUS
<1> USE NoneIsNothing, TokensAssumption DEF Init
<1>1. StoresOK
  BY DEF StoresOK, NoDocument, Tokens
<1>7. GuardsOK
  BY DEF GuardsOK
<1>8. ProviderOK
  BY DEF ProviderOK, Tokens
<1>2. LocalsOK
  BY NoDocumentType DEF LocalsOK, Steps, Kinds, Tokens
<1>3. NothingLeaks
  BY DEF NothingLeaks, LoginSteps, GatedSteps, RemoveSteps, LockedSteps
<1>4. InHand /\ Recorded /\ Drafts
  BY DEF InHand, Recorded, Drafts, KnowsAccount, KnowsName, HoldsFresh, GatedSteps
<1>5. Fresh
  BY DEF Fresh, HoldsFresh
<1>6. CredentialIsAddressed /\ SessionHasRecord /\ RotatedCredentialIsKept
  BY DEF CredentialIsAddressed, SessionHasRecord, RotatedCredentialIsKept
<1> QED
  BY <1>1, <1>2, <1>3, <1>4, <1>5, <1>6, <1>7, <1>8 DEF TypeOK, Rest, AccountsInv

\* The invariant the theorems below rest on: what each command has in hand,
\* which tokens are alive and whose they are, and what the documents loaded
\* and not yet saved list, relative to the stored one.
THEOREM AccountsInvariance == Spec => []AccountsInv
<1>1. AccountsInv /\ [Next]_vars => AccountsInv'
  <2> SUFFICES ASSUME AccountsInv, [Next]_vars PROVE AccountsInv'
    OBVIOUS
  <2>1. TypeOK'
    BY TypeStep DEF AccountsInv, Rest
  <2>2. Rest'
    BY RestStep DEF AccountsInv
  <2> QED
    BY <2>1, <2>2 DEF AccountsInv
<1> QED
  BY AccountsStart, <1>1, PTL DEF Spec

\* Every variable keeps its type, for any accounts, names and workers.
THEOREM AccountsTypeCorrectness == Spec => []TypeOK
<1>1. AccountsInv => TypeOK
  BY DEF AccountsInv
<1> QED
  BY AccountsInvariance, <1>1, PTL

\* Whatever fails and whenever the launcher dies, no credential is left that
\* no record addresses: commit_account and sign_out write in the right order,
\* and no other command comes between.
THEOREM CredentialsAddressed == Spec => []CredentialIsAddressed
<1>1. AccountsInv => CredentialIsAddressed
  BY DEF AccountsInv, Rest
<1> QED
  BY AccountsInvariance, <1>1, PTL

\* A session in SessionCache belongs to a recorded account, or to the one
\* whose removal is about to take it away.
THEOREM SessionsRecorded == Spec => []SessionHasRecord
<1>1. AccountsInv => SessionHasRecord
  BY DEF AccountsInv, Rest
<1> QED
  BY AccountsInvariance, <1>1, PTL

\* The credential store never holds a token that a restoration has used up,
\* except while its replacement is being saved, or when saving it failed:
\* the gate keeps two restorations from redeeming the same token.
THEOREM RotationsKept == Spec => []RotatedCredentialIsKept
<1>1. AccountsInv => RotatedCredentialIsKept
  BY DEF AccountsInv, Rest
<1> QED
  BY AccountsInvariance, <1>1, PTL

\* The login slot, the restoration gate and accounts_lock are held exactly at
\* the steps inside them, by one command each: no way out leaks one.
THEOREM GuardsReleased == Spec => []NothingLeaks
<1>1. AccountsInv => NothingLeaks
  BY DEF AccountsInv, Rest
<1> QED
  BY AccountsInvariance, <1>1, PTL

\* Nothing but a sign-in creates a record or a credential: neither a
\* restoration nor a stale document brings a removed account back.
THEOREM CreationNeedsSignIn == Spec => OnlySignInCreates
<1>1. AccountsInv /\ [Next]_vars => [\A a \in Accounts : SignInOfCreates(a)]_vars
  BY CreatesStep DEF AccountsInv, Rest, TypeOK, Creates
<1> QED
  BY AccountsInvariance, <1>1, PTL DEF Spec, OnlySignInCreates

-----------------------------------------------------------------------------
(* One transfer *)

\* What was verified is what is staged, and nothing is before the stream; of an
\* address without a digest no more than the limit.
TransferInv ==
    /\ Transfers!TypeOK /\ Transfers!VerifiedOrGone /\ Transfers!StaysSecure
    /\ verified \in Seq(Letters)
    /\ at = "idle" => asked = {}
    /\ at \in {"idle", "asking"} => verified = <<>> /\ staging = None
    /\ at = "streaming" =>
        /\ staging = verified
        /\ source.kind = "observed" => Len(verified) <= Limit

\* A transfer that has not begun satisfies the invariant.
LEMMA TransferInit == Transfers!Init => TransferInv
  BY DownloadBounds, DownloadNone
  DEF Transfers!Init, TransferInv, Transfers!TypeOK, Transfers!VerifiedOrGone,
      Transfers!StaysSecure

\* A stream that is abandoned leaves nothing, or a file that cannot be removed.
LEMMA TransferAbandoned ==
    ASSUME TransferInv, at = "streaming", NEW reason, reason \notin {None, "ok"},
           Transfers!Abandon(reason), verified' \in Seq(Letters),
           UNCHANGED <<source, url, asked, hops, promised>>
    PROVE  TransferInv'
  BY DEF TransferInv, Transfers!Abandon, Transfers!Ends, Transfers!TypeOK,
         Transfers!VerifiedOrGone, Transfers!StaysSecure

\* A transfer that ends before its stream has no file.
LEMMA TransferRefused ==
    ASSUME TransferInv, at \in {"idle", "asking"}, NEW reason, reason \notin {None, "ok"},
           Transfers!Ends(reason),
           UNCHANGED <<source, url, asked, hops, promised, verified, staging, stuck>>
    PROVE  TransferInv'
  BY DEF TransferInv, Transfers!Ends, Transfers!TypeOK, Transfers!VerifiedOrGone,
         Transfers!StaysSecure

\* What an address without a digest is asked for has no size.
LEMMA ObservedHasNoSize ==
    ASSUME NEW s \in Sources, s.kind = "observed"
    PROVE  s.size = None
  BY DEF Sources

\* Redirects and the stream preserve the invariant.
LEMMA TransferStep ==
    ASSUME TransferInv, [Transfers!Next]_(Transfers!vars)
    PROVE  TransferInv'
<1> USE DownloadBounds, DownloadNone
<1>1. CASE Transfers!Begin
  <2>1. CASE ~Transfers!Built(source)
    BY <1>1, <2>1, TransferRefused DEF Transfers!Begin
  <2>2. CASE Transfers!Built(source)
    <3>1. /\ at' = "asking" /\ asked' = {source.url}
          /\ UNCHANGED <<source, answer, hops, promised, verified, staging, stuck>>
          /\ at = "idle"
      BY <1>1, <2>2 DEF Transfers!Begin
    <3>2. source.url \in Urls
      BY DEF TransferInv, Transfers!TypeOK, Sources
    <3>3. Transfers!StaysSecure'
      BY <2>2, <3>1 DEF Transfers!StaysSecure, Transfers!Built, Transfers!BuiltExact,
            Transfers!BuiltPack, Transfers!BuiltObserved, Transfers!Admitted,
            Transfers!LoopbackHttp
    <3> QED
      BY <3>1, <3>2, <3>3 DEF TransferInv, Transfers!TypeOK, Transfers!VerifiedOrGone
  <2> QED
    BY <2>1, <2>2
<1>2. CASE Transfers!Redirected
  <2>1. PICK candidate \in Urls :
        \/ /\ source.kind = "pack" => Transfers!PackHost(candidate)
           /\ Transfers!Follows(candidate)
           /\ url' = candidate /\ asked' = asked \cup {candidate} /\ hops' = hops + 1
           /\ UNCHANGED <<at, answer>>
        \/ /\ source.kind = "pack" /\ ~Transfers!PackHost(candidate)
           /\ Transfers!Ends("status") /\ UNCHANGED <<url, asked, hops>>
        \/ /\ source.kind = "pack" => Transfers!PackHost(candidate)
           /\ ~Transfers!Follows(candidate)
           /\ Transfers!Ends("redirect") /\ UNCHANGED <<url, asked, hops>>
    BY <1>2 DEF Transfers!Redirected
  <2>2. at = "asking" /\ UNCHANGED <<source, promised, verified, staging, stuck>>
    BY <1>2 DEF Transfers!Redirected
  <2>3. CASE Transfers!Ends("status") /\ UNCHANGED <<url, asked, hops>>
    BY <2>2, <2>3, TransferRefused
  <2>4. CASE Transfers!Ends("redirect") /\ UNCHANGED <<url, asked, hops>>
    BY <2>2, <2>4, TransferRefused
  <2>5. CASE /\ source.kind = "pack" => Transfers!PackHost(candidate)
             /\ Transfers!Follows(candidate)
             /\ url' = candidate /\ asked' = asked \cup {candidate} /\ hops' = hops + 1
             /\ UNCHANGED <<at, answer>>
    <3>1. Transfers!StaysSecure'
      BY <2>2, <2>5 DEF TransferInv, Transfers!StaysSecure, Transfers!Follows,
            Transfers!LoopbackHttp
    <3> QED
      BY <2>2, <2>5, <3>1
      DEF TransferInv, Transfers!TypeOK, Transfers!VerifiedOrGone, Transfers!Follows
  <2> QED
    BY <2>1, <2>3, <2>4, <2>5
<1>3. CASE Transfers!Answered
  <2>1. at = "asking" /\ UNCHANGED <<source, url, asked, hops, verified, stuck>>
    BY <1>3 DEF Transfers!Answered
  <2>2. \/ /\ \E reason \in {"status", "size", "io"} : Transfers!Ends(reason)
           /\ UNCHANGED <<promised, staging>>
        \/ staging' = <<>> /\ at' = "streaming" /\ UNCHANGED answer
    BY <1>3 DEF Transfers!Answered
  <2>3. CASE /\ \E reason \in {"status", "size", "io"} : Transfers!Ends(reason)
             /\ UNCHANGED <<promised, staging>>
    BY <2>1, <2>3, TransferRefused
  <2>4. CASE staging' = <<>> /\ at' = "streaming" /\ UNCHANGED answer
    BY <2>1, <2>4
    DEF TransferInv, Transfers!TypeOK, Transfers!VerifiedOrGone, Transfers!StaysSecure
  <2> QED
    BY <2>2, <2>3, <2>4
<1>4. CASE Transfers!Unreached
  BY <1>4, TransferRefused DEF Transfers!Unreached
<1>5. CASE Transfers!Chunk
  <2>1. at = "streaming" /\ UNCHANGED <<source, url, asked, hops, promised>>
    BY <1>5 DEF Transfers!Chunk
  <2>2. PICK letter \in Letters :
          \/ /\ Transfers!Fits(Len(Append(verified, letter)))
             /\ verified' = Append(verified, letter) /\ staging' = Append(verified, letter)
             /\ UNCHANGED <<at, answer, stuck>>
          \/ Transfers!Abandon("size") /\ UNCHANGED verified
          \/ verified' = Append(verified, letter) /\ Transfers!Abandon("io")
    BY <1>5 DEF Transfers!Chunk
  <2>3. verified \in Seq(Letters) /\ Append(verified, letter) \in Seq(Letters)
    BY DEF TransferInv
  <2>4. CASE Transfers!Abandon("size") /\ UNCHANGED verified
    BY <2>1, <2>3, <2>4, TransferAbandoned
  <2>5. CASE verified' = Append(verified, letter) /\ Transfers!Abandon("io")
    BY <2>1, <2>3, <2>5, TransferAbandoned
  <2>6. CASE /\ Transfers!Fits(Len(Append(verified, letter)))
             /\ verified' = Append(verified, letter) /\ staging' = Append(verified, letter)
             /\ UNCHANGED <<at, answer, stuck>>
    BY <2>1, <2>3, <2>6
    DEF TransferInv, Transfers!TypeOK, Transfers!VerifiedOrGone, Transfers!StaysSecure,
        Transfers!Fits
  <2> QED
    BY <2>2, <2>4, <2>5, <2>6
<1>6. CASE Transfers!Broken
  <2>1. verified \in Seq(Letters)
    BY DEF TransferInv
  <2> QED
    BY <1>6, <2>1, TransferAbandoned DEF Transfers!Broken
<1>7. CASE Transfers!Finish \/ Transfers!FinishObserved
  <2>1. at = "streaming" /\ UNCHANGED <<source, url, asked, hops, promised, verified>>
    BY <1>7 DEF Transfers!Finish, Transfers!FinishObserved, Transfers!Received
  <2>2. verified \in Seq(Letters) /\ source \in Sources
    BY DEF TransferInv, Transfers!TypeOK
  <2>3. CASE \E reason \in {"size", "digest", "drift", "io"} : Transfers!Abandon(reason)
    BY <2>1, <2>2, <2>3, TransferAbandoned
  <2>4. CASE Transfers!Passes
    <3>1. source.digest \in {None, verified} /\ source.size \in {None, Len(verified)}
      <4>1. CASE Transfers!Finish /\ ~(\E reason \in {"size", "digest", "drift", "io"} :
                                        Transfers!Abandon(reason))
        BY <4>1 DEF Transfers!Finish
      <4>2. CASE Transfers!FinishObserved /\ ~(\E reason \in {"size", "digest", "drift", "io"} :
                                        Transfers!Abandon(reason))
        BY <2>2, <4>2, ObservedHasNoSize DEF Transfers!FinishObserved, Transfers!Received
      <4>3. ~(\E reason \in {"size", "digest", "drift", "io"} : Transfers!Abandon(reason))
        BY <2>4 DEF Transfers!Passes, Transfers!Abandon, Transfers!Ends
      <4> QED
        BY <1>7, <4>1, <4>2, <4>3
    <3> QED
      BY <2>1, <2>2, <2>4, <3>1
      DEF TransferInv, Transfers!TypeOK, Transfers!VerifiedOrGone, Transfers!StaysSecure,
          Transfers!Passes, Transfers!Ends
  <2> QED
    BY <1>7, <2>3, <2>4 DEF Transfers!Finish, Transfers!FinishObserved
<1>8. CASE UNCHANGED Transfers!vars
  BY <1>8 DEF Transfers!vars, TransferInv, Transfers!TypeOK, Transfers!VerifiedOrGone,
              Transfers!StaysSecure
<1> QED
  BY <1>1, <1>2, <1>3, <1>4, <1>5, <1>6, <1>7, <1>8 DEF Transfers!Next

-----------------------------------------------------------------------------
(* Addresses without a digest *)

AcquisitionSteps == {"idle", "pin", "hit", "download", "promote", "record", "rename"}
Acquisition ==
    [at : AcquisitionSteps, address : Addresses \cup {None},
     pin : Contents \cup {None}, got : Contents \cup {None}]

StoreShape ==
    /\ objects \in [Contents -> {None, "whole", "corrupt"}]
    /\ records \in [Contents -> Addresses \cup {None}]
    /\ temporary \in [Contents -> Addresses \cup {None}]
    /\ acquisitions \in [Tasks -> Acquisition]
    /\ published \in [Addresses -> Contents]
    /\ served \in [Addresses -> SUBSET Contents]
    /\ given \in [Addresses -> SUBSET Contents]
    /\ harm \in 0 .. MaxFaults /\ rounds \in 0 .. MaxRounds

\* What an acquisition of an address carries was served there.
Carries(j, past) ==
    /\ j.address \in Addresses
    /\ j.at = "hit" => j.pin # None
    /\ j.pin # None => j.pin \in past[j.address]
    /\ j.at \in {"promote", "record", "rename"} => j.got \in past[j.address]
    /\ j.at = "promote" => j.pin \in {None, j.got}

\* So was what is recorded for it, under both names of a record.
StoreServed ==
    /\ \A w \in Tasks : acquisitions[w].at # "idle" => Carries(acquisitions[w], served)
    /\ \A c \in Contents :
        /\ records[c] # None => c \in served[records[c]]
        /\ temporary[c] # None => c \in served[temporary[c]]
    /\ \A u \in Addresses : given[u] \subseteq served[u]

\* An address that has kept its record has one, which is what it returned and
\* what acquisitions of it go by.
RecordRules ==
    \A u \in Addresses \ unpinned :
        /\ \A c \in given[u] : records[c] = u
        /\ \A c, d \in Contents : records[c] = u /\ records[d] = u => c = d
        /\ \A w \in Tasks :
            acquisitions[w].at # "idle" /\ acquisitions[w].address = u
                /\ acquisitions[w].pin # None => records[acquisitions[w].pin] = u

StoreInv == StoreShape /\ StoreServed /\ RecordRules

LEMMA IdleShape == Observed!Idle \in Acquisition /\ Observed!Idle.at = "idle"
BY DEF Observed!Idle, Acquisition, AcquisitionSteps

\* An empty store satisfies the invariant.
LEMMA StoreInit == Observed!Init => StoreInv
<1> SUFFICES ASSUME Observed!Init PROVE StoreInv
  OBVIOUS
<1>1. StoreShape
  BY DownloadBounds
  DEF Observed!Init, StoreShape, Acquisition, AcquisitionSteps, Observed!Idle
<1>2. StoreServed /\ RecordRules
  <2>1. /\ \A w \in Tasks : acquisitions[w].at = "idle"
        /\ \A c \in Contents : records[c] = None /\ temporary[c] = None
        /\ \A u \in Addresses : given[u] = {}
    BY IdleShape DEF Observed!Init
  <2>2. StoreServed
    BY <2>1 DEF StoreServed
  <2>3. RecordRules
    BY <2>1, DownloadNone DEF RecordRules
  <2> QED
    BY <2>2, <2>3
<1> QED
  BY <1>1, <1>2 DEF StoreInv

\* A worker's acquisition goes on: of what the store keeps only the sibling of a
\* record may change, what was served only grows, and no address is excused less.
LEMMA AcquisitionMoves ==
    ASSUME StoreInv, NEW w \in Tasks, NEW next \in Acquisition,
           acquisitions' = [acquisitions EXCEPT ![w] = next],
           objects' \in [Contents -> {None, "whole", "corrupt"}],
           temporary' \in [Contents -> Addresses \cup {None}],
           served' \in [Addresses -> SUBSET Contents],
           \A u \in Addresses : served[u] \subseteq served'[u],
           \A c \in Contents : temporary'[c] # None => c \in served'[temporary'[c]],
           unpinned \subseteq unpinned',
           next.at # "idle" =>
                /\ Carries(next, served')
                /\ next.pin # None /\ next.address \notin unpinned =>
                    records[next.pin] = next.address,
           UNCHANGED <<records, published, given>>,
           harm' \in 0 .. MaxFaults, rounds' \in 0 .. MaxRounds
    PROVE  StoreInv'
<1>1. StoreShape'
  BY DEF StoreInv, StoreShape
<1>2. \A v \in Tasks : acquisitions'[v] = IF v = w THEN next ELSE acquisitions[v]
  BY DEF StoreInv, StoreShape
<1>3. StoreServed'
  <2>1. (\A v \in Tasks : acquisitions[v].at # "idle" => Carries(acquisitions[v], served))'
    BY <1>2 DEF StoreInv, StoreServed, Carries
  <2>2. \A c \in Contents : records[c] # None => c \in served'[records[c]]
    BY DEF StoreInv, StoreShape, StoreServed
  <2>3. \A u \in Addresses : given[u] \subseteq served'[u]
    BY DEF StoreInv, StoreServed
  <2> QED
    BY <2>1, <2>2, <2>3 DEF StoreServed
<1>4. RecordRules'
  BY <1>2 DEF StoreInv, RecordRules
<1> QED
  BY <1>1, <1>3, <1>4 DEF StoreInv

\* An acquisition that fails, and one that returns what is recorded.
LEMMA AcquisitionFails ==
    ASSUME StoreInv, NEW w \in Tasks, Observed!Fails(w),
           objects' \in [Contents -> {None, "whole", "corrupt"}],
           temporary' \in [Contents -> Addresses \cup {None}],
           \A c \in Contents : temporary'[c] # None => c \in served[temporary'[c]],
           unpinned \subseteq unpinned',
           UNCHANGED <<records, published, served>>,
           harm' \in 0 .. MaxFaults, rounds' \in 0 .. MaxRounds
    PROVE  StoreInv'
<1>1. served' \in [Addresses -> SUBSET Contents]
  BY DEF StoreInv, StoreShape
<1> QED
  BY <1>1, IdleShape, AcquisitionMoves DEF Observed!Fails

LEMMA AcquisitionReturns ==
    ASSUME StoreInv, NEW w \in Tasks, NEW c \in Contents, Observed!Returns(w, c),
           acquisitions[w].address \in Addresses,
           c \in served[acquisitions[w].address],
           acquisitions[w].address \notin unpinned => records[c] = acquisitions[w].address,
           objects' \in [Contents -> {None, "whole", "corrupt"}],
           UNCHANGED <<records, temporary, published, served, unpinned>>,
           harm' \in 0 .. MaxFaults, rounds' \in 0 .. MaxRounds
    PROVE  StoreInv'
<1>1. \A v \in Tasks : acquisitions'[v] = IF v = w THEN Observed!Idle ELSE acquisitions[v]
  BY DEF StoreInv, StoreShape, Observed!Returns
<1>2. \A u \in Addresses :
        given'[u] = IF u = acquisitions[w].address THEN given[u] \cup {c} ELSE given[u]
  BY DEF StoreInv, StoreShape, Observed!Returns
<1>3. StoreShape'
  BY IdleShape DEF StoreInv, StoreShape, Observed!Returns
<1>4. StoreServed'
  <2>1. \A v \in Tasks : acquisitions'[v].at # "idle" => Carries(acquisitions'[v], served')
    BY IdleShape, <1>1 DEF StoreInv, StoreServed
  <2>2. \A u \in Addresses : given'[u] \subseteq served'[u]
    BY <1>2 DEF StoreInv, StoreServed
  <2> QED
    BY <2>1, <2>2 DEF StoreInv, StoreServed
<1>5. RecordRules'
  <2>1. ASSUME NEW u \in Addresses \ unpinned'
        PROVE  /\ \A d \in given'[u] : records'[d] = u
               /\ \A d, e \in Contents : records'[d] = u /\ records'[e] = u => d = e
               /\ \A v \in Tasks :
                   acquisitions'[v].at # "idle" /\ acquisitions'[v].address = u
                      /\ acquisitions'[v].pin # None => records'[acquisitions'[v].pin] = u
    <3>1. /\ \A d \in given[u] : records[d] = u
          /\ \A d, e \in Contents : records[d] = u /\ records[e] = u => d = e
          /\ \A v \in Tasks :
              acquisitions[v].at # "idle" /\ acquisitions[v].address = u
                 /\ acquisitions[v].pin # None => records[acquisitions[v].pin] = u
      BY <2>1 DEF StoreInv, RecordRules
    <3>2. \A d \in given'[u] : records[d] = u
      <4>1. CASE u = acquisitions[w].address
        <5>1. given'[u] = given[u] \cup {c} /\ records[c] = u
          BY <1>2, <2>1, <4>1
        <5> QED
          BY <3>1, <5>1
      <4>2. CASE u # acquisitions[w].address
        BY <1>2, <2>1, <3>1, <4>2
      <4> QED
        BY <4>1, <4>2
    <3>3. ASSUME NEW v \in Tasks, acquisitions'[v].at # "idle"
          PROVE  acquisitions'[v] = acquisitions[v]
      BY <1>1, <3>3, IdleShape
    <3> QED
      BY <3>1, <3>2, <3>3
  <2> QED
    BY <2>1 DEF RecordRules
<1> QED
  BY <1>3, <1>4, <1>5 DEF StoreInv

\* A record that goes excuses its address.
LEMMA RecordGoes ==
    ASSUME StoreInv, NEW c \in Contents, records[c] # None,
           records' = [records EXCEPT ![c] = None],
           unpinned' = unpinned \cup {records[c]},
           UNCHANGED <<objects, temporary, acquisitions, published, served, given>>,
           harm' \in 0 .. MaxFaults, rounds' \in 0 .. MaxRounds
    PROVE  StoreInv'
<1>1. StoreShape'
  BY DEF StoreInv, StoreShape
<1>2. \A d \in Contents : records'[d] = IF d = c THEN None ELSE records[d]
  BY DEF StoreInv, StoreShape
<1>3. StoreServed'
  BY <1>2 DEF StoreInv, StoreServed, Carries
<1>4. ASSUME NEW u \in Addresses \ unpinned'
      PROVE  /\ \A d \in given[u] : records'[d] = u
             /\ \A d, e \in Contents : records'[d] = u /\ records'[e] = u => d = e
             /\ \A w \in Tasks :
                 acquisitions[w].at # "idle" /\ acquisitions[w].address = u
                    /\ acquisitions[w].pin # None => records'[acquisitions[w].pin] = u
  <2>1. u \in Addresses \ unpinned /\ u # records[c] /\ u # None
    BY <1>4, DownloadNone
  <2>2. \A w \in Tasks : acquisitions[w].pin \in Contents \cup {None}
    BY DEF StoreInv, StoreShape, Acquisition
  <2>3. given[u] \subseteq Contents
    BY <2>1 DEF StoreInv, StoreShape
  <2> QED
    BY <1>2, <2>1, <2>2, <2>3 DEF StoreInv, RecordRules
<1>5. RecordRules'
  BY <1>4 DEF RecordRules
<1> QED
  BY <1>1, <1>3, <1>5 DEF StoreInv

\* What a worker carries, and what moving it on makes of it.
LEMMA AcquisitionShape ==
    ASSUME StoreInv, NEW w \in Tasks
    PROVE  /\ acquisitions[w] \in Acquisition
           /\ acquisitions[w].at # "idle" => Carries(acquisitions[w], served)
           /\ acquisitions[w].at # "idle" /\ acquisitions[w].pin # None
                /\ acquisitions[w].address \notin unpinned =>
                    records[acquisitions[w].pin] = acquisitions[w].address
  BY DEF StoreInv, StoreShape, StoreServed, RecordRules, Carries

\* A step that only moves a worker on keeps what it carries.
LEMMA AcquisitionGoes ==
    ASSUME StoreInv, NEW w \in Tasks, NEW s \in AcquisitionSteps \ {"idle"},
           acquisitions[w].at # "idle", Observed!Goes(w, s),
           s = "hit" => acquisitions[w].pin # None,
           s \in {"promote", "record", "rename"} =>
                acquisitions[w].got \in served[acquisitions[w].address],
           s = "promote" => acquisitions[w].pin \in {None, acquisitions[w].got},
           objects' \in [Contents -> {None, "whole", "corrupt"}],
           temporary' \in [Contents -> Addresses \cup {None}],
           \A c \in Contents : temporary'[c] # None => c \in served[temporary'[c]],
           UNCHANGED <<records, published, served, given, unpinned>>,
           harm' \in 0 .. MaxFaults, rounds' \in 0 .. MaxRounds
    PROVE  StoreInv'
<1> DEFINE next == [acquisitions[w] EXCEPT !.at = s]
<1>1. acquisitions[w] \in Acquisition /\ acquisitions' = [acquisitions EXCEPT ![w] = next]
  BY AcquisitionShape DEF Observed!Goes
<1>2. /\ next \in Acquisition /\ next.at = s /\ next.address = acquisitions[w].address
      /\ next.pin = acquisitions[w].pin /\ next.got = acquisitions[w].got
  BY <1>1 DEF Acquisition
<1>3. served' \in [Addresses -> SUBSET Contents]
  BY DEF StoreInv, StoreShape
<1>4. Carries(next, served')
  BY <1>2, AcquisitionShape DEF Carries
<1> HIDE DEF next
<1>5. next.pin # None /\ next.address \notin unpinned => records[next.pin] = next.address
  BY <1>2, AcquisitionShape
<1> QED
  BY <1>1, <1>2, <1>3, <1>4, <1>5, AcquisitionMoves

\* A new record is its address's only one, or excuses it.
LEMMA RecordRenamed ==
    ASSUME StoreInv, NEW w \in Tasks, NEW c \in Contents, NEW location \in Addresses,
           acquisitions[w].at # "idle", location = acquisitions[w].address, c \in served[location],
           temporary[c] # None,
           records' = [records EXCEPT ![c] = temporary[c]],
           temporary' = [temporary EXCEPT ![c] = None],
           unpinned' = unpinned \cup ({records[c], location} \ {None, temporary[c]})
                \cup {x \in {temporary[c]} : \E d \in Contents \ {c} : records[d] = x},
           Observed!Returns(w, c),
           UNCHANGED <<objects, published, served, harm, rounds>>
    PROVE  StoreInv'
<1> DEFINE now == temporary[c]
<1>1. now \in Addresses /\ now # None /\ c \in served[now]
  BY DEF StoreInv, StoreShape, StoreServed
<1> HIDE DEF now
<1>2. \A d \in Contents : records'[d] = IF d = c THEN now ELSE records[d]
  BY DEF StoreInv, StoreShape, now
<1>3. \A d \in Contents : temporary'[d] = IF d = c THEN None ELSE temporary[d]
  BY DEF StoreInv, StoreShape
<1>4. \A v \in Tasks : acquisitions'[v] = IF v = w THEN Observed!Idle ELSE acquisitions[v]
  BY DEF StoreInv, StoreShape, Observed!Returns
<1>5. \A u \in Addresses : given'[u] = IF u = location THEN given[u] \cup {c} ELSE given[u]
  BY DEF StoreInv, StoreShape, Observed!Returns
<1>6. StoreShape'
  BY <1>1, IdleShape DEF StoreInv, StoreShape, Observed!Returns, now
<1>7. StoreServed'
  <2>1. \A v \in Tasks : acquisitions'[v].at # "idle" => Carries(acquisitions'[v], served')
    BY <1>4, IdleShape DEF StoreInv, StoreServed
  <2>2. \A d \in Contents : /\ records'[d] # None => d \in served'[records'[d]]
                            /\ temporary'[d] # None => d \in served'[temporary'[d]]
    BY <1>1, <1>2, <1>3 DEF StoreInv, StoreServed
  <2>3. ASSUME NEW u \in Addresses
        PROVE  given'[u] \subseteq served'[u]
    <3>1. given[u] \subseteq served[u]
      BY DEF StoreInv, StoreServed
    <3>2. CASE u = location
      BY <1>5, <3>1, <3>2
    <3>3. CASE u # location
      BY <1>5, <3>1, <3>3
    <3> QED
      BY <3>2, <3>3
  <2> QED
    BY <2>1, <2>2, <2>3 DEF StoreServed
<1>8. ASSUME NEW u \in Addresses \ unpinned'
      PROVE  /\ \A d \in given'[u] : records'[d] = u
             /\ \A d, e \in Contents : records'[d] = u /\ records'[e] = u => d = e
             /\ \A v \in Tasks :
                 acquisitions'[v].at # "idle" /\ acquisitions'[v].address = u
                    /\ acquisitions'[v].pin # None => records'[acquisitions'[v].pin] = u
  <2>1. u \in Addresses \ unpinned /\ u # None
    BY <1>8, DownloadNone
  <2>2. records[c] = u => u = now
    BY <1>8, <2>1 DEF now
  <2>3. u = location => u = now
    BY <1>8, <2>1 DEF now
  <2>4. u = now => \A d \in Contents : records[d] = u => d = c
    BY <1>8 DEF now
  <2>5. given[u] \subseteq Contents
    BY <2>1 DEF StoreInv, StoreShape
  <2>6. /\ \A d \in given[u] : records[d] = u
        /\ \A d, e \in Contents : records[d] = u /\ records[e] = u => d = e
        /\ \A v \in Tasks :
            acquisitions[v].at # "idle" /\ acquisitions[v].address = u
               /\ acquisitions[v].pin # None => records[acquisitions[v].pin] = u
    BY <2>1 DEF StoreInv, RecordRules
  <2>7. \A v \in Tasks : acquisitions[v].pin \in Contents \cup {None}
    BY DEF StoreInv, StoreShape, Acquisition
  <2>8. ASSUME NEW d \in given'[u]
        PROVE  records'[d] = u
    <3>1. d \in given[u] \/ (d = c /\ u = location)
      <4>1. CASE u = location
        <5>1. given'[u] = given[u] \cup {c}
          BY <1>5, <2>1, <4>1
        <5> QED
          BY <2>8, <4>1, <5>1
      <4>2. CASE u # location
        BY <1>5, <2>1, <2>8, <4>2
      <4> QED
        BY <4>1, <4>2
    <3> QED
      BY <1>2, <2>2, <2>3, <2>5, <2>6, <3>1
  <2>9. \A d, e \in Contents : records'[d] = u /\ records'[e] = u => d = e
    BY <1>2, <2>2, <2>4, <2>6
  <2>10. ASSUME NEW v \in Tasks, acquisitions'[v].at # "idle", acquisitions'[v].address = u,
                acquisitions'[v].pin # None
         PROVE  records'[acquisitions'[v].pin] = u
    <3>1. acquisitions'[v] = acquisitions[v]
      BY <1>4, <2>10, IdleShape
    <3>2. records[acquisitions[v].pin] = u /\ acquisitions[v].pin \in Contents
      BY <2>6, <2>7, <2>10, <3>1
    <3> QED
      BY <1>2, <2>2, <3>1, <3>2
  <2> QED
    BY <2>8, <2>9, <2>10
<1>9. RecordRules'
  BY <1>8 DEF RecordRules
<1> QED
  BY <1>6, <1>7, <1>9 DEF StoreInv

\* Every step of the acquisitions, and what happens to the store meanwhile,
\* preserve the invariant.
LEMMA StoreStep ==
    ASSUME StoreInv, [Observed!Next]_(Observed!vars)
    PROVE  StoreInv'
<1>1. /\ harm \in 0 .. MaxFaults /\ rounds \in 0 .. MaxRounds
      /\ MaxFaults \in Nat /\ MaxRounds \in Nat
      /\ objects \in [Contents -> {None, "whole", "corrupt"}]
      /\ temporary \in [Contents -> Addresses \cup {None}]
      /\ served \in [Addresses -> SUBSET Contents]
      /\ published \in [Addresses -> Contents]
  BY DownloadBounds DEF StoreInv, StoreShape
<1>2. Observed!Fault => harm' \in 0 .. MaxFaults
  BY <1>1 DEF Observed!Fault
<1>3. \A c \in Contents : temporary[c] # None => c \in served[temporary[c]]
  BY DEF StoreInv, StoreServed
<1>4. \A w \in Tasks : acquisitions[w].at # "idle" =>
        /\ acquisitions[w].address \in Addresses
        /\ acquisitions[w].pin \in Contents \cup {None}
        /\ acquisitions[w].got \in Contents \cup {None}
  BY AcquisitionShape DEF Carries, Acquisition
<1>5. ASSUME NEW w \in Tasks, Observed!Begin(w) PROVE StoreInv'
  <2>1. PICK u \in Addresses :
            acquisitions' = [acquisitions EXCEPT
                ![w] = [Observed!Idle EXCEPT !.at = "pin", !.address = u]]
    BY <1>5 DEF Observed!Begin
  <2> DEFINE next == [Observed!Idle EXCEPT !.at = "pin", !.address = u]
  <2>2. next \in Acquisition /\ Carries(next, served') /\ next.pin = None
    BY DEF Acquisition, AcquisitionSteps, Carries, Observed!Idle
  <2> HIDE DEF next
  <2>3. /\ UNCHANGED <<objects, records, temporary, published, served, given, unpinned, harm>>
        /\ rounds' \in 0 .. MaxRounds
    BY <1>1, <1>5 DEF Observed!Begin, Observed!store
  <2>4. acquisitions' = [acquisitions EXCEPT ![w] = next]
    BY <2>1 DEF next
  <2> QED
    BY <1>1, <1>3, <2>2, <2>3, <2>4, AcquisitionMoves
<1>6. ASSUME NEW w \in Tasks, Observed!FindPin(w) PROVE StoreInv'
  <2>1. acquisitions[w].at = "pin"
        /\ UNCHANGED <<objects, records, temporary, published, served, given, unpinned,
                       harm, rounds>>
    BY <1>6 DEF Observed!FindPin, Observed!store, Observed!bounds
  <2>2. PICK known \in Contents \cup {None} :
            /\ known # None => records[known] = acquisitions[w].address
            /\ acquisitions' = [acquisitions EXCEPT ![w].pin = known,
                                    ![w].at = IF known = None THEN "download" ELSE "hit"]
    BY <1>6 DEF Observed!FindPin
  <2> DEFINE step == IF known = None THEN "download" ELSE "hit"
             next == [acquisitions[w] EXCEPT !.pin = known, !.at = step]
  <2>3. acquisitions[w] \in Acquisition /\ Carries(acquisitions[w], served)
    BY <2>1, AcquisitionShape
  <2>4. /\ next \in Acquisition /\ next.at = step /\ next.pin = known
        /\ next.address = acquisitions[w].address
    BY <2>3 DEF Acquisition, AcquisitionSteps
  <2>5. acquisitions' = [acquisitions EXCEPT ![w] = next]
    BY <2>2, <2>3 DEF StoreInv, StoreShape, Acquisition
  <2>6. known # None => known \in served[acquisitions[w].address]
    <3>1. acquisitions[w].address \in Addresses
      BY <2>3 DEF Carries
    <3> QED
      BY <2>2, <3>1, DownloadNone DEF StoreInv, StoreServed
  <2>8. next.pin # None => records[next.pin] = next.address
    BY <2>2, <2>4
  <2> HIDE DEF next
  <2>7. Carries(next, served')
    BY <2>1, <2>3, <2>4, <2>6 DEF Carries
  <2> QED
    BY <1>1, <1>3, <2>1, <2>4, <2>5, <2>7, <2>8, AcquisitionMoves
<1>7. ASSUME NEW w \in Tasks, Observed!Hit(w) PROVE StoreInv'
  <2>1. acquisitions[w].at = "hit"
        /\ UNCHANGED <<objects, records, temporary, published, served, unpinned, rounds>>
    BY <1>7 DEF Observed!Hit, Observed!store
  <2>2. CASE Observed!Returns(w, acquisitions[w].pin) /\ UNCHANGED harm
    <3>1. /\ Carries(acquisitions[w], served)
          /\ acquisitions[w].pin \in Contents
          /\ acquisitions[w].address \notin unpinned =>
                records[acquisitions[w].pin] = acquisitions[w].address
      BY <1>4, <2>1, AcquisitionShape DEF Carries
    <3> QED
      BY <1>1, <2>1, <2>2, <3>1, AcquisitionReturns DEF Carries
  <2>3. CASE Observed!Goes(w, "download") /\ UNCHANGED <<given, harm>>
    BY <1>1, <1>3, <2>1, <2>3, AcquisitionGoes DEF AcquisitionSteps
  <2>4. CASE Observed!Fault /\ Observed!Fails(w)
    BY <1>1, <1>2, <1>3, <2>1, <2>4, AcquisitionFails
  <2> QED
    BY <1>7, <2>2, <2>3, <2>4 DEF Observed!Hit
<1>8. ASSUME NEW w \in Tasks, Observed!Download(w) PROVE StoreInv'
  <2> DEFINE location == acquisitions[w].address
             c == published[location]
  <2>1. acquisitions[w].at = "download"
        /\ UNCHANGED <<objects, records, temporary, published, unpinned, rounds>>
    BY <1>8 DEF Observed!Download, Observed!store
  <2>2. location \in Addresses /\ c \in Contents
    BY <1>1, <1>4, <2>1
  <2>3. CASE /\ acquisitions[w].pin \in {None, c}
             /\ acquisitions' = [acquisitions EXCEPT ![w].got = c, ![w].at = "promote"]
             /\ served' = [served EXCEPT ![location] = @ \cup {c}]
             /\ UNCHANGED <<given, harm>>
    <3> DEFINE next == [acquisitions[w] EXCEPT !.got = c, !.at = "promote"]
    <3>1. acquisitions[w] \in Acquisition /\ Carries(acquisitions[w], served)
      BY <2>1, AcquisitionShape
    <3>2. /\ next \in Acquisition /\ next.at = "promote" /\ next.got = c
          /\ next.address = location /\ next.pin = acquisitions[w].pin
      BY <2>2, <3>1 DEF Acquisition, AcquisitionSteps
    <3>3. acquisitions' = [acquisitions EXCEPT ![w] = next]
      BY <2>3, <3>1 DEF StoreInv, StoreShape, Acquisition
    <3>4. \A u \in Addresses : served'[u] = IF u = location THEN served[u] \cup {c} ELSE served[u]
      BY <1>1, <2>3
    <3>5. served' \in [Addresses -> SUBSET Contents]
      BY <1>1, <2>2, <2>3
    <3> HIDE DEF next
    <3>6. Carries(next, served')
      BY <2>2, <2>3, <3>1, <3>2, <3>4 DEF Carries
    <3>7. next.pin # None /\ next.address \notin unpinned => records[next.pin] = next.address
      BY <2>1, <3>2, AcquisitionShape
    <3>8. \A d \in Contents : temporary'[d] # None => d \in served'[temporary'[d]]
      BY <1>1, <1>3, <2>1, <3>4
    <3>9. \A u \in Addresses : served[u] \subseteq served'[u]
      BY <3>4
    <3> HIDE DEF c, location
    <3> QED
      BY <1>1, <2>1, <2>3, <3>2, <3>3, <3>5, <3>6, <3>7, <3>8, <3>9, AcquisitionMoves
  <2>4. CASE Observed!Fails(w) /\ UNCHANGED <<served, harm>>
    BY <1>1, <1>3, <2>1, <2>4, AcquisitionFails
  <2>5. CASE Observed!Fault /\ Observed!Fails(w) /\ UNCHANGED served
    BY <1>1, <1>2, <1>3, <2>1, <2>5, AcquisitionFails
  <2> QED
    BY <1>8, <2>3, <2>4, <2>5 DEF Observed!Download
<1>9. ASSUME NEW w \in Tasks, Observed!Promote(w) PROVE StoreInv'
  <2>1. acquisitions[w].at = "promote"
        /\ UNCHANGED <<records, temporary, published, served, unpinned, rounds>>
    BY <1>9 DEF Observed!Promote
  <2>2. Carries(acquisitions[w], served) /\ acquisitions[w].got \in Contents
    BY <1>1, <1>4, <2>1, AcquisitionShape DEF Carries
  <2>3. objects' \in [Contents -> {None, "whole", "corrupt"}] /\ harm' \in 0 .. MaxFaults
    BY <1>1, <1>2, <1>9, <2>2 DEF Observed!Promote
  <2>4. CASE acquisitions[w].pin = None /\ Observed!Goes(w, "record") /\ UNCHANGED given
    BY <1>1, <1>3, <2>1, <2>2, <2>3, <2>4, AcquisitionGoes DEF AcquisitionSteps, Carries
  <2>5. CASE acquisitions[w].pin # None /\ Observed!Returns(w, acquisitions[w].got)
    <3>1. acquisitions[w].address \notin unpinned =>
            records[acquisitions[w].got] = acquisitions[w].address
      BY <2>1, <2>2, <2>5, AcquisitionShape DEF Carries
    <3> QED
      BY <1>1, <2>1, <2>2, <2>3, <2>5, <3>1, AcquisitionReturns DEF Carries
  <2>6. CASE Observed!Fails(w)
    BY <1>1, <1>3, <2>1, <2>3, <2>6, AcquisitionFails
  <2> QED
    BY <1>9, <2>4, <2>5, <2>6 DEF Observed!Promote
<1>10. ASSUME NEW w \in Tasks, Observed!WriteRecord(w) PROVE StoreInv'
  <2>1. acquisitions[w].at = "record"
        /\ UNCHANGED <<objects, records, published, served, rounds>>
    BY <1>10 DEF Observed!WriteRecord
  <2>2. /\ Carries(acquisitions[w], served) /\ acquisitions[w].got \in Contents
        /\ acquisitions[w].address \in Addresses
    BY <1>1, <1>4, <2>1, AcquisitionShape DEF Carries
  <2>3. CASE /\ temporary' = [temporary EXCEPT ![acquisitions[w].got] = acquisitions[w].address]
             /\ Observed!Goes(w, "rename") /\ UNCHANGED <<given, harm, unpinned>>
    <3>1. /\ temporary' \in [Contents -> Addresses \cup {None}]
          /\ \A c \in Contents : temporary'[c] # None => c \in served[temporary'[c]]
      BY <1>1, <1>3, <2>1, <2>2, <2>3 DEF Carries
    <3> QED
      BY <1>1, <2>1, <2>2, <2>3, <3>1, AcquisitionGoes DEF AcquisitionSteps, Carries
  <2>4. CASE /\ Observed!Fault /\ temporary' = [temporary EXCEPT ![acquisitions[w].got] = None]
             /\ Observed!Fails(w) /\ unpinned' = unpinned \cup {acquisitions[w].address}
    <3>1. /\ temporary' \in [Contents -> Addresses \cup {None}]
          /\ \A c \in Contents : temporary'[c] # None => c \in served[temporary'[c]]
      BY <1>1, <1>3, <2>4
    <3> QED
      BY <1>1, <1>2, <2>1, <2>4, <3>1, AcquisitionFails
  <2> QED
    BY <1>10, <2>3, <2>4 DEF Observed!WriteRecord
<1>11. ASSUME NEW w \in Tasks, Observed!RenameRecord(w) PROVE StoreInv'
  <2> DEFINE c == acquisitions[w].got
             location == acquisitions[w].address
  <2>1. acquisitions[w].at = "rename" /\ UNCHANGED <<objects, published, served, rounds>>
    BY <1>11 DEF Observed!RenameRecord
  <2>2. /\ Carries(acquisitions[w], served) /\ c \in Contents
        /\ location \in Addresses /\ c \in served[location]
    BY <1>1, <1>4, <2>1, AcquisitionShape DEF Carries
  <2>3. CASE /\ temporary[c] # None
             /\ records' = [records EXCEPT ![c] = temporary[c]]
             /\ temporary' = [temporary EXCEPT ![c] = None]
             /\ unpinned' = unpinned \cup ({records[c], location} \ {None, temporary[c]})
                    \cup {x \in {temporary[c]} : \E d \in Contents \ {c} : records[d] = x}
             /\ Observed!Returns(w, c) /\ UNCHANGED harm
    BY <2>1, <2>2, <2>3, RecordRenamed
  <2>4. CASE /\ Observed!Fails(w)
             /\ unpinned' = unpinned \cup ({location} \ {records[c]})
             /\ UNCHANGED <<records, temporary, harm>>
    BY <1>1, <1>3, <2>1, <2>4, AcquisitionFails
  <2>5. CASE /\ Observed!Fault /\ temporary' = [temporary EXCEPT ![c] = None]
             /\ Observed!Fails(w) /\ unpinned' = unpinned \cup {location}
             /\ UNCHANGED records
    <3>1. /\ temporary' \in [Contents -> Addresses \cup {None}]
          /\ \A d \in Contents : temporary'[d] # None => d \in served[temporary'[d]]
      BY <1>1, <1>3, <2>5
    <3> QED
      BY <1>1, <1>2, <2>1, <2>5, <3>1, AcquisitionFails
  <2> QED
    BY <1>11, <2>3, <2>4, <2>5 DEF Observed!RenameRecord
<1>12. CASE Observed!Publish
  BY <1>1, <1>12
  DEF Observed!Publish, Observed!store, StoreInv, StoreShape, StoreServed, RecordRules,
      Carries
<1>13. CASE Observed!Damage
  <2>1. Observed!Fault /\ UNCHANGED <<published, temporary, acquisitions, rounds, served, given>>
    BY <1>13 DEF Observed!Damage
  <2>2. PICK c \in Contents :
          \/ /\ \E left \in {None, "corrupt"} : objects' = [objects EXCEPT ![c] = left]
             /\ UNCHANGED <<records, unpinned>>
          \/ /\ records[c] # None /\ records' = [records EXCEPT ![c] = None]
             /\ unpinned' = unpinned \cup {records[c]} /\ UNCHANGED objects
    BY <1>13 DEF Observed!Damage
  <2>3. CASE /\ \E left \in {None, "corrupt"} : objects' = [objects EXCEPT ![c] = left]
             /\ UNCHANGED <<records, unpinned>>
    <3>1. objects' \in [Contents -> {None, "whole", "corrupt"}]
      BY <1>1, <2>3
    <3> QED
      BY <1>1, <1>2, <2>1, <2>3, <3>1
      DEF StoreInv, StoreShape, StoreServed, RecordRules, Carries
  <2>4. CASE /\ records[c] # None /\ records' = [records EXCEPT ![c] = None]
             /\ unpinned' = unpinned \cup {records[c]} /\ UNCHANGED objects
    BY <1>1, <1>2, <2>1, <2>4, RecordGoes
  <2> QED
    BY <2>2, <2>3, <2>4
<1>14. CASE Observed!Crash
  <2>1. /\ acquisitions' = [w \in Tasks |-> Observed!Idle] /\ harm' \in 0 .. MaxFaults
        /\ UNCHANGED <<objects, records, temporary, published, served, given, unpinned, rounds>>
    BY <1>2, <1>14 DEF Observed!Crash, Observed!store
  <2>2. StoreShape'
    BY <1>1, <2>1, IdleShape DEF StoreInv, StoreShape
  <2>3. (StoreServed /\ RecordRules)'
    BY <2>1, IdleShape DEF StoreInv, StoreServed, RecordRules
  <2> QED
    BY <2>2, <2>3 DEF StoreInv
<1>15. CASE UNCHANGED Observed!vars
  BY <1>15
  DEF Observed!vars, Observed!store, Observed!bounds, StoreInv, StoreShape, StoreServed,
      RecordRules, Carries
<1> QED
  BY <1>5, <1>6, <1>7, <1>8, <1>9, <1>10, <1>11, <1>12, <1>13, <1>14, <1>15 DEF Observed!Next

\* What the invariant is for: an address that kept its record returned one thing.
LEMMA StoreSound ==
    ASSUME StoreInv
    PROVE  Observed!TypeOK /\ Observed!OfItsAddress /\ Observed!ChangeIsNoticed
<1>1. Observed!TypeOK /\ Observed!OfItsAddress
  BY DEF StoreInv, StoreShape, StoreServed, Observed!TypeOK, Observed!OfItsAddress
<1>2. ASSUME NEW u \in Addresses \ unpinned, NEW c \in given[u], NEW d \in given[u]
      PROVE  c = d
  BY <1>2 DEF StoreInv, StoreShape, RecordRules
<1> QED
  BY <1>1, <1>2 DEF Observed!ChangeIsNoticed

-----------------------------------------------------------------------------
(* config.json *)

\* A document that the launcher writes.
SanePreferences == [Preferences -> Values]
Written ==
    [schema : {7}, selected : Ids \cup {None}, preferences : SanePreferences, updates : {FALSE}]

Busy == {"write", "finish", "rename"}
LockedKinds == Preferences \cup {"delete", "restore"}
OtherKinds == {"select", "automatic", "start"}
TaskShape ==
    [at : {"idle", "read"} \cup Busy, kind : LockedKinds \cup OtherKinds \cup {None},
     value : Values \cup Ids \cup {None}, draft : Written \cup {None}]

\* Every draft is one that the launcher could read again.
ConfigShape ==
    /\ Config!TypeOK
    /\ task \in [Tasks -> TaskShape]
    /\ found \in Configurations
    /\ file \in Configurations \cup Written \cup {Torn}
    /\ sibling \in Written \cup {Torn, None}
    /\ opened \in [Tasks -> {"sibling", "file", None}]
    /\ \A t \in Tasks :
        /\ task[t].at # "idle" =>
            /\ task[t].kind \in Preferences => task[t].value \in Values
            /\ task[t].kind \notin Preferences => task[t].kind # None /\ task[t].value \in Ids
        /\ task[t].at = "read" => task[t].kind # "restore"
        /\ task[t].at \in Busy => task[t].draft \in Written

\* Who changes preferences, or deletes, has the lock.
LockHeld ==
    \A t \in Tasks : task[t].at # "idle" /\ task[t].kind \in LockedKinds => owner = t

\* Over a file that is refused nothing is begun.
RefusedStays ==
    found # None /\ ~Config!Admitted(found) =>
        /\ file = found /\ sibling = None
        /\ \A t \in Tasks : task[t].at \notin Busy /\ opened[t] = None

\* While nothing was saved beside another command, one task at a time writes: it has
\* the sibling to itself, and its draft is what was acknowledged with its own
\* change.
OneWriter ==
    ~unlocked =>
        /\ \A t, u \in Tasks : task[t].at \in Busy /\ task[u].at \in Busy => t = u
        /\ \A t \in Tasks :
            /\ opened[t] # "file"
            /\ opened[t] = "sibling" <=> task[t].at \in {"finish", "rename"}
            /\ task[t].at = "finish" => sibling = Torn
            /\ task[t].at = "rename" => sibling = task[t].draft
            /\ task[t].at \in Busy =>
                /\ task[t].draft.preferences =
                    IF task[t].kind \in Preferences
                    THEN [wanted EXCEPT ![task[t].kind] = task[t].value] ELSE wanted
                /\ task[t].kind \in Preferences \cup {"start"} =>
                    task[t].draft.selected = chosen

\* What was acknowledged is what the file says.
Acknowledged ==
    ~unlocked =>
        /\ file # Torn
        /\ wanted \in SanePreferences /\ chosen \in Ids \cup {None}
        /\ Config!Load = None => wanted = Config!Unset /\ chosen = None
        /\ Config!Load \notin {None, Bad} =>
            Config!Load.preferences = wanted /\ Config!Load.selected = chosen

ConfigInv == ConfigShape /\ LockHeld /\ RefusedStays /\ OneWriter /\ Acknowledged

\* A document as it may be found, with what the launcher does not accept.
Loose ==
    [schema : 0 .. 8, selected : Ids \cup {None, Bad}, updates : BOOLEAN \cup {Bad},
     preferences : [Preferences -> Values \cup {Bad, "unknown"}]]

LEMMA UsualShape ==
    ASSUME NEW n \in 0 .. 8
    PROVE  /\ UsualConfig(n) \in Loose
           /\ UsualConfig(n).preferences \in [Preferences -> Values]
<1> DEFINE preferences == [p \in Preferences |-> theme]
<1>1. /\ preferences \in [Preferences -> Values]
      /\ preferences \in [Preferences -> Values \cup {Bad, "unknown"}]
  BY ConfigNone
<1> HIDE DEF preferences
<1>2. UsualConfig(n) = [schema |-> n, selected |-> home, updates |-> FALSE,
                        preferences |-> preferences]
  BY DEF UsualConfig, preferences
<1>3. home \in Ids \cup {None, Bad} /\ FALSE \in BOOLEAN \cup {Bad}
  BY ConfigNone
<1>4. UsualConfig(n) \in Loose /\ UsualConfig(n).preferences = preferences
  BY <1>1, <1>2, <1>3 DEF Loose
<1> QED
  BY <1>1, <1>4

\* A file that is found is missing, or one such document.
LEMMA FoundShape ==
    ASSUME NEW x \in Configurations
    PROVE  \/ x = None
           \/ /\ x \in Loose
              /\ \A p \in Preferences \ {"appearance"} : x.preferences[p] # "unknown"
<1> USE ConfigNone
<1>1. ASSUME NEW n \in 0 .. 8
      PROVE  /\ UsualConfig(n) \in Loose
             /\ UsualConfig(n).preferences \in [Preferences -> Values]
             /\ \A p \in Preferences : UsualConfig(n).preferences[p] # "unknown"
  BY UsualShape
<1>2. ASSUME NEW d \in Loose, NEW p \in Preferences, NEW v \in Values \cup {Bad, "unknown"}
      PROVE  /\ [d EXCEPT !.preferences[p] = v] \in Loose
             /\ \A q \in Preferences : [d EXCEPT !.preferences[p] = v].preferences[q] =
                    IF q = p THEN v ELSE d.preferences[q]
  BY DEF Loose
<1>3. ASSUME NEW d \in Loose, NEW v \in BOOLEAN \cup {Bad}
      PROVE  /\ [d EXCEPT !.updates = v] \in Loose
             /\ [d EXCEPT !.updates = v].preferences = d.preferences
  BY DEF Loose
<1>4. ASSUME NEW d \in Loose, NEW v \in Ids \cup {None, Bad}
      PROVE  /\ [d EXCEPT !.selected = v] \in Loose
             /\ [d EXCEPT !.selected = v].preferences = d.preferences
  BY DEF Loose
<1>5. CASE x \in {UsualConfig(n) : n \in {0, 1, 2, 3, 7, 8}}
  BY <1>1, <1>5
<1>6. CASE x \in {[UsualConfig(n) EXCEPT !.preferences[p] = Bad] :
                    n \in {1, 2, 3, 7}, p \in Preferences}
  <2>1. PICK n \in {1, 2, 3, 7}, p \in Preferences :
            x = [UsualConfig(n) EXCEPT !.preferences[p] = Bad]
    BY <1>6
  <2> DEFINE d == UsualConfig(n)
  <2>2. d \in Loose /\ \A q \in Preferences : d.preferences[q] # "unknown"
    BY <1>1
  <2> HIDE DEF d
  <2>3. x = [d EXCEPT !.preferences[p] = Bad]
    BY <2>1 DEF d
  <2> QED
    BY <1>2, <2>2, <2>3
<1>7. CASE x \in {[UsualConfig(n) EXCEPT !.preferences.appearance = "unknown"] : n \in {1, 2, 7}}
  <2>1. PICK n \in {1, 2, 7} : x = [UsualConfig(n) EXCEPT !.preferences["appearance"] = "unknown"]
    BY <1>7
  <2> DEFINE d == UsualConfig(n)
  <2>2. d \in Loose /\ \A q \in Preferences : d.preferences[q] # "unknown"
    BY <1>1
  <2> HIDE DEF d
  <2>3. x = [d EXCEPT !.preferences["appearance"] = "unknown"] /\ "appearance" \in Preferences
    BY <2>1 DEF d, Preferences
  <2> QED
    BY <1>2, <2>2, <2>3
<1>8. CASE x \in {[UsualConfig(7) EXCEPT !.updates = v] : v \in {TRUE, Bad}}
  <2>1. PICK v \in {TRUE, Bad} : x = [UsualConfig(7) EXCEPT !.updates = v]
    BY <1>8
  <2> DEFINE d == UsualConfig(7)
  <2>2. d \in Loose /\ \A q \in Preferences : d.preferences[q] # "unknown"
    BY <1>1
  <2> HIDE DEF d
  <2>3. x = [d EXCEPT !.updates = v] /\ v \in BOOLEAN \cup {Bad}
    BY <2>1 DEF d
  <2> QED
    BY <1>3, <2>2, <2>3
<1>9. CASE x \in {[UsualConfig(3) EXCEPT !.selected = v] : v \in {None, Bad}}
  <2>1. PICK v \in {None, Bad} : x = [UsualConfig(3) EXCEPT !.selected = v]
    BY <1>9
  <2> DEFINE d == UsualConfig(3)
  <2>2. d \in Loose /\ \A q \in Preferences : d.preferences[q] # "unknown"
    BY <1>1
  <2> HIDE DEF d
  <2>3. x = [d EXCEPT !.selected = v] /\ v \in Ids \cup {None, Bad}
    BY <2>1 DEF d
  <2> QED
    BY <1>4, <2>2, <2>3
<1> QED
  BY <1>5, <1>6, <1>7, <1>8, <1>9 DEF Configurations

LEMMA WrittenShape ==
    ASSUME NEW x \in Written
    PROVE  /\ x \in Loose /\ x \notin {None, Bad, Torn}
           /\ x.schema = 7 /\ x.updates = FALSE /\ x.selected \in Ids \cup {None}
           /\ x.preferences \in SanePreferences
           /\ \A p \in Preferences : x.preferences[p] \in Values
<1>1. x.preferences \in [Preferences -> Values \cup {Bad, "unknown"}]
  BY DEF Written, SanePreferences
<1>2. x \in Loose
  <2>1. 7 \in 0 .. 8 /\ FALSE \in BOOLEAN \cup {Bad} /\ Ids \cup {None} \subseteq Ids \cup {None, Bad}
    OBVIOUS
  <2> QED
    BY <1>1, <2>1 DEF Written, Loose
<1> QED
  BY <1>2, ConfigNone DEF Written, SanePreferences, Loose

\* A document with another part is one of the launcher's as well.
LEMMA PartChanges ==
    ASSUME NEW T, NEW d \in [schema : {7}, selected : Ids \cup {None}, preferences : T,
                             updates : {FALSE}],
           NEW x \in Ids \cup {None}, NEW y \in SanePreferences
    PROVE  /\ [d EXCEPT !.selected = x] \in
                [schema : {7}, selected : Ids \cup {None}, preferences : T, updates : {FALSE}]
           /\ [d EXCEPT !.selected = x].selected = x
           /\ [d EXCEPT !.selected = x].preferences = d.preferences
           /\ [d EXCEPT !.preferences = y] \in Written
           /\ [d EXCEPT !.preferences = y].selected = d.selected
           /\ [d EXCEPT !.preferences = y].preferences = y
  BY DEF Written

LEMMA DefaultsWritten ==
    /\ Config!Defaults \in Written /\ Config!Defaults.selected = None
    /\ Config!Defaults.preferences = Config!Unset /\ Config!Unset \in SanePreferences
<1>1. Config!Unset \in SanePreferences
  BY ConfigNone DEF Config!Unset, Config!Preferences, SanePreferences, Preferences
<1> QED
  BY <1>1 DEF Config!Defaults, Written

LEMMA Migrated ==
    ASSUME NEW doc, doc.selected \in Ids \cup {None},
           NEW T, [p \in Preferences |->
                    IF p \in Config!Known(doc.schema) THEN doc.preferences[p] ELSE Default] \in T
    PROVE  /\ Config!Migrate(doc) \in
                [schema : {7}, selected : Ids \cup {None}, preferences : T, updates : {FALSE}]
           /\ Config!Migrate(doc).selected = doc.selected
           /\ Config!Migrate(doc).preferences = [p \in Preferences |->
                    IF p \in Config!Known(doc.schema) THEN doc.preferences[p] ELSE Default]
<1> DEFINE restored == [p \in Preferences |->
                IF p \in Config!Known(doc.schema) THEN doc.preferences[p] ELSE Default]
<1>1. Config!Migrate(doc) = [Config!Defaults EXCEPT !.selected = doc.selected, !.preferences = restored]
  BY DEF Config!Migrate, Config!Preferences, Preferences
<1>2. restored \in T
  OBVIOUS
<1> HIDE DEF restored
<1>3. /\ Config!Migrate(doc) \in
            [schema : {7}, selected : Ids \cup {None}, preferences : T, updates : {FALSE}]
      /\ Config!Migrate(doc).selected = doc.selected
      /\ Config!Migrate(doc).preferences = restored
  BY <1>1, <1>2, DefaultsWritten DEF Written
<1> QED
  BY <1>3 DEF restored

LEMMA NormalizedIsSane ==
    ASSUME NEW x \in [Preferences -> Values \cup {"unknown"}],
           \A p \in Preferences \ {"appearance"} : x[p] # "unknown"
    PROVE  /\ Config!Normalized(x) \in SanePreferences
           /\ \A p \in Preferences : x[p] # "unknown" => Config!Normalized(x)[p] = x[p]
<1> DEFINE v == IF x.appearance = "unknown" THEN Default ELSE x.appearance
<1>1. Config!Normalized(x) = [x EXCEPT !["appearance"] = v]
  BY DEF Config!Normalized
<1>2. "appearance" \in Preferences
  BY DEF Preferences
<1>3. v \in Values /\ (x["appearance"] # "unknown" => v = x["appearance"])
  BY <1>2, ConfigNone
<1> QED
  BY <1>1, <1>2, <1>3 DEF SanePreferences

\* What is admitted is read as a document that the launcher could have written,
\* and what it has written is read as it is.
LEMMA LoadIsSane ==
    ASSUME file \in Configurations \cup Written \cup {Torn}
    PROVE  Config!Load \in Written \cup {None, Bad}
<1> USE ConfigNone
<1>1. CASE file = None
  BY <1>1 DEF Config!Load
<1>2. CASE file = Torn
  BY <1>2 DEF Config!Load
<1>3. CASE file # None /\ file # Torn
  <2>1. CASE ~Config!Admitted(file)
    BY <1>3, <2>1 DEF Config!Load
  <2>2. CASE Config!Admitted(file)
    <3> DEFINE doc == Config!Migrate(file)
               restored == [p \in Preferences |->
                    IF p \in Config!Known(file.schema) THEN file.preferences[p] ELSE Default]
    <3>1. file \in Loose /\ \A p \in Preferences \ {"appearance"} : file.preferences[p] # "unknown"
      BY <1>3, FoundShape, WrittenShape
    <3>2. /\ file.selected \in Ids \cup {None, Bad}
          /\ file.preferences \in [Preferences -> Values \cup {Bad, "unknown"}]
      BY <3>1 DEF Loose
    <3>3. \A p \in Config!Known(file.schema) : p \in Preferences => file.preferences[p] # Bad
      BY <2>2 DEF Config!Admitted, Config!ValidWidgets
    <3>4. restored \in [Preferences -> Values \cup {"unknown"}]
      BY <3>2, <3>3
    <3>5. file.selected \in Ids \cup {None}
      BY <2>2, <3>2 DEF Config!Admitted
    <3>6. \A p \in Preferences \ {"appearance"} : restored[p] # "unknown"
      BY <3>1
    <3>7. /\ doc \in [schema : {7}, selected : Ids \cup {None},
                      preferences : [Preferences -> Values \cup {"unknown"}], updates : {FALSE}]
          /\ doc.preferences = restored
      BY <3>4, <3>5, Migrated
    <3>8. Config!Normalized(doc.preferences) \in SanePreferences
      BY <3>4, <3>6, <3>7, NormalizedIsSane
    <3>9. Config!Load = [doc EXCEPT !.preferences = Config!Normalized(doc.preferences)]
      BY <1>3, <2>2 DEF Config!Load
    <3> HIDE DEF doc, restored
    <3> QED
      BY <1>3, <3>7, <3>8, <3>9, PartChanges
  <2> QED
    BY <2>1, <2>2
<1> QED
  BY <1>1, <1>2, <1>3

LEMMA WrittenIsRead ==
    file \in Written =>
        /\ Config!Load \in Written
        /\ Config!Load.preferences = file.preferences /\ Config!Load.selected = file.selected
<1> SUFFICES ASSUME file \in Written
             PROVE  /\ Config!Load \in Written
                    /\ Config!Load.preferences = file.preferences
                    /\ Config!Load.selected = file.selected
  OBVIOUS
<1> DEFINE doc == Config!Migrate(file)
           restored == [p \in Preferences |->
                IF p \in Config!Known(file.schema) THEN file.preferences[p] ELSE Default]
<1>1. /\ file \notin {None, Bad, Torn} /\ file.schema = 7 /\ file.updates = FALSE
      /\ file.selected \in Ids \cup {None} /\ file.preferences \in SanePreferences
      /\ \A p \in Preferences : file.preferences[p] \in Values
  BY WrittenShape
<1>2. Config!Known(file.schema) = Preferences
  BY <1>1 DEF Config!Known, Config!Preferences, Preferences
<1>3. Config!Admitted(file)
  <2>1. \A p \in Preferences : file.preferences[p] # Bad
    BY <1>1, ConfigNone
  <2>2. file.selected # Bad
    BY <1>1, ConfigNone
  <2>3. file.updates # Bad
    BY <1>1, ConfigNone
  <2>4. 7 \in 1 .. 7 /\ "widgets" \in Preferences
    BY DEF Preferences
  <2> QED
    BY <1>1, <1>2, <2>1, <2>2, <2>3, <2>4 DEF Config!Admitted, Config!ValidWidgets
<1>4. restored = file.preferences
  BY <1>1, <1>2 DEF SanePreferences
<1>5. /\ doc \in [schema : {7}, selected : Ids \cup {None}, preferences : SanePreferences,
                  updates : {FALSE}]
      /\ doc.preferences = restored /\ doc.selected = file.selected
  BY <1>1, <1>4, Migrated
<1>6. file.preferences \in [Preferences -> Values \cup {"unknown"}]
  BY <1>1 DEF SanePreferences
<1>7. \A p \in Preferences : file.preferences[p] # "unknown"
  BY <1>1, ConfigNone
<1>8. Config!Normalized(file.preferences) = file.preferences
  BY <1>6, <1>7, NormalizedIsSane DEF SanePreferences
<1>9. Config!Load = [doc EXCEPT !.preferences = Config!Normalized(doc.preferences)]
  BY <1>1, <1>3 DEF Config!Load
<1> HIDE DEF doc, restored
<1> QED
  <2>1. Config!Load = [doc EXCEPT !.preferences = file.preferences]
    BY <1>4, <1>5, <1>8, <1>9
  <2> QED
    BY <1>1, <1>5, <2>1, PartChanges

\* What commands make of what they load is a document of their own, with what
\* was acknowledged and their own change.
LEMMA DraftIsSane ==
    ASSUME NEW loaded \in Written \cup {None},
           NEW asks \in Preferences \cup {"delete"} \cup OtherKinds,
           NEW value, asks \in Preferences => value \in Values,
           asks \notin Preferences => value \in Ids
    PROVE  LET doc == Config!OrDefaults(loaded)
               made == Config!Changed(asks, value, loaded)
           IN  /\ doc \in Written
               /\ made \in Written \cup {None}
               /\ made # None =>
                    /\ made.preferences = IF asks \in Preferences
                                           THEN [doc.preferences EXCEPT ![asks] = value]
                                           ELSE doc.preferences
                    /\ asks \in Preferences \cup {"start"} => made.selected = doc.selected
<1> DEFINE doc == Config!OrDefaults(loaded)
           made == Config!Changed(asks, value, loaded)
<1>1. doc \in Written
  BY DefaultsWritten DEF Config!OrDefaults
<1>2. doc.preferences \in SanePreferences /\ doc.selected \in Ids \cup {None}
  BY <1>1, WrittenShape
<1>3. Config!Preferences = Preferences
  BY DEF Config!Preferences, Preferences
<1>4. \A x \in Ids \cup {None} :
        /\ [doc EXCEPT !.selected = x] \in Written
        /\ [doc EXCEPT !.selected = x].preferences = doc.preferences
  <2> TAKE x \in Ids \cup {None}
  <2> HIDE DEF doc
  <2>1. doc \in [schema : {7}, selected : Ids \cup {None}, preferences : SanePreferences,
                 updates : {FALSE}]
    BY <1>1 DEF Written
  <2> QED
    BY <1>2, <2>1, PartChanges DEF Written
<1> HIDE DEF doc
<1>5. CASE asks \in Preferences
  <2>1. made = [doc EXCEPT !.preferences[asks] = value]
    <3>1. asks \notin {"select", "automatic", "delete", "start"}
      BY <1>5 DEF Preferences
    <3> QED
      BY <1>3, <1>5, <3>1 DEF Config!Changed, doc
  <2>2. /\ [doc EXCEPT !.preferences[asks] = value] \in Written
        /\ [doc EXCEPT !.preferences[asks] = value].preferences =
                [doc.preferences EXCEPT ![asks] = value]
        /\ [doc EXCEPT !.preferences[asks] = value].selected = doc.selected
    BY <1>1, <1>2, <1>5 DEF Written, SanePreferences
  <2> HIDE DEF made
  <2> QED
    BY <1>1, <1>5, <2>1, <2>2 DEF doc, made
<1>6. CASE asks \in {"select", "automatic", "delete"}
  <2>1. asks \notin Preferences \cup {"start"} /\ None \in Ids \cup {None} /\ value \in Ids \cup {None}
    BY <1>6 DEF Preferences
  <2>2. asks = "select" => made = [doc EXCEPT !.selected = value]
    BY <1>3, <2>1 DEF Config!Changed, doc
  <2>3. asks = "automatic" => made = [doc EXCEPT !.selected = value] \/ made = None
    BY <1>3, <2>1 DEF Config!Changed, doc
  <2>4. asks = "delete" => made = [doc EXCEPT !.selected = None] \/ made = None
    BY <1>3, <2>1 DEF Config!Changed, doc
  <2>5. made = None \/ \E x \in Ids \cup {None} : made = [doc EXCEPT !.selected = x]
    BY <1>6, <2>1, <2>2, <2>3, <2>4
  <2> HIDE DEF made
  <2> QED
    BY <1>1, <1>4, <2>1, <2>5 DEF doc, made
<1>7. CASE asks = "start"
  <2>1. asks \notin Preferences
    BY <1>7 DEF Preferences
  <2>2. made = IF loaded = None THEN Config!Defaults ELSE None
    BY <1>3, <1>7, <2>1 DEF Config!Changed
  <2>3. loaded = None => doc = Config!Defaults
    BY DEF Config!OrDefaults, doc
  <2> HIDE DEF made
  <2> QED
    BY <1>1, <2>1, <2>2, <2>3 DEF doc, made
<1> QED
  BY <1>5, <1>6, <1>7 DEF OtherKinds

\* The launcher starts for the first time, or finds what an earlier one left.
LEMMA ConfigStart == Config!Init => ConfigInv
<1> SUFFICES ASSUME Config!Init PROVE ConfigInv
  OBVIOUS
<1> USE ConfigNone, ConfigBounds
<1>1. /\ file \in Configurations /\ found = file /\ sibling = None /\ owner = None
      /\ task = [t \in Tasks |-> Config!Idle] /\ began = 0 /\ faults = 0
      /\ opened = [t \in Tasks |-> None] /\ unlocked = FALSE
      /\ wanted = IF Config!Load \in {None, Bad} THEN Config!Unset ELSE Config!Load.preferences
      /\ chosen = IF Config!Load \in {None, Bad} THEN None ELSE Config!Load.selected
  BY DEF Config!Init
<1>2. Config!Idle \in TaskShape /\ Config!Idle.at = "idle"
  BY DEF Config!Idle, TaskShape, Busy
<1>3. ConfigShape
  BY <1>1, <1>2 DEF ConfigShape, Config!TypeOK, Busy
<1>4. LockHeld /\ RefusedStays /\ OneWriter
  BY <1>1, <1>2 DEF LockHeld, RefusedStays, OneWriter, Busy
<1>5. Config!Load \in Written \cup {None, Bad}
  BY <1>1, LoadIsSane
<1>6. Config!Unset \in SanePreferences
  BY DEF Config!Unset, Config!Preferences, SanePreferences, Preferences
<1>7. file # Torn
  BY <1>1, FoundShape DEF Loose
<1>8. Acknowledged
  BY <1>1, <1>5, <1>6, <1>7 DEF Acknowledged, Written
<1> QED
  BY <1>3, <1>4, <1>8 DEF ConfigInv

\* While config.json stays, so does what is made of it.
LEMMA SameLoad == file' = file => Config!Load' = Config!Load
  BY DEF Config!Load

\* A command that ends gives its lock back, and no other one.
LEMMA TaskEnds ==
    ASSUME ConfigShape, LockHeld, NEW t \in Tasks, Config!Ends(t)
    PROVE  /\ task' \in [Tasks -> TaskShape] /\ owner' \in Tasks \cup {None}
           /\ \A u \in Tasks : task'[u] = IF u = t THEN Config!Idle ELSE task[u]
           /\ Config!Idle.at = "idle" /\ LockHeld'
<1>1. Config!Idle \in TaskShape /\ Config!Idle.at = "idle"
  BY DEF Config!Idle, TaskShape, Busy
<1>2. \A u \in Tasks : task'[u] = IF u = t THEN Config!Idle ELSE task[u]
  BY DEF ConfigShape, Config!Ends
<1>3. LockHeld'
  BY <1>1, <1>2 DEF LockHeld, Config!Ends
<1> QED
  BY <1>1, <1>2, <1>3 DEF ConfigShape, Config!Ends, Config!TypeOK

LEMMA EndedShape ==
    ASSUME ConfigShape, LockHeld, NEW t \in Tasks, Config!Ends(t),
           file' \in Configurations \cup Written \cup {Torn},
           sibling' \in Written \cup {Torn, None},
           opened' \in [Tasks -> {"sibling", "file", None}],
           faults' \in 0 .. MaxFaults, UNCHANGED <<began, found>>
    PROVE  ConfigShape'
<1>1. /\ task' \in [Tasks -> TaskShape] /\ owner' \in Tasks \cup {None}
      /\ \A u \in Tasks : task'[u] = IF u = t THEN Config!Idle ELSE task[u]
      /\ Config!Idle.at = "idle"
  BY TaskEnds
<1>2. Config!TypeOK'
  BY <1>1 DEF ConfigShape, Config!TypeOK
<1>3. ASSUME NEW u \in Tasks
      PROVE  /\ task'[u].at # "idle" =>
                /\ task'[u].kind \in Preferences => task'[u].value \in Values
                /\ task'[u].kind \notin Preferences =>
                        task'[u].kind # None /\ task'[u].value \in Ids
             /\ task'[u].at = "read" => task'[u].kind # "restore"
             /\ task'[u].at \in Busy => task'[u].draft \in Written
  <2>1. CASE u = t
    BY <1>1, <2>1 DEF Busy
  <2>2. CASE u # t
    BY <1>1, <2>2 DEF ConfigShape
  <2> QED
    BY <2>1, <2>2
<1> QED
  BY <1>1, <1>2, <1>3 DEF ConfigShape

\* What a task that ends leaves to the others.
LEMMA EndedWriter ==
    ASSUME ConfigShape, LockHeld, OneWriter, NEW t \in Tasks, Config!Ends(t),
           UNCHANGED <<wanted, chosen, unlocked>> \/ task[t].at \in Busy,
           unlocked' = unlocked,
           \A u \in Tasks : opened'[u] = IF task[t].at \in Busy THEN None ELSE opened[u],
           task[t].at \in Busy \/ sibling' = sibling, ~unlocked
    PROVE  OneWriter'
<1>1. /\ \A u \in Tasks : task'[u] = IF u = t THEN Config!Idle ELSE task[u]
      /\ Config!Idle.at = "idle"
  BY TaskEnds
<1>2. CASE task[t].at \in Busy
  <2>1. \A u \in Tasks : task'[u].at \notin Busy /\ opened'[u] = None
    BY <1>1, <1>2 DEF OneWriter, Busy
  <2> QED
    BY <2>1, ConfigNone DEF OneWriter, Busy
<1>3. CASE task[t].at \notin Busy
  BY <1>1, <1>3 DEF OneWriter, Busy
<1> QED
  BY <1>2, <1>3

\* Every step of the commands, and a crash, preserve the invariant.
LEMMA ConfigStep ==
    ASSUME ConfigInv, [Config!Next]_(Config!vars)
    PROVE  ConfigInv'
<1> USE ConfigNone, ConfigBounds
<1>0. /\ task \in [Tasks -> TaskShape] /\ opened \in [Tasks -> {"sibling", "file", None}]
      /\ file \in Configurations \cup Written \cup {Torn}
      /\ sibling \in Written \cup {Torn, None}
      /\ found \in Configurations
      /\ began \in 0 .. MaxTasks /\ faults \in 0 .. MaxFaults /\ owner \in Tasks \cup {None}
      /\ Config!Idle \in TaskShape /\ Config!Idle.at = "idle"
  BY DEF ConfigInv, ConfigShape, Config!TypeOK, Config!Idle, TaskShape, Busy
<1>a. Config!Fault => faults' \in 0 .. MaxFaults
  BY <1>0 DEF Config!Fault
<1>1. ASSUME NEW t \in Tasks, Config!Begin(t) PROVE ConfigInv'
  <2>1. /\ task[t].at = "idle" /\ began' \in 0 .. MaxTasks
        /\ UNCHANGED <<file, sibling, faults, opened, wanted, chosen, unlocked, found>>
    <3>1. task[t].at = "idle" /\ began < MaxTasks /\ began' = began + 1
      BY <1>1 DEF Config!Begin
    <3>2. UNCHANGED <<file, sibling, faults, opened>> /\ UNCHANGED Config!past
      BY <1>1 DEF Config!Begin
    <3> QED
      BY <1>0, <3>1, <3>2 DEF Config!past
  <2>2. PICK asks \in Preferences \cup {"delete"} \cup OtherKinds, value \in Values \cup Ids :
          /\ task' = [task EXCEPT ![t] =
                [Config!Idle EXCEPT !.at = "read", !.kind = asks, !.value = value]]
          /\ asks \in Preferences => value \in Values
          /\ asks \notin Preferences => value \in Ids
          /\ IF asks \in LockedKinds THEN owner = None /\ owner' = t ELSE owner' = owner
    BY <1>1 DEF Config!Begin, Config!Preferences, Preferences, LockedKinds, OtherKinds
  <2> DEFINE next == [Config!Idle EXCEPT !.at = "read", !.kind = asks, !.value = value]
  <2>3. next \in TaskShape /\ next.at = "read" /\ next.kind = asks /\ next.value = value
    BY DEF Config!Idle, TaskShape, Busy, LockedKinds, OtherKinds
  <2>4. task' = [task EXCEPT ![t] = next]
    BY <2>2
  <2> HIDE DEF next
  <2>5. \A u \in Tasks : task'[u] = IF u = t THEN next ELSE task[u]
    BY <1>0, <2>4
  <2>6. asks # "restore" /\ asks # None
    BY DEF Preferences, OtherKinds
  <2>7. ConfigShape'
    BY <1>0, <2>1, <2>2, <2>3, <2>4, <2>5, <2>6 DEF ConfigInv, ConfigShape, Config!TypeOK, Busy
  <2>8. LockHeld'
    BY <1>0, <2>2, <2>3, <2>5 DEF ConfigInv, LockHeld
  <2>9. RefusedStays'
    BY <2>1, <2>3, <2>5 DEF ConfigInv, RefusedStays, Busy
  <2>10. OneWriter'
    BY <2>1, <2>3, <2>5 DEF ConfigInv, OneWriter, Busy
  <2>11. Acknowledged'
    BY <2>1, SameLoad DEF ConfigInv, Acknowledged, Config!Unset
  <2> QED
    BY <2>7, <2>8, <2>9, <2>10, <2>11 DEF ConfigInv
<1>2. ASSUME NEW t \in Tasks, Config!Read(t) PROVE ConfigInv'
  <2>1. /\ task[t].at = "read"
        /\ UNCHANGED <<file, sibling, began, opened, wanted, chosen, found>>
    BY <1>2 DEF Config!Read
  <2>2. Config!Load' = Config!Load /\ Config!Load \in Written \cup {None, Bad}
    BY <1>0, <2>1, SameLoad, LoadIsSane
  <2>3. CASE Config!Ends(t) /\ UNCHANGED <<faults, unlocked>>
    <3>1. ConfigShape'
      BY <1>0, <2>1, <2>3, EndedShape DEF ConfigInv
    <3>2. LockHeld' /\ RefusedStays' /\ OneWriter'
      <4>1. LockHeld' /\ \A u \in Tasks : task'[u] = IF u = t THEN Config!Idle ELSE task[u]
        BY <2>3, TaskEnds DEF ConfigInv
      <4>2. RefusedStays'
        BY <1>0, <2>1, <4>1 DEF ConfigInv, RefusedStays, Busy
      <4>a. unlocked' = unlocked /\ task[t].at \notin Busy
        BY <2>1, <2>3 DEF Busy
      <4>3. CASE unlocked
        BY <4>1, <4>2, <4>3, <4>a DEF OneWriter
      <4>4. CASE ~unlocked
        BY <2>1, <2>3, <4>1, <4>2, <4>4, <4>a, EndedWriter DEF ConfigInv
      <4> QED
        BY <4>1, <4>2, <4>3, <4>4
    <3>3. Acknowledged'
      BY <2>1, <2>2, <2>3 DEF ConfigInv, Acknowledged, Config!Unset
    <3> QED
      BY <3>1, <3>2, <3>3 DEF ConfigInv
  <2>4. CASE \/ /\ Config!Draft(t) \notin {None, Bad}
                /\ task' = [task EXCEPT ![t].draft = Config!Draft(t), ![t].at = "write"]
                /\ unlocked' = (unlocked \/ Config!Meets(t))
                /\ UNCHANGED <<owner, faults>>
             \/ /\ Config!Draft(t) = None /\ Config!Restores(t, Config!OrDefaults(Config!Load))
                /\ unlocked' = (unlocked \/ Config!Meets(t))
    <3>1. Config!Load # Bad
      BY <2>4 DEF Config!Draft
    <3> DEFINE loaded == Config!Load
               asks == task[t].kind
               value == task[t].value
               doc == Config!OrDefaults(loaded)
    <3>2. /\ asks \in Preferences \cup {"delete"} \cup OtherKinds
          /\ asks \in Preferences => value \in Values
          /\ asks \notin Preferences => value \in Ids
      BY <1>0, <2>1 DEF ConfigInv, ConfigShape, TaskShape, LockedKinds
    <3>3. Config!Draft(t) = Config!Changed(asks, value, loaded)
      BY <3>1 DEF Config!Draft
    <3>4. /\ doc \in Written
          /\ Config!Draft(t) \in Written \cup {None}
          /\ Config!Draft(t) # None =>
                /\ Config!Draft(t).preferences =
                    IF asks \in Preferences
                    THEN [doc.preferences EXCEPT ![asks] = value] ELSE doc.preferences
                /\ asks \in Preferences \cup {"start"} => Config!Draft(t).selected = doc.selected
      BY <2>2, <3>1, <3>2, <3>3, DraftIsSane
    <3>5. ~unlocked => doc.preferences = wanted /\ doc.selected = chosen
      BY <2>2, <3>1 DEF ConfigInv, Acknowledged, Config!OrDefaults, Config!Defaults
    <3>6. PICK became \in LockedKinds \cup OtherKinds, made \in Written :
            /\ task' = [task EXCEPT ![t].kind = became, ![t].draft = made, ![t].at = "write"]
            /\ \/ became = asks /\ made = Config!Draft(t)
               \/ asks = "delete" /\ became = "restore" /\ made = doc
            /\ owner' = owner /\ faults' \in 0 .. MaxFaults
            /\ unlocked' = (unlocked \/ Config!Meets(t))
      <4>1. CASE /\ Config!Draft(t) \notin {None, Bad}
                 /\ task' = [task EXCEPT ![t].draft = Config!Draft(t), ![t].at = "write"]
                 /\ unlocked' = (unlocked \/ Config!Meets(t))
                 /\ UNCHANGED <<owner, faults>>
        <5>1. task' = [task EXCEPT ![t].kind = asks, ![t].draft = Config!Draft(t), ![t].at = "write"]
          BY <1>0, <4>1 DEF TaskShape
        <5> QED
          BY <1>0, <3>2, <3>4, <4>1, <5>1 DEF LockedKinds
      <4>2. CASE /\ Config!Draft(t) = None /\ Config!Restores(t, Config!OrDefaults(Config!Load))
                 /\ unlocked' = (unlocked \/ Config!Meets(t))
        <5>1. /\ asks = "delete" /\ Config!Fault /\ owner' = owner
              /\ task' = [task EXCEPT ![t].kind = "restore", ![t].at = "write", ![t].draft = doc]
          BY <4>2 DEF Config!Restores
        <5>2. task' = [task EXCEPT ![t].kind = "restore", ![t].draft = doc, ![t].at = "write"]
          BY <1>0, <5>1 DEF TaskShape
        <5> QED
          BY <1>0, <1>a, <3>4, <4>2, <5>1, <5>2 DEF LockedKinds
      <4> QED
        BY <2>4, <4>1, <4>2
    <3> DEFINE next == [task[t] EXCEPT !.kind = became, !.draft = made, !.at = "write"]
    <3>7. /\ next \in TaskShape /\ next.at = "write" /\ next.kind = became
          /\ next.draft = made /\ next.value = value
      BY <1>0, <3>6 DEF TaskShape, Busy
    <3>8. task' = [task EXCEPT ![t] = next]
      BY <1>0, <3>6 DEF TaskShape
    <3> HIDE DEF next
    <3>9. \A u \in Tasks : task'[u] = IF u = t THEN next ELSE task[u]
      BY <1>0, <3>8
    <3>10. ConfigShape'
      <4>1. became \in Preferences <=> asks \in Preferences
        BY <3>6 DEF Preferences
      <4>2. became # None
        BY <3>6 DEF LockedKinds, OtherKinds, Preferences
      <4> QED
        BY <1>0, <2>1, <3>2, <3>6, <3>7, <3>8, <3>9, <4>1, <4>2
        DEF ConfigInv, ConfigShape, Config!TypeOK, Busy
    <3>11. LockHeld'
      BY <2>1, <3>6, <3>7, <3>9 DEF ConfigInv, LockHeld, LockedKinds
    <3>12. RefusedStays'
      <4>1. ~(found # None /\ ~Config!Admitted(found))
        BY <3>1 DEF ConfigInv, RefusedStays, Config!Load
      <4> QED
        BY <2>1, <4>1 DEF RefusedStays
    <3>13. OneWriter'
      <4> SUFFICES ASSUME ~unlocked' PROVE OneWriter'
        BY DEF OneWriter
      <4>1. ~unlocked /\ ~Config!Meets(t)
        BY <3>6
      <4>2. \A u \in Tasks \ {t} : task[u].at \notin Busy
        <5> SUFFICES ASSUME NEW u \in Tasks \ {t}, task[u].at \in Busy PROVE FALSE
          OBVIOUS
        <5>1. task[t].kind \in LockedKinds /\ task[u].kind \in LockedKinds
          BY <4>1 DEF Config!Meets, Config!Locked, Config!Preferences, Busy, LockedKinds, Preferences
        <5>2. owner = t /\ owner = u
          BY <2>1, <5>1 DEF ConfigInv, LockHeld, Busy
        <5> QED
          BY <5>2
      <4>3. /\ made.preferences = IF became \in Preferences
                                   THEN [wanted EXCEPT ![became] = value] ELSE wanted
            /\ became \in Preferences \cup {"start"} => made.selected = chosen
        <5>1. doc.preferences = wanted /\ doc.selected = chosen
          BY <3>5, <4>1
        <5>2. CASE became = asks /\ made = Config!Draft(t)
          <6>1. made # None
            BY <3>6, WrittenShape
          <6> QED
            BY <3>4, <5>1, <5>2, <6>1
        <5>3. CASE asks = "delete" /\ became = "restore" /\ made = doc
          <6>1. became \notin Preferences \cup {"start"}
            BY <5>3 DEF Preferences
          <6> QED
            BY <5>1, <5>3, <6>1
        <5> QED
          BY <3>6, <5>2, <5>3
      <4>4. \A u \in Tasks : /\ opened[u] # "file"
                             /\ opened[u] = "sibling" <=> task[u].at \in {"finish", "rename"}
        BY <4>1 DEF ConfigInv, OneWriter
      <4> QED
        BY <2>1, <3>7, <3>9, <4>2, <4>3, <4>4 DEF OneWriter, Busy
    <3>14. Acknowledged'
      BY <2>1, <2>2, <3>6 DEF ConfigInv, Acknowledged, Config!Unset
    <3> QED
      BY <3>10, <3>11, <3>12, <3>13, <3>14 DEF ConfigInv
  <2> QED
    BY <1>2, <2>3, <2>4 DEF Config!Read
<1>3. ASSUME NEW t \in Tasks, Config!Open(t) PROVE ConfigInv'
  <2>1. /\ task[t].at = "write"
        /\ UNCHANGED <<file, began, wanted, chosen, unlocked, found>>
    BY <1>3 DEF Config!Open, Config!past
  <2>2. ~(found # None /\ ~Config!Admitted(found))
    BY <2>1 DEF ConfigInv, RefusedStays, Busy
  <2>3. RefusedStays' /\ Acknowledged'
    BY <2>1, <2>2, SameLoad DEF ConfigInv, RefusedStays, Acknowledged, Config!Unset
  <2>4. CASE /\ task' = [task EXCEPT ![t].at = "finish"]
             /\ sibling' = Torn /\ opened' = [opened EXCEPT ![t] = "sibling"]
             /\ UNCHANGED <<owner, faults>>
    <3> DEFINE next == [task[t] EXCEPT !.at = "finish"]
    <3>1. /\ next \in TaskShape /\ next.at = "finish" /\ next.kind = task[t].kind
          /\ next.value = task[t].value /\ next.draft = task[t].draft
      BY <1>0 DEF TaskShape, Busy
    <3>2. task' = [task EXCEPT ![t] = next]
      BY <2>4
    <3> HIDE DEF next
    <3>3. \A u \in Tasks : /\ task'[u] = IF u = t THEN next ELSE task[u]
                           /\ opened'[u] = IF u = t THEN "sibling" ELSE opened[u]
      BY <1>0, <2>4, <3>2
    <3>4. ConfigShape'
      BY <1>0, <2>1, <2>4, <3>1, <3>2, <3>3 DEF ConfigInv, ConfigShape, Config!TypeOK, Busy
    <3>5. LockHeld'
      BY <2>1, <2>4, <3>1, <3>3 DEF ConfigInv, LockHeld
    <3>6. OneWriter'
      BY <2>1, <2>4, <3>1, <3>3 DEF ConfigInv, OneWriter, Busy
    <3> QED
      BY <2>3, <3>4, <3>5, <3>6 DEF ConfigInv
  <2>5. CASE /\ Config!Fault /\ Config!Ends(t) /\ sibling' = None
             /\ opened' = [u \in Tasks |-> IF opened[u] = "sibling" THEN None ELSE opened[u]]
    <3>1. ConfigShape'
      BY <1>0, <1>a, <2>1, <2>5, EndedShape DEF ConfigInv
    <3>2. LockHeld' /\ OneWriter'
      <4>1. CASE unlocked
        BY <2>1, <2>5, <4>1, TaskEnds DEF ConfigInv, OneWriter
      <4>2. CASE ~unlocked
        <5>1. \A u \in Tasks : opened'[u] = None
          BY <1>0, <2>5, <4>2 DEF ConfigInv, OneWriter
        <5> QED
          BY <2>1, <2>5, <4>2, <5>1, TaskEnds, EndedWriter DEF ConfigInv, Busy
      <4> QED
        BY <4>1, <4>2
    <3> QED
      BY <2>3, <3>1, <3>2 DEF ConfigInv
  <2> QED
    BY <1>3, <2>4, <2>5 DEF Config!Open
<1>4. ASSUME NEW t \in Tasks, Config!Write(t) PROVE ConfigInv'
  <2>1. /\ task[t].at = "finish" /\ task' = [task EXCEPT ![t].at = "rename"]
        /\ UNCHANGED <<owner, began, faults, opened, wanted, chosen, unlocked, found>>
    BY <1>4 DEF Config!Write, Config!past, Config!bounds
  <2>2. ~(found # None /\ ~Config!Admitted(found)) /\ task[t].draft \in Written
    BY <1>0, <2>1 DEF ConfigInv, ConfigShape, RefusedStays, Busy
  <2> DEFINE next == [task[t] EXCEPT !.at = "rename"]
  <2>3. /\ next \in TaskShape /\ next.at = "rename" /\ next.kind = task[t].kind
        /\ next.value = task[t].value /\ next.draft = task[t].draft
    BY <1>0 DEF TaskShape, Busy
  <2>4. task' = [task EXCEPT ![t] = next]
    BY <2>1
  <2> HIDE DEF next
  <2>5. \A u \in Tasks : task'[u] = IF u = t THEN next ELSE task[u]
    BY <1>0, <2>4
  <2>6. /\ file' \in {file, task[t].draft, Torn} /\ sibling' \in {sibling, task[t].draft, Torn}
        /\ opened[t] = "sibling" => file' = file /\ (sibling = Torn => sibling' = task[t].draft)
    BY <1>4 DEF Config!Write
  <2>7. ConfigShape'
    BY <1>0, <2>1, <2>2, <2>3, <2>4, <2>5, <2>6 DEF ConfigInv, ConfigShape, Config!TypeOK, Busy
  <2>8. LockHeld' /\ RefusedStays'
    BY <2>1, <2>2, <2>3, <2>5 DEF ConfigInv, LockHeld, RefusedStays
  <2>9. OneWriter' /\ Acknowledged'
    <3> SUFFICES ASSUME ~unlocked PROVE OneWriter' /\ Acknowledged'
      BY <2>1 DEF OneWriter, Acknowledged
    <3>1. opened[t] = "sibling" /\ sibling = Torn
      BY <2>1 DEF ConfigInv, OneWriter
    <3>2. file' = file /\ sibling' = task[t].draft
      BY <2>6, <3>1
    <3>3. OneWriter'
      BY <2>1, <2>3, <2>5, <3>2 DEF ConfigInv, OneWriter, Busy
    <3>4. Acknowledged'
      BY <2>1, <3>2, SameLoad DEF ConfigInv, Acknowledged, Config!Unset
    <3> QED
      BY <3>3, <3>4
  <2> QED
    BY <2>7, <2>8, <2>9 DEF ConfigInv
<1>5. ASSUME NEW t \in Tasks, Config!Rename(t) PROVE ConfigInv'
  <2>1. task[t].at = "rename" /\ UNCHANGED <<began, unlocked, found>>
    BY <1>5 DEF Config!Rename
  <2>2. /\ ~(found # None /\ ~Config!Admitted(found)) /\ task[t].draft \in Written
        /\ task[t].kind \in Preferences => task[t].value \in Values
        /\ task[t].kind \notin Preferences => task[t].value \in Ids
    BY <1>0, <2>1 DEF ConfigInv, ConfigShape, RefusedStays, Busy
  <2>3. RefusedStays'
    BY <2>1, <2>2 DEF RefusedStays
  <2>4. CASE /\ sibling # None /\ file' = sibling /\ sibling' = None
             /\ opened' = [u \in Tasks |->
                    IF u = t \/ opened[u] = "file" THEN None
                    ELSE IF opened[u] = "sibling" THEN "file" ELSE opened[u]]
             /\ Config!Saved(t)
    <3>1. /\ wanted' = IF task[t].kind \in Preferences
                       THEN [wanted EXCEPT ![task[t].kind] = task[t].value] ELSE wanted
          /\ chosen' = IF task[t].kind \in Preferences \cup {"start"}
                       THEN chosen ELSE task[t].draft.selected
      BY <2>4 DEF Config!Saved, Config!Acknowledged, Config!Preferences, Preferences
    <3>a. opened' \in [Tasks -> {"sibling", "file", None}]
      BY <1>0, <2>4
    <3>2. Acknowledged'
      <4> SUFFICES ASSUME ~unlocked PROVE Acknowledged'
        BY <2>1 DEF Acknowledged
      <4>1. /\ sibling = task[t].draft
            /\ task[t].draft.preferences = wanted'
            /\ task[t].draft.selected = chosen'
        BY <2>1, <3>1 DEF ConfigInv, OneWriter, Busy
      <4>2. file' \in Written
        BY <2>2, <2>4, <4>1
      <4>3. /\ Config!Load' \in Written
            /\ Config!Load'.preferences = file'.preferences
            /\ Config!Load'.selected = file'.selected
        <5>1. (file \in Written =>
                /\ Config!Load \in Written
                /\ Config!Load.preferences = file.preferences
                /\ Config!Load.selected = file.selected)'
          BY WrittenIsRead, PTL
        <5> QED
          BY <4>2, <5>1
      <4>4. file' # Torn /\ Config!Load' \notin {None, Bad}
        BY <4>2, <4>3, WrittenShape
      <4>5. wanted' \in SanePreferences /\ chosen' \in Ids \cup {None}
        BY <2>2, <4>1 DEF Written
      <4> QED
        BY <2>4, <4>1, <4>3, <4>4, <4>5 DEF Acknowledged
    <3>3. CASE Config!Ends(t) /\ UNCHANGED faults
      <4>1. ConfigShape'
        BY <1>0, <2>1, <2>4, <3>3, <3>a, EndedShape DEF ConfigInv
      <4>2. LockHeld' /\ OneWriter'
        <5>1. CASE unlocked
          BY <2>1, <3>3, <5>1, TaskEnds DEF ConfigInv, OneWriter
        <5>2. CASE ~unlocked
          <6>1. \A u \in Tasks : opened'[u] = None
            <7>1. \A u \in Tasks : opened[u] # "file" /\ (opened[u] = "sibling" => u = t)
              BY <2>1, <5>2 DEF ConfigInv, OneWriter, Busy
            <7> QED
              BY <1>0, <2>4, <7>1
          <6> QED
            BY <2>1, <3>3, <5>2, <6>1, TaskEnds, EndedWriter DEF ConfigInv, Busy
        <5> QED
          BY <5>1, <5>2
      <4> QED
        BY <2>3, <3>2, <4>1, <4>2 DEF ConfigInv
    <3>4. CASE Config!Restores(t, [task[t].draft EXCEPT !.selected = task[t].value])
      <4> DEFINE restored == [task[t].draft EXCEPT !.selected = task[t].value]
                 next == [task[t] EXCEPT !.kind = "restore", !.at = "write", !.draft = restored]
      <4>1. /\ task[t].kind = "delete" /\ faults' \in 0 .. MaxFaults /\ owner' = owner
            /\ task' = [task EXCEPT ![t].kind = "restore", ![t].at = "write", ![t].draft = restored]
        BY <1>a, <3>4 DEF Config!Restores
      <4>2. task[t].value \in Ids /\ "delete" \notin Preferences /\ "restore" \notin Preferences
        BY <2>2, <4>1 DEF Preferences
      <4>3. restored \in Written /\ restored.preferences = task[t].draft.preferences
        BY <2>2, <4>2 DEF Written
      <4> HIDE DEF restored
      <4>4. /\ next \in TaskShape /\ next.at = "write" /\ next.kind = "restore"
            /\ next.value = task[t].value /\ next.draft = restored
        BY <1>0, <4>3 DEF TaskShape, Busy, LockedKinds
      <4>5. task' = [task EXCEPT ![t] = next]
        BY <1>0, <4>1 DEF TaskShape
      <4> HIDE DEF next
      <4>6. \A u \in Tasks : task'[u] = IF u = t THEN next ELSE task[u]
        BY <1>0, <4>5
      <4>7. ConfigShape'
        BY <1>0, <2>1, <2>4, <4>1, <4>2, <4>3, <4>4, <4>5, <4>6
        DEF ConfigInv, ConfigShape, Config!TypeOK, Busy
      <4>8. LockHeld'
        BY <2>1, <4>1, <4>4, <4>6 DEF ConfigInv, LockHeld, LockedKinds
      <4>9. OneWriter'
        <5> SUFFICES ASSUME ~unlocked PROVE OneWriter'
          BY <2>1 DEF OneWriter
        <5>1. restored.preferences = wanted'
          BY <2>1, <3>1, <4>1, <4>2, <4>3 DEF ConfigInv, OneWriter, Busy
        <5> QED
          <6>1. \A u \in Tasks \ {t} : task[u].at \notin Busy
            BY <2>1 DEF ConfigInv, OneWriter, Busy
          <6>2. \A u \in Tasks : opened'[u] = None
            <7>1. \A u \in Tasks : opened[u] # "file" /\ (opened[u] = "sibling" => u = t)
              BY <2>1, <6>1 DEF ConfigInv, OneWriter, Busy
            <7> QED
              BY <1>0, <2>4, <7>1
          <6>3. next.kind \notin Preferences \cup {"start"}
            BY <4>4 DEF Preferences
          <6>4. None \notin {"sibling", "file"}
            OBVIOUS
          <6> HIDE DEF next
          <6> QED
            BY <4>4, <4>6, <5>1, <6>1, <6>2, <6>3, <6>4 DEF OneWriter, Busy
      <4> QED
        BY <2>3, <3>2, <4>7, <4>8, <4>9 DEF ConfigInv
    <3> QED
      BY <2>4, <3>3, <3>4 DEF Config!Saved
  <2>5. CASE /\ Config!Ends(t) /\ sibling' = None
             /\ opened' = [u \in Tasks |-> IF u = t \/ opened[u] = "sibling" THEN None ELSE opened[u]]
             /\ UNCHANGED <<file, wanted, chosen>> /\ faults' \in 0 .. MaxFaults
    <3>1. ConfigShape'
      BY <1>0, <2>1, <2>5, EndedShape DEF ConfigInv
    <3>2. LockHeld' /\ OneWriter'
      <4>1. CASE unlocked
        BY <2>1, <2>5, <4>1, TaskEnds DEF ConfigInv, OneWriter
      <4>2. CASE ~unlocked
        <5>1. \A u \in Tasks : opened'[u] = None
          <6>1. \A u \in Tasks : opened[u] # "file" /\ (opened[u] = "sibling" => u = t)
            BY <2>1, <4>2 DEF ConfigInv, OneWriter, Busy
          <6> QED
            BY <1>0, <2>5, <6>1
        <5> QED
          BY <2>1, <2>5, <4>2, <5>1, TaskEnds, EndedWriter DEF ConfigInv, Busy
      <4> QED
        BY <4>1, <4>2
    <3>3. Acknowledged'
      BY <2>1, <2>5, SameLoad DEF ConfigInv, Acknowledged, Config!Unset
    <3> QED
      BY <2>3, <3>1, <3>2, <3>3 DEF ConfigInv
  <2>6. (IF sibling = None THEN UNCHANGED faults ELSE Config!Fault) => faults' \in 0 .. MaxFaults
    BY <1>0, <1>a
  <2> QED
    BY <1>5, <2>4, <2>5, <2>6 DEF Config!Rename
<1>6. CASE Config!Crash
  <2>1. /\ task' = [t \in Tasks |-> Config!Idle] /\ owner' = None
        /\ opened' = [t \in Tasks |-> None] /\ faults' \in 0 .. MaxFaults
        /\ UNCHANGED <<file, sibling, began, wanted, chosen, unlocked, found>>
    BY <1>a, <1>6 DEF Config!Crash, Config!past
  <2>2. ConfigShape'
    BY <1>0, <2>1 DEF ConfigInv, ConfigShape, Config!TypeOK, Busy
  <2>3. (LockHeld /\ RefusedStays /\ OneWriter)'
    BY <1>0, <2>1 DEF ConfigInv, LockHeld, RefusedStays, OneWriter, Busy
  <2>4. Acknowledged'
    BY <2>1, SameLoad DEF ConfigInv, Acknowledged, Config!Unset
  <2> QED
    BY <2>2, <2>3, <2>4 DEF ConfigInv
<1>7. CASE UNCHANGED Config!vars
  <2>1. UNCHANGED configVars
    BY <1>7 DEF Config!vars, Config!bounds, Config!past, configVars
  <2>2. (ConfigShape /\ LockHeld /\ RefusedStays /\ OneWriter)'
    BY <2>1 DEF configVars, ConfigInv, ConfigShape, LockHeld, RefusedStays, OneWriter, Config!TypeOK
  <2>3. Acknowledged'
    BY <2>1, SameLoad DEF configVars, ConfigInv, Acknowledged, Config!Unset
  <2> QED
    BY <2>2, <2>3 DEF ConfigInv
<1> QED
  BY <1>1, <1>2, <1>3, <1>4, <1>5, <1>6, <1>7 DEF Config!Next

\* What the run checks of config.json follows from the invariant.
LEMMA ConfigSound ==
    ASSUME ConfigInv
    PROVE  Config!TypeOK /\ Config!MalformedStays /\ Config!NothingIsLost
<1>1. Config!TypeOK
  BY DEF ConfigInv, ConfigShape
<1>2. Config!MalformedStays
  BY DEF ConfigInv, RefusedStays, Config!MalformedStays
<1>3. Config!NothingIsLost
  BY DEF ConfigInv, Acknowledged, Config!NothingIsLost
<1> QED
  BY <1>1, <1>2, <1>3

-----------------------------------------------------------------------------
(* instances.json *)

Pins ==
    [game : {g1, g2}, kind : {"vanilla", "fabric", "neoForge"}, version : {v1, v2, None, Bad},
     client : {None, 1, 2}]
RowShape ==
    [id : {row1, row2, Bad}, name : {n1, n2, Bad}, state : {"ready", "installing"},
     pin : Pins, desired : WishShape \cup {None}, pack : {Absent, None, PackOne, Bad}]
DocumentShape == [schema : Nat, records : Seq(RowShape)]

\* The rows that the launcher works with: those of the present schema.
Row5 == {r \in RowShape : r.desired # None /\ r.pack # Absent}

\* No document of schema 3 wishes for Fabric without Aurora: it did not know it.
Found3(doc) ==
    doc.schema = 3 =>
        \A k \in DOMAIN doc.records :
            doc.records[k].desired # None /\ doc.records[k].desired.kind = "fabric"
                => doc.records[k].desired.aurora = TRUE

\* The identities stay; a row nobody touched is the one that was found.
RowKept(row, past) ==
    /\ row.id = past.id
    /\ past.id \notin changed =>
        /\ row.name = past.name /\ row.state = past.state /\ row.pin = past.pin
        /\ past.desired # None => row.desired = past.desired
        /\ past.desired = None =>
            row.desired.version = row.pin.version
                /\ Settings!MatchesInstalled(row.desired, row.pin)

JobFollows ==
    job # Settings!NoJob =>
        /\ \E k \in DOMAIN Settings!Load : Settings!Load[k].id = job.id
        /\ job.id # None /\ job.wish \in WishShape /\ job.wish # None
        /\ Settings!ValidConfiguration(job.wish)

RegistryInv ==
    /\ registry \in DocumentShape /\ original \in DocumentShape
    /\ commands \in 0 .. MaxCommands
    /\ IF Settings!FromJson(original) = Bad
       THEN registry = original /\ job = Settings!NoJob
       ELSE /\ Settings!Load # Bad /\ JobFollows
            /\ Len(Settings!Load) = Len(original.records)
            /\ \A k \in 1 .. Len(original.records) :
                RowKept(Settings!Load[k], original.records[k])
            /\ \A k \in 1 .. Len(original.records) :
                Settings!Load[k].id \in astray =>
                    Settings!Load[k].pin.kind = "fabric" /\ Settings!Load[k].pin.client = None

\* What may be found, and wished for, is of this shape.
LEMMA WishVaries ==
    ASSUME NEW w \in WishShape
    PROVE  /\ \A x \in {g1, g2, Bad} : [w EXCEPT !["game"] = x] \in WishShape
           /\ \A x \in BOOLEAN : [w EXCEPT !["aurora"] = x] \in WishShape
           /\ \A x \in WishKinds :
                [w EXCEPT !["kind"] = x] \in WishShape
           /\ \A x \in {v1, v2, None, Bad} : [w EXCEPT !["version"] = x] \in WishShape
           /\ \A x \in Nat : [w EXCEPT !["memory"] = x] \in WishShape
           /\ \A x \in {"", "good", "bad"} : [w EXCEPT !["arguments"] = x] \in WishShape
           /\ \A x \in Windows :
                [w EXCEPT !["window"] = x] \in WishShape
<1>1. \A x \in {g1, g2, Bad} : [w EXCEPT !["game"] = x] \in WishShape
  BY DEF WishShape
<1>2. \A x \in BOOLEAN : [w EXCEPT !["aurora"] = x] \in WishShape
  BY DEF WishShape
<1>3. \A x \in WishKinds : [w EXCEPT !["kind"] = x] \in WishShape
  BY DEF WishShape
<1>4. \A x \in {v1, v2, None, Bad} : [w EXCEPT !["version"] = x] \in WishShape
  BY DEF WishShape
<1>5. \A x \in Nat : [w EXCEPT !["memory"] = x] \in WishShape
  BY DEF WishShape
<1>6. \A x \in {"", "good", "bad"} : [w EXCEPT !["arguments"] = x] \in WishShape
  BY DEF WishShape
<1>7. \A x \in Windows :
        [w EXCEPT !["window"] = x] \in WishShape
  BY DEF WishShape
<1> QED
  BY <1>1, <1>2, <1>3, <1>4, <1>5, <1>6, <1>7

LEMMA UsualWishes == Registries!Usual \in WishShape /\ Registries!Plain \in WishShape
  BY DEF Registries!Usual, Registries!Plain, Registries!Wish, WishShape, WishKinds, Windows

LEMMA WishesShape == Registries!MCWishes \subseteq WishShape
<1>1. ASSUME NEW w \in {Registries!Usual, Registries!Plain}
      PROVE  /\ Registries!Variants(w, "game", {g2, Bad}) \subseteq WishShape
             /\ Registries!Variants(w, "game", {g2}) \subseteq WishShape
             /\ Registries!Variants(w, "aurora", {FALSE}) \subseteq WishShape
  BY UsualWishes, WishVaries DEF Registries!Variants
<1>2. ASSUME NEW w \in {Registries!Usual, Registries!Plain}
      PROVE  /\ Registries!Variants(w, "kind", {"neoForge"}) \subseteq WishShape
             /\ Registries!Variants(w, "kind", {"vanilla", "neoForge", "quilt"}) \subseteq WishShape
  BY UsualWishes, WishVaries DEF Registries!Variants, WishKinds
<1>3. ASSUME NEW w \in {Registries!Usual, Registries!Plain}
      PROVE  /\ Registries!Variants(w, "version", {None, v2, Bad}) \subseteq WishShape
             /\ Registries!Variants(w, "version", {v2}) \subseteq WishShape
  BY UsualWishes, WishVaries DEF Registries!Variants
<1>4. Registries!Variants(Registries!Plain, "memory", {511, 512, 32768, 32769}) \subseteq WishShape
  <2> DEFINE sizes == {511, 512, 32768, 32769}
  <2>1. sizes \subseteq Nat
    OBVIOUS
  <2> HIDE DEF sizes
  <2>2. Registries!Variants(Registries!Plain, "memory", sizes) \subseteq WishShape
    BY <2>1, UsualWishes, WishVaries DEF Registries!Variants
  <2> QED
    BY <2>2 DEF sizes
<1>5. Registries!Variants(Registries!Plain, "arguments", {"bad"}) \subseteq WishShape
  BY UsualWishes, WishVaries DEF Registries!Variants
<1>6. Registries!Variants(Registries!Plain, "window", {<<99, 480>>, <<100, 7680>>, <<854, 7681>>})
        \subseteq WishShape
  <2> DEFINE sizes == {<<99, 480>>, <<100, 7680>>, <<854, 7681>>}
  <2>1. sizes \subseteq Windows
    BY DEF Windows
  <2> HIDE DEF sizes
  <2>2. Registries!Variants(Registries!Plain, "window", sizes) \subseteq WishShape
    BY <2>1, UsualWishes, WishVaries DEF Registries!Variants
  <2> QED
    BY <2>2 DEF sizes
<1> DEFINE usuals ==
                {Registries!Usual, Registries!Plain}
                    \cup Registries!Variants(Registries!Usual, "game", {g2, Bad})
                    \cup Registries!Variants(Registries!Usual, "version", {None, v2, Bad})
                    \cup Registries!Variants(Registries!Usual, "aurora", {FALSE})
                    \cup Registries!Variants(Registries!Usual, "kind", {"neoForge"})
           plains ==
                Registries!Variants(Registries!Plain, "kind", {"vanilla", "neoForge", "quilt"})
                    \cup Registries!Variants(Registries!Plain, "game", {g2})
                    \cup Registries!Variants(Registries!Plain, "version", {v2})
           odd ==
                Registries!Variants(Registries!Plain, "memory", {511, 512, 32768, 32769})
                    \cup Registries!Variants(Registries!Plain, "arguments", {"bad"})
                    \cup Registries!Variants(Registries!Plain, "window",
                            {<<99, 480>>, <<100, 7680>>, <<854, 7681>>})
<1>7. usuals \subseteq WishShape
  BY <1>1, <1>2, <1>3, UsualWishes
<1>8. plains \subseteq WishShape
  BY <1>1, <1>2, <1>3
<1>9. odd \subseteq WishShape
  BY <1>4, <1>5, <1>6
<1> HIDE DEF usuals, plains, odd
<1>10. Registries!MCWishes \subseteq usuals \cup plains \cup odd
  <2> SUFFICES ASSUME NEW x \in Registries!MCWishes
               PROVE  x \in usuals \/ x \in plains \/ x \in odd
    OBVIOUS
  <2> QED
    BY DEF Registries!MCWishes, usuals, plains, odd
<1> QED
  BY <1>7, <1>8, <1>9, <1>10

LEMMA RowVaries ==
    ASSUME NEW r \in RowShape
    PROVE  Registries!Varied(r) \subseteq RowShape
<1>1. {Registries!Pin("fabric", Bad, 1), Registries!Pin("fabric", v1, None),
       Registries!Pin("neoForge", v2, None), Registries!Pin("neoForge", v2, 1),
       Registries!Pin("vanilla", v1, None)} \subseteq Pins
  BY DEF Registries!Pin, Pins
<1>2. /\ [Registries!Usual EXCEPT !.memory = 1] \in WishShape
      /\ [Registries!Plain EXCEPT !.kind = "vanilla"] \in WishShape
  BY UsualWishes, WishVaries DEF WishKinds
<1> QED
  BY <1>1, <1>2 DEF Registries!Varied, Registries!Variants, RowShape

LEMMA UsualRows ==
    /\ Registries!Second \in RowShape /\ Registries!Third \in RowShape
    /\ Registries!Fourth \subseteq RowShape /\ Registries!Fifth \subseteq RowShape
<1>1. /\ Registries!Usual \in WishShape /\ Registries!Plain \in WishShape
      /\ [Registries!Plain EXCEPT !.kind = "vanilla"] \in WishShape
      /\ [Registries!Plain EXCEPT !.kind = "neoForge"] \in WishShape
      /\ [Registries!Plain EXCEPT !.version = v1] \in WishShape
  BY UsualWishes, WishVaries DEF WishKinds
<1>2. ASSUME NEW pinned \in Pins, NEW wish \in WishShape \cup {None}, NEW pack \in {Absent, None, PackOne, Bad}
      PROVE  Registries!Record(pinned, wish, pack) \in RowShape
  BY <1>2 DEF Registries!Record, RowShape
<1>3. /\ Registries!AuroraPin \in Pins /\ Registries!Pin("fabric", v1, None) \in Pins
      /\ Registries!Pin("vanilla", None, None) \in Pins
      /\ Registries!Pin("neoForge", v2, None) \in Pins
  BY DEF Registries!AuroraPin, Registries!Pin, Pins
<1>4. Registries!Second \in RowShape /\ Registries!Third \in RowShape
  BY <1>1, <1>2, <1>3 DEF Registries!Second, Registries!Third
<1>5. Registries!Fourth \subseteq RowShape
  BY <1>1, <1>2, <1>3, <1>4 DEF Registries!Fourth
<1>6. \A r \in Registries!Fourth : [r EXCEPT !.pack = None] \in RowShape
  BY <1>5 DEF RowShape
<1>7. Registries!Fifth \subseteq RowShape
  BY <1>1, <1>2, <1>3, <1>6 DEF Registries!Fifth
<1> QED
  BY <1>4, <1>5, <1>7

LEMMA DocumentsShape ==
    ASSUME NEW doc \in Registries!MCDocuments
    PROVE  doc \in DocumentShape /\ Found3(doc)
<1>1. ASSUME NEW r \in RowShape PROVE <<r>> \in Seq(RowShape) /\ DOMAIN <<r>> = {1} /\ <<r>>[1] = r
  OBVIOUS
<1>a. ASSUME NEW rows, rows \subseteq RowShape
      PROVE  {<<r>> : r \in rows} \subseteq Seq(RowShape)
  BY <1>1, <1>a
<1>2. ASSUME NEW s, NEW l, NEW d \in Registries!Registries(s, l)
      PROVE  /\ d.schema \in s /\ d.records \in l
             /\ s \subseteq Nat => d \in [schema : Nat, records : l]
  BY <1>2 DEF Registries!Registries
<1>3. ASSUME NEW q \in Registries!Varied(Registries!Third), q.desired # None, q.desired.kind = "fabric"
      PROVE  q.desired.aurora = TRUE
  BY <1>3
  DEF Registries!Varied, Registries!Variants, Registries!Third, Registries!Record,
      Registries!Usual, Registries!Plain, Registries!Wish
<1>4. ASSUME NEW s, s \subseteq Nat, 3 \notin s, NEW l, l \subseteq Seq(RowShape),
             doc \in Registries!Registries(s, l)
      PROVE  doc \in DocumentShape /\ Found3(doc)
  <2>1. doc.schema \in s /\ doc \in [schema : Nat, records : l]
    BY <1>2, <1>4
  <2> QED
    BY <1>4, <2>1 DEF DocumentShape, Found3
<1>5. CASE doc \in Registries!Registries({2}, {<<r>> : r \in Registries!Varied(Registries!Second)})
  <2> DEFINE ones == {<<r>> : r \in Registries!Varied(Registries!Second)}
  <2>1. ones \subseteq Seq(RowShape)
    BY <1>a, UsualRows, RowVaries
  <2>2. doc \in Registries!Registries({2}, ones)
    BY <1>5
  <2>3. {2} \subseteq Nat /\ 3 \notin {2}
    OBVIOUS
  <2> HIDE DEF ones
  <2> QED
    BY <1>4, <2>1, <2>2, <2>3
<1>6. CASE doc \in Registries!Registries({3}, {<<r>> : r \in Registries!Varied(Registries!Third)})
  <2>1. /\ doc.schema \in {3} /\ doc.records \in {<<r>> : r \in Registries!Varied(Registries!Third)}
        /\ doc \in [schema : Nat, records : {<<r>> : r \in Registries!Varied(Registries!Third)}]
    BY <1>2, <1>6
  <2>2. {<<r>> : r \in Registries!Varied(Registries!Third)} \subseteq Seq(RowShape)
    BY <1>1, UsualRows, RowVaries
  <2>3. doc \in DocumentShape
    BY <2>1, <2>2 DEF DocumentShape
  <2>4. PICK r \in Registries!Varied(Registries!Third) : doc.records = <<r>>
    BY <2>1
  <2>5. r \in RowShape
    BY UsualRows, RowVaries
  <2>6. DOMAIN doc.records = {1} /\ doc.records[1] = r
    BY <1>1, <2>4, <2>5
  <2> QED
    BY <1>3, <2>3, <2>6 DEF Found3
<1>7. CASE doc \in Registries!Registries({4},
                {<<r>> : r \in UNION {Registries!Varied(q) : q \in Registries!Fourth}})
  <2> DEFINE rows == UNION {Registries!Varied(q) : q \in Registries!Fourth}
             ones == {<<r>> : r \in rows}
  <2>1. rows \subseteq RowShape
    BY UsualRows, RowVaries
  <2>2. ones \subseteq Seq(RowShape)
    BY <1>a, <2>1
  <2>3. doc \in Registries!Registries({4}, ones)
    BY <1>7
  <2>4. {4} \subseteq Nat /\ 3 \notin {4}
    OBVIOUS
  <2> HIDE DEF ones
  <2> QED
    BY <1>4, <2>2, <2>3, <2>4
<1>8. CASE doc \in Registries!Registries({5},
                {<<r>> : r \in UNION {Registries!Varied(q) : q \in Registries!Fifth}})
  <2> DEFINE rows == UNION {Registries!Varied(q) : q \in Registries!Fifth}
             ones == {<<r>> : r \in rows}
  <2>1. rows \subseteq RowShape
    BY UsualRows, RowVaries
  <2>2. ones \subseteq Seq(RowShape)
    BY <1>a, <2>1
  <2>3. doc \in Registries!Registries({5}, ones)
    BY <1>8
  <2>4. {5} \subseteq Nat /\ 3 \notin {5}
    OBVIOUS
  <2> HIDE DEF ones
  <2> QED
    BY <1>4, <2>2, <2>3, <2>4
<1>9. CASE doc \in Registries!Registries({1, 2, 6},
                {<<>>, <<Registries!Second>>, <<Registries!Second, Registries!Second>>,
                 <<Registries!Second, [Registries!Second EXCEPT !.id = row2]>>,
                 <<[Registries!Second EXCEPT !.id = Bad]>>})
  <2>1. /\ [Registries!Second EXCEPT !.id = row2] \in RowShape
        /\ [Registries!Second EXCEPT !.id = Bad] \in RowShape
    BY UsualRows DEF RowShape
  <2>2. ASSUME NEW q \in RowShape, NEW r \in RowShape PROVE <<q, r>> \in Seq(RowShape)
    OBVIOUS
  <2>3. {<<>>, <<Registries!Second>>, <<Registries!Second, Registries!Second>>,
         <<Registries!Second, [Registries!Second EXCEPT !.id = row2]>>,
         <<[Registries!Second EXCEPT !.id = Bad]>>} \subseteq Seq(RowShape)
    BY <1>1, <2>1, <2>2, UsualRows
  <2>4. {1, 2, 6} \subseteq Nat /\ 3 \notin {1, 2, 6}
    OBVIOUS
  <2> QED
    BY <1>4, <1>9, <2>3, <2>4
<1> QED
  BY <1>5, <1>6, <1>7, <1>8, <1>9 DEF Registries!MCDocuments

LEMMA WishIsNotNone == None \notin WishShape
  BY RegistryNone

LEMMA MigratedShape ==
    ASSUME NEW q \in Pins
    PROVE  /\ Settings!MigratedConfiguration(q) \in WishShape
           /\ Settings!MigratedConfiguration(q) # None
           /\ Settings!MigratedConfiguration(q).version = q.version
<1>1. q.game \in {g1, g2} /\ q.version \in {v1, v2, None, Bad}
  BY DEF Pins
<1>2. TRUE \in BOOLEAN /\ "fabric" \in WishKinds /\ 2048 \in Nat /\ None \in Windows
  BY DEF WishKinds, Windows
<1>3. /\ Settings!MigratedConfiguration(q) \in WishShape
      /\ Settings!MigratedConfiguration(q).version = q.version
  BY <1>1, <1>2 DEF Settings!MigratedConfiguration, Settings!DefaultMemory, WishShape
<1> QED
  BY <1>3, WishIsNotNone

\* What is loaded are rows of the present schema, each of its own identity.
LEMMA LoadRows ==
    ASSUME registry \in DocumentShape, Settings!Load # Bad
    PROVE  /\ Settings!Load \in Seq(Row5) /\ Len(Settings!Load) = Len(registry.records)
           /\ Settings!NoDuplicates(Settings!Load)
           /\ \A k \in 1 .. Len(registry.records) :
                /\ Settings!Load[k] = Settings!Migrate(registry.schema, registry.records[k])
                /\ Settings!Understood(registry.schema, registry.records[k])
                /\ Settings!ValidRecord(Settings!Load[k])
           /\ registry.schema \in 2 .. 5
<1> DEFINE rows == [k \in DOMAIN registry.records |->
                        Settings!Migrate(registry.schema, registry.records[k])]
<1>1. /\ \A k \in DOMAIN registry.records :
            Settings!Understood(registry.schema, registry.records[k])
      /\ registry.schema \in 2 .. 5
      /\ \A k \in DOMAIN rows : Settings!ValidRecord(rows[k])
      /\ Settings!NoDuplicates(rows)
      /\ Settings!Load = rows
  BY DEF Settings!Load, Settings!FromJson
<1>2. registry.records \in Seq(RowShape)
  BY DEF DocumentShape
<1>3. ASSUME NEW k \in DOMAIN registry.records
      PROVE  rows[k] \in Row5
  <2> DEFINE r == registry.records[k]
  <2>1. r \in RowShape /\ Settings!Understood(registry.schema, r)
    BY <1>1, <1>2, <1>3
  <2>2. /\ r.pin \in Pins /\ r.desired \in WishShape \cup {None}
        /\ r.pack \in {Absent, None, PackOne, Bad}
    BY <2>1 DEF RowShape
  <2>a. ASSUME NEW wish \in WishShape, wish # None
        PROVE  [r EXCEPT !.pack = None, !.desired = wish] \in Row5
    BY <2>1, <2>a, RegistryNone DEF RowShape, Row5
  <2>b. ASSUME r.desired # None
        PROVE  [r EXCEPT !.pack = None] \in Row5
    BY <2>1, <2>b, RegistryNone DEF RowShape, Row5
  <2>c. rows[k] = Settings!Migrate(registry.schema, r)
    BY <1>3
  <2>3. CASE registry.schema = 2
    <3>1. Settings!LegacyRecord(2, r)
      BY <2>1, <2>3 DEF Settings!Understood
    <3>2. /\ Settings!MigratedConfiguration(r.pin) \in WishShape
          /\ Settings!MigratedConfiguration(r.pin) # None
      BY <2>2, RegistryNone, MigratedShape
    <3>3. rows[k] = [r EXCEPT !.pack = None, !.desired = Settings!MigratedConfiguration(r.pin)]
      BY <2>3, <2>c DEF Settings!Migrate
    <3> HIDE DEF r, rows
    <3> QED
      BY <2>a, <3>2, <3>3
  <2>4. CASE registry.schema = 3
    <3>1. r.desired \in WishShape /\ r.desired # None
      BY <2>1, <2>2, <2>4 DEF Settings!Understood, Settings!LegacyRecord
    <3>2. /\ [r.desired EXCEPT !.aurora = TRUE] \in WishShape
          /\ [r.desired EXCEPT !.aurora = TRUE] # None
      BY <3>1, WishIsNotNone, WishVaries
    <3>3. rows[k] = [r EXCEPT !.pack = None, !.desired = [r.desired EXCEPT !.aurora = TRUE]]
      <4> HIDE DEF r, rows
      <4>1. rows[k] = [r EXCEPT !.pack = None, !.desired.aurora = TRUE]
        BY <2>4, <2>c DEF Settings!Migrate
      <4> QED
        BY <2>1, <4>1 DEF RowShape
    <3> HIDE DEF r, rows
    <3> QED
      BY <2>a, <3>2, <3>3
  <2>5. CASE registry.schema \in {4, 5}
    <3>1. r.desired # None
      BY <2>1, <2>5 DEF Settings!Understood
    <3>2. rows[k] = IF r.pack = Absent THEN [r EXCEPT !.pack = None] ELSE r
      <4> HIDE DEF r, rows
      <4> QED
        BY <2>5, <2>c DEF Settings!Migrate
    <3>3. CASE r.pack = Absent
      BY <2>b, <3>1, <3>2, <3>3
    <3>4. CASE r.pack # Absent
      BY <2>1, <3>1, <3>2, <3>4 DEF Row5
    <3> QED
      BY <3>3, <3>4
  <2> QED
    BY <1>1, <2>3, <2>4, <2>5
<1>4. /\ rows \in Seq(Row5) /\ Len(rows) = Len(registry.records)
      /\ DOMAIN registry.records = 1 .. Len(registry.records)
  <2>1. DOMAIN registry.records = 1 .. Len(registry.records) /\ Len(registry.records) \in Nat
    BY <1>2
  <2>2. DOMAIN rows = 1 .. Len(registry.records)
    BY <2>1
  <2>3. \A k \in 1 .. Len(registry.records) : rows[k] \in Row5
    BY <1>3, <2>1
  <2>4. rows = [k \in 1 .. Len(registry.records) |-> rows[k]]
    BY <2>1
  <2> HIDE DEF rows
  <2>5. rows \in [1 .. Len(registry.records) -> Row5]
    BY <2>3, <2>4
  <2> QED
    BY <2>1, <2>2, <2>5, SeqDef
<1> QED
  BY <1>1, <1>4

LEMMA LoadedRows ==
    registry \in DocumentShape /\ Settings!Load # Bad => Settings!Load \in Seq(Row5)
  BY LoadRows

\* A save that is not refused is read as what was saved.
LEMMA SavedRows ==
    ASSUME NEW rows \in Seq(Row5), Settings!Save(rows)
    PROVE  /\ Settings!Load' = rows /\ registry' \in DocumentShape
           /\ Settings!Load # Bad /\ Settings!Load' # Bad
<1> DEFINE doc == [schema |-> 5, records |-> rows]
           read == [k \in DOMAIN rows |-> Settings!Migrate(5, rows[k])]
<1>1. Settings!FromJson(doc) # Bad /\ registry' = doc /\ Settings!Load # Bad
  BY DEF Settings!Save
<1>2. Settings!FromJson(doc) = read
  BY <1>1 DEF Settings!FromJson
<1>3. read = rows
  <2>1. \A k \in DOMAIN rows : Settings!Migrate(5, rows[k]) = rows[k]
    BY DEF Settings!Migrate, Row5
  <2> QED
    BY <2>1
<1>4. Settings!Load' = Settings!FromJson(registry')
  BY DEF Settings!Load
<1>5. rows \in Seq(RowShape)
  BY DEF Row5
<1> QED
  BY <1>1, <1>2, <1>3, <1>4, <1>5 DEF DocumentShape

\* A registered identity has its row, at one place.
LEMMA RowPlace ==
    ASSUME registry \in DocumentShape, NEW id \in Settings!Registered
    PROVE  /\ Settings!Load # Bad
           /\ Settings!Index(id) \in 1 .. Len(Settings!Load)
           /\ Settings!Row(id) = Settings!Load[Settings!Index(id)]
           /\ Settings!Row(id).id = id /\ Settings!Row(id) \in Row5
           /\ \A k \in 1 .. Len(Settings!Load) :
                Settings!Load[k].id = id => k = Settings!Index(id)
<1>1. Settings!Load # Bad /\ \E k \in DOMAIN Settings!Load : Settings!Load[k].id = id
  BY DEF Settings!Registered
<1>2. Settings!Index(id) \in DOMAIN Settings!Load /\ Settings!Load[Settings!Index(id)].id = id
  BY <1>1 DEF Settings!Index
<1>3. Settings!Load \in Seq(Row5) /\ Settings!NoDuplicates(Settings!Load)
  BY <1>1, LoadRows
<1> QED
  BY <1>1, <1>2, <1>3 DEF Settings!Row, Settings!NoDuplicates

\* A row that is replaced, under the same identity, changes nothing else.
LEMMA RowSaved ==
    ASSUME registry \in DocumentShape, NEW id \in Settings!Registered, NEW row \in RowShape,
           row.id = id, row.pack # Absent, Settings!Save(Settings!WithRow(id, row))
    PROVE  /\ registry' \in DocumentShape /\ Settings!Load' # Bad
           /\ Len(Settings!Load') = Len(Settings!Load)
           /\ \A k \in 1 .. Len(Settings!Load) :
                Settings!Load'[k] =
                    IF k = Settings!Index(id) THEN row ELSE Settings!Load[k]
           /\ \A k \in 1 .. Len(Settings!Load) : Settings!Load'[k].id = Settings!Load[k].id
<1> DEFINE rows == [Settings!Load EXCEPT ![Settings!Index(id)] = row]
<1>1. /\ Settings!Load # Bad /\ Settings!Load \in Seq(Row5)
      /\ Settings!Index(id) \in 1 .. Len(Settings!Load)
      /\ Settings!Load[Settings!Index(id)].id = id
  BY RowPlace, LoadRows
<1>2. Settings!Save(rows)
  BY DEF Settings!WithRow
<1>3. rows \in Seq(RowShape) /\ Len(rows) = Len(Settings!Load)
      /\ rows[Settings!Index(id)] = row
  BY <1>1 DEF Row5
<1>4. row.desired # None
  <2> DEFINE doc == [schema |-> 5, records |-> rows]
  <2>1. Settings!FromJson(doc) # Bad
    BY <1>2 DEF Settings!Save
  <2>2. \A k \in DOMAIN rows : Settings!Understood(5, rows[k])
    BY <2>1 DEF Settings!FromJson
  <2>3. Settings!Understood(5, row)
    BY <1>1, <1>3, <2>2
  <2> QED
    BY <2>3 DEF Settings!Understood
<1>5. rows \in Seq(Row5)
  BY <1>1, <1>4 DEF Row5
<1>6. Settings!Load' = rows /\ registry' \in DocumentShape /\ Settings!Load' # Bad
  BY <1>2, <1>5, SavedRows
<1> QED
  BY <1>1, <1>3, <1>6

\* The launcher starts with what an earlier one left.
LEMMA RegistryStart == Settings!Init => RegistryInv
<1> SUFFICES ASSUME Settings!Init PROVE RegistryInv
  OBVIOUS
<1>1. /\ registry \in Registries!MCDocuments /\ original = registry /\ job = Settings!NoJob
      /\ commands = 0 /\ changed = {} /\ astray = {}
  BY DEF Settings!Init
<1>2. registry \in DocumentShape /\ Found3(registry)
  BY <1>1, DocumentsShape
<1>3. Settings!FromJson(original) = Settings!Load
  BY <1>1 DEF Settings!Load
<1>4. ASSUME Settings!Load # Bad, NEW k \in 1 .. Len(registry.records)
      PROVE  RowKept(Settings!Load[k], registry.records[k])
  <2> DEFINE r == registry.records[k]
             row == Settings!Load[k]
  <2>1. /\ row = Settings!Migrate(registry.schema, r) /\ Settings!Understood(registry.schema, r)
        /\ registry.schema \in 2 .. 5
    BY <1>2, <1>4, LoadRows
  <2>2. r \in RowShape
    BY <1>2, <1>4 DEF DocumentShape
  <2>3. \A wish : LET next == [r EXCEPT !.pack = None, !.desired = wish]
                  IN  /\ next.id = r.id /\ next.name = r.name /\ next.state = r.state
                      /\ next.pin = r.pin /\ next.desired = wish
    BY <2>2 DEF RowShape
  <2>4. LET next == [r EXCEPT !.pack = None]
        IN  /\ next.id = r.id /\ next.name = r.name /\ next.state = r.state
            /\ next.pin = r.pin /\ next.desired = r.desired
    BY <2>2 DEF RowShape
  <2>5. CASE registry.schema = 2
    <3> DEFINE wish == Settings!MigratedConfiguration(r.pin)
    <3>1. Settings!LegacyRecord(2, r)
      BY <2>1, <2>5 DEF Settings!Understood
    <3>2. r.desired = None /\ r.pin.kind = "fabric" /\ r.pin.client # None /\ r.pin \in Pins
      BY <2>2, <3>1 DEF Settings!LegacyRecord, RowShape
    <3>3. wish.version = r.pin.version /\ Settings!MatchesInstalled(wish, r.pin)
      BY <3>2 DEF Settings!MigratedConfiguration, Settings!MatchesInstalled, Settings!Policy
    <3>4. row = [r EXCEPT !.pack = None, !.desired = wish]
      BY <2>1, <2>5 DEF Settings!Migrate
    <3> HIDE DEF wish, row, r
    <3> QED
      BY <2>3, <3>2, <3>3, <3>4 DEF RowKept, row, r
  <2>6. CASE registry.schema = 3
    <3>1. Settings!LegacyRecord(3, r)
      BY <2>1, <2>6 DEF Settings!Understood
    <3>2. r.desired # None /\ r.desired \in WishShape /\ r.desired.kind = "fabric"
      BY <2>2, <3>1 DEF Settings!LegacyRecord, RowShape
    <3>3. r.desired.aurora = TRUE
      BY <1>2, <1>4, <2>6, <3>2 DEF Found3, DocumentShape
    <3>4. [r.desired EXCEPT !.aurora = TRUE] = r.desired
      BY <3>2, <3>3 DEF WishShape
    <3>5. row = [r EXCEPT !.pack = None, !.desired = [r.desired EXCEPT !.aurora = TRUE]]
      <4>1. row = [r EXCEPT !.pack = None, !.desired.aurora = TRUE]
        BY <2>1, <2>6 DEF Settings!Migrate
      <4> HIDE DEF r, row
      <4> QED
        BY <2>2, <4>1 DEF RowShape
    <3> HIDE DEF r, row
    <3> QED
      BY <2>3, <3>2, <3>4, <3>5 DEF RowKept, row, r
  <2>7. CASE registry.schema \in {4, 5}
    <3>1. r.desired # None
      BY <2>1, <2>7 DEF Settings!Understood
    <3>2. row = IF r.pack = Absent THEN [r EXCEPT !.pack = None] ELSE r
      BY <2>1, <2>7 DEF Settings!Migrate
    <3> HIDE DEF r, row
    <3> QED
      BY <2>4, <3>1, <3>2 DEF RowKept, row, r
  <2> QED
    BY <2>1, <2>5, <2>6, <2>7
<1>5. CASE Settings!Load = Bad
  BY <1>1, <1>2, <1>3, <1>5, RegistryNone DEF RegistryInv
<1>6. CASE Settings!Load # Bad
  <2>1. Len(Settings!Load) = Len(original.records)
    BY <1>1, <1>2, <1>6, LoadRows
  <2>2. \A k \in 1 .. Len(original.records) : RowKept(Settings!Load[k], original.records[k])
    BY <1>1, <1>4, <1>6
  <2> QED
    BY <1>1, <1>2, <1>3, <1>6, <2>1, <2>2, RegistryNone DEF RegistryInv, JobFollows
<1> QED
  BY <1>5, <1>6

\* A loader version that is resolved is listed, and the one that is wished for.
LEMMA ListedVersions ==
    ASSUME NEW loader \in {"fabric", "neoForge"}, NEW game \in {g1, g2}, NEW policy,
           Settings!ResolvePolicy(policy, Registries!MCListed[loader][game]) # None
    PROVE  LET listed == Settings!ResolvePolicy(policy, Registries!MCListed[loader][game])
           IN  listed \in {v1, v2} /\ policy \in {None, listed}
<1> DEFINE candidates == Registries!MCListed[loader][game]
           fits == {k \in DOMAIN candidates :
                IF policy = None THEN candidates[k].stable ELSE candidates[k].version = policy}
<1>1. /\ DOMAIN candidates \subseteq {1, 2}
      /\ \A k \in DOMAIN candidates : candidates[k].version \in {v1, v2}
  <2> DEFINE some == {<<Registries!Entry(v2, FALSE), Registries!Entry(v1, TRUE)>>,
                      <<Registries!Entry(v1, FALSE)>>, <<Registries!Entry(v2, TRUE)>>, <<>>}
  <2>1. candidates \in some
    BY DEF Registries!MCListed
  <2>2. \A x \in some : DOMAIN x \subseteq {1, 2} /\ \A k \in DOMAIN x : x[k].version \in {v1, v2}
    BY DEF Registries!Entry
  <2> QED
    BY <2>1, <2>2
<1>2. Settings!ResolvePolicy(policy, candidates) =
        IF fits = {} THEN None ELSE candidates[Settings!Min(fits)].version
  BY DEF Settings!ResolvePolicy
<1> HIDE DEF candidates
<1>3. fits # {} /\ fits \subseteq {1, 2}
  BY <1>1, <1>2 DEF candidates
<1>4. Settings!Min(fits) \in fits
  <2>1. \E x \in fits : \A y \in fits : x <= y
    BY <1>3
  <2> HIDE DEF fits
  <2> QED
    BY <2>1 DEF Settings!Min
<1> QED
  BY <1>1, <1>2, <1>3, <1>4 DEF candidates

\* The pin of an installation is one of those there are, and what its wish
\* asks for or Fabric's without Aurora.
LEMMA ResolvedPin ==
    ASSUME NEW c \in WishShape, Settings!ValidConfiguration(c), NEW q \in Pins,
           Settings!ResolveInstalled(c, q) # Bad
    PROVE  LET next == Settings!ResolveInstalled(c, q)
           IN  /\ next \in Pins
               /\ \/ Settings!MatchesInstalled(c, next)
                  \/ next.kind = "fabric" /\ next.client = None
<1> DEFINE next == Settings!ResolveInstalled(c, q)
<1>1. /\ c.game \in {g1, g2} /\ c.aurora \in BOOLEAN /\ (c.aurora => c.kind = "fabric")
      /\ Settings!Executable(c) /\ c.kind \in {"vanilla", "fabric", "neoForge"}
  BY DEF WishShape, Settings!ValidConfiguration, Settings!ResolveInstalled, Settings!Executable
<1>2. ASSUME NEW version \in {v1, v2, None, Bad}, NEW used \in {None, 1, 2},
             NEW loader \in {"vanilla", "fabric", "neoForge"}
      PROVE  LET made == [game |-> c.game, kind |-> loader, version |-> version, client |-> used]
             IN  /\ made \in Pins /\ made.game = c.game /\ made.kind = loader
                 /\ made.version = version /\ made.client = used
  BY <1>1 DEF Pins
<1>3. CASE c.kind = "vanilla"
  <2>1. next = [game |-> c.game, kind |-> "vanilla", version |-> None, client |-> None]
    BY <1>1, <1>3 DEF Settings!ResolveInstalled
  <2>2. /\ next \in Pins /\ next.game = c.game /\ next.kind = "vanilla" /\ next.client = None
    BY <1>2, <2>1
  <2>3. c.aurora = FALSE
    BY <1>1, <1>3
  <2> HIDE DEF next
  <2>4. Settings!MatchesInstalled(c, next)
    BY <1>3, <2>2, <2>3 DEF Settings!MatchesInstalled, Settings!Policy
  <2> QED
    BY <2>2, <2>4 DEF next
<1>4. CASE c.kind # "vanilla" /\ Settings!Preserves(c, q)
  <2>1. next = q
    BY <1>1, <1>4 DEF Settings!ResolveInstalled
  <2>2. /\ q.game = c.game /\ q.kind = "fabric" /\ c.aurora = (q.client # None)
        /\ c.version \in {None, q.version}
    BY <1>4 DEF Settings!Preserves
  <2>3. CASE c.kind = "fabric"
    BY <2>1, <2>2, <2>3 DEF Settings!MatchesInstalled, Settings!Policy
  <2>4. CASE c.kind # "fabric"
    <3>1. q.client = None
      BY <1>1, <2>2, <2>4
    <3> QED
      BY <2>1, <2>2, <3>1
  <2> QED
    BY <2>3, <2>4
<1>5. CASE c.kind = "fabric" /\ c.aurora /\ ~Settings!Preserves(c, q)
  <2> DEFINE fit == Settings!Suitable(c.game)
             released == Settings!ReleaseFor(c)
             made == Settings!ReleaseLoader(c)
  <2>1. /\ fit # {}
        /\ next = IF made = None THEN Bad
                  ELSE [game |-> c.game, kind |-> c.kind, version |-> made, client |-> released.client]
    BY <1>1, <1>5 DEF Settings!ResolveInstalled
  <2>2. fit \subseteq Registries!MCManifest
    BY DEF Settings!Suitable
  <2>3. \E x \in fit : \A y \in fit : y.client <= x.client
    <3>1. c.game = g1
      BY <2>1 DEF Settings!Suitable, Registries!MCManifest
    <3>2. [client |-> 2, game |-> g1, loader |-> v2] \in fit
      BY <3>1 DEF Settings!Suitable, Registries!MCManifest
    <3>3. \A y \in fit : y.client <= 2
      BY <2>2 DEF Registries!MCManifest
    <3> QED
      BY <3>2, <3>3
  <2>4. released \in fit
    BY <2>3 DEF Settings!ReleaseFor
  <2>5. released.client \in {1, 2} /\ released.loader \in {v1, v2}
    BY <2>2, <2>4 DEF Registries!MCManifest
  <2>6. made # None => made = released.loader /\ c.version \in {None, made}
    BY DEF Settings!ReleaseLoader
  <2>7. made # None
    BY <2>1
  <2> HIDE DEF made, released, fit
  <2>8. /\ next \in Pins /\ next.game = c.game /\ next.kind = "fabric" /\ next.version = made
        /\ next.client = released.client
    BY <1>2, <1>5, <2>1, <2>5, <2>6, <2>7
  <2>9. next.client # None
    BY <2>5, <2>8, RegistryNone
  <2> HIDE DEF next
  <2>10. Settings!MatchesInstalled(c, next)
    BY <1>1, <1>5, <2>6, <2>7, <2>8, <2>9 DEF Settings!MatchesInstalled, Settings!Policy
  <2> QED
    BY <2>8, <2>10 DEF next
<1>6. CASE c.kind # "vanilla" /\ ~c.aurora /\ ~Settings!Preserves(c, q)
  <2> DEFINE candidates == Registries!MCListed[c.kind][c.game]
             listed == Settings!ResolvePolicy(c.version, candidates)
  <2>1. next = IF listed = None THEN Bad
               ELSE [game |-> c.game, kind |-> c.kind, version |-> listed, client |-> None]
    BY <1>1, <1>6 DEF Settings!ResolveInstalled
  <2>2. listed # None
    BY <2>1
  <2>3. listed \in {v1, v2} /\ c.version \in {None, listed}
    BY <1>1, <1>6, <2>2, ListedVersions
  <2> HIDE DEF listed
  <2>4. /\ next \in Pins /\ next.game = c.game /\ next.kind = c.kind /\ next.version = listed
        /\ next.client = None
    BY <1>1, <1>2, <2>1, <2>2, <2>3
  <2>5. c.aurora = FALSE
    BY <1>1, <1>6
  <2> HIDE DEF next
  <2>6. Settings!MatchesInstalled(c, next)
    BY <1>6, <2>3, <2>4, <2>5 DEF Settings!MatchesInstalled, Settings!Policy
  <2> QED
    BY <2>4, <2>6 DEF next
<1> QED
  BY <1>1, <1>3, <1>4, <1>5, <1>6

\* A row of a registered instance is replaced by another one of it.
LEMMA RowReplaced ==
    ASSUME RegistryInv, Settings!FromJson(original) # Bad, NEW id \in Settings!Registered,
           NEW row \in RowShape, row.id = id, row.pack # Absent,
           Settings!Save(Settings!WithRow(id, row)),
           changed' = changed \cup {id}, original' = original, commands' \in 0 .. MaxCommands,
           job' \in {job, Settings!NoJob},
           astray' \subseteq astray \cup {id},
           id \in astray' => row.pin.kind = "fabric" /\ row.pin.client = None
    PROVE  RegistryInv'
<1>1. /\ registry \in DocumentShape /\ original \in DocumentShape
      /\ JobFollows /\ Len(Settings!Load) = Len(original.records)
      /\ \A k \in 1 .. Len(original.records) : RowKept(Settings!Load[k], original.records[k])
      /\ \A k \in 1 .. Len(original.records) :
            Settings!Load[k].id \in astray =>
                Settings!Load[k].pin.kind = "fabric" /\ Settings!Load[k].pin.client = None
  BY DEF RegistryInv
<1>2. /\ registry' \in DocumentShape /\ Settings!Load' # Bad
      /\ Len(Settings!Load') = Len(Settings!Load)
      /\ \A k \in 1 .. Len(Settings!Load) :
            Settings!Load'[k] = IF k = Settings!Index(id) THEN row ELSE Settings!Load[k]
      /\ \A k \in 1 .. Len(Settings!Load) : Settings!Load'[k].id = Settings!Load[k].id
  BY <1>1, RowSaved
<1>3. /\ Settings!Load # Bad /\ Settings!Index(id) \in 1 .. Len(Settings!Load)
      /\ Settings!Load[Settings!Index(id)].id = id
      /\ \A k \in 1 .. Len(Settings!Load) : Settings!Load[k].id = id => k = Settings!Index(id)
  BY <1>1, RowPlace
<1>4. Settings!Load \in Seq(Row5)
  BY <1>1, <1>3, LoadRows
<1>5. \A k \in 1 .. Len(original.records) : RowKept(Settings!Load[k], original.records[k])'
  <2> TAKE k \in 1 .. Len(original.records)
  <2>1. /\ k \in 1 .. Len(Settings!Load)
        /\ RowKept(Settings!Load[k], original.records[k])
    BY <1>1
  <2>2. CASE k = Settings!Index(id)
    BY <1>2, <1>3, <2>1, <2>2 DEF RowKept
  <2>3. CASE k # Settings!Index(id)
    BY <1>2, <2>1, <2>3 DEF RowKept
  <2> QED
    BY <2>2, <2>3
<1>6. ASSUME NEW k \in 1 .. Len(original.records), Settings!Load'[k].id \in astray'
      PROVE  Settings!Load'[k].pin.kind = "fabric" /\ Settings!Load'[k].pin.client = None
  <2>1. k \in 1 .. Len(Settings!Load)
    BY <1>1
  <2>2. CASE k = Settings!Index(id)
    BY <1>2, <1>6, <2>1, <2>2
  <2>3. CASE k # Settings!Index(id)
    BY <1>1, <1>2, <1>3, <1>6, <2>1, <2>3
  <2> QED
    BY <2>2, <2>3
<1>7. JobFollows'
  <2>1. CASE job' = Settings!NoJob
    BY <2>1 DEF JobFollows, Settings!NoJob
  <2>2. CASE job' = job /\ job # Settings!NoJob
    <3>1. PICK k \in 1 .. Len(Settings!Load) : Settings!Load[k].id = job.id
      BY <1>1, <1>4, <2>2 DEF JobFollows
    <3>2. Settings!Load'[k].id = job.id /\ k \in DOMAIN Settings!Load'
      <4>1. (Settings!Load \in Seq(Row5))'
        <5>1. (registry \in DocumentShape /\ Settings!Load # Bad => Settings!Load \in Seq(Row5))'
          BY LoadedRows, PTL
        <5> QED
          BY <1>2, <5>1
      <4> QED
        BY <1>2, <3>1, <4>1
    <3> QED
      BY <1>1, <2>2, <3>2 DEF JobFollows, Settings!NoJob
  <2> QED
    BY <2>1, <2>2
<1>8. Settings!FromJson(original)' = Settings!FromJson(original)
  BY DEF Settings!FromJson
<1> QED
  BY <1>1, <1>2, <1>5, <1>6, <1>7, <1>8 DEF RegistryInv

\* Every command, and the launcher being stopped, preserve the invariant.
LEMMA RegistryStep ==
    ASSUME RegistryInv, [Settings!Next]_(Settings!vars)
    PROVE  RegistryInv'
<1> USE RegistryNone
<1>0. registry \in DocumentShape /\ original \in DocumentShape /\ commands \in 0 .. MaxCommands
  BY DEF RegistryInv
<1>a. ASSUME Settings!FromJson(original) # Bad PROVE Settings!Load # Bad /\ JobFollows
  BY <1>a DEF RegistryInv
<1>b. ASSUME Settings!FromJson(original) = Bad
      PROVE  Settings!Load = Bad /\ job = Settings!NoJob /\ Settings!Registered = {}
  BY <1>b DEF RegistryInv, Settings!Load, Settings!Registered
<1>c. ASSUME UNCHANGED <<original, changed, astray>>, registry' \in DocumentShape,
             Settings!Load' = Settings!Load, commands' \in 0 .. MaxCommands, JobFollows',
             Settings!FromJson(original) # Bad
      PROVE  RegistryInv'
  <2>1. Settings!FromJson(original)' = Settings!FromJson(original)
    BY <1>c DEF Settings!FromJson
  <2>2. \A k \in 1 .. Len(original.records) : RowKept(Settings!Load[k], original.records[k])'
    BY <1>c DEF RegistryInv, RowKept
  <2> QED
    BY <1>0, <1>c, <2>1, <2>2 DEF RegistryInv
<1>d. Settings!Command => commands' \in 0 .. MaxCommands
  BY <1>0 DEF Settings!Command
<1>e. ASSUME NEW id \in Settings!Registered
      PROVE  /\ Settings!FromJson(original) # Bad /\ Settings!Load # Bad
             /\ Settings!Row(id) \in RowShape /\ Settings!Row(id).id = id
             /\ Settings!Row(id).pack # Absent /\ Settings!Row(id).desired \in WishShape
             /\ Settings!Row(id).pin \in Pins /\ id # None
             /\ id \in astray =>
                    Settings!Row(id).pin.kind = "fabric" /\ Settings!Row(id).pin.client = None
  <2>1. /\ Settings!FromJson(original) # Bad /\ Settings!Load # Bad
        /\ Settings!Row(id).id = id /\ Settings!Row(id) \in Row5
        /\ Settings!Index(id) \in 1 .. Len(Settings!Load)
        /\ Settings!Row(id) = Settings!Load[Settings!Index(id)]
    BY <1>0, <1>b, RowPlace
  <2>2. /\ Settings!Row(id) \in RowShape /\ Settings!Row(id).pack # Absent
        /\ Settings!Row(id).desired \in WishShape /\ Settings!Row(id).pin \in Pins
        /\ Settings!Row(id).id \in {row1, row2, Bad}
    BY <2>1 DEF Row5, RowShape
  <2>3. id # Bad
    <3>1. Settings!ValidRecord(Settings!Row(id))
      BY <1>0, <2>1, LoadRows
    <3> QED
      BY <2>1, <3>1 DEF Settings!ValidRecord
  <2>4. id \in astray =>
            Settings!Row(id).pin.kind = "fabric" /\ Settings!Row(id).pin.client = None
    BY <2>1 DEF RegistryInv
  <2> QED
    BY <2>1, <2>2, <2>3, <2>4
<1>1. CASE Settings!Startup
  <2>1. Settings!Load # Bad /\ Settings!Save(Settings!Load) /\ Settings!FromJson(original) # Bad
    BY <1>1, <1>b DEF Settings!Startup
  <2>2. Settings!Load \in Seq(Row5)
    BY <1>0, <2>1, LoadRows
  <2>3. Settings!Load' = Settings!Load /\ registry' \in DocumentShape
    BY <2>1, <2>2, SavedRows
  <2>4. UNCHANGED <<job, commands, original, changed, astray>>
    BY <1>1 DEF Settings!Startup
  <2>5. JobFollows'
    BY <1>a, <2>1, <2>3, <2>4 DEF JobFollows, Settings!NoJob
  <2> QED
    BY <1>0, <1>c, <2>1, <2>3, <2>4, <2>5
<1>2. CASE Settings!UpdateConfiguration
  <2>1. PICK id \in Settings!Registered, c \in Registries!MCWishes :
            /\ Settings!Command
            /\ Settings!Save(Settings!WithRow(id, [Settings!Row(id) EXCEPT !.desired = c]))
            /\ changed' = changed \cup {id} /\ UNCHANGED <<job, original, astray>>
    BY <1>2 DEF Settings!UpdateConfiguration
  <2> DEFINE row == [Settings!Row(id) EXCEPT !.desired = c]
  <2>2. c \in WishShape
    BY WishesShape
  <2>3. /\ row \in RowShape /\ row.id = id /\ row.pack # Absent
        /\ row.pin = Settings!Row(id).pin
    BY <1>e, <2>2 DEF RowShape
  <2> HIDE DEF row
  <2>4. Settings!Save(Settings!WithRow(id, row))
    BY <2>1 DEF row
  <2> QED
    BY <1>d, <1>e, <2>1, <2>3, <2>4, RowReplaced
<1>3. CASE Settings!RenameInstance
  <2>1. PICK id \in Settings!Registered, name \in {n1, n2} :
            /\ Settings!Command
            /\ Settings!Save(Settings!WithRow(id, [Settings!Row(id) EXCEPT !.name = name]))
            /\ changed' = changed \cup {id} /\ UNCHANGED <<job, original, astray>>
    BY <1>3 DEF Settings!RenameInstance
  <2> DEFINE row == [Settings!Row(id) EXCEPT !.name = name]
  <2>2. /\ row \in RowShape /\ row.id = id /\ row.pack # Absent
        /\ row.pin = Settings!Row(id).pin
    BY <1>e DEF RowShape
  <2> HIDE DEF row
  <2>3. Settings!Save(Settings!WithRow(id, row))
    BY <2>1 DEF row
  <2> QED
    BY <1>d, <1>e, <2>1, <2>2, <2>3, RowReplaced
<1>4. CASE Settings!BeginInstall
  <2>1. PICK id \in Settings!Registered :
            /\ Settings!Command /\ Settings!ValidConfiguration(Settings!Row(id).desired)
            /\ job' = [id |-> id, wish |-> Settings!Row(id).desired]
            /\ UNCHANGED <<registry, original, changed, astray>>
    BY <1>4 DEF Settings!BeginInstall
  <2>2. Settings!Load' = Settings!Load
    BY <2>1 DEF Settings!Load
  <2>3. job'.id = id /\ job'.wish = Settings!Row(id).desired
    BY <2>1
  <2>4. \E k \in DOMAIN Settings!Load : Settings!Load[k].id = id
    BY <1>e DEF Settings!Registered
  <2>5. Settings!Row(id).desired # None
    BY <1>e, WishIsNotNone
  <2>6. JobFollows'
    BY <1>e, <2>1, <2>2, <2>3, <2>4, <2>5
    DEF JobFollows, Settings!ValidConfiguration, Settings!ValidMemory, Settings!ValidWindow
  <2> QED
    BY <1>0, <1>c, <1>d, <1>e, <2>1, <2>2, <2>6
<1>5. CASE Settings!RecordInstall
  <2> DEFINE installed == Settings!ResolveInstalled(job.wish, Settings!Row(job.id).pin)
             row == [Settings!Row(job.id) EXCEPT !.pin = installed, !.state = "installing"]
  <2>1. /\ job # Settings!NoJob /\ job' = Settings!NoJob /\ UNCHANGED <<commands, original>>
        /\ \/ /\ installed # Bad /\ Settings!Save(Settings!WithRow(job.id, row))
              /\ changed' = changed \cup {job.id}
              /\ astray' = IF Settings!MatchesInstalled(job.wish, installed)
                           THEN astray \ {job.id} ELSE astray \cup {job.id}
           \/ UNCHANGED <<registry, changed, astray>>
    BY <1>5 DEF Settings!RecordInstall, Settings!Ends
  <2>2. Settings!FromJson(original) # Bad
    BY <1>b, <2>1
  <2>3. JobFollows' /\ Settings!Load # Bad
    BY <1>a, <2>1, <2>2 DEF JobFollows, Settings!NoJob
  <2>4. CASE UNCHANGED <<registry, changed, astray>>
    <3>1. Settings!Load' = Settings!Load
      BY <2>4 DEF Settings!Load
    <3> QED
      BY <1>0, <1>c, <2>1, <2>2, <2>3, <2>4, <3>1
  <2>5. CASE /\ installed # Bad /\ Settings!Save(Settings!WithRow(job.id, row))
             /\ changed' = changed \cup {job.id}
             /\ astray' = IF Settings!MatchesInstalled(job.wish, installed)
                          THEN astray \ {job.id} ELSE astray \cup {job.id}
    <3>1. /\ job.id \in Settings!Registered /\ job.wish \in WishShape
          /\ Settings!ValidConfiguration(job.wish)
      BY <1>a, <2>1, <2>2, <2>3 DEF JobFollows, Settings!Registered
    <3>2. /\ installed \in Pins
          /\ \/ Settings!MatchesInstalled(job.wish, installed)
             \/ installed.kind = "fabric" /\ installed.client = None
      BY <1>e, <2>5, <3>1, ResolvedPin
    <3> HIDE DEF installed
    <3>3. row \in RowShape /\ row.id = job.id /\ row.pack # Absent /\ row.pin = installed
      <4> DEFINE last == Settings!Row(job.id)
      <4>1. last \in RowShape /\ last.id = job.id /\ last.pack # Absent
        BY <1>e, <3>1
      <4>2. row = [last EXCEPT !.pin = installed, !.state = "installing"]
        OBVIOUS
      <4> HIDE DEF last, row
      <4> QED
        BY <3>2, <4>1, <4>2 DEF RowShape
    <3> HIDE DEF row
    <3>4. /\ astray' \subseteq astray \cup {job.id}
          /\ job.id \in astray' => row.pin.kind = "fabric" /\ row.pin.client = None
      BY <2>5, <3>2, <3>3
    <3>5. commands' \in 0 .. MaxCommands /\ Settings!Save(Settings!WithRow(job.id, row))
      BY <1>0, <2>1, <2>5
    <3> QED
      BY <2>1, <2>2, <2>5, <3>1, <3>3, <3>4, <3>5, RowReplaced
  <2> QED
    BY <2>1, <2>4, <2>5
<1>6. CASE Settings!CompleteInstall
  <2>1. PICK id \in Settings!Registered :
            /\ Settings!Save(Settings!WithRow(id, [Settings!Row(id) EXCEPT !.state = "ready"]))
            /\ changed' = changed \cup {id} /\ UNCHANGED <<job, commands, original, astray>>
    BY <1>6 DEF Settings!CompleteInstall
  <2> DEFINE row == [Settings!Row(id) EXCEPT !.state = "ready"]
  <2>2. /\ row \in RowShape /\ row.id = id /\ row.pack # Absent
        /\ row.pin = Settings!Row(id).pin
    BY <1>e DEF RowShape
  <2> HIDE DEF row
  <2>3. Settings!Save(Settings!WithRow(id, row))
    BY <2>1 DEF row
  <2> QED
    BY <1>0, <1>e, <2>1, <2>2, <2>3, RowReplaced
<1>7. CASE Settings!Stop
  <2>1. /\ job # Settings!NoJob /\ job' = Settings!NoJob
        /\ UNCHANGED <<registry, commands, original, changed, astray>>
    BY <1>7 DEF Settings!Stop, Settings!Ends
  <2>2. Settings!FromJson(original) # Bad /\ Settings!Load' = Settings!Load
    BY <1>b, <2>1 DEF Settings!Load
  <2>3. JobFollows'
    BY <2>1 DEF JobFollows, Settings!NoJob
  <2> QED
    BY <1>0, <1>c, <2>1, <2>2, <2>3
<1>8. CASE UNCHANGED Settings!vars
  <2>1. UNCHANGED <<registry, job, commands, original, changed, astray>>
    BY <1>8 DEF Settings!vars
  <2>2. Settings!Load' = Settings!Load
    BY <2>1 DEF Settings!Load
  <2>3. CASE Settings!FromJson(original) # Bad
    <3>1. JobFollows'
      BY <1>a, <2>1, <2>2, <2>3 DEF JobFollows, Settings!NoJob
    <3> QED
      BY <1>0, <1>c, <2>1, <2>2, <2>3, <3>1
  <2>4. CASE Settings!FromJson(original) = Bad
    <3>1. Settings!FromJson(original)' = Settings!FromJson(original)
      BY <2>1 DEF Settings!FromJson
    <3> QED
      BY <1>0, <2>1, <2>4, <3>1 DEF RegistryInv, Settings!NoJob
  <2> QED
    BY <2>3, <2>4
<1> QED
  BY <1>1, <1>2, <1>3, <1>4, <1>5, <1>6, <1>7, <1>8 DEF Settings!Next

\* What the run checks of instances.json follows from the invariant.
LEMMA RegistrySound ==
    ASSUME RegistryInv
    PROVE  /\ Settings!TypeOK /\ Settings!RegistryStaysReadable
           /\ Settings!MigrationKeeps /\ Settings!InstallsFollow
<1> USE RegistryNone
<1>1. registry \in DocumentShape /\ original \in DocumentShape /\ commands \in 0 .. MaxCommands
  BY DEF RegistryInv
<1>2. Settings!TypeOK
  <2>1. job.id = None <=> job.wish = None
    <3>1. CASE job = Settings!NoJob
      BY <3>1 DEF Settings!NoJob
    <3>2. CASE job # Settings!NoJob
      BY <3>2 DEF RegistryInv, JobFollows
    <3> QED
      BY <3>1, <3>2
  <2>2. ASSUME Settings!Load # Bad, NEW k \in DOMAIN Settings!Load
        PROVE  Settings!Load[k].state \in {"installing", "ready"}
    <3>1. Settings!Load[k] \in Row5
      BY <1>1, <2>2, LoadRows
    <3> QED
      BY <3>1 DEF Row5, RowShape
  <2> QED
    BY <1>1, <2>1, <2>2 DEF Settings!TypeOK
<1>3. Settings!RegistryStaysReadable
  BY DEF RegistryInv, Settings!RegistryStaysReadable
<1>4. Settings!MigrationKeeps
  <2> SUFFICES ASSUME Settings!FromJson(original) # Bad PROVE Settings!MigrationKeeps
    BY DEF Settings!MigrationKeeps
  <2>1. /\ Len(Settings!Load) = Len(original.records)
        /\ \A k \in 1 .. Len(original.records) : RowKept(Settings!Load[k], original.records[k])
    BY DEF RegistryInv
  <2>2. DOMAIN original.records = 1 .. Len(original.records)
    BY <1>1 DEF DocumentShape
  <2> QED
    BY <2>1, <2>2 DEF Settings!MigrationKeeps, RowKept
<1>5. Settings!InstallsFollow
  <2> SUFFICES ASSUME NEW id \in astray \cap Settings!Registered
               PROVE  Settings!Row(id).pin.kind = "fabric" /\ Settings!Row(id).pin.client = None
    BY DEF Settings!InstallsFollow
  <2>1. /\ Settings!Load # Bad /\ Settings!Row(id).id = id
        /\ Settings!Index(id) \in 1 .. Len(Settings!Load)
        /\ Settings!Row(id) = Settings!Load[Settings!Index(id)]
    BY <1>1, RowPlace
  <2>2. Settings!FromJson(original) # Bad
    BY <2>1 DEF RegistryInv, Settings!Load
  <2> QED
    BY <2>1, <2>2 DEF RegistryInv
<1> QED
  BY <1>2, <1>3, <1>4, <1>5

-----------------------------------------------------------------------------
(* Skins and capes *)

Pictures == {whole, cut}
Looks == {"classic", "slim", None}
Presets == [id : Ids, model : Looks, image : Pictures]
Wardrobe == [account : Accounts, model : Looks, capes : SUBSET Capes, cape : Capes \cup {None}]
Profiles ==
    [skin : Pictures \cup {None}, model : Looks, capes : SUBSET Capes, cape : Capes \cup {None}]
Pages ==
    [account : Accounts \cup {None}, remote : SUBSET Wardrobe, loading : BOOLEAN,
     offline : BOOLEAN, busy : BOOLEAN, serial : Nat, listed : SUBSET Presets]
Requests == [serial : Nat, account : Accounts, at : {"asked", "read"}, state : SUBSET Wardrobe]
ErrandKinds == {"none", "import", "save", "model", "remove", "apply", "cape"}
ErrandSteps ==
    {"idle", "image", "record", "file", "list", "listed", "session", "current", "upload",
     "before", "send", "confirm", "answered", "failed", "reload"}
Errands ==
    [kind : ErrandKinds, at : ErrandSteps, account : Accounts \cup {None}, id : Ids \cup {None},
     model : Looks, image : Pictures \cup {None}, cape : Capes \cup {None},
     state : {None} \cup (SUBSET Presets) \cup (SUBSET Wardrobe), serial : Nat]

\* A preset has the image its identity was generated for.
Genuine(presets) == \A p \in presets : <<p.id, p.image>> \in minted

\* An identity is generated once and in one preset, and an image is there for
\* as long as its record is.
LibraryInv ==
    /\ library \in [readable : BOOLEAN, presets : SUBSET Presets]
    /\ images \in [Ids -> Pictures \cup {None}]
    /\ minted \subseteq Ids \X Pictures
    /\ \A x, y \in minted : x[1] = y[1] => x = y
    /\ Genuine(library.presets)
    /\ \A p, q \in library.presets : p.id = q.id => p = q
    /\ \A p \in library.presets : p.id \notin edited => images[p.id] = p.image

\* What an account is like, it was once, with a skin that was chosen for it.
RemoteInv ==
    /\ skins \in [Accounts -> Profiles]
    /\ was \in [Accounts -> SUBSET Wardrobe]
    /\ requested \in [Accounts -> SUBSET ((Pictures \cup {None}) \X Looks)]
    /\ \A x \in Accounts :
        /\ Cosmetic!State(x) \in was[x]
        /\ <<skins[x].skin, skins[x].model>> \in requested[x]

\* The page shows what its account was like; an answer under way was so of the
\* account that was asked about, which is the one shown if no load began since;
\* and every list of the library is of presets that were in it.
PageInv ==
    /\ page \in Pages /\ loads \subseteq Requests
    /\ listing \in [at : {"none", "read", "done"}, presets : SUBSET Presets]
    /\ Genuine(page.listed) /\ Genuine(listing.presets)
    /\ page.remote # {} => page.account # None /\ page.remote \subseteq was[page.account]
    /\ \A l \in loads :
        /\ l.serial <= page.serial
        /\ l.serial = page.serial => l.account = page.account
        /\ l.state \subseteq was[l.account]

\* What the page's change carries at each of its steps.
InLibrary(e) ==
    /\ e.at = "image" => e.image \in Pictures /\ e.kind \in {"import", "save"}
    /\ e.at = "record" => e.id \in Ids /\ e.kind \in {"import", "save", "model", "remove"}
    /\ e.at = "record" /\ e.kind \in {"import", "save"} =>
        /\ e.image \in Pictures /\ <<e.id, e.image>> \in minted
        /\ e.id \notin edited => images[e.id] = e.image
        /\ \A p \in library.presets : p.id # e.id
    /\ e.at = "file" => e.id \in Ids /\ \A p \in library.presets : p.id # e.id
    /\ e.at = "listed" => e.state \subseteq Presets /\ Genuine(e.state)
AtProvider(e) ==
    /\ e.at \in {"session", "current", "upload", "before", "send", "confirm", "answered"} =>
        e.account \in Accounts /\ e.kind \in {"save", "apply", "cape"}
    /\ e.at = "current" => e.kind = "save"
    /\ e.at = "upload" => e.kind = "apply"
    /\ e.at = "before" => e.kind = "cape"
    /\ e.kind = "apply" /\ e.at \in {"session", "upload"} =>
        \E image \in Pictures :
            <<e.id, image>> \in minted /\ <<image, e.model>> \in requested[e.account]
    /\ e.kind = "apply" /\ e.at = "send" =>
        e.image \in Pictures /\ <<e.image, e.model>> \in requested[e.account]
    /\ e.at = "answered" => e.state \subseteq was[e.account]
ErrandInv(e) == e \in Errands /\ InLibrary(e) /\ AtProvider(e)

CosmeticInv == LibraryInv /\ RemoteInv /\ PageInv /\ ErrandInv(errand)

\* The launcher starts with an empty library and nobody shown.
LEMMA CosmeticStart == Cosmetic!CosmeticsInit => CosmeticInv
<1> SUFFICES ASSUME Cosmetic!CosmeticsInit PROVE CosmeticInv
  OBVIOUS
<1>1. LibraryInv
  BY DEF Cosmetic!CosmeticsInit, LibraryInv, Genuine
<1>2. skins \in [Accounts -> {[skin |-> None, model |-> None, capes |-> Capes, cape |-> None]}]
  BY DEF Cosmetic!CosmeticsInit
<1>3. \A x \in Accounts :
        skins[x] = [skin |-> None, model |-> None, capes |-> Capes, cape |-> None]
  BY <1>2
<1>4. skins \in [Accounts -> Profiles]
  BY <1>2 DEF Profiles, Looks
<1>5. RemoteInv
  <2>1. was = [x \in Accounts |-> {Cosmetic!State(x)}]
    BY DEF Cosmetic!CosmeticsInit
  <2>2. \A x \in Accounts : Cosmetic!State(x) \in Wardrobe
    BY <1>3 DEF Cosmetic!State, Cosmetic!Told, Wardrobe, Looks
  <2>3. requested = [x \in Accounts |-> {<<None, None>>}]
    BY DEF Cosmetic!CosmeticsInit
  <2> QED
    BY <1>3, <1>4, <2>1, <2>2, <2>3 DEF RemoteInv, Looks
<1>6. PageInv
  BY DEF Cosmetic!CosmeticsInit, PageInv, Pages, Cosmetic!FreshPage, Genuine
<1>7. ErrandInv(errand)
  BY DEF Cosmetic!CosmeticsInit, ErrandInv, InLibrary, AtProvider, Errands, ErrandKinds,
         ErrandSteps, Looks, Cosmetic!Idle
<1> QED
  BY <1>1, <1>5, <1>6, <1>7 DEF CosmeticInv

\* A change that failed, is over, or has the library listed carries nothing.
LEMMA ErrandRests ==
    ASSUME NEW e \in Errands, e.at \in {"idle", "list", "failed", "reload"}
    PROVE  ErrandInv(e)
BY DEF ErrandInv, InLibrary, AtProvider

LEMMA ErrandGoes ==
    ASSUME NEW e \in Errands, NEW step \in ErrandSteps
    PROVE  [e EXCEPT !.at = step] \in Errands
BY DEF Errands

LEMMA IdleIsErrand == Cosmetic!Idle \in Errands
BY DEF Errands, ErrandKinds, ErrandSteps, Looks, Cosmetic!Idle

\* The page and its change may move while the library and the accounts stay.
LEMMA PageMoves ==
    ASSUME CosmeticInv, UNCHANGED <<Cosmetic!libraryVars, Cosmetic!remoteVars>>,
           PageInv', ErrandInv(errand')
    PROVE  CosmeticInv'
<1>1. LibraryInv'
  BY DEF CosmeticInv, LibraryInv, Genuine, Cosmetic!libraryVars
<1>2. RemoteInv'
  BY DEF CosmeticInv, RemoteInv, Cosmetic!remoteVars, Cosmetic!State, Cosmetic!Told
<1>3. InLibrary(errand)'
  BY DEF ErrandInv, InLibrary, Genuine, Cosmetic!libraryVars
<1>4. AtProvider(errand)'
  BY DEF ErrandInv, AtProvider, Cosmetic!libraryVars, Cosmetic!remoteVars
<1> QED
  BY <1>1, <1>2, <1>3, <1>4 DEF CosmeticInv, ErrandInv

\* What the page shows stays right while the accounts' pasts and the identities
\* only grow.
LEMMA PageStays ==
    ASSUME CosmeticInv, UNCHANGED <<page, loads, listing>>, minted \subseteq minted',
           \A x \in Accounts : was[x] \subseteq was'[x]
    PROVE  PageInv'
<1>1. Genuine(page.listed)' /\ Genuine(listing.presets)'
  BY DEF CosmeticInv, PageInv, Genuine
<1>2. page.account \in Accounts \cup {None} /\ \A l \in loads : l.account \in Accounts
  BY DEF CosmeticInv, PageInv, Pages, Requests
<1> QED
  BY <1>1, <1>2 DEF CosmeticInv, PageInv

\* Only the change moves.
LEMMA ErrandMoves ==
    ASSUME CosmeticInv,
           UNCHANGED <<Cosmetic!libraryVars, Cosmetic!remoteVars, page, loads, listing>>,
           ErrandInv(errand')
    PROVE  CosmeticInv'
<1>1. PageInv'
  BY PageStays DEF Cosmetic!libraryVars, Cosmetic!remoteVars
<1> QED
  BY <1>1, PageMoves

\* A new change may begin, with what it carries.
LEMMA Begun ==
    ASSUME CosmeticInv, NEW next \in Errands, Cosmetic!Begins(next), ErrandInv(next),
           UNCHANGED requested
    PROVE  CosmeticInv'
<1>1. PageInv'
  BY DEF CosmeticInv, PageInv, Pages, Cosmetic!Begins, Cosmetic!libraryVars, Genuine
<1> QED
  BY <1>1, PageMoves DEF Cosmetic!Begins, Cosmetic!libraryVars, Cosmetic!remoteVars

LEMMA FileTask ==
    ASSUME CosmeticInv, NEW image \in Pictures, NEW model \in Cosmetic!Models,
           Cosmetic!ImportFile(image, model)
    PROVE  CosmeticInv'
<1> DEFINE next == [Cosmetic!Idle EXCEPT !.kind = "import", !.at = "image", !.image = image,
                                         !.model = model]
<1>1. model \in Looks
  BY DEF Cosmetic!Models, Looks
<1>2. next \in Errands
  BY <1>1 DEF Errands, ErrandKinds, ErrandSteps, Cosmetic!Idle
<1>3. ErrandInv(next)
  BY <1>2 DEF ErrandInv, InLibrary, AtProvider, Cosmetic!Idle
<1> HIDE DEF next
<1> QED
  BY <1>2, <1>3, Begun DEF Cosmetic!ImportFile, next

LEMMA PresetTasks ==
    ASSUME CosmeticInv, NEW id \in Ids, NEW model \in Cosmetic!Models,
           Cosmetic!SetModel(id, model) \/ Cosmetic!RemovePreset(id)
    PROVE  CosmeticInv'
<1> DEFINE sets == [Cosmetic!Idle EXCEPT !.kind = "model", !.at = "record", !.id = id,
                                         !.model = model]
           removes == [Cosmetic!Idle EXCEPT !.kind = "remove", !.at = "record", !.id = id]
<1>1. model \in Looks
  BY DEF Cosmetic!Models, Looks
<1>2. sets \in Errands
  BY <1>1 DEF Errands, ErrandKinds, ErrandSteps, Cosmetic!Idle
<1>3. removes \in Errands
  BY DEF Errands, ErrandKinds, ErrandSteps, Cosmetic!Idle, Looks
<1>4. ErrandInv(sets) /\ ErrandInv(removes)
  BY <1>2, <1>3 DEF ErrandInv, InLibrary, AtProvider, Cosmetic!Idle
<1> HIDE DEF sets, removes
<1>5. CASE Cosmetic!SetModel(id, model)
  BY <1>2, <1>4, <1>5, Begun DEF Cosmetic!SetModel, sets
<1>6. CASE Cosmetic!RemovePreset(id)
  BY <1>3, <1>4, <1>6, Begun DEF Cosmetic!RemovePreset, removes
<1> QED
  BY <1>5, <1>6

LEMMA AccountTasks ==
    ASSUME CosmeticInv, NEW cape \in Capes \cup {None},
           Cosmetic!SaveCurrent \/ Cosmetic!ChangeCape(cape)
    PROVE  CosmeticInv'
<1> DEFINE saves == [Cosmetic!Idle EXCEPT !.kind = "save", !.at = "session",
                                          !.account = page.account]
           turns == [Cosmetic!Idle EXCEPT !.kind = "cape", !.at = "session",
                                          !.account = page.account, !.cape = cape]
<1>1. page.account \in Accounts
  BY DEF CosmeticInv, PageInv, Pages, Cosmetic!SaveCurrent, Cosmetic!ChangeCape
<1>2. saves \in Errands /\ turns \in Errands
  BY <1>1 DEF Errands, ErrandKinds, ErrandSteps, Looks, Cosmetic!Idle
<1>3. ErrandInv(saves) /\ ErrandInv(turns)
  BY <1>1, <1>2 DEF ErrandInv, InLibrary, AtProvider, Cosmetic!Idle
<1> HIDE DEF saves, turns
<1>4. CASE Cosmetic!SaveCurrent
  BY <1>2, <1>3, <1>4, Begun DEF Cosmetic!SaveCurrent, saves
<1>5. CASE Cosmetic!ChangeCape(cape)
  BY <1>2, <1>3, <1>5, Begun DEF Cosmetic!ChangeCape, turns
<1> QED
  BY <1>4, <1>5

\* What is applied is the listed preset's image, under the model listed.
LEMMA SkinTask ==
    ASSUME CosmeticInv, NEW p \in page.listed, Cosmetic!Apply(p)
    PROVE  CosmeticInv'
<1> DEFINE next == [Cosmetic!Idle EXCEPT !.kind = "apply", !.at = "session",
                                         !.account = page.account, !.id = p.id, !.model = p.model]
<1>1. page.account \in Accounts /\ p \in Presets /\ <<p.id, p.image>> \in minted
  BY DEF CosmeticInv, PageInv, Pages, Genuine, Cosmetic!Apply
<1>2. p.id \in Ids /\ p.model \in Looks /\ p.image \in Pictures
  BY <1>1 DEF Presets
<1>3. next \in Errands
  BY <1>1, <1>2 DEF Errands, ErrandKinds, ErrandSteps, Cosmetic!Idle
<1>4. /\ errand' = next
      /\ requested' = [requested EXCEPT ![page.account] = @ \cup {<<p.image, p.model>>}]
      /\ page' = [page EXCEPT !.busy = TRUE]
      /\ UNCHANGED <<Cosmetic!libraryVars, skins, was, loads, listing>>
  BY DEF Cosmetic!Apply, Cosmetic!Begins
<1>5. LibraryInv'
  BY <1>4 DEF CosmeticInv, LibraryInv, Genuine, Cosmetic!libraryVars
<1>6. requested' \in [Accounts -> SUBSET ((Pictures \cup {None}) \X Looks)]
      /\ \A x \in Accounts : requested[x] \subseteq requested'[x]
  BY <1>1, <1>2, <1>4 DEF CosmeticInv, RemoteInv
<1>7. RemoteInv'
  BY <1>4, <1>6 DEF CosmeticInv, RemoteInv, Cosmetic!State, Cosmetic!Told
<1>8. PageInv'
  BY <1>4 DEF CosmeticInv, PageInv, Pages, Cosmetic!libraryVars, Genuine
<1>9. ErrandInv(errand)'
  <2>1. <<p.id, p.image>> \in minted' /\ <<p.image, p.model>> \in requested'[page.account]
    BY <1>1, <1>4 DEF Cosmetic!libraryVars, CosmeticInv, RemoteInv
  <2>2. /\ next.kind = "apply" /\ next.at = "session" /\ next.account = page.account
        /\ next.id = p.id /\ next.model = p.model
    BY DEF Cosmetic!Idle
  <2> HIDE DEF next
  <2> QED
    BY <1>1, <1>2, <1>3, <1>4, <2>1, <2>2 DEF ErrandInv, InLibrary, AtProvider
<1> QED
  BY <1>5, <1>7, <1>8, <1>9 DEF CosmeticInv

\* The change fails, or goes on to something that carries nothing.
LEMMA Fails ==
    ASSUME CosmeticInv, NEW step \in {"idle", "list", "failed", "reload"},
           UNCHANGED <<Cosmetic!libraryVars, Cosmetic!remoteVars, page, loads, listing>>,
           errand' = [errand EXCEPT !.at = step]
    PROVE  CosmeticInv'
<1>1. step \in ErrandSteps /\ errand \in Errands
  BY DEF ErrandSteps, CosmeticInv, ErrandInv
<1>2. errand' \in Errands
  BY <1>1, ErrandGoes
<1>3. errand'.at = step
  BY <1>1 DEF Errands
<1> QED
  BY <1>2, <1>3, ErrandRests, ErrandMoves

\* The loads of an account, begun by the player or after a failed change.
LEMMA LoadBegins ==
    ASSUME CosmeticInv, NEW x \in Accounts \cup {None}, Cosmetic!Loads(x),
           page' = Cosmetic!Shown(x), UNCHANGED <<was, minted, listing>>
    PROVE  PageInv'
<1>1. /\ page' \in Pages /\ page'.serial = page.serial + 1 /\ page'.account = x
      /\ page'.listed = page.listed
      /\ page'.remote # {} => page'.remote = page.remote /\ page.account = x
  <2>1. page \in Pages
    BY DEF CosmeticInv, PageInv
  <2> DEFINE keeps == IF page.account = x THEN page.remote ELSE {}
             waits == x # None
  <2>2. /\ page' = [page EXCEPT !.serial = @ + 1, !.account = x, !.offline = FALSE,
                                !.loading = waits, !.remote = keeps]
        /\ waits \in BOOLEAN /\ page.serial + 1 \in Nat /\ keeps \subseteq page.remote
        /\ page.remote \in SUBSET Wardrobe
        /\ keeps # {} => keeps = page.remote /\ page.account = x
    BY <2>1 DEF Pages, Cosmetic!Shown
  <2>3. keeps \in SUBSET Wardrobe
    BY <2>2
  <2> HIDE DEF keeps, waits
  <2> QED
    BY <2>1, <2>2, <2>3 DEF Pages
<1>2. page.serial \in Nat /\ \A l \in loads : l.serial \in Nat
  BY DEF CosmeticInv, PageInv, Pages, Requests
<1>3. loads' \subseteq Requests /\ \A l \in loads' \ loads :
        l.serial = page.serial + 1 /\ l.account = x /\ l.state = {}
  BY <1>2 DEF CosmeticInv, PageInv, Requests, Cosmetic!Loads
<1>4. \A l \in loads' :
        /\ l.serial <= page'.serial
        /\ l.serial = page'.serial => l.account = page'.account
        /\ l.state \subseteq was'[l.account]
  BY <1>1, <1>2, <1>3 DEF CosmeticInv, PageInv
<1>5. Genuine(page.listed)' /\ Genuine(listing.presets)'
  BY <1>1 DEF CosmeticInv, PageInv, Genuine
<1> QED
  BY <1>1, <1>3, <1>4, <1>5 DEF CosmeticInv, PageInv

LEMMA AccountLoads ==
    ASSUME CosmeticInv, NEW x \in Accounts \cup {None},
           Cosmetic!ChooseAccount(x) \/ Cosmetic!Refresh
    PROVE  CosmeticInv'
<1>1. PICK y \in Accounts \cup {None} : Cosmetic!Loads(y) /\ page' = Cosmetic!Shown(y)
  BY DEF Cosmetic!ChooseAccount, Cosmetic!Refresh, CosmeticInv, PageInv, Pages
<1>2. UNCHANGED <<Cosmetic!libraryVars, Cosmetic!remoteVars, listing, errand, bounds>>
  BY DEF Cosmetic!ChooseAccount, Cosmetic!Refresh
<1>3. PageInv'
  BY <1>1, <1>2, LoadBegins DEF Cosmetic!libraryVars, Cosmetic!remoteVars
<1> QED
  BY <1>2, <1>3, PageMoves DEF CosmeticInv

LEMMA LoadAdvances ==
    ASSUME CosmeticInv, NEW l \in loads, Cosmetic!LoadReads(l) \/ Cosmetic!LoadAnswers(l)
    PROVE  CosmeticInv'
<1>1. UNCHANGED <<Cosmetic!libraryVars, Cosmetic!remoteVars, listing, errand>>
  BY DEF Cosmetic!LoadReads, Cosmetic!LoadAnswers
<1>2. l \in Requests /\ l.account \in Accounts
  BY DEF CosmeticInv, PageInv, Requests
<1>3. Cosmetic!State(l.account) \in was[l.account] /\ was[l.account] \subseteq Wardrobe
  BY <1>2 DEF CosmeticInv, RemoteInv
<1>4. CASE Cosmetic!LoadReads(l)
  <2>1. UNCHANGED page
    BY <1>4 DEF Cosmetic!LoadReads
  <2>2. PICK next \in Requests :
            /\ loads' = (loads \ {l}) \cup {next} /\ next.serial = l.serial
            /\ next.account = l.account /\ next.state \subseteq was[l.account]
    <3>1. [l EXCEPT !.at = "read", !.state = {Cosmetic!State(l.account)}] \in Requests
      BY <1>2, <1>3 DEF Requests
    <3>2. [l EXCEPT !.at = "read"] \in Requests
      BY <1>2 DEF Requests
    <3>3. CASE loads' = (loads \ {l})
                    \cup {[l EXCEPT !.at = "read", !.state = {Cosmetic!State(l.account)}]}
      BY <1>2, <1>3, <3>1, <3>3 DEF Requests
    <3>4. CASE loads' = (loads \ {l}) \cup {[l EXCEPT !.at = "read"]}
      <4>1. l.state \subseteq was[l.account]
        BY DEF CosmeticInv, PageInv
      <4> QED
        BY <1>2, <3>2, <3>4, <4>1 DEF Requests
    <3> QED
      BY <1>4, <3>3, <3>4 DEF Cosmetic!LoadReads
  <2>3. PageInv'
    BY <1>1, <2>1, <2>2
    DEF CosmeticInv, PageInv, Genuine, Cosmetic!libraryVars, Cosmetic!remoteVars
  <2> QED
    BY <1>1, <2>3, PageMoves DEF CosmeticInv
<1>5. CASE Cosmetic!LoadAnswers(l)
  <2>1. loads' \subseteq loads
    BY <1>5 DEF Cosmetic!LoadAnswers
  <2>2. l.state \subseteq was[l.account] /\ l.state \subseteq Wardrobe
    BY <1>2 DEF CosmeticInv, PageInv, Requests
  <2>3. /\ page' \in Pages
        /\ page'.account = page.account /\ page'.serial = page.serial
        /\ page'.listed = page.listed
        /\ \/ page'.remote = page.remote
           \/ page'.remote = l.state /\ l.serial = page.serial
    BY <1>5, <2>2 DEF Cosmetic!LoadAnswers, Cosmetic!Shows, CosmeticInv, PageInv, Pages
  <2>4. page'.remote # {} => page'.account # None /\ page'.remote \subseteq was[page'.account]
    BY <1>2, <2>2, <2>3, NoneIsNothing DEF CosmeticInv, PageInv
  <2>5. PageInv'
    BY <1>1, <2>1, <2>3, <2>4
    DEF CosmeticInv, PageInv, Genuine, Cosmetic!libraryVars, Cosmetic!remoteVars
  <2> QED
    BY <1>1, <2>5, PageMoves DEF CosmeticInv
<1> QED
  BY <1>4, <1>5

LEMMA Listing ==
    ASSUME CosmeticInv, Cosmetic!ListReads \/ Cosmetic!ListAnswers
    PROVE  CosmeticInv'
<1>1. UNCHANGED <<Cosmetic!libraryVars, Cosmetic!remoteVars, errand>>
  BY DEF Cosmetic!ListReads, Cosmetic!ListAnswers
<1>2. /\ listing' \in [at : {"none", "read", "done"}, presets : SUBSET Presets]
      /\ listing'.presets \in {library.presets, {}}
      /\ page' \in {page, [page EXCEPT !.listed = listing.presets]}
      /\ UNCHANGED loads
  BY DEF Cosmetic!ListReads, Cosmetic!ListAnswers, CosmeticInv, PageInv, LibraryInv
<1>3. PageInv'
  BY <1>1, <1>2 DEF CosmeticInv, PageInv, LibraryInv, Pages, Genuine,
                    Cosmetic!libraryVars, Cosmetic!remoteVars
<1> QED
  BY <1>1, <1>3, PageMoves DEF CosmeticInv

\* The change is over: the page is free, and shows what it was answered.
LEMMA ErrandEnds ==
    ASSUME CosmeticInv, Cosmetic!Listed \/ Cosmetic!Answered \/ Cosmetic!Reloaded
    PROVE  CosmeticInv'
<1>1. UNCHANGED <<Cosmetic!libraryVars, Cosmetic!remoteVars, loads, listing>>
      /\ errand' = Cosmetic!Idle
  BY DEF Cosmetic!Listed, Cosmetic!Answered, Cosmetic!Reloaded
<1>2. ErrandInv(errand')
  BY <1>1, IdleIsErrand, ErrandRests DEF Cosmetic!Idle
<1>3. CASE Cosmetic!Listed
  <2>1. errand.state \subseteq Presets /\ Genuine(errand.state)
    BY <1>3 DEF Cosmetic!Listed, CosmeticInv, ErrandInv, InLibrary
  <2>2. PageInv'
    BY <1>1, <1>3, <2>1
    DEF Cosmetic!Listed, CosmeticInv, PageInv, Pages, Genuine, Cosmetic!libraryVars,
        Cosmetic!remoteVars
  <2> QED
    BY <1>1, <1>2, <2>2, PageMoves
<1>4. CASE Cosmetic!Answered
  <2>1. errand.account \in Accounts /\ errand.state \subseteq was[errand.account]
    BY <1>4 DEF Cosmetic!Answered, CosmeticInv, ErrandInv, AtProvider
  <2>2. errand.state \subseteq Wardrobe
    BY <2>1 DEF CosmeticInv, RemoteInv
  <2>3. PageInv'
    BY <1>1, <1>4, <2>1, <2>2, NoneIsNothing
    DEF Cosmetic!Answered, CosmeticInv, PageInv, Pages, Genuine, Cosmetic!libraryVars,
        Cosmetic!remoteVars
  <2> QED
    BY <1>1, <1>2, <2>3, PageMoves
<1>5. CASE Cosmetic!Reloaded
  <2>1. PageInv'
    BY <1>1, <1>5 DEF Cosmetic!Reloaded, CosmeticInv, PageInv, Pages, Genuine,
        Cosmetic!libraryVars, Cosmetic!remoteVars
  <2> QED
    BY <1>1, <1>2, <2>1, PageMoves
<1> QED
  BY <1>3, <1>4, <1>5

LEMMA ErrandFailed ==
    ASSUME CosmeticInv, Cosmetic!Failed
    PROVE  CosmeticInv'
<1>1. UNCHANGED <<Cosmetic!libraryVars, Cosmetic!remoteVars, listing>>
  BY DEF Cosmetic!Failed
<1>2. page.account \in Accounts \cup {None} /\ page.serial \in Nat /\ errand \in Errands
  BY DEF CosmeticInv, PageInv, Pages, ErrandInv
<1>3. CASE errand.kind \in {"apply", "cape"} /\ page.account = errand.account
  <2>1. /\ Cosmetic!Loads(page.account) /\ page' = Cosmetic!Shown(page.account)
        /\ errand' = [errand EXCEPT !.at = "reload", !.serial = page.serial + 1]
    BY <1>3 DEF Cosmetic!Failed
  <2>2. PageInv'
    BY <1>1, <1>2, <2>1, LoadBegins DEF Cosmetic!libraryVars, Cosmetic!remoteVars
  <2>3. errand' \in Errands /\ errand'.at = "reload"
    <3>1. "reload" \in ErrandSteps /\ page.serial + 1 \in Nat
      BY <1>2 DEF ErrandSteps
    <3> QED
      BY <1>2, <2>1, <3>1 DEF Errands
  <2> QED
    BY <1>1, <2>2, <2>3, ErrandRests, PageMoves
<1>4. CASE ~(errand.kind \in {"apply", "cape"} /\ page.account = errand.account)
  <2>1. page' = [page EXCEPT !.busy = FALSE] /\ errand' = Cosmetic!Idle /\ UNCHANGED loads
    BY <1>4 DEF Cosmetic!Failed
  <2>2. PageInv'
    BY <1>1, <2>1 DEF CosmeticInv, PageInv, Pages, Genuine, Cosmetic!libraryVars,
        Cosmetic!remoteVars
  <2>3. ErrandInv(errand')
    BY <2>1, IdleIsErrand, ErrandRests DEF Cosmetic!Idle
  <2> QED
    BY <1>1, <2>2, <2>3, PageMoves
<1> QED
  BY <1>3, <1>4

LEMMA Restarted ==
    ASSUME CosmeticInv, Cosmetic!Restart
    PROVE  CosmeticInv'
<1>1. UNCHANGED <<Cosmetic!libraryVars, Cosmetic!remoteVars>> /\ errand' = Cosmetic!Idle
  BY DEF Cosmetic!Restart
<1>2. ErrandInv(errand')
  BY <1>1, IdleIsErrand, ErrandRests DEF Cosmetic!Idle
<1>3. PageInv'
  BY DEF Cosmetic!Restart, Cosmetic!FreshPage, CosmeticInv, PageInv, Pages, Genuine
<1> QED
  BY <1>1, <1>2, <1>3, PageMoves

LEMMA SessionSteps ==
    ASSUME CosmeticInv, Cosmetic!Session
    PROVE  CosmeticInv'
<1>1. /\ errand.at = "session" /\ errand \in Errands
      /\ UNCHANGED <<Cosmetic!libraryVars, Cosmetic!remoteVars, page, loads, listing>>
  BY DEF Cosmetic!Session, CosmeticInv, ErrandInv
<1>2. errand.account \in Accounts /\ errand.kind \in {"save", "apply", "cape"}
  BY <1>1 DEF CosmeticInv, ErrandInv, AtProvider
<1>3. CASE errand' = [errand EXCEPT !.at = "failed"]
  BY <1>1, <1>3, Fails
<1>4. CASE errand' = [errand EXCEPT !.at = "current"] /\ errand.kind = "save"
  <2>1. errand' \in Errands
    BY <1>1, <1>4, ErrandGoes DEF ErrandSteps
  <2>2. errand'.at = "current" /\ errand'.kind = "save" /\ errand'.account = errand.account
    BY <1>1, <1>4 DEF Errands
  <2>3. ErrandInv(errand')
    BY <1>2, <2>1, <2>2 DEF ErrandInv, InLibrary, AtProvider
  <2> QED
    BY <1>1, <2>3, ErrandMoves
<1>5. CASE errand' = [errand EXCEPT !.at = "upload"] /\ errand.kind = "apply"
  <2>1. errand' \in Errands
    BY <1>1, <1>5, ErrandGoes DEF ErrandSteps
  <2>2. /\ errand'.at = "upload" /\ errand'.kind = "apply" /\ errand'.account = errand.account
        /\ errand'.id = errand.id /\ errand'.model = errand.model
    BY <1>1, <1>5 DEF Errands
  <2>3. ErrandInv(errand')
    BY <1>1, <1>2, <1>5, <2>1, <2>2 DEF CosmeticInv, ErrandInv, InLibrary, AtProvider
  <2> QED
    BY <1>1, <2>3, ErrandMoves
<1>6. CASE errand.kind = "cape" /\ \E step \in {"send", "before"} :
                errand' = [errand EXCEPT !.at = step]
  <2>1. PICK step \in {"send", "before"} : errand' = [errand EXCEPT !.at = step]
    BY <1>6
  <2>2. errand' \in Errands
    BY <1>1, <2>1, ErrandGoes DEF ErrandSteps
  <2>3. errand'.at = step /\ errand'.kind = "cape" /\ errand'.account = errand.account
    BY <1>1, <1>6, <2>1 DEF Errands
  <2>4. ErrandInv(errand')
    BY <1>2, <2>2, <2>3 DEF ErrandInv, InLibrary, AtProvider
  <2> QED
    BY <1>1, <2>4, ErrandMoves
<1> QED
  BY <1>2, <1>3, <1>4, <1>5, <1>6 DEF Cosmetic!Session, Cosmetic!Fails, Cosmetic!Goes

LEMMA CurrentIsRead ==
    ASSUME CosmeticInv, Cosmetic!ReadCurrent
    PROVE  CosmeticInv'
<1>1. /\ errand.at = "current" /\ errand \in Errands
      /\ UNCHANGED <<Cosmetic!libraryVars, Cosmetic!remoteVars, page, loads, listing>>
  BY DEF Cosmetic!ReadCurrent, CosmeticInv, ErrandInv
<1>2. errand.account \in Accounts /\ errand.kind = "save"
  BY <1>1 DEF CosmeticInv, ErrandInv, AtProvider
<1> DEFINE now == skins[errand.account]
           next == [errand EXCEPT !.at = "image", !.image = now.skin, !.model = now.model]
<1>3. CASE errand' = [errand EXCEPT !.at = "failed"]
  BY <1>1, <1>3, Fails
<1>4. CASE now.skin # None /\ errand' = next
  <2>1. now.skin \in Pictures /\ now.model \in Looks
    BY <1>2, <1>4 DEF CosmeticInv, RemoteInv, Profiles
  <2>2. errand' \in Errands
    <3>1. "image" \in ErrandSteps
      BY DEF ErrandSteps
    <3> QED
      BY <1>1, <1>4, <2>1, <3>1 DEF Errands
  <2>3. errand'.at = "image" /\ errand'.kind = "save" /\ errand'.image \in Pictures
    BY <1>1, <1>2, <1>4, <2>1 DEF Errands
  <2>4. ErrandInv(errand')
    BY <2>2, <2>3 DEF ErrandInv, InLibrary, AtProvider
  <2> QED
    BY <1>1, <2>4, ErrandMoves
<1> QED
  BY <1>3, <1>4 DEF Cosmetic!ReadCurrent, Cosmetic!Fails

\* The image read for an upload is the one its identity was generated for, the
\* same that was listed.
LEMMA PresetIsRead ==
    ASSUME CosmeticInv, Cosmetic!ReadPreset
    PROVE  CosmeticInv'
<1>1. /\ errand.at = "upload" /\ errand \in Errands
      /\ UNCHANGED <<Cosmetic!libraryVars, Cosmetic!remoteVars, page, loads, listing>>
  BY DEF Cosmetic!ReadPreset, CosmeticInv, ErrandInv
<1>2. errand.account \in Accounts /\ errand.kind = "apply"
  BY <1>1 DEF CosmeticInv, ErrandInv, AtProvider
<1>3. CASE errand' = [errand EXCEPT !.at = "failed"]
  BY <1>1, <1>3, Fails
<1>4. CASE \E p \in Cosmetic!Record(errand.id) :
            errand' = [errand EXCEPT !.at = "send", !.image = p.image]
  <2>1. PICK p \in library.presets :
            p.id = errand.id /\ errand' = [errand EXCEPT !.at = "send", !.image = p.image]
    BY <1>4 DEF Cosmetic!Record
  <2>2. p \in Presets /\ p.image \in Pictures /\ <<p.id, p.image>> \in minted
    BY DEF CosmeticInv, LibraryInv, Genuine, Presets
  <2>3. PICK image \in Pictures : /\ <<errand.id, image>> \in minted
                                  /\ <<image, errand.model>> \in requested[errand.account]
    BY <1>1, <1>2 DEF CosmeticInv, ErrandInv, AtProvider
  <2>4. <<p.id, p.image>> = <<errand.id, image>>
    BY <2>1, <2>2, <2>3 DEF CosmeticInv, LibraryInv
  <2>5. errand' \in Errands
    <3>1. "send" \in ErrandSteps
      BY DEF ErrandSteps
    <3> QED
      BY <1>1, <2>1, <2>2, <3>1 DEF Errands
  <2>6. /\ errand'.at = "send" /\ errand'.kind = "apply" /\ errand'.image = p.image
        /\ errand'.model = errand.model /\ errand'.account = errand.account
    BY <1>1, <1>2, <2>1 DEF Errands
  <2>7. ErrandInv(errand')
    BY <1>2, <2>2, <2>3, <2>4, <2>5, <2>6 DEF ErrandInv, InLibrary, AtProvider
  <2> QED
    BY <1>1, <2>7, ErrandMoves
<1> QED
  BY <1>3, <1>4 DEF Cosmetic!ReadPreset, Cosmetic!Fails

LEMMA AnswerKinds ==
    ASSUME NEW answers \in SUBSET Wardrobe
    PROVE  answers \in {None} \cup (SUBSET Presets) \cup (SUBSET Wardrobe)
OBVIOUS

\* An account's state answers the page.
LEMMA Answers ==
    ASSUME CosmeticInv, errand.account \in Accounts,
           errand.kind \in {"save", "apply", "cape"},
           errand' = [errand EXCEPT !.at = "answered", !.state = {Cosmetic!State(errand.account)}]
    PROVE  ErrandInv(errand')
<1>1. errand \in Errands
  BY DEF CosmeticInv, ErrandInv
<1>2. /\ Cosmetic!State(errand.account) \in was[errand.account]
      /\ Cosmetic!State(errand.account) \in Wardrobe
  BY DEF CosmeticInv, RemoteInv
<1>3. "answered" \in ErrandSteps
  BY DEF ErrandSteps
<1>4. errand' \in Errands
  <2> DEFINE answered == {Cosmetic!State(errand.account)}
  <2>1. answered \subseteq Wardrobe
    BY <1>2
  <2>2. errand' = [errand EXCEPT !.at = "answered", !.state = answered]
    OBVIOUS
  <2> HIDE DEF answered
  <2>3. answered \in {None} \cup (SUBSET Presets) \cup (SUBSET Wardrobe)
    BY <2>1, AnswerKinds
  <2> HIDE <2>1
  <2> QED
    BY <1>1, <1>3, <2>2, <2>3 DEF Errands
<1>5. /\ errand'.at = "answered" /\ errand'.account = errand.account
      /\ errand'.kind = errand.kind /\ errand'.state = {Cosmetic!State(errand.account)}
  BY <1>1 DEF Errands
<1> QED
  BY <1>2, <1>4, <1>5 DEF ErrandInv, InLibrary, AtProvider

LEMMA Checks ==
    ASSUME CosmeticInv, Cosmetic!CheckOwned \/ Cosmetic!Confirm
    PROVE  CosmeticInv'
<1>1. /\ errand.at \in {"before", "confirm"} /\ errand \in Errands
      /\ UNCHANGED <<Cosmetic!libraryVars, Cosmetic!remoteVars, page, loads, listing>>
  BY DEF Cosmetic!CheckOwned, Cosmetic!Confirm, CosmeticInv, ErrandInv
<1>2. errand.account \in Accounts /\ errand.kind \in {"save", "apply", "cape"}
  BY <1>1 DEF CosmeticInv, ErrandInv, AtProvider
<1>3. CASE errand' = [errand EXCEPT !.at = "failed"]
  BY <1>1, <1>3, Fails
<1>4. CASE errand' = [errand EXCEPT !.at = "answered",
                                    !.state = {Cosmetic!State(errand.account)}]
  BY <1>1, <1>2, <1>4, Answers, ErrandMoves
<1>5. CASE errand.at = "before" /\ errand' = [errand EXCEPT !.at = "send"]
  <2>1. errand' \in Errands
    BY <1>1, <1>5, ErrandGoes DEF ErrandSteps
  <2>2. errand'.at = "send" /\ errand'.kind = errand.kind /\ errand'.account = errand.account
    BY <1>1, <1>5 DEF Errands
  <2>3. errand.kind # "apply"
    BY <1>5 DEF CosmeticInv, ErrandInv, AtProvider
  <2>4. ErrandInv(errand')
    BY <1>2, <2>1, <2>2, <2>3 DEF ErrandInv, InLibrary, AtProvider
  <2> QED
    BY <1>1, <2>4, ErrandMoves
<1> QED
  BY <1>3, <1>4, <1>5
  DEF Cosmetic!CheckOwned, Cosmetic!Confirm, Cosmetic!Fails, Cosmetic!Goes

\* The accounts may change while the library and the page stay, as long as
\* nothing is forgotten of what they were and what was asked for them.
LEMMA RemoteMoves ==
    ASSUME CosmeticInv, RemoteInv', UNCHANGED <<Cosmetic!libraryVars, page, loads, listing>>,
           \A x \in Accounts : was[x] \subseteq was'[x] /\ requested[x] \subseteq requested'[x],
           ErrandInv(errand')
    PROVE  CosmeticInv'
<1>1. LibraryInv'
  BY DEF CosmeticInv, LibraryInv, Genuine, Cosmetic!libraryVars
<1>2. PageInv'
  BY PageStays DEF Cosmetic!libraryVars
<1>3. InLibrary(errand)'
  BY DEF ErrandInv, InLibrary, Genuine, Cosmetic!libraryVars
<1>4. AtProvider(errand)'
  BY DEF ErrandInv, AtProvider, Cosmetic!libraryVars
<1> QED
  BY <1>1, <1>2, <1>3, <1>4 DEF CosmeticInv, ErrandInv

LEMMA RemoteBecomes ==
    ASSUME CosmeticInv, NEW x \in Accounts, NEW p \in Profiles, Cosmetic!Becomes(x, p),
           requested' \in [Accounts -> SUBSET ((Pictures \cup {None}) \X Looks)],
           \A y \in Accounts : requested[y] \subseteq requested'[y],
           <<p.skin, p.model>> \in requested'[x]
    PROVE  RemoteInv' /\ \A y \in Accounts : was[y] \subseteq was'[y]
<1>1. /\ skins' = [skins EXCEPT ![x] = p]
      /\ was' = [was EXCEPT ![x] = @ \cup {Cosmetic!Told(x, p)}]
  BY DEF Cosmetic!Becomes
<1>2. Cosmetic!Told(x, p) \in Wardrobe
  BY DEF Cosmetic!Told, Wardrobe, Profiles
<1>3. skins' \in [Accounts -> Profiles] /\ was' \in [Accounts -> SUBSET Wardrobe]
  BY <1>1, <1>2 DEF CosmeticInv, RemoteInv
<1>4. \A y \in Accounts : was[y] \subseteq was'[y]
  BY <1>1 DEF CosmeticInv, RemoteInv
<1>5. ASSUME NEW y \in Accounts
      PROVE  Cosmetic!State(y)' \in was'[y] /\ <<skins'[y].skin, skins'[y].model>> \in requested'[y]
  <2>1. CASE y = x
    <3>1. skins'[y] = p /\ Cosmetic!Told(x, p) \in was'[y]
      BY <1>1, <2>1 DEF CosmeticInv, RemoteInv
    <3> QED
      BY <2>1, <3>1 DEF Cosmetic!State
  <2>2. CASE y # x
    <3>1. skins'[y] = skins[y] /\ was'[y] = was[y]
      BY <1>1, <2>2 DEF CosmeticInv, RemoteInv
    <3>2. Cosmetic!State(y)' = Cosmetic!State(y)
      BY <3>1 DEF Cosmetic!State
    <3> QED
      BY <3>1, <3>2 DEF CosmeticInv, RemoteInv
  <2> QED
    BY <2>1, <2>2
<1> QED
  BY <1>3, <1>4, <1>5 DEF RemoteInv

\* A request that is granted, and whose answer arrives or not.
LEMMA Requested ==
    ASSUME CosmeticInv, errand.at = "send", errand.account \in Accounts,
           NEW granted \in BOOLEAN, NEW p,
           granted => p \in Profiles /\ <<p.skin, p.model>> \in requested[errand.account],
           Cosmetic!Requests(granted, p),
           UNCHANGED <<Cosmetic!libraryVars, requested, page, loads, listing>>
    PROVE  CosmeticInv'
<1>1. errand \in Errands /\ errand.kind \in {"save", "apply", "cape"}
  BY DEF CosmeticInv, ErrandInv, AtProvider
<1>2. ErrandInv([errand EXCEPT !.at = "failed"])
  <2>1. [errand EXCEPT !.at = "failed"] \in Errands
    BY <1>1, ErrandGoes DEF ErrandSteps
  <2>2. [errand EXCEPT !.at = "failed"].at = "failed"
    BY <1>1 DEF Errands
  <2> QED
    BY <2>1, <2>2, ErrandRests
<1>3. ErrandInv([errand EXCEPT !.at = "confirm"])
  <2> DEFINE next == [errand EXCEPT !.at = "confirm"]
  <2>1. next \in Errands
    BY <1>1, ErrandGoes DEF ErrandSteps
  <2>2. next.at = "confirm" /\ next.account = errand.account /\ next.kind = errand.kind
    BY <1>1 DEF Errands
  <2> HIDE DEF next
  <2>3. InLibrary(next)
    BY <2>2 DEF InLibrary
  <2>4. AtProvider(next)
    BY <1>1, <2>2 DEF AtProvider
  <2>5. ErrandInv(next)
    BY <2>1, <2>3, <2>4 DEF ErrandInv
  <2> QED
    BY <2>5 DEF next
<1>4. ErrandInv(errand')
  BY <1>2, <1>3 DEF Cosmetic!Requests, Cosmetic!Fails, Cosmetic!Goes
<1>5. CASE granted /\ Cosmetic!Becomes(errand.account, p)
  <2>1. RemoteInv' /\ \A y \in Accounts : was[y] \subseteq was'[y]
    BY <1>5, RemoteBecomes DEF CosmeticInv, RemoteInv
  <2> QED
    BY <1>4, <2>1, RemoteMoves
<1>6. CASE UNCHANGED <<skins, was>>
  BY <1>4, <1>6, ErrandMoves DEF Cosmetic!remoteVars
<1> QED
  BY <1>5, <1>6 DEF Cosmetic!Requests

LEMMA Sends ==
    ASSUME CosmeticInv, Cosmetic!SendSkin \/ Cosmetic!SendCape
    PROVE  CosmeticInv'
<1>1. /\ errand.at = "send" /\ errand \in Errands
      /\ UNCHANGED <<Cosmetic!libraryVars, requested, page, loads, listing>>
  BY DEF Cosmetic!SendSkin, Cosmetic!SendCape, CosmeticInv, ErrandInv
<1>2. errand.account \in Accounts
  BY <1>1 DEF CosmeticInv, ErrandInv, AtProvider
<1> DEFINE now == skins[errand.account]
<1>3. now \in Profiles /\ <<now.skin, now.model>> \in requested[errand.account]
  BY <1>2 DEF CosmeticInv, RemoteInv
<1>4. errand.model \in Looks /\ errand.cape \in Capes \cup {None}
  BY <1>1 DEF Errands
<1>5. CASE Cosmetic!SendSkin
  <2> DEFINE p == [now EXCEPT !.skin = errand.image, !.model = errand.model]
  <2>1. errand.image \in Pictures /\ <<errand.image, errand.model>> \in requested[errand.account]
    BY <1>5 DEF Cosmetic!SendSkin, CosmeticInv, ErrandInv, AtProvider
  <2>2. p \in Profiles /\ p.skin = errand.image /\ p.model = errand.model
    BY <1>3, <1>4, <2>1 DEF Profiles
  <2>3. Cosmetic!Requests(TRUE, p)
    BY <1>5 DEF Cosmetic!SendSkin
  <2> HIDE DEF p
  <2> QED
    BY <1>1, <1>2, <2>1, <2>2, <2>3, Requested
<1>6. CASE Cosmetic!SendCape
  <2> DEFINE p == [now EXCEPT !.cape = errand.cape]
             granted == errand.cape \in {None} \cup now.capes
  <2>1. p \in Profiles /\ p.skin = now.skin /\ p.model = now.model
    BY <1>3, <1>4 DEF Profiles
  <2>2. Cosmetic!Requests(granted, p) /\ granted \in BOOLEAN
    BY <1>6 DEF Cosmetic!SendCape
  <2> HIDE DEF p, granted
  <2> QED
    BY <1>1, <1>2, <1>3, <2>1, <2>2, Requested
<1> QED
  BY <1>5, <1>6

LEMMA ProfileMoves ==
    ASSUME CosmeticInv, NEW x \in Accounts, Cosmetic!ProfileChanges(x)
    PROVE  CosmeticInv'
<1>1. UNCHANGED <<Cosmetic!libraryVars, page, loads, listing, errand>>
  BY DEF Cosmetic!ProfileChanges
<1> DEFINE now == skins[x]
<1>2. now \in Profiles /\ <<now.skin, now.model>> \in requested[x]
      /\ requested \in [Accounts -> SUBSET ((Pictures \cup {None}) \X Looks)]
  BY DEF CosmeticInv, RemoteInv
<1>3. CASE \E image \in Pictures, model \in Cosmetic!Models :
            /\ Cosmetic!Becomes(x, [now EXCEPT !.skin = image, !.model = model])
            /\ requested' = [requested EXCEPT ![x] = @ \cup {<<image, model>>}]
  <2>1. PICK image \in Pictures, model \in Cosmetic!Models :
            /\ Cosmetic!Becomes(x, [now EXCEPT !.skin = image, !.model = model])
            /\ requested' = [requested EXCEPT ![x] = @ \cup {<<image, model>>}]
    BY <1>3
  <2> DEFINE p == [now EXCEPT !.skin = image, !.model = model]
  <2>2. model \in Looks
    BY DEF Cosmetic!Models, Looks
  <2>3. p \in Profiles /\ p.skin = image /\ p.model = model
    BY <1>2, <2>2 DEF Profiles
  <2>4. /\ requested' \in [Accounts -> SUBSET ((Pictures \cup {None}) \X Looks)]
        /\ \A y \in Accounts : requested[y] \subseteq requested'[y]
        /\ <<image, model>> \in requested'[x]
    BY <1>2, <2>1, <2>2
  <2>5. Cosmetic!Becomes(x, p)
    BY <2>1
  <2> HIDE DEF p
  <2>6. RemoteInv' /\ \A y \in Accounts : was[y] \subseteq was'[y]
    BY <2>3, <2>4, <2>5, RemoteBecomes
  <2> QED
    BY <1>1, <2>4, <2>6, RemoteMoves DEF CosmeticInv
<1>4. CASE \E cape \in now.capes :
            /\ Cosmetic!Becomes(x, [now EXCEPT !.capes = @ \ {cape},
                                               !.cape = IF @ = cape THEN None ELSE @])
            /\ UNCHANGED requested
  <2>1. PICK cape \in now.capes :
            /\ Cosmetic!Becomes(x, [now EXCEPT !.capes = @ \ {cape},
                                               !.cape = IF @ = cape THEN None ELSE @])
            /\ UNCHANGED requested
    BY <1>4
  <2> DEFINE p == [now EXCEPT !.capes = @ \ {cape}, !.cape = IF @ = cape THEN None ELSE @]
  <2>2. p \in Profiles /\ p.skin = now.skin /\ p.model = now.model
    BY <1>2 DEF Profiles
  <2>3. Cosmetic!Becomes(x, p)
    BY <2>1
  <2> HIDE DEF p
  <2>4. RemoteInv' /\ \A y \in Accounts : was[y] \subseteq was'[y]
    BY <1>2, <2>1, <2>2, <2>3, RemoteBecomes
  <2> QED
    BY <1>1, <2>1, <2>4, RemoteMoves DEF CosmeticInv
<1> QED
  BY <1>3, <1>4 DEF Cosmetic!ProfileChanges, Pictures

\* The library may change while the page and the accounts stay, as long as no
\* identity is forgotten.
LEMMA LibraryMoves ==
    ASSUME CosmeticInv, LibraryInv', minted \subseteq minted',
           UNCHANGED <<Cosmetic!remoteVars, page, loads, listing>>,
           errand' \in Errands, InLibrary(errand)',
           errand'.at \in {"idle", "image", "record", "file", "list", "listed", "failed", "reload"}
    PROVE  CosmeticInv'
<1>1. RemoteInv'
  BY DEF CosmeticInv, RemoteInv, Cosmetic!remoteVars, Cosmetic!State, Cosmetic!Told
<1>2. PageInv'
  BY PageStays DEF Cosmetic!remoteVars
<1>3. AtProvider(errand)'
  BY DEF AtProvider
<1> QED
  BY <1>1, <1>2, <1>3 DEF CosmeticInv, ErrandInv

\* The image is written under an identity no preset has.
LEMMA ImageWritten ==
    ASSUME CosmeticInv, Cosmetic!ImportImage
    PROVE  CosmeticInv'
<1>1. /\ errand.at = "image" /\ errand \in Errands
      /\ UNCHANGED <<library, edited, Cosmetic!remoteVars, page, loads, listing>>
  BY DEF Cosmetic!ImportImage, CosmeticInv, ErrandInv
<1>2. errand.image \in Pictures /\ errand.kind \in {"import", "save"}
  BY <1>1 DEF CosmeticInv, ErrandInv, InLibrary
<1>3. CASE UNCHANGED <<images, minted>> /\ \E step \in {"failed", "list"} :
                errand' = [errand EXCEPT !.at = step]
  BY <1>1, <1>3, Fails DEF Cosmetic!libraryVars
<1>4. CASE \E id \in Ids :
            /\ \A pair \in minted : pair[1] # id
            /\ minted' = minted \cup {<<id, errand.image>>}
            /\ images' = [images EXCEPT ![id] = errand.image]
            /\ errand' = [errand EXCEPT !.at = "record", !.id = id]
  <2>1. PICK id \in Ids :
            /\ \A pair \in minted : pair[1] # id
            /\ minted' = minted \cup {<<id, errand.image>>}
            /\ images' = [images EXCEPT ![id] = errand.image]
            /\ errand' = [errand EXCEPT !.at = "record", !.id = id]
    BY <1>4
  <2>2. \A p \in library.presets : p.id # id
    BY <2>1 DEF CosmeticInv, LibraryInv, Genuine
  <2>3. /\ images' \in [Ids -> Pictures \cup {None}] /\ images'[id] = errand.image
        /\ \A i \in Ids \ {id} : images'[i] = images[i]
    BY <1>2, <2>1 DEF CosmeticInv, LibraryInv
  <2>4. /\ minted' \subseteq Ids \X Pictures /\ minted \subseteq minted'
        /\ <<id, errand.image>> \in minted'
        /\ \A x, y \in minted' : x[1] = y[1] => x = y
    BY <1>2, <2>1 DEF CosmeticInv, LibraryInv
  <2>5. \A p \in library.presets : p.id \in Ids
    BY DEF CosmeticInv, LibraryInv, Presets
  <2>6. LibraryInv'
    BY <1>1, <2>2, <2>3, <2>4, <2>5 DEF CosmeticInv, LibraryInv, Genuine
  <2>7. errand' \in Errands
    <3>1. "record" \in ErrandSteps
      BY DEF ErrandSteps
    <3> QED
      BY <1>1, <2>1, <3>1 DEF Errands
  <2>8. /\ errand'.at = "record" /\ errand'.id = id /\ errand'.image = errand.image
        /\ errand'.kind = errand.kind
    BY <1>1, <2>1 DEF Errands
  <2>9. InLibrary(errand)'
    BY <1>1, <1>2, <2>2, <2>3, <2>4, <2>8 DEF InLibrary
  <2> QED
    BY <1>1, <2>4, <2>6, <2>7, <2>8, <2>9, LibraryMoves
<1> QED
  BY <1>3, <1>4 DEF Cosmetic!ImportImage, Cosmetic!Fails, Cosmetic!Goes

\* The step that a change of the library goes to carries nothing.
LEMMA LibraryWritten ==
    ASSUME CosmeticInv, LibraryInv', UNCHANGED <<minted, Cosmetic!remoteVars, page, loads, listing>>,
           NEW step \in {"list", "failed"}, errand' = [errand EXCEPT !.at = step]
    PROVE  CosmeticInv'
<1>1. step \in ErrandSteps /\ errand \in Errands
  BY DEF ErrandSteps, CosmeticInv, ErrandInv
<1>2. errand' \in Errands
  BY <1>1, ErrandGoes
<1>3. errand'.at = step
  BY <1>1 DEF Errands
<1>4. InLibrary(errand)'
  BY <1>3 DEF InLibrary
<1> QED
  BY <1>2, <1>3, <1>4, LibraryMoves

LEMMA RecordWritten ==
    ASSUME CosmeticInv, Cosmetic!ImportRecord
    PROVE  CosmeticInv'
<1>1. /\ errand.at = "record" /\ errand.kind \in {"import", "save"} /\ errand \in Errands
      /\ UNCHANGED <<minted, edited, Cosmetic!remoteVars, page, loads, listing>>
  BY DEF Cosmetic!ImportRecord, Cosmetic!Writing, CosmeticInv, ErrandInv
<1>2. /\ errand.id \in Ids /\ errand.image \in Pictures /\ <<errand.id, errand.image>> \in minted
      /\ errand.id \notin edited => images[errand.id] = errand.image
      /\ \A p \in library.presets : p.id # errand.id
  BY <1>1 DEF CosmeticInv, ErrandInv, InLibrary
<1>3. errand.model \in Looks
  BY <1>1 DEF Errands
<1> DEFINE fresh == [id |-> errand.id, model |-> errand.model, image |-> errand.image]
<1>4. CASE /\ library' = [readable |-> TRUE, presets |-> library.presets \cup {fresh}]
           /\ errand' = [errand EXCEPT !.at = "list"] /\ UNCHANGED images
  <2>1. fresh \in Presets /\ fresh.id = errand.id /\ fresh.image = errand.image
    BY <1>2, <1>3 DEF Presets
  <2> HIDE DEF fresh
  <2>2. LibraryInv'
    BY <1>1, <1>2, <1>4, <2>1 DEF CosmeticInv, LibraryInv, Genuine
  <2> QED
    BY <1>1, <1>4, <2>2, LibraryWritten
<1>5. CASE /\ errand' = [errand EXCEPT !.at = "failed"] /\ UNCHANGED library
           /\ images' \in {images, [images EXCEPT ![errand.id] = None]}
  <2>1. /\ images' \in [Ids -> Pictures \cup {None}]
        /\ \A i \in Ids \ {errand.id} : images'[i] = images[i]
    BY <1>5 DEF CosmeticInv, LibraryInv
  <2>2. \A p \in library.presets : p.id \in Ids
    BY DEF CosmeticInv, LibraryInv, Presets
  <2>3. LibraryInv'
    BY <1>1, <1>2, <1>5, <2>1, <2>2 DEF CosmeticInv, LibraryInv, Genuine
  <2> QED
    BY <1>1, <1>5, <2>3, LibraryWritten
<1> QED
  BY <1>4, <1>5 DEF Cosmetic!ImportRecord, Cosmetic!Fails, Cosmetic!Goes

\* A preset keeps its identity and its image under another model.
LEMMA ModelWritten ==
    ASSUME CosmeticInv, Cosmetic!ModelRecord
    PROVE  CosmeticInv'
<1>1. /\ errand.at = "record" /\ errand.kind = "model" /\ errand \in Errands
      /\ UNCHANGED <<images, minted, edited, Cosmetic!remoteVars, page, loads, listing>>
  BY DEF Cosmetic!ModelRecord, CosmeticInv, ErrandInv
<1>2. CASE errand' = [errand EXCEPT !.at = "failed"] /\ UNCHANGED library
  BY <1>1, <1>2, Fails DEF Cosmetic!libraryVars
<1> DEFINE turned == {[p EXCEPT !.model = errand.model] : p \in Cosmetic!Record(errand.id)}
           presets == (library.presets \ Cosmetic!Record(errand.id)) \cup turned
<1>3. CASE /\ library' = [library EXCEPT !.presets = presets]
           /\ errand' = [errand EXCEPT !.at = "listed", !.state = library'.presets]
  <2>1. errand.model \in Looks
    BY <1>1 DEF Errands
  <2>2. \A p \in presets : /\ p \in Presets
                          /\ \E q \in library.presets : q.id = p.id /\ q.image = p.image
    BY <2>1 DEF CosmeticInv, LibraryInv, Presets, Cosmetic!Record
  <2>3. \A p, q \in presets : p.id = q.id => p = q
    BY DEF CosmeticInv, LibraryInv, Presets, Cosmetic!Record
  <2> HIDE DEF presets
  <2>4. /\ library' \in [readable : BOOLEAN, presets : SUBSET Presets]
        /\ library'.presets = presets
    BY <1>3, <2>2 DEF CosmeticInv, LibraryInv
  <2>5. Genuine(presets)
    BY <2>2 DEF CosmeticInv, LibraryInv, Genuine
  <2>6. LibraryInv'
    BY <1>1, <2>2, <2>3, <2>4, <2>5 DEF CosmeticInv, LibraryInv, Genuine
  <2>7. errand' = [errand EXCEPT !.at = "listed", !.state = presets]
    BY <1>3, <2>4
  <2>8. errand' \in Errands
    <3>1. "listed" \in ErrandSteps /\ presets \subseteq Presets
      BY <2>2 DEF ErrandSteps
    <3>2. presets \in {None} \cup (SUBSET Presets) \cup (SUBSET Wardrobe)
      BY <3>1
    <3> QED
      BY <1>1, <2>7, <3>1, <3>2 DEF Errands
  <2>9. errand'.at = "listed" /\ errand'.state = presets
    BY <1>1, <2>7 DEF Errands
  <2>10. InLibrary(errand)'
    <3>1. presets \subseteq Presets /\ \A p \in presets : <<p.id, p.image>> \in minted'
      BY <1>1, <2>2, <2>5 DEF Genuine
    <3> QED
      BY <2>9, <3>1 DEF InLibrary, Genuine
  <2> QED
    BY <1>1, <2>6, <2>8, <2>9, <2>10, LibraryMoves
<1> QED
  BY <1>2, <1>3 DEF Cosmetic!ModelRecord, Cosmetic!Fails

LEMMA PresetRemoved ==
    ASSUME CosmeticInv, Cosmetic!RemoveRecord
    PROVE  CosmeticInv'
<1>1. /\ errand.at = "record" /\ errand.kind = "remove" /\ errand \in Errands
      /\ UNCHANGED <<images, minted, edited, Cosmetic!remoteVars, page, loads, listing>>
  BY DEF Cosmetic!RemoveRecord, CosmeticInv, ErrandInv
<1>2. errand.id \in Ids
  BY <1>1 DEF CosmeticInv, ErrandInv, InLibrary
<1>3. CASE errand' = [errand EXCEPT !.at = "failed"] /\ UNCHANGED library
  BY <1>1, <1>3, Fails DEF Cosmetic!libraryVars
<1>4. CASE /\ \E p \in Cosmetic!Record(errand.id) :
                library' = [library EXCEPT !.presets = @ \ {p}]
           /\ errand' = [errand EXCEPT !.at = "file"]
  <2>1. PICK p \in library.presets :
            p.id = errand.id /\ library' = [library EXCEPT !.presets = @ \ {p}]
    BY <1>4 DEF Cosmetic!Record
  <2>2. /\ library' \in [readable : BOOLEAN, presets : SUBSET Presets]
        /\ library'.presets = library.presets \ {p}
    BY <2>1 DEF CosmeticInv, LibraryInv
  <2>3. \A q \in library'.presets : q.id # errand.id
    BY <2>1, <2>2 DEF CosmeticInv, LibraryInv
  <2>4. LibraryInv'
    BY <1>1, <2>2 DEF CosmeticInv, LibraryInv, Genuine
  <2>5. errand' \in Errands
    BY <1>1, <1>4, ErrandGoes DEF ErrandSteps
  <2>6. errand'.at = "file" /\ errand'.id = errand.id
    BY <1>1, <1>4 DEF Errands
  <2>7. InLibrary(errand)'
    BY <1>2, <2>3, <2>6 DEF InLibrary
  <2> QED
    BY <1>1, <2>4, <2>5, <2>6, <2>7, LibraryMoves
<1> QED
  BY <1>3, <1>4 DEF Cosmetic!RemoveRecord, Cosmetic!Fails, Cosmetic!Goes

LEMMA FileRemoved ==
    ASSUME CosmeticInv, Cosmetic!RemoveFile
    PROVE  CosmeticInv'
<1>1. /\ errand.at = "file"
      /\ UNCHANGED <<library, minted, edited, Cosmetic!remoteVars, page, loads, listing>>
  BY DEF Cosmetic!RemoveFile
<1>2. errand.id \in Ids /\ \A p \in library.presets : p.id # errand.id
  BY <1>1 DEF CosmeticInv, ErrandInv, InLibrary
<1>3. CASE UNCHANGED images /\ errand' = [errand EXCEPT !.at = "failed"]
  BY <1>1, <1>3, Fails DEF Cosmetic!libraryVars
<1>4. CASE images' = [images EXCEPT ![errand.id] = None] /\ errand' = [errand EXCEPT !.at = "list"]
  <2>1. /\ images' \in [Ids -> Pictures \cup {None}]
        /\ \A i \in Ids \ {errand.id} : images'[i] = images[i]
    BY <1>4 DEF CosmeticInv, LibraryInv
  <2>2. \A p \in library.presets : p.id \in Ids
    BY DEF CosmeticInv, LibraryInv, Presets
  <2>3. LibraryInv'
    BY <1>1, <1>2, <2>1, <2>2 DEF CosmeticInv, LibraryInv, Genuine
  <2> QED
    BY <1>1, <1>4, <2>3, LibraryWritten
<1> QED
  BY <1>3, <1>4 DEF Cosmetic!RemoveFile, Cosmetic!Fails, Cosmetic!Goes

LEMMA LibraryListed ==
    ASSUME CosmeticInv, Cosmetic!List
    PROVE  CosmeticInv'
<1>1. /\ errand \in Errands
      /\ UNCHANGED <<Cosmetic!libraryVars, Cosmetic!remoteVars, page, loads, listing>>
  BY DEF Cosmetic!List, CosmeticInv, ErrandInv
<1>2. CASE errand' = [errand EXCEPT !.at = "failed"]
  BY <1>1, <1>2, Fails
<1>3. CASE errand' = [errand EXCEPT !.at = "listed", !.state = library.presets]
  <2>1. library.presets \subseteq Presets /\ Genuine(library.presets)
    BY DEF CosmeticInv, LibraryInv
  <2>2. errand' \in Errands
    <3>1. /\ "listed" \in ErrandSteps
          /\ library.presets \in {None} \cup (SUBSET Presets) \cup (SUBSET Wardrobe)
      BY <2>1 DEF ErrandSteps
    <3> QED
      BY <1>1, <1>3, <3>1 DEF Errands
  <2>3. errand'.at = "listed" /\ errand'.state = library.presets
    BY <1>1, <1>3 DEF Errands
  <2>4. ErrandInv(errand')
    BY <2>1, <2>2, <2>3 DEF ErrandInv, InLibrary, AtProvider
  <2> QED
    BY <1>1, <2>4, ErrandMoves
<1> QED
  BY <1>2, <1>3 DEF Cosmetic!List, Cosmetic!Fails

\* An image that somebody edits is excused from then on.
LEMMA FilesEdited ==
    ASSUME CosmeticInv, Cosmetic!FileChanges
    PROVE  CosmeticInv'
<1>1. UNCHANGED <<minted, Cosmetic!remoteVars, page, loads, listing, errand>>
  BY DEF Cosmetic!FileChanges
<1>2. \A p \in library.presets : p.id \in Ids
  BY DEF CosmeticInv, LibraryInv, Presets
<1>3. LibraryInv' /\ library'.presets = library.presets /\ edited \subseteq edited'
      /\ \A i \in Ids \ edited' : images'[i] = images[i]
  <2>1. CASE \E i \in Ids, image \in Pictures \cup {None} :
                /\ images' = [images EXCEPT ![i] = image]
                /\ edited' = edited \cup {i} /\ UNCHANGED library
    <3>1. PICK i \in Ids, image \in Pictures \cup {None} :
                /\ images' = [images EXCEPT ![i] = image]
                /\ edited' = edited \cup {i} /\ UNCHANGED library
      BY <2>1
    <3>2. /\ images' \in [Ids -> Pictures \cup {None}]
          /\ \A j \in Ids \ {i} : images'[j] = images[j]
      BY <3>1 DEF CosmeticInv, LibraryInv
    <3> QED
      BY <1>1, <1>2, <3>1, <3>2 DEF CosmeticInv, LibraryInv, Genuine
  <2>2. CASE library' = [library EXCEPT !.readable = FALSE] /\ UNCHANGED <<images, edited>>
    <3>1. /\ library' \in [readable : BOOLEAN, presets : SUBSET Presets]
          /\ library'.presets = library.presets
      BY <2>2 DEF CosmeticInv, LibraryInv
    <3> QED
      BY <1>1, <2>2, <3>1 DEF CosmeticInv, LibraryInv, Genuine
  <2> QED
    BY <2>1, <2>2 DEF Cosmetic!FileChanges, Pictures
<1>4. RemoteInv'
  BY <1>1 DEF CosmeticInv, RemoteInv, Cosmetic!remoteVars, Cosmetic!State, Cosmetic!Told
<1>5. PageInv'
  BY <1>1, PageStays DEF Cosmetic!remoteVars
<1>6. ErrandInv(errand)'
  <2>1. InLibrary(errand)'
    BY <1>1, <1>3 DEF CosmeticInv, ErrandInv, InLibrary, Genuine
  <2>2. AtProvider(errand)'
    BY <1>1 DEF CosmeticInv, ErrandInv, AtProvider, Cosmetic!remoteVars
  <2> QED
    BY <1>1, <2>1, <2>2 DEF CosmeticInv, ErrandInv
<1> QED
  BY <1>3, <1>4, <1>5, <1>6 DEF CosmeticInv

\* Every step keeps the invariant.
LEMMA CosmeticStep == CosmeticInv /\ [Cosmetic!CosmeticsNext]_cosmeticsVars => CosmeticInv'
<1> SUFFICES ASSUME CosmeticInv, [Cosmetic!CosmeticsNext]_cosmeticsVars PROVE CosmeticInv'
  OBVIOUS
<1>1. CASE \E image \in Pictures, model \in Cosmetic!Models : Cosmetic!ImportFile(image, model)
  BY <1>1, FileTask
<1>2. CASE \E id \in Ids, model \in Cosmetic!Models : Cosmetic!SetModel(id, model)
  BY <1>2, PresetTasks
<1>3. CASE \E id \in Ids : Cosmetic!RemovePreset(id)
  <2>1. "slim" \in Cosmetic!Models
    BY DEF Cosmetic!Models
  <2> QED
    BY <1>3, <2>1, PresetTasks
<1>4. CASE \E p \in page.listed : Cosmetic!Apply(p)
  BY <1>4, SkinTask
<1>5. CASE Cosmetic!SaveCurrent \/ \E cape \in Capes \cup {None} : Cosmetic!ChangeCape(cape)
  BY <1>5, AccountTasks
<1>6. CASE Cosmetic!Refresh \/ \E x \in Accounts \cup {None} : Cosmetic!ChooseAccount(x)
  BY <1>6, AccountLoads
<1>7. CASE \E l \in loads : Cosmetic!LoadReads(l) \/ Cosmetic!LoadAnswers(l)
  BY <1>7, LoadAdvances
<1>8. CASE Cosmetic!ListReads \/ Cosmetic!ListAnswers
  BY <1>8, Listing
<1>9. CASE Cosmetic!ImportImage
  BY <1>9, ImageWritten
<1>10. CASE Cosmetic!ImportRecord
  BY <1>10, RecordWritten
<1>11. CASE Cosmetic!ModelRecord
  BY <1>11, ModelWritten
<1>12. CASE Cosmetic!RemoveRecord
  BY <1>12, PresetRemoved
<1>13. CASE Cosmetic!RemoveFile
  BY <1>13, FileRemoved
<1>14. CASE Cosmetic!List
  BY <1>14, LibraryListed
<1>15. CASE Cosmetic!Listed \/ Cosmetic!Answered \/ Cosmetic!Reloaded
  BY <1>15, ErrandEnds
<1>16. CASE Cosmetic!Session
  BY <1>16, SessionSteps
<1>17. CASE Cosmetic!ReadCurrent
  BY <1>17, CurrentIsRead
<1>18. CASE Cosmetic!ReadPreset
  BY <1>18, PresetIsRead
<1>19. CASE Cosmetic!CheckOwned \/ Cosmetic!Confirm
  BY <1>19, Checks
<1>20. CASE Cosmetic!SendSkin \/ Cosmetic!SendCape
  BY <1>20, Sends
<1>21. CASE Cosmetic!Failed
  BY <1>21, ErrandFailed
<1>22. CASE \E x \in Accounts : Cosmetic!ProfileChanges(x)
  BY <1>22, ProfileMoves
<1>23. CASE Cosmetic!FileChanges
  BY <1>23, FilesEdited
<1>24. CASE Cosmetic!Restart
  BY <1>24, Restarted
<1>25. CASE UNCHANGED cosmeticsVars
  <2>1. UNCHANGED <<Cosmetic!libraryVars, Cosmetic!remoteVars, page, loads, listing, errand>>
    BY <1>25 DEF cosmeticsVars, Cosmetic!libraryVars, Cosmetic!remoteVars
  <2> QED
    BY <2>1, ErrandMoves DEF CosmeticInv
<1> QED
  BY <1>1, <1>2, <1>3, <1>4, <1>5, <1>6, <1>7, <1>8, <1>9, <1>10, <1>11, <1>12, <1>13, <1>14,
     <1>15, <1>16, <1>17, <1>18, <1>19, <1>20, <1>21, <1>22, <1>23, <1>24, <1>25
  DEF Cosmetic!CosmeticsNext, Pictures

\* The invariant is enough for what the players see.
LEMMA CosmeticSound ==
    CosmeticInv =>
        Cosmetic!LibraryIsWhole /\ Cosmetic!ShownIsTrue /\ Cosmetic!WornIsChosen
  BY DEF CosmeticInv, LibraryInv, PageInv, RemoteInv, Cosmetic!LibraryIsWhole,
       Cosmetic!ShownIsTrue, Cosmetic!WornIsChosen, Cosmetic!Unaltered

-----------------------------------------------------------------------------
(* The parts together *)

\* A behaviour is one of each part: those that are not chosen stay as they are.
THEOREM PartsApart ==
    StateSpec =>
        /\ Spec /\ TransitionSpec /\ Config!Spec /\ Settings!Spec /\ Observed!Spec
        /\ Cosmetic!CosmeticsInit /\ [][Cosmetic!CosmeticsNext]_cosmeticsVars
<1>1. StateInit =>
        /\ Init /\ TransitionInit /\ Config!Init /\ Settings!Init /\ Observed!Init
        /\ Cosmetic!CosmeticsInit
  BY DEF StateInit
<1> DEFINE Moves == [StateNext]_<<vars, transitionVars, otherVars, part>>
<1>2. Moves => [Next]_vars /\ [TransitionNext]_transitionVars
  BY DEF StateNext
<1>3. Moves => [Cosmetic!CosmeticsNext]_cosmeticsVars
  BY DEF StateNext, otherVars
<1>4. Moves => [Config!Next]_(Config!vars)
  <2>1. UNCHANGED configVars => UNCHANGED Config!vars
    BY DEF configVars, Config!vars, Config!bounds, Config!past
  <2> QED
    BY <2>1 DEF StateNext, otherVars
<1>5. Moves => [Settings!Next]_(Settings!vars)
  <2>1. UNCHANGED registryVars => UNCHANGED Settings!vars
    BY DEF registryVars, Settings!vars
  <2> QED
    BY <2>1 DEF StateNext, otherVars
<1>6. Moves => [Observed!Next]_(Observed!vars)
  <2>1. UNCHANGED observedVars => UNCHANGED Observed!vars
    BY DEF observedVars, Observed!vars, Observed!store, Observed!bounds
  <2> QED
    BY <2>1 DEF StateNext, otherVars
<1> QED
  BY <1>1, <1>2, <1>3, <1>4, <1>5, <1>6, PTL
  DEF StateSpec, Spec, TransitionSpec, Config!Spec, Settings!Spec, Observed!Spec

\* The invariant of config.json holds in every state.
THEOREM ConfigInvariance == Config!Spec => []ConfigInv
<1>1. ConfigInv /\ [Config!Next]_(Config!vars) => ConfigInv'
  BY ConfigStep
<1> QED
  BY <1>1, ConfigStart, PTL DEF Config!Spec

\* The invariant of instances.json holds in every state.
THEOREM RegistryInvariance == Settings!Spec => []RegistryInv
<1>1. RegistryInv /\ [Settings!Next]_(Settings!vars) => RegistryInv'
  BY RegistryStep
<1> QED
  BY <1>1, RegistryStart, PTL DEF Settings!Spec

\* The invariant of addresses without a digest holds in every state.
THEOREM StoreInvariance == Observed!Spec => []StoreInv
<1>1. StoreInv /\ [Observed!Next]_(Observed!vars) => StoreInv'
  BY StoreStep
<1> QED
  BY <1>1, StoreInit, PTL DEF Observed!Spec

\* The invariant of skins and capes holds in every state.
THEOREM CosmeticInvariance ==
    Cosmetic!CosmeticsInit /\ [][Cosmetic!CosmeticsNext]_cosmeticsVars => []CosmeticInv
  BY CosmeticStart, CosmeticStep, PTL

\* The invariant of one transfer holds in every state of a behaviour that is one.
THEOREM TransferInvariance == StateSpec => [](part = "transfer" => TransferInv)
<1> DEFINE Inv == part = "transfer" => TransferInv
<1>1. StateInit => Inv
  BY TransferInit DEF StateInit
<1>2. Inv /\ [StateNext]_<<vars, transitionVars, otherVars, part>> => Inv'
  <2> SUFFICES ASSUME Inv, [StateNext]_<<vars, transitionVars, otherVars, part>>,
                      part' = "transfer"
               PROVE  TransferInv'
    OBVIOUS
  <2>1. part = "transfer" /\ [Transfers!Next]_(Transfers!vars)
    <3>1. UNCHANGED transferVars => UNCHANGED Transfers!vars
      BY DEF transferVars, Transfers!vars
    <3> QED
      BY <3>1 DEF StateNext, otherVars
  <2> QED
    BY <2>1, TransferStep
<1> QED
  BY <1>1, <1>2, PTL DEF StateSpec

\* What is downloaded is what was asked for, or is refused: a transfer stages
\* nothing that it did not verify and never goes to a less secure address, and an
\* address without a digest keeps giving what it gave first while its record is
\* there, however acquisitions overlap, fail and race to rename it
\* (TransfersHold).
THEOREM TransfersSound == StateSpec => []TransfersHold
<1>1. TransferInv => Transfers!TypeOK /\ Transfers!VerifiedOrGone /\ Transfers!StaysSecure
  BY DEF TransferInv
<1>2. StoreInv => Observed!TypeOK /\ Observed!OfItsAddress /\ Observed!ChangeIsNoticed
  BY StoreSound
<1>3. (part = "transfer" => TransferInv) /\ StoreInv => TransfersHold
  BY <1>1, <1>2 DEF TransfersHold
<1> QED
  BY <1>3, PartsApart, TransferInvariance, StoreInvariance, PTL

\* The documents of the launcher stay what they are: config.json and
\* instances.json are never written over when they cannot be read, keep what was
\* acknowledged through migrations, crashes and commands that overlap, and every
\* skin has its image, is shown for the account it is of and worn as it was
\* chosen (DocumentsHold).
THEOREM DocumentsSound == StateSpec => []DocumentsHold
<1>1. ConfigInv => Config!TypeOK /\ Config!MalformedStays /\ Config!NothingIsLost
  BY ConfigSound
<1>2. RegistryInv =>
        /\ Settings!TypeOK /\ Settings!RegistryStaysReadable
        /\ Settings!MigrationKeeps /\ Settings!InstallsFollow
  BY RegistrySound
<1>3. ConfigInv /\ RegistryInv /\ CosmeticInv => DocumentsHold
  BY <1>1, <1>2, CosmeticSound DEF DocumentsHold
<1> QED
  BY <1>3, PartsApart, ConfigInvariance, RegistryInvariance, CosmeticInvariance, PTL
=============================================================================
