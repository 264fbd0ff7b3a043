----------------------------- MODULE ClientUpdate -----------------------------
(***************************************************************************)
(* The update of the Aurora client of one instance.  A preview offers the  *)
(* newest published release and fingerprints what it was made from; an     *)
(* approved update downloads, derives the preview once more under the      *)
(* instance and registry locks, and exchanges jars, documents and pin in a *)
(* transaction that is undone when a step of it fails.  Meanwhile other    *)
(* commands change the instance, releases are published, files change from *)
(* outside, the game is started, and the launcher may die.                 *)
(***************************************************************************)
EXTENDS Naturals, FiniteSets

CONSTANTS
    Latest,     \* releases are 1 .. Latest, in their order of precedence
    Embedded,   \* those the launcher was built with
    Apis,       \* versions of Fabric API
    ApiOf,      \* the one each release pins
    Kinds,      \* what may happen beside an update
    MaxUpsets,  \* bound: how often
    MaxUpdates, \* bound: approved updates
    None

Releases == 1 .. Latest
Jars == Releases \cup Apis

ASSUME ReleasesAssumption ==
    Latest \in Nat /\ Embedded \subseteq Releases /\ ApiOf \in [Releases -> Apis]
ASSUME BoundsAssumption ==
    /\ MaxUpsets \in Nat /\ MaxUpdates \in Nat
    /\ Kinds \subseteq {"fault", "crash", "edit", "command", "publish", "game"}
ASSUME NoneAssumption ==
    None \notin Jars /\ None \notin {"good", "other"} /\ Releases \cap Apis = {}

VARIABLES
    mods,      \* what lies under the name of each jar: published bytes, or others
    off,       \* jars that are disabled
    provided,  \* whether Fabric API is the provider's
    pin,       \* the release of the registry record
    state,     \* aurora-installed.json
    entry,     \* aurora-release.json, the entry of an earlier update
    published, \* the release manifest
    playing,   \* whether the game is starting or running
    step, approval, plan, before,
    staged, retired, backups, active, documented, registered,
    updates, upsets,
    edited,    \* jars somebody changed from outside
    exposed,   \* those an update had proven and not yet moved
    raced,     \* the provider's Fabric API went and came back during the downloads
    torn,      \* the installed state was written and the release entry was not
    unsettled  \* the launcher died in an update, or its rollback failed

instance == <<mods, off, provided, pin, state, entry>>
world == <<published, playing>>
transaction == <<approval, plan, before, staged, retired, backups, active, documented, registered>>
past == <<edited, exposed, raced, torn, unsettled>>
vars == <<instance, world, step, transaction, updates, upsets, past>>

Content == {None, "good", "other"}
State == [release : Releases, api : Apis]
Steps ==
    {"idle", "acquire", "commit", "guard", "stage", "retire", "activate", "state",
     "entry", "validate", "register", "verify", "cleanup", "undo", "return",
     "restate", "reenter", "unregister"}
Snapshots ==
    [pin : Releases, state : State, entry : Releases \cup {None},
     mods : [Jars -> Content], off : SUBSET Jars, provided : BOOLEAN]
NoPlan == [release |-> None, provided |-> FALSE]
NoBackups == [j \in Jars |-> None]

ASSUME NoneIsNoSnapshot == None \notin Snapshots

TypeOK ==
    /\ mods \in [Jars -> Content] /\ off \subseteq Jars /\ provided \in BOOLEAN
    /\ pin \in Releases /\ state \in State /\ entry \in Releases \cup {None}
    /\ published \subseteq Releases /\ playing \in BOOLEAN
    /\ step \in Steps
    /\ plan \in [release : Releases \cup {None}, provided : BOOLEAN]
    /\ staged \subseteq Jars /\ retired \subseteq Jars /\ active \subseteq staged
    /\ backups \in [Jars -> Content]
    /\ \A j \in active : mods[j] # None \/ j \in edited
    /\ {documented, registered, raced, torn, unsettled} \subseteq BOOLEAN
    /\ updates \in 0 .. MaxUpdates /\ upsets \in 0 .. MaxUpsets
    /\ edited \subseteq Jars /\ exposed \subseteq Jars

Own(s) == {s.release, s.api}

\* A bundled release, or one an update installed, with its jars enabled,
\* disabled or removed, and perhaps the provider's Fabric API in their place.
Init ==
    /\ pin \in {1, 2} \cap Releases
    /\ state = [release |-> pin, api |-> ApiOf[pin]]
    /\ entry = IF pin \in Embedded THEN None ELSE pin
    /\ off \in SUBSET Own(state) /\ provided \in BOOLEAN
    /\ mods \in [Jars -> {None, "good"}]
    /\ \A j \in Jars : mods[j] = "good" => j \in Own(state) \ off
    /\ provided => mods[state.api] = None
    /\ published \in {{pin}, Releases \ {Latest}, Releases}
    /\ playing = FALSE
    /\ step = "idle" /\ approval = None /\ plan = NoPlan /\ before = None
    /\ staged = {} /\ retired = {} /\ backups = NoBackups /\ active = {}
    /\ documented = FALSE /\ registered = FALSE
    /\ updates = 0 /\ upsets = 0
    /\ edited = {} /\ exposed = {} /\ raced = FALSE /\ torn = FALSE /\ unsettled = FALSE

Upset(kind) == kind \in Kinds /\ upsets < MaxUpsets /\ upsets' = upsets + 1
Fault == Upset("fault")
Calm == UNCHANGED upsets

\* The instance and registry locks, and with them the process states.
Locked == step \notin {"idle", "acquire", "commit"}
Guarded == Locked /\ step # "guard"

-----------------------------------------------------------------------------
(* The preview                                                             *)

Resolves(r) == r \in Embedded \/ entry = r

\* The jars of the installed state are those of its release; one may be absent.
Agrees == state.api = ApiOf[state.release] /\ \A j \in Own(state) : mods[j] # "other"

\* validate_instance.
Valid == pin = state.release /\ Resolves(pin) /\ Agrees

\* select_candidate.
Candidate ==
    LET newer == {r \in published : r > pin}
    IN IF newer = {} THEN None ELSE CHOOSE r \in newer : \A s \in newer : s <= r

Planned(r, fromProvider) == {r} \cup (IF fromProvider THEN {} ELSE {ApiOf[r]})

\* preflight_bootstrap, and no Aurora but the old and the new one.
Unblocked(r) ==
    /\ provided => state.api = ApiOf[r]
    /\ \A j \in Planned(r, provided) : j \notin off /\ mods[j] # "other"
    /\ \A s \in Releases \ {r, state.release} : mods[s] = None

\* fingerprint_update.
Fingerprint == <<pin, state, provided, mods, off, Candidate>>

Preview ==
    /\ step = "idle" /\ Valid
    /\ approval' = Fingerprint
    /\ approval' # approval
    /\ Calm
    /\ UNCHANGED <<instance, world, step, plan, before, staged, retired, backups, active, documented,
                   registered, updates, past>>

\* apply_update derives the preview from the manifest as it is now.
Apply ==
    /\ step = "idle" /\ approval # None /\ updates < MaxUpdates
    /\ updates' = updates + 1
    /\ IF ~playing /\ Valid /\ Fingerprint = approval /\ Candidate # None /\ Unblocked(Candidate)
       THEN step' = "acquire" /\ plan' = [NoPlan EXCEPT !.release = Candidate]
                /\ UNCHANGED approval
       ELSE approval' = None /\ UNCHANGED <<step, plan>>
    /\ Calm
    /\ UNCHANGED <<instance, world, before, staged, retired, backups, active, documented, registered,
                   past>>

Returned ==
    /\ step' = "idle" /\ approval' = None /\ plan' = NoPlan /\ before' = None
    /\ staged' = {} /\ retired' = {} /\ backups' = NoBackups /\ active' = {}
    /\ documented' = FALSE /\ registered' = FALSE

\* Whose Fabric API it is, is asked before the downloads.
Acquire ==
    /\ step = "acquire"
    /\ \/ /\ step' = "commit" /\ plan' = [plan EXCEPT !.provided = provided]
          /\ Calm
          /\ UNCHANGED <<approval, before, staged, retired, backups, active, documented, registered>>
       \/ Returned /\ Fault
    /\ UNCHANGED <<instance, world, updates, past>>

\* Mutant: what was derived before the downloads is trusted after them.
StillStopped == ~playing

\* commit_update: the world must still match the approval exactly.
StillApproved ==
    ~playing /\ Valid /\ Fingerprint = approval /\ Unblocked(plan.release)

Commit ==
    /\ step = "commit"
    /\ IF StillApproved
       THEN /\ step' = "guard"
            /\ before' = [pin |-> pin, state |-> state, entry |-> entry, mods |-> mods,
                          off |-> off, provided |-> provided]
            /\ UNCHANGED <<approval, plan, staged, retired, backups, active, documented, registered>>
            /\ raced' = (raced \/ (plan.provided # provided))
       ELSE Returned /\ UNCHANGED raced
    /\ Calm
    /\ UNCHANGED <<instance, world, updates, edited, exposed, torn, unsettled>>

\* lock_stopped.
Stopped == ~playing

Guard ==
    /\ step = "guard"
    /\ IF Stopped
       THEN /\ step' = "stage"
            /\ UNCHANGED transaction
       ELSE Returned
    /\ Calm
    /\ UNCHANGED <<instance, world, updates, past>>

-----------------------------------------------------------------------------
(* The transaction                                                         *)

ToStage == Planned(plan.release, plan.provided)
ToRetire ==
    {before.state.release} \cup (IF plan.provided THEN {} ELSE {before.state.api})

Inside == UNCHANGED <<off, provided, world, approval, plan, before, updates, edited, exposed,
                      raced>>
Fails == step' = "undo"

\* Copied beside its destination, and hashed there.
Stage(j) ==
    /\ step = "stage" /\ j \in ToStage \ staged
    /\ staged' = staged \cup {j}
    /\ \/ Calm /\ UNCHANGED step
       \/ Fails /\ Fault
    /\ Inside
    /\ UNCHANGED <<mods, pin, state, entry, retired, backups, active, documented,
                   registered, torn, unsettled>>

\* Whatever is there by now is renamed to a private name.
Retire(j) ==
    /\ step = "stage" /\ staged = ToStage
    /\ j \in ToRetire \ staged /\ mods[j] # None
    /\ \/ /\ backups' = [backups EXCEPT ![j] = mods[j]] /\ retired' = retired \cup {j}
          /\ mods' = [mods EXCEPT ![j] = None]
          /\ Calm /\ UNCHANGED step
       \/ Fails /\ Fault /\ UNCHANGED <<mods, retired, backups>>
    /\ Inside
    /\ UNCHANGED <<pin, state, entry, staged, active, documented, registered, torn, unsettled>>

Retired ==
    /\ step = "stage" /\ staged = ToStage
    /\ \A j \in ToRetire \ staged : mods[j] = None \/ j \in retired
    /\ step' = "activate" /\ Calm /\ Inside
    /\ UNCHANGED <<mods, pin, state, entry, staged, retired, backups, active,
                   documented, registered, torn, unsettled>>

\* A hard link, which refuses a name that is taken.  The published bytes may
\* be there already.
Activate(j) ==
    /\ step = "activate" /\ j \in staged \ active /\ mods[j] # "good"
    /\ \/ /\ mods[j] = None
          /\ mods' = [mods EXCEPT ![j] = "good"] /\ active' = active \cup {j}
          /\ Calm /\ UNCHANGED step
       \/ /\ \/ mods[j] = "other" /\ Calm
             \/ Fault
          /\ Fails /\ UNCHANGED <<mods, active>>
    /\ Inside
    /\ UNCHANGED <<pin, state, entry, staged, retired, backups, documented, registered,
                   torn, unsettled>>

Activated ==
    /\ step = "activate" /\ \A j \in staged : j \in active \/ mods[j] = "good"
    /\ step' = "state" /\ Calm /\ Inside
    /\ UNCHANGED <<mods, pin, state, entry, staged, retired, backups, active,
                   documented, registered, torn, unsettled>>

NewApi == IF plan.provided THEN before.state.api ELSE ApiOf[plan.release]

WriteState ==
    /\ step = "state"
    /\ \/ /\ state' = [release |-> plan.release, api |-> NewApi]
          /\ step' = "entry" /\ Calm
       \/ Fails /\ Fault /\ UNCHANGED state
    /\ Inside
    /\ UNCHANGED <<mods, pin, entry, staged, retired, backups, active, documented,
                   registered, torn, unsettled>>

\* The documents count as touched only when both are written.
WriteEntry ==
    /\ step = "entry"
    /\ \/ /\ entry' = plan.release /\ documented' = TRUE
          /\ step' = "validate" /\ Calm /\ UNCHANGED torn
       \/ Fails /\ Fault /\ torn' = TRUE /\ UNCHANGED <<entry, documented>>
    /\ Inside
    /\ UNCHANGED <<mods, pin, state, staged, retired, backups, active, registered,
                   unsettled>>

\* validate_instance with the pin that is about to be saved.
Validate ==
    /\ step = "validate"
    /\ \/ Agrees /\ step' = "register" /\ Calm
       \/ /\ \/ ~Agrees /\ Calm
             \/ Fault
          /\ Fails
    /\ Inside
    /\ UNCHANGED <<mods, pin, state, entry, staged, retired, backups, active,
                   documented, registered, torn, unsettled>>

Register ==
    /\ step = "register"
    /\ \/ /\ pin' = plan.release /\ registered' = TRUE
          /\ step' = "verify" /\ Calm
       \/ Fails /\ Fault /\ UNCHANGED <<pin, registered>>
    /\ Inside
    /\ UNCHANGED <<mods, state, entry, staged, retired, backups, active, documented,
                   torn, unsettled>>

\* verified_required_mods_with_manifest, against the registry as it is now.
Verify ==
    /\ step = "verify"
    /\ \/ Agrees /\ step' = "cleanup" /\ Calm
       \/ /\ \/ ~Agrees /\ Calm
             \/ Fault
          /\ Fails
    /\ Inside
    /\ UNCHANGED <<mods, pin, state, entry, staged, retired, backups, active,
                   documented, registered, torn, unsettled>>

\* The jars that were retired go one by one; a failure still undoes the rest.
Cleanup(j) ==
    /\ step = "cleanup" /\ backups[j] # None
    /\ \/ backups' = [backups EXCEPT ![j] = None] /\ Calm /\ UNCHANGED step
       \/ Fails /\ Fault /\ UNCHANGED backups
    /\ Inside
    /\ UNCHANGED <<mods, pin, state, entry, staged, retired, active, documented,
                   registered, torn, unsettled>>

Finish ==
    /\ step = "cleanup" /\ backups = NoBackups
    /\ Returned /\ Calm
    /\ UNCHANGED <<instance, world, updates, past>>

-----------------------------------------------------------------------------
(* The rollback ends at the first operation that fails                     *)

\* What is under private names stays there.
RollbackFails ==
    /\ Returned
    /\ unsettled' = TRUE
    /\ UNCHANGED <<instance, world, updates, edited, exposed, raced, torn>>

\* Whatever is there by now.
Undo(j) ==
    /\ step = "undo" /\ j \in active
    /\ \/ /\ mods[j] # None
          /\ mods' = [mods EXCEPT ![j] = None] /\ active' = active \ {j}
          /\ Calm /\ Inside
          /\ UNCHANGED <<pin, state, entry, step, staged, retired, backups, documented,
                         registered, torn, unsettled>>
       \/ mods[j] = None /\ Calm /\ RollbackFails
       \/ Fault /\ RollbackFails

\* Mutant: only the client itself is put back.
ReturnTheClient(j) ==
    /\ step = "undo" /\ active = {} /\ j \in retired
    /\ mods' = IF j \in Releases THEN [mods EXCEPT ![j] = backups[j]] ELSE mods
    /\ backups' = [backups EXCEPT ![j] = None] /\ retired' = retired \ {j}
    /\ Calm /\ Inside
    /\ UNCHANGED <<pin, state, entry, step, staged, active, documented, registered, torn, unsettled>>

\* Over whatever is there by now.
Return(j) ==
    /\ step = "undo" /\ active = {} /\ j \in retired
    /\ \/ /\ backups[j] # None
          /\ mods' = [mods EXCEPT ![j] = backups[j]]
          /\ backups' = [backups EXCEPT ![j] = None] /\ retired' = retired \ {j}
          /\ Calm /\ Inside
          /\ UNCHANGED <<pin, state, entry, step, staged, active, documented, registered,
                         torn, unsettled>>
       \/ backups[j] = None /\ Calm /\ RollbackFails
       \/ Fault /\ RollbackFails

Undone == step = "undo" /\ active = {} /\ retired = {}

RestoreState ==
    /\ Undone /\ documented /\ state # before.state
    /\ \/ /\ state' = before.state
          /\ Calm /\ Inside
          /\ UNCHANGED <<mods, pin, entry, step, staged, retired, backups, active, documented,
                         registered, torn, unsettled>>
       \/ Fault /\ RollbackFails

RestoreEntry ==
    /\ Undone /\ documented /\ state = before.state /\ entry # before.entry
    /\ \/ /\ entry' = before.entry
          /\ Calm /\ Inside
          /\ UNCHANGED <<mods, pin, state, step, staged, retired, backups, active, documented,
                         registered, torn, unsettled>>
       \/ Fault /\ RollbackFails

DocumentsBack == documented => state = before.state /\ entry = before.entry

\* The registry file as it was, since nobody else could write it.
RestoreRegistry ==
    /\ Undone /\ DocumentsBack /\ registered /\ pin # before.pin
    /\ \/ /\ pin' = before.pin
          /\ Calm /\ Inside
          /\ UNCHANGED <<mods, state, entry, step, staged, retired, backups, active, documented,
                         registered, torn, unsettled>>
       \/ Fault /\ RollbackFails

RolledBack ==
    /\ Undone /\ DocumentsBack /\ (registered => pin = before.pin)
    /\ Returned /\ Calm
    /\ UNCHANGED <<instance, world, updates, past>>

-----------------------------------------------------------------------------
(* Meanwhile                                                               *)

\* Other commands, under the instance lock: a jar of the launcher is disabled,
\* or enabled again where no second client is, and the provider's Fabric API
\* comes or goes.
Command ==
    /\ ~Locked /\ ~playing /\ Upset("command")
    /\ \/ \E j \in Own(state) :
            /\ mods[j] = "good" /\ j \notin off
            /\ mods' = [mods EXCEPT ![j] = None] /\ off' = off \cup {j}
            /\ UNCHANGED provided
       \/ \E j \in Own(state) \cap off :
            /\ mods[j] = None /\ ~(provided /\ j \in Apis)
            /\ j \in Releases => \A r \in Releases : mods[r] = None
            /\ mods' = [mods EXCEPT ![j] = "good"] /\ off' = off \ {j}
            /\ UNCHANGED provided
       \/ /\ \A j \in Apis : mods[j] = None
          /\ provided' = ~provided /\ UNCHANGED <<mods, off>>
    /\ UNCHANGED <<pin, state, entry, world, step, transaction, updates, past>>

\* The user puts other bytes under a name, or removes a jar.
Edit(j) ==
    /\ Upset("edit")
    /\ \E bytes \in {"other", None} \ {mods[j]} : mods' = [mods EXCEPT ![j] = bytes]
    /\ edited' = edited \cup {j}
    /\ exposed' = IF Locked THEN exposed \cup {j} ELSE exposed
    /\ UNCHANGED <<off, provided, pin, state, entry, world, step, transaction, updates, raced,
                   torn, unsettled>>

Publish ==
    /\ Upset("publish")
    /\ published' \in SUBSET Releases
    /\ UNCHANGED <<instance, playing, step, transaction, updates, past>>

\* Play, which the process states keep out of a transaction, and its end.
Play ==
    /\ ~Guarded /\ ~playing /\ Upset("game")
    /\ playing' = TRUE
    /\ UNCHANGED <<instance, published, step, transaction, updates, past>>

Quit ==
    /\ playing /\ playing' = FALSE /\ Calm
    /\ UNCHANGED <<instance, published, step, transaction, updates, past>>

\* The launcher dies.  No journal tells the next start of the update.
Crash ==
    /\ Upset("crash") /\ step # "idle"
    /\ Returned
    /\ unsettled' = (unsettled \/ Guarded)
    /\ UNCHANGED <<instance, world, updates, edited, exposed, raced, torn>>

Transaction ==
    \/ \E j \in Jars :
        \/ Stage(j) \/ Retire(j) \/ Activate(j) \/ Cleanup(j) \/ Undo(j) \/ Return(j)
    \/ Retired \/ Activated \/ WriteState \/ WriteEntry \/ Validate \/ Register \/ Verify
    \/ Finish \/ RestoreState \/ RestoreEntry \/ RestoreRegistry \/ RolledBack

Next ==
    \/ Preview \/ Apply \/ Acquire \/ Commit \/ Guard \/ Transaction
    \/ Command \/ (\E j \in Jars : Edit(j)) \/ Publish \/ Play \/ Quit \/ Crash

Spec == Init /\ [][Next]_vars

-----------------------------------------------------------------------------

Settled == ~unsettled /\ ~torn

\* "Any failure restores the exact previous bytes": an update that returns
\* has exchanged jars, documents and pin, or has left everything as it was,
\* whatever failed.  Excepted is a rollback that fails, and the installed
\* state when only the entry after it could not be written, which apply_update
\* does not undo; and it may leave out or add the Fabric API when the provider's
\* came or went in between.
AllOrNothing ==
    [][(before # None /\ step' = "idle" /\ ~unsettled') =>
        \/ /\ pin' = before.pin /\ entry' = before.entry /\ (torn' \/ state' = before.state)
           /\ \A j \in Jars \ edited : mods'[j] = before.mods[j]
        \/ /\ pin' = plan.release /\ entry' = pin'
           /\ state' = [release |-> pin', api |-> ApiOf[pin']]
           /\ \A j \in Planned(pin', provided \/ raced) \ edited : mods'[j] = "good"
           /\ \A j \in Own(before.state) \ edited :
                mods'[j] = "good" => j \in Own(state')]_vars

\* "The old valid Client jar stays recoverable": until the pin has moved, each
\* jar of the old client is in its place or under a private name, also after
\* a crash.
ClientRecoverable ==
    before # None /\ pin = before.pin =>
        \A j \in Own(before.state) \ edited :
            before.mods[j] = "good" => "good" \in {mods[j], backups[j]}

\* Two clients, two Fabric APIs, or a jar that is disabled and enabled at
\* once, never come of an update that overlaps other commands, or of one the
\* launcher dies in.  Excepted is a Fabric API of the provider that went during
\* the downloads and was back when the approval was looked at again.
NoDuplicates ==
    /\ \A r, s \in Releases \ edited : mods[r] # None /\ mods[s] # None => r = s
    /\ \A r \in (Releases \cap off) \ edited : mods[r] = None
    /\ ~raced => \A a \in Apis \ edited : provided \/ a \in off => mods[a] = None

\* After every update that returned the instance validates with its pin,
\* whose release is known and pins the recorded Fabric API.
ReadyAfterwards ==
    (step = "idle" /\ Settled) =>
        /\ pin = state.release /\ Resolves(pin) /\ state.api = ApiOf[pin]

\* Bytes nobody published are never replaced or removed, except those put
\* under a name after the update had proven it.
UserBytesSurvive ==
    [][\A j \in Jars \ exposed :
        (mods[j] = "other" /\ upsets' = upsets) => mods'[j] = "other"]_vars

\* Nothing of the instance changes under the game.
GameUndisturbed == [][playing /\ upsets' = upsets => UNCHANGED instance]_vars

\* The instance's jars, documents and pin fit together during an update and
\* after it: what was ready can be put back, no jar is there twice, and a
\* settled instance is ready.
ClientHolds == TypeOK /\ ClientRecoverable /\ NoDuplicates /\ ReadyAfterwards

\* An update leaves alone what is not its own: the user's files, and the
\* instance under a running game.
NothingElseTouched == UserBytesSurvive /\ GameUndisturbed

\* An update is done wholly or not at all, and leaves alone what is not its own.
UpdateIsExact == AllOrNothing /\ NothingElseTouched
=============================================================================
