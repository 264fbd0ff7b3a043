------------------------- MODULE InstanceLifecycle -------------------------
(***************************************************************************)
(* The launcher's instances: the registry file, the content of every       *)
(* instance directory, the launcher configuration, the game processes, and *)
(* the commands that change them.  Asynchronous commands (create, retry,   *)
(* install, modpack, delete, play, Aurora transition) run on Workers, one  *)
(* command per worker at a time and any number of workers in parallel;     *)
(* synchronous commands run one after another on the Main thread.          *)
(*                                                                         *)
(* A command is cut into one action per stretch of code that no other      *)
(* command can observe half-done: at every await, at every lock it takes,  *)
(* and between two writes to the disk.  registry_lock and the              *)
(* process-state mutex are blocking (their absence disables the step); the *)
(* content lock and the installation lock are try-locks (their absence is  *)
(* an error return).                                                       *)
(***************************************************************************)
EXTENDS Naturals, TLC

CONSTANTS
    Instances,    \* instance identifiers (UUIDs)
    Workers,      \* threads of the async runtime that run commands
    Main,         \* the thread that runs the synchronous commands
    Versions,     \* Minecraft/loader identities a configuration can name
    Names,        \* display names
    Preferences,  \* the part of the configuration other than the selection
    Commands,     \* the commands (and "crash") this run lets happen
    Broken,       \* a game/ directory without an installed-state manifest
    None

ASSUME NoneAssumption ==
    /\ None \notin Instances \cup Workers \cup {Main} \cup Versions \cup Names
    /\ Broken \notin Versions \cup {None}

ASSUME MainAssumption == Main \notin Workers

ASSUME PreferencesAssumption == Preferences # {}

Threads == Workers \cup {Main}

\* A desired configuration and an installed pin have the same shape: what
\* matches_installed compares.
Pins == [version : Versions, aurora : BOOLEAN]

Records ==
    [state : {"installing", "ready"}, name : Names,
     desired : Pins, installed : Pins, pack : BOOLEAN]

ASSUME NoneIsNoRecord == None \notin Records

Configurations ==
    [selected : Instances \cup {None}, preferences : Preferences]

\* What game/ can hold: a validated tree of a version, nothing (or a damaged
\* tree that an installation replaces), or a directory it refuses to touch.
Games == Versions \cup {None, Broken}

Views == [game : Games, aurora : Versions \cup {None}]

Statuses == {"stopped", "starting", "running", "exited", "failed"}

InstallLabels ==
    {"resolveConfig", "installGame", "stageGame", "retireGame", "promoteGame",
     "installAurora", "validate", "commitReady", "packContent", "abandonPack"}

PlayLabels ==
    {"capture", "resolvePlay", "prepared", "boundary", "starting", "spawn"}

DeleteLabels == {"delRegistry", "delSelection", "delFiles", "delRow"}

TransitionLabels ==
    {"txPrepared", "txRegistry", "txActivate", "txPersist", "txClean"}

MainLabels == {"selectRead", "selectWrite", "preferenceWrite"}

Labels ==
    {"idle", "readSelection", "writeSelection"} \cup InstallLabels
        \cup PlayLabels \cup DeleteLabels \cup TransitionLabels \cup MainLabels

VARIABLES
    \* on disk
    registry,      \* instances.json: a record, or None, per identifier
    game,          \* what game/ holds, in Games
    aurora,        \* the version aurora-installed.json was written for
    staging,       \* the complete tree in .install-staging, or None
    config,        \* launcher configuration
    \* in memory, shared
    process,       \* process_states: status per instance
    preparing,     \* preparations: instances with a Play reservation
    contentLock,   \* per instance: holder of with_instance_lock
    installLock,   \* per instance: holder of instance_installation_lock
    registryLock,  \* holder of registry_lock
    processLock,   \* holder of the process_states mutex across steps
    \* in memory, per thread
    pc,
    command,       \* the command the thread runs, or None
    target,        \* the instance it is about
    record,        \* the registry record the command works from
    view,          \* the installed state it captured
    draft,         \* the configuration it loaded
    \* history
    crossed        \* instances on which two installations have overlapped

disk == <<registry, game, aurora, staging, config>>
shared == <<process, preparing>>
locks == <<contentLock, installLock, registryLock, processLock>>
locals == <<pc, command, target, record, view, draft>>
launcher == <<disk, shared, locks, locals>>
vars == <<launcher, crossed>>

NoView == [game |-> None, aurora |-> None]

-----------------------------------------------------------------------------
(* Helpers *)

Blocks(status) == status \in {"starting", "running"}

\* validate_instance reports no problem for row r over game g and Aurora a.
Complete(r, g, a) ==
    /\ r.desired = r.installed
    /\ g = r.installed.version
    /\ a = IF r.installed.aurora THEN r.installed.version ELSE None

\* validate_instance reports Ready.
Ready(i) ==
    /\ registry[i] # None
    /\ registry[i].state = "ready"
    /\ Complete(registry[i], game[i], aurora[i])

Goto(t, label) == pc' = [pc EXCEPT ![t] = label]

\* The command returns, with or without an error: its locals are gone.
Return(t) ==
    /\ pc' = [pc EXCEPT ![t] = "idle"]
    /\ command' = [command EXCEPT ![t] = None]
    /\ target' = [target EXCEPT ![t] = None]
    /\ record' = [record EXCEPT ![t] = None]
    /\ view' = [view EXCEPT ![t] = NoView]
    /\ draft' = [draft EXCEPT ![t] = None]

\* Command c starts on instance i with record r.
Begin(t, c, i, r, label) ==
    /\ c \in Commands
    /\ pc[t] = "idle"
    /\ Goto(t, label)
    /\ command' = [command EXCEPT ![t] = c]
    /\ target' = [target EXCEPT ![t] = i]
    /\ record' = [record EXCEPT ![t] = r]
    /\ UNCHANGED <<view, draft>>

Step(t, from, to) ==
    /\ pc[t] = from
    /\ Goto(t, to)

KeepLocals == UNCHANGED <<command, target, record, view, draft>>

-----------------------------------------------------------------------------
(* Creation, retry and reconfiguration: the head of an installation *)

\* create_instance up to the installing record.  The identifier is a fresh
\* UUID: nothing on disk and no command in flight refers to it.
CreateInstance(t) ==
    /\ registryLock = None
    /\ \E i \in Instances, p \in Pins, n \in Names :
        LET r == [state |-> "installing", name |-> n, desired |-> p,
                  installed |-> p, pack |-> FALSE]
        IN  /\ registry[i] = None /\ game[i] = None
            /\ aurora[i] = None /\ staging[i] = None
            /\ i \notin {target[s] : s \in Threads} \cup {config.selected}
            /\ registry' = [registry EXCEPT ![i] = r]
            /\ Begin(t, "create", i, r, "installGame")
    /\ UNCHANGED <<game, aurora, staging, config, shared, locks>>

\* begin_pack_instance: as above, without Aurora, and marked as a modpack.
BeginPack(t) ==
    /\ registryLock = None
    /\ \E i \in Instances, v \in Versions, n \in Names :
        LET p == [version |-> v, aurora |-> FALSE]
            r == [state |-> "installing", name |-> n, desired |-> p,
                  installed |-> p, pack |-> TRUE]
        IN  /\ registry[i] = None /\ game[i] = None
            /\ aurora[i] = None /\ staging[i] = None
            /\ i \notin {target[s] : s \in Threads} \cup {config.selected}
            /\ registry' = [registry EXCEPT ![i] = r]
            /\ Begin(t, "pack", i, r, "installGame")
    /\ UNCHANGED <<game, aurora, staging, config, shared, locks>>

\* retry_instance_install up to its record.
RetryInstall(t) ==
    /\ registryLock = None
    /\ \E i \in Instances :
        /\ registry[i] # None
        /\ registry[i].state = "installing"
        /\ ~registry[i].pack
        /\ Begin(t, "retry", i, registry[i], "installGame")
    /\ UNCHANGED <<disk, shared, locks>>

\* install_instance_configuration reads the desired configuration, ...
InstallConfiguration(t) ==
    /\ registryLock = None
    /\ \E i \in Instances :
        /\ registry[i] # None
        /\ registry[i].state = "ready"
        /\ Begin(t, "install", i, registry[i], "resolveConfig")
    /\ UNCHANGED <<disk, shared, locks>>

\* ... resolves it outside the lock, and persists the new pin in whatever
\* record is there by then.
PersistPin(t) ==
    LET i == target[t]
        pinned == [registry[i] EXCEPT !.installed = record[t].desired,
                                      !.state = "installing"]
    IN  /\ pc[t] = "resolveConfig"
        /\ registryLock = None
        /\ IF registry[i] = None
           THEN /\ Return(t)
                /\ UNCHANGED registry
           ELSE /\ registry' = [registry EXCEPT ![i] = pinned]
                /\ Goto(t, "installGame")
                /\ record' = [record EXCEPT ![t] = pinned]
                /\ UNCHANGED <<command, target, view, draft>>
        /\ UNCHANGED <<game, aurora, staging, config, shared, locks>>

-----------------------------------------------------------------------------
(* The shared tail: install_instance_components *)

\* A failure of a step that holds nothing: resolution, preparation of the
\* runtime, an acquisition, Aurora's preflight, a write of the registry or of
\* the configuration.
InstallFails(t) ==
    /\ pc[t] \in {"resolveConfig", "installGame", "installAurora",
                  "validate", "commitReady", "readSelection", "writeSelection"}
    /\ Return(t)
    /\ UNCHANGED <<disk, shared, locks>>

\* install_game: the installation lock is a try-lock; a game/ that is not
\* recognizably the launcher's is a conflict; prepare_staging wipes whatever
\* an earlier attempt left.
StartGameInstall(t) ==
    LET i == target[t]
    IN  /\ pc[t] = "installGame"
        /\ IF installLock[i] = None /\ game[i] # Broken
           THEN /\ installLock' = [installLock EXCEPT ![i] = t]
                /\ staging' = [staging EXCEPT ![i] = None]
                /\ Goto(t, "stageGame")
                /\ KeepLocals
           ELSE /\ Return(t)
                /\ UNCHANGED <<installLock, staging>>
        /\ UNCHANGED <<registry, game, aurora, config, shared,
                       contentLock, registryLock, processLock>>

\* Acquisition, materialization, natives, validation and the manifest
\* written last: the staged tree is complete.
StageGame(t) ==
    LET i == target[t]
    IN  /\ Step(t, "stageGame", "retireGame")
        /\ staging' = [staging EXCEPT ![i] = record[t].installed.version]
        /\ KeepLocals
        /\ UNCHANGED <<registry, game, aurora, config, shared, locks>>

StageGameFails(t) ==
    LET i == target[t]
    IN  /\ pc[t] \in {"stageGame", "retireGame"}
        /\ installLock' = [installLock EXCEPT ![i] = None]
        /\ Return(t)
        /\ UNCHANGED <<disk, shared, contentLock, registryLock, processLock>>

\* promote_staged_game: move the previous game/ aside, if there is one, ...
RetireGame(t) ==
    LET i == target[t]
    IN  /\ Step(t, "retireGame", "promoteGame")
        /\ staging[i] # None
        /\ view' = [view EXCEPT ![t].game = game[i]]
        /\ game' = [game EXCEPT ![i] = None]
        /\ UNCHANGED <<registry, aurora, staging, config, shared, locks,
                       command, target, record, draft>>

\* Where install_instance_components goes once the game is in place.
AfterGame(t) ==
    IF command[t] = "pack" THEN "packContent"
    ELSE IF record[t].installed.aurora THEN "installAurora"
    ELSE "validate"

\* ... rename the staged tree into its place, ...
PromoteGame(t) ==
    LET i == target[t]
    IN  /\ Step(t, "promoteGame", AfterGame(t))
        /\ staging[i] # None
        /\ game' = [game EXCEPT ![i] = staging[i]]
        /\ staging' = [staging EXCEPT ![i] = None]
        /\ installLock' = [installLock EXCEPT ![i] = None]
        /\ view' = [view EXCEPT ![t] = NoView]
        /\ UNCHANGED <<registry, aurora, config, shared, contentLock,
                       registryLock, processLock, command, target, record,
                       draft>>

\* ... or try to put the previous one back.  When the instance directory is
\* gone, so are both trees.
PromoteGameFails(t) ==
    LET i == target[t]
    IN  /\ pc[t] = "promoteGame"
        /\ \E g \in {game[i]} \cup IF staging[i] = None THEN {}
                                  ELSE {view[t].game} :
            game' = [game EXCEPT ![i] = g]
        /\ installLock' = [installLock EXCEPT ![i] = None]
        /\ Return(t)
        /\ UNCHANGED <<registry, aurora, staging, config, shared,
                       contentLock, registryLock, processLock>>

\* install_aurora: artifacts verified first, aurora-installed.json last.
InstallAurora(t) ==
    LET i == target[t]
    IN  /\ Step(t, "installAurora", "validate")
        /\ aurora' = [aurora EXCEPT ![i] = record[t].installed.version]
        /\ KeepLocals
        /\ UNCHANGED <<registry, game, staging, config, shared, locks>>

\* Mutant: the validation report is not looked at.
ValidateNothing(t) ==
    /\ Step(t, "validate", "commitReady")
    /\ KeepLocals
    /\ UNCHANGED <<disk, shared, locks>>

\* The registry is loaded without registry_lock.  validate_instance answers
\* a missing row with an empty problem list.
ValidateInstall(t) ==
    LET i == target[t]
    IN  /\ pc[t] = "validate"
        /\ IF \/ registry[i] = None
              \/ Complete(registry[i], game[i], aurora[i])
           THEN Goto(t, "commitReady") /\ KeepLocals
           ELSE Return(t)
        /\ UNCHANGED <<disk, shared, locks>>

\* The ready commit: under registry_lock, on the row it finds.
CommitReady(t) ==
    LET i == target[t]
    IN  /\ Step(t, "commitReady", "readSelection")
        /\ registryLock = None
        /\ registry' = [registry EXCEPT ![i] =
                            IF @ = None THEN None
                            ELSE [@ EXCEPT !.state = "ready"]]
        /\ KeepLocals
        /\ UNCHANGED <<game, aurora, staging, config, shared, locks>>

\* complete_pack_instance: validation and commit under one registry_lock.
CompletePack(t) ==
    LET i == target[t]
    IN  /\ Step(t, "packContent", "readSelection")
        /\ registryLock = None
        /\ registry[i] # None
        /\ registry[i].state = "installing"
        /\ Complete(registry[i], game[i], aurora[i])
        /\ registry' = [registry EXCEPT ![i].state = "ready"]
        /\ KeepLocals
        /\ UNCHANGED <<game, aurora, staging, config, shared, locks>>

\* rollback_pack_install: the game tree goes only when it validates as the
\* one this pack installed.  A removal that fails, of content, of the tree or
\* of the instance directory, ends the rollback and retains the rest.
RollbackPack(t) ==
    LET i == target[t]
        proven == game[i] = record[t].desired.version
    IN  /\ pc[t] = "packContent"
        /\ \/ /\ proven
              /\ game' = [game EXCEPT ![i] = None]
              /\ Goto(t, "abandonPack")
              /\ KeepLocals
           \/ /\ \E g \in {game[i]} \cup IF proven THEN {None, Broken} ELSE {} :
                    game' = [game EXCEPT ![i] = g]
              /\ Return(t)
        /\ UNCHANGED <<registry, aurora, staging, config, shared, locks>>

\* abandon_pack_instance, whose registry write may fail.
AbandonPack(t) ==
    LET i == target[t]
        pending == registry[i] # None /\ registry[i].state = "installing"
                                      /\ registry[i].pack
    IN  /\ pc[t] = "abandonPack"
        /\ registryLock = None
        /\ \/ pending /\ registry' = [registry EXCEPT ![i] = None]
           \/ UNCHANGED registry
        /\ Return(t)
        /\ UNCHANGED <<game, aurora, staging, config, shared, locks>>

\* select_instance_if_unselected: two steps, and no lock.
ReadSelection(t) ==
    /\ pc[t] = "readSelection"
    /\ IF config.selected # None
       THEN Return(t)
       ELSE /\ Goto(t, "writeSelection")
            /\ draft' = [draft EXCEPT ![t] = config]
            /\ UNCHANGED <<command, target, record, view>>
    /\ UNCHANGED <<disk, shared, locks>>

WriteSelection(t) ==
    /\ pc[t] = "writeSelection"
    /\ config' = [draft[t] EXCEPT !.selected = target[t]]
    /\ Return(t)
    /\ UNCHANGED <<registry, game, aurora, staging, shared, locks>>

-----------------------------------------------------------------------------
(* Play: play_instance_with_target, launch::boundary, launch::process *)

\* PreparationGuard::acquire.
MayReserve(i) == i \notin preparing /\ ~Blocks(process[i])

ReservePlay(t) ==
    /\ processLock = None
    /\ \E i \in Instances :
        /\ MayReserve(i)
        /\ preparing' = preparing \cup {i}
        /\ Begin(t, "play", i, None, "capture")
    /\ UNCHANGED <<disk, process, locks>>

\* Every return of Play drops the guards it holds.
EndPlay(t) ==
    LET i == target[t]
    IN  /\ Return(t)
        /\ preparing' = preparing \ {i}
        /\ contentLock' = [contentLock EXCEPT ![i] = IF @ = t THEN None ELSE @]
        /\ registryLock' = IF registryLock = t THEN None ELSE registryLock

\* LaunchSnapshot::capture, without locks, then the process status.
CapturePlay(t) ==
    LET i == target[t]
    IN  /\ pc[t] = "capture"
        /\ processLock = None
        /\ IF registry[i] = None \/ Blocks(process[i])
           THEN EndPlay(t)
           ELSE /\ Goto(t, "resolvePlay")
                /\ record' = [record EXCEPT ![t] = registry[i]]
                /\ view' = [view EXCEPT ![t] = [game |-> game[i],
                                                aurora |-> aurora[i]]]
                /\ UNCHANGED <<command, target, draft, preparing,
                               contentLock, registryLock>>
        /\ UNCHANGED <<disk, process, installLock, processLock>>

\* resolve_instance_launch_plans validates once more before its awaits.
ResolvePlay(t) ==
    /\ pc[t] = "resolvePlay"
    /\ IF Ready(target[t])
       THEN /\ Goto(t, "prepared")
            /\ KeepLocals
            /\ UNCHANGED <<preparing, contentLock, registryLock>>
       ELSE EndPlay(t)
    /\ UNCHANGED <<disk, process, installLock, processLock>>

\* Metadata, runtime, session, mod compatibility, LaunchSpec assembly: each
\* may fail before the process is reserved.
PlayFails(t) ==
    /\ pc[t] \in {"resolvePlay", "prepared", "starting"}
    /\ EndPlay(t)
    /\ UNCHANGED <<disk, process, installLock, processLock>>

\* with_validated: the content try-lock, ...
EnterBoundary(t) ==
    LET i == target[t]
    IN  /\ pc[t] = "prepared"
        /\ IF contentLock[i] = None
           THEN /\ contentLock' = [contentLock EXCEPT ![i] = t]
                /\ Goto(t, "boundary")
                /\ KeepLocals
                /\ UNCHANGED <<preparing, registryLock>>
           ELSE EndPlay(t)
        /\ UNCHANGED <<disk, process, installLock, processLock>>

\* Mutant: the row is compared, the installed content is not looked at again.
BoundaryTrustsContent(t) ==
    /\ registry[target[t]] = record[t]
    /\ registry[target[t]].state = "ready"

\* The snapshot is unchanged and the instance validates as Ready.
BoundaryHolds(t) ==
    LET i == target[t]
    IN  /\ registry[i] = record[t]
        /\ view[t] = [game |-> game[i], aurora |-> aurora[i]]
        /\ Ready(i)

\* ... then registry_lock, the recapture and the final validation.
CheckBoundary(t) ==
    /\ pc[t] = "boundary"
    /\ registryLock = None
    /\ IF BoundaryHolds(t)
       THEN /\ registryLock' = t
            /\ Goto(t, "starting")
            /\ KeepLocals
            /\ UNCHANGED <<preparing, contentLock>>
       ELSE EndPlay(t)
    /\ UNCHANGED <<disk, process, installLock, processLock>>

\* spawn_supervised_with_bridge reserves Starting, ...
StartProcess(t) ==
    LET i == target[t]
    IN  /\ pc[t] = "starting"
        /\ processLock = None
        /\ IF Blocks(process[i])
           THEN EndPlay(t) /\ UNCHANGED process
           ELSE /\ process' = [process EXCEPT ![i] = "starting"]
                /\ Goto(t, "spawn")
                /\ KeepLocals
                /\ UNCHANGED <<preparing, contentLock, registryLock>>
        /\ UNCHANGED <<disk, installLock, processLock>>

\* Mutant: a failed spawn returns without recording it.
SpawnForgetsFailure(t) ==
    /\ pc[t] = "spawn"
    /\ processLock = None
    /\ \E status \in {"running", "starting"} :
        process' = [process EXCEPT ![target[t]] = status]
    /\ EndPlay(t)
    /\ UNCHANGED <<disk, installLock, processLock>>

\* ... then spawns the child, or records the failure, and returns.
SpawnProcess(t) ==
    /\ pc[t] = "spawn"
    /\ processLock = None
    /\ \E status \in {"running", "failed"} :
        process' = [process EXCEPT ![target[t]] = status]
    /\ EndPlay(t)
    /\ UNCHANGED <<disk, installLock, processLock>>

\* The supervision task records the exit of the child.
ProcessExits(i) ==
    /\ processLock = None
    /\ process[i] = "running"
    /\ \E status \in {"exited", "failed"} :
        process' = [process EXCEPT ![i] = status]
    /\ UNCHANGED <<disk, preparing, locks, locals>>

-----------------------------------------------------------------------------
(* deletion::delete *)

\* The row the user was shown is kept: its name is the confirmation.
BeginDelete(t) ==
    /\ \E i \in Instances :
        /\ registry[i] # None
        /\ contentLock[i] = None
        /\ contentLock' = [contentLock EXCEPT ![i] = t]
        /\ Begin(t, "delete", i, registry[i], "delRegistry")
    /\ UNCHANGED <<disk, shared, installLock, registryLock, processLock>>

\* Mutant: the registry guard outlives the command.
ReleaseKeepsRegistry(t) ==
    /\ contentLock' = [contentLock EXCEPT ![target[t]] = None]
    /\ processLock' = IF processLock = t THEN None ELSE processLock
    /\ Return(t)
    /\ UNCHANGED registryLock

\* Content, registry and process locks are released on every return.
Release(t) ==
    /\ contentLock' = [contentLock EXCEPT ![target[t]] = None]
    /\ registryLock' = IF registryLock = t THEN None ELSE registryLock
    /\ processLock' = IF processLock = t THEN None ELSE processLock
    /\ Return(t)

\* Mutant: deletion does not look at the process.
MayDeleteRunning(t) ==
    LET i == target[t]
    IN  /\ registry[i] # None
        /\ registry[i].name = record[t].name
        /\ registry[i].state = "ready"

\* Mutant: an instance that is still installing may be deleted.
MayDeleteInstalling(t) ==
    LET i == target[t]
    IN  /\ registry[i] # None
        /\ registry[i].name = record[t].name
        /\ ~Blocks(process[i])

MayDelete(t) ==
    LET i == target[t]
    IN  /\ registry[i] # None
        /\ registry[i].name = record[t].name
        /\ registry[i].state = "ready"
        /\ ~Blocks(process[i])

\* registry_lock and lock_stopped, then the configuration is loaded.
CheckDelete(t) ==
    /\ pc[t] = "delRegistry"
    /\ registryLock = None
    /\ processLock = None
    /\ IF MayDelete(t)
       THEN /\ registryLock' = t
            /\ processLock' = t
            /\ Goto(t, "delSelection")
            /\ draft' = [draft EXCEPT ![t] = config]
            /\ UNCHANGED <<contentLock, command, target, record, view>>
       ELSE Release(t)
    /\ UNCHANGED <<disk, shared, installLock>>

\* "Clear selection first": the loaded configuration is written back.
DeleteSelection(t) ==
    /\ Step(t, "delSelection", "delFiles")
    /\ config' = IF draft[t].selected = target[t]
                 THEN [draft[t] EXCEPT !.selected = None] ELSE config
    /\ KeepLocals
    /\ UNCHANGED <<registry, game, aurora, staging, shared, locks>>

\* remove_dir_all.
DeleteFiles(t) ==
    LET i == target[t]
    IN  /\ Step(t, "delFiles", "delRow")
        /\ game' = [game EXCEPT ![i] = None]
        /\ aurora' = [aurora EXCEPT ![i] = None]
        /\ staging' = [staging EXCEPT ![i] = None]
        /\ KeepLocals
        /\ UNCHANGED <<registry, config, shared, locks>>

\* A filesystem error: some of the files may be gone; the row stays, and the
\* old configuration is written back, if that write succeeds.
DeleteFilesFails(t) ==
    LET i == target[t]
    IN  /\ pc[t] = "delFiles"
        /\ \E g \in IF game[i] = None THEN {None}
                    ELSE {game[i], None, Broken},
              a \in {aurora[i], None}, s \in {staging[i], None} :
            /\ game' = [game EXCEPT ![i] = g]
            /\ aurora' = [aurora EXCEPT ![i] = a]
            /\ staging' = [staging EXCEPT ![i] = s]
        /\ config' \in {draft[t], config}
        /\ Release(t)
        /\ UNCHANGED <<registry, shared, installLock>>

\* The row goes last.
DeleteRow(t) ==
    /\ pc[t] = "delRow"
    /\ registry' = [registry EXCEPT ![target[t]] = None]
    /\ Release(t)
    /\ UNCHANGED <<game, aurora, staging, config, shared, installLock>>

\* An unsafe tree, or a failed write of the configuration or the registry.
DeleteFails(t) ==
    /\ pc[t] \in {"delSelection", "delRow"}
    /\ Release(t)
    /\ UNCHANGED <<disk, shared, installLock>>

-----------------------------------------------------------------------------
(* transition::apply: enabling or disabling Aurora on approved state *)

\* preview, and the check of the approved fingerprint and its blockers.
PreviewTransition(t) ==
    /\ processLock = None
    /\ \E i \in Instances :
        /\ Ready(i)
        /\ ~Blocks(process[i])
        /\ Begin(t, "transition", i, registry[i], "txPrepared")
    /\ UNCHANGED <<disk, shared, locks>>

\* Acquisition into the cache fails, or the content lock is taken.
TransitionFails(t) ==
    /\ pc[t] = "txPrepared"
    /\ Return(t)
    /\ UNCHANGED <<disk, shared, locks>>

LockTransition(t) ==
    LET i == target[t]
    IN  /\ Step(t, "txPrepared", "txRegistry")
        /\ contentLock[i] = None
        /\ contentLock' = [contentLock EXCEPT ![i] = t]
        /\ KeepLocals
        /\ UNCHANGED <<disk, shared, installLock, registryLock, processLock>>

\* The fingerprint of a new preview equals the approved one; no blocker.
TransitionApproved(t) ==
    LET i == target[t]
    IN  /\ registry[i] = record[t]
        /\ Ready(i)
        /\ ~Blocks(process[i])

\* commit: registry_lock, preview again, lock_stopped.
CheckTransition(t) ==
    /\ pc[t] = "txRegistry"
    /\ registryLock = None
    /\ processLock = None
    /\ IF TransitionApproved(t)
       THEN /\ registryLock' = t
            /\ processLock' = t
            /\ Goto(t, "txActivate")
            /\ KeepLocals
            /\ UNCHANGED contentLock
       ELSE Release(t)
    /\ UNCHANGED <<disk, shared, installLock>>

\* The pin the transition leads to.
Toggled(pin) == [pin EXCEPT !.aurora = ~@]

\* Retire or activate the files, then write or remove the ownership state.
ActivateTransition(t) ==
    LET i == target[t]
        pin == Toggled(record[t].installed)
    IN  /\ Step(t, "txActivate", "txPersist")
        /\ aurora' = [aurora EXCEPT ![i] =
                        IF pin.aurora THEN pin.version ELSE None]
        /\ KeepLocals
        /\ UNCHANGED <<registry, game, staging, config, shared, locks>>

\* Validate the target and save the registry.
PersistTransition(t) ==
    LET i == target[t]
        pin == Toggled(record[t].installed)
        updated == [registry[i] EXCEPT !.desired = pin, !.installed = pin]
    IN  /\ Step(t, "txPersist", "txClean")
        /\ Complete(updated, game[i], aurora[i])
        /\ registry' = [registry EXCEPT ![i] = updated]
        /\ KeepLocals
        /\ UNCHANGED <<game, aurora, staging, config, shared, locks>>

\* The required files verify once more; stages and retired files are removed.
FinishTransition(t) ==
    /\ pc[t] = "txClean"
    /\ Release(t)
    /\ UNCHANGED <<disk, shared, installLock>>

\* Any error restores the files and their state, then the registry; a
\* rollback that fails on the way leaves the rest as it is, and says so.
RollbackTransition(t) ==
    LET i == target[t]
        pin == record[t].installed
        restored == [aurora EXCEPT ![i] =
                        IF pin.aurora THEN pin.version ELSE None]
    IN  /\ pc[t] \in {"txActivate", "txPersist", "txClean"}
        /\ \/ UNCHANGED <<aurora, registry>>
           \/ /\ aurora' = restored
              /\ UNCHANGED registry
              /\ pc[t] = "txClean"
           \/ /\ aurora' = restored
              /\ registry' = [registry EXCEPT ![i] = record[t]]
        /\ Release(t)
        /\ UNCHANGED <<game, staging, config, shared, installLock>>

-----------------------------------------------------------------------------
(* Synchronous commands *)

\* update_instance_configuration: Aurora changes only through a transition.
UpdateConfiguration ==
    /\ "update" \in Commands
    /\ pc[Main] = "idle"
    /\ registryLock = None
    /\ \E i \in Instances, p \in Pins :
        /\ registry[i] # None
        /\ registry[i].state = "ready"
        /\ p.aurora = registry[i].installed.aurora
        /\ registry' = [registry EXCEPT ![i].desired = p]
    /\ UNCHANGED <<game, aurora, staging, config, shared, locks, locals>>

\* rename_instance.
RenameInstance ==
    /\ "rename" \in Commands
    /\ pc[Main] = "idle"
    /\ registryLock = None
    /\ \E i \in Instances, n \in Names :
        /\ registry[i] # None
        /\ registry' = [registry EXCEPT ![i].name = n]
    /\ UNCHANGED <<game, aurora, staging, config, shared, locks, locals>>

\* select_instance: the registry check, the load and the save, and no lock.
\* A write of the configuration either replaces the file or fails.
SelectInstance ==
    /\ \E i \in Instances :
        /\ registry[i] # None
        /\ Begin(Main, "select", i, None, "selectRead")
    /\ UNCHANGED <<disk, shared, locks>>

LoadSelected ==
    /\ Step(Main, "selectRead", "selectWrite")
    /\ draft' = [draft EXCEPT ![Main] = config]
    /\ UNCHANGED <<disk, shared, locks, command, target, record, view>>

SaveSelected ==
    /\ pc[Main] = "selectWrite"
    /\ config' \in {config, [draft[Main] EXCEPT !.selected = target[Main]]}
    /\ Return(Main)
    /\ UNCHANGED <<registry, game, aurora, staging, shared, locks>>

\* set_home_widgets, set_discord_preferences, set_appearance: load and save
\* under registry_lock.
LoadPreferences ==
    /\ "preferences" \in Commands
    /\ Step(Main, "idle", "preferenceWrite")
    /\ registryLock = None
    /\ registryLock' = Main
    /\ command' = [command EXCEPT ![Main] = "preferences"]
    /\ draft' = [draft EXCEPT ![Main] = config]
    /\ UNCHANGED <<disk, shared, contentLock, installLock, processLock,
                   target, record, view>>

SavePreferences ==
    /\ pc[Main] = "preferenceWrite"
    /\ \/ \E p \in Preferences :
            config' = [draft[Main] EXCEPT !.preferences = p]
       \/ UNCHANGED config
    /\ registryLock' = None
    /\ Return(Main)
    /\ UNCHANGED <<registry, game, aurora, staging, shared, contentLock,
                   installLock, processLock>>

-----------------------------------------------------------------------------
\* What a launcher that has just started has in memory.
Stopped == [i \in Instances |-> "stopped"]
NoneYet == [i \in Instances |-> None]
Idle == [t \in Threads |-> "idle"]
Nothing == [t \in Threads |-> None]
NoViews == [t \in Threads |-> NoView]

\* The launcher dies and is started again: only the disk survives.  A game
\* that outlives it is no longer in process_states.
Crash ==
    /\ "crash" \in Commands
    /\ process' = Stopped
    /\ preparing' = {}
    /\ contentLock' = NoneYet
    /\ installLock' = NoneYet
    /\ registryLock' = None
    /\ processLock' = None
    /\ pc' = Idle
    /\ command' = Nothing
    /\ target' = Nothing
    /\ record' = Nothing
    /\ view' = NoViews
    /\ draft' = Nothing
    /\ UNCHANGED disk

Init ==
    /\ registry = NoneYet
    /\ game = NoneYet
    /\ aurora = NoneYet
    /\ staging = NoneYet
    /\ config \in {[selected |-> None, preferences |-> p] : p \in Preferences}
    /\ process = Stopped
    /\ preparing = {}
    /\ contentLock = NoneYet
    /\ installLock = NoneYet
    /\ registryLock = None
    /\ processLock = None
    /\ pc = Idle
    /\ command = Nothing
    /\ target = Nothing
    /\ record = Nothing
    /\ view = NoViews
    /\ draft = Nothing
    /\ crossed = {}

StartCommand(t) ==
    \/ CreateInstance(t) \/ BeginPack(t) \/ RetryInstall(t)
    \/ InstallConfiguration(t) \/ ReservePlay(t) \/ BeginDelete(t)
    \/ PreviewTransition(t)

InstallStep(t) ==
    \/ PersistPin(t) \/ InstallFails(t) \/ StartGameInstall(t)
    \/ StageGame(t) \/ StageGameFails(t) \/ RetireGame(t)
    \/ PromoteGame(t) \/ PromoteGameFails(t) \/ InstallAurora(t)
    \/ ValidateInstall(t) \/ CommitReady(t) \/ CompletePack(t)
    \/ RollbackPack(t) \/ AbandonPack(t) \/ ReadSelection(t)
    \/ WriteSelection(t)

PlayStep(t) ==
    \/ CapturePlay(t) \/ ResolvePlay(t) \/ PlayFails(t) \/ EnterBoundary(t)
    \/ CheckBoundary(t) \/ StartProcess(t) \/ SpawnProcess(t)

DeleteStep(t) ==
    \/ CheckDelete(t) \/ DeleteSelection(t) \/ DeleteFiles(t)
    \/ DeleteFilesFails(t) \/ DeleteRow(t) \/ DeleteFails(t)

TransitionStep(t) ==
    \/ TransitionFails(t) \/ LockTransition(t) \/ CheckTransition(t)
    \/ ActivateTransition(t) \/ PersistTransition(t) \/ FinishTransition(t)
    \/ RollbackTransition(t)

\* The next step of the command a worker is running.
Continue(t) ==
    InstallStep(t) \/ PlayStep(t) \/ DeleteStep(t) \/ TransitionStep(t)

StartMain ==
    UpdateConfiguration \/ RenameInstance \/ SelectInstance \/ LoadPreferences

ContinueMain == LoadSelected \/ SaveSelected \/ SavePreferences

CommandNext ==
    \/ \E t \in Workers : StartCommand(t) \/ Continue(t)
    \/ StartMain
    \/ ContinueMain
    \/ \E i \in Instances : ProcessExits(i)
    \/ Crash

\* Two installations of instance i are under way: nothing in the launcher
\* refuses the second one.
Overlapping(i) ==
    \E t, u \in Workers :
        /\ t # u
        /\ target[t] = i /\ pc[t] \in InstallLabels
        /\ target[u] = i /\ pc[u] \in InstallLabels

\* No command works on instance i, and what is left of it has a row.
Settled(i) ==
    /\ \A t \in Workers : target[t] # i
    /\ registry[i] = None =>
        game[i] = None /\ aurora[i] = None /\ staging[i] = None

\* History only: an instance counts as crossed from the step at which two
\* installations of it overlap until it is settled again.
NoteCrossing ==
    crossed' = {i \in Instances :
                    (i \in crossed \/ Overlapping(i)') /\ ~Settled(i)'}

Next == CommandNext /\ NoteCrossing

\* A runnable thread runs; a thread blocked on a mutex that keeps being
\* released gets it in the end.  Nothing is assumed of the user, of the game
\* or of crashes.
Fairness ==
    /\ \A t \in Workers : SF_launcher(Continue(t))
    /\ WF_launcher(ContinueMain)

Spec == Init /\ [][Next]_vars

FairSpec == Spec /\ Fairness

-----------------------------------------------------------------------------
(* Properties *)

\* Steps that work from a registry record, and steps that write back a
\* configuration they loaded.
RecordLabels == InstallLabels \cup DeleteLabels \cup TransitionLabels
DraftLabels ==
    {"writeSelection", "delSelection", "delFiles", "selectWrite",
     "preferenceWrite"}

DiskOK ==
    /\ registry \in [Instances -> Records \cup {None}]
    /\ game \in [Instances -> Games]
    /\ aurora \in [Instances -> Versions \cup {None}]
    /\ staging \in [Instances -> Versions \cup {None}]
    /\ config \in Configurations

MemoryOK ==
    /\ process \in [Instances -> Statuses]
    /\ preparing \in SUBSET Instances
    /\ contentLock \in [Instances -> Workers \cup {None}]
    /\ installLock \in [Instances -> Workers \cup {None}]
    /\ registryLock \in Threads \cup {None}
    /\ processLock \in Workers \cup {None}

LocalsOK ==
    /\ pc \in [Threads -> Labels]
    /\ pc[Main] \in {"idle"} \cup MainLabels
    /\ \A t \in Workers : pc[t] \notin MainLabels
    /\ command \in [Threads -> Commands \cup {None}]
    /\ target \in [Threads -> Instances \cup {None}]
    /\ \A t \in Threads :
        pc[t] \notin {"idle", "preferenceWrite"} => target[t] \in Instances
    /\ record \in [Threads -> Records \cup {None}]
    /\ \A t \in Threads : pc[t] \in RecordLabels => record[t] \in Records
    /\ view \in [Threads -> Views]
    /\ draft \in [Threads -> Configurations \cup {None}]
    /\ \A t \in Threads : pc[t] \in DraftLabels => draft[t] \in Configurations

\* Every variable keeps its type: the registry holds well-formed rows, a lock
\* is held by a thread that can take it, and every thread has loaded what its
\* next step works from (no step runs on a missing record or configuration).
TypeOK == DiskOK /\ MemoryOK /\ LocalsOK /\ crossed \in SUBSET Instances

\* The steps of deletion and transition between lock_stopped and return.
MutatingLabels ==
    {"delSelection", "delFiles", "delRow", "txActivate", "txPersist", "txClean"}

\* While deletion or a transition changes an instance's files, its game is
\* neither starting nor running, whatever Play does meanwhile (the
\* process-state mutex is held across the whole change).
MutationExcludesGame ==
    \A t \in Workers :
        pc[t] \in MutatingLabels => ~Blocks(process[target[t]])

\* Starting is never left behind: it is some Play's that is about to spawn,
\* and no instance has two Plays under way.
StartingHasOneOwner ==
    /\ \A t, u \in Workers :
        (pc[t] \in PlayLabels /\ pc[u] \in PlayLabels /\ target[t] = target[u])
            => t = u
    /\ \A i \in Instances :
        process[i] = "starting"
            <=> \E t \in Workers : target[t] = i /\ pc[t] = "spawn"

\* Whatever way a command ends, it leaves no lock and no reservation behind.
NothingLeaks ==
    /\ \A t \in Threads :
        pc[t] = "idle" =>
            /\ t \notin {registryLock, processLock}
            /\ \A i \in Instances : t \notin {contentLock[i], installLock[i]}
    /\ \A i \in preparing :
        \E t \in Workers : target[t] = i /\ pc[t] \in PlayLabels

\* The steps that block on registry_lock, and on the process-state mutex.
AwaitsRegistry ==
    {"resolveConfig", "commitReady", "packContent", "abandonPack", "boundary",
     "delRegistry", "txRegistry"}
AwaitsProcess == {"capture", "delRegistry", "txRegistry", "starting", "spawn"}

\* No circular wait, whatever the number of instances: the holder of a
\* blocking lock is never at a step that waits for one somebody holds, so the
\* order content, registry, process is the only one there is.
HoldersNeverWait ==
    /\ registryLock # None =>
        /\ pc[registryLock] \notin AwaitsRegistry
        /\ pc[registryLock] \in AwaitsProcess => processLock = None
    /\ processLock # None =>
        pc[processLock] \notin AwaitsRegistry \cup AwaitsProcess

\* No file outlives its registry row: deletion and pack rollback remove the
\* row last, and nothing installs into an unregistered instance.  Two
\* installations that overlap are the exception: the one that is still
\* running when the other's ready row is deleted puts its files there.
RowOutlivesFiles ==
    \A i \in Instances \ crossed :
        registry[i] = None =>
            game[i] = None /\ aurora[i] = None /\ staging[i] = None

\* A row becomes ready only while its content is complete for it, except
\* where two installations have overlapped: the second can persist its pin
\* between the validation and the ready commit of the first.
ReadyOnlyWhenComplete ==
    [][\A i \in Instances \ crossed :
        (/\ registry[i] # None /\ registry[i].state = "installing"
         /\ registry'[i] # None /\ registry'[i].state = "ready")
            => Complete(registry'[i], game[i], aurora[i])]_vars

\* Every command a worker starts returns: no lock is waited for for ever.
CommandsReturn == \A t \in Workers : pc[t] # "idle" ~> pc[t] = "idle"

-----------------------------------------------------------------------------
(* What the commands add up to for one instance *)

Phase(i) == IF registry[i] = None THEN "absent" ELSE registry[i].state

Contract ==
    INSTANCE InstanceContract WITH
        phase <- [i \in Instances |-> Phase(i)],
        complete <- [i \in Instances |->
                        /\ registry[i] # None
                        /\ Complete(registry[i], game[i], aurora[i])],
        run <- process,
        loose <- crossed

\* However commands interleave, an instance becomes ready only complete, is
\* launched only ready and complete, is not touched while it starts, and is
\* not deleted under its game; where installations have overlapped, the row is
\* still ready at a launch and stays while it starts, and deletion still waits
\* for the game.
ImplementsContract == Contract!Spec

-----------------------------------------------------------------------------
\* For TLC: workers are interchangeable.
Symmetry == Permutations(Workers)
=============================================================================
