# A TLA+ model of the Aurora Launcher

Aurora Launcher is a Tauri desktop application: a Rust core (`src/src-tauri/src`)
that owns every file and every process, and a Svelte interface (`src/src/lib`)
that calls it through commands. This directory models the core: what its commands
do to the files of an instance, to the shared documents, to the caches and to the
game processes, in every order in which they can interleave and with every failure
the code handles. TLC checks the models on small instances; TLAPS proves the
safety of most of the state machines for every value of the constants.

Paths below are relative to `src/src-tauri/src` unless they start with `src/`.

1. [The system](#1-the-system)
2. [The modules](#2-the-modules)
3. [What is checked](#3-what-is-checked)
4. [What is proved](#4-what-is-proved)
5. [Where the code differs from its documents](#5-where-the-code-differs-from-its-documents)
6. [What is not modelled](#6-what-is-not-modelled)

## 1. The system

### Components

| Component | State it keeps | Operations | Correct when |
|---|---|---|---|
| Instance lifecycle (`instances/lifecycle.rs`, `instances/settings.rs`) | `instances.json`: per instance a state (`installing`/`ready`), a name, a desired configuration and an installed pin | create, retry, install configuration, pack begin/complete/abandon, update settings, rename, select, validate | a row is `ready` only over content that validates; no file without a row |
| Deletion (`instances/deletion.rs`) | – | delete | never under a game; row last |
| Aurora transition (`instances/transition.rs`) | `aurora-installed.json`, `aurora-retained.json`, mod files, staged/retired/rollback copies | preview, apply (acquire, commit, rollback) | all or nothing; no byte lost; each managed file owned or retained |
| Launch (`launch/boundary.rs`, `launch/process.rs`, `launch/resolve.rs`, `launch/state.rs`) | process status per instance, Play reservations (memory) | reserve, capture, resolve, boundary check, spawn, exit | what is spawned is what was validated, and what was published; one start at a time |
| Game installation (`install/*.rs`) | `game/`, `.install-staging/`, `installed.json` manifest | acquire in batches, materialize, process, validate, record, promote | `game/` whole or absent; a failure costs nothing |
| Metadata, rules, loaders (`minecraft/*`, `fabric/*`, `neoforge/*`) | – | select a loader, validate documents, plan | what is installed is what is launched |
| Launcher configuration (`config.rs`) | one document: selection and preferences | load, migrate, save | nothing unreadable is replaced, no locked write lost |
| Modpack creation (`modpacks.rs`, `mrpack.rs`, `pack_*.rs`) | pack ownership document, pack files | preview, install, rollback | ready as reviewed, or gone; only proven files removed |
| Modpack update (`pack_update.rs`) | receipt, staged and retired files | preview, apply, recover | recoverable after a crash at any step |
| Instance content (`instance_content.rs`, `instance_mods.rs`, …) | provenance document, content files | add, remove, toggle, update, import | files, records and requirements agree |
| Artifact cache, downloads (`cache.rs`, `downloads.rs`) | digest-addressed store, staging, records of observed artifacts | acquire, revalidate, promote | no unverified object in a slot |
| Java runtime (`runtime/*.rs`) | runtime trees, their state files | ensure, validate | a marked tree is whole; staged replacement |
| Authentication (`auth/*.rs`) | accounts document, credentials (OS store), session cache, login slot | sign in, cancel, restore, select, sign out | credential, record and session agree |
| Updates (`updates/*.rs`) | client pins, launcher update state | check, preview, apply | byte-exact rollback; only what was shown is installed |
| Discord (`discord*.rs`) | presence, worker queue | connect, publish, clear | newest state shown |
| Activity bridge, server enrichment | activity of a session, caches | start, report, query | answers of the current game; one query per server |
| Gameplay history (`gameplay_history.rs`) | sessions and visits | start, observe, finish | each session closed once |
| Skins and capes (`cosmetics.rs`, `cosmetics.svelte.ts`) | `presets.json` and an image per preset; an account's skin and capes at the provider | load, import, edit, delete, apply | every preset has its image; no account shows or wears another's |

### How they interact

Asynchronous commands run on the threads of the Tokio runtime, any number in
parallel; synchronous commands run one at a time on the main thread. They meet in
four kinds of lock:

* the content lock of an instance (`with_instance_lock`, `instance_content.rs:1454`),
  a **try**-lock: taken by Play's boundary, deletion, transitions and every change
  of content; whoever finds it taken returns an error;
* the installation lock of an instance (`install/mod.rs:1247`), a try-lock;
* `registry_lock` (`instances/lifecycle.rs:1766`), global and blocking;
* the process-state mutex (`launch/process.rs:45`), global and blocking, held by
  `lock_stopped` across a whole deletion or commit.

A Play reservation (`PreparationGuard`) is none of these: it spans awaits. The
accounts have three guards of their own (the login slot, the restoration gate,
`accounts_lock`), a runtime a try-lock each, the artifact cache none. Each write of
a document is a temporary file and a rename, so a reader sees an old or a new
document. Documents and directories are changed in a fixed order (for deletion:
selection, files, row; for an installation: installing row, staged tree, manifest,
promotion, Aurora, validation, ready row), and the order is what a crash or a
failure between two writes depends on.

### What is hard here

* Work done with nothing locked between a check and its use: Play captures an
  instance and spawns it seconds later; a transition, a client update or a modpack
  update is approved and committed minutes later; a launch plans again from
  documents fetched again.
* Failure in the middle of a sequence of filesystem operations, failure of the
  rollback, and death of the process at any of those points.
* Several commands over one store without a lock (cache, observed artifacts,
  server documents), and single-use credentials that three commands may redeem.
* Out-of-order completion: parallel acquisitions, reports of a game that has ended,
  answers for a page that has been loaded again.

`PROJECT.json` lists each hazard with its line and the properties that look at it.

## 2. The modules

| Module | What it is |
|---|---|
| `InstanceLifecycle` | all commands that change an instance, interleaved: lifecycle, deletion, Play and process, the locks of transitions, selection and preferences |
| `InstanceContract` | what they promise for one instance: absent, installing, ready, launched only when ready and complete, never deleted or reworked at the wrong moment |
| `InstanceSettings`, `JvmArguments` | `instances.json` through its schemas, wishes and the installations that follow them; the text of additional JVM arguments, split and put together |
| `GameInstall` | one instance's `install_game`, file by file, with crashes |
| `VersionPlanning`, `LoaderPlanning` | pure: rules, libraries and plan of a version document; Fabric's and NeoForge's, and their composition |
| `GameResolution` | from the documents on the network to the process that is started: install, damage, publish anew, launch |
| `AuroraTransition` | one Aurora transition, file by file, with failures of every operation, crashes, and the user removing mods until commit begins |
| `ClientUpdate` | one update of the Aurora client, jar by jar, with its rollback, other commands, edits and crashes |
| `PackArchive`, `PackInstall`, `OptionsFile` | what an `.mrpack` is made of; a modpack becoming an instance; the resource packs of `options.txt` |
| `PackUpdate` | one update of a modpack: classification, receipt, both windows, rollbacks, recovery |
| `ContentGraph`, `ContentChanges` | the planner of provider content; the commands that carry its plans out, with toggles, imports and the user |
| `ModInventory` | what a directory of mods is taken for: archives inside archives, owners, versions and requirements, what a launch admits, what may be toggled, removed and adopted |
| `PlayOverview` | what is told before Play: playtime, where one was, whether Play would start the game |
| `ArtifactCache`, `RuntimeInstall` | the store of digests; Java runtimes installed through it |
| `RuntimePlanning` | what a runtime is made of: from the provider's index and manifest for a platform to the tree that is marked, and what a later command takes for ready |
| `ObservedStore`, `Transfer` | artifacts published without a digest; one transfer with its redirects, limits and verification |
| `ConfigFile` | `config.json`: schemas, migration, what is normalized and what is refused, the shared sibling of its saves |
| `Cosmetics` | the skin library, the skins and capes of the accounts, and the page that shows both |
| `Accounts` | sign-in, session restoration, selection, removal and the avatar cache |
| `DiscordWorker`, `GameSessions` | the presence worker; started games, their reports and their history |
| `ServerEnrichment`, `UpdateCenter` | what is known of recent servers; the update card and the commands behind it |
| `…Proofs` | theorems about the module of that name (`BackgroundProofs`: about `MCBackground` and the three modules it holds; `LauncherStateProofs`: about `MCLauncherState` and the seven it holds) |
| `MC…` | small instances for TLC; several hold independent parts, one of which is chosen at the start of a behaviour |

`InstanceLifecycle` is the composition: it takes an installation attempt as four
steps, a transition as three, and content as one value. The others open those steps
up and show what they are taken to do: the installed tree is whole or absent at every
instant (`GameInstall`), what it holds is what was published (`GameResolution`), a
transition that returns without a failed rollback has done all or nothing
(`AuroraTransition`). `RuntimeInstall` extends `ArtifactCache`, through which its
downloads run; `PackInstall` uses the plans of `PackArchive`, `ContentChanges` those
of `ContentGraph`, `GameSessions` sends its messages to `DiscordWorker`.

### InstanceLifecycle and the code

State: `registry`, `config`, `game`, `aurora`, `staging` are the files; `process`,
`preparing` and the four locks the shared memory; `pc`, `command`, `target`,
`record`, `view`, `draft` the locals of each running command. `game[i]` is a version
(a complete tree with its manifest), `None`, or `Broken`: a directory without a
manifest, which `decide_replacement` refuses to touch. `Complete` is the part of
`validate_instance` that depends on state.

A command is cut at every await, every lock it takes and between two writes to the
disk; between those points it is one action. Reads of several files in a row
(`LaunchSnapshot::capture`, `validate_instance`) are one step, since each is
compared or validated again under `registry_lock` before anything depends on it.
Failures (`InstallFails`, `PlayFails`, `DeleteFails`, …) are actions that may be
taken wherever the code returns an error; those of `remove_dir_all` leave any part
of the tree. `Crash` forgets the memory and keeps the disk. A new instance has a
fresh UUID: `CreateInstance` takes an identifier nothing refers to any more.

Nothing is assumed of the interface. Installations of one instance may overlap
everywhere but under the installation lock: the backend refuses none of them
(`instances/lifecycle.rs:952` to 1103), and of the interface's store
(`src/src/lib/launcher/store.svelte.ts`) `runInstallConfiguration` refuses a second
one of its own (522) but `runRetry` (712) asks nothing. Two that overlap can break
each other's promises (section 5). `crossed` names the instances on which that has
happened; it is not in the code. An instance becomes crossed at the step at which two
installations of it are under way, by the commands of the launcher and no choice of
the model, and stays so until it is settled: no command works on it and what is left
of it has a row. Only properties of the content of an instance except the crossed
ones; `MutationExcludesGame`, `StartingHasOneOwner`, `NothingLeaks` and
`HoldersNeverWait` do not.

### Game installation and launch

`GameInstall`: trees are sets of files (version, index) with the set of those whose
bytes are not the acquired ones, and a manifest. `Settle` is `join_all`: a batch is
over when all of it is. `RetirePrevious`, `PromoteReplacement`, `RestorePrevious`
are the renames of `promote_staged_game`; the second rename of a failing promotion
may fail too. `GameResolution` has the same attempt as one step and asks what is in
it: `Install` resolves a plan from what is published, lays files out, extracts
natives, lets NeoForge's processors change the staged tree as they like, verifies
and records; `Launch` plans again and puts the command together. A coordinate is a
record and a path the coordinate it is the layout of; content is digest and size.

### Aurora transition and client update

In `AuroraTransition` `plan` is the approved preview with the state its fingerprint
covers; `StartCommit` is the comparison under the locks; each loop of `commit` is an
action per file; `stages`, `backups`, `activated`, `touched` are what the rollback
works from. In `ClientUpdate` the jars are named by their release or API version,
`mods[j]` is absent, the published bytes or others, `before` what the update found
under its locks, and `Stage`, `Retire`, `Activate`, the three documents, `Cleanup`
and the rollback are the steps of `commit_update`. `edited` and `exposed` (jars
changed from outside, ever and during the locked part) and `raced`, `torn`,
`unsettled` are not in the code: they name what the properties except.

### Modpacks and content

`PackInstall` takes the files of a pack one by one and the provider's components by
one staged transaction, whose inside is `ContentChanges`. `PackUpdate` follows
`apply_update` in two windows under the content lock with the game transition in
between; bytes are compared with bytes of the same path only, so four names serve
every path (`"first"` the installed version's, `"second"` the next one's, `"own"` and
`"edited"` the user's). In `ContentChanges` a command resolves and downloads with no
lock, then runs `Transaction` under the lock, one action per file and document and
one per failure; `own` bytes are whatever the user put there.

### Cache, runtimes, transfers

`ArtifactCache` is an acquisition per worker and file: look, open a staging file,
stream, verify, promote. `NamesOf` is the name of a staging file: `staging_sequence`
counts per cache object (`cache.rs:218`, 255) and the rest is the process and the
millisecond, so each name is one of the object's own or, in one millisecond, what any
object that has counted alike gives. A file that is there is emptied under whoever
writes it; a stream follows the file it has open through renames, into a slot too.
`shared` marks the acquisitions that have a staging file another one named, and
`spoiled` the slots last filled from such a file or written to by something else;
neither is in the code. `RuntimeInstall`
adds the per-runtime try-lock, validation, copying into staging, the completion mark
and the exchange. `ObservedStore` and `Transfer` stand alone. `RuntimePlanning` asks what the steps of
`RuntimeInstall` are about: `PlanOf` is what a provider's index and manifest come to
on a platform or the reason they are refused, `Shape` what a manifest's paths make
of a tree, `Install` the tree that is marked, and `Ready` what a command that finds
one answers after the disk, the release or the wanted version has changed.

### Accounts

`names` and `selected` are `accounts.json`, `credentials` the store of the operating
system, `sessions` the accounts with a usable session. `loginSlot`, `gate` and
`accountsLock` are each the worker that holds them; `Return` is the drop of all three
on every way out. A refresh token is its serial number: the provider issues them in
order and takes each once. The five requests of `downstream_chain` are one step with
three outcomes, because nothing is stored between them. `select_account` runs on the
main thread and outside `accounts_lock`, so it is two steps. `excused` remembers the
accounts whose stored token is dead for a reason the launcher has no power over.

### Sessions, servers, updates

A process state is changed under its lock and its listener called after, as the
observer of a report is, so every such pair is two steps in `GameSessions`; messages
to the presence worker are a queue. `ServerEnrichment` has a refresh read every
document first, ask what is neither fresh nor backing off, and store each answer
when it comes. In `UpdateCenter` the page's controller waits for one native command
after another, and a reload forgets the controller while its command goes on.

## 3. What is checked

| Run | Instance | What it asks |
|---|---|---|
| `Commands` | `InstanceLifecycle` | two workers and the main thread run every command that touches one instance, with crashes: no file changes under a game (`MutationExcludesGame`), one start at a time (`StartingHasOneOwner`), no lock leaks (`NothingLeaks`), no circular wait (`HoldersNeverWait`) and no deadlock, files never outlive their row (`RowOutlivesFiles`), ready only when complete (`ReadyOnlyWhenComplete`), and the contract is implemented (`ImplementsContract`) |
| `Liveness` | `InstanceLifecycle` | every command returns (`CommandsReturn`) |
| `Game` | `MCGameInstall` | in place: `GameIsWholeOrAbsent`, `ClasspathInOrder`, `FailureDestroysNothing`, `AttemptsEnd`; what it is: `LaunchedAsPublished`, `InstallationPlays`; with a modpack: `PackWholeOrAbsent`, `UserBytesSurvive` |
| `LauncherState` | `MCLauncherState` | a transition (`AllOrNothing`, `RecoveryFilesPreserved`, `CommitAccountsForFiles`), accounts (`CredentialIsAddressed`, `SessionHasRecord`, `RotatedCredentialIsKept`, `NothingLeaks`, `OnlySignInCreates`), documents (`DocumentsHold`), transfers and observed artifacts (`TransfersHold`) |
| `PackUpdate` | `PackUpdate` | a modpack update with edits, faults and crashes: `UserBytesSurvive`, `UpdateIsWhole` |
| `ContentChanges` | `MCContentChanges` | provider and local content with one upset: `ContentHolds`, `AllOrNothing`, `UserChoicesStay` |
| `Runtime` | `MCRuntimeInstall` | two commands over runtimes that share a file: `RuntimesHold`, `ForeignTreesStay` |
| `Sessions` | `GameSessions` | two games reported to Discord and to the history: `SessionsHold`, `ClosedOnce` |
| `Background` | `MCBackground` | a client update (`ClientHolds`, `UpdateIsExact`), the update card (`ApprovedOnly`), recent servers (`KnownGoodKept`), and `ServicesHold` for the last two |
| `Window`, `BulkUpdate`, `ChangedLoader` | | violations: see Findings |

A property whose name ends in `Hold` gathers the properties of parts that share no
state: `DocumentsHold` is that a malformed document stays and no locked save is lost
(`ConfigFile`), that a registry stays readable, migration keeps and installations
follow wishes (`InstanceSettings`), and that every preset has its image, what is
shown is a state of that account and what is worn was chosen for it (`Cosmetics`);
`InstallationPlays` that an installation of what is published succeeds and starts,
that accepted arguments read back and pass at launch (`JvmArguments`), that a
runtime taken for ready is the complete one the game requires (`RuntimePlanning`), that
a directory of mods is seen whole, admitted only when it loads and left admitted by what
the launcher removes (`ModInventory`), that playtime adds up, places lead back and Play
starts exactly when it was told to be ready (`PlayOverview`), and that of `options.txt`
the packs change as told and nothing else (`OptionsFile`);
`TransfersHold` that a transfer hands over verified bytes or
nothing and stays on secure hosts, and that an observed artifact is the one of its
address and its change is noticed; `ServicesHold` that one server is asked once at a
time and honestly reported, that one domain is updated at a time and that the card
settles; `ContentHolds` that the required graph is closed, files are enabled where
records say so, and records and files agree; `PackWholeOrAbsent` that a pack is
ready as reviewed and the pack that was reviewed installs.

### Bounds

* `Commands`, `Liveness`: one instance, since commands on different instances share
  only `registry_lock`, the process-state mutex and the configuration, and `LockOrder`
  proves the absence of a circular wait for any number; two workers, since every
  property relates two commands; one version. `Commands` has creation, retry and
  reconfiguration overlap in any way; `Liveness` has the packs, renaming, selection and
  preferences instead, with deletion, transition and Play in both, since the product of
  all commands is too large. The theorems hold for any number of each.
* `Game`: four files in batches of two, two versions, so that a replacement is by the
  same or another. Documents are the usual one with one part varied at a time, and
  every part that is looked at is, within what the code calls the observed scope of
  rules (`minecraft/rules.rs:10`: lists with one feature at most); vanilla, Fabric and
  NeoForge on a platform each. One publication between installation and launch, one
  damage. Packs: a usual one and 43 with one part of the index, the entries or the
  answers different; two stands for the limit of 64 plans; two edits or publications
  beside one failure or crash. Runtimes: a platform of each system, one part of index,
  manifest or entries varied at a time, and two updates of the release or changes of
  the disk between two commands. Arguments: texts of up to five characters over seven
  letters, the limits 24, 4 and 2 for 8192, 4096 and 64. Mods: directories of up to
  three slots over jars that require a library, are it or hold it, with one part of an
  archive wrong at a time. Histories: two sessions over a few days of a few seconds;
  scenes before Play with up to three things amiss.
* `LauncherState`: three managed files, so that a loop has a first, a middle and a
  last; two accounts, names and workers, two tokens; `config.json` missing, of schema
  0, 1, 2, 3, 7 or 8 (4 to 6 are read as 3), one part malformed or unknown, two commands;
  `instances.json` a record per platform and schema with one part different, three
  commands; three acquisitions of two addresses with one publication
  and one fault; bodies of up to three letters, limit two, two redirects for eight; two presets (the
  limit of 64 is two), a good image and a truncated one, two changes, two loads and
  one failure, restart or change made elsewhere.
* `PackUpdate`: two paths in every relation of installed version, next version and
  local file, both components and library; two upsets.
* `ContentChanges`: two mods and a resource pack in two catalogues, one with a
  requirement an update drops or pins, one with a chain; one upset.
* `Runtime`: two runtimes of one file, so that two commands acquire it at once; a
  second file, found through the sha512-map, beside it; two commands, each called
  twice; two upsets; staging names distinct or alike.
* `Sessions`: two games, two reports, two visits, one restart, two faults; a launcher
  has readable history or configured presence, not both, to keep the product small.
* `Background`: three releases (one built in, two with the same API), two updates,
  two upsets; two pages, changes and clicks; three refreshes of one server.
* `SYMMETRY` is over interchangeable model values, and only in runs without liveness.
  `CHECK_DEADLOCK FALSE` is where a behaviour may really end: bounded upsets and
  commands are used up, or a failed rollback leaves the instance to the user.

### Fairness

`FairSpec` of `InstanceLifecycle` assumes strong fairness of each worker's next step
and weak fairness of the main thread's. A runnable thread runs, and the standard
library's mutex does not pass a waiter over for ever while others come and go;
strong fairness is that last assumption. Nothing is assumed of the user (who need
not start anything), of the game (which need not exit) or of crashes. Under it
`CommandsReturn` holds because only blocking locks are waited for and their holders
never wait (`HoldersNeverWait`). `GameInstall` assumes weak fairness of an attempt
as a whole: an acquisition ends, because its requests time out.

### Findings

1. `Window`: an instance with a configured window is never launched: the official
   group of arguments is chosen and its placeholders have no value
   (`launch/resolve.rs:659`).
2. `BulkUpdate`: an update of two provider mods at once is always refused: the old
   file of one root counts as a foreign mod of the other's identity
   (`instance_content.rs:1952`).
3. `ChangedLoader`: a Fabric instance reconfigured to NeoForge with an automatic
   loader is installed with Fabric again (`instances/lifecycle.rs:619`).

Section 5 lists what else was met.

## 4. What is proved

The theorems hold for every value of the constants that satisfies the named
assumptions of the modules, which say no more than that null values are not members
of the sets they stand beside, that bounds are natural numbers and that sizes are at
least one; `InstanceLifecycleProofs` and `RuntimeInstallProofs` also use that the sets
of workers and of files are finite. `PROJECT.json` lists every theorem.

In every component the safety properties are not inductive, and the proof is that of
a stronger invariant: one lemma per part of it shows action by action that a step
keeps it.

### Instances: `InstanceLifecycleProofs`

`TypeCorrectness`, `MutationSafety` (`MutationExcludesGame`), `SingleStart`
(`StartingHasOneOwner`), `NoLeaks` (`NothingLeaks`), `LockOrder` (`HoldersNeverWait`)
and `InductiveInvariant`, for any number of overlapping installers. That no game runs
under a deletion depends on deletion holding the process-state mutex at that step,
and this on who takes and releases it. `IInv` is `TypeOK` with `Held` (a thread holds
a lock exactly while it is at a step that runs under it), `Frozen` (the row of a
checked transition is still that row), `Plays` (each Play owns its reservation, and
no two share an instance), `Starting` (the status belongs to the Play about to
spawn).

`RowsOutliveFiles` (`RowOutlivesFiles`), `ReadyMeansComplete`
(`ReadyOnlyWhenComplete`), `ContractIsKept` (`Spec => ImplementsContract`) and
`ContractInvariance` assume nothing of installers either. `CInv` adds to `IInv` what a
row guarantees of every instance that is not crossed, and that two installers of one
instance make it crossed: whoever installs works under an `installing` row (`InstallRows`,
`OneInstaller`, `Stages`), whoever checked an instance works under a `ready` one
(`CheckedRows`, `Validated`), so that neither sees the other's files half done; and
what is left of an instance at each step of its deletion (`Deleted`, `Absent`). The
refinement is the step simulation of the contract by each action: it registers,
reworks, finishes, forgets, launches, spawns, ends or restarts the instance, or
stutters.

### Game installation: `GameInstallProofs`

`TypeCorrectness`, `WholeOrAbsent`, `ClasspathOrder`, `NoneAbandoned`,
`FailureIsHarmless`, `Invariance`. The promotion renames whatever staging holds;
`Sound` says what that is at each phase: files of the version being installed and no
manifest while it fills, all of them verified once the staged validation has passed,
whole once the manifest is written; and that the retired tree is whole. `Ordered` has
the list of files be the first ones of the plan, so that a settled batch continues
it; `Kept` says where the tree the attempt found is.

### What the launcher keeps: `LauncherStateProofs`

The run has seven parts that share no variable; `PartsApart` has each of its
behaviours be a behaviour of every part, and each part has an invariant of its own.

A transition: `TransitionTypeCorrectness`, `Atomicity` (`AllOrNothing`), `NothingLost`
(`RecoveryFilesPreserved`), `FilesAccountedFor` (`CommitAccountsForFiles`),
`TransitionInvariance`. `PlanSound` says what every preview's plan satisfies; `Lists`
what the rollback's lists hold at each phase; `Mods` that `mods/` is the plan's
starting point without the files backed up and with the files activated; `Documents`
that each document and the pin is the new one from its own step on; `Copies` that
what was taken out of `mods/` has its copy. At the commit these make the target, at
the end of a rollback the starting point.

Accounts: `AccountsTypeCorrectness`, `CredentialsAddressed`, `SessionsRecorded`,
`RotationsKept`, `GuardsReleased` (`NothingLeaks`), `CreationNeedsSignIn`
(`OnlySignInCreates`), `AccountsInvariance`. `InHand` says what a command knows at
each step; `Fresh` that a token not yet saved is alive, stored nowhere and in no other
command's hands; `Recorded` what the stores hold of the account while its guards are
held; `Drafts` that a document loaded and not yet saved lists the accounts the stored
one lists, the account at hand apart, which for `select_account`, outside every lock,
rests on the interface's flags.

`DocumentsSound` (`DocumentsHold`) joins three. `ConfigInv` (`ConfigInvariance`)
distinguishes what was found from what the launcher writes: a document it wrote is
well formed and is what the task drafted from it, `unlocked` remembers the one case,
two savers with one sibling, in which a save may be lost. `RegistryInv`
(`RegistryInvariance`) keeps the rows of the document that was found, each as it was,
migrated or reworked since, and follows an installation from the wish it read to
the pin it writes; that a policy in a wish resolves to a listed version is
`ResolvePolicy`'s, which is a minimum over the list and needs no recursion.
`CosmeticInv` (`CosmeticInvariance`) has identities never be used twice, so that
presets, images and what a page lists agree though the page is behind the library;
and follows each answer from the account it was asked for to the page that shows it.

`TransfersSound` (`TransfersHold`) joins two. `TransferInv` (`TransferInvariance`) is
what is promised, read and staged at each step of one transfer. `StoreInv`
(`StoreInvariance`) relates what an acquisition has in hand to the record it looked
at, whatever the others did to record, object and temporary file since: all that an
address gave is one content as long as no record of it was lost.

### Modpack update: `PackUpdateProofs`

`UserBytesAreKept` (`UserBytesSurvive`), `UpdateWholeness` (`UpdateIsWhole`),
`UpdateInvariance`, for any paths, components and library, any number of edits,
faults and crashes and any number of updates one after the other. `UInv` rests on two
ideas. Bytes of the user that nobody agreed to give up never leave their own path
(`Stays`): retirement proves the digest of what it moves, activation refuses a taken
target, the rollback leaves what it did not write, and a recovery takes only what the
receipt's two versions authored. And files, records, pack document and game follow
the plan: `Listed`, `FilesFollow`, `DocumentsFollow` and `GameFollows` say what each
is at each step in terms of `plan`, the last with the receipt there as long as they
may disagree; `AsBefore` ties what a command finds to what the one before it left.
`FingerprintBinds` has the reviewed fingerprint fix the plan that is derived again,
and `PlanDescribes` and `PlanAgrees` are the set algebra of the classification.

### Java runtimes and the cache: `RuntimeInstallProofs`

`RuntimeSafety` (`RuntimeHolds`), `ForeignTreesKept` (`ForeignTreesStay`),
`StoreSoundness` (`RuntimesHold`), `RuntimeInvariance`. The runtimes need nothing of
the cache but its types: `RInv` says who holds a runtime's lock at which step
(`Held`), what the tree under construction holds (`Building`, `Checked`) and where
the previous one is through the exchange (`Exchange`, `PutBack`), and a tree is
marked only after its bytes have been hashed. The soundness of the store rests on
whose streams can reach which bytes, whatever the names are: a staging file that is
not shared has one owner and holds what that one wrote (`Owned`), and a stream that
is open on a slot came there through a shared file, so that the slot is excepted.

### Client update, update card, servers: `BackgroundProofs`

`ClientSafety` (`ClientHolds`), `UpdateExactness` (`UpdateIsExact`) and
`ClientInvariance`, for any releases, any versions of Fabric API and any number of
updates, edits, commands, faults and crashes. `CInv` says what is under each jar's
name and private name: published where the update placed it, gone and kept aside
where it retired it, what the update found everywhere else (`FilesFollow`, files
changed from outside apart); what was approved stays true under the locks
(`Reviewed`); which jars are staged, retired and placed (`Outline`, `Sets`); the
documents and the pin of each step (`DocumentsFollow`, `PinFollows`); that nothing
was there twice when the update looked (`NoneTwice`), so that placing or putting back
a jar makes no duplicate; and that an instance no update works on validates
(`Ready`). `Newest` proves the maximum that `Candidate` chooses exists, by the
well-foundedness of the natural numbers.

`ServicesApart` has a behaviour of the run be one of each service, so that what is
proved of them holds of it. `OnlyApproved` (`ApprovedOnly`) and the card's part of
`ServicesSound` (`ServicesHold`) follow from `CardInv`, for any instances and any
number of pages, changes and clicks: a command carries what its page's user was shown
(`CardChosen`), an approval of a page outlives the page as long as its command does,
the page waits for the command of its work (`CardAwaits`), and a lock or flag is held
by one command in one of its stages (`CardOne`). `LooksAreKept` (`KnownGoodKept`) and
the servers' part follow from `ServersInv`, for any servers and refreshes: what a
failure retained is what the cache holds until an answer overtakes it (`LooksKept`),
which is the case the property excepts and the only one.

### Sessions: `GameSessionsProofs`

`SessionsAreTrue` (`SessionsHold`) with its halves `PresenceIsTrue` and
`HistoryIsTrue`, and `SessionsClose` (`ClosedOnce`), for any games, instances, places,
capacities, failures and restarts. `GamesInv` says at which step a game has a
receiver and when nothing more is heard of it. `HistoryInv` says who may still write
a session: a game has one at most, closed only when its game is over, and a recorder
is held from the listener of the start to that of the end; `CountedOnce` is its part.
`VisitsInv` divides the places a game reported into those recorded, the one the
recorder is in and those an observer still hands over (`SessionFollows`), which is
what makes the order of three writers come out. `PresenceInv` reads the worker's
queue: of each instance the last message on its way, or with none what the worker
holds, is right, about to be corrected by a thread between a change and its telling,
or overtaken (`Arrives`, `Good`), which is the case the property excepts; the same of
the preferences; and what is shown or about to be is the activity of what the worker
holds unless a wake-up is on its way (`ShownFollows`).

### Only model-checked

* Liveness under fairness (`CommandsReturn`, `AttemptsEnd`): out of the prover's reach.
* What rests on data: `LaunchedAsPublished`, `InstallationPlays` and
  `PackWholeOrAbsent` are about plans, texts and archives
  computed by folds and recursive functions, whose values for all inputs need
  induction with an operator parameter, which the installed provers cannot do; the
  requirement graph in `ContentHolds` is closed by a recursive function too.
* `AllOrNothing` and `UserChoicesStay` of `ContentChanges`: a state machine that could
  be proved about, over plans that could not.

## 5. Where the code differs from its documents

Met while modelling, beside the findings above; the models have the code's
behaviour, and properties except it by name where they would be false.

**Instances.**
A reconfiguration persists the pin it resolved from the wish it read before its
awaits (`instances/lifecycle.rs:952`); settings changed in between leave an
`installing` row whose wish is not its pin, which retry cannot make ready (doc 895).
`select_instance` checks the registry and saves the selection without the lock
deletion holds, as the automatic selection does (1386, 1397; `instances/deletion.rs:110`):
the selection can be left on a deleted instance. The ready commit marks the row it
finds (1103), which a retry and a reconfiguration that overlap, as nothing prevents,
may have pinned elsewhere since it was validated; one that is still running when the
other's ready row is deleted leaves files without a row; and such files change under a
Play that has checked them. All three are in the model, excepted as `crossed`. When a promotion and the restoration of the
previous tree both fail, the next attempt empties the staging it was left in
(`install/mod.rs:940`). Enabling Aurora with an absent retained Fabric API previews an
installation and then always fails (`instances/transition.rs:549`).

**Accounts.** `get_account_avatar` stores what it fetched after the gate is left
(`application.rs:4805`): the avatar of an account removed meanwhile is back for good.

**Configuration.** `application.rs:596` says that preferences use the lock of the
selection; `select_instance`, the automatic selection and the first start take none,
so a preference can be lost. All saves share one `.tmp` sibling, so a half-written
file can be renamed into place and a save can fail spuriously, against `config.rs:4`.
A deletion whose files stay writes the selection it found back, over one made
meanwhile (`instances/deletion.rs:117`).

**Skins and capes.** A change may be applied while the account is being loaded: the
older answer, when it comes last, is shown over the confirmed one. The first listing
of the library may overtake an import's. `apply` sends the model the page lists, not
the one that is stored. Changing a preset's model may make two presets of one image
and one model, which an import never makes (`cosmetics.rs:340`).

**Settings.** `--class-path=x` passes the exact-match test of classpath flags
(`instances/settings.rs:560`). A launch quotes arguments by doubling every backslash, so that a text that
was accepted may exceed the limits when it is read back. `update_instance_configuration`
takes no operation guard, so that an installation may pin an older wish.

**Modpacks.** A pack with no provider component, or with more than 64, passes its
preview, has its game installed and is then always rolled back
(`instance_content.rs:2051`; PHASE_I_MODPACKS.md:9). The layering of overrides
depends on their order in the archive; directories made for a file whose path is then
refused keep the root from being removed. In an update: `rollback_files` answers
whether it succeeded and its caller takes the answer for whether it failed
(`pack_update.rs:2327`); a conflict counts whatever its resolution (1054);
`abort_begin` drops the receipt when its saves failed (2242); the receipt goes before
the validation that PHASE_J:95 puts first (2590); a failure after the commit restores
the documents and not the files (2699); no operation guard keeps Play away
(`application.rs:3286`).

**Content.** An installation beside a foreign disabled `x.jar.disabled` succeeds and
the file then never validates (`instance_content.rs:2131`, 505). A parent put back by
recovery may miss a dependency that was removed with it. A crash between the link and
the removal of a toggle leaves both names; transactions have no journal.

**Cache and runtimes.** `staging_sequence` counts per cache object while `cache.rs:35`
and 309 say names are unique in the process: two objects in one millisecond share a
staging file, which `File::create` empties and either may rename into its slot while
the other writes: the slot then holds bytes its digest does not name, until the next
look at it (excepted as `shared`). Two addresses that serve the same bytes
share one record of the observed store and overwrite each other's; two first
acquisitions of one address may both be recorded; a crash before the record is
written loses the pin. A redirect compares with the original address only. A runtime
with links cannot be installed on Windows (`runtime/install.rs:780`).

**Client update.** Cleanup of the retired jars is inside the part that is rolled back
(`updates/client.rs:893`): when removing the second one fails, the first is lost
though 924 says recovery files are preserved. The documents count as touched only
when both are written. Whether Fabric API is the provider's is read before the
downloads. A disabled old client comes back enabled. A crash leaves no journal.

**Sessions.** A report observed after the end rewrites mode and duration of the
ended session; the listener of an exit may overtake the messages of the next child;
the worker puts older preferences back into its status until it has read the queued
change; a failed write at the end leaves a session open until the next start. The days
of archived sessions are added up without the limit that `validate` puts on a day, so
that after the clock was set back the history may be unwritable (`OneClock` excepts it).
A server text may have 255 bytes (`gameplay_history.rs:91`), but what is recorded of a
host near that limit has its port too and cannot be read back; what follows the bracket
of an address and is not a port is ignored. The overview's `available` leaves out the
version check that Play makes.

**Resource packs.** A `resourcePacks` line that ends the file with a carriage return
alone is taken to end with two characters, and the slice panics
(`pack_activation.rs`; the model refuses).

**Servers and updates.** A refresh that began earlier may store its answer over a
later one, against ARCHITECTURE.md:99 (`overtaken`). `finish_check` and the selected
client instance are set separately (`application.rs:5975`). "Update Failed — Retry"
can become inert until the page is loaded again (`updateController.ts:172`).

**Planning and launch.** NeoForge's processors always run, though
`neoforge/processors.rs:21` says they are skipped when their outputs exist. A launch
does not compare the plan it fetched again with the record; a Fabric loader that
raises the Java version is always refused at the runtime (`runtime/plan.rs:187`);
`validate_installed_game` only asks that the natives directory is not empty. A
NeoForge prerelease ranks above its release by the derived order, which the comment at
`neoforge/versions.rs:93` has the other way round.

## 6. What is not modelled

* Parsing and formatting: JSON and TOML documents beyond what they refuse, server
  protocol, log and diagnostics text, deep links, the HTTP client of the provider and
  its search.
* Operating-system calls without shared state: shortcuts, windows, paths, extraction
  of archives.
* Presentation: artwork, appearance, widgets, and the interface beyond the busy flags,
  the skin page, the update controller and the removal dialogs that guard commands.
* A second launcher process, out of scope in the code's own documents
  (`src/ARCHITECTURE.md:1520`).
* `PackInstall` leaves out nested directories and quick actions, and removes an owned
  file in the step that verifies it (`modpacks.rs:700` has a window between the two);
  no list of rules of the run is one on which the evaluation of the plan and that of
  the launch differ; `PackUpdate` leaves out the
  search for a newer version; `InstanceLifecycle` the reinstallation of Aurora alone.
