--------------------------- MODULE RuntimePlanning ---------------------------
(***************************************************************************)
(* Which Java runtime a game gets, and whether the one on disk is it.  The *)
(* provider's index and file manifest (runtime/metadata.rs) become a plan  *)
(* (runtime/plan.rs), the plan a tree of files (runtime/install.rs) and    *)
(* the record beside it (runtime/state.rs), which is compared with a plan  *)
(* made from the documents once more.  How a tree gets to its place is in  *)
(* RuntimeInstall.  A path is a sequence of names, Unsafe stands for every *)
(* name that is none, and Spelling for the file systems that do not tell   *)
(* upper from lower case.                                                  *)
(***************************************************************************)
EXTENDS Naturals, Sequences, FiniteSets, SequencesExt

CONSTANTS
    None,
    Unsafe,         \* "", "." or a name with other characters
    Spelling,       \* each name as such a file system knows it
    Reports,        \* the Java that a file says it is when it is started
    MaxManifest,    \* stands for 2 MiB
    Hosts,
    Offers,         \* what may be published: the index, and the manifest it names
    Wanted,         \* the component and the Java that games ask for
    MaxUpdates      \* changes of what is published or of what is on disk

VARIABLES
    platform,
    published,
    disk,           \* the runtime at its place: its files and its record
    touched,        \* has anyone else changed it since it was installed?
    updates

planningVars == <<platform, published, disk, touched, updates>>

----------------------------------------------------------------------------
\* The platform.

\* mojang_key: no host falls back to another one's.
Published ==
    ({"windows"} \X {"x86_64", "aarch64", "x86"}) \cup ({"linux"} \X {"x86_64", "x86"})
        \cup ({"macos"} \X {"x86_64", "aarch64"})

Key(host) == IF host \in Published THEN host ELSE None

LaunchFile(host) ==
    CASE host[1] = "windows" -> <<"bin", "javaw">>
      [] host[1] = "linux" -> <<"bin", "java">>
      [] host[1] = "macos" -> <<"bundle", "java">>

DiagnosticFile(host) ==
    IF host[1] = "windows" THEN <<"bin", "java">> ELSE LaunchFile(host)

----------------------------------------------------------------------------
\* The plan.

\* resolve_runtime_plan: exactly one candidate, of the Java that is required,
\* with a manifest that can be acquired.
Selected(index, host) ==
    /\ Wanted.component # Unsafe
    /\ Key(host) # None /\ Key(host) \in DOMAIN index
    /\ Wanted.component \in DOMAIN index[Key(host)]
    /\ LET candidates == index[Key(host)][Wanted.component]
       IN  /\ Len(candidates) = 1
           /\ candidates[1].release # None /\ candidates[1].digest
           /\ candidates[1].major = Wanted.major
           /\ candidates[1].size \in 1..MaxManifest

\* validate_relative_path
SafePath(path) == path # <<>> /\ ToSet(path) \cap {Unsafe, ".."} = {}

\* validate_link_target: it never climbs above the root.
SafeTarget(path, target) ==
    LET depth[n \in 0..Len(target)] ==
            IF n = 0 THEN Len(path) - 1
            ELSE IF target[n] = ".." THEN depth[n - 1] - 1 ELSE depth[n - 1] + 1
    IN  /\ target # <<>> /\ Unsafe \notin ToSet(target)
        /\ \A n \in 0..Len(target) : depth[n] >= 0

SafeEntry(path, entry) ==
    /\ SafePath(path)
    /\ entry.kind = "file" => entry.size > 0 /\ entry.digest # None /\ entry.secure
    /\ entry.kind = "link" => SafeTarget(path, entry.target)

\* Only a directory has entries under it.
NoneBelow(files, path) ==
    files[path].kind # "directory" => \A other \in DOMAIN files : ~IsStrictPrefix(path, other)

Runnable(files, path) ==
    path \in DOMAIN files /\ files[path].kind = "file" /\ files[path].executable

\* JavaRuntimePlan::from_metadata
Accepted(files, host) ==
    /\ Wanted.major > 0 /\ DOMAIN files # {}
    /\ \A path \in DOMAIN files : SafeEntry(path, files[path]) /\ NoneBelow(files, path)
    /\ Runnable(files, LaunchFile(host)) /\ Runnable(files, DiagnosticFile(host))

Resolves(offer, host) == Selected(offer.index, host) /\ Accepted(offer.files, host)

Plan(offer, host) ==
    [component |-> Wanted.component, major |-> Wanted.major, key |-> Key(host),
     release |-> offer.index[Key(host)][Wanted.component][1].release,
     files |-> offer.files, launch |-> LaunchFile(host), diagnostic |-> DiagnosticFile(host)]

----------------------------------------------------------------------------
\* The tree.

FoldsCase(host) == host[1] \in {"windows", "macos"}

\* Where the entry of a path is.
Place(host, path) ==
    IF FoldsCase(host) THEN [n \in DOMAIN path |-> Spelling[path[n]]] ELSE path

Directory == [kind |-> "directory"]

Node(entry) ==
    CASE entry.kind = "directory" -> Directory
      [] entry.kind = "file" -> [kind |-> "file", digest |-> entry.digest,
                                 executable |-> entry.executable]
      [] entry.kind = "link" -> [kind |-> "link", target |-> entry.target]

Above(path) == {SubSeq(path, 1, n) : n \in 1..(Len(path) - 1)}

\* ensure_runtime makes each entry, and the directories over it.
Needs(files, host, place) ==
    {Node(files[path]) : path \in {p \in DOMAIN files : Place(host, p) = place}}
        \cup {Directory : path \in {p \in DOMAIN files : place \in Above(Place(host, p))}}

Places(files, host) ==
    UNION {{Place(host, path)} \cup Above(Place(host, path)) : path \in DOMAIN files}

\* It fails when a place would have to be two things; Windows has no links.
Makes(files, host) ==
    /\ \A place \in Places(files, host) : Cardinality(Needs(files, host, place)) = 1
    /\ host[1] = "windows" => \A path \in DOMAIN files : files[path].kind # "link"

Tree(files, host) ==
    [place \in Places(files, host) |-> CHOOSE node \in Needs(files, host, place) : TRUE]

----------------------------------------------------------------------------
\* The record.

StateEntry(entry) ==
    [kind |-> entry.kind,
     digest |-> IF entry.kind = "file" THEN entry.digest ELSE None,
     size |-> IF entry.kind = "file" THEN entry.size ELSE None,
     executable |-> entry.kind = "file" /\ entry.executable,
     target |-> IF entry.kind = "link" THEN entry.target ELSE None]

\* from_plan
FromPlan(plan) ==
    [component |-> plan.component, major |-> plan.major, key |-> plan.key,
     release |-> plan.release, launch |-> plan.launch, diagnostic |-> plan.diagnostic,
     entries |-> [path \in DOMAIN plan.files |-> StateEntry(plan.files[path])]]

\* validate: the fields of an entry are those of its kind.
ReadableEntry(path, entry) ==
    /\ SafePath(path)
    /\ (entry.digest # None) = (entry.kind = "file")
    /\ (entry.size # None) = (entry.kind = "file")
    /\ (entry.target # None) = (entry.kind = "link")
    /\ entry.kind = "file" => entry.size > 0
    /\ entry.kind = "link" => SafeTarget(path, entry.target)
    /\ entry.executable => entry.kind = "file"

\* from_json
Readable(state) ==
    /\ state.component # Unsafe /\ state.major > 0 /\ state.release # None
    /\ SafePath(state.launch) /\ SafePath(state.diagnostic)
    /\ DOMAIN state.entries # {}
    /\ \A path \in DOMAIN state.entries : ReadableEntry(path, state.entries[path])
    /\ Runnable(state.entries, state.launch) /\ Runnable(state.entries, state.diagnostic)

\* Mutant: the same release is taken for the same runtime.
SameRelease(state, plan) == state.release = plan.release

\* matches_plan: all of it, not the identity only.
MatchesPlan(state, plan) == state = FromPlan(plan)

Agrees(entry, node) ==
    /\ node.kind = entry.kind
    /\ entry.kind = "file" =>
        node.digest = entry.digest /\ (entry.executable => node.executable)
    /\ entry.kind = "link" => node.target = entry.target

\* validate_root_against_state
Validates(tree, state, plan) ==
    /\ MatchesPlan(state, plan)
    /\ \A path \in DOMAIN state.entries :
        /\ Place(platform, path) \in DOMAIN tree
        /\ Agrees(state.entries[path], tree[Place(platform, path)])

\* run_java_diagnostic: it ends in time, and names the Java that is required.
Diagnosed(tree, state, plan) ==
    LET place == Place(platform, state.diagnostic)
    IN  place \in DOMAIN tree /\ Reports[tree[place].digest] = plan.major

\* validate_runtime
Ready(plan) ==
    /\ disk # None /\ Readable(disk.record)
    /\ Validates(disk.tree, disk.record, plan)
    /\ Diagnosed(disk.tree, disk.record, plan)

\* decide_replacement: a runtime of this name goes; a record that cannot be
\* read, or is another's, stays.
Replaceable(plan) ==
    disk # None =>
        /\ Readable(disk.record)
        /\ disk.record.component = plan.component /\ disk.record.key = plan.key

----------------------------------------------------------------------------
\* ensure_runtime: what fails to validate before it is put in place leaves
\* what was there; what fails after it stays.
Ensure ==
    /\ Resolves(published, platform)
    /\ LET plan == Plan(published, platform)
           tree == Tree(plan.files, platform)
       IN  /\ ~Ready(plan) /\ Replaceable(plan)
           /\ Makes(plan.files, platform) /\ Validates(tree, FromPlan(plan), plan)
           /\ disk' = [tree |-> tree, record |-> FromPlan(plan)]
    /\ touched' = FALSE
    /\ UNCHANGED <<platform, published, updates>>

Updates == updates < MaxUpdates /\ updates' = updates + 1

\* The index names another release, with the same manifest.
Republish ==
    /\ Updates
    /\ \E offer \in Offers : offer.files = published.files /\ published' = offer
    /\ UNCHANGED <<platform, disk, touched>>

\* Other programs: a file is gone or changed, or the record is edited.
DiskChanges ==
    /\ Updates /\ disk # None
    /\ \/ \E place \in DOMAIN disk.tree :
            \/ disk' = [disk EXCEPT !.tree = [p \in DOMAIN @ \ {place} |-> @[p]]]
            \/ /\ disk.tree[place].kind = "file"
               /\ \/ \E digest \in DOMAIN Reports \ {disk.tree[place].digest} :
                       disk' = [disk EXCEPT !.tree[place].digest = digest]
                  \/ /\ platform[1] # "windows"
                     /\ disk' = [disk EXCEPT !.tree[place].executable = ~@]
       \/ \E path \in DOMAIN disk.record.entries :
            \/ disk' = [disk EXCEPT !.record.entries = [p \in DOMAIN @ \ {path} |-> @[p]]]
            \/ /\ disk.record.entries[path].kind = "file"
               /\ \E digest \in (DOMAIN Reports \cup {None}) \ {disk.record.entries[path].digest} :
                    disk' = [disk EXCEPT !.record.entries[path].digest = digest]
       \/ disk' = [disk EXCEPT !.record.component = Unsafe]
    /\ touched' = TRUE
    /\ UNCHANGED <<platform, published>>

PlanningInit ==
    /\ platform \in Hosts /\ published \in Offers
    /\ disk = None /\ touched = FALSE /\ updates = 0

PlanningNext == Ensure \/ Republish \/ DiskChanges

----------------------------------------------------------------------------
\* "The state must describe the complete exact plan": a runtime that is ready
\* has every entry of the manifest as published, whatever was edited, and is
\* the Java that the game requires.
ReadyIsComplete ==
    Resolves(published, platform) =>
        LET plan == Plan(published, platform)
        IN  Ready(plan) =>
                /\ \A path \in DOMAIN plan.files :
                    /\ Place(platform, path) \in DOMAIN disk.tree
                    /\ Agrees(StateEntry(plan.files[path]), disk.tree[Place(platform, path)])
                /\ Reports[disk.tree[Place(platform, plan.diagnostic)].digest] = plan.major

\* What is accepted can be put on a file system that knows its names apart,
\* and validates there; and its record is read again.
AcceptedInstalls ==
    Resolves(published, platform) =>
        LET plan == Plan(published, platform)
        IN  /\ Readable(FromPlan(plan))
            /\ ~FoldsCase(platform) =>
                /\ Makes(plan.files, platform)
                /\ Validates(Tree(plan.files, platform), FromPlan(plan), plan)

\* What was installed and not changed is never refused: it is ready, or can be
\* replaced, unless its Java is another one.
InstalledIsUsable ==
    disk # None /\ ~touched /\ Resolves(published, platform) =>
        Replaceable(Plan(published, platform))

PlanningHolds == ReadyIsComplete /\ AcceptedInstalls /\ InstalledIsUsable
=============================================================================
