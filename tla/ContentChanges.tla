---------------------------- MODULE ContentChanges ----------------------------
(***************************************************************************)
(* The content of one instance outside its modpack: provider files with    *)
(* their records, local files, disabled mods and enabled resource packs.   *)
(* A provider command resolves a graph and downloads it with no lock, then *)
(* runs one staged transaction under the instance's content lock.  Several *)
(* commands are under way at once, the user edits the directories at any   *)
(* step, a file operation or a save may fail, and the launcher may die.    *)
(*                                                                         *)
(* Bytes are those of a published version of the project a file is named   *)
(* for, or "own": whatever else the user put there.                        *)
(***************************************************************************)
EXTENDS ContentGraph

CONSTANTS
    Mods,        \* the projects that are mods, the others resource packs
    Renamed,     \* the projects whose second version has another file name
    MaxCommands, \* bound: how many commands the interface gives
    Kinds,       \* what may come between: "edit" of a file by the user,
                 \* "fault" of a file operation or a save, "crash"
    Upsets       \* bound: how many of them

ASSUME ModsAssumption == Mods \subseteq Projects /\ Renamed \subseteq Projects
ASSUME BoundsAssumption ==
    Upsets \in Nat /\ MaxCommands \in Nat /\ Kinds \subseteq {"edit", "fault", "crash"}
ASSUME BytesAssumption == None # "own"

VARIABLES
    files,       \* the bytes under each name
    options,     \* names options.txt enables
    receipts,    \* mods-disabled.json: the bytes disabled under each name
    records,     \* content-managed.json
    backups,     \* .content-retired-* files of the transaction, by project
    copies,      \* its .content-rollback-* files: the bytes of the old record
    staged,      \* its .content-staged-* files: the bytes of the new record
    leftovers,   \* such files no transaction owns any more
    given,       \* how many commands were given
    flights,     \* those resolved and downloading
    step, tx,    \* the transaction that holds the content lock
    moved, active, saved,    \* what it has done
    unproven,    \* its rollback met something it could not restore
    \* upsets, and what the properties need of the past
    upsets,
    touched,     \* projects whose files the user changed
    exposed,     \* names changed after the transaction proved or placed them
    waived,      \* requirements <<p, q>> not met by a record of q: a local
                 \* file meets them, p was recovered as it stands, or p was
                 \* resolved without a revision and the records changed since
    torn,        \* some rollback ended unproven
    unsaved,     \* the records could not be restored
    crashed,
    blamed       \* the project whose file an update graph collides with

store == <<files, options, receipts, records>>
private == <<backups, copies, staged, leftovers>>
interface == <<given, flights>>
progress == <<moved, active, saved, unproven>>
run == <<step, tx, progress>>
past == <<touched, exposed, waived, torn, unsaved, crashed>>
vars == <<demands, store, private, interface, run, upsets, past, blamed>>

Commands == 1 .. MaxCommands
Places == {"on", "off"}
Names ==
    {n \in Projects \X Versions \X Places :
        /\ n[2] = "v2" => n[1] \in Renamed
        /\ n[3] = "off" => n[1] \in Mods}
Bytes == Versions \cup {"own"}
File == Bytes \cup {None}

\* The file name of a version, and where a record's file is: in mods/, the
\* disabled name when nothing has the active one.
Name(p, v, place) == <<p, IF p \in Renamed THEN v ELSE "v1", place>>
NameOf(p, r) == Name(p, r.version, "on")
Place(p, r) ==
    LET off == Name(p, r.version, "off")
    IN IF p \in Mods /\ files[NameOf(p, r)] = None THEN off ELSE NameOf(p, r)

\* validate_provider_file.
Intact(p, r) ==
    /\ files[Place(p, r)] = r.version
    /\ p \in Mods => None \in {files[Name(p, r.version, pl)] : pl \in Places}

AllIntact == \A p \in Recorded(records) : Intact(p, records[p])

\* The names a record speaks for.
Claimed == {n \in Names :
    \E p \in Recorded(records), pl \in Places : n = Name(p, records[p].version, pl)}

-----------------------------------------------------------------------------
(* The inventory of mods                                                   *)

Copies(q, places) ==
    {files[n] : n \in {m \in Names : m[1] = q /\ m[3] \in places}} \cap Versions

\* The enabled mods: what Fabric would load.
Enabled == {a \in Mods \X Versions : a[2] \in Copies(a[1], {"on"})}

\* local_inventory_revision: nothing while there is no mod.
Inventory ==
    [files |-> [n \in Names |-> IF n[1] \in Mods THEN files[n] ELSE None],
     receipts |-> receipts,
     records |-> [p \in Projects |-> IF p \in Mods THEN records[p] ELSE None]]

DemandMet(demand, q, mods) ==
    \E v \in Versions : <<q, v>> \in mods /\ Meets(demand, v)

\* Every enabled mod finds the mods it requires among these.
Compatible(mods) ==
    \A a \in mods : \A q \in Mods :
        demands[a[1]][a[2]][q] # None => DemandMet(demands[a[1]][a[2]][q], q, mods)

\* dependency_blockers, when the mods gone leave the inventory: nobody left
\* names p in its record or requires it and finds no other.
Blocked(p, gone, mods) ==
    \/ \E q \in (Mods \cap Recorded(records)) \ (gone \cup {p}) :
        /\ p \in records[q].requires
        /\ files[NameOf(q, records[q])] = records[q].version
    \/ \E a \in mods :
        /\ a[1] \notin gone \cup {p}
        /\ demands[a[1]][a[2]][p] # None
        /\ ~DemandMet(demands[a[1]][a[2]][p], p, {m \in mods : m[1] # p})

-----------------------------------------------------------------------------
(* Types, and the initial states                                           *)

Steps ==
    {"free", "copy", "move", "options", "cleanup", "rollback", "relabel", "toggle"}

TypeOK ==
    /\ demands \in Catalogues
    /\ files \in [Names -> File] /\ options \subseteq Names
    /\ receipts \in [Names -> File] /\ records \in Records
    /\ backups \in [Projects -> File] /\ copies \subseteq Projects
    /\ staged \subseteq Projects /\ leftovers \subseteq Projects \X Bytes
    /\ given \in 0 .. MaxCommands /\ DOMAIN flights = Commands
    /\ \A c \in Commands : flights[c] # None =>
        /\ DOMAIN flights[c] =
            {"op", "roots", "plan", "versions", "direct", "local", "seen", "revision"}
        /\ flights[c].seen \in Records /\ flights[c].plan \subseteq Projects
    /\ step \in Steps /\ (tx = None) = (step = "free")
    /\ (tx # None /\ step \notin {"relabel", "toggle"}) =>
        /\ tx.before \in Records /\ tx.next \in Records
        /\ moved \subseteq tx.retired /\ active \subseteq tx.incoming
    /\ saved \subseteq {"records", "options"}
    /\ upsets \in 0 .. Upsets /\ touched \subseteq Projects /\ exposed \subseteq Names
    /\ waived \subseteq Projects \X Projects /\ blamed \in Projects \cup {None}
    /\ {unproven, torn, unsaved, crashed} \subseteq BOOLEAN

Demanded(r) ==
    \A p \in Recorded(r) : \A q \in Needs(p, r[p].version) :
        r[q] # None /\ Meets(demands[p][r[p].version][q], r[q].version)

\* Installed earlier: the first version of some projects, each mod enabled
\* or not, and local files beside them.
Init ==
    /\ demands \in Catalogues
    /\ \E installed, roots, disabled, packs \in SUBSET Projects :
        /\ roots \subseteq installed
        /\ disabled \subseteq installed \cap Mods
        /\ packs \subseteq installed \ Mods
        /\ records = [p \in Projects |->
            IF p \in installed
            THEN [version |-> "v1", retained |-> p \in roots,
                  requires |-> Needs(p, "v1"), pinned |-> FALSE,
                  origin |-> IF p \in roots THEN "direct" ELSE "dependency"]
            ELSE None]
        /\ Valid(records) /\ Orphans(records) = {} /\ Demanded(records)
        /\ \A p \in Mods \cap (installed \ disabled) :
            records[p].requires \cap Mods \cap disabled = {}
        /\ \E local \in [Projects \ installed -> {None, "v1", "own"}] :
            /\ Cardinality({p \in DOMAIN local : local[p] # None}) <= 1
            /\ files = [n \in Names |->
                IF n[2] = "v2" THEN None
                ELSE IF n[1] \in installed
                     THEN IF (n[3] = "off") = (n[1] \in disabled) THEN "v1" ELSE None
                     ELSE IF n[3] = "on" THEN local[n[1]] ELSE None]
        /\ receipts = [n \in Names |->
            IF n[1] \in disabled THEN files[n] ELSE None]
        /\ options = {Name(p, "v1", "on") : p \in packs}
    /\ backups = [p \in Projects |-> None] /\ copies = {} /\ staged = {}
    /\ leftovers = {}
    /\ given = 0 /\ flights = [c \in Commands |-> None]
    /\ step = "free" /\ tx = None /\ moved = {} /\ active = {} /\ saved = {}
    /\ upsets = 0 /\ touched = {} /\ exposed = {} /\ waived = {}
    /\ unproven = FALSE /\ torn = FALSE /\ unsaved = FALSE /\ crashed = FALSE
    /\ blamed = None

-----------------------------------------------------------------------------
(* The user and the failures                                               *)

Upset(kind) == kind \in Kinds /\ upsets < Upsets /\ upsets' = upsets + 1

Fault == Upset("fault")
Calm == UNCHANGED upsets

\* Names whose bytes the transaction has proven and not yet moved, or placed.
Exposed ==
    (IF step = "move" THEN {Place(p, tx.before[p]) : p \in tx.retired \ moved} ELSE {})
        \cup {NameOf(p, tx.next[p]) : p \in active}

\* The user puts other bytes under a name, or deletes a file, while a command
\* is under way, but makes no disabled file.
UserEdits(n) ==
    /\ Upset("edit")
    /\ step # "free" \/ \E c \in Commands : flights[c] # None
    /\ n[3] = "off" => files[n] # None
    /\ \E b \in {"own", None} \ {files[n]} : files' = [files EXCEPT ![n] = b]
    /\ touched' = touched \cup {n[1]}
    /\ exposed' = IF step # "free" /\ n \in Exposed THEN exposed \cup {n} ELSE exposed
    /\ UNCHANGED <<demands, options, receipts, records, private, interface, run, waived,
                   torn, unsaved, crashed, blamed>>

\* What a transaction has under private names.
Retained ==
    {<<p, backups[p]>> : p \in {q \in Projects : backups[q] # None}}
        \cup {<<p, tx.before[p].version>> : p \in copies}
Debris == Retained \cup {<<p, tx.next[p].version>> : p \in staged}

Forgotten ==
    /\ step' = "free" /\ tx' = None /\ moved' = {} /\ active' = {} /\ saved' = {}
    /\ unproven' = FALSE
    /\ backups' = [p \in Projects |-> None] /\ copies' = {} /\ staged' = {}

\* The launcher dies, and with it every command under way.  Nothing is
\* journaled: the next start finds what the steps so far have written.
Crash ==
    /\ Upset("crash")
    /\ step # "free" \/ \E c \in Commands : flights[c] # None
    /\ leftovers' = leftovers \cup Debris
    /\ Forgotten
    /\ flights' = [c \in Commands |-> None]
    /\ crashed' = (crashed \/ step # "free")
    /\ UNCHANGED <<demands, store, given, touched, exposed, waived, torn, unsaved, blamed>>

-----------------------------------------------------------------------------
(* Resolving, with no lock                                                 *)

Idle(c) == c = given + 1

Departs(c, flight) ==
    /\ given' = c /\ flights' = [flights EXCEPT ![c] = flight]
    /\ UNCHANGED <<demands, store, private, run, upsets, past>>

Answered(c) == flights' = [flights EXCEPT ![c] = None] /\ UNCHANGED given

\* reconcile_provider_resolution: the planned mods but the last are compared
\* with the mods that are there.
Parents(q, plan, versions) ==
    {p \in plan \cap Mods : demands[p][versions[p]][q] # None}

Satisfying(q, plan, versions) ==
    {v \in Copies(q, {"on"}) :
        IF Parents(q, plan, versions) = {} THEN v = versions[q]
        ELSE \A p \in Parents(q, plan, versions) : Meets(demands[p][versions[p]][q], v)}

\* Planned mods an enabled file makes unnecessary, those a file collides
\* with, and those whose provider names a version the file is not.
Satisfied(last, plan, versions) ==
    {q \in (plan \cap Mods) \ {last} : Satisfying(q, plan, versions) # {}}

Colliding(last, plan, versions) ==
    {q \in (plan \cap Mods) \ {last} :
        Satisfying(q, plan, versions) = {} /\ Copies(q, Places) # {}}

Mispinned(last, plan, versions) ==
    {q \in Satisfied(last, plan, versions) :
        /\ versions[q] \notin Copies(q, {"on"})
        /\ \E p \in plan : demands[p][versions[p]][q] \in Versions}

LocallyMet(r, plan, satisfied) ==
    {a \in plan \X satisfied : r[a[2]] = None}

\* install_modrinth_content, up to its download: the graph, reconciled with
\* the mods when the project asked for is one.
ResolveInstall(c, root) ==
    /\ Idle(c) /\ AllIntact
    /\ \E versions \in [Projects -> Versions] :
        LET plan == InstallPlan(records, root, versions)
            lasts == IF root \in plan THEN {root}
                     ELSE {p \in plan : \A q \in plan : demands[q][versions[q]][p] = None}
        IN /\ Installable(records, root, versions)
           /\ \E last \in lasts :
                LET met == IF root \in Mods THEN Satisfied(last, plan, versions) ELSE {}
                IN /\ root \in Mods =>
                        Colliding(last, plan, versions) = {}
                            /\ Mispinned(last, plan, versions) = {}
                   /\ Departs(c,
                        [op |-> "install", roots |-> {root}, direct |-> last,
                         plan |-> plan \ met, versions |-> versions,
                         local |-> LocallyMet(records, plan \ met, met),
                         seen |-> records,
                         revision |-> IF root \in Mods THEN Inventory ELSE None])
    /\ UNCHANGED blamed

\* resolve_updates_preview for one or several selected projects, the first
\* of which decides whether the graph is reconciled with the mods.
ResolveUpdate(c, roots) ==
    /\ Idle(c) /\ AllIntact
    /\ \A p \in roots :
        /\ records[p] # None /\ records[p].version # Newest
        /\ records[p].retained /\ ~records[p].pinned
        /\ Place(p, records[p])[3] = "on"
    /\ \E versions \in [Projects -> Versions], first, last \in roots :
        /\ \A p \in roots : versions[p] = Newest
        /\ Resolves(records, roots, versions)
        /\ first = last => roots \subseteq Closure({first}, versions)
        /\ LET all == UpdatePlan(records, roots, versions)
               reconciled == first \in Mods
               met == IF reconciled THEN Satisfied(last, all, versions) ELSE {}
               colliding == IF reconciled THEN Colliding(last, all, versions) ELSE {}
               plan == all \ met
           IN /\ \A q \in all : demands[q][versions[q]][last] = None
              /\ reconciled => last \in Mods
              /\ \/ \E p \in colliding :
                      /\ blamed' = p /\ given' = c
                      /\ UNCHANGED <<demands, store, private, flights, run, upsets, past>>
                 \/ /\ colliding = {}
                    /\ reconciled => Mispinned(last, all, versions) = {}
                    /\ Updatable(records, roots, plan)
                    /\ Departs(c,
                         [op |-> "update", roots |-> roots, direct |-> None,
                          plan |-> plan, versions |-> versions,
                          local |-> LocallyMet(records, plan, met), seen |-> records,
                          revision |-> IF reconciled THEN Inventory ELSE None])
                    /\ UNCHANGED blamed

\* resolve_removal_preview.
ResolveRemoval(c, p) ==
    /\ Idle(c) /\ AllIntact
    /\ Removable(records, p)
    /\ Departs(c,
        [op |-> "remove", roots |-> {p}, direct |-> None, plan |-> {},
         versions |-> [q \in Projects |-> "v1"], local |-> {}, seen |-> records,
         revision |-> None])
    /\ UNCHANGED blamed

-----------------------------------------------------------------------------
(* Commands that need no download: each is one window of the content lock  *)

Quickly(c) ==
    /\ Idle(c) /\ step = "free"
    /\ given' = c
    /\ UNCHANGED <<demands, private, flights, run, upsets, touched, exposed, torn,
                   unsaved, crashed, blamed>>

\* retain_provider, which an install ends in when nothing is to be downloaded.
Retain(c, p) ==
    /\ Quickly(c)
    /\ records[p] # None /\ ~records[p].retained /\ Intact(p, records[p])
    /\ records' = [records EXCEPT ![p].retained = TRUE, ![p].origin = "direct"]
    /\ UNCHANGED <<files, options, receipts, waived>>

\* set_update_policy.
SetPinned(c, p) ==
    /\ Quickly(c)
    /\ records[p] # None
    /\ records' = [records EXCEPT ![p].pinned = ~@]
    /\ UNCHANGED <<files, options, receipts, waived>>

\* set_pack_enabled, of a pack that is there.
SetPackEnabled(c, n) ==
    /\ Quickly(c)
    /\ n[1] \notin Mods /\ files[n] # None
    /\ n \in Claimed => files[n] = records[n[1]].version
    /\ options' = IF n \in options THEN options \ {n} ELSE options \cup {n}
    /\ UNCHANGED <<files, receipts, records, waived>>

\* The bytes under a name are those the launcher disabled there, if it did.
Receipted(n) == receipts[n] \in {None, files[n]}

\* remove, of a local file; a pack leaves options.txt with it.
RemoveLocal(c, n) ==
    /\ Quickly(c)
    /\ files[n] # None /\ n \notin Claimed /\ Receipted(n)
    /\ (n[1] \in Mods /\ n[3] = "on" /\ files[n] \in Versions) =>
        ~Blocked(n[1], {}, Enabled)
    /\ files' = [files EXCEPT ![n] = None]
    /\ options' = options \ {n}
    /\ UNCHANGED <<receipts, records, waived>>

\* register_recovered_content, with the lookup before it: the bytes are
\* hashed again under the lock, and no requirement is installed.
Recover(c, p) ==
    /\ Quickly(c)
    /\ records[p] = None
    /\ \E v \in Versions, place \in Places :
        LET n == Name(p, v, place)
            known == Edges(p, v, Recorded(records))
            unmet == {q \in Needs(p, v) :
                \/ q \notin known
                \/ ~Meets(demands[p][v][q], records[q].version)
                \/ q \in Mods /\ files[NameOf(q, records[q])] # records[q].version}
        IN /\ n \in Names /\ files[n] = v /\ Receipted(n)
           /\ p \in Mods => \A m \in Names \ {n} :
                m[1] = p => files[m] \notin Versions
           /\ records' = [records EXCEPT ![p] =
                [version |-> v, retained |-> TRUE, requires |-> known,
                 origin |-> "recovered", pinned |-> FALSE]]
           /\ Valid(records')
           /\ waived' = waived \cup ({p} \X unmet)
    /\ UNCHANGED <<files, options, receipts>>

-----------------------------------------------------------------------------
(* Enabling and disabling a mod                                            *)

Togglable(n) ==
    /\ n[1] \in Mods /\ files[n] # None /\ Receipted(n)
    /\ n \in Claimed => files[n] = records[n[1]].version
    /\ IF n[3] = "on"
       THEN files[n] \in Versions => ~Blocked(n[1], {}, Enabled)
       ELSE /\ files[n] \in Versions => \A q \in Mods :
                demands[n[1]][files[n]][q] # None =>
                    DemandMet(demands[n[1]][files[n]][q], q, Enabled)
            /\ n \in Claimed => \A q \in records[n[1]].requires :
                /\ q \in Mods
                /\ files[NameOf(q, records[q])] = records[q].version

Other(n) == [n EXCEPT ![3] = IF n[3] = "on" THEN "off" ELSE "on"]

\* set_enabled: the file gets its other name and loses the one it had, then
\* the receipts are saved.
Toggle(c, n) ==
    /\ Idle(c) /\ step = "free"
    /\ Togglable(n) /\ files[Other(n)] = None
    /\ files' = [files EXCEPT ![Other(n)] = files[n]]
    /\ step' = "relabel" /\ exposed' = {}
    /\ tx' = [kind |-> "toggle", name |-> n, bytes |-> files[n]]
    /\ given' = c
    /\ UNCHANGED <<demands, options, receipts, records, private, flights, progress, upsets,
                   touched, waived, torn, unsaved, crashed, blamed>>

Relabel ==
    /\ step = "relabel"
    /\ \/ /\ files[tx.name] # None /\ Calm
          /\ files' = [files EXCEPT ![tx.name] = None]
          /\ step' = "toggle" /\ UNCHANGED tx
       \/ /\ \/ files[tx.name] = None /\ Calm
             \/ Fault
          /\ files' = [files EXCEPT ![Other(tx.name)] = None]
          /\ step' = "free" /\ tx' = None
    /\ UNCHANGED <<demands, options, receipts, records, private, interface, progress, touched,
                   exposed, waived, torn, unsaved, crashed, blamed>>

\* A save that fails gives the file its name back.
Toggled ==
    /\ step = "toggle"
    /\ step' = "free" /\ tx' = None
    /\ LET n == tx.name
       IN \/ /\ receipts' = IF n[3] = "off" THEN [receipts EXCEPT ![n] = None]
                            ELSE [receipts EXCEPT ![Other(n)] = tx.bytes]
             /\ Calm /\ UNCHANGED <<files, torn>>
          \/ /\ Fault /\ UNCHANGED receipts
             /\ IF files[n] = None /\ files[Other(n)] # None
                THEN /\ files' = [files EXCEPT ![n] = files[Other(n)], ![Other(n)] = None]
                     /\ UNCHANGED torn
                ELSE torn' = TRUE /\ UNCHANGED files
    /\ UNCHANGED <<demands, options, records, private, interface, progress, touched,
                   exposed, waived, unsaved, crashed, blamed>>

-----------------------------------------------------------------------------
(* The transaction                                                         *)

\* The commands busy elsewhere answer "operation in progress"; a transaction
\* whose checks fail answers, and nothing changes.
Refuse(c) ==
    /\ flights[c] # None
    /\ Answered(c)
    /\ UNCHANGED <<demands, store, private, run, upsets, past, blamed>>

\* The checks every transaction with downloads makes on the mods that would
\* be there: no second file of a mod, no free name taken, all compatible.
Placeable(plan, versions, kept) ==
    /\ \A p \in plan :
        LET old == IF records[p] # None THEN {Place(p, records[p])} ELSE {}
        IN /\ Name(p, versions[p], "on") \in kept \cup {n \in Names : files[n] = None}
           /\ p \in Mods => \A n \in Names \ old : n[1] = p => files[n] \notin Versions
    /\ Compatible({a \in Enabled : a[1] \notin plan \cap Recorded(records)}
                    \cup {<<p, versions[p]>> : p \in plan \cap Mods})

Starts(c, transaction, first) ==
    /\ Answered(c)
    /\ tx' = transaction
    /\ step' = first /\ exposed' = {}
    /\ UNCHANGED <<demands, store, backups, copies, leftovers, progress, upsets, touched,
                   waived, torn, unsaved, crashed, blamed>>

\* activate_provider_transaction, up to its first file.
BeginInstall(c) ==
    /\ step = "free" /\ flights[c] # None /\ flights[c].op = "install"
    /\ LET f == flights[c]
           next == InstalledState(records, f.plan, f.direct, f.versions)
           stale == IF f.revision = None /\ f.seen # records
                    THEN {a \in f.plan \X Projects :
                            demands[a[1]][f.versions[a[1]]][a[2]] # None}
                    ELSE {}
       IN /\ f.plan # {}
          /\ f.revision \in {None, Inventory}
          /\ f.plan \cap Recorded(records) = {}
          /\ Placeable(f.plan, f.versions, {})
          /\ staged' = {}
          /\ Starts(c,
               [kind |-> "install", before |-> records, next |-> next, retired |-> {},
                incoming |-> f.plan, waived |-> waived,
                waives |-> f.local \cup stale, files |-> files,
                options |-> options],
               "move")

\* The mods and the records are those the plan was made for.
Reviewed(f) == f.revision \in {None, Inventory} /\ records = f.seen

\* apply_lifecycle_state, up to its staged copies.  A retired file is where
\* its record's file is now.
BeginLifecycle(c) ==
    /\ step = "free" /\ flights[c] # None /\ flights[c].op # "install"
    /\ LET f == flights[c]
           next == IF f.op = "update"
                   THEN UpdatedState(f.seen, f.roots, f.plan, f.versions)
                   ELSE RemovedState(f.seen, CHOOSE p \in f.roots : TRUE)
           changed == {p \in Projects :
                (records[p] = None) # (next[p] = None)
                    \/ (records[p] # None /\ records[p].version # next[p].version)}
           retired == changed \cap Recorded(records)
           incoming == changed \cap Recorded(next)
           removed == retired \ incoming
       IN /\ Reviewed(f)
          /\ Valid(next) /\ f.plan \subseteq Recorded(next) /\ incoming = f.plan
          /\ AllIntact
          /\ \A p \in removed \cap Mods :
                files[NameOf(p, records[p])] = None \/ ~Blocked(p, removed, Enabled)
          /\ f.plan # {} => Placeable(f.plan, f.versions,
                               {Place(p, records[p]) : p \in retired})
          /\ \A p \in incoming \cap retired : Place(p, records[p])[3] = "on"
          /\ staged' = incoming
          /\ Starts(c,
               [kind |-> "lifecycle", before |-> records, next |-> next,
                retired |-> retired, incoming |-> incoming, waived |-> waived,
                waives |-> f.local, files |-> files, options |-> options],
               "copy")

\* A step that stays in the transaction, and the one it fails to.
Fails == step' = "rollback" /\ UNCHANGED <<store, backups, copies, moved, active, saved>>

Inside ==
    UNCHANGED <<demands, leftovers, interface, tx, touched, exposed, torn, crashed, blamed>>

\* Mutant: what retires is verified, and no copy of it is kept.
CopyNothing ==
    /\ step = "copy"
    /\ \A p \in tx.retired : Intact(p, tx.before[p])
    /\ step' = "move"
    /\ Inside
    /\ UNCHANGED <<store, private, progress, upsets, waived, unsaved>>

\* The verified rollback copies of what retires.
Copy ==
    /\ step = "copy"
    /\ \/ /\ \A p \in tx.retired : Intact(p, tx.before[p])
          /\ copies' = tx.retired /\ step' = "move"
          /\ Calm /\ UNCHANGED <<store, backups, moved, active, saved>>
       \/ /\ \E p \in tx.retired : ~Intact(p, tx.before[p])
          /\ Fails /\ Calm
       \/ Fails /\ Fault
    /\ Inside /\ UNCHANGED <<staged, waived, unproven, unsaved>>

\* The place a retiring file had when it was proven.
From(p) ==
    LET off == Name(p, tx.before[p].version, "off")
    IN IF p \in Mods /\ tx.files[NameOf(p, tx.before[p])] = None THEN off
       ELSE NameOf(p, tx.before[p])

Move(p) ==
    /\ step = "move" /\ p \in tx.retired \ moved
    /\ \/ /\ files[From(p)] # None
          /\ backups' = [backups EXCEPT ![p] = files[From(p)]]
          /\ files' = [files EXCEPT ![From(p)] = None]
          /\ moved' = moved \cup {p}
          /\ Calm /\ UNCHANGED <<options, receipts, records, copies, active, saved, step>>
       \/ files[From(p)] = None /\ Fails /\ Calm
       \/ Fails /\ Fault
    /\ Inside /\ UNCHANGED <<staged, waived, unproven, unsaved>>

Target(p) == NameOf(p, tx.next[p])

\* Mutant: a file is renamed into place, over what is there.
LinkOver(p) ==
    /\ step = "move" /\ moved = tx.retired /\ p \in tx.incoming \ active
    /\ files' = [files EXCEPT ![Target(p)] = tx.next[p].version]
    /\ active' = active \cup {p}
    /\ Inside
    /\ UNCHANGED <<options, receipts, records, private, moved, saved, step, upsets, waived,
                   unproven, unsaved>>

\* A hard link never overwrites.
Link(p) ==
    /\ step = "move" /\ moved = tx.retired /\ p \in tx.incoming \ active
    /\ \/ /\ files[Target(p)] = None
          /\ files' = [files EXCEPT ![Target(p)] = tx.next[p].version]
          /\ active' = active \cup {p}
          /\ Calm
          /\ UNCHANGED <<options, receipts, records, backups, copies, moved, saved, step>>
       \/ files[Target(p)] # None /\ Fails /\ Calm
       \/ Fails /\ Fault
    /\ Inside /\ UNCHANGED <<staged, waived, unproven, unsaved>>

\* What the records of a transaction leave unmet replaces what its projects
\* left unmet before.
Waives == {a \in waived : a[1] \notin tx.incoming} \cup tx.waives

Commit ==
    /\ step = "move" /\ moved = tx.retired /\ active = tx.incoming
    /\ \/ /\ records' = tx.next /\ saved' = saved \cup {"records"}
          /\ step' = IF tx.kind = "install" THEN "cleanup" ELSE "options"
          /\ waived' = Waives
          /\ Calm /\ UNCHANGED <<files, options, receipts, backups, copies, moved, active>>
       \/ Fails /\ Fault /\ UNCHANGED waived
    /\ Inside /\ UNCHANGED <<staged, unproven, unsaved>>

Migrated(enabled) ==
    (enabled \ {NameOf(p, tx.before[p]) : p \in tx.retired})
        \cup {Target(p) : p \in {q \in tx.retired \cap tx.incoming :
                                    NameOf(q, tx.before[q]) \in enabled}}

SetOptions ==
    /\ step = "options"
    /\ \/ /\ options' = Migrated(options)
          /\ saved' = saved \cup {"options"} /\ step' = "cleanup"
          /\ Calm /\ UNCHANGED <<files, receipts, records, backups, copies, moved, active>>
       \/ Fails /\ Fault
    /\ Inside /\ UNCHANGED <<staged, waived, unproven, unsaved>>

Cleanup(p) ==
    /\ step = "cleanup" /\ backups[p] # None
    /\ \/ /\ backups' = [backups EXCEPT ![p] = None]
          /\ Calm /\ UNCHANGED <<store, copies, moved, active, saved, step>>
       \/ Fails /\ Fault
    /\ Inside /\ UNCHANGED <<staged, waived, unproven, unsaved>>

Finish ==
    /\ step = "cleanup" /\ \A p \in Projects : backups[p] = None
    /\ Forgotten
    /\ UNCHANGED <<demands, store, leftovers, interface, upsets, past, blamed>>

-----------------------------------------------------------------------------
(* The rollback                                                            *)

\* Gives up what it placed, whatever is there now.  An install ends at the
\* first file it cannot remove.
Unlink(p) ==
    /\ step = "rollback" /\ p \in active
    /\ \/ /\ files[Target(p)] # None
          /\ files' = [files EXCEPT ![Target(p)] = None]
          /\ active' = active \ {p} /\ Calm /\ UNCHANGED <<unproven, step>>
       \/ /\ \/ files[Target(p)] = None /\ Calm
             \/ Fault
          /\ unproven' = TRUE
          /\ active' = IF tx.kind = "install" THEN {} ELSE active \ {p}
          /\ UNCHANGED <<files, step>>
    /\ Inside
    /\ UNCHANGED <<options, receipts, records, private, moved, saved, waived, unsaved>>

Relink(p) ==
    /\ step = "rollback" /\ active = {} /\ p \in moved
    /\ LET bytes == IF backups[p] # None THEN backups[p]
                    ELSE IF p \in copies THEN tx.before[p].version ELSE None
       IN \/ /\ files[From(p)] = None /\ bytes # None
             /\ files' = [files EXCEPT ![From(p)] = bytes]
             /\ Calm /\ UNCHANGED unproven
          \/ /\ \/ (files[From(p)] # None \/ bytes = None) /\ Calm
                \/ Fault
             /\ unproven' = TRUE /\ UNCHANGED files
    /\ moved' = moved \ {p}
    /\ Inside
    /\ UNCHANGED <<options, receipts, records, private, active, saved, step, waived,
                   unsaved>>

\* Mutant: the records stay those of the next state.
RestoreNoRecords ==
    /\ step = "rollback" /\ active = {} /\ moved = {} /\ "records" \in saved
    /\ saved' = saved \ {"records"}
    /\ Inside
    /\ UNCHANGED <<store, private, moved, active, step, upsets, waived, unproven, unsaved>>

RestoreRecords ==
    /\ step = "rollback" /\ active = {} /\ moved = {} /\ "records" \in saved
    /\ saved' = saved \ {"records"}
    /\ \/ /\ records' = tx.before /\ waived' = tx.waived
          /\ Calm /\ UNCHANGED <<unproven, unsaved>>
       \/ /\ Fault /\ unproven' = TRUE /\ unsaved' = TRUE
          /\ UNCHANGED <<records, waived>>
    /\ Inside
    /\ UNCHANGED <<files, options, receipts, private, moved, active, step>>

RestoreOptions ==
    /\ step = "rollback" /\ active = {} /\ moved = {} /\ saved = {"options"}
    /\ saved' = {}
    /\ \/ options' = tx.options /\ Calm /\ UNCHANGED unproven
       \/ Fault /\ unproven' = TRUE /\ UNCHANGED options
    /\ Inside
    /\ UNCHANGED <<files, receipts, records, private, moved, active, step, waived, unsaved>>

\* The private files go too, but backups and copies of an unproven rollback.
RolledBack ==
    /\ step = "rollback" /\ active = {} /\ moved = {} /\ saved = {}
    /\ Forgotten
    /\ leftovers' = IF unproven THEN leftovers \cup Retained ELSE leftovers
    /\ torn' = (torn \/ unproven)
    /\ UNCHANGED <<demands, store, interface, upsets, touched, exposed, waived, unsaved,
                   crashed, blamed>>

-----------------------------------------------------------------------------

Command(c) ==
    \/ \E p \in Projects :
        \/ ResolveInstall(c, p) \/ ResolveRemoval(c, p)
        \/ Retain(c, p) \/ SetPinned(c, p) \/ Recover(c, p)
    \/ \E roots \in (SUBSET Projects) \ {{}} : ResolveUpdate(c, roots)
    \/ \E n \in Names : SetPackEnabled(c, n) \/ RemoveLocal(c, n) \/ Toggle(c, n)
    \/ Refuse(c) \/ BeginInstall(c) \/ BeginLifecycle(c)

Progress ==
    \/ Relabel \/ Toggled \/ Copy \/ Commit \/ SetOptions \/ Finish
    \/ \E p \in Projects : Move(p) \/ Link(p) \/ Cleanup(p) \/ Unlink(p) \/ Relink(p)
    \/ RestoreRecords \/ RestoreOptions \/ RolledBack

Next ==
    \/ \E c \in Commands : Command(c)
    \/ Progress
    \/ \E n \in Names : UserEdits(n)
    \/ Crash

Spec == Init /\ [][Next]_vars

-----------------------------------------------------------------------------
(* What the content of an instance must be                                 *)

\* No sequence of commands leaves an edge to a project that is not recorded,
\* a cycle, or a project nothing retains, which the next command would
\* delete, except what only a recovered project requires: required_edges, prune_orphans and ContentState::validate.
GraphIsClosed ==
    /\ Valid(records)
    /\ Orphans([p \in Projects |->
            IF records[p] = None THEN None
            ELSE [records[p] EXCEPT !.requires = @ \cup
                    {q \in Recorded(records) : <<p, q>> \in waived}]]) = {}

\* What the version of an installed project requires is recorded at a version
\* it accepts, whatever other command ran between resolving and committing:
\* the revision, the comparison with the reviewed state and the rules of
\* updated_state_multi.
DemandsMet ==
    \A p \in Recorded(records) : \A q \in Needs(p, records[p].version) :
        <<p, q>> \notin waived =>
            records[q] # None
                /\ Meets(demands[p][records[p].version][q], records[q].version)

\* An enabled mod's requirements are enabled too: disabling is refused while
\* they are needed, enabling before they are there, and no update or removal
\* goes round that.
RequirementsEnabled ==
    (step = "free" /\ ~crashed /\ ~torn) =>
        \A p \in (Mods \cap Recorded(records)) \ touched :
            files[NameOf(p, records[p])] = records[p].version =>
                \A q \in (records[p].requires \cap Mods) \ touched :
                    <<p, q>> \notin waived =>
                        files[NameOf(q, records[q])] = records[q].version

\* Between two transactions every record has its file, with its bytes, once,
\* or a foreign file that was disabled under its name stays beside it.
RecordsMatchFiles ==
    (step = "free" /\ ~crashed /\ ~torn) =>
        \A p \in Recorded(records) \ touched :
            \/ Intact(p, records[p])
            \/ /\ p \in Mods /\ files[NameOf(p, records[p])] = records[p].version
               /\ files[Name(p, records[p].version, "off")] = "own"

\* Whatever fails and whenever the launcher dies, the bytes of every record
\* are on the disk, in place or under a private name beside it: rollback
\* copies before the first move, the commit before the first deletion.
NothingRecordedIsLost ==
    ~unsaved =>
        \A p \in Recorded(records) \ touched :
            \/ \E place \in Places :
                LET n == Name(p, records[p].version, place)
                IN n \in Names /\ files[n] = records[p].version
            \/ <<p, records[p].version>> \in
                    leftovers \cup (IF step \in {"free", "relabel", "toggle"} THEN {} ELSE Debris)

\* options.txt enables no pack the launcher has removed or renamed.
EnabledPacksExist ==
    (step = "free" /\ ~crashed /\ ~torn) =>
        \A n \in options : n[1] \notin touched => files[n] # None

\* A transaction that is rolled back and says so leaves files, records,
\* enabled packs and disabled mods as it found them.
AllOrNothing ==
    [][(step = "rollback" /\ step' = "free" /\ upsets' = upsets /\ ~unproven)
        => /\ records = tx.before /\ options = tx.options
           /\ \A n \in Names : n[1] \notin touched => files[n] = tx.files[n]]_vars

\* No command moves a pinned project to another version, even one resolved
\* before it was pinned.
PinnedStays ==
    [][\A p \in Recorded(records) :
        (records[p].pinned /\ records'[p] # None)
            => records'[p].version = records[p].version]_vars

\* A transaction never moves, deletes or overwrites bytes the user had put
\* there when it proved or placed the file.
UserBytesSurvive ==
    [][(step # "free" /\ tx.kind # "toggle" /\ upsets' = upsets)
        => \A n \in Names \ exposed : files[n] = "own" => files'[n] = "own"]_vars

\* "Lifecycle updates may replace only their own verified provider record":
\* and they may replace that.
RootsReplaceThemselves == blamed = None \/ ~records[blamed].retained

\* The graph of required content stays whole: closed, with every demand met,
\* and nothing enabled over something disabled.
GraphHolds == GraphIsClosed /\ DemandsMet /\ RequirementsEnabled

\* Records, files and the game's list of enabled packs stay together, and what
\* is recorded is on the disk somewhere, at every step.
RecordsHold == TypeOK /\ RecordsMatchFiles /\ NothingRecordedIsLost /\ EnabledPacksExist

\* No command overrules the user: pins stay and foreign bytes stay.
UserChoicesStay == PinnedStays /\ UserBytesSurvive
=============================================================================
