---------------------------- MODULE PackInstall ----------------------------
(***************************************************************************)
(* A modpack becomes an instance: the reviewed version is resolved again,  *)
(* an installing instance is created with its game, the files of the pack  *)
(* are put under its root one by one, its components by the transaction of *)
(* provider content, and two documents record them; the registry is        *)
(* written last.  A failure after the game is installed removes what was   *)
(* put there, file by file, and then the instance.                         *)
(*                                                                         *)
(* Anything may fail, the launcher may die, and the user may write in the  *)
(* directory meanwhile.                                                    *)
(***************************************************************************)
EXTENDS PackArchive

CONSTANTS
    Offers,        \* what the provider may publish as the version
    Own,           \* the content of a file of the user
    MaxUpsets      \* bound: edits and publications beside an installation

VARIABLES
    offer,         \* what is published
    chosen,        \* the optional files the user chose
    reviewed,      \* the preview the user confirmed
    \* the instance
    row,           \* its registry record
    game,          \* its game/
    files,         \* the content of each path under its root
    dirs,          \* directories there
    pack,          \* pack-installed.json
    content,       \* content-managed.json: the components it records
    \* the command
    step, resolved,
    created,       \* what it has put there, in order
    records,       \* the provider records it was given back
    removed,       \* how many of those its rollback has removed
    scanned,       \* the inventory of mods/ before the components are acquired
    outcome,
    \* what the properties need of the past
    upsets,
    late,          \* paths the user changed after they were last verified
    failing        \* has any operation failed?

instance == <<row, game, files, dirs, pack, content>>
command == <<step, resolved, created, records, removed, scanned, outcome>>
past == <<upsets, late, failing>>
vars == <<offer, chosen, reviewed, instance, command, past>>

Standard == {"mods", "resourcepacks", "config"}

\* Every path that a publication names, and one that none does.
Stranger == [dir |-> "mods", name |-> "stranger", spelling |-> "plain"]
AllPaths ==
    {Stranger} \cup
    {path \in UNION {Paths(o.archive.index.files) \cup Paths(o.archive.entries) : o \in Offers} :
        Safe(path)}

Occupied(path) == files[path] # None

Entry(path, bytes) == [path |-> path, content |-> bytes]
Holding(paths) == {path.dir : path \in paths} \ {"root"}
Members(seq) == {seq[n] : n \in DOMAIN seq}

\* Those of the pack's that come from its own archive or addresses, in order.
OwnFiles ==
    [n \in DOMAIN resolved.unresolved |->
        Entry(resolved.unresolved[n].path, resolved.unresolved[n].content)]
    \o CHOOSE s \in [1 .. Cardinality(resolved.overrides) -> resolved.overrides] :
            \A o \in resolved.overrides : \E n \in DOMAIN s : s[n] = o

Ends(result) == step' = "done" /\ outcome' = result

-----------------------------------------------------------------------------
(* Review *)

\* The version and the optional files are chosen, and the preview confirmed.
Review ==
    /\ step = "idle"
    /\ \E chosenNow \in SUBSET Paths(offer.archive.index.files) :
        \E shown \in {Resolve(offer, chosenNow)} :
            /\ shown # Refused
            /\ chosen' = chosenNow
            /\ reviewed' = shown.preview
    /\ step' = "resolve"
    /\ UNCHANGED <<offer, instance, resolved, created, records, removed, scanned, outcome, past>>

\* Mutant: what is resolved again is not compared with what was reviewed.
AcceptAnything ==
    /\ step = "resolve"
    /\ \E now \in {Resolve(offer, chosen)} :
        IF now = Refused
        THEN Ends("stale") /\ UNCHANGED resolved
        ELSE step' = "download" /\ resolved' = now /\ UNCHANGED outcome
    /\ UNCHANGED <<offer, chosen, reviewed, instance, created, records, removed, scanned, past>>

\* install: resolved again, and refused when it is not what was reviewed.
Accept ==
    /\ step = "resolve"
    /\ \E now \in {Resolve(offer, chosen)} :
        IF now = Refused \/ now.preview # reviewed
        THEN Ends("stale") /\ UNCHANGED resolved
        ELSE step' = "download" /\ resolved' = now /\ UNCHANGED outcome
    /\ UNCHANGED <<offer, chosen, reviewed, instance, created, records, removed, scanned, past>>

\* Everything is acquired, and compared with what the index declares of it,
\* before an instance is created.
Download ==
    /\ step = "download"
    /\ LET agree == \A part \in {resolved.unresolved, resolved.plans} :
                        \A n \in DOMAIN part : part[n].agrees
       IN  \/ agree /\ step' = "create" /\ UNCHANGED <<outcome, failing>>
           \/ ~agree /\ Ends("refused") /\ UNCHANGED failing
           \/ Ends("refused") /\ failing' = TRUE
    /\ UNCHANGED <<offer, chosen, reviewed, instance, resolved, created, records, removed, scanned,
                   upsets, late>>

\* begin_pack_instance: an installing record, then its game; without it the
\* record stays, for inspection.
CreateInstance ==
    /\ step = "create"
    /\ \/ row' = "installing" /\ game' = "whole" /\ step' = "place" /\ UNCHANGED <<outcome, failing>>
       \/ row' \in {None, "installing"} /\ UNCHANGED game /\ Ends("incomplete") /\ failing' = TRUE
    /\ UNCHANGED <<offer, chosen, reviewed, files, dirs, pack, content, resolved, created,
                   records, removed, scanned, upsets, late>>

-----------------------------------------------------------------------------
(* Placement *)

\* materialize: the directories of the target are made, its bytes are staged
\* and verified, and linked to it unless something is there.
Place ==
    /\ step = "place" /\ Len(created) < Len(OwnFiles)
    /\ LET next == OwnFiles[Len(created) + 1]
       IN  \/ /\ ~Occupied(next.path)
              /\ files' = [files EXCEPT ![next.path] = next.content]
              /\ created' = Append(created, next)
              /\ dirs' = dirs \cup Holding({next.path})
              /\ UNCHANGED <<step, failing>>
           \/ /\ Occupied(next.path)
              /\ dirs' = dirs \cup Holding({next.path}) /\ step' = "undo"
              /\ UNCHANGED <<files, created, failing>>
           \/ /\ dirs' \in {dirs, dirs \cup Holding({next.path})} /\ step' = "undo" /\ failing' = TRUE
              /\ UNCHANGED <<files, created>>
    /\ UNCHANGED <<offer, chosen, reviewed, row, game, pack, content, resolved, records,
                   removed, scanned, outcome, upsets, late>>

\* The document of the pack, so far without the components of the provider.
Document(components) ==
    [components |-> {Entry(f.path, f.content) : f \in Members(resolved.unresolved)}
                    \cup components,
     overrides |-> resolved.overrides, excluded |-> resolved.excluded]

\* InstalledPack::new; install_pack_provider_plans takes the inventory of the
\* instance's mods.
BeginComponents ==
    /\ step = "place" /\ Len(created) = Len(OwnFiles)
    /\ IF SoundDocument(Document({}))
       THEN /\ step' = "components"
            /\ scanned' = [path \in {p \in DOMAIN files : p.dir = "mods"} |-> files[path]]
       ELSE step' = "undo" /\ UNCHANGED scanned
    /\ UNCHANGED <<offer, chosen, reviewed, instance, resolved, created, records, removed, outcome, past>>

Components ==
    [n \in DOMAIN resolved.plans |-> Entry(resolved.plans[n].path, resolved.plans[n].content)]
ComponentFiles == Members(Components)

Placed(entries) ==
    [path \in DOMAIN files |->
        IF \E e \in entries : e.path = path
        THEN (CHOOSE e \in entries : e.path = path).content ELSE files[path]]

\* The transaction takes between one plan and MaxPlans, in an inventory that is
\* what it was, at names that are free.
ComponentsFit ==
    /\ Len(resolved.plans) \in 1 .. MaxPlans
    /\ \A path \in DOMAIN scanned : files[path] = scanned[path]
    /\ \A e \in ComponentFiles : ~Occupied(e.path)

\* acquire_provider_plans, activate_provider_transaction: all files and their
\* records, or none unless one cannot be removed again.
PlaceComponents ==
    /\ step = "components"
    /\ dirs' \in {dirs, dirs \cup Holding(Paths(Components))}
    /\ \/ /\ ComponentsFit
          /\ files' = Placed(ComponentFiles) /\ content' = ComponentFiles
          /\ dirs' = dirs \cup Holding(Paths(Components))
          /\ records' = Components
          /\ step' = "record"
          /\ UNCHANGED failing
       \/ /\ ~ComponentsFit /\ step' = "undo"
          /\ UNCHANGED <<files, content, records, failing>>
       \/ /\ \E left \in SUBSET ComponentFiles :
                /\ left # {} =>
                    ComponentsFit /\ dirs' = dirs \cup Holding(Paths(Components))
                /\ files' = Placed(left)
          /\ step' = "undo" /\ failing' = TRUE
          /\ UNCHANGED <<content, records>>
    /\ UNCHANGED <<offer, chosen, reviewed, row, game, pack, resolved, created, removed,
                   scanned, outcome, upsets, late>>

\* The records are those of the plan, as before the instance was created;
\* one that were not would end the command there and then.
Record ==
    /\ step = "record"
    /\ IF Members(records) \subseteq ComponentFiles
       THEN step' = "save" /\ UNCHANGED outcome
       ELSE Ends("failed")
    /\ UNCHANGED <<offer, chosen, reviewed, instance, resolved, created, records, removed, scanned, past>>

\* InstalledPack::save, of a sound document where there is none.
Save ==
    /\ step = "save"
    /\ \/ /\ SoundDocument(Document(Members(records))) /\ pack = None
          /\ pack' = Document(Members(records)) /\ step' = "validate"
          /\ UNCHANGED failing
       \/ ~SoundDocument(Document(Members(records))) /\ step' = "undo" /\ UNCHANGED <<pack, failing>>
       \/ step' = "undo" /\ failing' = TRUE /\ UNCHANGED pack
    /\ UNCHANGED <<offer, chosen, reviewed, row, game, files, dirs, content, resolved, created,
                   records, removed, scanned, outcome, upsets, late>>

\* validate_installed: the files that the document lists, and the records of
\* its components.
InstalledAsRecorded ==
    /\ \A e \in pack.components \cup pack.overrides : files[e.path] = e.content
    /\ Members(records) \subseteq content

\* Once after the save, and again before the registry is written.
Validate ==
    /\ step \in {"validate", "complete"}
    /\ \/ /\ InstalledAsRecorded
          /\ step' = IF step = "validate" THEN "complete" ELSE "commit"
          /\ late' = {} /\ UNCHANGED failing
       \/ ~InstalledAsRecorded /\ step' = "undo" /\ UNCHANGED <<late, failing>>
       \/ step' = "undo" /\ failing' = TRUE /\ UNCHANGED late
    /\ UNCHANGED <<offer, chosen, reviewed, instance, resolved, created, records, removed, scanned,
                   outcome, upsets>>

\* complete_pack_instance: still installing, of a valid game; the registry
\* write is the commit.
Commit ==
    /\ step = "commit"
    /\ \/ /\ row = "installing" /\ game = "whole"
          /\ row' = "ready" /\ Ends("installed") /\ UNCHANGED failing
       \/ game # "whole" /\ step' = "undo" /\ UNCHANGED <<row, outcome, failing>>
       \/ step' = "undo" /\ failing' = TRUE /\ UNCHANGED <<row, outcome>>
    /\ UNCHANGED <<offer, chosen, reviewed, game, files, dirs, pack, content, resolved, created,
                   records, removed, scanned, upsets, late>>

-----------------------------------------------------------------------------
(* Rollback *)

Owned == created \o records

\* Mutant: the files it put there are removed by name.
RemoveOwnedByName ==
    /\ step = "undo" /\ removed < Len(Owned)
    /\ files' = [files EXCEPT ![Owned[Len(Owned) - removed].path] = None]
    /\ removed' = removed + 1
    /\ UNCHANGED <<offer, chosen, reviewed, row, game, dirs, pack, content, step, resolved, created,
                   records, scanned, outcome, upsets, late, failing>>

\* rollback_pack_install: the files it put there, the last one first, each if
\* its bytes are still those; one that is not ends the rollback.
RemoveOwned ==
    /\ step = "undo" /\ removed < Len(Owned)
    /\ LET last == Owned[Len(Owned) - removed]
       IN  \/ /\ files[last.path] = last.content
              /\ files' = [files EXCEPT ![last.path] = None]
              /\ removed' = removed + 1
              /\ UNCHANGED <<step, outcome, failing>>
           \/ /\ files[last.path] # last.content
              /\ Ends("needs inspection") /\ UNCHANGED <<files, removed, failing>>
           \/ Ends("needs inspection") /\ failing' = TRUE /\ UNCHANGED <<files, removed>>
    /\ UNCHANGED <<offer, chosen, reviewed, row, game, dirs, pack, content, resolved, created,
                   records, scanned, upsets, late>>

\* Then the documents; that of the components only when it lists no others.
RemoveDocuments ==
    /\ step = "undo" /\ removed = Len(Owned)
    /\ \/ /\ content # None => Cardinality(content) = Len(records)
          /\ pack' = None /\ content' = None /\ step' = "undo game"
          /\ UNCHANGED <<outcome, failing>>
       \/ /\ content # None /\ Cardinality(content) # Len(records)
          /\ pack' = None /\ Ends("needs inspection") /\ UNCHANGED <<content, failing>>
       \/ /\ pack' \in {pack, None} /\ Ends("needs inspection") /\ failing' = TRUE
          /\ UNCHANGED content
    /\ UNCHANGED <<offer, chosen, reviewed, row, game, files, dirs, resolved, created, records,
                   removed, scanned, upsets, late>>

Vacant(dir) == \A path \in DOMAIN files : path.dir = dir => ~Occupied(path)

\* Then the directories of those files that are empty, the game if it is what
\* was installed, and the root if nothing else is left in it.
RemoveGame ==
    /\ step = "undo game"
    /\ LET pruned == dirs \ {d \in Holding(Paths(Owned)) : Vacant(d)}
           bare == pruned \ {d \in Standard : Vacant(d)}
       IN  \/ /\ game = "whole" /\ game' = None /\ dirs' = bare
              /\ IF bare = {} /\ Vacant("root")
                 THEN step' = "undo row" /\ UNCHANGED outcome
                 ELSE Ends("needs inspection")
              /\ UNCHANGED failing
           \/ /\ game # "whole" /\ dirs' = pruned
              /\ Ends("needs inspection") /\ UNCHANGED <<game, failing>>
           \/ /\ dirs' = pruned /\ game' \in {game, "damaged"}
              /\ Ends("needs inspection") /\ failing' = TRUE
    /\ UNCHANGED <<offer, chosen, reviewed, row, files, pack, content, resolved, created,
                   records, removed, scanned, upsets, late>>

\* abandon_pack_instance.
RemoveRow ==
    /\ step = "undo row"
    /\ \/ row = "installing" /\ row' = None /\ Ends("failed") /\ UNCHANGED failing
       \/ Ends("needs inspection") /\ failing' = TRUE /\ UNCHANGED row
    /\ UNCHANGED <<offer, chosen, reviewed, game, files, dirs, pack, content, resolved, created,
                   records, removed, scanned, upsets, late>>

-----------------------------------------------------------------------------
(* The world *)

\* The user writes or removes a file under the root while there is one.
Edit ==
    /\ row # None /\ step \notin {"undo row", "done"} /\ upsets < MaxUpsets
    /\ upsets' = upsets + 1
    /\ \E path \in DOMAIN files, bytes \in {Own, None} :
        /\ files[path] # bytes
        /\ files' = [files EXCEPT ![path] = bytes]
        /\ late' = late \cup {path}
        /\ dirs' = IF bytes = None THEN dirs ELSE dirs \cup Holding({path})
    /\ UNCHANGED <<offer, chosen, reviewed, row, game, pack, content, command, failing>>

\* The game is changed.
Damage ==
    /\ game = "whole" /\ step # "done" /\ upsets < MaxUpsets
    /\ upsets' = upsets + 1 /\ game' = "damaged"
    /\ UNCHANGED <<offer, chosen, reviewed, row, files, dirs, pack, content, command, late, failing>>

\* Something else is published as that version, or recognized in it.
Publish ==
    /\ step \in {"idle", "resolve"} /\ upsets < MaxUpsets
    /\ upsets' = upsets + 1
    /\ offer' \in Offers \ {offer}
    /\ UNCHANGED <<chosen, reviewed, instance, command, late, failing>>

\* The launcher dies; the registry and the directory stay as they are.
Crash ==
    /\ step \notin {"idle", "done"}
    /\ Ends("crashed") /\ failing' = TRUE
    /\ UNCHANGED <<offer, chosen, reviewed, instance, resolved, created, records, removed,
                   scanned, upsets, late>>

Init ==
    /\ offer \in Offers
    /\ chosen = {} /\ reviewed = None
    /\ row = None /\ game = None /\ files = [path \in AllPaths |-> None]
    /\ dirs = {} /\ pack = None /\ content = None
    /\ step = "idle" /\ resolved = None /\ created = <<>> /\ records = <<>>
    /\ removed = 0 /\ scanned = <<>> /\ outcome = None
    /\ upsets = 0 /\ late = {} /\ failing = FALSE

Next ==
    \/ Review \/ Accept \/ Download \/ CreateInstance
    \/ Place \/ BeginComponents \/ PlaceComponents \/ Record \/ Save \/ Validate \/ Commit
    \/ RemoveOwned \/ RemoveDocuments \/ RemoveGame \/ RemoveRow
    \/ Edit \/ Damage \/ Publish \/ Crash

Spec == Init /\ [][Next]_vars

-----------------------------------------------------------------------------
(* Properties *)

\* The state is of this shape.
TypeOK ==
    /\ row \in {None, "installing", "ready"} /\ game \in {None, "whole", "damaged"}
    /\ dirs \subseteq Roots
    /\ outcome # None <=> step = "done"
    /\ step \notin {"idle", "resolve", "done"} => resolved # None
    /\ removed <= Len(created) + Len(records)
    /\ upsets \in 0 .. MaxUpsets

\* A command that returns has installed the pack; or says that it failed, and
\* then nothing of the instance is there, and what a file of the pack would
\* have been called by the parser never was refused by the document; or an
\* installing record says that there is something to inspect, and it cannot be
\* launched.
Settled ==
    /\ row = "ready" <=> outcome = "installed"
    /\ outcome \in {"failed", "stale", "refused"} =>
        /\ row = None /\ game = None /\ pack = None /\ content = None /\ dirs = {}
        /\ \A path \in DOMAIN files : ~Occupied(path)
    /\ outcome = "needs inspection" => row = "installing"
    /\ step = "save" => SoundDocument(Document(Members(records)))

\* A ready pack instance holds the files of the pack that was reviewed and no
\* other content: with their bytes, each recorded once, components as they
\* were recognized; whatever is published by the time.
ReadyAsReviewed ==
    row = "ready" =>
        LET plan == ParsePack(reviewed.archive)
            recognized == {reviewed.recognized[n][1] : n \in DOMAIN reviewed.recognized}
            wanted == {f \in Members(plan.required) \cup Members(plan.optional) :
                        f.path \in recognized \cup reviewed.unresolved}
            overlaid == {o \in Members(reviewed.archive.entries) :
                /\ o.area \in {"common", "client"}
                /\ \A e \in Members(reviewed.archive.entries) :
                    e.area = "client" /\ Key(e.path) = Key(o.path) => e = o}
        IN  /\ Members(plan.required) \subseteq wanted
            /\ \A e \in wanted \cup overlaid :
                e.path \in late \/ files[e.path] = e.content
            /\ pack.components = {Entry(f.path, f.content) : f \in wanted}
            /\ pack.overrides = {Entry(o.path, o.content) : o \in overlaid}
            /\ content = {c \in pack.components : c.path \in recognized}
            /\ pack.excluded = reviewed.excluded

\* Nothing that the user wrote in the directory is ever removed or replaced but
\* by the user.
UserBytesSurvive ==
    [][\A path \in DOMAIN files :
        files[path] = Own /\ files'[path] # Own => upsets' > upsets]_vars

\* A pack that could be reviewed is installed when nothing fails and nothing
\* changes; but the transaction of its components takes no empty list of them,
\* nor more than MaxPlans, however sound the pack.
ReviewedPackInstalls ==
    outcome \in {"failed", "needs inspection"} =>
        failing \/ upsets > 0 \/ Len(resolved.plans) \notin 1 .. MaxPlans
=============================================================================
