---------------------------- MODULE ModInventory ----------------------------
(***************************************************************************)
(* What a directory of mods is taken for: the metadata of a jar and of the *)
(* jars inside it, who owns each file, what a launch admits, and which     *)
(* mods may be enabled, disabled and removed.  ContentChanges has bytes    *)
(* and requirements for all this; here are the documents they come from.   *)
(*                                                                         *)
(* Identities are in lower case, as Fabric's are.  Texts that only a       *)
(* person reads are left out, and so are the limits of single documents: a *)
(* document over its limit is one that cannot be read.                     *)
(***************************************************************************)
EXTENDS Naturals, Sequences, FiniteSets, SequencesExt

CONSTANTS
    None, Refused,
    Jars,           \* what the bytes of a file may be
    Archive,        \* each of them, as an archive
    Slots,          \* the names of files, without ".disabled"
    Game, Loader,   \* the versions of the instance
    Java,           \* the major version of its Java
    MaxDepth,       \* stands for 4
    MaxCount,       \* stands for 128
    MaxBytes,       \* stands for 64 MiB
    MaxMixins,      \* stands for 64
    Directories,    \* what mods/ and the documents about it start as
    Publications,   \* what the provider publishes of some bytes, or None
    Edits           \* <<name, bytes>>: what the user does to the directory

VARIABLES
    mods,       \* the bytes under each name
    claims,     \* what the documents say of each slot
    family,     \* the loader of the instance
    ahead,      \* the name of a slot that is listed first, when both are there
    kept,       \* whether the last step took from a directory that was admitted
    viewed      \* the inventory of which the user looks at a scan

inventoryVars == <<mods, claims, family, ahead, kept, viewed>>

Names == Slots \X {"on", "off"}

-----------------------------------------------------------------------------
(* Versions and what is required of them                                   *)
(*                                                                         *)
(* A version is its numbers and the parts of its prerelease; a part is     *)
(* <<0, n>> for a number and <<1, n>> for a word.  A text that is not one  *)
(* has no numbers.                                                         *)

Semantic(v) == v.numbers # <<>>
Number(v, i) == IF i <= Len(v.numbers) THEN v.numbers[i] ELSE 0

\* Of two sequences that are compared item by item: the shorter one is first.
Precedes(p, q, Below(_, _)) ==
    \E n \in 0 .. Len(p) :
        /\ n < Len(q) /\ \A i \in 1 .. n : p[i] = q[i]
        /\ n = Len(p) \/ Below(p[n + 1], q[n + 1])

Smaller(m, n) == m < n
PartLess(a, b) == a[1] < b[1] \/ (a[1] = b[1] /\ a[2] < b[2])

\* Version::compare of fabric/versions.rs: numbers that are missing are 0.
Older(v, w) ==
    LET n == IF Len(v.numbers) > Len(w.numbers) THEN Len(v.numbers) ELSE Len(w.numbers)
    IN  \/ \E i \in 1 .. n :
            /\ Number(v, i) < Number(w, i)
            /\ \A k \in 1 .. (i - 1) : Number(v, k) = Number(w, k)
        \/ /\ \A i \in 1 .. n : Number(v, i) = Number(w, i)
           /\ v.pre # None
           /\ w.pre = None \/ Precedes(v.pre, w.pre, PartLess)

\* The first version after those that "~" (two numbers) or "^" (one) accept.
Ceiling(v, digits) ==
    [numbers |-> [i \in 1 .. digits |-> Number(v, i) + (IF i = digits THEN 1 ELSE 0)],
     pre |-> <<>>]

Accepts(op, v, w) ==
    LET end == CASE op = "~" -> Ceiling(w, 2) [] op = "^" -> Ceiling(w, 1) [] OTHER -> w
    IN  /\ op \in {"=", ">=", "~", "^"} => ~Older(v, w)
        /\ op \in {"=", "<="} => ~Older(w, v)
        /\ op = ">" => Older(w, v)
        /\ op \in {"<", "~", "^"} => Older(v, end)

\* One term of a predicate.
Term(v, t) ==
    CASE t.op = "any" -> TRUE
      [] t.op = "malformed" -> Refused
      [] t.op = "x" ->
            IF ~Semantic(v) THEN Refused
            ELSE \A i \in 1 .. Len(t.than.numbers) : Number(v, i) = t.than.numbers[i]
      [] OTHER ->
            IF Semantic(t.than) THEN IF Semantic(v) THEN Accepts(t.op, v, t.than) ELSE Refused
            ELSE IF t.op \in {">", "<"} THEN Refused ELSE v = t.than

\* fabric_satisfies: a predicate is a set of alternatives, each of them a set of
\* terms; one term that cannot be evaluated refuses them all.
Answered(alternatives) ==
    IF Refused \in UNION alternatives THEN Refused
    ELSE \E answers \in alternatives : FALSE \notin answers
FabricSatisfies(v, predicate) ==
    Answered({{Term(v, t) : t \in terms} : terms \in predicate})

\* The order that neoforge/versions.rs derives: fewer numbers come first, and a
\* release before its prereleases.
Lower(v, w) ==
    \/ Precedes(v.numbers, w.numbers, Smaller)
    \/ /\ v.numbers = w.numbers /\ w.pre # None
       /\ v.pre = None \/ Precedes(v.pre, w.pre, PartLess)

\* neoforge_satisfies
MavenSatisfies(v, range) ==
    CASE range.kind = "any" -> TRUE
      [] range.kind = "malformed" -> Refused
      [] range.kind = "exact" -> Semantic(v) /\ v = range.low
      [] range.kind = "stem" ->
            \/ v = range.low
            \/ v.pre = None /\ Semantic(v) /\ Front(v.numbers) = range.low.numbers
      [] range.kind = "range" ->
            IF ~Semantic(v) THEN Refused
            ELSE /\ range.low # None =>
                        Lower(range.low, v) \/ (range.closed[1] /\ v = range.low)
                 /\ range.high # None =>
                        Lower(v, range.high) \/ (range.closed[2] /\ v = range.high)

\* satisfies_for_family
Satisfies(v, wanted) ==
    IF family = "neoForge" THEN MavenSatisfies(v, wanted) ELSE FabricSatisfies(v, wanted)

-----------------------------------------------------------------------------
(* Inspection: an archive and the metadata found in it                     *)

NoMetadata(warning) == [metadata |-> None, warnings |-> {warning}]

\* inspect_mixins: the Java versions that declared client resources ask for.
Declared(declarations) == {d \in ToSet(declarations) : d.side # "server"}
Sound(jar, d) ==
    /\ d.side # "unknown" /\ d.path # None
    /\ Len(jar.configs[d.path]) = 1
    /\ jar.configs[d.path][1].readable /\ jar.configs[d.path][1].level # Refused
Levels(jar, declarations) ==
    IF Len(declarations) > MaxMixins THEN {}
    ELSE {jar.configs[d.path][1].level : d \in {e \in Declared(declarations) : Sound(jar, e)}}
            \ {None}
MixinWarnings(jar, declarations) ==
    IF \/ Len(declarations) > MaxMixins
       \/ \E d \in Declared(declarations) : ~Sound(jar, d)
    THEN {"mixin"} ELSE {}

\* mixin_json: comments become blanks, and what is quoted is left alone.  What a
\* character is part of depends on those before it and on the next one.
At(characters, i) == IF i \in DOMAIN characters THEN characters[i] ELSE None
PartOf(characters) ==
    LET part[i \in 0 .. Len(characters)] ==
            IF i = 0 THEN "plain"
            ELSE LET c == characters[i]
                     pair == <<c, At(characters, i + 1)>>
                     was == part[i - 1]
                 IN  CASE was \in {"plain", "closed"} /\ c = "quote" -> "string"
                       [] was \in {"plain", "closed"} /\ pair = <<"slash", "slash">> -> "line"
                       [] was \in {"plain", "closed"} /\ pair = <<"slash", "star">> -> "opening"
                       [] was = "string" /\ c = "escape" -> "escaping"
                       [] was = "escaping" -> "string"
                       [] was = "string" /\ c = "quote" -> "plain"
                       [] was = "line" /\ c = "end" -> "plain"
                       [] was = "opening" -> "block"
                       [] was = "block" /\ pair = <<"star", "slash">> -> "closing"
                       [] was = "closing" -> "closed"
                       [] was = "closed" -> "plain"
                       [] OTHER -> was
    IN  part
MixinJson(characters) ==
    LET part == PartOf(characters)
    IN  IF part[Len(characters)] \in {"opening", "block"} THEN Refused
        ELSE [i \in DOMAIN characters |->
                IF part[i] \in {"line", "opening", "block", "closing", "closed"}
                        /\ characters[i] # "end"
                THEN "blank" ELSE characters[i]]

Warned(s, warning) == [s EXCEPT !.warnings = @ \cup {warning}]

\* What a nested jar adds, once its metadata is read.
Nested(s, jar, doc) ==
    LET shaped == IF doc.shaped THEN s ELSE Warned(s, "nested")
        mixed == IF doc.environment = "server" THEN shaped
                 ELSE [shaped EXCEPT !.levels = @ \cup Levels(jar, doc.mixins),
                                     !.warnings = @ \cup MixinWarnings(jar, doc.mixins)]
    IN  IF doc.id \in mixed.known THEN Warned(mixed, "duplicate")
        ELSE [mixed EXCEPT !.known = @ \cup {doc.id},
                           !.nested = @ \cup {<<doc.id, doc.version>>}]

Legible(jar) == jar.whole /\ Len(jar.documents) = 1 /\ jar.documents[1].readable

\* inspect_declared_nested_jars: depth first, with one count and one budget for
\* all of them; a path is None when it leaves the archive.
RECURSIVE Walk(_, _, _, _)
Walk(jar, paths, depth, before) ==
    LET Visit(s, path) ==
            LET counted == [s EXCEPT !.count = @ + 1, !.declared = @ \cup {path}]
                inner == Archive[jar.inner[path][1]]
                spent == [counted EXCEPT !.budget = @ - inner.bytes]
                doc == inner.documents[1]
            IN  CASE s.stopped -> s
                  [] path = None \/ path \in s.declared -> Warned(s, "nested")
                  [] depth >= MaxDepth \/ counted.count > MaxCount ->
                        [Warned(counted, "nested") EXCEPT !.stopped = TRUE]
                  [] Len(jar.inner[path]) # 1 -> Warned(counted, "nested")
                  [] inner.bytes > s.budget -> Warned(counted, "nested")
                  [] ~Legible(inner) \/ doc.id = None -> Warned(spent, "nested")
                  [] OTHER ->
                        LET deeper == Walk(inner, doc.jars, depth + 1,
                                [Nested(spent, inner, doc) EXCEPT !.declared = {}])
                        IN  [deeper EXCEPT !.declared = counted.declared, !.stopped = FALSE]
    IN  FoldLeft(Visit, before, paths)

\* inspect_fabric_metadata
InspectFabric(jar) ==
    LET doc == jar.documents[1]
    IN  CASE ~jar.whole -> NoMetadata("jar")
          [] Len(jar.documents) # 1 \/ ~doc.readable \/ doc.id = None -> NoMetadata("metadata")
          [] OTHER ->
                LET start == [budget |-> MaxBytes, count |-> 0, known |-> {doc.id}, nested |-> {},
                              levels |-> Levels(jar, doc.mixins), declared |-> {}, stopped |-> FALSE,
                              warnings |-> MixinWarnings(jar, doc.mixins)
                                            \cup (IF doc.shaped THEN {} ELSE {"metadata"})]
                    end == Walk(jar, doc.jars, 0, start)
                IN  [metadata |->
                        [id |-> doc.id, version |-> doc.version, environment |-> doc.environment,
                         depends |-> doc.depends, breaks |-> doc.breaks,
                         nested |-> end.nested, levels |-> end.levels],
                     warnings |-> end.warnings]

\* neoforge.mods.toml, line by line: a line opens an entry of an array of tables,
\* opens a table, gives a value, or is malformed.
NoDocument == [path |-> <<>>, mods |-> <<>>, dependencies |-> <<>>]

\* push_array_entry: other tables are ignored.
PushArrayEntry(doc, path) ==
    CASE path = <<"mods">> ->
            [doc EXCEPT !.mods = Append(@, [modId |-> None, version |-> None])]
      [] Len(path) = 2 /\ path[1] = "dependencies" ->
            [doc EXCEPT !.dependencies =
                Append(@, [owner |-> path[2], modId |-> None, type |-> "required",
                           versionRange |-> [kind |-> "any"]])]
      [] OTHER -> doc

\* assign: a value belongs to the last entry of its table, if there is one.
Assign(doc, key, value) ==
    LET mine == {i \in DOMAIN doc.dependencies :
                    doc.path = <<"dependencies", doc.dependencies[i].owner>>}
        last == CHOOSE i \in mine : \A k \in mine : k <= i
    IN  CASE doc.path = <<"mods">> /\ doc.mods # <<>> /\ key \in {"modId", "version"} ->
                [doc EXCEPT !.mods[Len(doc.mods)][key] = value]
          [] mine # {} /\ key \in {"modId", "type", "versionRange"} ->
                [doc EXCEPT !.dependencies[last][key] = value]
          [] OTHER -> doc

\* NeoForgeModsDocument::parse
ReadLine(doc, line) ==
    CASE line.kind = "entry" -> [PushArrayEntry(doc, line.path) EXCEPT !.path = line.path]
      [] line.kind = "table" -> [doc EXCEPT !.path = line.path]
      [] OTHER -> Assign(doc, line.key, line.value)
Parse(lines) ==
    IF \E i \in DOMAIN lines : lines[i].kind = "malformed" THEN Refused
    ELSE FoldLeft(ReadLine, NoDocument, lines)

\* Dependencies of any owner and of any type but two are required; those that
\* are incompatible become conflicts, which refuse nothing.
Required(dependencies) ==
    {[id |-> d.modId, wanted |-> d.versionRange] :
        d \in {e \in ToSet(dependencies) :
                e.modId # None /\ e.type \notin {"optional", "incompatible"}}}

\* inspect_neoforge_metadata: META-INF/neoforge.mods.toml, or the older name of
\* it.
InspectNeoForge(jar) ==
    LET lines == IF jar.toml # None THEN jar.toml ELSE jar.legacy
        doc == Parse(lines)
    IN  CASE ~jar.whole -> NoMetadata("jar")
          [] lines = None -> NoMetadata("metadata")
          [] doc = Refused -> NoMetadata("metadata")
          [] Len(doc.mods) # 1 -> NoMetadata("metadata")
          [] doc.mods[1].modId = None -> NoMetadata("metadata")
          [] OTHER ->
                [metadata |->
                    [id |-> doc.mods[1].modId, version |-> doc.mods[1].version,
                     environment |-> None, depends |-> Required(doc.dependencies),
                     breaks |-> {}, nested |-> {}, levels |-> {}],
                 warnings |-> {}]

\* inspect_mod_metadata
Inspection(jar) ==
    IF family = "neoForge" THEN InspectNeoForge(Archive[jar]) ELSE InspectFabric(Archive[jar])

-----------------------------------------------------------------------------
(* The inventory: who owns each file                                       *)
(*                                                                         *)
(* A slot's claims: the provider's record with its bytes and the slots it  *)
(* requires, the bytes that the bootstrap installed and those that a       *)
(* transition retained, the bytes that were disabled, and whether a        *)
(* modpack owns the name.                                                  *)

Present(m) == {n \in Names : m[n] # None}
Other(n) == <<n[1], IF n[2] = "on" THEN "off" ELSE "on">>

Record(n) == claims[n[1]].provider

\* inspect_entry: a file with a record is the record's, or nobody's.
Inspected(m, n) ==
    CASE Record(n) = None -> "user"
      [] Record(n) # None /\ Record(n).bytes = m[n] -> "provider"
      [] OTHER -> "unknown"

\* The bootstrap's file, when no record names it or has its bytes.
Bootstrapped(m, n) ==
    LET bytes == claims[n[1]].bootstrap
    IN  CASE bytes = None \/ Inspected(m, n) = "provider" -> Inspected(m, n)
          [] /\ bytes # None /\ m[n] = bytes
             /\ \A s \in Slots : claims[s].provider # None => claims[s].provider.bytes # bytes
             /\ Record(n) = None -> "bootstrap"
          [] OTHER -> "unknown"

\* A retained file is looked for under both names of its slot, and the one that
\* is listed first is taken for it.
FirstOf(m, n) == Other(n) \notin Present(m) \/ n[2] = ahead
Retained(m, n) ==
    LET bytes == claims[n[1]].retained
    IN  CASE bytes = None \/ ~FirstOf(m, n) -> Bootstrapped(m, n)
          [] bytes # None /\ m[n] = bytes /\ Inspected(m, n) # "provider" -> "bootstrap"
          [] OTHER -> "unknown"

\* A disabled file is the one that was disabled.
Owner(m, n) ==
    IF n[2] = "off" /\ claims[n[1]].disabled \notin {None, m[n]} THEN "unknown"
    ELSE Retained(m, n)

CanToggle(m, n) == Owner(m, n) # "unknown" /\ ~claims[n[1]].pack
CanRemove(m, n) == Owner(m, n) \in {"user", "bootstrap"} /\ ~claims[n[1]].pack

\* scan
Scan(m) ==
    {[name |-> n, on |-> n[2] = "on", owner |-> Owner(m, n), found |-> Inspection(m[n]),
      supplied |-> Inspected(m, n) = "provider",
      requires |-> IF Inspected(m, n) = "provider" THEN Record(n).requires ELSE {}] :
        n \in Present(m)}

Read(entries) == {e \in entries : e.on /\ e.found.metadata # None}
IdsOf(e) == {e.found.metadata.id} \cup {x[1] : x \in e.found.metadata.nested}

\* The slots whose provider files are enabled.
Supplied(m) == {n[1] : n \in {k \in Present(m) : k[2] = "on" /\ Inspected(m, k) = "provider"}}

\* derive_local_warnings and scan: whether something that an enabled mod
\* requires is not there, in any version.
Given == {"minecraft", "java"}
            \cup (IF family = "neoForge" THEN {"neoforge", "forge"} ELSE {"fabricloader"})
Misses(entries, e) ==
    e.found.metadata # None
        /\ \E r \in e.found.metadata.depends :
            r.id \notin Given \cup UNION {IdsOf(x) : x \in Read(entries)}

-----------------------------------------------------------------------------
(* What a launch admits                                                    *)

Fatal == {"jar", "metadata", "nested", "mixin"}

\* usable
Usable(e) ==
    /\ e.on /\ e.owner # "unknown" /\ e.found.metadata # None
    /\ e.found.metadata.version # None
    /\ \A x \in e.found.metadata.nested : x[2] # None
    /\ e.found.warnings \cap Fatal = {}

\* version_for, of the mods that have the identity.
VersionsFor(metadata, id) ==
    IF metadata.id = id THEN {metadata.version} ELSE {x[2] : x \in {y \in metadata.nested : y[1] = id}}

OnClient(metadata) == metadata.environment # "server"
Active(entries) ==
    {m \in {e.found.metadata : e \in {x \in entries : Usable(x)}} : OnClient(m)}

\* The versions that may be loaded: those of the mods themselves, or else those
\* that they have inside.
Candidates(active, id) ==
    LET roots == {m \in active : m.id = id}
    IN  UNION {VersionsFor(m, id) : m \in IF roots = {} THEN active ELSE roots}

\* relation_satisfied: one version satisfies all that require the identity; a
\* predicate that cannot be evaluated is not satisfied.
RelationSatisfied(active, r) ==
    LET wanted == {d.wanted : d \in {x \in UNION {m.depends : m \in active} : x.id = r.id}}
                        \cup {r.wanted}
        broken == {d.wanted : d \in {x \in UNION {m.breaks : m \in active} : x.id = r.id}}
        versions == Candidates(active, r.id)
    IN  \E answer \in {[v \in versions, w \in wanted \cup broken |-> Satisfies(v, w)]} :
            /\ \A v \in versions, w \in wanted \cup broken : answer[v, w] # Refused
            /\ \E v \in versions :
                /\ \A w \in wanted : answer[v, w]
                /\ \A w \in broken : ~answer[v, w]

\* The version of the game, its loader or its Java, when an identity is theirs.
Builtin(id) ==
    CASE id = "minecraft" -> Game
      [] id = "java" -> [numbers |-> <<Java>>, pre |-> None]
      [] id = "fabricloader" /\ family # "neoForge" -> Loader
      [] id \in {"neoforge", "forge"} /\ family = "neoForge" -> Loader
      [] OTHER -> None

DependsUnmet(active, metadata) ==
    \E r \in metadata.depends :
        IF Builtin(r.id) # None THEN Satisfies(Builtin(r.id), r.wanted) # TRUE
        ELSE ~RelationSatisfied(active, r)

Breaks(entries, metadata) ==
    \E r \in metadata.breaks :
        IF Builtin(r.id) # None THEN Satisfies(Builtin(r.id), r.wanted) # FALSE
        ELSE \E e \in {x \in entries : Usable(x)} :
                \E v \in VersionsFor(e.found.metadata, r.id) : Satisfies(v, r.wanted) # FALSE

\* validate
Issue(entries, e) ==
    \/ ~Usable(e)
    \/ /\ OnClient(e.found.metadata)
       /\ \/ DependsUnmet(Active(entries), e.found.metadata)
          \/ Breaks(entries, e.found.metadata)
          \/ \E x \in entries \ {e} : Usable(x) /\ x.found.metadata.id = e.found.metadata.id
          \/ \E level \in e.found.metadata.levels : level > Java

Admitted(entries) == \A e \in entries : e.on => ~Issue(entries, e)

-----------------------------------------------------------------------------
(* What may be changed                                                     *)

\* dependency_blockers: whoever requires an identity of this one finds another
\* mod that satisfies it, and nobody's record requires this one's.
Blocked(entries, t) ==
    /\ t.on
    /\ \E e \in {x \in entries : x.on} \ {t} :
        \/ /\ e \in Read(entries) /\ t.found.metadata # None
           /\ \E r \in e.found.metadata.depends :
                /\ r.id \in IdsOf(t)
                /\ \A x \in Read(entries) \ {t} :
                    \A v \in VersionsFor(x.found.metadata, r.id) :
                        v = None \/ Satisfies(v, r.wanted) # TRUE
        \/ t.supplied /\ t.name[1] \in e.requires

\* The directory was admitted, and a step of the launcher has taken from it.
Keeps(entries) == kept' = Admitted(entries)

Renamed(n) == [mods EXCEPT ![n] = None, ![Other(n)] = mods[n]]

\* set_enabled, with the receipt it leaves
Disable(entries, t) ==
    /\ t.on /\ CanToggle(mods, t.name) /\ ~Blocked(entries, t)
    /\ Other(t.name) \notin Present(mods)
    /\ mods' = Renamed(t.name)
    /\ claims' = [claims EXCEPT ![t.name[1]].disabled = mods[t.name]]
    /\ Keeps(entries) /\ UNCHANGED <<family, ahead, viewed>>

Enable(entries, t) ==
    /\ ~t.on /\ CanToggle(mods, t.name)
    /\ ~Misses((entries \ {t}) \cup {[t EXCEPT !.on = TRUE]}, t)
    /\ t.requires \subseteq Supplied(mods) \cup {t.name[1]}
    /\ Other(t.name) \notin Present(mods)
    /\ mods' = Renamed(t.name)
    /\ claims' = [claims EXCEPT ![t.name[1]].disabled = None]
    /\ kept' = FALSE /\ UNCHANGED <<family, ahead, viewed>>

\* remove
RemoveMod(entries, t) ==
    /\ CanRemove(mods, t.name) /\ ~Blocked(entries, t)
    /\ mods' = [mods EXCEPT ![t.name] = None]
    /\ Keeps(entries) /\ UNCHANGED <<claims, family, ahead, viewed>>

\* validate_provider_removals, and the removal it is asked before: several
\* files at once, each of which nothing else may hold.
Withdraw(entries, gone) ==
    LET targets == {e \in entries : e.supplied /\ e.name[1] \in gone}
    IN  /\ gone # {} /\ \A s \in gone : claims[s].provider # None /\ ~claims[s].pack
        /\ \A s \in gone : Cardinality({n \in Present(mods) : n[1] = s}) = 1
        /\ {t.name[1] : t \in targets} = gone
        /\ \A t \in targets : ~Blocked(entries \ targets, t)
        /\ mods' = [n \in Names |-> IF n \in {t.name : t \in targets} THEN None ELSE mods[n]]
        /\ claims' = [s \in Slots |->
            IF s \in gone THEN [claims[s] EXCEPT !.provider = None] ELSE claims[s]]
        /\ Keeps(entries) /\ UNCHANGED <<family, ahead, viewed>>

-----------------------------------------------------------------------------
(* Adoption of the user's own files (content_recognition.rs)               *)

\* inventory_revision
Revision == <<mods, claims>>

\* scan_local and recognize: files that are nobody's, of which the provider
\* publishes the bytes as a mod.
Recognized ==
    {n \in Present(mods) :
        /\ Owner(mods, n) = "user"
        /\ Publications[mods[n]] # None /\ Publications[mods[n]].kind = "mod"}

\* One scan is looked at, as long as the user likes.
View ==
    /\ viewed = None /\ Recognized # {} /\ viewed' = Revision
    /\ UNCHANGED <<mods, claims, family, ahead, kept>>

\* conflicting_mod_identity: one is the other, or has it inside in some other
\* version.
SameVersion(v, w) == v # None /\ w # None /\ FabricSatisfies(v, {{[op |-> "=", than |-> w]}}) = TRUE
Conflicting(incoming, existing) ==
    \/ incoming.id = existing.id
    \/ \E x \in existing.nested : x[1] = incoming.id /\ ~SameVersion(x[2], incoming.version)
    \/ \E x \in incoming.nested : x[1] = existing.id /\ ~SameVersion(x[2], existing.version)

\* resolve_local_file
FilesOf(s) == {n \in Present(mods) : n[1] = s}
BytesOf(s) == mods[CHOOSE n \in FilesOf(s) : TRUE]

\* check_ownership_conflicts, and validate_recovered_mod
Free(s) ==
    LET bytes == BytesOf(s)
    IN  /\ claims[s].provider = None /\ claims[s].retained = None
        /\ \A k \in Slots :
            /\ bytes \notin {claims[k].bootstrap, claims[k].retained}
            /\ claims[k].provider # None =>
                    claims[k].provider.bytes # bytes
                        /\ claims[k].provider.project # Publications[bytes].project
Sole(entries, s) ==
    LET metadata == Inspection(BytesOf(s)).metadata
    IN  /\ metadata # None
        /\ \A e \in entries :
            e.name[1] # s /\ e.found.metadata # None => ~Conflicting(metadata, e.found.metadata)

\* register_recovered_content: what is approved need not have been offered.
Adopt(entries, approved) ==
    LET Project(s) == Publications[BytesOf(s)]
        Recovered(s) ==
            [bytes |-> BytesOf(s), project |-> Project(s).project,
             requires |-> {k \in Slots : claims[k].provider # None
                                /\ claims[k].provider.project \in Project(s).requires}]
    IN  /\ viewed = Revision /\ approved # {}
        /\ \A s \in approved :
            /\ Cardinality(FilesOf(s)) = 1
            /\ Project(s) # None /\ Project(s).kind = "mod" /\ Free(s) /\ Sole(entries, s)
        /\ \A s, k \in approved :
            s # k => BytesOf(s) # BytesOf(k) /\ Project(s).project # Project(k).project
        /\ claims' = [s \in Slots |->
            IF s \in approved THEN [claims[s] EXCEPT !.provider = Recovered(s)] ELSE claims[s]]
        /\ UNCHANGED <<mods, family, ahead, kept, viewed>>

\* Meanwhile, the user.
Edit(n, bytes) ==
    /\ viewed = Revision /\ mods[n] # bytes
    /\ \A k \in Present(mods) : k[1] # n[1] \/ k = n
    /\ mods' = [mods EXCEPT ![n] = bytes]
    /\ kept' = FALSE /\ UNCHANGED <<claims, family, ahead, viewed>>

\* The user may have put anything there.
InventoryInit ==
    /\ \E d \in Directories : mods = d.mods /\ claims = d.claims /\ family = d.family
    /\ ahead \in IF \A n \in Names : mods[n] = None \/ mods[Other(n)] = None
                THEN {"on"} ELSE {"on", "off"}
    /\ kept = FALSE /\ viewed = None

\* Every step of the launcher reads the directory first.
InventoryNext ==
    \/ \E entries \in {Scan(mods)} :
        \/ \E t \in entries : Disable(entries, t) \/ Enable(entries, t) \/ RemoveMod(entries, t)
        \/ \E slots \in SUBSET Slots : Withdraw(entries, slots) \/ Adopt(entries, slots)
    \/ View
    \/ \E edit \in Edits : Edit(edit[1], edit[2])

-----------------------------------------------------------------------------
(* Properties                                                              *)

InventoryTypeOK ==
    /\ mods \in [Names -> Jars \cup {None}] /\ family \in {"fabric", "neoForge"}
    /\ DOMAIN claims = Slots /\ ahead \in {"on", "off"} /\ kept \in BOOLEAN

\* All jars inside an archive, as its documents declare them.
RECURSIVE Within(_)
Within(j) ==
    LET jar == Archive[j]
        paths == IF Legible(jar) THEN ToSet(jar.documents[1].jars) \ {None} ELSE {}
        children == UNION {ToSet(jar.inner[path]) : path \in paths}
    IN  children \cup UNION {Within(k) : k \in children}

Document(j) == Archive[j].documents[1]
JavaLevels(j) ==
    {level \in {c.level : c \in UNION {ToSet(Archive[j].configs[d.path]) :
                            d \in Declared(Document(j).mixins)}} : level # None}

\* A jar whose metadata can be used has been read to the bottom: the launcher
\* knows every mod inside it, and the Java that any of them asks for.
SeenWhole(entries) ==
    family = "fabric" =>
        \A e \in entries : Usable(e) =>
            \A k \in Within(mods[e.name]) :
                /\ Legible(Archive[k]) /\ Document(k).id \in IdsOf(e)
                /\ Document(k).environment # "server" =>
                    JavaLevels(k) \subseteq e.found.metadata.levels

\* What the loader finds, from the archives themselves: the mods of the client,
\* and the versions they have of an identity, inside them where none is it.
Loaded == {mods[n] : n \in {k \in Present(mods) : k[2] = "on"}}
Clients == {j \in Loaded : Document(j).environment # "server"}
Offered(id) ==
    LET roots == {j \in Clients : Document(j).id = id}
        inside == {k \in UNION {Within(j) : j \in Clients} :
                        Document(k).id = id /\ Document(k).environment # "server"}
    IN  {Document(j).version : j \in IF roots = {} THEN inside ELSE roots}
Wants(id) == {r.wanted : r \in {d \in UNION {Document(j).depends : j \in Clients} : d.id = id}}
Shuns(id) == {r.wanted : r \in {d \in UNION {Document(j).breaks : j \in Clients} : d.id = id}}
Fits(v, id) ==
    /\ \A w \in Wants(id) : Satisfies(v, w) = TRUE
    /\ \A w \in Shuns(id) : Satisfies(v, w) = FALSE

\* An identity that a jar for servers has inside another.
ForServers(id) ==
    \E k \in UNION {Within(j) : j \in Clients} :
        Document(k).id = id /\ Document(k).environment = "server"

\* What a launch admits, the loader can load: it finds one version of everything
\* that its mods require, which all of them accept and none breaks, each mod
\* once, and a Java that is new enough for the declared resources.  The launcher
\* takes a mod for servers inside another for one that is loaded.
AdmittedLoads(entries) ==
    family = "fabric" /\ Admitted(entries) =>
        /\ \A j \in Clients : \A r \in Document(j).depends :
            IF Builtin(r.id) # None THEN Fits(Builtin(r.id), r.id)
            ELSE ForServers(r.id) \/ \E v \in Offered(r.id) : Fits(v, r.id)
        /\ \A j \in Clients : Fits(Document(j).version, Document(j).id)
        /\ \A n, k \in {x \in Present(mods) : x[2] = "on"} :
            n # k /\ {mods[n], mods[k]} \subseteq Clients =>
                Document(mods[n]).id # Document(mods[k]).id
        /\ \A j \in Clients : \A k \in {j} \cup Within(j) :
            k \in Clients \/ Document(k).environment # "server" =>
                \A level \in JavaLevels(k) : level <= Java

\* The values of the entry that opens at line i of a document, from the lines.
Opening(lines, k) ==
    LET heads == {i \in 1 .. k : lines[i].kind # "value"}
    IN  CHOOSE i \in heads : \A m \in heads : m <= i
Stated(lines, i, key, otherwise) ==
    LET mine == {k \in i + 1 .. Len(lines) :
                    /\ lines[k].kind = "value" /\ lines[k].key = key
                    /\ lines[Opening(lines, k)].path = lines[i].path
                    /\ \A m \in i + 1 .. k : lines[m] # lines[i]}
    IN  IF mine = {} THEN otherwise ELSE lines[CHOOSE k \in mine : \A m \in mine : m <= k].value
Entries(lines, table) ==
    {i \in DOMAIN lines : lines[i].kind = "entry" /\ lines[i].path[1] = table}

\* The same of NeoForge: every mod is loaded once, and everything that a document
\* requires is there in a version that is in the range.
AdmittedLoadsNeoForge(entries) ==
    family = "neoForge" /\ Admitted(entries) =>
        LET lines(j) == IF Archive[j].toml # None THEN Archive[j].toml ELSE Archive[j].legacy
            identity(j) == Stated(lines(j), CHOOSE i \in Entries(lines(j), "mods") : TRUE, "modId", None)
            version(j) == Stated(lines(j), CHOOSE i \in Entries(lines(j), "mods") : TRUE, "version", None)
        IN  /\ \A j \in Loaded : Cardinality(Entries(lines(j), "mods")) = 1
            /\ \A j \in Loaded : \A i \in Entries(lines(j), "dependencies") :
                    LET id == Stated(lines(j), i, "modId", None)
                        range == Stated(lines(j), i, "versionRange", [kind |-> "any"])
                    IN  \/ id = None
                        \/ Stated(lines(j), i, "type", "required") \in {"optional", "incompatible"}
                        \/ Builtin(id) # None /\ MavenSatisfies(Builtin(id), range) = TRUE
                        \/ \E k \in Loaded : identity(k) = id /\ MavenSatisfies(version(k), range) = TRUE
            /\ \A n, k \in {x \in Present(mods) : x[2] = "on"} :
                    n # k => identity(mods[n]) # identity(mods[k])

\* The mods that are left require versions of an identity that no mod has
\* together, though one has each, or it cannot be told.
Contested(active) ==
    \E id \in UNION {{r.id : r \in m.depends} : m \in active} :
        LET wanted == {r.wanted : r \in {d \in UNION {m.depends : m \in active} : d.id = id}}
        IN  \/ Cardinality(wanted) > 1
            \/ \E v \in Candidates(active, id) : \E w \in wanted : Satisfies(v, w) = Refused

\* A requirement is met by a mod for servers only.
MetByServers(entries) ==
    \E e \in entries :
        e.on /\ e.found.metadata # None /\ ~OnClient(e.found.metadata)

\* A file whose bytes are not the retained ones, and which was hidden by another
\* name of its slot until that was removed.
Uncovered ==
    \E n \in Present(mods) : n[2] = "on" /\ claims[n[1]].retained \notin {None, mods[n]}

\* A mod that may be disabled or removed leaves an instance that starts, when it
\* did before; each requirement is looked at by itself then, and any mod that is
\* enabled counts.
RemovalKeepsAdmitted(entries) ==
    kept => \/ Admitted(entries) \/ Contested(Active(entries)) \/ MetByServers(entries)
            \/ Uncovered

\* The bytes of a file that the launcher acts upon, or launches, are those that
\* some document names for it, and a disabled file's are those that were
\* disabled; of two files that share a slot only the first listed is retained.
OwnersAreProven ==
    \A n \in Present(mods) : Owner(mods, n) # "unknown" =>
        LET c == claims[n[1]]
            stated == ({c.bootstrap, c.retained} \cup
                        (IF c.provider = None THEN {} ELSE {c.provider.bytes})) \ {None}
        IN  /\ stated = {} \/ mods[n] \in stated \/ Other(n) \in Present(mods)
            /\ n[2] = "off" => c.disabled \in {None, mods[n]}

\* Every record is of other bytes and of another project.
RecordsAreDistinct ==
    \A s, k \in {x \in Slots : claims[x].provider # None} :
        s # k => /\ claims[s].provider.bytes # claims[k].provider.bytes
                 /\ claims[s].provider.project # claims[k].provider.project

InventoryHolds ==
    /\ InventoryTypeOK /\ OwnersAreProven /\ RecordsAreDistinct
    /\ \A entries \in {Scan(mods)} :
        /\ SeenWhole(entries) /\ AdmittedLoads(entries) /\ AdmittedLoadsNeoForge(entries)
        /\ RemovalKeepsAdmitted(entries)

\* Adoption is of what it names: a file that was the user's becomes the
\* provider's, no other file changes hands, and an instance that starts still
\* does.
AdoptionTakesNothingElse ==
    [][ mods' = mods /\ claims' # claims =>
        /\ \A n \in Present(mods) :
            LET adopted == claims[n[1]].provider # claims'[n[1]].provider
            IN  /\ Owner(mods, n) # Owner(mods, n)' => adopted /\ Owner(mods, n)' = "provider"
                /\ adopted /\ Owner(mods, n) = "user" => Owner(mods, n)' = "provider"
        /\ Admitted(Scan(mods)) => Admitted(Scan(mods))' ]_inventoryVars

\* The orders of versions are total, and "~" and "^" accept the later versions
\* that have the same two numbers, or the same one.
VersionsAreOrdered(u, v, w) ==
    /\ ~Older(u, u) /\ (Older(u, v) => ~Older(v, u))
    /\ Older(u, v) /\ Older(v, w) => Older(u, w)
    /\ ~Older(u, v) /\ ~Older(v, w) => ~Older(u, w)
    /\ Cardinality({x \in {<<"<", Lower(u, v)>>, <<"=", u = v>>, <<">", Lower(v, u)>>} : x[2]}) = 1
    /\ Lower(u, v) /\ Lower(v, w) => Lower(u, w)
    /\ Accepts("~", u, v) =
        (~Older(u, v) /\ \A i \in 1 .. 2 : Number(u, i) = Number(v, i))
    /\ Accepts("^", u, v) = (~Older(u, v) /\ Number(u, 1) = Number(v, 1))

\* Removing comments moves nothing, keeps the lines and what is quoted, and
\* leaves no comment.
CommentsAreRemoved(characters) ==
    LET json == MixinJson(characters)
        quoted == /\ Len(characters) > 1 /\ Head(characters) = "quote" /\ Last(characters) = "quote"
                  /\ \A i \in 2 .. Len(characters) - 1 : characters[i] \notin {"quote", "escape"}
    IN  /\ quoted => json = characters
        /\ json # Refused =>
            /\ Len(json) = Len(characters) /\ MixinJson(json) = json
            /\ \A i \in DOMAIN json :
                /\ json[i] \in {characters[i], "blank"}
                /\ characters[i] = "end" => json[i] = "end"
=============================================================================
