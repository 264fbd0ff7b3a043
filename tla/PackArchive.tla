---------------------------- MODULE PackArchive ----------------------------
(***************************************************************************)
(* What an .mrpack says, and what the launcher makes of it with the answers *)
(* of its provider: the files it would install, or a refusal.              *)
(***************************************************************************)
EXTENDS Naturals, Sequences, FiniteSets

CONSTANTS
    None, Refused,
    MaxPlans       \* provider files that one transaction takes (64)

\* A destination is where it is, the name it is compared by (names that differ
\* in case have one), and how it is spelled.
Key(path) == <<path.dir, path.name>>

Roots == {"root", "mods", "config", "resourcepacks", "kubejs"}

\* mrpack::destination_path.
Safe(path) == path.spelling # "unsafe" /\ path.dir \in Roots

Kept(seq, Test(_)) == SelectSeq(seq, Test)
Paths(seq) == {seq[n].path : n \in DOMAIN seq}
Distinct(seq) == \A m, n \in DOMAIN seq : Key(seq[m].path) = Key(seq[n].path) => m = n

-----------------------------------------------------------------------------
(* The archive *)

\* The entries: an index, and overrides; no two names that differ in case
\* only, no links, and bounded.
SoundEntries(entries) ==
    /\ \A n \in DOMAIN entries :
        /\ entries[n].named /\ entries[n].regular /\ entries[n].small
        /\ entries[n].area \in {"index", "common", "client", "server"}
    /\ \A m, n \in DOMAIN entries :
        /\ entries[m].area = entries[n].area
        /\ Key(entries[m].path) = Key(entries[n].path)
        => m = n
    /\ \E n \in DOMAIN entries : entries[n].area = "index"

SoundIndex(index) ==
    /\ index.format = 1 /\ index.named
    /\ index.minecraft # None /\ index.fabric # None /\ ~index.others
    /\ Distinct(index.files)
    /\ \A n \in DOMAIN index.files :
        /\ Safe(index.files[n].path)
        /\ index.files[n].hashes /\ index.files[n].urls /\ index.files[n].small

\* A client override replaces a common one that came before it; nothing else
\* has a name twice, nor that of a file of the index.
SoundOverrides(overrides, files) ==
    /\ \A n \in DOMAIN overrides :
        /\ Safe(overrides[n].path)
        /\ \A m \in DOMAIN files : Key(files[m].path) # Key(overrides[n].path)
    /\ \A m, n \in DOMAIN overrides :
        m < n /\ Key(overrides[m].path) = Key(overrides[n].path) =>
            overrides[m].area = "common" /\ overrides[n].area = "client"

\* parse_reader.
ParsePack(archive) ==
    LET files == archive.index.files
        overrides == Kept(archive.entries, LAMBDA e : e.area \in {"common", "client"})
        Last(n) == \A m \in n + 1 .. Len(overrides) :
                        Key(overrides[m].path) # Key(overrides[n].path)
    IN  IF /\ SoundEntries(archive.entries)
           /\ SoundIndex(archive.index)
           /\ SoundOverrides(overrides, files)
        THEN [minecraft |-> archive.index.minecraft, fabric |-> archive.index.fabric,
              required |-> Kept(files, LAMBDA f : f.side = "required"),
              optional |-> Kept(files, LAMBDA f : f.side = "optional"),
              excluded |-> Paths(Kept(files, LAMBDA f : f.side = "unsupported")),
              overrides |-> {[path |-> overrides[n].path, content |-> overrides[n].content] :
                                n \in {k \in DOMAIN overrides : Last(k)}}]
        ELSE Refused

-----------------------------------------------------------------------------
(* The provider *)

\* Directories of provider content; their files lie directly in them.
ContentDirs == {"mods", "resourcepacks"}

\* Client::pack_component_plan: a recognized file keeps its destination, and
\* must be content that a Fabric client takes.
ComponentPlan(file, answer) ==
    IF file.path.dir \in ContentDirs /\ file.path.spelling # "nested" /\ answer.fits
    THEN [path |-> file.path, content |-> file.content, agrees |-> file.agrees,
          project |-> answer.project, version |-> answer.version,
          requires |-> answer.requires, conflicts |-> answer.conflicts]
    ELSE Refused

\* Every required dependency is in the pack, in the version asked for, and
\* nothing that a component conflicts with.
DependenciesHold(plans) ==
    \A n \in DOMAIN plans :
        /\ \A need \in plans[n].requires :
            \E m \in DOMAIN plans :
                plans[m].project = need[1] /\ need[2] \in {None, plans[m].version}
        /\ \A m \in DOMAIN plans : plans[m].project \notin plans[n].conflicts

\* modpacks::resolve: of an answer of the provider and the optional files that
\* were chosen, what would be installed and how it is shown.
Resolved(offer, plan, chosen) ==
    LET files == plan.required \o Kept(plan.optional, LAMBDA f : f.path \in chosen)
        Recognized(f) == offer.answers[f.content] # None
        recognized == Kept(files, Recognized)
        unresolved == Kept(files, LAMBDA f : ~Recognized(f))
        plans == [n \in DOMAIN recognized |->
                    ComponentPlan(recognized[n], offer.answers[recognized[n].content])]
        excluded == plan.excluded \cup (Paths(plan.optional) \ chosen)
    IN  IF /\ offer.small /\ plan # Refused
           /\ "fabric" \in offer.loaders /\ plan.minecraft \in offer.versions
           /\ chosen \subseteq Paths(plan.optional)
           /\ \A n \in DOMAIN plans : plans[n] # Refused
           /\ DependenciesHold(plans)
        THEN [plans |-> plans, unresolved |-> unresolved, overrides |-> plan.overrides,
              excluded |-> excluded,
              preview |-> [archive |-> offer.archive,
                           recognized |-> [n \in DOMAIN plans |->
                                <<plans[n].path, plans[n].project, plans[n].version>>],
                           unresolved |-> Paths(unresolved), excluded |-> excluded]]
        ELSE Refused
Resolve(offer, chosen) == Resolved(offer, ParsePack(offer.archive), chosen)

\* InstalledPack::validate_document: every name once, and a safe one.
SoundDocument(document) ==
    LET names == {c.path : c \in document.components} \cup {o.path : o \in document.overrides}
                 \cup document.excluded
    IN  /\ \A path \in names : Safe(path)
        /\ Cardinality({Key(path) : path \in names})
            = Cardinality(document.components) + Cardinality(document.overrides)
              + Cardinality(document.excluded)
=============================================================================
