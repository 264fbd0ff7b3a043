--------------------------- MODULE LoaderPlanning ---------------------------
(***************************************************************************)
(* The plans of the two loaders and their composition with Minecraft's:    *)
(* Fabric's profile document, NeoForge's listing and the two documents in  *)
(* its installer, and the one list of libraries a game is installed from.  *)
(***************************************************************************)
EXTENDS VersionPlanning

CONSTANT NoOp    \* the intermediary version of a game without one

\* The largest of two numbers (u32::max).
Larger(a, b) == IF a > b THEN a ELSE b

-----------------------------------------------------------------------------
(* Fabric *)

\* plan_meta_library: the published digest is optional, and so is the size; a
\* library without a digest is trusted as the transport delivered it.
MetaLibrarySound(library) ==
    WellFormed(library.name) /\ library.repository /\ library.digest /\ library.size

PlanMetaLibrary(library) ==
    [name |-> library.name, content |-> library.content, native |-> FALSE,
     source |-> "fabric", trusted |-> library.published]

\* The intermediary and the loader itself come from Fabric's own repository,
\* without a digest.
PlanReference(reference) ==
    [name |-> reference.name, content |-> reference.content, native |-> FALSE,
     source |-> "fabric", trusted |-> FALSE]

\* LoaderProfileDocument::from_json.
LoaderProfileSound(document) ==
    /\ document.loader.name # None
    /\ document.intermediary.version # None /\ document.intermediary.name # None
    /\ document.generation = 2
    /\ document.minJava # 0
    /\ document.mainClass # None
    /\ Every(document.common \o document.client, LAMBDA library : library.name # None)

\* plan_loader_profile: common libraries, the intermediary unless the game has
\* none, the loader, the client's libraries.
PlanLoaderProfile(document, game, loader) ==
    LET intermediary ==
            IF document.intermediary.version = NoOp THEN <<>> ELSE <<document.intermediary>>
    IN  IF /\ Every(document.common \o document.client, MetaLibrarySound)
           /\ Every(intermediary \o <<document.loader>>,
                    LAMBDA reference : WellFormed(reference.name))
        THEN [platform |-> "fabric", version |-> game, loader |-> loader,
              mainClass |-> document.mainClass, minJava |-> document.minJava,
              libraries |-> Mapped(document.common, PlanMetaLibrary)
                            \o Mapped(intermediary \o <<document.loader>>, PlanReference)
                            \o Mapped(document.client, PlanMetaLibrary),
              game |-> <<>>, jvm |-> <<>>, installer |-> <<>>, processors |-> <<>>,
              data |-> None]
        ELSE Refused

\* resolve_fabric_plan: the loader must be listed, the combination supported
\* (400 and 404 say it is not), and the document about that loader.
ResolveFabricPlan(fabric, game, loader) ==
    IF /\ loader \in fabric.listed
       /\ fabric.status = 200
       /\ LoaderProfileSound(fabric.document)
       /\ fabric.document.loader.version = loader
    THEN PlanLoaderProfile(fabric.document, game, loader)
    ELSE Refused

-----------------------------------------------------------------------------
(* NeoForge's listing.  A version is its numeric components and whether it  *)
(* has a suffix.                                                           *)

\* NeoForgeVersionEntry::parse: the Minecraft version that a NeoForge version
\* addresses, or None; an x.y.z of before 1.22 drops the leading 1, and a
\* patch of 0 is not written.
Attributed(version) ==
    LET part == version.parts
    IN  CASE Len(part) = 3 /\ part[1] \in {20, 21} -> <<1, part[1], part[2]>>
          [] Len(part) = 4 /\ part[1] >= 22 ->
                IF part[3] = 0 THEN <<part[1], part[2]>> ELSE <<part[1], part[2], part[3]>>
          [] OTHER -> None

\* NeoForgeVersionList::from_json: versions that cannot be attributed are left
\* out, and a list of nothing else is refused.
NeoForgeVersions(listing) ==
    LET entries == SelectSeq(listing.versions, LAMBDA version : Attributed(version) # None)
    IN  IF listing.snapshot \/ entries = <<>> THEN Refused ELSE entries

-----------------------------------------------------------------------------
(* NeoForge's installer: an install profile and a version profile. *)

\* parse_profile_library, library_from_profile.
ProfileLibrarySound(library) ==
    /\ WellFormed(library.name)
    /\ library.path = library.name
    /\ Usable(library.artifact)

LibraryFromProfile(library) ==
    [name |-> library.name, content |-> library.artifact.content, native |-> FALSE,
     source |-> "neoforge", trusted |-> TRUE]

\* InstallProfileDocument::from_json.
InstallProfileSound(profile) ==
    /\ profile.spec = 1
    /\ profile.version # None /\ profile.minecraft # None
    /\ profile.embedsVersion
    /\ \A token \in DOMAIN profile.data : token # Malformed /\ profile.data[token] # None
    /\ Every(profile.processors, LAMBDA processor : processor.args # <<>>)
    /\ Every(profile.libraries, ProfileLibrarySound)

\* VersionProfileDocument::from_json.
VersionProfileSound(version) ==
    /\ version.id # None /\ version.inheritsFrom # None
    /\ version.mainClass \notin {None, Malformed}
    /\ Every(version.libraries, ProfileLibrarySound)

\* parse_data_value: an artifact in brackets, a file of the installer, or a
\* literal; the first two have a shape to keep.
DataValueSound(value) == value.kind \in {"artifact", "file", "literal"} /\ WellFormed(value.name)

\* ProfileProcessor::applies_to_client.
AppliesToClient(processor) == processor.sides = None \/ "client" \in processor.sides

\* NeoForgePlan::from_documents: launch libraries; what else is only installed
\* (the universal artifact and the installer's tools that are not launch
\* libraries, compared by coordinate); the client's processors.
NeoForgePlan(profile, version, universal, game, loader) ==
    LET libraries == Mapped(version.libraries, LibraryFromProfile)
        Tool(library) == \A n \in DOMAIN libraries : libraries[n].name # library.name
        processors == SelectSeq(profile.processors, AppliesToClient)
    IN  IF /\ profile.minecraft = game
           /\ version.inheritsFrom = game
           /\ profile.version = loader /\ version.id = loader
           /\ Every(processors, LAMBDA processor :
                WellFormed(processor.jar) /\ Every(processor.classpath, WellFormed))
           /\ \A token \in DOMAIN profile.data : DataValueSound(profile.data[token])
        THEN [platform |-> "neoforge", version |-> game, loader |-> loader,
              mainClass |-> version.mainClass, minJava |-> 0,
              libraries |-> libraries,
              game |-> version.game, jvm |-> version.jvm,
              installer |-> <<universal>>
                  \o Mapped(SelectSeq(profile.libraries, Tool), LibraryFromProfile),
              processors |-> processors, data |-> profile.data]
        ELSE Refused

\* resolve_neoforge_plan: listed, for this game; the installer and the
\* universal artifact have published digests; the documents are the
\* installer's.
ResolveNeoForgePlan(neoforge, game, loader) ==
    LET entries == NeoForgeVersions(neoforge.listing)
    IN  IF /\ entries # Refused
           /\ \E n \in DOMAIN entries : entries[n] = loader
           /\ Attributed(loader) = game
           /\ neoforge.published
           /\ InstallProfileSound(neoforge.profile)
           /\ VersionProfileSound(neoforge.version)
        THEN NeoForgePlan(neoforge.profile, neoforge.version, neoforge.universal, game, loader)
        ELSE Refused

-----------------------------------------------------------------------------
(* Composition *)

\* What may be on a classpath once: a coordinate without its version.
Identity(name) == [artifact |-> name.artifact, classifier |-> name.classifier]

\* merge_library_sets: the first of each identity, in order; two versions of
\* one identity are a conflict.
MergeLibrarySets(minecraft, loader) ==
    LET all == minecraft \o loader
        First(n) == \A earlier \in 1 .. n - 1 : all[earlier].name # all[n].name
        firsts == SelectSeq([n \in DOMAIN all |-> n], First)
    IN  IF \A i, j \in DOMAIN all :
            Identity(all[i].name) = Identity(all[j].name) => all[i].name = all[j].name
        THEN [k \in DOMAIN firsts |-> all[firsts[k]]]
        ELSE Refused

\* GameInstallPlan::vanilla: the game's libraries as they are.
VanillaPlan(minecraft) ==
    [minecraft |-> minecraft, platform |-> "vanilla", loader |-> None,
     libraries |-> minecraft.libraries, mainClass |-> minecraft.mainClass,
     java |-> minecraft.java, installer |-> <<>>, processors |-> <<>>, data |-> None,
     game |-> minecraft.game, jvm |-> minecraft.jvm]

\* effective_game_arguments and effective_jvm_arguments: the loader's after the
\* game's, unconditional.
Effective(arguments, added) ==
    IF added = <<>> THEN arguments
    ELSE Append(arguments, [features |-> {}, values |-> added])

\* compose_game_plan and compose_neoforge_game_plan: one game version, one list
\* of libraries, the loader's main class, the higher of the two Java majors.
Compose(minecraft, loader) ==
    LET libraries == MergeLibrarySets(minecraft.libraries, loader.libraries)
    IN  IF minecraft.version = loader.version /\ libraries # Refused
        THEN [minecraft |-> minecraft, platform |-> loader.platform,
              loader |-> loader.loader, libraries |-> libraries,
              mainClass |-> loader.mainClass,
              java |-> Larger(minecraft.java, loader.minJava),
              installer |-> loader.installer, processors |-> loader.processors,
              data |-> loader.data,
              game |-> Effective(minecraft.game, loader.game),
              jvm |-> Effective(minecraft.jvm, loader.jvm)]
        ELSE Refused

GamePlan(minecraft, loader) ==
    CASE minecraft = Refused \/ loader = Refused -> Refused
      [] loader = None -> VanillaPlan(minecraft)
      [] OTHER -> Compose(minecraft, loader)

\* resolve_record_game_plan: everything is fetched again whenever a plan is
\* needed, the game's document first.
ResolveGamePlan(offer, pin, platform) ==
    LET minecraft == ResolveInstallPlan(offer.mojang, pin.version, platform)
        loader == CASE pin.platform = "fabric" ->
                            ResolveFabricPlan(offer.fabric, pin.version, pin.loader)
                    [] pin.platform = "neoforge" ->
                            ResolveNeoForgePlan(offer.neoforge, pin.version, pin.loader)
                    [] OTHER -> None
    IN  GamePlan(minecraft, loader)
=============================================================================
