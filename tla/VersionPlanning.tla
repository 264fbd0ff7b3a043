-------------------------- MODULE VersionPlanning --------------------------
(***************************************************************************)
(* From Mojang's version document to an install plan: the rules that       *)
(* select libraries and arguments for a platform, the validation of the    *)
(* document, and plan_version_document.  The rules of an argument are       *)
(* decided twice, by platform when planning and by feature when launching. *)
(*                                                                         *)
(* A coordinate is a record; a repository path is the coordinate it is the *)
(* layout of (the layout is injective), so that a path "matches" when it   *)
(* is equal.  Content is the pair of a digest and a size.  An operator      *)
(* that can fail answers Refused; which error it is makes no difference.   *)
(***************************************************************************)
EXTENDS Naturals, Sequences, FiniteSets

CONSTANTS
    None,
    Refused,     \* the answer of a parse or of a plan that fails
    Malformed    \* a coordinate, path or template outside its charset or shape

OperatingSystems == {"windows", "linux", "osx"}
Architectures == {"x86", "x86_64", "arm64"}
Platforms == [os : OperatingSystems, arch : Architectures]

Features == {"is_demo_user", "has_custom_resolution", "has_quick_plays_support",
             "is_quick_play_singleplayer", "is_quick_play_multiplayer",
             "is_quick_play_realms"}

Mapped(seq, Op(_)) == [n \in DOMAIN seq |-> Op(seq[n])]
Every(seq, Test(_)) == \A n \in DOMAIN seq : Test(seq[n])

-----------------------------------------------------------------------------
(* Rules.  A rule is an action, an os condition (or None) and a feature     *)
(* condition (or None): a function from some features to the value each    *)
(* must have.                                                              *)

OsMatches(condition, platform) ==
    /\ condition.name \in {None, platform.os}
    /\ condition.arch \in {None, platform.arch}

FeaturesMatch(condition, enabled) ==
    \A feature \in DOMAIN condition : condition[feature] <=> feature \in enabled

RuleMatches(rule, platform, enabled) ==
    /\ rule.os # None => OsMatches(rule.os, platform)
    /\ rule.features # None => FeaturesMatch(rule.features, enabled)

\* rules_allow: the last rule that matches decides; no list allows, and a
\* list of which nothing matches does not.
RulesAllow(rules, platform, enabled) ==
    rules # None =>
        \E n \in DOMAIN rules :
            /\ RuleMatches(rules[n], platform, enabled)
            /\ rules[n].action = "allow"
            /\ \A later \in DOMAIN rules :
                later > n => ~RuleMatches(rules[later], platform, enabled)

\* Does plan_decision's loop assign the decision at this rule?
Decides(rule, platform) ==
    /\ rule.os # None => OsMatches(rule.os, platform)
    /\ rule.action = "disallow" =>
        \/ rule.features = None
        \/ rule.os # None /\ FeaturesMatch(rule.features, {})

\* Mutant: a disallow with features is ignored whatever its os condition says,
\* and an allow is kept over a later disallow.
PlanDecisionAllows(rules, platform) ==
    IF rules = None THEN {}
    ELSE LET allowing == {n \in DOMAIN rules :
                            Decides(rules[n], platform) /\ rules[n].action = "allow"}
         IN IF allowing = {} THEN Refused
            ELSE LET rule == rules[CHOOSE n \in allowing : \A k \in allowing : k <= n]
                 IN IF rule.features = None THEN {} ELSE DOMAIN rule.features

\* plan_decision: the features an included item waits for (none when it is
\* unconditional), or Refused when it is excluded.
PlanDecision(rules, platform) ==
    IF rules = None THEN {}
    ELSE LET deciding == {n \in DOMAIN rules : Decides(rules[n], platform)}
         IN IF deciding = {} THEN Refused
            ELSE LET rule == rules[CHOOSE n \in deciding : \A k \in deciding : k <= n]
                 IN CASE rule.action = "disallow" -> Refused
                      [] rule.features = None -> {}
                      [] OTHER -> DOMAIN rule.features

-----------------------------------------------------------------------------
(* The manifest and the version document. *)

\* MinecraftVersionId, LibraryCoordinate::parse, validate_repository_path,
\* validate_logging_*: what does not have the accepted shape is Malformed.
WellFormed(name) == name # Malformed

\* artifact_requirement and the entries of the manifest: a digest that parses,
\* a size that is not zero, an HTTPS or loopback address.
Usable(artifact) == artifact.digest /\ artifact.size /\ artifact.secure

\* VersionManifest::from_json rejects the whole manifest for one bad entry.
ManifestSound(manifest) ==
    Every(manifest, LAMBDA entry : entry.id # None /\ entry.secure /\ entry.digest)

\* find: the first entry of exactly this id.
Listed(manifest, version) ==
    LET found == {n \in DOMAIN manifest : manifest[n].id = version}
    IN IF found = {} THEN None
       ELSE manifest[CHOOSE n \in found : \A k \in found : n <= k]

LoggingSound(logging) ==
    logging # None =>
        logging.kind = "log4j2-xml" /\ logging.name # None /\ logging.argument # None

\* VersionDocument::from_json.
DocumentSound(document) ==
    /\ document.kind \in {"release", "snapshot"}
    /\ ~document.inherits
    /\ ~document.legacyArguments
    /\ document.mainClass # None
    /\ document.index.id # None
    /\ document.component # None
    /\ document.java # 0
    /\ document.libraries # <<>>
    /\ Every(document.libraries, LAMBDA library : library.name # None /\ ~library.legacy)
    /\ LoggingSound(document.logging)

-----------------------------------------------------------------------------
(* The plan.  A value of an argument is a template: the placeholder in it, *)
(* and the rest of its text where that matters.                            *)

\* plan_arguments: excluded groups go, the others keep the features they wait
\* for; order is the document's.
PlanArguments(arguments, platform) ==
    LET Included(argument) == PlanDecision(argument.rules, platform) # Refused
    IN  Mapped(SelectSeq(arguments, Included),
               LAMBDA argument : [features |-> PlanDecision(argument.rules, platform),
                                  values |-> argument.values])

\* The values of java.library.path in planned JVM arguments.
LibraryPaths(arguments) ==
    {value \in UNION {{group.values[n] : n \in DOMAIN group.values} :
                        group \in {arguments[k] : k \in DOMAIN arguments}} :
        value.placeholder = "natives_directory" /\ value.option = "java.library.path"}

\* derive_natives_subdirectory: what the templates append to the directory,
\* None for nothing; refused when they disagree or are no safe single name.
NativesSubdirectory(arguments) ==
    LET suffixes == {value.suffix : value \in LibraryPaths(arguments)}
    IN  CASE suffixes = {} -> None
          [] Cardinality(suffixes) = 1 /\ suffixes # {Malformed} ->
                CHOOSE suffix \in suffixes : TRUE
          [] OTHER -> Refused

\* plan_library: a platform library or, by its classifier, a native archive.
PlanLibrary(library) ==
    [name |-> library.name, content |-> library.artifact.content,
     native |-> library.name.classifier = "natives", source |-> "mojang",
     trusted |-> TRUE]

LibraryPlannable(library) ==
    /\ WellFormed(library.name)
    /\ library.artifact # None
    /\ library.artifact.path # None /\ WellFormed(library.artifact.path)
    /\ Usable(library.artifact)
    /\ library.artifact.path = library.name

\* plan_version_document.
PlanVersionDocument(document, platform) ==
    LET Selected(library) == PlanDecision(library.rules, platform) # Refused
        libraries == SelectSeq(document.libraries, Selected)
        jvm == PlanArguments(document.jvm, platform)
    IN  IF /\ Usable(document.client)
           /\ Usable(document.index)
           /\ document.logging # None =>
                /\ WellFormed(document.logging.name)
                /\ WellFormed(document.logging.argument)
                /\ Usable(document.logging.artifact)
           /\ Every(libraries, LAMBDA library :
                PlanDecision(library.rules, platform) = {} /\ LibraryPlannable(library))
           /\ NativesSubdirectory(jvm) # Refused
        THEN [version |-> document.id, java |-> document.java,
              client |-> document.client.content,
              index |-> [id |-> document.index.id, content |-> document.index.content],
              logging |-> IF document.logging = None THEN None
                          ELSE [name |-> document.logging.name,
                                argument |-> document.logging.argument,
                                content |-> document.logging.artifact.content],
              libraries |-> Mapped(libraries, PlanLibrary),
              mainClass |-> document.mainClass,
              game |-> PlanArguments(document.game, platform),
              jvm |-> jvm,
              natives |-> NativesSubdirectory(jvm)]
        ELSE Refused

\* resolve_install_plan: the manifest, the listed document (fetched whole and
\* of the listed digest, or not at all), and its plan.
ResolveInstallPlan(mojang, version, platform) ==
    LET entry == Listed(mojang.manifest, version)
        document == mojang.document
    IN  IF /\ ManifestSound(mojang.manifest)
           /\ entry # None
           /\ entry.content = document.content
           /\ DocumentSound(document)
           /\ document.id = entry.id
        THEN PlanVersionDocument(document, platform)
        ELSE Refused
=============================================================================
