--------------------------- MODULE GameResolution ---------------------------
(***************************************************************************)
(* One instance from the documents on the network to the process that is   *)
(* started: an installation resolves a plan, lays the files out, extracts  *)
(* the natives, runs NeoForge's processors (programs of others, which do   *)
(* as they like in the staged tree), verifies and records; a launch         *)
(* resolves a plan again, from whatever is published by then, and puts the *)
(* command together from that plan, the record and the user's settings.    *)
(*                                                                         *)
(* GameInstall has the steps of an installation and what a failure or a    *)
(* crash leaves; here an attempt is about what it installs.                *)
(***************************************************************************)
EXTENDS LoaderPlanning, SequencesExt

CONSTANTS
    Offers(_),      \* what the documents may say to an instance of a platform
    Republished(_), \* what they may say to it later
    Pins,           \* what an instance may be of: version, platform, loader
    Hosts,          \* the platforms the launcher may run on
    Settings,       \* the user's: memory, window, additional JVM arguments
    Generated,      \* the content of what a processor makes
    Altered,        \* the content of a file that is not what it should be
    Empty           \* the content of a file of no bytes

VARIABLES
    host, pin,
    offer,       \* what the documents say
    stage,       \* "idle", "staging", "processing", "launched"
    plan,        \* the plan of the attempt
    files,       \* the files it records, in order
    staged,      \* the staged tree: content of each path
    natives,     \* the extracted entries
    step,        \* processors that have run
    from,        \* what the documents said when it was resolved
    game,        \* the committed installation: its record and its tree
    damaged,     \* has something else written in the committed tree?
    settings,    \* those of the launch
    launch       \* what the launch was given: a command, or Refused

attempt == <<stage, plan, files, staged, natives, step, from>>
committed == <<game, damaged>>
launched == <<settings, launch>>
vars == <<host, pin, offer, attempt, committed, launched>>

-----------------------------------------------------------------------------
(* Files *)

LibraryFile(name) == <<"library", name>>

Recorded(path, role, content) == [path |-> path, role |-> role, content |-> content]

LibraryRecord(library) ==
    Recorded(LibraryFile(library.name), IF library.native THEN "native" ELSE "library",
             library.content)

\* AssetIndexObjectsDocument::from_json, plan_asset_objects: one bad entry
\* refuses the index.
ObjectsSound(objects) == objects # <<>> /\ Every(objects, WellFormed)

\* plan_asset_objects: the objects of an index, each once.
AssetRecords(objects) ==
    LET First(n) == \A earlier \in 1 .. n - 1 : objects[earlier] # objects[n]
        firsts == SelectSeq([n \in DOMAIN objects |-> n], First)
    IN  Mapped(firsts, LAMBDA n : Recorded(<<"object", objects[n]>>, "object", objects[n]))

\* What install_game pushes, in its order: client, logging, index, libraries,
\* the loader's other artifacts, asset objects.
PlannedFiles(p, objects) ==
    LET minecraft == p.minecraft
    IN  <<Recorded(<<"client", minecraft.version>>, "client", minecraft.client)>>
        \o (IF minecraft.logging = None THEN <<>>
            ELSE <<Recorded(<<"logging", minecraft.logging.name>>, "logging",
                            minecraft.logging.content)>>)
        \o <<Recorded(<<"index", minecraft.index.id>>, "index", minecraft.index.content)>>
        \o Mapped(p.libraries, LibraryRecord)
        \o Mapped(p.installer, LibraryRecord)
        \o AssetRecords(objects)

\* materialize_file, one after the other: a later file of a path replaces an
\* earlier one.
LaidOut(planned) ==
    [path \in {planned[n].path : n \in DOMAIN planned} |->
        planned[CHOOSE n \in DOMAIN planned :
                    planned[n].path = path /\ \A k \in DOMAIN planned :
                        planned[k].path = path => k <= n].content]

\* extract_native_archive for each native library, from the cache: an archive
\* (its content is its entries, names and bytes) has something to extract, and
\* two archives agree on the names they share.
Extracted(p) ==
    LET archives == {p.libraries[n].content :
                        n \in {k \in DOMAIN p.libraries : p.libraries[k].native}}
        entries == UNION archives
    IN  IF /\ archives # {} /\ {} \notin archives
           /\ \A a, b \in entries : a[1] = b[1] => a = b
           /\ \A a \in entries : WellFormed(a[1])
        THEN entries
        ELSE Refused

\* verify_managed_file for each file, and natives where they are looked for.
Verified(records, tree, extracted) ==
    /\ \A n \in DOMAIN records :
        records[n].path \in DOMAIN tree /\ tree[records[n].path] = records[n].content
    /\ extracted # {}

-----------------------------------------------------------------------------
(* Installation *)

\* The attempt ends without a trace.
Abandon ==
    /\ stage' = "idle" /\ plan' = None /\ files' = <<>> /\ staged' = <<>>
    /\ natives' = {} /\ step' = 0 /\ from' = None
    /\ UNCHANGED <<host, pin, offer, committed, launched>>

\* The plan is resolved and acquired, the staged tree laid out and the natives
\* extracted into the directory the document names; an error anywhere ends the
\* attempt.
Install ==
    /\ stage = "idle" /\ game = None
    /\ \E p \in {ResolveGamePlan(offer, pin, host)} :
        /\ p # Refused
        /\ ObjectsSound(offer.mojang.objects)
        /\ Extracted(p) # Refused
        /\ p.processors # <<>> => p.java = offer.runtime
        /\ plan' = p
        /\ files' = PlannedFiles(p, offer.mojang.objects)
        /\ staged' = LaidOut(files')
        /\ natives' = Extracted(p)
        /\ stage' = IF p.processors = <<>> THEN "staging" ELSE "processing"
        /\ step' = 0
        /\ from' = offer
    /\ UNCHANGED <<host, pin, offer, committed, launched>>

Processor == plan.processors[step + 1]

\* The artifacts that the arguments of a processor name.
Artifacts(processor) ==
    {LibraryFile(plan.data[token].name) :
        token \in {t \in {processor.args[n] : n \in DOMAIN processor.args} :
                    t \in DOMAIN plan.data /\ plan.data[t].kind = "artifact"}}

\* substitute_argument: a token of the launcher's own, or one of the profile's.
TokensKnown(processor) ==
    Every(processor.args, LAMBDA token :
        token \in {"SIDE", "MINECRAFT_JAR", "INSTALLER", "ROOT", "LIBRARY_DIR"}
                  \cup DOMAIN plan.data)

\* run_one_processor: its tool and classpath are staged; those of its
\* artifacts that are not there yet must be when it is done.
Runnable(processor) ==
    /\ LibraryFile(processor.jar) \in DOMAIN staged
    /\ Every(processor.classpath, LAMBDA name : LibraryFile(name) \in DOMAIN staged)
    /\ TokensKnown(processor)

Missing(processor) == Artifacts(processor) \ DOMAIN staged

\* The tree with some paths (re)written or removed.
Written(tree, paths, content) ==
    [path \in DOMAIN tree \cup paths |-> IF path \in paths THEN content ELSE tree[path]]

Without(tree, path) == [other \in DOMAIN tree \ {path} |-> tree[other]]

\* What the program may do before it exits: its job; its job, and something to
\* another file of the tree; less than its job.
Outcomes(processor) ==
    LET done == Written(staged, Artifacts(processor), Generated)
    IN  {done, staged, Written(done, Missing(processor), Empty)}
        \cup {Written(done, {path}, Altered) : path \in DOMAIN done}
        \cup {Without(done, path) : path \in DOMAIN done}

RunProcessor ==
    /\ stage = "processing" /\ step < Len(plan.processors)
    /\ Runnable(Processor)
    /\ staged' \in Outcomes(Processor)
    /\ Missing(Processor) \subseteq DOMAIN staged'
    /\ step' = step + 1
    /\ UNCHANGED <<host, pin, offer, stage, plan, files, natives, from, committed, launched>>

\* run_client_processors, at the end: nothing that was there is gone; what is
\* new is not empty, and is recorded as it is found.
RecordGenerated ==
    /\ stage = "processing" /\ step = Len(plan.processors)
    /\ LET before == {files[n].path : n \in DOMAIN files}
           new == DOMAIN staged \ before
       IN  /\ before \subseteq DOMAIN staged
           /\ \A path \in new : staged[path] # Empty
           /\ \E order \in [1 .. Cardinality(new) -> new] :
                /\ {order[n] : n \in 1 .. Cardinality(new)} = new
                /\ files' = files \o Mapped(order, LAMBDA path :
                                        Recorded(path, "library", staged[path]))
    /\ stage' = "staging"
    /\ UNCHANGED <<host, pin, offer, plan, staged, natives, step, from, committed,
                   launched>>

\* Mutant: what was staged is not verified again before it is promoted.
CommitUnverified ==
    /\ stage = "staging"
    /\ natives # {}
    /\ game' = [pin |-> pin, natives |-> plan.minecraft.natives, files |-> files,
                tree |-> staged, extracted |-> natives, from |-> from]
    /\ damaged' = FALSE
    /\ stage' = "idle" /\ plan' = None /\ files' = <<>> /\ staged' = <<>>
    /\ natives' = {} /\ step' = 0 /\ from' = None
    /\ UNCHANGED <<host, pin, offer, launched>>

\* validate_staged_files, the manifest, and the promotion.
Commit ==
    /\ stage = "staging"
    /\ Verified(files, staged, natives)
    /\ game' = [pin |-> pin, natives |-> plan.minecraft.natives, files |-> files,
                tree |-> staged, extracted |-> natives, from |-> from]
    /\ damaged' = FALSE
    /\ stage' = "idle" /\ plan' = None /\ files' = <<>> /\ staged' = <<>>
    /\ natives' = {} /\ step' = 0 /\ from' = None
    /\ UNCHANGED <<host, pin, offer, launched>>

\* Any error, a processor's exit code or its timeout included.
Fail == stage \in {"staging", "processing"} /\ Abandon

-----------------------------------------------------------------------------
(* Launch *)

\* feature_profile.
EnabledFeatures(chosen) == IF chosen.window THEN {"has_custom_resolution"} ELSE {}

\* What resolve_launch_spec has values for.
Placeholders ==
    {None, "auth_player_name", "version_name", "game_directory", "assets_root",
     "assets_index_name", "auth_uuid", "auth_access_token", "clientid", "auth_xuid",
     "user_type", "user_properties", "version_type", "natives_directory",
     "launcher_name", "launcher_version", "classpath", "classpath_separator",
     "library_directory"}

\* substitute_argument: the text is filled in; the access token makes it
\* sensitive.
Substitutable(value, logging) ==
    \/ value.placeholder \in Placeholders
    \/ value.placeholder = "path" /\ logging # None

\* resolve_groups: the values of the groups whose features are all enabled.
ResolvedGroups(groups, enabled) ==
    LET Chosen(group) == group.features \subseteq enabled
    IN  FlattenSeq(Mapped(SelectSeq(groups, Chosen), LAMBDA group : group.values))

\* The heap and the user's arguments are the launcher's, first and last.
OwnArgument(option) == [option |-> option, placeholder |-> None, suffix |-> None]

\* The libraries that a launch plan puts on the classpath.
ClasspathLibraries(p) ==
    Mapped(SelectSeq(p.libraries, LAMBDA library : ~library.native),
           LAMBDA library : LibraryFile(library.name))

HasRole(path, role) ==
    \E n \in DOMAIN game.files : game.files[n].path = path /\ game.files[n].role = role

\* resolve_launch_spec.
LaunchSpec(p, chosen) ==
    LET enabled == EnabledFeatures(chosen)
        client == <<"client", p.minecraft.version>>
        logging == p.minecraft.logging
        jvm == ResolvedGroups(p.jvm, enabled)
               \o (IF logging = None THEN <<>> ELSE <<logging.argument>>)
        arguments == ResolvedGroups(p.game, enabled)
    IN  IF /\ game.pin.version = p.minecraft.version
           /\ game.pin.platform = p.platform /\ game.pin.loader = p.loader
           /\ Every(ClasspathLibraries(p), LAMBDA path : HasRole(path, "library"))
           /\ HasRole(client, "client")
           /\ game.extracted # {}
           /\ HasRole(<<"index", p.minecraft.index.id>>, "index")
           /\ logging # None => HasRole(<<"logging", logging.name>>, "logging")
           /\ Every(jvm \o arguments, LAMBDA value : Substitutable(value, logging))
        THEN [classpath |-> ClasspathLibraries(p) \o <<client>>,
              mainClass |-> p.mainClass,
              jvm |-> <<OwnArgument("heap")>> \o jvm
                      \o (IF chosen.arguments THEN <<OwnArgument("user")>> ELSE <<>>),
              game |-> arguments]
        ELSE Refused

\* play_instance: the installation is validated (again under the locks); the
\* plan and the runtime it needs are resolved anew; a runtime whose published
\* major is another one is refused.
Play ==
    /\ stage = "idle" /\ game # None
    /\ settings' \in Settings
    /\ \E p \in {ResolveGamePlan(offer, pin, host)} :
        launch' =
            IF \/ ~Verified(game.files, game.tree, game.extracted)
               \/ p = Refused
               \/ p.java # offer.runtime
            THEN Refused
            ELSE LaunchSpec(p, settings')
    /\ stage' = "launched"
    /\ UNCHANGED <<host, pin, offer, plan, files, staged, natives, step, from, committed>>

-----------------------------------------------------------------------------
(* The world *)

\* Documents are published again, with another content.  An attempt reads them
\* as it begins, so that it matters only between an installation and a launch.
Republish ==
    /\ stage = "idle" /\ game # None
    /\ offer' \in Republished(pin.platform)
    /\ offer' # offer
    /\ UNCHANGED <<host, pin, attempt, committed, launched>>

\* A file of the installation is altered or removed by something else, or the
\* natives are.
Damage ==
    /\ stage = "idle" /\ game # None /\ ~damaged
    /\ damaged' = TRUE
    /\ game' \in {[game EXCEPT !.extracted = {}]}
        \cup {[game EXCEPT !.tree = Written(@, {path}, Altered)] : path \in DOMAIN game.tree}
        \cup {[game EXCEPT !.tree = Without(@, path)] : path \in DOMAIN game.tree}
    /\ UNCHANGED <<host, pin, offer, attempt, launched>>

Init ==
    /\ host \in Hosts
    /\ pin \in Pins
    /\ offer \in Offers(pin.platform)
    /\ stage = "idle" /\ plan = None /\ files = <<>> /\ staged = <<>>
    /\ natives = {} /\ step = 0
    /\ game = None /\ from = None /\ damaged = FALSE
    /\ settings = None /\ launch = None

Next ==
    \/ Install \/ RunProcessor \/ RecordGenerated \/ Commit \/ Fail
    \/ Play \/ Republish \/ Damage

Spec == Init /\ [][Next]_vars

-----------------------------------------------------------------------------
(* Properties.  What is promised is said from the documents: rules_allow,   *)
(* once, for the platform and the features of the launch.                  *)

\* The state is of this shape.
TypeOK ==
    /\ host \in Platforms
    /\ stage \in {"idle", "staging", "processing", "launched"}
    /\ stage \in {"staging", "processing"} <=> plan # None
    /\ plan # None => step \in 0 .. Len(plan.processors)
    /\ damaged \in BOOLEAN /\ (damaged => game # None)
    /\ settings # None <=> stage = "launched"

\* The values of the arguments that the rules allow for these features.
Allowed(arguments, enabled) ==
    LET Applies(argument) == RulesAllow(argument.rules, host, enabled)
    IN  FlattenSeq(Mapped(SelectSeq(arguments, Applies), LAMBDA argument : argument.values))

\* The names that the documents put on the classpath, the game's first.
GameNames(o) ==
    LET Applies(library) ==
            RulesAllow(library.rules, host, {}) /\ library.name.classifier # "natives"
    IN  Mapped(SelectSeq(o.mojang.document.libraries, Applies), LAMBDA library : library.name)

LoaderNames(o) ==
    LET Name(library) == library.name
        fabric == o.fabric.document
    IN  CASE pin.platform = "fabric" ->
                Mapped(fabric.common, Name)
                \o (IF fabric.intermediary.version = NoOp THEN <<>> ELSE <<fabric.intermediary.name>>)
                \o <<fabric.loader.name>> \o Mapped(fabric.client, Name)
          [] pin.platform = "neoforge" -> Mapped(o.neoforge.version.libraries, Name)
          [] OTHER -> <<>>

Started == launch \notin {None, Refused}

\* Each argument that the rules allow, in the order of the documents, with the
\* launcher's first and the user's last.
ArgumentsAsPublished ==
    LET document == offer.mojang.document
        enabled == EnabledFeatures(settings)
        neoforge == pin.platform = "neoforge"
    IN  /\ launch.game = Allowed(document.game, enabled)
                         \o (IF neoforge THEN offer.neoforge.version.game ELSE <<>>)
        /\ launch.jvm =
                <<OwnArgument("heap")>> \o Allowed(document.jvm, enabled)
                \o (IF neoforge THEN offer.neoforge.version.jvm ELSE <<>>)
                \o (IF document.logging = None THEN <<>> ELSE <<document.logging.argument>>)
                \o (IF settings.arguments THEN <<OwnArgument("user")>> ELSE <<>>)

\* Each library of the game and of the loader, in the order they are named
\* first, of a modded game none in two versions or twice; the client last.  A
\* library the game extracts stays off it, whoever names it too.
ClasspathAsPublished ==
    LET names == SelectSeq(GameNames(offer) \o LoaderNames(offer),
                           LAMBDA name : ~HasRole(LibraryFile(name), "native"))
        last == Len(launch.classpath)
        Place(name) == CHOOSE n \in DOMAIN launch.classpath :
                            launch.classpath[n] = LibraryFile(name)
    IN  /\ launch.classpath[last] = <<"client", pin.version>>
        /\ {launch.classpath[n] : n \in 1 .. last - 1}
            = {LibraryFile(names[n]) : n \in DOMAIN names}
        /\ \A a, b \in DOMAIN names :
            Place(names[a]) < Place(names[b]) => \E n \in 1 .. b - 1 : names[n] = names[a]
        /\ pin.platform # "vanilla" =>
            \A a, b \in 1 .. last - 1 :
                Identity(launch.classpath[a][2]) = Identity(launch.classpath[b][2]) => a = b

\* A started game gets what its documents publish for this platform and these
\* settings, though rules are decided twice, by platform when the plan is made
\* and by feature when the process is; and what the record says lies on the
\* disk.
LaunchedAsPublished ==
    Started =>
        /\ ArgumentsAsPublished
        /\ ClasspathAsPublished
        /\ \A n \in DOMAIN game.files : game.tree[game.files[n].path] = game.files[n].content
        /\ game.extracted # {}

\* An installation holds nothing but what it records, as it records it, though
\* sources name one file twice and programs of others worked in its tree; and
\* every file the game's own documents name as they publish it.
CommittedAsRecorded ==
    game # None /\ ~damaged =>
        LET libraries == game.from.mojang.document.libraries
        IN  /\ DOMAIN game.tree = {game.files[n].path : n \in DOMAIN game.files}
            /\ Verified(game.files, game.tree, game.extracted)
            /\ \A n \in DOMAIN libraries :
                RulesAllow(libraries[n].rules, host, {}) =>
                    \E k \in DOMAIN libraries :
                        /\ libraries[k].name = libraries[n].name
                        /\ RulesAllow(libraries[k].rules, host, {})
                        /\ game.tree[LibraryFile(libraries[n].name)] = libraries[k].artifact.content

\* The runtime that is published for the instance is the one it asks for.
RuntimeServes ==
    offer.runtime = IF pin.platform = "fabric"
                    THEN Larger(offer.mojang.document.java, offer.fabric.document.minJava)
                    ELSE offer.mojang.document.java

\* Every template the arguments use is one that the launcher fills in.
TemplatesKnown ==
    LET document == offer.mojang.document
        used == Allowed(document.game \o document.jvm, EnabledFeatures(settings))
                \o (IF pin.platform = "neoforge"
                    THEN offer.neoforge.version.game \o offer.neoforge.version.jvm ELSE <<>>)
    IN  Every(used, LAMBDA value : Substitutable(value, document.logging))

\* What installs also starts: an undamaged installation whose documents are
\* still those it was made from is launched, with its runtime and known
\* templates, and its natives are where the command looks for them.
InstalledStarts ==
    stage = "launched" /\ game.from = offer /\ ~damaged /\ RuntimeServes /\ TemplatesKnown =>
        /\ launch # Refused
        /\ \A n \in DOMAIN launch.jvm :
            launch.jvm[n].placeholder = "natives_directory" => launch.jvm[n].suffix = game.natives

\* What was committed is what was published, and can be played.
InstallationPlays == TypeOK /\ CommittedAsRecorded /\ InstalledStarts

\* "Custom windowed resolution; enables Mojang's has_custom_resolution feature
\* arguments" (launch/resolve.rs:33): a launch with a window of its own gets
\* the arguments the official documents have for it.
ConfiguredWindowReachesGame ==
    stage = "launched" /\ settings.window =>
        \A p \in {ResolveGamePlan(offer, pin, host)}, without \in {[settings EXCEPT !.window = FALSE]} :
            Verified(game.files, game.tree, game.extracted) /\ p # Refused =>
                (LaunchSpec(p, without) # Refused /\ p.java = offer.runtime => Started)
=============================================================================
