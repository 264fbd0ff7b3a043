---------------------------- MODULE MCGameInstall ----------------------------
(***************************************************************************)
(* An instance's game: how its files are put in place, what they are and   *)
(* what is launched from them, or how a modpack becomes an instance with   *)
(* its game; the Java runtime it gets; and the additional arguments that   *)
(* are given to it.  A behaviour is one of these, chosen at its start.     *)
(*                                                                         *)
(* In place: two versions of a few files in batches of two, so that there  *)
(* is a full batch, a partial one, a replacement by another version and    *)
(* one by the same.                                                        *)
(***************************************************************************)
EXTENDS GameInstall

CONSTANTS
    v1, v2, Refused, Malformed, NoOp, Generated, Altered, Empty,
    Own, MaxPlans, MaxUpsets,
    Unsafe, MaxManifest, MaxUpdates,
    \* additional JVM arguments
    Quote, Slash, Blank, Control, Heap, Jar, MaxText, MaxArgument, MaxArguments, TextLength,
    \* mods
    Java, MaxDepth, MaxCount, MaxBytes, MaxMixins,
    \* what is told before Play
    Second, DaySeconds, Week, Month, Longest, MaxSessions, MaxVisits, MaxDays, MaxRecent

VARIABLES
    host, pin, offer, stage, plan, recorded, unpacked, natives, step, from, installed, damaged,
    settings, launch,
    \* the pack
    published, chosen, reviewed, row, runs, tree, dirs, pack, content, at, resolved,
    created, records, removed, scanned, outcome, upsets, late, failing,
    \* the runtime
    machine, offered, runtime, edited, updates,
    \* what the parts without steps are about: additional arguments, and others
    given,
    \* mods
    mods, claims, family, ahead, kept, viewed,
    side

resolutionVars ==
    <<host, pin, offer, stage, plan, recorded, unpacked, natives, step, from, installed, damaged,
      settings, launch>>

packVars ==
    <<published, chosen, reviewed, row, runs, tree, dirs, pack, content, at, resolved,
      created, records, removed, scanned, outcome, upsets, late, failing>>

Documents == INSTANCE MCGameDocuments

OffersFor(platform) == Documents!OffersFor(platform)
RepublishedFor(platform) == Documents!RepublishedFor(platform)

Resolution == INSTANCE GameResolution
    WITH Offers <- OffersFor, Republished <- RepublishedFor, Pins <- Documents!MCPins,
         Hosts <- Documents!MCHosts, Settings <- Documents!MCSettings,
         files <- recorded, staged <- unpacked, game <- installed

Published == INSTANCE MCOffers
Pack ==
    INSTANCE PackInstall
    WITH Offers <- Published!PackOffers, offer <- published, game <- runs, files <- tree,
         step <- at

runtimeVars == <<machine, offered, runtime, edited, updates>>

Runtime ==
    INSTANCE RuntimePlanning
    WITH Hosts <- Published!RuntimeHosts, Offers <- Published!RuntimeOffers,
         Wanted <- Published!RuntimeWanted, Spelling <- Published!RuntimeSpelling,
         Reports <- Published!RuntimeReports,
         platform <- machine, published <- offered, disk <- runtime, touched <- edited

modVars == <<mods, claims, family, ahead, kept, viewed>>

Small == INSTANCE MCBeforePlay
Mods ==
    INSTANCE ModInventory
    WITH Jars <- DOMAIN Small!ModArchive, Archive <- Small!ModArchive, Slots <- Small!ModSlots,
         Game <- Small!ModGame, Loader <- Small!ModLoader, Directories <- Small!ModDirectories,
         Publications <- Small!ModPublished, Edits <- Small!ModEdits

Overview == INSTANCE PlayOverview WITH Instances <- Small!MCInstances

Options == INSTANCE OptionsFile

Jvm == INSTANCE JvmArguments
Texts == UNION {[1 .. n -> {Quote, Slash, Blank, Control, Heap, Jar, "a"}] : n \in 0 .. TextLength}

\* A part that is not chosen is in one state.
GameInit ==
    /\ Init
    /\ side \in {"files", "resolution", "pack", "runtime", "arguments", "mods", "versions",
                 "comments", "history", "recent", "server", "play", "options"}
    /\ given \in CASE side = "arguments" -> Texts
                 [] side = "versions" -> [1 .. 3 -> Small!ModVersions]
                 [] side = "comments" -> Small!Commented
                 [] side = "history" -> Small!Histories
                 [] side = "recent" -> Small!Visiting \X Small!Disks
                 [] side = "server" -> Small!ServerTexts
                 [] side = "play" -> Small!Scenes
                 [] side = "options" -> Small!OptionsChanges
                 [] OTHER -> {<<>>}
    /\ side # "files" => game = None /\ staged = None /\ retired = None
    /\ \/ side = "resolution" /\ Resolution!Init
       \/ /\ side # "resolution"
          /\ host = None /\ pin = None /\ offer = None /\ stage = "idle" /\ plan = None
          /\ recorded = <<>> /\ unpacked = <<>> /\ natives = {} /\ step = 0
          /\ installed = None /\ from = None /\ damaged = FALSE /\ settings = None
          /\ launch = None
    /\ \/ side = "pack" /\ Pack!Init
       \/ /\ side # "pack"
          /\ published = None /\ chosen = {} /\ reviewed = None /\ row = None /\ runs = None
          /\ tree = <<>> /\ dirs = {} /\ pack = None /\ content = None /\ at = "idle"
          /\ resolved = None /\ created = <<>> /\ records = <<>> /\ removed = 0
          /\ scanned = <<>> /\ outcome = None /\ upsets = 0 /\ late = {} /\ failing = FALSE
    /\ \/ side = "runtime" /\ Runtime!PlanningInit
       \/ /\ side # "runtime"
          /\ machine = None /\ offered = None /\ runtime = None /\ edited = FALSE /\ updates = 0
    /\ \/ side = "mods" /\ Mods!InventoryInit
       \/ /\ side # "mods"
          /\ mods = <<>> /\ claims = <<>> /\ family = None /\ ahead = None /\ kept = FALSE
          /\ viewed = None

GameNext ==
    /\ UNCHANGED <<side, given>>
    /\ \/ side = "files" /\ Next /\ UNCHANGED <<resolutionVars, packVars, runtimeVars, modVars>>
       \/ side = "resolution" /\ Resolution!Next /\ UNCHANGED <<vars, packVars, runtimeVars, modVars>>
       \/ side = "pack" /\ Pack!Next /\ UNCHANGED <<vars, resolutionVars, runtimeVars, modVars>>
       \/ /\ side = "runtime" /\ Runtime!PlanningNext
          /\ UNCHANGED <<vars, resolutionVars, packVars, modVars>>
       \/ /\ side = "mods" /\ Mods!InventoryNext
          /\ UNCHANGED <<vars, resolutionVars, packVars, runtimeVars>>

GameSpec == GameInit /\ [][GameNext]_<<vars, resolutionVars, packVars, runtimeVars, modVars, given, side>>
    /\ WF_vars(Work)

\* A started game gets the classpath and the arguments that its documents
\* publish for this platform and these settings.
LaunchedAsPublished == Resolution!LaunchedAsPublished

\* What is installed is as published, and starts; and so is the Java runtime:
\* one that is taken for ready is the complete one that the game requires, and
\* one that is published can be installed; and the arguments that the user may
\* record are those that the game is started with; and of options.txt the packs
\* change as told, and nothing else.
InstallationPlays ==
    /\ side = "resolution" => Resolution!InstallationPlays
    /\ side = "runtime" => Runtime!PlanningHolds
    /\ side = "arguments" => Jvm!ReadsBack(given) /\ Jvm!LaunchAgrees(given)
    /\ side = "mods" => Mods!InventoryHolds
    /\ side = "versions" => Mods!VersionsAreOrdered(given[1], given[2], given[3])
    /\ side = "comments" => Mods!CommentsAreRemoved(given)
    /\ side = "history" =>
        /\ \A now \in {0, 3, 8} : Overview!PlaytimeAddsUp(given, now)
        /\ \A i \in Small!MCInstances : Overview!NothingIsUnplayed(given, i, 6)
    /\ side = "recent" =>
        \A mode \in {"singleplayer", "multiplayer"}, i \in {None, "a"}, limit \in {1, 3} :
            Overview!RecentLeadsBack(given[1], given[2], mode, i, limit)
    /\ side = "server" => Overview!ServerReadsBack(given)
    /\ side = "play" =>
        Overview!ReadyStarts(given) /\ Overview!StartedWasReady(given) /\ Overview!ReasonWasGiven(given)
    /\ side = "options" =>
        /\ Options!ChangesReadBack(given[1], given[2]) /\ Options!RestStays(given[1], given[2])
        /\ Options!DisablingUndoes(given[1], given[2])

\* "Custom windowed resolution; enables Mojang's has_custom_resolution feature
\* arguments" (launch/resolve.rs:33): a launch with a window of its own gets
\* the arguments that the official documents have for it.
ConfiguredWindowReachesGame ==
    side = "resolution" => Resolution!ConfiguredWindowReachesGame

\* The installation of a pack ends with all of what was reviewed in a ready
\* instance, or with nothing of it, or with an installing instance that says
\* that there is something to inspect; and it fails for a reason.
PackWholeOrAbsent ==
    side = "pack" =>
        Pack!TypeOK /\ Pack!Settled /\ Pack!ReadyAsReviewed /\ Pack!ReviewedPackInstalls

\* An installation of a pack removes or replaces nothing that the user wrote
\* meanwhile, and the adoption of a file takes no other.
UserBytesSurvive == Pack!UserBytesSurvive /\ Mods!AdoptionTakesNothingElse
=============================================================================
