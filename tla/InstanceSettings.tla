-------------------------- MODULE InstanceSettings --------------------------
(***************************************************************************)
(* The registry document: what each instance has installed (its pin) and   *)
(* what the user wants of it (its configuration), through the schemas that *)
(* earlier launchers wrote, changes of the configuration, and the          *)
(* installations that follow it.                                           *)
(*                                                                         *)
(* Texts that no rule accepts are one model value, Bad.                    *)
(***************************************************************************)
EXTENDS Naturals, Sequences, SequencesExt, FiniteSets, FiniteSetsExt

CONSTANTS
    Games, Versions, Names, \* texts that the rules accept
    GoodTexts,     \* additional JVM arguments
    Documents,              \* instances.json as the launcher may find it; a missing
                            \* one is one without records
    Wishes,                 \* configurations that the user asks for
    Manifest,               \* Aurora releases: client, game, loader
    Listed,                 \* loader versions of each kind and game, newest first
    MaxCommands,            \* bound: commands of the user
    Bad, Absent, None

VARIABLES
    document,    \* instances.json: its schema and records
    job,         \* an installation under way
    commands,    \* how many there were
    \* the past
    original,    \* the document that was found at first
    changed,     \* instances that the user reconfigured, or is reinstalling
    astray       \* instances whose last installation did not follow its wish

vars == <<document, job, commands, original, changed, astray>>

MinMemory == 512
MaxMemory == 32768
DefaultMemory == 2048
MinWindow == 100
MaxWindow == 7680

NoJob == [id |-> None, wish |-> None]

-----------------------------------------------------------------------------
(* settings.rs *)

ValidMemory(mib) == mib \in MinMemory .. MaxMemory
ValidWindow(size) == size # None => \A i \in DOMAIN size : size[i] \in MinWindow .. MaxWindow

\* InstanceConfiguration::validate
ValidConfiguration(c) ==
    /\ c.game \in Games
    /\ c.aurora => c.kind = "fabric"
    /\ c.kind # "vanilla" => c.version \in Versions \cup {None}
    /\ ValidMemory(c.memory) /\ c.arguments \in GoodTexts /\ ValidWindow(c.window)

\* LoaderConfiguration::policy: of Vanilla, automatic.
Policy(c) == IF c.kind = "vanilla" THEN None ELSE c.version

MatchesInstalled(c, pin) ==
    /\ c.game = pin.game /\ c.kind = pin.kind
    /\ c.aurora = (pin.client # None)
    /\ Policy(c) \in {None, pin.version}

\* migrated_from_release_pin
MigratedConfiguration(pin) ==
    [game |-> pin.game, aurora |-> TRUE, kind |-> "fabric", version |-> pin.version,
     memory |-> DefaultMemory, arguments |-> "", window |-> None]

\* LoaderPolicy::resolve
ResolvePolicy(policy, candidates) ==
    LET fits == {i \in DOMAIN candidates :
            IF policy = None THEN candidates[i].stable ELSE candidates[i].version = policy}
    IN  IF fits = {} THEN None ELSE candidates[Min(fits)].version

-----------------------------------------------------------------------------
(* platform.rs and instances/mod.rs *)

\* InstalledConfiguration::validate; Vanilla has no version.
ValidPin(pin) ==
    /\ pin.game \in Games
    /\ IF pin.kind = "vanilla" THEN pin.version = None ELSE pin.version \in Versions
    /\ pin.client # None => pin.kind = "fabric" /\ pin.client # Bad

ValidPack(pack) == pack # Bad

\* InstanceRecord::validate_content
ValidContent(r) ==
    /\ r.name \in Names
    /\ ValidPin(r.pin)
    /\ r.pack \notin {Absent, None} =>
        ValidPack(r.pack) /\ r.pin.client = None /\ r.pin.kind = "fabric"

ValidRecord(r) == r.id # Bad /\ ValidContent(r) /\ ValidConfiguration(r.desired)

NoDuplicates(records) ==
    \A i, j \in DOMAIN records : records[i].id = records[j].id => i = j

\* migrate_legacy: of schema 2 the configuration follows from the release, of
\* schema 3 it is there and Fabric's; neither knows other platforms.
LegacyRecord(schema, r) ==
    /\ r.pack = Absent
    /\ r.pin.kind = "fabric" /\ r.pin.client \notin {None, Bad}
    /\ IF schema = 2 THEN r.desired = None ELSE r.desired # None /\ r.desired.kind = "fabric"

Migrate(schema, r) ==
    IF schema = 2 THEN [r EXCEPT !.pack = None, !.desired = MigratedConfiguration(r.pin)]
    ELSE IF schema = 3 THEN [r EXCEPT !.pack = None, !.desired.aurora = TRUE]
    ELSE IF r.pack = Absent THEN [r EXCEPT !.pack = None]
    ELSE r

Understood(schema, r) ==
    CASE schema \in {2, 3} -> LegacyRecord(schema, r)
      [] schema = 4 -> r.pack = Absent /\ r.desired # None
      [] schema = 5 -> r.desired # None
      [] OTHER -> FALSE

\* from_json: the records, or Bad.
FromJson(doc) ==
    LET records == [i \in DOMAIN doc.records |-> Migrate(doc.schema, doc.records[i])]
    IN  IF /\ \A i \in DOMAIN doc.records : Understood(doc.schema, doc.records[i])
           /\ doc.schema \in 2 .. 5
           /\ \A i \in DOMAIN records : ValidRecord(records[i])
           /\ NoDuplicates(records)
        THEN records
        ELSE Bad

\* load; a missing file is one without records.
Load == FromJson(document)

\* save: only over what it can read, and only what it could read again.
Save(records) ==
    /\ Load # Bad
    /\ FromJson([schema |-> 5, records |-> records]) # Bad
    /\ document' = [schema |-> 5, records |-> records]

\* load_and_migrate, as the launcher starts.
Startup ==
    /\ document.schema # 5 /\ Load # Bad
    /\ Save(Load)
    /\ UNCHANGED <<job, commands, original, changed, astray>>

-----------------------------------------------------------------------------
(* Commands *)

Index(id) == CHOOSE i \in DOMAIN Load : Load[i].id = id
Registered == IF Load = Bad THEN {} ELSE {Load[i].id : i \in DOMAIN Load}
Row(id) == Load[Index(id)]
WithRow(id, row) == [Load EXCEPT ![Index(id)] = row]

Command == commands < MaxCommands /\ commands' = commands + 1

\* require_executable_configuration
Executable(c) == c.kind \in {"vanilla", "fabric", "neoForge"}

Suitable(game) == {r \in Manifest : r.game = game}

\* resolve_release_for_configuration: the newest of this game.
ReleaseFor(c) ==
    CHOOSE r \in Suitable(c.game) : \A other \in Suitable(c.game) : other.client <= r.client

UpdateConfiguration ==
    \E id \in Registered, c \in Wishes :
        /\ Command
        /\ ValidConfiguration(c) /\ Executable(c)
        /\ c.aurora => Suitable(c.game) # {}
        /\ Row(id).state = "ready"
        /\ (Row(id).pin.client # None) = c.aurora
        /\ Save(WithRow(id, [Row(id) EXCEPT !.desired = c]))
        /\ changed' = changed \cup {id}
        /\ UNCHANGED <<job, original, astray>>

RenameInstance ==
    \E id \in Registered, name \in Names :
        /\ Command
        /\ Save(WithRow(id, [Row(id) EXCEPT !.name = name]))
        /\ changed' = changed \cup {id}
        /\ UNCHANGED <<job, original, astray>>

\* install_instance_configuration: the wish is read at first.
BeginInstall ==
    \E id \in Registered :
        /\ Command
        /\ job = NoJob /\ Row(id).state = "ready"
        /\ ValidConfiguration(Row(id).desired)
        /\ job' = [id |-> id, wish |-> Row(id).desired]
        /\ UNCHANGED <<document, original, changed, astray>>

\* A reconfiguration that keeps the platform keeps its pin.
Preserves(c, pin) ==
    /\ c.kind # "vanilla"
    /\ pin.game = c.game /\ pin.kind = "fabric"
    /\ c.aurora = (pin.client # None)
    /\ c.version \in {None, pin.version}

\* resolve_loader_version: that of the release, if it is listed and wished for.
ReleaseLoader(c) ==
    LET required == ReleaseFor(c).loader
        listed == {x.version : x \in ToSet(Listed["fabric"][c.game])}
    IN  IF required \in listed /\ c.version \in {None, required} THEN required ELSE None

\* resolve_installed_configuration: the pin, or Bad.
ResolveInstalled(c, pin) ==
    LET listed == ResolvePolicy(c.version, Listed[c.kind][c.game])
        Pin(version, client) ==
            IF version = None THEN Bad
            ELSE [game |-> c.game, kind |-> c.kind, version |-> version, client |-> client]
    IN  IF ~Executable(c) THEN Bad
        ELSE IF c.kind = "vanilla"
             THEN [game |-> c.game, kind |-> "vanilla", version |-> None, client |-> None]
        ELSE IF Preserves(c, pin) THEN pin
        ELSE IF c.kind = "fabric" /\ c.aurora
             THEN IF Suitable(c.game) = {} THEN Bad
                  ELSE Pin(ReleaseLoader(c), ReleaseFor(c).client)
        ELSE Pin(listed, None)

Ends == job' = NoJob

\* The second window: the pin is written whatever the wish is by now, unless
\* there is none, the document does not admit it, or a request or write fails.
RecordInstall ==
    /\ job # NoJob
    /\ LET pin == ResolveInstalled(job.wish, Row(job.id).pin)
           row == [Row(job.id) EXCEPT !.pin = pin, !.state = "installing"]
       IN  \/ /\ pin # Bad
              /\ Save(WithRow(job.id, row))
              /\ changed' = changed \cup {job.id}
              /\ astray' = IF MatchesInstalled(job.wish, pin) THEN astray \ {job.id}
                           ELSE astray \cup {job.id}
           \/ UNCHANGED <<document, changed, astray>>
    /\ Ends /\ UNCHANGED <<commands, original>>

\* The components are there.
CompleteInstall ==
    \E id \in Registered :
        /\ Row(id).state = "installing"
        /\ Save(WithRow(id, [Row(id) EXCEPT !.state = "ready"]))
        /\ changed' = changed \cup {id}
        /\ UNCHANGED <<job, commands, original, astray>>

\* The launcher is stopped.
Stop == job # NoJob /\ Ends /\ UNCHANGED <<document, commands, original, changed, astray>>

Init ==
    /\ document \in Documents /\ original = document
    /\ job = NoJob /\ commands = 0 /\ changed = {} /\ astray = {}

Next ==
    \/ Startup \/ UpdateConfiguration \/ RenameInstance
    \/ BeginInstall \/ RecordInstall \/ CompleteInstall \/ Stop

Spec == Init /\ [][Next]_vars

-----------------------------------------------------------------------------
(* Properties *)

\* The state is of this shape.
TypeOK ==
    /\ commands \in 0 .. MaxCommands
    /\ job.id = None <=> job.wish = None
    /\ Load = Bad \/ \A i \in DOMAIN Load : Load[i].state \in {"installing", "ready"}

\* A document that cannot be read is never written over, and what the launcher
\* writes it can read again, through any migration and sequence of changes.
RegistryStaysReadable == IF FromJson(original) = Bad THEN document = original ELSE Load # Bad

\* Instances survive the migration of their document: none is lost or added,
\* and one that the user did not touch has its name, state and pin; when its
\* configuration had to be derived it asks for exactly what is installed.
MigrationKeeps ==
    FromJson(original) # Bad =>
        LET past == original.records
        IN  /\ Len(Load) = Len(past)
            /\ \A i \in DOMAIN past :
                /\ Load[i].id = past[i].id
                /\ past[i].id \notin changed =>
                    /\ <<Load[i].name, Load[i].state, Load[i].pin>>
                         = <<past[i].name, past[i].state, past[i].pin>>
                    /\ past[i].desired # None => Load[i].desired = past[i].desired
                    /\ past[i].desired = None =>
                        Load[i].desired.version = Load[i].pin.version
                            /\ MatchesInstalled(Load[i].desired, Load[i].pin)

\* An installation pins what its configuration asks for, but one of Fabric when
\* another loader is asked for without a version.
InstallsFollow ==
    \A id \in astray \cap Registered : Row(id).pin.kind = "fabric" /\ Row(id).pin.client = None

\* "Resolves an existing instance's desired configuration into a new release
\* pin and (re)installs the content to match it" (lifecycle.rs:887-888).
InstallsMatch == astray = {}
=============================================================================
