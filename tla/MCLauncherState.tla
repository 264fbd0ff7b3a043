--------------------------- MODULE MCLauncherState ---------------------------
(***************************************************************************)
(* What the launcher keeps under its data root, beside the content of the  *)
(* instances: a transition of the Aurora client of one instance, over the  *)
(* client, Fabric API and a third file, so that a plan can install or      *)
(* remove several files and retain others; two account commands at a time  *)
(* over two accounts, whose credentials are redeemed, rotated, revoked and *)
(* replaced; one of its documents; artifacts without a digest, or one      *)
(* transfer into the cache; the skin library and the skins and capes of    *)
(* two accounts.  A behaviour is one of these, chosen at its start.        *)
(* Accounts, names and workers are interchangeable.                        *)
(***************************************************************************)
EXTENDS AuroraTransition, Accounts, Sequences, TLC

CONSTANTS
    client, api, other,
    alex, steve, old, new, one, two,
    \* config.json
    Bad, Torn, Default, theme, home, Values, Ids, Tasks, MaxTasks, MaxFaults,
    \* instances.json
    Absent, g1, g2, v1, v2, n1, n2, row1, row2, PackOne, MaxCommands,
    \* downloads
    Addresses, Contents, MaxRounds, MaxChanges,
    Malformed, Letters, Digests, Sizes, MaxBytes, Limit, MaxRedirects,
    \* skins and capes
    Capes, whole, cut, MaxPresets, MaxLoads, MaxUpsets

VARIABLES
    file, sibling, task, owner, began, faults, opened, wanted, chosen, unlocked, found,
    registry, job, commands, original, changed, astray,
    published, objects, records, temporary, acquisitions, rounds, changes, harm, served, given,
    unpinned,
    source, at, url, asked, hops, promised, verified, staging, answer, stuck,
    library, images, minted, edited, skins, was, requested, page, loads, listing, errand, bounds,
    part

Symmetry ==
    Permutations(Accounts) \cup Permutations(Names) \cup Permutations(Workers)

-----------------------------------------------------------------------------
(* config.json *)

configVars == <<file, sibling, task, owner, began, faults, opened, wanted, chosen, unlocked, found>>

Preferences == {"appearance", "discord", "widgets"}

UsualConfig(schema) ==
    [schema |-> schema, selected |-> home, updates |-> FALSE,
     preferences |-> [p \in Preferences |-> theme]]

\* A missing file, one of each kind of schema (4 to 6 are read as 3 is), and
\* those with one part malformed.
Configurations ==
    {None} \cup {UsualConfig(n) : n \in {0, 1, 2, 3, 7, 8}}
        \cup {[UsualConfig(n) EXCEPT !.preferences[p] = Bad] : n \in {1, 2, 3, 7}, p \in Preferences}
        \cup {[UsualConfig(n) EXCEPT !.preferences.appearance = "unknown"] : n \in {1, 2, 7}}
        \cup {[UsualConfig(7) EXCEPT !.updates = x] : x \in {TRUE, Bad}}
        \cup {[UsualConfig(3) EXCEPT !.selected = x] : x \in {None, Bad}}

Config == INSTANCE ConfigFile
    WITH Found <- Configurations, Unknown <- "unknown", at <- opened, first <- found

\* The bounds are numbers, what the launcher writes is sane, and no value stands
\* for two things.
ASSUME ConfigBounds == MaxTasks \in Nat /\ MaxFaults \in Nat
ASSUME ConfigNone ==
    /\ home \in Ids /\ {theme, Default} \subseteq Values
    /\ {Bad, "unknown"} \cap Values = {} /\ {None, Bad} \cap Ids = {} /\ None \notin Tasks
    /\ None # Bad /\ Torn # None /\ Torn # Bad /\ Bad # "unknown" /\ Bad \notin BOOLEAN
    /\ None \notin {"sibling", "file", "delete", "restore", "select", "automatic", "start"}
            \cup Preferences
    /\ {None, Bad, Torn} \cap
        [schema : 0 .. 8, selected : Ids \cup {None, Bad}, updates : BOOLEAN \cup {Bad},
         preferences : [Preferences -> Values \cup {Bad, "unknown"}]] = {}

-----------------------------------------------------------------------------
(* instances.json *)

registryVars == <<registry, job, commands, original, changed, astray>>

Registries == INSTANCE MCRegistryDocuments WITH a <- row1, b <- row2
Settings == INSTANCE InstanceSettings
    WITH Games <- {g1, g2}, Versions <- {v1, v2}, Names <- {n1, n2}, GoodTexts <- {"", "good"},
         Documents <- Registries!MCDocuments, Wishes <- Registries!MCWishes,
         Manifest <- Registries!MCManifest, Listed <- Registries!MCListed,
         document <- registry

\* The configurations there are, valid or not.
WishKinds == {"vanilla", "fabric", "neoForge", "quilt"}
Windows == {None, <<99, 480>>, <<100, 7680>>, <<854, 7681>>}
WishShape ==
    [game : {g1, g2, Bad}, aurora : BOOLEAN, kind : WishKinds, version : {v1, v2, None, Bad},
     memory : Nat, arguments : {"", "good", "bad"}, window : Windows]

\* No value stands for two things.
ASSUME RegistryNone ==
    /\ MaxCommands \in Nat
    /\ None \notin {row1, row2, Absent, 1, 2}
    /\ None \notin WishShape

-----------------------------------------------------------------------------
(* Downloads *)

observedVars ==
    <<published, objects, records, temporary, acquisitions, rounds, changes, harm, served, given,
      unpinned>>
transferVars == <<source, at, url, asked, hops, promised, verified, staging, answer, stuck>>

Observed == INSTANCE ObservedStore
    WITH job <- acquisitions, faults <- harm, excused <- unpinned, Workers <- Tasks

Url(scheme, host, port, embedded) ==
    [scheme |-> scheme, host |-> host, port |-> port, credentials |-> embedded]
Urls ==
    {Url("https", "remote", FALSE, FALSE), Url("https", "pack", FALSE, FALSE),
     Url("https", "pack", TRUE, FALSE), Url("https", "pack", FALSE, TRUE),
     Url("http", "pack", FALSE, FALSE), Url("http", "loopback", FALSE, FALSE),
     Url("ftp", "remote", FALSE, FALSE), Url("https", None, FALSE, FALSE)}
Sources ==
    [kind : {"digest", "pack"}, url : Urls, digest : Digests \cup {Malformed},
     size : Sizes \cup {None}]
        \cup [kind : {"observed"}, url : Urls, digest : Digests \cup {None}, size : {None}]

MCDigests == {<<"a">>, <<"a", "b">>}

Transfers == INSTANCE Transfer

\* The bounds are numbers, and no value stands for two things.
ASSUME DownloadBounds ==
    MaxRounds \in Nat /\ MaxChanges \in Nat /\ MaxFaults \in Nat
        /\ MaxBytes \in Nat /\ Limit \in Nat /\ MaxRedirects \in Nat
ASSUME DownloadNone ==
    /\ None \notin Addresses \cup Contents
    /\ None \notin {"ok", "invalid", "status", "redirect", "size", "io", "network", "digest", "drift"}

-----------------------------------------------------------------------------
(* Skins and capes *)

cosmeticsVars ==
    <<library, images, minted, edited, skins, was, requested, page, loads, listing, errand, bounds>>

\* A skin, and a file that ends before its image does.
Cosmetic == INSTANCE Cosmetics
    WITH Images <- {whole, cut},
         Shape <- [image \in {whole, cut} |->
             [small |-> TRUE, size |-> "64x64", still |-> TRUE,
              chunks |-> <<"header", "image">> \o (IF image = whole THEN <<"end">> ELSE <<>>)]],
         document <- library, asked <- requested, job <- errand, profile <- skins, touched <- edited, issued <- minted

otherVars == <<configVars, registryVars, observedVars, transferVars, cosmeticsVars>>

-----------------------------------------------------------------------------

\* A part that is not chosen is in one state.
StateInit ==
    /\ part \in {"client", "accounts", "config", "registry", "observed", "transfer", "cosmetics"}
    /\ part # "client" => owned = {}
    /\ part # "config" => file = None
    /\ part # "registry" => registry = [schema |-> 2, records |-> <<>>]
    /\ part # "observed" => published = [u \in Addresses |-> CHOOSE c \in Contents : TRUE]
    /\ TransitionInit /\ Init /\ Config!Init /\ Settings!Init /\ Observed!Init
    /\ Cosmetic!CosmeticsInit
    /\ IF part = "transfer" THEN Transfers!Init
       ELSE /\ source = None /\ at = "idle" /\ url = None /\ asked = {} /\ hops = 0
            /\ promised = None /\ verified = <<>> /\ staging = None /\ answer = None
            /\ stuck = FALSE

\* Only the commands of accounts wait for each other.
StateNext ==
    /\ UNCHANGED part
    /\ \/ part = "accounts" /\ Next /\ UNCHANGED <<transitionVars, otherVars>>
       \/ part = "client" /\ TransitionNext /\ UNCHANGED <<vars, otherVars>>
       \/ /\ part = "config" /\ Config!Next
          /\ UNCHANGED <<vars, transitionVars, registryVars, observedVars, transferVars,
                         cosmeticsVars>>
       \/ /\ part = "registry" /\ Settings!Next
          /\ UNCHANGED <<vars, transitionVars, configVars, observedVars, transferVars,
                         cosmeticsVars>>
       \/ /\ part = "observed" /\ Observed!Next
          /\ UNCHANGED <<vars, transitionVars, configVars, registryVars, transferVars,
                         cosmeticsVars>>
       \/ /\ part = "transfer" /\ Transfers!Next
          /\ UNCHANGED <<vars, transitionVars, configVars, registryVars, observedVars,
                         cosmeticsVars>>
       \/ /\ part = "cosmetics" /\ Cosmetic!CosmeticsNext
          /\ UNCHANGED <<vars, transitionVars, configVars, registryVars, observedVars,
                         transferVars>>
       \/ part # "accounts" /\ UNCHANGED <<vars, transitionVars, otherVars>>

StateSpec == StateInit /\ [][StateNext]_<<vars, transitionVars, otherVars, part>>

\* The documents of the launcher stay what they are: what cannot be read is not
\* replaced, a migration loses nothing, and what is acknowledged is there or is
\* excused by a save without the lock; what is recorded can be read again; every
\* skin in the library has its image, and no account shows or wears another's.
DocumentsHold ==
    /\ part = "config" =>
        Config!TypeOK /\ Config!MalformedStays /\ Config!NothingIsLost
    /\ part = "registry" =>
        /\ Settings!TypeOK /\ Settings!RegistryStaysReadable
        /\ Settings!MigrationKeeps /\ Settings!InstallsFollow
    /\ part = "cosmetics" =>
        Cosmetic!LibraryIsWhole /\ Cosmetic!ShownIsTrue /\ Cosmetic!WornIsChosen

\* "Resolves an existing instance's desired configuration into a new release
\* pin and (re)installs the content to match it" (lifecycle.rs:887-888).
InstallsMatch == part = "registry" => Settings!InstallsMatch

\* What is downloaded is what was asked for: a transfer hands over exactly the
\* bytes that were expected or leaves nothing, from no less secure an address
\* than the one it was given; and an address without a digest keeps serving
\* what it served first, or is refused.
TransfersHold ==
    /\ part = "transfer" =>
        Transfers!TypeOK /\ Transfers!VerifiedOrGone /\ Transfers!StaysSecure
    /\ part = "observed" =>
        Observed!TypeOK /\ Observed!OfItsAddress /\ Observed!ChangeIsNoticed
=============================================================================
