----------------------------- MODULE MCBackground -----------------------------
(***************************************************************************)
(* Updates, and what is looked up beside the instances: an update of the  *)
(* Aurora client, the update card, and the servers recently visited.  They *)
(* share no state, so a behaviour is one of them, chosen at its start.     *)
(*                                                                         *)
(* The client: three releases, of which the launcher was built with the    *)
(* first; the second pins another Fabric API, the third the API of the     *)
(* first.                                                                  *)
(***************************************************************************)
EXTENDS ClientUpdate, TLC

CONSTANTS
    p1, p2,
    Servers, Failed, MaxRefreshes, MaxTime, SuccessTTL, BackoffCap,
    Instances, MaxPages, MaxChanges, MaxClicks

VARIABLES
    now, documents, inFlight, started, read, asks, retained, overtaken,
    offered, offer, installed, selected, changes, center, checking, busy, pending, startedUp,
    page, calls, card, approved, done,
    service

serverVars == <<now, documents, inFlight, started, read, asks, retained, overtaken>>
updateVars == <<offered, offer, installed, selected, changes, center, checking, busy, pending,
                startedUp, page, calls, card, approved, done>>

MCApiOf == <<p1, p2, p1>>

Enrichment == INSTANCE ServerEnrichment
Updates == INSTANCE UpdateCenter WITH published <- offered

\* The bounds are numbers, and no value stands for two things.
ASSUME CardBounds == MaxPages \in Nat \ {0} /\ MaxChanges \in Nat /\ MaxClicks \in Nat
ASSUME CardNone ==
    /\ None # Failed /\ None \notin Updates!Ops /\ None \notin Updates!Offer
    /\ None \notin Updates!Overviews /\ Failed \notin Updates!Overviews
    /\ Failed \notin Updates!Previewed
ASSUME ServerBounds ==
    MaxRefreshes \in Nat /\ MaxTime \in Nat /\ SuccessTTL \in Nat /\ BackoffCap \in Nat
ASSUME ServerNone == None \notin Nat /\ None \notin Enrichment!Document

\* What follows does not tell the instances of the card apart.
Interchangeable == Permutations(Instances)

\* The services that are not the one chosen are in one state.
BackgroundInit ==
    /\ service \in {"client", "servers", "updates"}
    /\ Init /\ Enrichment!Init /\ Updates!Init
    /\ service # "client" =>
        /\ pin = 1 /\ published = {1} /\ off = {} /\ ~provided
        /\ mods = [j \in Jars |-> None]
    /\ service # "updates" => offered = 0 /\ offer = None

BackgroundNext ==
    /\ UNCHANGED service
    /\ \/ service = "client" /\ Next /\ UNCHANGED <<serverVars, updateVars>>
       \/ service = "servers" /\ Enrichment!Next /\ UNCHANGED <<vars, updateVars>>
       \/ service = "updates" /\ Updates!Next /\ UNCHANGED <<vars, serverVars>>

Background ==
    BackgroundInit
    /\ [][BackgroundNext]_<<vars, serverVars, updateVars, service>>

\* Concurrent refreshes never ask one server at once, and report what the server
\* answered or that it did not; no domain is updated twice at once or stays
\* blocked, and the update button never waits for nothing nor offers what is
\* not there.
ServicesHold ==
    /\ Enrichment!TypeOK /\ Enrichment!OneQueryPerServer /\ Enrichment!HonestStatus
    /\ Updates!TypeOK /\ Updates!OneAtATime /\ Updates!CardSettles

\* A failed query keeps the look of a server that the cache had when it ended.
KnownGoodKept == Enrichment!KnownGoodKept

\* Only what the user was shown when choosing Update is ever installed.
ApprovedOnly == Updates!ApprovedOnly
=============================================================================
