--------------------------- MODULE ServerEnrichment ---------------------------
(***************************************************************************)
(* What the launcher shows of recently visited servers.  A refresh reads   *)
(* the cached document of every server first, asks those that are neither  *)
(* fresh nor backing off, and writes each document when its answer comes.  *)
(* Refreshes run side by side; a set of the servers being asked keeps two  *)
(* of them from asking the same one at once.                               *)
(***************************************************************************)
EXTENDS Naturals

CONSTANTS
    Servers,
    MaxRefreshes, \* bound: refreshes, named by their turn
    MaxTime,      \* bound: the clock
    SuccessTTL,
    BackoffCap,
    None

Refreshes == 1 .. MaxRefreshes
Times == 0 .. (MaxTime + BackoffCap)

\* A document; known tells whether it holds the look of a server once reached.
Document == [known : BOOLEAN, online : BOOLEAN, saved : Times, failures : Nat, until : Times]

VARIABLES
    now,
    documents, \* the cache on disk
    inFlight,  \* servers being asked
    started,   \* when each refresh read the cache, or None
    read,      \* what each refresh holds of each server
    asks,      \* how far each refresh is with each server
    retained,  \* what a failed query found in the cache: known or not
    overtaken  \* servers a failure was reported of that began before a success

vars == <<now, documents, inFlight, started, read, asks, retained, overtaken>>

Init ==
    /\ now = 0
    /\ documents = [s \in Servers |-> None]
    /\ inFlight = {}
    /\ started = [r \in Refreshes |-> None]
    /\ read = [r \in Refreshes |-> [s \in Servers |-> None]]
    /\ asks = [r \in Refreshes |-> [s \in Servers |-> "none"]]
    /\ retained = [r \in Refreshes |-> [s \in Servers |-> FALSE]]
    /\ overtaken = {}

\* failure_backoff, in units of its base.
Backoff(failures) ==
    LET doubled == <<1, 2, 4, 8, 16, 32>>[IF failures > 6 THEN 6 ELSE failures]
    IN IF doubled > BackoffCap THEN BackoffCap ELSE doubled

\* A fresh answer or a backoff window makes the query unnecessary.
Skip(document) ==
    /\ document # None
    /\ \/ document.online /\ now < document.saved + SuccessTTL
       \/ now < document.until

\* refresh: the documents of all its servers are read before anything is asked.
Start(r, wanted) ==
    /\ started[r] = None
    /\ \A q \in Refreshes : q < r => started[q] # None
    /\ started' = [started EXCEPT ![r] = now]
    /\ read' = [read EXCEPT ![r] = [s \in Servers |-> IF s \in wanted THEN documents[s] ELSE None]]
    /\ asks' = [asks EXCEPT ![r] =
                  [s \in Servers |-> IF s \notin wanted THEN "none"
                                     ELSE IF Skip(documents[s]) THEN "skipped" ELSE "due"]]
    /\ UNCHANGED <<now, documents, inFlight, retained, overtaken>>

Asks(r, s, step) == asks' = [asks EXCEPT ![r][s] = step]

Ask(r, s) ==
    /\ asks[r][s] = "due"
    /\ IF s \in inFlight THEN Asks(r, s, "left") /\ UNCHANGED inFlight
       ELSE inFlight' = inFlight \cup {s} /\ Asks(r, s, "asked")
    /\ UNCHANGED <<now, documents, started, read, retained, overtaken>>

Reach(r, s) ==
    /\ asks[r][s] = "asked"
    /\ inFlight' = inFlight \ {s} /\ Asks(r, s, "reached")
    /\ UNCHANGED <<now, documents, started, read, retained, overtaken>>

\* The query failed; what the cache holds now is kept for the document.
Miss(r, s) ==
    /\ asks[r][s] = "asked"
    /\ inFlight' = inFlight \ {s} /\ Asks(r, s, "missed")
    /\ retained' = [retained EXCEPT ![r][s] = documents[s] # None /\ documents[s].known]
    /\ UNCHANGED <<now, documents, started, read, overtaken>>

\* A document that could not be written is still what this refresh shows.
Save(r, s, document) ==
    /\ read' = [read EXCEPT ![r][s] = document]
    /\ documents' \in {documents, [documents EXCEPT ![s] = document]}
    /\ UNCHANGED <<now, inFlight, started, retained>>

StoreReached(r, s) ==
    /\ asks[r][s] = "reached" /\ Asks(r, s, "online")
    /\ Save(r, s, [known |-> TRUE, online |-> TRUE, saved |-> now, failures |-> 0, until |-> 0])
    \* Failures that read the cache before this answer was stored.
    /\ overtaken' = IF \E q \in Refreshes : asks[q][s] = "missed" /\ ~retained[q][s]
                    THEN overtaken \cup {s} ELSE overtaken

Failures(r, s) == IF read[r][s] = None THEN 1 ELSE read[r][s].failures + 1

\* Mutant: a failed query leaves nothing of what was known.
StoreBlank(r, s) ==
    /\ asks[r][s] = "missed" /\ Asks(r, s, "offline")
    /\ Save(r, s, [known |-> FALSE, online |-> FALSE, saved |-> now, failures |-> Failures(r, s),
                   until |-> now + Backoff(Failures(r, s))])
    /\ UNCHANGED overtaken

StoreMissed(r, s) ==
    /\ asks[r][s] = "missed" /\ Asks(r, s, "offline")
    /\ Save(r, s, [known |-> retained[r][s], online |-> FALSE, saved |-> now,
                   failures |-> Failures(r, s), until |-> now + Backoff(Failures(r, s))])
    /\ UNCHANGED overtaken

Tick ==
    /\ now < MaxTime /\ now' = now + 1
    /\ UNCHANGED <<documents, inFlight, started, read, asks, retained, overtaken>>

\* The launcher ends: what was in flight is gone, the cache stays.
Restart ==
    /\ inFlight' = {}
    /\ asks' = [r \in Refreshes |->
                  [s \in Servers |-> IF started[r] = None THEN "none" ELSE "gone"]]
    /\ UNCHANGED <<now, documents, started, read, retained, overtaken>>

Next ==
    \/ \E r \in Refreshes :
        \/ \E wanted \in SUBSET Servers : Start(r, wanted)
        \/ \E s \in Servers : \/ Ask(r, s) \/ Reach(r, s) \/ Miss(r, s)
                              \/ StoreReached(r, s) \/ StoreMissed(r, s)
    \/ Tick \/ Restart

Spec == Init /\ [][Next]_vars

-----------------------------------------------------------------------------
(* Properties                                                              *)

TypeOK ==
    /\ documents \in [Servers -> Document \cup {None}]
    /\ read \in [Refreshes -> [Servers -> Document \cup {None}]]
    /\ asks \in [Refreshes -> [Servers ->
        {"none", "skipped", "due", "left", "asked", "reached", "missed", "online", "offline",
         "gone"}]]

Asked(s) == {r \in Refreshes : asks[r][s] = "asked"}

\* However refreshes overlap, a server is asked by one of them at a time, and
\* no server stays marked once nobody asks it, which would keep it from ever
\* being asked again.
OneQueryPerServer ==
    \A s \in Servers :
        /\ \A q, r \in Asked(s) : q = r
        /\ s \in inFlight <=> Asked(s) # {}

\* Once a server was reached its look is not lost to a failed refresh
\* (ARCHITECTURE.md: a failed refresh retains the known-good favicon and
\* MOTD), unless the failure had looked into the cache before that answer of
\* another refresh was written.
KnownGoodKept ==
    [][\A s \in Servers : documents[s] # None /\ documents[s].known /\ s \notin overtaken =>
         documents'[s].known]_vars

\* A refresh shows a server online only if it reached it, if an answer was
\* fresh when the refresh began, or if it left the question to another one.
HonestStatus ==
    \A r \in Refreshes, s \in Servers :
        asks[r][s] \in {"skipped", "left", "online", "offline"} /\ read[r][s] # None =>
            (read[r][s].online =>
                asks[r][s] \in {"left", "online"} \/ started[r] < read[r][s].saved + SuccessTTL)
=============================================================================
