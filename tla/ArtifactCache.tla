----------------------------- MODULE ArtifactCache -----------------------------
(***************************************************************************)
(* The content-addressed artifact store.  An acquisition hashes what lies  *)
(* in the slot of its digest, or streams a download into a staging file,   *)
(* verifies the stream and renames the file into the slot.  There is no    *)
(* lock: any number of acquisitions run at once, of one digest or of many, *)
(* and each command has a cache object of its own.  RuntimeInstall runs    *)
(* its downloads through this module.                                      *)
(***************************************************************************)
EXTENDS Naturals, FiniteSets

CONSTANTS
    Files,       \* artifacts, by their published digest
    Hinted,      \* those with a SHA-512, found through the sha512-map
    Workers,     \* commands under way, each with a cache object
    Kinds,       \* what may go wrong: "fault", "spoil" from outside, "crash"
    MaxUpsets,   \* bound: how many times
    None

ASSUME FilesAssumption == IsFiniteSet(Files)
ASSUME HintedAssumption == Hinted \subseteq Files
ASSUME KindsAssumption ==
    MaxUpsets \in Nat /\ Kinds \subseteq {"fault", "spoil", "crash"}
ASSUME NoneAssumption == None \notin Files \cup {"empty", "mixed"}

VARIABLES
    store,       \* the bytes in the slot of each digest
    hints,       \* digests the sha512-map leads to
    parts,       \* the staging files
    named,       \* how many staging files each cache object has named
    acquiring,   \* acquiring[w][f]: the acquisition of f by w
    upsets,      \* how much has gone wrong
    spoiled      \* slots somebody else wrote to, or filled from a shared file

cache == <<store, hints, parts, named>>
cacheVars == <<cache, acquiring, upsets, spoiled>>

\* The bytes of a published file, or some nobody published.
Bytes == Files \cup {None, "empty", "mixed"}

\* Process, millisecond and the counter of the cache object: two cache objects
\* that count alike in one millisecond name the same file.
NamesOf(w) == {<<w, named[w]>>, <<"ms", named[w]>>}
Names == (Workers \cup {"ms"}) \X (0 .. Cardinality(Files))
ASSUME NamesAssumption == Files \cap Names = {} /\ None \notin Names

Running == {"look", "open", "write", "rename", "retry", "remove", "again", "hint"}

\* The steps at which an acquisition has a staging file.
Holding == {"write", "rename", "retry", "remove", "again"}

\* An acquisition: the name of its staging file, the file its stream goes into
\* (None once that is nowhere), and whether another has named the same file.
Acquisition ==
    [step : {"idle", "done", "failed"} \cup Running, name : Names \cup {None},
     into : Names \cup Files \cup {None}, shared : BOOLEAN]
NoAcquisition == [step |-> "idle", name |-> None, into |-> None, shared |-> FALSE]

CacheTypeOK ==
    /\ store \in [Files -> Bytes] /\ hints \subseteq Hinted
    /\ parts \in [Names -> Bytes] /\ named \in [Workers -> 0 .. Cardinality(Files)]
    /\ acquiring \in [Workers -> [Files -> Acquisition]]
    /\ upsets \in 0 .. MaxUpsets /\ spoiled \subseteq Files

CacheInit ==
    /\ store \in [Files -> {None, "mixed"} \cup Files]
    /\ \A f \in Files : store[f] \in {None, "mixed", f}
    /\ spoiled = {f \in Files : store[f] = "mixed"}
    /\ hints = {f \in Hinted : store[f] = f}
    /\ parts = [n \in Names |-> None] /\ named = [w \in Workers |-> 0]
    /\ acquiring = [w \in Workers |-> [f \in Files |-> NoAcquisition]]
    /\ upsets = 0

Upset(kind) == kind \in Kinds /\ upsets < MaxUpsets /\ upsets' = upsets + 1
Fault == Upset("fault")
Calm == UNCHANGED upsets

At(w, f, step) == acquiring[w][f].step = step

\* An acquisition goes on, or is over as far as its staging file goes.
Going(w, f, step) ==
    [acquiring EXCEPT ![w][f] =
        IF step \in Holding THEN [@ EXCEPT !.step = step]
        ELSE [NoAcquisition EXCEPT !.step = step]]
Goes(w, f, step) == acquiring' = Going(w, f, step)

-----------------------------------------------------------------------------
(* One acquisition                                                         *)

\* Hashing the slot, or finding it through the map.
Valid(f) == store[f] = f /\ (f \in Hinted => f \in hints)

Look(w, f) ==
    /\ At(w, f, "look")
    /\ \/ Goes(w, f, IF Valid(f) THEN "done" ELSE "open") /\ Calm
       \/ Goes(w, f, IF f \in Hinted THEN "open" ELSE "failed") /\ Fault
    /\ UNCHANGED <<cache, spoiled>>

\* The acquisitions that have a staging file of that name.
Holders(name) ==
    {h \in Workers \X Files :
        acquiring[h[1]][h[2]].step \in Holding /\ acquiring[h[1]][h[2]].name = name}

\* They share it with one that names it too.
Joined(name) ==
    [v \in Workers |-> [g \in Files |->
        IF <<v, g>> \in Holders(name) THEN [acquiring[v][g] EXCEPT !.shared = TRUE]
        ELSE acquiring[v][g]]]

\* Streams go with the file they are open on, or into nothing.
Moved(them, from, to) ==
    [v \in Workers |-> [g \in Files |->
        IF them[v][g].step = "write" /\ them[v][g].into = from
        THEN [them[v][g] EXCEPT !.into = to] ELSE them[v][g]]]

\* The staging file is created, or emptied when it is there.
Opened(w, f, name) ==
    /\ parts' = [parts EXCEPT ![name] = "empty"]
    /\ acquiring' = [Joined(name) EXCEPT ![w][f] =
            [step |-> "write", name |-> name, into |-> name, shared |-> Holders(name) # {}]]

\* No answer, or no file: what has the name is removed.
Open(w, f) ==
    /\ At(w, f, "open")
    /\ named' = [named EXCEPT ![w] = @ + 1]
    /\ \/ \E name \in NamesOf(w) : Opened(w, f, name) /\ Calm
       \/ \E name \in NamesOf(w) :
            /\ parts' = [parts EXCEPT ![name] = None]
            /\ acquiring' = Moved([Joined(name) EXCEPT ![w][f].step = "failed"], name, None)
            /\ Fault
       \/ Goes(w, f, "failed") /\ Fault /\ UNCHANGED parts
    /\ UNCHANGED <<store, hints, spoiled>>

\* An acquisition removes its staging file by its name.
Discards(w, f, step) ==
    LET name == acquiring[w][f].name
    IN /\ parts' = [parts EXCEPT ![name] = None]
       /\ acquiring' = Moved(Going(w, f, step), name, None)

Onto(bytes, f) == IF bytes \in {"empty", f} THEN f ELSE "mixed"

\* The stream goes into the open file, wherever that has been renamed to, and
\* is verified on its way.
Write(w, f) ==
    LET into == acquiring[w][f].into
    IN /\ At(w, f, "write")
       /\ \/ /\ store' = IF into \in Files THEN [store EXCEPT ![into] = Onto(@, f)] ELSE store
             /\ parts' = IF into \in Names THEN [parts EXCEPT ![into] = Onto(@, f)] ELSE parts
             /\ Goes(w, f, "rename") /\ Calm
          \/ Discards(w, f, "failed") /\ Fault /\ UNCHANGED store
       /\ UNCHANGED <<hints, named, spoiled>>

Promoted(f) == IF f \in Hinted THEN "hint" ELSE "done"

\* The file takes the place of what was in the slot.
Renames(w, f) ==
    LET name == acquiring[w][f].name
    IN /\ parts[name] # None
       /\ store' = [store EXCEPT ![f] = parts[name]]
       /\ parts' = [parts EXCEPT ![name] = None]
       /\ acquiring' = Moved(Moved(Going(w, f, Promoted(f)), f, None), name, f)
       /\ spoiled' = IF acquiring[w][f].shared THEN spoiled \cup {f} ELSE spoiled \ {f}
       /\ UNCHANGED <<hints, named>>

CannotRename(w, f, step) ==
    /\ \/ parts[acquiring[w][f].name] = None /\ Calm
       \/ Fault
    /\ Goes(w, f, step)
    /\ UNCHANGED <<cache, spoiled>>

\* promote.
Rename(w, f) ==
    /\ At(w, f, "rename")
    /\ \/ Renames(w, f) /\ Calm
       \/ CannotRename(w, f, "retry")

\* A rename that failed looks at what is in the slot: somebody else's valid
\* object wins, a corrupt one is removed, an unreadable one is left alone.
Retry(w, f) ==
    /\ At(w, f, "retry")
    /\ \/ store[f] = f /\ Discards(w, f, Promoted(f)) /\ Calm
       \/ store[f] = None /\ Goes(w, f, "again") /\ Calm /\ UNCHANGED parts
       \/ store[f] \notin {f, None} /\ Goes(w, f, "remove") /\ Calm /\ UNCHANGED parts
       \/ Discards(w, f, "failed") /\ Fault
    /\ UNCHANGED <<store, hints, named, spoiled>>

\* Whatever is in the slot by now.
RemoveCorrupt(w, f) ==
    /\ At(w, f, "remove")
    /\ \/ /\ store[f] # None
          /\ store' = [store EXCEPT ![f] = None]
          /\ acquiring' = Moved(Going(w, f, "again"), f, None)
          /\ Calm
       \/ /\ \/ store[f] = None /\ Calm
             \/ Fault
          /\ Goes(w, f, "failed") /\ UNCHANGED store
    /\ UNCHANGED <<hints, parts, named, spoiled>>

RenameAgain(w, f) ==
    /\ At(w, f, "again")
    /\ \/ Renames(w, f) /\ Calm
       \/ CannotRename(w, f, "failed")

\* The sha512-map is written last.
Hint(w, f) ==
    /\ At(w, f, "hint")
    /\ \/ hints' = hints \cup {f} /\ Goes(w, f, "done") /\ Calm
       \/ Goes(w, f, "failed") /\ Fault /\ UNCHANGED hints
    /\ UNCHANGED <<store, parts, named, spoiled>>

Acquire(w, f) ==
    \/ Look(w, f) \/ Open(w, f) \/ Write(w, f) \/ Rename(w, f) \/ Retry(w, f)
    \/ RemoveCorrupt(w, f) \/ RenameAgain(w, f) \/ Hint(w, f)

\* Something else writes to the store.
SpoilStore(f) ==
    /\ Upset("spoil")
    /\ store' = [store EXCEPT ![f] = "mixed"] /\ spoiled' = spoiled \cup {f}
    /\ UNCHANGED <<hints, parts, named, acquiring>>

-----------------------------------------------------------------------------

\* "A store only ever receives complete objects": unless something else wrote
\* to it, or it was last filled from a staging file that two acquisitions named
\* alike, a slot holds the bytes its digest names, whatever acquisitions,
\* failures and promotions overlap.
StoreIsSound == \A f \in Files \ spoiled : store[f] \in {None, f}

=============================================================================
