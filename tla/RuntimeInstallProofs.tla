------------------------- MODULE RuntimeInstallProofs -------------------------
(***************************************************************************)
(* Theorems about RuntimeInstall and the ArtifactCache under it, for any   *)
(* runtimes, artifacts and number of commands, with a failure, a change    *)
(* from outside or a crash at any step.                                    *)
(*                                                                         *)
(* The runtimes need nothing of the cache but that it keeps its types: a   *)
(* tree is marked only after its bytes have been hashed (RInv).  The store *)
(* of digests is sound because an acquisition that shares its staging file *)
(* with no other finds in it what it streamed, and every stream that can   *)
(* still reach a slot came there through a shared file (SInv).             *)
(***************************************************************************)
EXTENDS RuntimeInstall, TLAPS, FiniteSetTheorems

-----------------------------------------------------------------------------
(* The inductive invariant of the runtimes *)

\* A call between its lock and its return.
Inside == Steps \ {"idle", "fetch"}

\* A call is inside exactly while it holds the lock of its runtime.
Held ==
    /\ \A w \in Workers : doing[w].step \in Inside =>
        doing[w].runtime \in Runtimes /\ locks[doing[w].runtime] = w
    /\ \A r \in Runtimes : locks[r] # None =>
        doing[locks[r]].step \in Inside /\ doing[locks[r]].runtime = r

\* Acquisitions run only for the step that waits for them.
Waited ==
    \A w \in Workers : doing[w].step \notin {"acquire", "fetch"} =>
        \A f \in Files : acquiring[w][f].step \notin Running

\* The acquisitions that have not opened a staging file yet.
Unopened(w) == {f \in Files : acquiring[w][f].step \in {"look", "open"}}

\* Where an acquisition is told by what it holds and what it fetches.
Handled ==
    \A w \in Workers, f \in Files :
        /\ acquiring[w][f].step \in Holding => acquiring[w][f].name \in Names
        /\ acquiring[w][f].step = "hint" => f \in Hinted

\* Each acquisition of a call names one file.
Counted == \A w \in Workers : named[w] + Cardinality(Unopened(w)) <= Cardinality(Files)

\* The staged tree of an installation is its own: without a mark while it is
\* copied, and hashed as a whole once it has one.
BuildingAt(w) ==
    LET r == doing[w].runtime
        tree == staging[r].staged
    IN /\ doing[w].step \in {"validate", "acquire", "stage"} => doing[w].copied = {}
       /\ doing[w].step = "copy" =>
            /\ tree # None /\ tree.mark = "none"
            /\ {f \in Files : tree.files[f] # None} = doing[w].copied
       /\ doing[w].step \in {"retire", "promote"} =>
            tree # None /\ tree.mark = "own" /\ Checked(tree, r)
Building == \A w \in Workers : BuildingAt(w)

\* What an installation may replace carries the runtime's mark, until it is
\* moved; there is something to put back only in an exchange.
ExchangeAt(w) ==
    LET r == doing[w].runtime
        old == staging[r].retired
    IN /\ doing[w].step \in {"acquire", "stage", "copy", "retire"} =>
            (root[r] # None => root[r].mark = "own")
       /\ doing[w].step \in {"copy", "retire"} => old = None
       /\ doing[w].step = "retire" => doing[w].replacing
       /\ doing[w].step \in {"promote", "restore"} =>
            /\ old # None => doing[w].replacing
            /\ old # None /\ old.mark = "own" /\ r \notin tampered => Checked(old, r)
       /\ doing[w].step \in {"clean", "final"} => root[r] # None
Exchange == \A w \in Workers : ExchangeAt(w)

\* A marked runtime is whole, unless it was changed from outside.
WholeAt(r) == r \notin tampered /\ root[r] # None /\ root[r].mark = "own" => Ready(r)

\* A tree out of its place is there for an exchange under way to put back.
PutBackAt(r) ==
    r \notin orphaned /\ staging[r].retired # None /\ root[r] = None =>
        /\ locks[r] # None
        /\ doing[locks[r]].step \in {"promote", "restore"} /\ doing[locks[r]].replacing
PutBack == \A r \in Runtimes : PutBackAt(r)

RInv ==
    /\ TypeOK /\ Held /\ Waited /\ Counted /\ Handled
    /\ Building /\ Exchange /\ PutBack /\ \A r \in Runtimes : WholeAt(r)

-----------------------------------------------------------------------------
(* The inductive invariant of the store *)

\* A staging file no other acquisition has named holds what its owner streamed
\* into it; a stream goes into its own file, or has followed it, when it is
\* shared, into a slot known to be spoiled.
OwnedAt(w, f) ==
    LET mine == acquiring[w][f]
    IN /\ mine.step = "write" => mine.into \in {mine.name, None} \cup spoiled
       /\ mine.step \in Holding /\ ~mine.shared =>
            /\ mine.step = "write" => mine.into = mine.name /\ parts[mine.name] = "empty"
            /\ mine.step # "write" => parts[mine.name] = f
            /\ \A v \in Workers, g \in Files :
                <<v, g>> # <<w, f>> /\ acquiring[v][g].step \in Holding =>
                    acquiring[v][g].name # mine.name
Owned == \A w \in Workers, f \in Files : OwnedAt(w, f)

SInv == Owned /\ StoreIsSound

-----------------------------------------------------------------------------
(* Operators *)

\* The number of files of a set of files is a number, and a set inside
\* another has no more.
LEMMA Fewer ==
    ASSUME NEW S \in SUBSET Files, NEW T \in SUBSET S
    PROVE  /\ Cardinality(S) \in Nat /\ Cardinality(T) \in Nat
           /\ Cardinality(T) <= Cardinality(S)
           /\ \A f \in S \ T : Cardinality(T) < Cardinality(S)
<1>1. IsFiniteSet(S)
  BY FilesAssumption, FS_Subset
<1>2. IsFiniteSet(T) /\ Cardinality(T) <= Cardinality(S)
  BY <1>1, FS_Subset
<1>3. Cardinality(S) \in Nat /\ Cardinality(T) \in Nat
  BY <1>1, <1>2, FS_CardinalityType
<1>4. ASSUME NEW f \in S \ T
      PROVE  Cardinality(T) < Cardinality(S)
  <2>1. IsFiniteSet(S \ {f}) /\ Cardinality(S \ {f}) = Cardinality(S) - 1
    BY <1>1, FS_RemoveElement
  <2>2. T \subseteq S \ {f}
    OBVIOUS
  <2>3. Cardinality(T) <= Cardinality(S \ {f})
    BY <2>1, <2>2, FS_Subset
  <2> QED
    BY <1>3, <2>1, <2>3
<1> QED
  BY <1>2, <1>3, <1>4

\* A step of one acquisition changes that one.
LEMMA GoingFacts ==
    ASSUME CacheTypeOK, NEW w \in Workers, NEW f \in Files,
           NEW step \in {"idle", "done", "failed"} \cup Running
    PROVE  /\ Going(w, f, step) \in [Workers -> [Files -> Acquisition]]
           /\ Going(w, f, step)[w][f].step = step
           /\ step \in Holding =>
                /\ Going(w, f, step)[w][f].name = acquiring[w][f].name
                /\ Going(w, f, step)[w][f].into = acquiring[w][f].into
                /\ Going(w, f, step)[w][f].shared = acquiring[w][f].shared
           /\ \A v \in Workers, g \in Files :
                <<v, g>> # <<w, f>> => Going(w, f, step)[v][g] = acquiring[v][g]
<1> DEFINE old == acquiring[w][f]
           new == IF step \in Holding THEN [old EXCEPT !.step = step]
                  ELSE [NoAcquisition EXCEPT !.step = step]
<1>1. old \in Acquisition
  BY DEF CacheTypeOK
<1>2. NoAcquisition \in Acquisition
  BY DEF NoAcquisition, Acquisition
<1>3. /\ new \in Acquisition /\ new.step = step
      /\ step \in Holding => new.name = old.name /\ new.into = old.into /\ new.shared = old.shared
  <2>1. CASE step \in Holding
    BY <1>1, <2>1 DEF Acquisition
  <2>2. CASE step \notin Holding
    BY <1>2, <2>2 DEF Acquisition
  <2> QED
    BY <2>1, <2>2
<1>4. Going(w, f, step) = [acquiring EXCEPT ![w] = [acquiring[w] EXCEPT ![f] = new]]
  BY DEF Going
<1> HIDE DEF new
<1> QED
  BY <1>3, <1>4 DEF CacheTypeOK

\* A file that moves takes the streams into it along, and changes nothing else.
LEMMA MovedFacts ==
    ASSUME NEW them \in [Workers -> [Files -> Acquisition]],
           NEW from, NEW to \in Names \cup Files \cup {None}
    PROVE  /\ Moved(them, from, to) \in [Workers -> [Files -> Acquisition]]
           /\ \A v \in Workers, g \in Files :
                /\ Moved(them, from, to)[v][g].step = them[v][g].step
                /\ Moved(them, from, to)[v][g].name = them[v][g].name
                /\ Moved(them, from, to)[v][g].shared = them[v][g].shared
                /\ Moved(them, from, to)[v][g].into =
                    IF them[v][g].step = "write" /\ them[v][g].into = from THEN to
                    ELSE them[v][g].into
<1> SUFFICES ASSUME NEW v \in Workers, NEW g \in Files
             PROVE  /\ Moved(them, from, to)[v][g] \in Acquisition
                    /\ Moved(them, from, to)[v][g].step = them[v][g].step
                    /\ Moved(them, from, to)[v][g].name = them[v][g].name
                    /\ Moved(them, from, to)[v][g].shared = them[v][g].shared
                    /\ Moved(them, from, to)[v][g].into =
                        IF them[v][g].step = "write" /\ them[v][g].into = from THEN to
                        ELSE them[v][g].into
  BY DEF Moved
<1> DEFINE old == them[v][g]
<1>1. old \in Acquisition
  OBVIOUS
<1>2. Moved(them, from, to)[v][g] =
        IF old.step = "write" /\ old.into = from THEN [old EXCEPT !.into = to] ELSE old
  BY DEF Moved
<1> QED
  BY <1>1, <1>2 DEF Acquisition

\* Naming a file tells those that have named it, and changes nothing else.
LEMMA JoinedFacts ==
    ASSUME CacheTypeOK, NEW name
    PROVE  /\ Joined(name) \in [Workers -> [Files -> Acquisition]]
           /\ \A v \in Workers, g \in Files :
                /\ Joined(name)[v][g].step = acquiring[v][g].step
                /\ Joined(name)[v][g].name = acquiring[v][g].name
                /\ Joined(name)[v][g].into = acquiring[v][g].into
                /\ acquiring[v][g].shared => Joined(name)[v][g].shared
                /\ acquiring[v][g].step \in Holding /\ acquiring[v][g].name = name =>
                    Joined(name)[v][g].shared
<1> SUFFICES ASSUME NEW v \in Workers, NEW g \in Files
             PROVE  /\ Joined(name)[v][g] \in Acquisition
                    /\ Joined(name)[v][g].step = acquiring[v][g].step
                    /\ Joined(name)[v][g].name = acquiring[v][g].name
                    /\ Joined(name)[v][g].into = acquiring[v][g].into
                    /\ acquiring[v][g].shared => Joined(name)[v][g].shared
                    /\ acquiring[v][g].step \in Holding /\ acquiring[v][g].name = name =>
                        Joined(name)[v][g].shared
  BY DEF Joined
<1> DEFINE old == acquiring[v][g]
<1>1. old \in Acquisition
  BY DEF CacheTypeOK
<1>2. (<<v, g>> \in Holders(name)) <=> (old.step \in Holding /\ old.name = name)
  BY DEF Holders
<1>3. Joined(name)[v][g] =
        IF old.step \in Holding /\ old.name = name THEN [old EXCEPT !.shared = TRUE] ELSE old
  BY <1>2 DEF Joined
<1> QED
  BY <1>1, <1>3 DEF Acquisition

\* What a step of one acquisition leaves of the others: their steps and names,
\* and that a file is shared.
Elsewhere(w, f) ==
    \A v \in Workers, g \in Files : <<v, g>> # <<w, f>> =>
        /\ acquiring'[v][g].step = acquiring[v][g].step
        /\ acquiring'[v][g].name = acquiring[v][g].name
        /\ acquiring[v][g].shared => acquiring'[v][g].shared

\* What a step leaves of the acquisition that takes it.
Here(w, f, step) ==
    /\ acquiring' \in [Workers -> [Files -> Acquisition]]
    /\ acquiring'[w][f].step = step
    /\ step \in Holding =>
        /\ acquiring'[w][f].name = acquiring[w][f].name
        /\ acquiring'[w][f].shared = acquiring[w][f].shared
    /\ Elsewhere(w, f)

\* An acquisition that goes on, with the file that takes a new name or none.
LEMMA GoesFacts ==
    ASSUME CacheTypeOK, NEW w \in Workers, NEW f \in Files,
           NEW step \in {"idle", "done", "failed"} \cup Running
    PROVE  /\ Goes(w, f, step) =>
                /\ Here(w, f, step)
                /\ step \in Holding => acquiring'[w][f].into = acquiring[w][f].into
                /\ \A v \in Workers, g \in Files :
                    <<v, g>> # <<w, f>> => acquiring'[v][g] = acquiring[v][g]
           /\ \A from, to \in Names \cup Files \cup {None} :
                acquiring' = Moved(Going(w, f, step), from, to) =>
                    /\ Here(w, f, step)
                    /\ \A v \in Workers, g \in Files : <<v, g>> # <<w, f>> =>
                        acquiring'[v][g].into =
                            IF acquiring[v][g].step = "write" /\ acquiring[v][g].into = from THEN to
                            ELSE acquiring[v][g].into
<1> DEFINE G == Going(w, f, step)
<1>1. /\ G \in [Workers -> [Files -> Acquisition]]
      /\ G[w][f].step = step
      /\ step \in Holding =>
            /\ G[w][f].name = acquiring[w][f].name
            /\ G[w][f].into = acquiring[w][f].into
            /\ G[w][f].shared = acquiring[w][f].shared
      /\ \A v \in Workers, g \in Files : <<v, g>> # <<w, f>> => G[v][g] = acquiring[v][g]
  BY GoingFacts
<1>2. Goes(w, f, step) => acquiring' = G
  BY DEF Goes
<1> HIDE DEF G
<1>3. Goes(w, f, step) =>
                /\ Here(w, f, step)
                /\ step \in Holding => acquiring'[w][f].into = acquiring[w][f].into
                /\ \A v \in Workers, g \in Files :
                    <<v, g>> # <<w, f>> => acquiring'[v][g] = acquiring[v][g]
  BY <1>1, <1>2 DEF Here, Elsewhere
<1>4. ASSUME NEW from \in Names \cup Files \cup {None}, NEW to \in Names \cup Files \cup {None},
             acquiring' = Moved(G, from, to)
      PROVE  /\ Here(w, f, step)
             /\ \A v \in Workers, g \in Files : <<v, g>> # <<w, f>> =>
                    acquiring'[v][g].into =
                        IF acquiring[v][g].step = "write" /\ acquiring[v][g].into = from THEN to
                        ELSE acquiring[v][g].into
  <2>1. /\ acquiring' \in [Workers -> [Files -> Acquisition]]
        /\ \A v \in Workers, g \in Files :
            /\ acquiring'[v][g].step = G[v][g].step
            /\ acquiring'[v][g].name = G[v][g].name
            /\ acquiring'[v][g].shared = G[v][g].shared
            /\ acquiring'[v][g].into =
                IF G[v][g].step = "write" /\ G[v][g].into = from THEN to ELSE G[v][g].into
    BY <1>1, <1>4, MovedFacts
  <2> QED
    BY <1>1, <2>1 DEF Here, Elsewhere
<1> QED
  BY <1>3, <1>4 DEF G

\* A call that goes on opens a file, or none.
LEMMA CountedStep ==
    ASSUME CacheTypeOK, Counted, NEW w \in Workers, NEW f \in Files,
           acquiring' \in [Workers -> [Files -> Acquisition]],
           At(w, f, "open") => acquiring'[w][f].step # "look",
           acquiring'[w][f].step \in {"look", "open"} => acquiring[w][f].step \in {"look", "open"},
           \A v \in Workers, g \in Files :
                <<v, g>> # <<w, f>> => acquiring'[v][g].step = acquiring[v][g].step,
           \/ named' = named
           \/ /\ named' = [named EXCEPT ![w] = @ + 1]
              /\ At(w, f, "open") /\ acquiring'[w][f].step # "open"
    PROVE  Counted' /\ named' \in [Workers -> 0 .. Cardinality(Files)]
<1>1. \A v \in Workers : Unopened(v)' \subseteq Unopened(v)
  BY DEF Unopened
<1>2. \A v \in Workers : Unopened(v) \subseteq Files
  BY DEF Unopened
<1>3. \A v \in Workers :
        /\ Cardinality(Unopened(v)) \in Nat /\ Cardinality(Unopened(v)') \in Nat
        /\ Cardinality(Unopened(v)') <= Cardinality(Unopened(v))
  BY <1>1, <1>2, Fewer
<1>4. Cardinality(Files) \in Nat
  BY FilesAssumption, FS_CardinalityType
<1>5. CASE named' = named
  BY <1>3, <1>4, <1>5 DEF Counted, CacheTypeOK
<1>6. CASE /\ named' = [named EXCEPT ![w] = @ + 1]
           /\ At(w, f, "open") /\ acquiring'[w][f].step # "open"
  <2>1. f \in Unopened(w) /\ f \notin Unopened(w)'
    BY <1>6 DEF Unopened, At
  <2>2. Cardinality(Unopened(w)') < Cardinality(Unopened(w))
    BY <1>1, <1>2, <2>1, Fewer
  <2> QED
    BY <1>3, <1>4, <1>6, <2>2 DEF Counted, CacheTypeOK
<1> QED
  BY <1>5, <1>6

-----------------------------------------------------------------------------
(* Types of the store *)

\* A file name of a call is one of the names.
LEMMA NameTyped ==
    ASSUME CacheTypeOK, NEW w \in Workers
    PROVE  NamesOf(w) \subseteq Names
  BY FilesAssumption, FS_CardinalityType DEF CacheTypeOK, NamesOf, Names

\* What a step of one acquisition leaves of the others.
Apart(w, f) ==
    /\ acquiring[w][f].step \in Running
    /\ \A v \in Workers, g \in Files :
        <<v, g>> # <<w, f>> => acquiring'[v][g].step = acquiring[v][g].step

\* A step that opens no file keeps the types of the acquisitions.
LEMMA GoesTypes ==
    ASSUME CacheTypeOK, Counted, Handled, NEW w \in Workers, NEW f \in Files,
           NEW step \in {"open", "done", "failed", "hint"} \cup Holding, Here(w, f, step),
           acquiring[w][f].step \in Running,
           step = "open" => At(w, f, "look"),
           step = "hint" => f \in Hinted,
           step \in Holding => acquiring[w][f].step \in Holding,
           UNCHANGED named
    PROVE  /\ acquiring' \in [Workers -> [Files -> Acquisition]]
           /\ named' \in [Workers -> 0 .. Cardinality(Files)]
           /\ Counted' /\ Handled' /\ Apart(w, f)
<1>1. /\ acquiring' \in [Workers -> [Files -> Acquisition]]
      /\ acquiring'[w][f].step = step
      /\ step \in Holding => acquiring'[w][f].name = acquiring[w][f].name
      /\ \A v \in Workers, g \in Files : <<v, g>> # <<w, f>> =>
            /\ acquiring'[v][g].step = acquiring[v][g].step
            /\ acquiring'[v][g].name = acquiring[v][g].name
  BY DEF Here, Elsewhere
<1>2. Handled'
  BY <1>1 DEF Handled
<1>3. Counted' /\ named' \in [Workers -> 0 .. Cardinality(Files)]
  BY <1>1, CountedStep DEF At, Holding
<1> QED
  BY <1>1, <1>2, <1>3 DEF Apart

\* The steps by which an acquisition removes or moves its staging file, or
\* clears the slot, seen as steps of that acquisition.
LEMMA TakesFacts ==
    ASSUME CacheTypeOK, Handled, NEW w \in Workers, NEW f \in Files
    PROVE  /\ acquiring[w][f].step \in Holding => acquiring[w][f].name \in Names
           /\ \A step \in {"done", "failed", "hint"} :
                Discards(w, f, step) /\ acquiring[w][f].step \in Holding => Here(w, f, step)
           /\ acquiring' = Moved(Going(w, f, "again"), f, None) => Here(w, f, "again")
           /\ Renames(w, f) /\ acquiring[w][f].step \in Holding => Here(w, f, Promoted(f))
<1>1. acquiring[w][f].step \in Holding => acquiring[w][f].name \in Names
  BY DEF Handled
<1>2. ASSUME NEW step \in {"done", "failed", "hint"}, Discards(w, f, step),
             acquiring[w][f].step \in Holding
      PROVE  Here(w, f, step)
  BY <1>1, <1>2, GoesFacts DEF Discards, Running
<1>3. acquiring' = Moved(Going(w, f, "again"), f, None) => Here(w, f, "again")
  BY GoesFacts DEF Running
<1>4. ASSUME Renames(w, f), acquiring[w][f].step \in Holding
      PROVE  Here(w, f, Promoted(f))
  <2> DEFINE G == Going(w, f, Promoted(f))
             M == Moved(G, f, None)
             name == acquiring[w][f].name
  <2>1. Promoted(f) \in {"done", "hint"}
    BY DEF Promoted
  <2>2. /\ G \in [Workers -> [Files -> Acquisition]] /\ G[w][f].step = Promoted(f)
        /\ \A v \in Workers, g \in Files : <<v, g>> # <<w, f>> => G[v][g] = acquiring[v][g]
    BY <2>1, GoingFacts DEF Running
  <2>3. acquiring' = Moved(M, name, f) /\ name \in Names
    BY <1>1, <1>4 DEF Renames
  <2> HIDE DEF G, name
  <2>4. /\ M \in [Workers -> [Files -> Acquisition]]
        /\ \A v \in Workers, g \in Files :
            M[v][g].step = G[v][g].step /\ M[v][g].name = G[v][g].name
            /\ M[v][g].shared = G[v][g].shared
    BY <2>2, MovedFacts
  <2> HIDE DEF M
  <2>5. /\ acquiring' \in [Workers -> [Files -> Acquisition]]
        /\ \A v \in Workers, g \in Files :
            acquiring'[v][g].step = M[v][g].step /\ acquiring'[v][g].name = M[v][g].name
            /\ acquiring'[v][g].shared = M[v][g].shared
    BY <2>3, <2>4, MovedFacts
  <2> QED
    BY <2>1, <2>2, <2>4, <2>5 DEF Here, Elsewhere, Holding
<1> QED
  BY <1>1, <1>2, <1>3, <1>4

\* Every step of an acquisition keeps the types of the store, the count of its
\* files, and the steps of the other acquisitions.
LEMMA AcquireTypes ==
    ASSUME CacheTypeOK, Counted, Handled, NEW w \in Workers, NEW f \in Files, Acquire(w, f)
    PROVE  CacheTypeOK' /\ Counted' /\ Handled' /\ Apart(w, f)
<1>0. upsets' \in 0 .. MaxUpsets
  <2>1. Look(w, f) \/ Open(w, f) \/ Write(w, f) \/ Hint(w, f) => Calm \/ Fault
    BY DEF Look, Open, Write, Hint
  <2>2. Rename(w, f) \/ RenameAgain(w, f) \/ Retry(w, f) \/ RemoveCorrupt(w, f) =>
            Calm \/ Fault
    BY DEF Rename, CannotRename, RenameAgain, Retry, RemoveCorrupt
  <2>3. Calm \/ Fault
    BY <2>1, <2>2 DEF Acquire
  <2> QED
    BY <2>3, KindsAssumption DEF CacheTypeOK, Calm, Fault, Upset
<1> USE DEF Upset, Fault, Calm, At
<1>1. CASE Look(w, f)
  <2>1. PICK step \in {"done", "open", "failed"} : Goes(w, f, step)
    BY <1>1 DEF Look
  <2>2. UNCHANGED <<store, hints, parts, named, spoiled>> /\ acquiring[w][f].step = "look"
    BY <1>1 DEF Look, cache
  <2>3. step \in {"open", "done", "failed", "hint"} \cup Holding /\ Here(w, f, step)
    BY <2>1, GoesFacts DEF Holding, Running
  <2>4. /\ acquiring' \in [Workers -> [Files -> Acquisition]]
        /\ named' \in [Workers -> 0 .. Cardinality(Files)]
        /\ Counted' /\ Handled' /\ Apart(w, f)
    BY <2>1, <2>2, <2>3, GoesTypes DEF Running, Holding
  <2> QED
    BY <1>0, <2>2, <2>4 DEF CacheTypeOK
<1>2. CASE Open(w, f)
  <2>2. UNCHANGED <<store, hints, spoiled>> /\ acquiring[w][f].step = "open"
    BY <1>2 DEF Open
  <2>3. /\ parts' \in [Names -> Bytes]
        /\ acquiring' \in [Workers -> [Files -> Acquisition]]
        /\ acquiring'[w][f].step \in {"failed", "write"}
        /\ acquiring'[w][f].step = "write" => acquiring'[w][f].name \in Names
        /\ Elsewhere(w, f)
    <3>1. CASE Goes(w, f, "failed") /\ UNCHANGED parts
      BY <3>1, GoesFacts DEF Here, CacheTypeOK, Running
    <3>2. CASE \E name \in NamesOf(w) : Opened(w, f, name)
      <4>1. PICK name \in Names : Opened(w, f, name)
        BY <3>2, NameTyped
      <4> DEFINE J == Joined(name)
                 alike == Holders(name) # {}
                 new == [step |-> "write", name |-> name, into |-> name, shared |-> alike]
      <4>2. /\ J \in [Workers -> [Files -> Acquisition]]
            /\ \A v \in Workers, g \in Files :
                /\ J[v][g].step = acquiring[v][g].step
                /\ J[v][g].name = acquiring[v][g].name
                /\ acquiring[v][g].shared => J[v][g].shared
        BY JoinedFacts
      <4>3. alike \in BOOLEAN
        OBVIOUS
      <4> HIDE DEF J, alike
      <4>4. new \in Acquisition /\ new.step = "write" /\ new.name = name
        BY <4>3 DEF Acquisition, Running
      <4>5. /\ acquiring' = [J EXCEPT ![w] = [J[w] EXCEPT ![f] = new]]
            /\ parts' = [parts EXCEPT ![name] = "empty"]
        BY <4>1 DEF Opened, J, alike
      <4> HIDE DEF new
      <4>6. /\ acquiring' \in [Workers -> [Files -> Acquisition]] /\ acquiring'[w][f] = new
            /\ \A v \in Workers, g \in Files : <<v, g>> # <<w, f>> => acquiring'[v][g] = J[v][g]
        BY <4>2, <4>4, <4>5
      <4>7. parts' \in [Names -> Bytes]
        BY <4>5 DEF CacheTypeOK, Bytes
      <4> QED
        BY <4>2, <4>4, <4>6, <4>7 DEF Elsewhere
    <3>3. CASE \E name \in NamesOf(w) :
                /\ parts' = [parts EXCEPT ![name] = None]
                /\ acquiring' = Moved([Joined(name) EXCEPT ![w][f].step = "failed"], name, None)
      <4>1. PICK name \in Names :
                /\ parts' = [parts EXCEPT ![name] = None]
                /\ acquiring' = Moved([Joined(name) EXCEPT ![w][f].step = "failed"], name, None)
        BY <3>3, NameTyped
      <4> DEFINE J == Joined(name)
                 new == [J[w][f] EXCEPT !.step = "failed"]
                 K == [J EXCEPT ![w][f].step = "failed"]
      <4>2. /\ J \in [Workers -> [Files -> Acquisition]]
            /\ \A v \in Workers, g \in Files :
                /\ J[v][g].step = acquiring[v][g].step
                /\ J[v][g].name = acquiring[v][g].name
                /\ acquiring[v][g].shared => J[v][g].shared
        BY JoinedFacts
      <4> HIDE DEF J
      <4>3. new \in Acquisition /\ new.step = "failed"
        <5>1. J[w][f] \in Acquisition
          BY <4>2
        <5> QED
          BY <5>1 DEF Acquisition
      <4>4. K = [J EXCEPT ![w] = [J[w] EXCEPT ![f] = new]]
        OBVIOUS
      <4> HIDE DEF new, K
      <4>5. /\ K \in [Workers -> [Files -> Acquisition]] /\ K[w][f].step = "failed"
            /\ \A v \in Workers, g \in Files : <<v, g>> # <<w, f>> => K[v][g] = J[v][g]
        BY <4>2, <4>3, <4>4
      <4>6. acquiring' = Moved(K, name, None)
        BY <4>1 DEF K, J
      <4>7. /\ acquiring' \in [Workers -> [Files -> Acquisition]]
            /\ \A v \in Workers, g \in Files :
                acquiring'[v][g].step = K[v][g].step /\ acquiring'[v][g].name = K[v][g].name
                /\ acquiring'[v][g].shared = K[v][g].shared
        BY <4>5, <4>6, MovedFacts
      <4>8. parts' \in [Names -> Bytes]
        BY <4>1 DEF CacheTypeOK, Bytes
      <4>9. acquiring'[w][f].step = "failed"
        BY <4>5, <4>7
      <4>10. Elsewhere(w, f)
        <5> SUFFICES ASSUME NEW v \in Workers, NEW g \in Files, <<v, g>> # <<w, f>>
                     PROVE  /\ acquiring'[v][g].step = acquiring[v][g].step
                            /\ acquiring'[v][g].name = acquiring[v][g].name
                            /\ acquiring[v][g].shared => acquiring'[v][g].shared
          BY DEF Elsewhere
        <5>1. K[v][g] = J[v][g]
          BY <4>5
        <5> QED
          BY <4>2, <4>7, <5>1
      <4> QED
        BY <4>7, <4>8, <4>9, <4>10
    <3> QED
      BY <1>2, <3>1, <3>2, <3>3 DEF Open
  <2>5. named' = [named EXCEPT ![w] = @ + 1]
    BY <1>2 DEF Open
  <2>6. Counted' /\ named' \in [Workers -> 0 .. Cardinality(Files)]
    <3>1. /\ acquiring'[w][f].step \notin {"look", "open"}
          /\ \A v \in Workers, g \in Files :
                <<v, g>> # <<w, f>> => acquiring'[v][g].step = acquiring[v][g].step
      BY <2>3 DEF Elsewhere
    <3>2. acquiring' \in [Workers -> [Files -> Acquisition]]
      BY <2>3
    <3> QED
      BY <2>2, <2>5, <3>1, <3>2, CountedStep
  <2>7. Handled'
    BY <2>3 DEF Handled, Holding, Elsewhere
  <2>8. Apart(w, f)
    BY <2>2, <2>3 DEF Apart, Running, Elsewhere
  <2> QED
    BY <1>0, <2>2, <2>3, <2>6, <2>7, <2>8 DEF CacheTypeOK
<1>3. CASE Write(w, f)
  <2>2. UNCHANGED <<hints, named, spoiled>> /\ acquiring[w][f].step = "write"
    BY <1>3 DEF Write
  <2>1. PICK step \in {"rename", "failed"} : Here(w, f, step)
    BY <1>3, <2>2, GoesFacts, TakesFacts DEF Write, Holding, Running
  <2>3. step \in {"open", "done", "failed", "hint"} \cup Holding
    BY DEF Holding
  <2>4. /\ acquiring' \in [Workers -> [Files -> Acquisition]]
        /\ named' \in [Workers -> 0 .. Cardinality(Files)]
        /\ Counted' /\ Handled' /\ Apart(w, f)
    BY <2>1, <2>2, <2>3, GoesTypes DEF Running, Holding
  <2>5. \A bytes : Onto(bytes, f) \in Bytes
    BY DEF Onto, Bytes
  <2>6. store' \in [Files -> Bytes] /\ parts' \in [Names -> Bytes]
    BY <1>3, <2>5 DEF Write, Discards, CacheTypeOK, Bytes
  <2> QED
    BY <1>0, <2>2, <2>4, <2>6 DEF CacheTypeOK
<1>4. CASE Renames(w, f) /\ Calm /\ acquiring[w][f].step \in {"rename", "again"}
  <2>1. UNCHANGED <<hints, named>> /\ spoiled' \subseteq Files
    BY <1>4 DEF Renames, CacheTypeOK
  <2>2. store' \in [Files -> Bytes] /\ parts' \in [Names -> Bytes]
    <3>1. acquiring[w][f].name \in Names
      BY <1>4 DEF Handled, Holding
    <3>2. parts[acquiring[w][f].name] \in Bytes
      BY <3>1 DEF CacheTypeOK
    <3> QED
      BY <1>4, <3>1, <3>2 DEF Renames, CacheTypeOK, Bytes
  <2>3. Here(w, f, Promoted(f))
    BY <1>4, TakesFacts DEF Holding
  <2>4. Promoted(f) = "done" \/ (Promoted(f) = "hint" /\ f \in Hinted)
    BY DEF Promoted
  <2>5. /\ acquiring' \in [Workers -> [Files -> Acquisition]]
        /\ named' \in [Workers -> 0 .. Cardinality(Files)]
        /\ Counted' /\ Handled' /\ Apart(w, f)
    BY <1>4, <2>1, <2>3, <2>4, GoesTypes DEF Running, Holding
  <2> QED
    BY <1>0, <2>1, <2>2, <2>5 DEF CacheTypeOK
<1>5. CASE /\ CannotRename(w, f, "retry") \/ CannotRename(w, f, "failed")
           /\ acquiring[w][f].step \in {"rename", "again"}
  <2>1. PICK step \in {"retry", "failed"} : Here(w, f, step)
    BY <1>5, GoesFacts DEF CannotRename, Running
  <2>2. UNCHANGED <<store, hints, parts, named, spoiled>>
    BY <1>5 DEF CannotRename, cache
  <2>3. step \in {"open", "done", "failed", "hint"} \cup Holding
    BY DEF Holding
  <2>4. /\ acquiring' \in [Workers -> [Files -> Acquisition]]
        /\ named' \in [Workers -> 0 .. Cardinality(Files)]
        /\ Counted' /\ Handled' /\ Apart(w, f)
    BY <1>5, <2>1, <2>2, <2>3, GoesTypes DEF Running, Holding
  <2> QED
    BY <1>0, <2>2, <2>4 DEF CacheTypeOK
<1>6. CASE Retry(w, f)
  <2>2. UNCHANGED <<store, hints, named, spoiled>> /\ acquiring[w][f].step = "retry"
    BY <1>6 DEF Retry
  <2>3. \A step \in {Promoted(f)} : step = "done" \/ (step = "hint" /\ f \in Hinted)
    BY DEF Promoted
  <2>1. PICK step \in {Promoted(f), "again", "remove", "failed"} : Here(w, f, step)
    BY <1>6, <2>2, <2>3, GoesFacts, TakesFacts DEF Retry, Holding, Running
  <2>4. /\ acquiring' \in [Workers -> [Files -> Acquisition]]
        /\ named' \in [Workers -> 0 .. Cardinality(Files)]
        /\ Counted' /\ Handled' /\ Apart(w, f)
    <3>1. step \in {"open", "done", "failed", "hint"} \cup Holding
      BY <2>3 DEF Holding
    <3> QED
      BY <2>1, <2>2, <2>3, <3>1, GoesTypes DEF Running, Holding
  <2>5. parts' \in [Names -> Bytes]
    BY <1>6 DEF Retry, Discards, CacheTypeOK, Bytes
  <2> QED
    BY <1>0, <2>2, <2>4, <2>5 DEF CacheTypeOK
<1>7. CASE RemoveCorrupt(w, f)
  <2>2. UNCHANGED <<parts, hints, named, spoiled>> /\ acquiring[w][f].step = "remove"
    BY <1>7 DEF RemoveCorrupt
  <2>1. PICK step \in {"again", "failed"} : Here(w, f, step)
    BY <1>7, GoesFacts, TakesFacts DEF RemoveCorrupt, Running
  <2>3. step \in {"open", "done", "failed", "hint"} \cup Holding
    BY DEF Holding
  <2>4. /\ acquiring' \in [Workers -> [Files -> Acquisition]]
        /\ named' \in [Workers -> 0 .. Cardinality(Files)]
        /\ Counted' /\ Handled' /\ Apart(w, f)
    BY <2>1, <2>2, <2>3, GoesTypes DEF Running, Holding
  <2>5. store' \in [Files -> Bytes]
    BY <1>7 DEF RemoveCorrupt, CacheTypeOK, Bytes
  <2> QED
    BY <1>0, <2>2, <2>4, <2>5 DEF CacheTypeOK
<1>8. CASE Hint(w, f)
  <2>1. PICK step \in {"done", "failed"} : Here(w, f, step)
    BY <1>8, GoesFacts DEF Hint, Running
  <2>2. UNCHANGED <<store, parts, named, spoiled>> /\ acquiring[w][f].step = "hint"
    BY <1>8 DEF Hint
  <2>3. step \in {"open", "done", "failed", "hint"} \cup Holding
    BY DEF Holding
  <2>4. /\ acquiring' \in [Workers -> [Files -> Acquisition]]
        /\ named' \in [Workers -> 0 .. Cardinality(Files)]
        /\ Counted' /\ Handled' /\ Apart(w, f)
    BY <2>1, <2>2, <2>3, GoesTypes DEF Running, Holding
  <2>5. hints' \subseteq Hinted
    BY <1>8, <2>2 DEF Hint, CacheTypeOK, Handled
  <2> QED
    BY <1>0, <2>2, <2>4, <2>5 DEF CacheTypeOK
<1> QED
  BY <1>1, <1>2, <1>3, <1>4, <1>5, <1>6, <1>7, <1>8 DEF Acquire, Rename, RenameAgain

-----------------------------------------------------------------------------
(* The runtimes: one installation at a time                                *)

\* A step of a call at its own runtime keeps the invariant when it does there.
LEMMA LocalStep ==
    ASSUME RInv, NEW w \in Workers, NEW r \in Runtimes,
           \/ doing[w].step \in Inside /\ doing[w].runtime = r
           \/ doing[w].step = "idle" /\ locks[r] = None,
           TypeOK', Waited', Counted', Handled',
           \A v \in Workers \ {w} : doing'[v] = doing[v],
           \A q \in Runtimes \ {r} :
                /\ locks'[q] = locks[q] /\ root'[q] = root[q] /\ staging'[q] = staging[q]
                /\ (q \in tampered') = (q \in tampered)
                /\ (q \in orphaned') = (q \in orphaned),
           \/ doing'[w] = Idle /\ locks'[r] = None
           \/ doing'[w].step \in Inside /\ doing'[w].runtime = r /\ locks'[r] = w,
           BuildingAt(w)', ExchangeAt(w)', WholeAt(r)', PutBackAt(r)'
    PROVE  RInv'
<1>1. \A v \in Workers \ {w} : doing[v].step \in Inside => doing[v].runtime \in Runtimes \ {r}
  BY WorkersAssumption DEF RInv, Held
<1>2. \A q \in Runtimes \ {r} : locks[q] # w
  BY WorkersAssumption DEF RInv, Held, Inside
<1>3. Held'
  <2>1. \A v \in Workers : doing'[v].step \in Inside =>
            doing'[v].runtime \in Runtimes /\ locks'[doing'[v].runtime] = v
    BY <1>1 DEF RInv, Held, Idle, Inside
  <2>2. \A q \in Runtimes : locks'[q] # None =>
            doing'[locks'[q]].step \in Inside /\ doing'[locks'[q]].runtime = q
    BY <1>2 DEF RInv, Held, TypeOK
  <2> QED
    BY <2>1, <2>2 DEF Held
<1>4. \A v \in Workers \ {w} : BuildingAt(v)'
  BY <1>1 DEF RInv, Building, BuildingAt, Inside, Steps, Checked
<1>5. \A v \in Workers \ {w} : ExchangeAt(v)'
  BY <1>1 DEF RInv, Exchange, ExchangeAt, Inside, Steps, Checked
<1>6. \A q \in Runtimes \ {r} : WholeAt(q)'
  BY DEF RInv, WholeAt, Ready
<1>7. \A q \in Runtimes \ {r} : PutBackAt(q)'
  BY <1>2 DEF RInv, PutBack, PutBackAt, TypeOK
<1> QED
  BY <1>3, <1>4, <1>5, <1>6, <1>7 DEF RInv, Building, Exchange, PutBack

\* A call that goes on.
LEMMA GotoFacts ==
    ASSUME TypeOK, NEW w \in Workers, NEW step \in Steps, Goto(w, step)
    PROVE  /\ doing' \in [Workers -> Doings]
           /\ doing'[w].step = step /\ doing'[w].runtime = doing[w].runtime
           /\ doing'[w].replacing = doing[w].replacing /\ doing'[w].copied = doing[w].copied
           /\ \A v \in Workers \ {w} : doing'[v] = doing[v]
<1> DEFINE new == [doing[w] EXCEPT !.step = step]
<1>1. doing[w] \in Doings
  BY DEF TypeOK
<1>2. /\ new \in Doings /\ new.step = step /\ new.runtime = doing[w].runtime
      /\ new.replacing = doing[w].replacing /\ new.copied = doing[w].copied
  BY <1>1 DEF Doings
<1>3. doing' = [doing EXCEPT ![w] = new]
  BY DEF Goto
<1> HIDE DEF new
<1> QED
  BY <1>2, <1>3 DEF TypeOK

\* A call that returns.
LEMMA ReturnFacts ==
    ASSUME TypeOK, NEW w \in Workers, doing[w].runtime \in Runtimes, Returns(w)
    PROVE  /\ doing' \in [Workers -> Doings] /\ doing'[w] = Idle
           /\ \A v \in Workers \ {w} : doing'[v] = doing[v]
           /\ locks' \in [Runtimes -> Workers \cup {None}] /\ locks'[doing[w].runtime] = None
           /\ \A q \in Runtimes \ {doing[w].runtime} : locks'[q] = locks[q]
<1>1. Idle \in Doings
  BY DEF Idle, Doings, Steps
<1> QED
  BY <1>1 DEF TypeOK, Returns

\* Where nothing is downloaded, the store and its acquisitions stay typed.
LEMMA CacheRestsStep ==
    ASSUME RInv, NEW w \in Workers, doing[w].step \notin {"acquire", "fetch"},
           CacheRests, UNCHANGED acquiring, upsets' \in 0 .. MaxUpsets,
           \A v \in Workers \ {w} : doing'[v] = doing[v]
    PROVE  CacheTypeOK' /\ Counted' /\ Handled' /\ Waited'
<1>1. UNCHANGED <<store, hints, parts, named, spoiled, acquiring>>
  BY DEF CacheRests, cache
<1> QED
  BY <1>1 DEF RInv, TypeOK, CacheTypeOK, Counted, Unopened, Handled, Waited

\* A call returns, and has put back what there was to put back.
LEMMA ReturnStep ==
    ASSUME RInv, NEW w \in Workers, doing[w].step \in Inside, Returns(w),
           CacheTypeOK', Counted', Handled', Waited',
           UNCHANGED <<root, staging, calls, tampered, orphaned>>,
           \/ doing[w].step \notin {"promote", "restore"}
           \/ staging[doing[w].runtime].retired = None
    PROVE  RInv'
<1>1. PICK r \in Runtimes : TypeOK /\ r = doing[w].runtime /\ locks[r] = w
  BY DEF RInv, Held
<1>2. /\ doing' \in [Workers -> Doings] /\ doing'[w] = Idle
      /\ \A v \in Workers \ {w} : doing'[v] = doing[v]
      /\ locks' \in [Runtimes -> Workers \cup {None}] /\ locks'[r] = None
      /\ \A q \in Runtimes \ {r} : locks'[q] = locks[q]
  BY <1>1, ReturnFacts
<1>3. TypeOK'
  BY <1>1, <1>2 DEF TypeOK
<1>4. BuildingAt(w)' /\ ExchangeAt(w)'
  BY <1>2 DEF BuildingAt, ExchangeAt, Idle
<1>5. WholeAt(r)'
  BY <1>1 DEF RInv, WholeAt, Ready
<1>6. PutBackAt(r)'
  BY <1>1, <1>2 DEF RInv, PutBack, PutBackAt
<1> QED
  BY <1>1, <1>2, <1>3, <1>4, <1>5, <1>6, LocalStep

\* A call begins its acquisitions, with a cache object of its own, or lets go
\* of those that are over.
LEMMA CallsCache ==
    ASSUME CacheTypeOK, Counted, Handled, NEW w \in Workers,
           NEW F \in [Files -> Acquisition],
           \A f \in Files : F[f].step \notin Holding \cup {"hint"},
           acquiring' = [acquiring EXCEPT ![w] = F],
           \/ named' = [named EXCEPT ![w] = 0]
           \/ named' = named /\ \A f \in Files : F[f].step = "idle",
           UNCHANGED <<store, hints, parts, spoiled, upsets>>
    PROVE  CacheTypeOK' /\ Counted' /\ Handled'
<1>1. Cardinality(Files) \in Nat
  BY FilesAssumption, FS_CardinalityType
<1>2. CacheTypeOK'
  BY <1>1 DEF CacheTypeOK
<1>3. \A v \in Workers, f \in Files :
        acquiring'[v][f] = IF v = w THEN F[f] ELSE acquiring[v][f]
  BY DEF CacheTypeOK
<1>4. Handled'
  BY <1>3 DEF Handled
<1>5. Unopened(w)' \in SUBSET Files
  BY DEF Unopened
<1>6. named'[w] + Cardinality(Unopened(w)') <= Cardinality(Files)
  <2>1. CASE named' = [named EXCEPT ![w] = 0]
    <3>1. named'[w] = 0
      BY <2>1 DEF CacheTypeOK
    <3> QED
      BY <1>1, <1>5, <3>1, Fewer
  <2>2. CASE named' = named /\ \A f \in Files : F[f].step = "idle"
    <3>1. Unopened(w)' = {}
      BY <1>3, <2>2 DEF Unopened
    <3> QED
      BY <1>1, <2>2, <3>1, FS_EmptySet DEF CacheTypeOK
  <2> QED
    BY <2>1, <2>2
<1>7. \A v \in Workers \ {w} : Unopened(v)' = Unopened(v) /\ named'[v] = named[v]
  BY <1>3 DEF Unopened, CacheTypeOK
<1> QED
  BY <1>2, <1>4, <1>6, <1>7 DEF Counted

-----------------------------------------------------------------------------
(* The runtimes: the steps                                                 *)

LEMMA EnterStep ==
    ASSUME RInv, NEW w \in Workers, NEW r \in Runtimes, Enter(w, r)
    PROVE  RInv'
<1>1. doing[w].step = "idle" /\ UNCHANGED <<root, staging, tampered, orphaned>>
  BY DEF Enter
<1>2. CASE locks[r] = None
  <2> DEFINE new == [step |-> "validate", runtime |-> r, replacing |-> FALSE, copied |-> {}]
  <2>1. /\ locks' = [locks EXCEPT ![r] = w] /\ doing' = [doing EXCEPT ![w] = new]
        /\ new \in Doings
    BY <1>2 DEF Enter, Idle, Doings, Steps
  <2>2. doing'[w] = new /\ locks'[r] = w
    BY <2>1 DEF RInv, TypeOK
  <2>3. CacheTypeOK' /\ Counted' /\ Handled' /\ Waited'
    <3>1. upsets' \in 0 .. MaxUpsets
      BY DEF Enter, Calm, RInv, TypeOK, CacheTypeOK
    <3>2. CacheRests /\ UNCHANGED acquiring
      BY DEF Enter
    <3>3. \A v \in Workers \ {w} : doing'[v] = doing[v]
      BY <2>1 DEF RInv, TypeOK
    <3> QED
      BY <1>1, <3>1, <3>2, <3>3, CacheRestsStep
  <2>4. TypeOK'
    BY <1>1, <2>1, <2>3, CallsAssumption DEF Enter, RInv, TypeOK
  <2>5. BuildingAt(w)' /\ ExchangeAt(w)' /\ WholeAt(r)'
    BY <1>1, <2>2 DEF RInv, BuildingAt, ExchangeAt, WholeAt, Ready
  <2>6. PutBackAt(r)'
    BY <1>1, <1>2, <2>2 DEF RInv, PutBack, PutBackAt
  <2>7. doing'[w].step \in Inside /\ doing'[w].runtime = r
    BY <2>2 DEF Inside, Steps
  <2> QED
    BY <1>1, <1>2, <2>1, <2>2, <2>3, <2>4, <2>5, <2>6, <2>7, LocalStep DEF RInv, TypeOK
<1>3. CASE locks[r] # None
  <2>1. UNCHANGED <<locks, doing, store, hints, parts, named, spoiled, acquiring, upsets>>
    BY <1>3 DEF Enter, CacheRests, cache, Calm
  <2>2. calls' \in 0 .. Calls
    BY CallsAssumption DEF Enter, RInv, TypeOK
  <2> QED
    BY <1>1, <2>1, <2>2 DEF RInv, TypeOK, CacheTypeOK, Held, Waited, Counted, Unopened, Handled,
       Building, BuildingAt, Exchange, ExchangeAt, PutBack, PutBackAt, WholeAt, Ready
<1> QED
  BY <1>2, <1>3

LEMMA ValidateStep ==
    ASSUME RInv, NEW w \in Workers, Validate(w)
    PROVE  RInv'
<1>1. PICK r \in Runtimes : TypeOK /\ r = doing[w].runtime /\ locks[r] = w
  BY DEF RInv, Held, Validate, Inside, Steps
<1>2. /\ doing[w].step = "validate" /\ "validate" \in Inside
      /\ UNCHANGED <<store, hints, parts, spoiled, root, staging, calls, tampered, orphaned>>
  BY DEF Validate, Inside, Steps
<1>3. CASE Returns(w) /\ UNCHANGED <<acquiring, named>>
  <2>1. upsets' \in 0 .. MaxUpsets
    BY KindsAssumption DEF Validate, Calm, Fault, Upset, RInv, TypeOK, CacheTypeOK
  <2>2. \A v \in Workers \ {w} : doing'[v] = doing[v]
    BY <1>1, <1>3, ReturnFacts
  <2>3. CacheTypeOK' /\ Counted' /\ Handled' /\ Waited'
    BY <1>2, <1>3, <2>1, <2>2, CacheRestsStep DEF CacheRests, cache
  <2> QED
    BY <1>2, <1>3, <2>3, ReturnStep
<1>4. CASE /\ ~Ready(r) /\ Replaceable(r)
           /\ doing' = [doing EXCEPT ![w].step = "acquire", ![w].replacing = root[r] # None]
           /\ acquiring' = [acquiring EXCEPT ![w] = [f \in Files |->
                    IF f \in Plan[r] THEN [NoAcquisition EXCEPT !.step = "look"]
                    ELSE NoAcquisition]]
           /\ named' = [named EXCEPT ![w] = 0]
           /\ Calm /\ UNCHANGED locks
  <2>1. /\ doing' \in [Workers -> Doings] /\ doing'[w].step = "acquire"
        /\ doing'[w].runtime = r /\ doing'[w].copied = doing[w].copied
        /\ \A v \in Workers \ {w} : doing'[v] = doing[v]
    <3>0. PICK found \in BOOLEAN : found = (root[r] # None)
      OBVIOUS
    <3> DEFINE new == [doing[w] EXCEPT !.step = "acquire", !.replacing = found]
    <3>1. doing[w] \in Doings
      BY <1>1 DEF TypeOK
    <3>2. /\ new \in Doings /\ new.step = "acquire" /\ new.runtime = r
          /\ new.copied = doing[w].copied
      BY <1>1, <3>1 DEF Doings, Steps
    <3>3. doing' = [doing EXCEPT ![w] = new]
      BY <1>4, <3>0
    <3> HIDE DEF new
    <3> QED
      BY <1>1, <3>2, <3>3 DEF TypeOK
  <2>2. CacheTypeOK' /\ Counted' /\ Handled'
    <3> DEFINE new == [NoAcquisition EXCEPT !.step = "look"]
               F == [f \in Files |-> IF f \in Plan[r] THEN new ELSE NoAcquisition]
    <3>1. F \in [Files -> Acquisition] /\ \A f \in Files : F[f].step \notin Holding \cup {"hint"}
      BY DEF Acquisition, NoAcquisition, Running, Holding
    <3>2. acquiring' = [acquiring EXCEPT ![w] = F]
      BY <1>4
    <3> HIDE DEF F
    <3> QED
      BY <1>1, <1>2, <1>4, <3>1, <3>2, CallsCache DEF RInv, TypeOK, Calm
  <2>3. Waited'
    BY <1>4, <2>1 DEF RInv, Waited, TypeOK, CacheTypeOK
  <2>4. TypeOK'
    BY <1>1, <1>2, <1>4, <2>1, <2>2 DEF TypeOK
  <2>5. BuildingAt(w)' /\ ExchangeAt(w)'
    BY <1>2, <1>4, <2>1 DEF RInv, Building, BuildingAt, ExchangeAt, Replaceable
  <2>6. WholeAt(r)' /\ PutBackAt(r)'
    BY <1>1, <1>2, <1>4, <2>1 DEF RInv, WholeAt, Ready, PutBack, PutBackAt
  <2>7. "acquire" \in Inside
    BY DEF Inside, Steps
  <2> QED
    BY <1>1, <1>2, <1>4, <2>1, <2>2, <2>3, <2>4, <2>5, <2>6, <2>7, LocalStep
<1> QED
  BY <1>1, <1>3, <1>4 DEF Validate

\* What a step inside a call starts from.
LEMMA InsideFacts ==
    ASSUME RInv, NEW w \in Workers, doing[w].step \in Inside
    PROVE  /\ TypeOK /\ doing[w] \in Doings
           /\ \E r \in Runtimes : r = doing[w].runtime /\ locks[r] = w
  BY DEF RInv, Held, TypeOK

LEMMA AcquiredStep ==
    ASSUME RInv, NEW w \in Workers, Acquired(w)
    PROVE  RInv'
<1>1. doing[w].step = "acquire" /\ "acquire" \in Inside /\ "stage" \in Inside
  BY DEF Acquired, Inside, Steps
<1>2. PICK r \in Runtimes : TypeOK /\ r = doing[w].runtime /\ locks[r] = w
  BY <1>1, InsideFacts
<1>3. /\ UNCHANGED <<store, hints, parts, named, spoiled, root, staging, calls, tampered, orphaned>>
      /\ UNCHANGED upsets
  BY DEF Acquired, CacheRests, cache, Calm
<1>4. CacheTypeOK' /\ Counted' /\ Handled'
  <2> DEFINE F == [f \in Files |-> [step |-> "idle", name |-> None, into |-> None, shared |-> FALSE]]
  <2>1. F \in [Files -> Acquisition] /\ \A f \in Files : F[f].step = "idle"
    BY DEF Acquisition
  <2>2. acquiring' = [acquiring EXCEPT ![w] = F]
    BY DEF Acquired, Settled, NoAcquisition
  <2> HIDE DEF F
  <2> QED
    BY <1>2, <1>3, <2>1, <2>2, CallsCache DEF RInv, TypeOK, Holding
<1>5. \A f \in Files : acquiring'[w][f].step \notin Running
  BY <1>2 DEF Acquired, Settled, NoAcquisition, TypeOK, CacheTypeOK, Running
<1>6. \A v \in Workers \ {w} : acquiring'[v] = acquiring[v]
  BY <1>2 DEF Acquired, TypeOK, CacheTypeOK
<1>7. CASE Returns(w)
  <2>1. \A v \in Workers \ {w} : doing'[v] = doing[v]
    BY <1>2, <1>7, ReturnFacts
  <2>2. Waited'
    BY <1>5, <1>6, <2>1 DEF RInv, Waited
  <2> QED
    BY <1>1, <1>3, <1>4, <1>7, <2>2, ReturnStep
<1>8. CASE Goto(w, "stage") /\ UNCHANGED locks
  <2>1. /\ doing' \in [Workers -> Doings]
        /\ doing'[w].step = "stage" /\ doing'[w].runtime = r /\ doing'[w].copied = doing[w].copied
        /\ \A v \in Workers \ {w} : doing'[v] = doing[v]
    BY <1>1, <1>2, <1>8, GotoFacts DEF Inside
  <2>2. Waited'
    BY <1>5, <1>6, <2>1 DEF RInv, Waited
  <2>3. TypeOK'
    BY <1>2, <1>3, <1>4, <1>8, <2>1 DEF TypeOK
  <2>4. BuildingAt(w)' /\ ExchangeAt(w)'
    BY <1>1, <1>2, <1>3, <2>1 DEF RInv, Building, Exchange, BuildingAt, ExchangeAt
  <2>5. WholeAt(r)' /\ PutBackAt(r)'
    BY <1>1, <1>2, <1>3, <1>8, <2>1 DEF RInv, WholeAt, Ready, PutBack, PutBackAt
  <2> QED
    BY <1>1, <1>2, <1>3, <1>4, <1>8, <2>1, <2>2, <2>3, <2>4, <2>5, LocalStep
<1> QED
  BY <1>7, <1>8 DEF Acquired

LEMMA StageStep ==
    ASSUME RInv, NEW w \in Workers, Stage(w)
    PROVE  RInv'
<1>1. doing[w].step = "stage" /\ "stage" \in Inside /\ "copy" \in Inside
  BY DEF Stage, Inside, Steps
<1>2. PICK r \in Runtimes : TypeOK /\ r = doing[w].runtime /\ locks[r] = w
  BY <1>1, InsideFacts
<1>3. CacheRests /\ UNCHANGED <<acquiring, root, calls, tampered, orphaned>>
  BY DEF Stage
<1>4. upsets' \in 0 .. MaxUpsets
  BY <1>2, KindsAssumption DEF Stage, Calm, Fault, Upset, TypeOK, CacheTypeOK
<1>5. CASE Returns(w) /\ UNCHANGED staging
  <2>1. \A v \in Workers \ {w} : doing'[v] = doing[v]
    BY <1>2, <1>5, ReturnFacts
  <2>2. CacheTypeOK' /\ Counted' /\ Handled' /\ Waited'
    BY <1>1, <1>3, <1>4, <2>1, CacheRestsStep
  <2> QED
    BY <1>1, <1>3, <1>5, <2>2, ReturnStep
<1>6. CASE /\ staging' = [staging EXCEPT ![r] = [is |-> TRUE, staged |-> Empty, retired |-> None]]
           /\ Goto(w, "copy") /\ UNCHANGED locks
  <2>1. /\ doing' \in [Workers -> Doings]
        /\ doing'[w].step = "copy" /\ doing'[w].runtime = r /\ doing'[w].copied = doing[w].copied
        /\ \A v \in Workers \ {w} : doing'[v] = doing[v]
    BY <1>1, <1>2, <1>6, GotoFacts DEF Inside
  <2>2. CacheTypeOK' /\ Counted' /\ Handled' /\ Waited'
    BY <1>1, <1>3, <1>4, <2>1, CacheRestsStep
  <2>3. Empty \in Tree /\ Empty.mark = "none" /\ {f \in Files : Empty.files[f] # None} = {}
    BY DEF Empty, Tree
  <2>4. /\ staging' \in [Runtimes -> Stagings]
        /\ staging'[r].staged = Empty /\ staging'[r].retired = None
        /\ \A q \in Runtimes \ {r} : staging'[q] = staging[q]
    BY <1>2, <1>6, <2>3 DEF TypeOK, Stagings
  <2>5. TypeOK'
    BY <1>2, <1>3, <1>6, <2>1, <2>2, <2>4 DEF TypeOK
  <2>6. BuildingAt(w)' /\ ExchangeAt(w)'
    BY <1>1, <1>2, <1>3, <2>1, <2>3, <2>4, NoneIsNoTree DEF RInv, Building, Exchange, BuildingAt, ExchangeAt
  <2>7. WholeAt(r)' /\ PutBackAt(r)'
    BY <1>1, <1>2, <1>3, <1>6, <2>1, <2>4 DEF RInv, WholeAt, Ready, PutBackAt
  <2> QED
    BY <1>1, <1>2, <1>3, <1>6, <2>1, <2>2, <2>4, <2>5, <2>6, <2>7, LocalStep
<1> QED
  BY <1>2, <1>5, <1>6 DEF Stage

\* A step inside a call that returns at once, without a change.
LEMMA FailStep ==
    ASSUME RInv, NEW w \in Workers, doing[w].step \in Inside \ {"acquire"}, Returns(w),
           CacheRests, upsets' \in 0 .. MaxUpsets,
           UNCHANGED <<acquiring, root, staging, calls, tampered, orphaned>>,
           \/ doing[w].step \notin {"promote", "restore"}
           \/ staging[doing[w].runtime].retired = None
    PROVE  RInv'
<1>1. TypeOK /\ doing[w].runtime \in Runtimes /\ doing[w].step \notin {"acquire", "fetch"}
  BY InsideFacts DEF Inside
<1>2. \A v \in Workers \ {w} : doing'[v] = doing[v]
  BY <1>1, ReturnFacts
<1>3. CacheTypeOK' /\ Counted' /\ Handled' /\ Waited'
  BY <1>1, <1>2, CacheRestsStep
<1> QED
  BY <1>3, ReturnStep

LEMMA CopyStep ==
    ASSUME RInv, NEW w \in Workers, NEW f \in Files, Copy(w, f)
    PROVE  RInv'
<1>1. doing[w].step = "copy" /\ "copy" \in Inside
  BY DEF Copy, Inside, Steps
<1>2. PICK r \in Runtimes : TypeOK /\ r = doing[w].runtime /\ locks[r] = w
  BY <1>1, InsideFacts
<1>3. CacheRests /\ UNCHANGED <<acquiring, root, calls, tampered, orphaned>>
  BY DEF Copy
<1>4. upsets' \in 0 .. MaxUpsets
  BY <1>2, KindsAssumption DEF Copy, Calm, Fault, Upset, TypeOK, CacheTypeOK
<1>5. CASE Returns(w) /\ UNCHANGED staging
  BY <1>1, <1>3, <1>4, <1>5, FailStep
<1>6. CASE /\ store[f] \in {f, "mixed"} /\ staging[r].staged # None
           /\ staging' = [staging EXCEPT ![r].staged.files[f] = store[f]]
           /\ doing' = [doing EXCEPT ![w].copied = @ \cup {f}]
           /\ UNCHANGED locks
  <2> DEFINE old == staging[r].staged
             new == [old EXCEPT !.files[f] = store[f]]
  <2>1. /\ staging[r] \in Stagings /\ old \in Tree /\ old.files \in [Files -> {None, "mixed"} \cup Files]
        /\ old.mark = "none" /\ {g \in Files : old.files[g] # None} = doing[w].copied
    BY <1>1, <1>2, <1>6 DEF RInv, Building, BuildingAt, TypeOK, Stagings, Tree
  <2>2. /\ new \in Tree /\ new.mark = "none" /\ new.files[f] = store[f]
        /\ \A g \in Files \ {f} : new.files[g] = old.files[g]
    BY <1>6, <2>1 DEF Tree
  <2>3. {g \in Files : new.files[g] # None} = doing[w].copied \cup {f}
    BY <1>6, <2>1, <2>2, NoneAssumption
  <2>4. staging' = [staging EXCEPT ![r] = [staging[r] EXCEPT !.staged = new]]
    BY <1>6
  <2> HIDE DEF new, old
  <2>5. /\ staging' \in [Runtimes -> Stagings]
        /\ staging'[r].staged = new /\ staging'[r].retired = staging[r].retired
        /\ \A q \in Runtimes \ {r} : staging'[q] = staging[q]
    <3>1. [staging[r] EXCEPT !.staged = new] \in Stagings
      BY <2>1, <2>2 DEF Stagings
    <3>2. /\ [staging[r] EXCEPT !.staged = new].staged = new
          /\ [staging[r] EXCEPT !.staged = new].retired = staging[r].retired
      BY <2>1 DEF Stagings
    <3> QED
      BY <1>2, <2>4, <3>1, <3>2 DEF TypeOK
  <2>6. /\ doing' \in [Workers -> Doings]
        /\ doing'[w].step = "copy" /\ doing'[w].runtime = r
        /\ doing'[w].copied = doing[w].copied \cup {f}
        /\ \A v \in Workers \ {w} : doing'[v] = doing[v]
    <3> DEFINE going == [doing[w] EXCEPT !.copied = doing[w].copied \cup {f}]
    <3>1. doing[w] \in Doings
      BY <1>2 DEF TypeOK
    <3>2. /\ going \in Doings /\ going.step = "copy" /\ going.runtime = r
          /\ going.copied = doing[w].copied \cup {f}
      BY <1>1, <1>2, <3>1 DEF Doings
    <3>3. doing' = [doing EXCEPT ![w] = going]
      BY <1>6
    <3> HIDE DEF going
    <3> QED
      BY <1>2, <3>2, <3>3 DEF TypeOK
  <2>7. CacheTypeOK' /\ Counted' /\ Handled' /\ Waited'
    BY <1>1, <1>3, <1>4, <2>6, CacheRestsStep
  <2>8. TypeOK'
    BY <1>2, <1>3, <1>6, <2>5, <2>6, <2>7 DEF TypeOK
  <2>9. BuildingAt(w)' /\ ExchangeAt(w)'
    BY <1>1, <1>2, <1>3, <2>2, <2>3, <2>5, <2>6, NoneIsNoTree
    DEF RInv, Building, Exchange, BuildingAt, ExchangeAt
  <2>10. WholeAt(r)' /\ PutBackAt(r)'
    BY <1>1, <1>2, <1>3, <1>6, <2>5, <2>6 DEF RInv, WholeAt, Ready, PutBack, PutBackAt
  <2> QED
    BY <1>1, <1>2, <1>3, <1>6, <2>5, <2>6, <2>7, <2>8, <2>9, <2>10, LocalStep
<1> QED
  BY <1>2, <1>5, <1>6 DEF Copy

LEMMA CheckStep ==
    ASSUME RInv, NEW w \in Workers, Check(w)
    PROVE  RInv'
<1>1. doing[w].step = "copy" /\ {"copy", "retire", "promote"} \subseteq Inside
  BY DEF Check, Inside, Steps
<1>2. PICK r \in Runtimes : TypeOK /\ r = doing[w].runtime /\ locks[r] = w
  BY <1>1, InsideFacts
<1>3. CacheRests /\ UNCHANGED <<acquiring, root, calls, tampered, orphaned>>
  BY DEF Check
<1>4. upsets' \in 0 .. MaxUpsets
  BY <1>2, KindsAssumption DEF Check, Calm, Fault, Upset, TypeOK, CacheTypeOK
<1>5. CASE Returns(w) /\ UNCHANGED staging
  BY <1>1, <1>3, <1>4, <1>5, FailStep
<1>6. CASE /\ staging[r].staged # None /\ Checked(staging[r].staged, r)
           /\ staging' = [staging EXCEPT ![r].staged.mark = "own"]
           /\ Goto(w, IF doing[w].replacing THEN "retire" ELSE "promote")
           /\ UNCHANGED locks
  <2> DEFINE old == staging[r].staged
             new == [old EXCEPT !.mark = "own"]
  <2>1. staging[r] \in Stagings /\ old \in Tree /\ staging[r].retired = None
    BY <1>1, <1>2, <1>6 DEF RInv, Exchange, ExchangeAt, TypeOK, Stagings
  <2>2. new \in Tree /\ new.mark = "own" /\ new.files = old.files
    BY <2>1 DEF Tree
  <2>3. staging' = [staging EXCEPT ![r] = [staging[r] EXCEPT !.staged = new]]
    BY <1>6
  <2>4. Checked(new, r)
    BY <1>6, <2>2 DEF Checked
  <2> HIDE DEF new, old
  <2>5. /\ staging' \in [Runtimes -> Stagings]
        /\ staging'[r].staged = new /\ staging'[r].retired = None
        /\ \A q \in Runtimes \ {r} : staging'[q] = staging[q]
    <3>1. [staging[r] EXCEPT !.staged = new] \in Stagings
      BY <2>1, <2>2 DEF Stagings
    <3>2. /\ [staging[r] EXCEPT !.staged = new].staged = new
          /\ [staging[r] EXCEPT !.staged = new].retired = None
      BY <2>1 DEF Stagings
    <3> QED
      BY <1>2, <2>3, <3>1, <3>2 DEF TypeOK
  <2>6. PICK step \in {"retire", "promote"} :
            Goto(w, step) /\ (step = "retire" => doing[w].replacing)
    BY <1>6
  <2>7. /\ doing' \in [Workers -> Doings]
        /\ doing'[w].step = step /\ doing'[w].runtime = r
        /\ doing'[w].replacing = doing[w].replacing
        /\ \A v \in Workers \ {w} : doing'[v] = doing[v]
    BY <1>1, <1>2, <2>6, GotoFacts DEF Inside
  <2>8. CacheTypeOK' /\ Counted' /\ Handled' /\ Waited'
    BY <1>1, <1>3, <1>4, <2>7, CacheRestsStep
  <2>9. TypeOK'
    BY <1>2, <1>3, <1>6, <2>5, <2>7, <2>8 DEF TypeOK
  <2>10. BuildingAt(w)' /\ ExchangeAt(w)'
    BY <1>1, <1>2, <1>3, <2>2, <2>4, <2>5, <2>6, <2>7, NoneIsNoTree
    DEF RInv, Exchange, BuildingAt, ExchangeAt, Checked
  <2>11. WholeAt(r)' /\ PutBackAt(r)'
    BY <1>2, <1>3, <2>5 DEF RInv, WholeAt, Ready, PutBackAt
  <2> QED
    BY <1>1, <1>2, <1>3, <1>6, <2>5, <2>6, <2>7, <2>8, <2>9, <2>10, <2>11, LocalStep
<1> QED
  BY <1>2, <1>5, <1>6 DEF Check

LEMMA RetireStep ==
    ASSUME RInv, NEW w \in Workers, Retire(w)
    PROVE  RInv'
<1>1. doing[w].step = "retire" /\ {"retire", "promote"} \subseteq Inside
  BY DEF Retire, Inside, Steps
<1>2. PICK r \in Runtimes : TypeOK /\ r = doing[w].runtime /\ locks[r] = w
  BY <1>1, InsideFacts
<1>3. CacheRests /\ UNCHANGED <<acquiring, calls, tampered, orphaned>>
  BY DEF Retire
<1>4. upsets' \in 0 .. MaxUpsets
  BY <1>2, KindsAssumption DEF Retire, Calm, Fault, Upset, TypeOK, CacheTypeOK
<1>5. CASE Returns(w) /\ UNCHANGED <<root, staging>>
  BY <1>1, <1>3, <1>4, <1>5, FailStep
<1>6. CASE /\ root[r] # None
           /\ staging' = [staging EXCEPT ![r].retired = root[r]]
           /\ root' = [root EXCEPT ![r] = None]
           /\ Goto(w, "promote") /\ UNCHANGED locks
  <2>1. staging[r] \in Stagings /\ root[r] \in Tree
    BY <1>2, <1>6 DEF TypeOK
  <2>2. /\ staging' \in [Runtimes -> Stagings]
        /\ staging'[r].staged = staging[r].staged /\ staging'[r].retired = root[r]
        /\ \A q \in Runtimes \ {r} : staging'[q] = staging[q]
    <3> DEFINE new == [staging[r] EXCEPT !.retired = root[r]]
    <3>1. new \in Stagings /\ new.staged = staging[r].staged /\ new.retired = root[r]
      BY <2>1 DEF Stagings
    <3>2. staging' = [staging EXCEPT ![r] = new]
      BY <1>6
    <3> HIDE DEF new
    <3> QED
      BY <1>2, <3>1, <3>2 DEF TypeOK
  <2>3. /\ doing' \in [Workers -> Doings]
        /\ doing'[w].step = "promote" /\ doing'[w].runtime = r
        /\ doing'[w].replacing = doing[w].replacing
        /\ \A v \in Workers \ {w} : doing'[v] = doing[v]
    BY <1>1, <1>2, <1>6, GotoFacts DEF Inside
  <2>4. CacheTypeOK' /\ Counted' /\ Handled' /\ Waited'
    BY <1>1, <1>3, <1>4, <2>3, CacheRestsStep
  <2>5. TypeOK'
    BY <1>2, <1>3, <1>6, <2>2, <2>3, <2>4 DEF TypeOK
  <2>6. doing[w].replacing
    BY <1>1 DEF RInv, Exchange, ExchangeAt
  <2>7. BuildingAt(w)'
    BY <1>1, <1>2, <1>3, <2>2, <2>3 DEF RInv, Building, BuildingAt, Checked
  <2>8. ExchangeAt(w)'
    BY <1>1, <1>2, <1>3, <2>2, <2>3, <2>6 DEF RInv, ExchangeAt, WholeAt, Ready, Checked
  <2>9. WholeAt(r)' /\ PutBackAt(r)'
    BY <1>1, <1>2, <1>3, <1>6, <2>3, <2>6, WorkersAssumption DEF WholeAt, PutBackAt, TypeOK
  <2> QED
    BY <1>1, <1>2, <1>3, <1>6, <2>2, <2>3, <2>4, <2>5, <2>7, <2>8, <2>9, LocalStep DEF TypeOK
<1> QED
  BY <1>2, <1>5, <1>6 DEF Retire

LEMMA PromoteStep ==
    ASSUME RInv, NEW w \in Workers, Promote(w)
    PROVE  RInv'
<1>1. doing[w].step = "promote" /\ {"promote", "restore", "clean"} \subseteq Inside
  BY DEF Promote, Inside, Steps
<1>2. PICK r \in Runtimes : TypeOK /\ r = doing[w].runtime /\ locks[r] = w
  BY <1>1, InsideFacts
<1>3. CacheRests /\ UNCHANGED <<acquiring, calls, orphaned>>
  BY DEF Promote
<1>4. upsets' \in 0 .. MaxUpsets
  BY <1>2, KindsAssumption DEF Promote, Calm, Fault, Upset, TypeOK, CacheTypeOK
<1>5. CASE ~doing[w].replacing /\ Returns(w) /\ UNCHANGED <<root, staging, tampered>>
  <2>1. staging[r].retired = None
    BY <1>1, <1>2, <1>5 DEF RInv, Exchange, ExchangeAt
  <2> QED
    BY <1>1, <1>2, <1>3, <1>4, <1>5, <2>1, FailStep
<1>6. CASE /\ doing[w].replacing /\ Goto(w, "restore")
           /\ UNCHANGED <<locks, root, staging, tampered>>
  <2>1. /\ doing' \in [Workers -> Doings]
        /\ doing'[w].step = "restore" /\ doing'[w].runtime = r
        /\ doing'[w].replacing = doing[w].replacing
        /\ \A v \in Workers \ {w} : doing'[v] = doing[v]
    BY <1>1, <1>2, <1>6, GotoFacts DEF Inside
  <2>2. CacheTypeOK' /\ Counted' /\ Handled' /\ Waited'
    BY <1>1, <1>3, <1>4, <2>1, CacheRestsStep
  <2>3. TypeOK'
    BY <1>2, <1>3, <1>6, <2>1, <2>2 DEF TypeOK
  <2>4. BuildingAt(w)' /\ ExchangeAt(w)'
    BY <1>1, <1>2, <1>6, <2>1 DEF RInv, Exchange, BuildingAt, ExchangeAt, Checked
  <2>5. WholeAt(r)' /\ PutBackAt(r)'
    BY <1>2, <1>3, <1>6, <2>1, WorkersAssumption DEF RInv, WholeAt, Ready, PutBackAt, TypeOK
  <2> QED
    BY <1>1, <1>2, <1>3, <1>6, <2>1, <2>2, <2>3, <2>4, <2>5, LocalStep
<1>7. CASE /\ root[r] = None /\ staging[r].staged # None
           /\ root' = [root EXCEPT ![r] = staging[r].staged]
           /\ staging' = [staging EXCEPT ![r].staged = None]
           /\ tampered' = tampered \ {r}
           /\ Goto(w, "clean") /\ UNCHANGED locks
  <2>1. /\ staging[r] \in Stagings /\ staging[r].staged \in Tree
        /\ staging[r].staged.mark = "own" /\ Checked(staging[r].staged, r)
    BY <1>1, <1>2, <1>7 DEF RInv, Building, BuildingAt, TypeOK, Stagings
  <2>2. /\ staging' \in [Runtimes -> Stagings]
        /\ \A q \in Runtimes \ {r} : staging'[q] = staging[q]
    <3> DEFINE new == [staging[r] EXCEPT !.staged = None]
    <3>1. new \in Stagings
      BY <2>1 DEF Stagings
    <3>2. staging' = [staging EXCEPT ![r] = new]
      BY <1>7
    <3> HIDE DEF new
    <3> QED
      BY <1>2, <3>1, <3>2 DEF TypeOK
  <2>3. /\ root' \in [Runtimes -> Tree \cup {None}] /\ root'[r] = staging[r].staged
        /\ \A q \in Runtimes \ {r} : root'[q] = root[q]
    BY <1>2, <1>7, <2>1 DEF TypeOK
  <2>4. /\ doing' \in [Workers -> Doings]
        /\ doing'[w].step = "clean" /\ doing'[w].runtime = r
        /\ \A v \in Workers \ {w} : doing'[v] = doing[v]
    BY <1>1, <1>2, <1>7, GotoFacts DEF Inside
  <2>5. CacheTypeOK' /\ Counted' /\ Handled' /\ Waited'
    BY <1>1, <1>3, <1>4, <2>4, CacheRestsStep
  <2>6. TypeOK'
    BY <1>2, <1>3, <1>7, <2>2, <2>3, <2>4, <2>5 DEF TypeOK
  <2>7. BuildingAt(w)' /\ ExchangeAt(w)'
    BY <1>7, <2>3, <2>4 DEF BuildingAt, ExchangeAt
  <2>8. WholeAt(r)' /\ PutBackAt(r)'
    BY <1>7, <2>1, <2>3 DEF WholeAt, Ready, Checked, PutBackAt
  <2> QED
    BY <1>1, <1>2, <1>3, <1>7, <2>2, <2>3, <2>4, <2>5, <2>6, <2>7, <2>8, LocalStep
<1> QED
  BY <1>2, <1>5, <1>6, <1>7 DEF Promote

LEMMA RestoreStep ==
    ASSUME RInv, NEW w \in Workers, Restore(w)
    PROVE  RInv'
<1>1. doing[w].step = "restore" /\ "restore" \in Inside
  BY DEF Restore, Inside, Steps
<1>2. PICK r \in Runtimes : TypeOK /\ r = doing[w].runtime /\ locks[r] = w
  BY <1>1, InsideFacts
<1>3. CacheRests /\ UNCHANGED <<acquiring, calls, tampered>> /\ Returns(w)
  BY DEF Restore
<1>4. upsets' \in 0 .. MaxUpsets
  BY <1>2, KindsAssumption DEF Restore, Calm, Fault, Upset, TypeOK, CacheTypeOK
<1>5. /\ doing' \in [Workers -> Doings] /\ doing'[w] = Idle
      /\ \A v \in Workers \ {w} : doing'[v] = doing[v]
      /\ locks' \in [Runtimes -> Workers \cup {None}] /\ locks'[r] = None
      /\ \A q \in Runtimes \ {r} : locks'[q] = locks[q]
  BY <1>2, <1>3, ReturnFacts
<1>6. CacheTypeOK' /\ Counted' /\ Handled' /\ Waited'
  BY <1>1, <1>3, <1>4, <1>5, CacheRestsStep
<1>7. BuildingAt(w)' /\ ExchangeAt(w)'
  BY <1>5 DEF BuildingAt, ExchangeAt, Idle
<1>8. CASE orphaned' = orphaned \cup {r} /\ UNCHANGED <<root, staging>>
  <2>1. TypeOK'
    BY <1>2, <1>3, <1>5, <1>6, <1>8 DEF TypeOK
  <2>2. WholeAt(r)' /\ PutBackAt(r)'
    BY <1>2, <1>3, <1>8 DEF RInv, WholeAt, Ready, PutBackAt
  <2> QED
    BY <1>1, <1>2, <1>3, <1>5, <1>6, <1>7, <1>8, <2>1, <2>2, LocalStep
<1>9. CASE /\ root[r] = None /\ staging[r].retired # None
           /\ root' = [root EXCEPT ![r] = staging[r].retired]
           /\ staging' = [staging EXCEPT ![r].retired = None]
           /\ UNCHANGED orphaned
  <2>1. /\ staging[r] \in Stagings /\ staging[r].retired \in Tree
        /\ staging[r].retired.mark = "own" /\ r \notin tampered => Checked(staging[r].retired, r)
    BY <1>1, <1>2, <1>9 DEF RInv, Exchange, ExchangeAt, TypeOK, Stagings
  <2>2. /\ staging' \in [Runtimes -> Stagings] /\ staging'[r].retired = None
        /\ \A q \in Runtimes \ {r} : staging'[q] = staging[q]
    <3> DEFINE new == [staging[r] EXCEPT !.retired = None]
    <3>1. new \in Stagings /\ new.retired = None
      BY <2>1 DEF Stagings
    <3>2. staging' = [staging EXCEPT ![r] = new]
      BY <1>9
    <3> HIDE DEF new
    <3> QED
      BY <1>2, <3>1, <3>2 DEF TypeOK
  <2>3. /\ root' \in [Runtimes -> Tree \cup {None}] /\ root'[r] = staging[r].retired
        /\ \A q \in Runtimes \ {r} : root'[q] = root[q]
    BY <1>2, <1>9, <2>1 DEF TypeOK
  <2>4. TypeOK'
    BY <1>2, <1>3, <1>5, <1>6, <1>9, <2>2, <2>3 DEF TypeOK
  <2>5. WholeAt(r)' /\ PutBackAt(r)'
    BY <1>3, <2>1, <2>2, <2>3 DEF WholeAt, Ready, Checked, PutBackAt
  <2> QED
    BY <1>1, <1>2, <1>3, <1>5, <1>6, <1>7, <1>9, <2>2, <2>3, <2>4, <2>5, LocalStep
<1> QED
  BY <1>2, <1>8, <1>9 DEF Restore

LEMMA CleanStep ==
    ASSUME RInv, NEW w \in Workers, Clean(w)
    PROVE  RInv'
<1>1. doing[w].step = "clean" /\ {"clean", "final"} \subseteq Inside
  BY DEF Clean, Inside, Steps
<1>2. PICK r \in Runtimes : TypeOK /\ r = doing[w].runtime /\ locks[r] = w
  BY <1>1, InsideFacts
<1>3. /\ CacheRests /\ UNCHANGED <<acquiring, root, locks, calls, tampered, orphaned>>
      /\ Goto(w, "final")
  BY DEF Clean
<1>4. upsets' \in 0 .. MaxUpsets
  BY <1>2, KindsAssumption DEF Clean, Calm, Fault, Upset, TypeOK, CacheTypeOK
<1>5. /\ doing' \in [Workers -> Doings]
      /\ doing'[w].step = "final" /\ doing'[w].runtime = r
      /\ \A v \in Workers \ {w} : doing'[v] = doing[v]
  BY <1>1, <1>2, <1>3, GotoFacts DEF Inside
<1>6. CacheTypeOK' /\ Counted' /\ Handled' /\ Waited'
  BY <1>1, <1>3, <1>4, <1>5, CacheRestsStep
<1>7. staging' \in [Runtimes -> Stagings] /\ \A q \in Runtimes \ {r} : staging'[q] = staging[q]
  <2>1. NoStaging \in Stagings
    BY DEF NoStaging, Stagings
  <2> QED
    BY <1>2, <2>1 DEF Clean, TypeOK
<1>8. TypeOK'
  BY <1>2, <1>3, <1>5, <1>6, <1>7 DEF TypeOK
<1>9. root[r] # None
  BY <1>1, <1>2 DEF RInv, Exchange, ExchangeAt
<1>10. BuildingAt(w)' /\ ExchangeAt(w)' /\ WholeAt(r)' /\ PutBackAt(r)'
  BY <1>2, <1>3, <1>5, <1>9 DEF RInv, BuildingAt, ExchangeAt, WholeAt, Ready, PutBackAt
<1> QED
  BY <1>1, <1>2, <1>3, <1>5, <1>6, <1>7, <1>8, <1>10, LocalStep

LEMMA FinalStep ==
    ASSUME RInv, NEW w \in Workers, Final(w)
    PROVE  RInv'
<1>1. doing[w].step = "final" /\ "final" \in Inside
  BY DEF Final, Inside, Steps
<1>2. upsets' \in 0 .. MaxUpsets
  BY DEF Final, Calm, RInv, TypeOK, CacheTypeOK
<1> QED
  BY <1>1, <1>2, FailStep DEF Final

-----------------------------------------------------------------------------
(* Outside the runtimes' locks                                             *)

\* An acquisition disturbs no installation.
LEMMA DownloadStep ==
    ASSUME RInv, NEW w \in Workers, NEW f \in Files, Acquire(w, f), UNCHANGED runtimeVars
    PROVE  RInv'
<1>1. CacheTypeOK' /\ Counted' /\ Handled' /\ Apart(w, f)
  BY AcquireTypes DEF RInv, TypeOK
<1>2. UNCHANGED <<root, staging, locks, doing, calls, tampered, orphaned>>
  BY DEF runtimeVars
<1>3. TypeOK'
  BY <1>1, <1>2 DEF RInv, TypeOK
<1>4. Waited'
  BY <1>1, <1>2 DEF RInv, Waited, Apart
<1> QED
  BY <1>1, <1>2, <1>3, <1>4 DEF RInv, Held, Building, BuildingAt, Checked, Exchange, ExchangeAt,
     PutBack, PutBackAt, WholeAt, Ready

\* Nor does a change to the store.
LEMMA SpoilStoreStep ==
    ASSUME RInv, NEW f \in Files, SpoilStore(f), UNCHANGED runtimeVars
    PROVE  RInv'
<1>1. UNCHANGED <<root, staging, locks, doing, calls, tampered, orphaned, hints, parts, named, acquiring>>
  BY DEF runtimeVars, SpoilStore
<1>2. CacheTypeOK'
  BY KindsAssumption DEF RInv, TypeOK, CacheTypeOK, SpoilStore, Upset, Bytes
<1>3. TypeOK' /\ Held' /\ Waited' /\ Counted' /\ Handled'
  BY <1>1, <1>2 DEF RInv, TypeOK, Held, Waited, Counted, Unopened, Handled
<1>4. Building' /\ Exchange'
  BY <1>1 DEF RInv, Building, BuildingAt, Checked, Exchange, ExchangeAt
<1>5. PutBack' /\ \A r \in Runtimes : WholeAt(r)'
  BY <1>1 DEF RInv, PutBack, PutBackAt, WholeAt, Ready
<1> QED
  BY <1>3, <1>4, <1>5 DEF RInv

LEMMA FetchStep ==
    ASSUME RInv, NEW w \in Workers, NEW f \in Files, Fetch(w, f)
    PROVE  RInv'
<1>1. /\ doing[w].step = "idle" /\ TypeOK
      /\ UNCHANGED <<store, hints, parts, spoiled, root, staging, locks, tampered, orphaned, upsets>>
  BY DEF RInv, Fetch, Calm
<1>2. /\ doing' \in [Workers -> Doings] /\ doing'[w].step = "fetch"
      /\ \A v \in Workers \ {w} : doing'[v] = doing[v]
  <2> DEFINE new == [doing[w] EXCEPT !.step = "fetch"]
  <2>1. doing[w] \in Doings
    BY <1>1 DEF TypeOK
  <2>2. new \in Doings /\ new.step = "fetch"
    BY <2>1 DEF Doings, Steps
  <2>3. doing' = [doing EXCEPT ![w] = new]
    BY DEF Fetch
  <2> HIDE DEF new
  <2> QED
    BY <1>1, <2>2, <2>3 DEF TypeOK
<1>3. CacheTypeOK' /\ Counted' /\ Handled' /\ \A v \in Workers \ {w} : acquiring'[v] = acquiring[v]
  <2> DEFINE new == [acquiring[w][f] EXCEPT !.step = "look"]
             F == [acquiring[w] EXCEPT ![f] = new]
  <2>1. /\ acquiring[w] \in [Files -> Acquisition] /\ acquiring[w][f] \in Acquisition
        /\ \A g \in Files : acquiring[w][g].step \notin Running
    BY <1>1 DEF RInv, Waited, TypeOK, CacheTypeOK
  <2>2. new \in Acquisition /\ new.step = "look"
    BY <2>1 DEF Acquisition, Running
  <2> HIDE DEF new
  <2>3. F \in [Files -> Acquisition] /\ \A g \in Files : F[g].step \notin Holding \cup {"hint"}
    BY <2>1, <2>2 DEF Holding, Running
  <2>4. acquiring' = [acquiring EXCEPT ![w] = F] /\ named' = [named EXCEPT ![w] = 0]
    BY DEF Fetch, new
  <2> HIDE DEF F
  <2>5. CacheTypeOK' /\ Counted' /\ Handled'
    BY <1>1, <2>3, <2>4, CallsCache DEF RInv, TypeOK
  <2> QED
    BY <1>1, <2>4, <2>5 DEF TypeOK, CacheTypeOK
<1>4. TypeOK'
  BY <1>1, <1>2, <1>3, CallsAssumption DEF TypeOK, Fetch
<1>5. Waited'
  BY <1>2, <1>3 DEF RInv, Waited
<1>6. \A v \in Workers : doing'[v].step \in Inside => doing'[v] = doing[v]
  BY <1>2 DEF Inside
<1>7. \A r \in Runtimes : locks[r] # None => doing'[locks[r]] = doing[locks[r]]
  BY <1>1, <1>2 DEF RInv, Held, Inside, TypeOK
<1>8. Held'
  BY <1>1, <1>6, <1>7 DEF RInv, Held
<1>9. \A v \in Workers : BuildingAt(v)' /\ ExchangeAt(v)'
  <2>1. \A v \in Workers : BuildingAt(v)'
    BY <1>1, <1>2 DEF RInv, Building, BuildingAt, Checked
  <2>2. \A v \in Workers : ExchangeAt(v)'
    BY <1>1, <1>2 DEF RInv, Checked, Exchange, ExchangeAt
  <2> QED
    BY <2>1, <2>2
<1>10. \A r \in Runtimes : PutBackAt(r)' /\ WholeAt(r)'
  BY <1>1, <1>7 DEF RInv, PutBack, PutBackAt, WholeAt, Ready
<1> QED
  BY <1>3, <1>4, <1>5, <1>8, <1>9, <1>10 DEF RInv, Building, Exchange, PutBack

LEMMA FetchedStep ==
    ASSUME RInv, NEW w \in Workers, Fetched(w)
    PROVE  RInv'
<1>1. /\ doing[w].step = "fetch" /\ TypeOK
      /\ UNCHANGED <<store, hints, parts, named, spoiled, root, staging, locks, calls, tampered,
                     orphaned, upsets>>
  BY DEF RInv, Fetched, Calm, CacheRests, cache
<1>2. /\ doing' \in [Workers -> Doings] /\ doing'[w] = Idle
      /\ \A v \in Workers \ {w} : doing'[v] = doing[v]
  <2>1. Idle \in Doings
    BY DEF Idle, Doings, Steps
  <2> QED
    BY <1>1, <2>1 DEF Fetched, TypeOK
<1>3. /\ CacheTypeOK' /\ Counted' /\ Handled'
      /\ \A v \in Workers \ {w} : acquiring'[v] = acquiring[v]
      /\ \A f \in Files : acquiring'[w][f].step = "idle"
  <2> DEFINE F == [f \in Files |-> [step |-> "idle", name |-> None, into |-> None, shared |-> FALSE]]
  <2>1. F \in [Files -> Acquisition] /\ \A f \in Files : F[f].step = "idle"
    BY DEF Acquisition
  <2>2. acquiring' = [acquiring EXCEPT ![w] = F]
    BY DEF Fetched, Settled, NoAcquisition
  <2> HIDE DEF F
  <2>3. CacheTypeOK' /\ Counted' /\ Handled'
    BY <1>1, <2>1, <2>2, CallsCache DEF RInv, TypeOK, Holding
  <2> QED
    BY <1>1, <2>1, <2>2, <2>3 DEF TypeOK, CacheTypeOK
<1>4. TypeOK'
  BY <1>1, <1>2, <1>3 DEF TypeOK
<1>5. Waited'
  BY <1>2, <1>3 DEF RInv, Waited, Running
<1>6. \A v \in Workers : doing'[v].step \in Inside => doing'[v] = doing[v]
  BY <1>2 DEF Inside, Idle
<1>7. \A r \in Runtimes : locks[r] # None => doing'[locks[r]] = doing[locks[r]]
  BY <1>1, <1>2 DEF RInv, Held, Inside, TypeOK
<1>8. Held'
  BY <1>1, <1>6, <1>7 DEF RInv, Held
<1>9. \A v \in Workers : BuildingAt(v)' /\ ExchangeAt(v)'
  BY <1>1, <1>2 DEF RInv, Building, BuildingAt, Checked, Exchange, ExchangeAt, Idle
<1>10. \A r \in Runtimes : PutBackAt(r)' /\ WholeAt(r)'
  BY <1>1, <1>7 DEF RInv, PutBack, PutBackAt, WholeAt, Ready
<1> QED
  BY <1>3, <1>4, <1>5, <1>8, <1>9, <1>10 DEF RInv, Building, Exchange, PutBack

\* A file that changes from outside is one of a marked or of a foreign tree.
LEMMA SpoilRuntimeStep ==
    ASSUME RInv, NEW r \in Runtimes, NEW f \in Files, SpoilRuntime(r, f)
    PROVE  RInv'
<1>1. /\ TypeOK /\ root[r] \in Tree
      /\ UNCHANGED <<store, hints, parts, named, spoiled, acquiring, staging, locks, doing, calls,
                     orphaned>>
      /\ tampered' = tampered \cup {r}
  BY DEF RInv, SpoilRuntime, CacheRests, cache, TypeOK
<1>2. /\ root' \in [Runtimes -> Tree \cup {None}]
      /\ root'[r] # None /\ root'[r].mark = root[r].mark
      /\ \A q \in Runtimes \ {r} : root'[q] = root[q]
  <2> DEFINE new == [root[r] EXCEPT !.files[f] = "mixed"]
  <2>1. new \in Tree /\ new.mark = root[r].mark
    BY <1>1 DEF Tree
  <2>2. root' = [root EXCEPT ![r] = new]
    BY DEF SpoilRuntime
  <2> HIDE DEF new
  <2> QED
    BY <1>1, <2>1, <2>2, NoneIsNoTree DEF TypeOK
<1>3. TypeOK'
  BY <1>1, <1>2, KindsAssumption DEF TypeOK, CacheTypeOK, SpoilRuntime, Upset
<1>4. root[r] # None
  BY DEF SpoilRuntime
<1>5. Held' /\ Waited' /\ Counted' /\ Handled' /\ Building'
  BY <1>1 DEF RInv, Held, Waited, Counted, Unopened, Handled, Building, BuildingAt, Checked
<1>6. Exchange'
  BY <1>1, <1>2, <1>4 DEF RInv, Exchange, ExchangeAt, Held, Inside, Steps, Checked
<1>7. \A q \in Runtimes : PutBackAt(q)' /\ WholeAt(q)'
  BY <1>1, <1>2 DEF RInv, PutBack, PutBackAt, WholeAt, Ready
<1> QED
  BY <1>3, <1>5, <1>6, <1>7 DEF RInv, PutBack

LEMMA CrashStep ==
    ASSUME RInv, Crash
    PROVE  RInv'
<1>1. /\ TypeOK
      /\ UNCHANGED <<store, hints, parts, named, spoiled, root, staging, calls, tampered>>
      /\ doing' = [w \in Workers |-> Idle] /\ locks' = [r \in Runtimes |-> None]
      /\ orphaned' = orphaned \cup {doing[w].runtime :
            w \in {v \in Workers : doing[v].step \in {"promote", "restore"} /\ doing[v].replacing}}
  BY DEF RInv, Crash, CacheRests, cache
<1>2. acquiring' \in [Workers -> [Files -> Acquisition]]
      /\ \A w \in Workers, f \in Files : acquiring'[w][f].step = "idle"
  BY DEF Crash, Settled, NoAcquisition, Acquisition
<1>3. orphaned' \subseteq Runtimes
  BY <1>1 DEF RInv, Held, Inside, Steps, TypeOK
<1>4. TypeOK'
  <2>1. Idle \in Doings
    BY DEF Idle, Doings, Steps
  <2> QED
    BY <1>1, <1>2, <1>3, <2>1, KindsAssumption DEF TypeOK, CacheTypeOK, Crash, Upset
<1>5. Counted'
  <2>1. \A w \in Workers : Unopened(w)' = {}
    BY <1>2 DEF Unopened
  <2>2. Cardinality(Files) \in Nat
    BY FilesAssumption, FS_CardinalityType
  <2>3. \A w \in Workers : Cardinality(Unopened(w)') = 0
    BY <2>1, FS_EmptySet
  <2> QED
    BY <1>1, <2>2, <2>3 DEF Counted, TypeOK, CacheTypeOK
<1>6. Held' /\ Waited' /\ Handled' /\ Building' /\ Exchange'
  BY <1>1, <1>2 DEF Held, Inside, Waited, Running, Handled, Holding, Building, BuildingAt, Exchange,
     ExchangeAt, Idle
<1>7. \A r \in Runtimes : WholeAt(r)'
  BY <1>1 DEF RInv, WholeAt, Ready
<1>8. \A r \in Runtimes : PutBackAt(r)'
  BY <1>1 DEF RInv, PutBack, PutBackAt, Held, TypeOK
<1> QED
  BY <1>4, <1>5, <1>6, <1>7, <1>8 DEF RInv, PutBack

-----------------------------------------------------------------------------
(* The runtimes: the theorems                                              *)

LEMMA InitRInv == Init => RInv
<1> SUFFICES ASSUME Init PROVE RInv
  OBVIOUS
<1>1. Cardinality(Files) \in Nat
  BY FilesAssumption, FS_CardinalityType
<1>2. \A w \in Workers, f \in Files : acquiring[w][f].step = "idle"
  BY DEF Init, CacheInit, NoAcquisition
<1>3. \A w \in Workers : doing[w] = Idle
  BY DEF Init
<1>4. CacheTypeOK
  BY <1>1, KindsAssumption DEF Init, CacheInit, CacheTypeOK, Bytes, NoAcquisition, Acquisition
<1>5. root \in [Runtimes -> Tree \cup {None}]
  <2>1. Empty \in Tree
    BY DEF Empty, Tree
  <2>2. \A r \in Runtimes : Whole(r) \in Tree
    BY DEF Whole, Tree
  <2> DEFINE Damaged(r) == [Whole(r) EXCEPT !.files[CHOOSE f \in Plan[r] : TRUE] = "mixed"]
             Found == {None, Empty} \cup UNION {{Whole(r), Damaged(r)} : r \in Runtimes}
  <2>3. \A r \in Runtimes : Damaged(r) \in Tree
    BY <2>2 DEF Tree
  <2>4. root \in [Runtimes -> Found]
    BY DEF Init
  <2> HIDE DEF Damaged
  <2>5. Found \subseteq Tree \cup {None}
    BY <2>1, <2>2, <2>3
  <2> HIDE DEF Found
  <2> QED
    BY <2>4, <2>5
<1>6. TypeOK
  <2>1. NoStaging \in Stagings /\ Idle \in Doings
    BY DEF NoStaging, Stagings, Idle, Doings, Steps
  <2> QED
    BY <1>4, <1>5, <2>1, CallsAssumption DEF Init, TypeOK
<1>7. Counted
  <2>1. \A w \in Workers : Unopened(w) = {}
    BY <1>2 DEF Unopened
  <2>2. \A w \in Workers : Cardinality(Unopened(w)) = 0
    BY <2>1, FS_EmptySet
  <2> QED
    BY <1>1, <2>2 DEF Counted, Init, CacheInit
<1>8. Held /\ Waited /\ Handled
  BY <1>2, <1>3 DEF Held, Waited, Handled, Inside, Running, Holding, Idle, Init
<1>9. Building /\ Exchange
  BY <1>3 DEF Building, BuildingAt, Exchange, ExchangeAt, Idle
<1>10. PutBack
  BY DEF Init, PutBack, PutBackAt, NoStaging
<1>11. \A r \in Runtimes : WholeAt(r)
  <2> SUFFICES ASSUME NEW r \in Runtimes, r \notin tampered, root[r] # None
               PROVE  Ready(r)
    BY DEF WholeAt
  <2>1. root[r] = Whole(r)
    BY DEF Init
  <2>2. Plan[r] \subseteq Files
    BY PlanAssumption
  <2> QED
    BY <2>1, <2>2 DEF Ready, Whole
<1> QED
  BY <1>6, <1>7, <1>8, <1>9, <1>10, <1>11 DEF RInv

LEMMA StepRInv == RInv /\ [Next]_vars => RInv'
<1> SUFFICES ASSUME RInv, [Next]_vars PROVE RInv'
  OBVIOUS
<1>1. ASSUME NEW w \in Workers, Install(w) PROVE RInv'
  BY <1>1, EnterStep, ValidateStep, AcquiredStep, StageStep, CheckStep, FetchedStep, CopyStep,
     FetchStep, RetireStep, PromoteStep, RestoreStep, CleanStep, FinalStep DEF Install
<1>2. ASSUME NEW w \in Workers, Download(w) PROVE RInv'
  BY <1>2, DownloadStep DEF Download
<1>3. CASE Outside
  BY <1>3, SpoilStoreStep, SpoilRuntimeStep DEF Outside
<1>4. CASE Crash
  BY <1>4, CrashStep
<1>5. CASE UNCHANGED vars
  BY <1>5 DEF vars, cacheVars, cache, runtimeVars, RInv, TypeOK, CacheTypeOK, Held, Waited, Counted,
     Unopened, Handled, Building, BuildingAt, Checked, Exchange, ExchangeAt, PutBack, PutBackAt,
     WholeAt, Ready
<1> QED
  BY <1>1, <1>2, <1>3, <1>4, <1>5 DEF Next

\* The strengthening: who holds a lock at which step, what the tree under
\* construction and the retired one are at each step of an installation.
THEOREM RuntimeInvariance == Spec => []RInv
  BY InitRInv, StepRInv, PTL DEF Spec

\* A marked runtime is whole, what is staged is what its one owner copied, an
\* installation that is over leaves a runtime where there was one, locks and
\* acquisitions belong to a command at a step that uses them: for any
\* runtimes and commands, whatever name the cache gives its staging files.
THEOREM RuntimeSafety == Spec => []RuntimeHolds
<1>1. RInv => RuntimeHolds
  <2> SUFFICES ASSUME RInv PROVE RuntimeHolds
    OBVIOUS
  <2>1. RuntimeIsWhole
    BY DEF RInv, RuntimeIsWhole, WholeAt
  <2>2. StagedIsMine
    BY DEF RInv, Building, BuildingAt, StagedIsMine
  <2>3. RuntimeStays
    BY DEF RInv, PutBack, PutBackAt, RuntimeStays
  <2>4. NothingLeaks
    BY DEF RInv, Held, Inside, Waited, NothingLeaks
  <2> QED
    BY <2>1, <2>2, <2>3, <2>4 DEF RInv, RuntimeHolds
<1> QED
  BY <1>1, RuntimeInvariance, PTL

\* An installation moves only a tree that carries the runtime's own mark: any
\* other directory at the place stays as it is, whatever fails.
THEOREM ForeignTreesKept == Spec => ForeignTreesStay
<1> DEFINE Kept == \A r \in Runtimes :
        (root[r] # None /\ root[r].mark # "own" /\ upsets' = upsets) => root'[r] = root[r]
<1>1. RInv /\ [Next]_vars => [Kept]_vars
  <2> SUFFICES ASSUME RInv, Next, NEW r \in Runtimes,
                      root[r] # None, root[r].mark # "own", upsets' = upsets
               PROVE  root'[r] = root[r]
    BY DEF vars
  <2>1. ASSUME NEW w \in Workers, Install(w) PROVE root'[r] = root[r]
    <3>1. CASE Retire(w)
      <4>1. doing[w].runtime # r
        BY <3>1 DEF RInv, Exchange, ExchangeAt, Retire
      <4> QED
        BY <3>1, <4>1 DEF Retire, RInv, TypeOK
    <3>2. CASE Promote(w) \/ Restore(w)
      BY <3>2 DEF Promote, Restore, RInv, TypeOK
    <3> QED
      BY <2>1, <3>1, <3>2 DEF Install, Enter, Validate, Acquired, Stage, Check, Fetched, Copy, Fetch,
         Clean, Final
  <2>2. ASSUME NEW w \in Workers, Download(w) PROVE root'[r] = root[r]
    BY <2>2 DEF Download, runtimeVars
  <2>3. ~Outside /\ ~Crash
    BY KindsAssumption DEF Outside, SpoilStore, SpoilRuntime, Crash, Upset, RInv, TypeOK, CacheTypeOK
  <2> QED
    BY <2>1, <2>2, <2>3 DEF Next
<1> QED
  BY <1>1, RuntimeInvariance, PTL DEF Spec, ForeignTreesStay

-----------------------------------------------------------------------------
(* The store of digests                                                    *)

\* A step of one acquisition that touches one staging file, which the others
\* that hold it know to be shared, leaves the others theirs.
LEMMA OwnedStep ==
    ASSUME CacheTypeOK, Handled, Owned, NEW w \in Workers, NEW f \in Files, NEW mine, Elsewhere(w, f),
           \A v \in Workers, g \in Files :
                <<v, g>> # <<w, f>> /\ acquiring[v][g].step \in Holding
                    /\ acquiring[v][g].name = mine => acquiring'[v][g].shared,
           \A v \in Workers, g \in Files :
                <<v, g>> # <<w, f>> /\ acquiring[v][g].step = "write" =>
                    /\ acquiring'[v][g].into \in {acquiring[v][g].name, None} \cup spoiled'
                    /\ ~acquiring'[v][g].shared => acquiring'[v][g].into = acquiring[v][g].into,
           \A n \in Names \ {mine} : parts'[n] = parts[n],
           acquiring'[w][f].step \in Holding => acquiring'[w][f].name = mine,
           OwnedAt(w, f)'
    PROVE  Owned'
<1> SUFFICES ASSUME NEW v \in Workers, NEW g \in Files, <<v, g>> # <<w, f>>
             PROVE  OwnedAt(v, g)'
  BY DEF Owned
<1> DEFINE old == acquiring[v][g]
           new == acquiring'[v][g]
<1>1. new.step = old.step /\ new.name = old.name /\ (old.shared => new.shared)
  BY DEF Elsewhere
<1>2. new.step = "write" => new.into \in {new.name, None} \cup spoiled'
  BY <1>1
<1>3. ASSUME new.step \in Holding, ~new.shared
      PROVE  /\ new.step = "write" => new.into = new.name /\ parts'[new.name] = "empty"
             /\ new.step # "write" => parts'[new.name] = g
             /\ \A u \in Workers, h \in Files :
                <<u, h>> # <<v, g>> /\ acquiring'[u][h].step \in Holding =>
                    acquiring'[u][h].name # new.name
  <2>1. old.step \in Holding /\ ~old.shared /\ old.name \in Names \ {mine}
    BY <1>1, <1>3 DEF Handled
  <2>2. /\ old.step = "write" => old.into = old.name /\ parts[old.name] = "empty"
        /\ old.step # "write" => parts[old.name] = g
        /\ \A u \in Workers, h \in Files :
            <<u, h>> # <<v, g>> /\ acquiring[u][h].step \in Holding =>
                acquiring[u][h].name # old.name
    BY <2>1 DEF Owned, OwnedAt
  <2>3. parts'[old.name] = parts[old.name]
    BY <2>1
  <2>4. \A u \in Workers, h \in Files :
            <<u, h>> # <<v, g>> /\ acquiring'[u][h].step \in Holding =>
                acquiring'[u][h].name # new.name
    <3> SUFFICES ASSUME NEW u \in Workers, NEW h \in Files, <<u, h>> # <<v, g>>,
                        acquiring'[u][h].step \in Holding
                 PROVE  acquiring'[u][h].name # new.name
      OBVIOUS
    <3>1. CASE <<u, h>> = <<w, f>>
      BY <1>1, <2>1, <3>1
    <3>2. CASE <<u, h>> # <<w, f>>
      BY <1>1, <2>2, <3>2 DEF Elsewhere
    <3> QED
      BY <3>1, <3>2
  <2> QED
    BY <1>1, <1>3, <2>1, <2>2, <2>3, <2>4
<1> QED
  BY <1>2, <1>3 DEF OwnedAt

\* Of two that hold one file, both know that it is shared.
LEMMA SharersKnow ==
    ASSUME Owned, NEW w \in Workers, NEW f \in Files, acquiring[w][f].step \in Holding,
           NEW v \in Workers, NEW g \in Files, acquiring[v][g].step \in Holding,
           <<v, g>> # <<w, f>>, acquiring[v][g].name = acquiring[w][f].name
    PROVE  acquiring[v][g].shared /\ acquiring[w][f].shared
<1>1. OwnedAt(w, f) /\ OwnedAt(v, g)
  BY DEF Owned
<1> QED
  BY <1>1 DEF OwnedAt

\* An acquisition whose stream has ended, and has changed no file but its own.
LEMMA WritesOwned ==
    ASSUME CacheTypeOK, Handled, Owned, NEW w \in Workers, NEW f \in Files,
           Goes(w, f, "rename"), acquiring[w][f].step = "write",
           \A n \in Names \ {acquiring[w][f].name} : parts'[n] = parts[n],
           ~acquiring[w][f].shared => parts'[acquiring[w][f].name] = f,
           UNCHANGED spoiled
    PROVE  Owned'
<1> DEFINE mine == acquiring[w][f].name
<1>1. /\ Here(w, f, "rename")
      /\ \A v \in Workers, g \in Files :
            <<v, g>> # <<w, f>> => acquiring'[v][g] = acquiring[v][g]
  BY GoesFacts DEF Running
<1>2. /\ acquiring'[w][f].step = "rename" /\ acquiring'[w][f].name = mine
      /\ acquiring'[w][f].shared = acquiring[w][f].shared
      /\ acquiring[w][f].step \in Holding
  BY <1>1 DEF Here, Holding
<1>3. OwnedAt(w, f)'
  <2>1. OwnedAt(w, f)
    BY DEF Owned
  <2> QED
    BY <1>1, <1>2, <2>1 DEF OwnedAt
<1>4. \A v \in Workers, g \in Files :
            <<v, g>> # <<w, f>> /\ acquiring[v][g].step \in Holding
                /\ acquiring[v][g].name = mine => acquiring'[v][g].shared
  BY <1>1, <1>2, SharersKnow
<1>5. \A v \in Workers, g \in Files :
            <<v, g>> # <<w, f>> /\ acquiring[v][g].step = "write" =>
                /\ acquiring'[v][g].into \in {acquiring[v][g].name, None} \cup spoiled'
                /\ ~acquiring'[v][g].shared => acquiring'[v][g].into = acquiring[v][g].into
  BY <1>1 DEF Owned, OwnedAt
<1>6. Elsewhere(w, f)
  BY <1>1 DEF Here
<1>7. \A n \in Names \ {mine} : parts'[n] = parts[n]
  OBVIOUS
<1>8. acquiring'[w][f].step \in Holding => acquiring'[w][f].name = mine
  BY <1>2
<1> HIDE DEF mine
<1> QED
  BY <1>3, <1>4, <1>5, <1>6, <1>7, <1>8, OwnedStep

\* An acquisition that goes on, or gives up, and touches no file.
LEMMA RestsOwned ==
    ASSUME CacheTypeOK, Handled, Owned, NEW w \in Workers, NEW f \in Files,
           NEW step \in {"open", "done", "failed", "hint"} \cup (Holding \ {"write"}), Goes(w, f, step),
           step \in Holding => acquiring[w][f].step \in Holding \ {"write"},
           UNCHANGED <<parts, spoiled>>
    PROVE  Owned'
<1>1. step \in {"idle", "done", "failed"} \cup Running
  BY DEF Running, Holding
<1>2. /\ Here(w, f, step)
      /\ \A v \in Workers, g \in Files :
            <<v, g>> # <<w, f>> => acquiring'[v][g] = acquiring[v][g]
  BY <1>1, GoesFacts
<1>3. /\ acquiring'[w][f].step = step /\ step # "write"
      /\ step \in Holding =>
            /\ acquiring'[w][f].name = acquiring[w][f].name
            /\ acquiring'[w][f].shared = acquiring[w][f].shared
  BY <1>2 DEF Here, Holding
<1>4. OwnedAt(w, f)'
  <2>1. OwnedAt(w, f)
    BY DEF Owned
  <2> QED
    BY <1>2, <1>3, <2>1 DEF OwnedAt
<1>5. ASSUME NEW v \in Workers, NEW g \in Files, <<v, g>> # <<w, f>>
      PROVE  OwnedAt(v, g)'
  <2>1. OwnedAt(v, g) /\ acquiring'[v][g] = acquiring[v][g]
    BY <1>2, <1>5 DEF Owned
  <2>2. \A u \in Workers, h \in Files : acquiring'[u][h].step \in Holding =>
            acquiring[u][h].step \in Holding /\ acquiring'[u][h].name = acquiring[u][h].name
    BY <1>2, <1>3
  <2> QED
    BY <2>1, <2>2 DEF OwnedAt
<1> QED
  BY <1>4, <1>5 DEF Owned

\* An acquisition that removes its staging file leaves the others theirs.
LEMMA DiscardsOwned ==
    ASSUME CacheTypeOK, Handled, Owned, NEW w \in Workers, NEW f \in Files,
           NEW step \in {"done", "failed", "hint"}, Discards(w, f, step),
           acquiring[w][f].step \in Holding, UNCHANGED spoiled
    PROVE  Owned'
<1> DEFINE mine == acquiring[w][f].name
<1>1. mine \in Names /\ Here(w, f, step)
  BY TakesFacts
<1>2. \A v \in Workers, g \in Files : <<v, g>> # <<w, f>> =>
        acquiring'[v][g].into =
            IF acquiring[v][g].step = "write" /\ acquiring[v][g].into = mine THEN None
            ELSE acquiring[v][g].into
  BY <1>1, GoesFacts DEF Discards, Running
<1>3. OwnedAt(w, f)'
  BY <1>1 DEF OwnedAt, Here, Holding
<1>4. \A v \in Workers, g \in Files :
            <<v, g>> # <<w, f>> /\ acquiring[v][g].step \in Holding
                /\ acquiring[v][g].name = mine => acquiring'[v][g].shared
  BY <1>1, SharersKnow DEF Here, Elsewhere
<1>5. \A v \in Workers, g \in Files :
            <<v, g>> # <<w, f>> /\ acquiring[v][g].step = "write" =>
                /\ acquiring'[v][g].into \in {acquiring[v][g].name, None} \cup spoiled'
                /\ ~acquiring'[v][g].shared => acquiring'[v][g].into = acquiring[v][g].into
  <2> SUFFICES ASSUME NEW v \in Workers, NEW g \in Files, <<v, g>> # <<w, f>>,
                      acquiring[v][g].step = "write"
               PROVE  /\ acquiring'[v][g].into \in {acquiring[v][g].name, None} \cup spoiled'
                      /\ ~acquiring'[v][g].shared => acquiring'[v][g].into = acquiring[v][g].into
    OBVIOUS
  <2>1. OwnedAt(v, g)
    BY DEF Owned
  <2>2. ~acquiring'[v][g].shared => ~acquiring[v][g].shared /\ acquiring[v][g].name # mine
    BY <1>1, <1>4 DEF Here, Elsewhere, Holding
  <2> QED
    BY <1>2, <2>1, <2>2 DEF OwnedAt, Holding
<1>6. \A n \in Names \ {mine} : parts'[n] = parts[n]
  BY DEF Discards, CacheTypeOK
<1>7. Elsewhere(w, f) /\ acquiring'[w][f].step \notin Holding
  BY <1>1 DEF Here, Holding
<1> HIDE DEF mine
<1> QED
  BY <1>3, <1>4, <1>5, <1>6, <1>7, OwnedStep

\* A staging file that is created, or could not be, under a name that may be
\* another's.
LEMMA OpenOwned ==
    ASSUME CacheTypeOK, Handled, Owned, NEW w \in Workers, NEW f \in Files, Open(w, f)
    PROVE  Owned'
<1>1. acquiring[w][f].step = "open" /\ UNCHANGED spoiled
  BY DEF Open, At
<1>2. ASSUME NEW name \in NamesOf(w), Opened(w, f, name)
      PROVE  Owned'
  <2>0. name \in Names
    BY NameTyped
  <2> DEFINE J == Joined(name)
             alike == Holders(name) # {}
             new == [step |-> "write", name |-> name, into |-> name, shared |-> alike]
  <2>1. /\ J \in [Workers -> [Files -> Acquisition]]
        /\ \A v \in Workers, g \in Files :
            /\ J[v][g].step = acquiring[v][g].step
            /\ J[v][g].name = acquiring[v][g].name
            /\ J[v][g].into = acquiring[v][g].into
            /\ acquiring[v][g].shared => J[v][g].shared
            /\ acquiring[v][g].step \in Holding /\ acquiring[v][g].name = name => J[v][g].shared
    BY JoinedFacts
  <2>2. ~alike => \A v \in Workers, g \in Files :
            acquiring[v][g].step \in Holding => acquiring[v][g].name # name
    <3> SUFFICES ASSUME NEW v \in Workers, NEW g \in Files, acquiring[v][g].step \in Holding,
                        acquiring[v][g].name = name
                 PROVE  Holders(name) # {}
      OBVIOUS
    <3>1. <<v, g>> \in Holders(name)
      BY DEF Holders
    <3> QED
      BY <3>1
  <2> HIDE DEF J, alike
  <2>3. acquiring' = [J EXCEPT ![w] = [J[w] EXCEPT ![f] = new]]
    BY <1>2 DEF Opened, J, alike
  <2>4. new.step = "write" /\ new.name = name /\ new.into = name /\ new.shared = alike
    OBVIOUS
  <2> HIDE DEF new
  <2>5. /\ acquiring'[w][f] = new
        /\ \A v \in Workers, g \in Files : <<v, g>> # <<w, f>> => acquiring'[v][g] = J[v][g]
    BY <2>1, <2>3
  <2>6. /\ \A n \in Names \ {name} : parts'[n] = parts[n]
        /\ parts'[name] = "empty"
    BY <1>2, <2>0 DEF Opened, CacheTypeOK
  <2>7. OwnedAt(w, f)'
    BY <2>1, <2>2, <2>4, <2>5, <2>6 DEF OwnedAt
  <2>8. Elsewhere(w, f)
    BY <2>1, <2>5 DEF Elsewhere
  <2>9. \A v \in Workers, g \in Files :
            <<v, g>> # <<w, f>> /\ acquiring[v][g].step = "write" =>
                /\ acquiring'[v][g].into \in {acquiring[v][g].name, None} \cup spoiled'
                /\ ~acquiring'[v][g].shared => acquiring'[v][g].into = acquiring[v][g].into
    BY <1>1, <2>1, <2>5 DEF Owned, OwnedAt
  <2>10. \A v \in Workers, g \in Files :
            <<v, g>> # <<w, f>> /\ acquiring[v][g].step \in Holding
                /\ acquiring[v][g].name = name => acquiring'[v][g].shared
    BY <2>1, <2>5
  <2>11. acquiring'[w][f].name = name
    BY <2>4, <2>5
  <2> QED
    BY <2>6, <2>7, <2>8, <2>9, <2>10, <2>11, OwnedStep
<1>3. ASSUME NEW name \in NamesOf(w), parts' = [parts EXCEPT ![name] = None],
             acquiring' = Moved([Joined(name) EXCEPT ![w][f].step = "failed"], name, None)
      PROVE  Owned'
  <2>0. name \in Names
    BY NameTyped
  <2> DEFINE J == Joined(name)
             new == [J[w][f] EXCEPT !.step = "failed"]
             K == [J EXCEPT ![w][f].step = "failed"]
  <2>1. /\ J \in [Workers -> [Files -> Acquisition]]
        /\ \A v \in Workers, g \in Files :
            /\ J[v][g].step = acquiring[v][g].step
            /\ J[v][g].name = acquiring[v][g].name
            /\ J[v][g].into = acquiring[v][g].into
            /\ acquiring[v][g].shared => J[v][g].shared
            /\ acquiring[v][g].step \in Holding /\ acquiring[v][g].name = name => J[v][g].shared
    BY JoinedFacts
  <2> HIDE DEF J
  <2>2. new \in Acquisition /\ new.step = "failed"
    BY <2>1 DEF Acquisition
  <2>3. K = [J EXCEPT ![w] = [J[w] EXCEPT ![f] = new]]
    OBVIOUS
  <2> HIDE DEF new, K
  <2>4. /\ K \in [Workers -> [Files -> Acquisition]] /\ K[w][f].step = "failed"
        /\ \A v \in Workers, g \in Files : <<v, g>> # <<w, f>> => K[v][g] = J[v][g]
    BY <2>1, <2>2, <2>3
  <2>5. acquiring' = Moved(K, name, None)
    BY <1>3 DEF K, J
  <2>6. \A v \in Workers, g \in Files :
            /\ acquiring'[v][g].step = K[v][g].step
            /\ acquiring'[v][g].name = K[v][g].name
            /\ acquiring'[v][g].shared = K[v][g].shared
            /\ acquiring'[v][g].into =
                IF K[v][g].step = "write" /\ K[v][g].into = name THEN None ELSE K[v][g].into
    BY <2>0, <2>4, <2>5, MovedFacts
  <2>7. \A n \in Names \ {name} : parts'[n] = parts[n]
    BY <1>3, <2>0 DEF CacheTypeOK
  <2>8. acquiring'[w][f].step = "failed"
    BY <2>4, <2>6
  <2>9. OwnedAt(w, f)'
    BY <2>8 DEF OwnedAt, Holding
  <2>10. Elsewhere(w, f)
    BY <2>1, <2>4, <2>6 DEF Elsewhere
  <2>11. \A v \in Workers, g \in Files :
            <<v, g>> # <<w, f>> /\ acquiring[v][g].step \in Holding
                /\ acquiring[v][g].name = name => acquiring'[v][g].shared
    BY <2>1, <2>4, <2>6
  <2>12. \A v \in Workers, g \in Files :
            <<v, g>> # <<w, f>> /\ acquiring[v][g].step = "write" =>
                /\ acquiring'[v][g].into \in {acquiring[v][g].name, None} \cup spoiled'
                /\ ~acquiring'[v][g].shared => acquiring'[v][g].into = acquiring[v][g].into
    <3> SUFFICES ASSUME NEW v \in Workers, NEW g \in Files, <<v, g>> # <<w, f>>,
                        acquiring[v][g].step = "write"
                 PROVE  /\ acquiring'[v][g].into \in {acquiring[v][g].name, None} \cup spoiled'
                        /\ ~acquiring'[v][g].shared => acquiring'[v][g].into = acquiring[v][g].into
      OBVIOUS
    <3>1. OwnedAt(v, g)
      BY DEF Owned
    <3>4. /\ K[v][g] = J[v][g] /\ K[v][g].step = "write"
          /\ K[v][g].into = acquiring[v][g].into
      BY <2>1, <2>4
    <3>2. ~acquiring'[v][g].shared => ~acquiring[v][g].shared /\ acquiring[v][g].name # name
      BY <2>10, <2>11 DEF Holding, Elsewhere
    <3>3. acquiring'[v][g].into =
                IF acquiring[v][g].into = name THEN None ELSE acquiring[v][g].into
      BY <2>6, <3>4
    <3> QED
      BY <1>1, <3>1, <3>2, <3>3 DEF OwnedAt, Holding
  <2>13. acquiring'[w][f].step \notin Holding
    BY <2>8 DEF Holding
  <2> QED
    BY <2>7, <2>9, <2>10, <2>11, <2>12, <2>13, OwnedStep
<1>4. CASE Goes(w, f, "failed") /\ UNCHANGED parts
  BY <1>1, <1>4, RestsOwned DEF Holding
<1> QED
  BY <1>2, <1>3, <1>4 DEF Open

\* A staging file that takes the place of what was in the slot: streams into
\* what was there go nowhere, those into the file follow it when it is shared.
LEMMA RenamesOwned ==
    ASSUME CacheTypeOK, Handled, Owned, NEW w \in Workers, NEW f \in Files,
           acquiring[w][f].step \in {"rename", "again"}, Renames(w, f)
    PROVE  Owned'
<1> DEFINE mine == acquiring[w][f].name
           G == Going(w, f, Promoted(f))
           M == Moved(G, f, None)
<1>1. mine \in Names /\ Here(w, f, Promoted(f)) /\ Promoted(f) \in {"done", "hint"}
  BY TakesFacts DEF Holding, Promoted
<1>2. /\ G \in [Workers -> [Files -> Acquisition]]
      /\ \A v \in Workers, g \in Files : <<v, g>> # <<w, f>> => G[v][g] = acquiring[v][g]
  BY <1>1, GoingFacts DEF Running
<1>3. acquiring' = Moved(M, mine, f)
  BY DEF Renames
<1> HIDE DEF G
<1>4. /\ M \in [Workers -> [Files -> Acquisition]]
      /\ \A v \in Workers, g \in Files :
            /\ M[v][g].step = G[v][g].step
            /\ M[v][g].into =
                IF G[v][g].step = "write" /\ G[v][g].into = f THEN None ELSE G[v][g].into
  BY <1>2, MovedFacts
<1> HIDE DEF M
<1>5. \A v \in Workers, g \in Files :
        acquiring'[v][g].into =
            IF M[v][g].step = "write" /\ M[v][g].into = mine THEN f ELSE M[v][g].into
  BY <1>1, <1>3, <1>4, MovedFacts
<1>6. OwnedAt(w, f)'
  BY <1>1 DEF OwnedAt, Here, Holding
<1>7. \A v \in Workers, g \in Files :
            <<v, g>> # <<w, f>> /\ acquiring[v][g].step \in Holding
                /\ acquiring[v][g].name = mine =>
                    acquiring'[v][g].shared /\ acquiring[w][f].shared
  BY <1>1, SharersKnow DEF Here, Elsewhere, Holding
<1>8. ASSUME NEW v \in Workers, NEW g \in Files, <<v, g>> # <<w, f>>,
             acquiring[v][g].step = "write"
      PROVE  /\ acquiring'[v][g].into \in {acquiring[v][g].name, None} \cup spoiled'
             /\ ~acquiring'[v][g].shared => acquiring'[v][g].into = acquiring[v][g].into
  <2> DEFINE old == acquiring[v][g]
  <2>1. OwnedAt(v, g)
    BY DEF Owned
  <2>2. /\ old.into \in {old.name, None} \cup spoiled
        /\ ~old.shared => old.into = old.name
        /\ old.name \in Names
    BY <1>8, <2>1 DEF OwnedAt, Holding, Handled
  <2>3. acquiring'[v][g].into =
            IF old.into = f THEN (IF None = mine THEN f ELSE None)
            ELSE IF old.into = mine THEN f ELSE old.into
    <3>1. G[v][g] = old
      BY <1>2, <1>8
    <3>2. M[v][g].step = "write" /\ M[v][g].into = IF old.into = f THEN None ELSE old.into
      BY <1>4, <1>8, <3>1
    <3>3. acquiring'[v][g].into =
            IF M[v][g].step = "write" /\ M[v][g].into = mine THEN f ELSE M[v][g].into
      BY <1>5
    <3> QED
      BY <3>2, <3>3
  <2>4. None # mine /\ None # f /\ mine # f /\ old.name # f /\ mine \notin spoiled /\ f \in Files
    BY <1>1, <2>2, NamesAssumption, NoneAssumption DEF CacheTypeOK
  <2>5. spoiled' = IF acquiring[w][f].shared THEN spoiled \cup {f} ELSE spoiled \ {f}
    BY DEF Renames
  <2>6. old.into = mine => old.name = mine
    BY <2>2, <2>4
  <2>7. old.name = mine => acquiring[w][f].shared /\ acquiring'[v][g].shared
    BY <1>7, <1>8 DEF Holding
  <2>8. acquiring'[v][g].into \in {old.name, None} \cup spoiled'
    BY <2>2, <2>3, <2>4, <2>5, <2>6, <2>7
  <2>9. old.shared => acquiring'[v][g].shared
    BY <1>1, <1>8 DEF Here, Elsewhere
  <2>10. ~acquiring'[v][g].shared => acquiring'[v][g].into = old.into
    BY <2>2, <2>3, <2>4, <2>6, <2>7, <2>9
  <2> QED
    BY <2>8, <2>10
<1>9. \A n \in Names \ {mine} : parts'[n] = parts[n]
  BY DEF Renames, CacheTypeOK
<1>10. Elsewhere(w, f) /\ acquiring'[w][f].step \notin Holding
  BY <1>1 DEF Here, Holding
<1> HIDE DEF mine
<1> QED
  BY <1>6, <1>7, <1>8, <1>9, <1>10, OwnedStep

\* Clearing a slot detaches the streams into what was there.
LEMMA RemoveOwned ==
    ASSUME CacheTypeOK, Handled, Owned, NEW w \in Workers, NEW f \in Files,
           acquiring[w][f].step = "remove",
           acquiring' = Moved(Going(w, f, "again"), f, None), UNCHANGED <<parts, spoiled>>
    PROVE  Owned'
<1> DEFINE mine == acquiring[w][f].name
<1>1. mine \in Names /\ Here(w, f, "again") /\ acquiring[w][f].step \in Holding
  BY TakesFacts DEF Holding
<1>2. \A v \in Workers, g \in Files : <<v, g>> # <<w, f>> =>
        acquiring'[v][g].into =
            IF acquiring[v][g].step = "write" /\ acquiring[v][g].into = f THEN None
            ELSE acquiring[v][g].into
  BY GoesFacts DEF Running
<1>3. /\ acquiring'[w][f].step = "again" /\ acquiring'[w][f].name = mine
      /\ acquiring'[w][f].shared = acquiring[w][f].shared
  BY <1>1 DEF Here, Holding
<1>4. OwnedAt(w, f)'
  <2>1. OwnedAt(w, f)
    BY DEF Owned
  <2>2. \A v \in Workers, g \in Files :
            <<v, g>> # <<w, f>> /\ acquiring'[v][g].step \in Holding =>
                /\ acquiring[v][g].step \in Holding
                /\ acquiring'[v][g].name = acquiring[v][g].name
    BY <1>1 DEF Here, Elsewhere
  <2> QED
    BY <1>1, <1>3, <2>1, <2>2 DEF OwnedAt
<1>5. \A v \in Workers, g \in Files :
            <<v, g>> # <<w, f>> /\ acquiring[v][g].step \in Holding
                /\ acquiring[v][g].name = mine => acquiring'[v][g].shared
  BY <1>1, SharersKnow DEF Here, Elsewhere
<1>6. ASSUME NEW v \in Workers, NEW g \in Files, <<v, g>> # <<w, f>>,
             acquiring[v][g].step = "write"
      PROVE  /\ acquiring'[v][g].into \in {acquiring[v][g].name, None} \cup spoiled'
             /\ ~acquiring'[v][g].shared => acquiring'[v][g].into = acquiring[v][g].into
  <2>1. OwnedAt(v, g)
    BY DEF Owned
  <2>2. ~acquiring'[v][g].shared => ~acquiring[v][g].shared
    BY <1>1, <1>6 DEF Here, Elsewhere
  <2>3. acquiring[v][g].name # f
    BY <1>6, NamesAssumption DEF Handled, Holding
  <2> QED
    BY <1>2, <1>6, <2>1, <2>2, <2>3 DEF OwnedAt, Holding
<1>7. Elsewhere(w, f)
  BY <1>1 DEF Here
<1> HIDE DEF mine
<1> QED
  BY <1>3, <1>4, <1>5, <1>6, <1>7, OwnedStep

\* Every step of an acquisition keeps the store sound.
LEMMA AcquireSound ==
    ASSUME RInv, SInv, NEW w \in Workers, NEW f \in Files, Acquire(w, f)
    PROVE  SInv'
<1>1. CacheTypeOK /\ Handled /\ Owned /\ StoreIsSound
  BY DEF RInv, TypeOK, SInv
<1>2. CASE Look(w, f)
  <2>1. PICK step \in {"done", "open", "failed"} : Goes(w, f, step)
    BY <1>2 DEF Look
  <2>2. UNCHANGED <<store, parts, spoiled>> /\ acquiring[w][f].step = "look"
    BY <1>2 DEF Look, cache, At
  <2>3. Owned'
    BY <1>1, <2>1, <2>2, RestsOwned DEF Holding
  <2> QED
    BY <1>1, <2>2, <2>3 DEF SInv, StoreIsSound
<1>3. CASE Open(w, f)
  <2>1. UNCHANGED <<store, spoiled>>
    BY <1>3 DEF Open
  <2> QED
    BY <1>1, <1>3, <2>1, OpenOwned DEF SInv, StoreIsSound
<1>4. CASE Write(w, f)
  <2>1. /\ acquiring[w][f].step = "write" /\ UNCHANGED spoiled
        /\ acquiring[w][f].name \in Names
    BY <1>1, <1>4 DEF Write, At, Handled, Holding
  <2>2. OwnedAt(w, f)
    BY <1>1 DEF Owned
  <2>3. CASE Discards(w, f, "failed") /\ UNCHANGED store
    BY <1>1, <2>1, <2>3, DiscardsOwned DEF SInv, StoreIsSound, Holding
  <2> DEFINE into == acquiring[w][f].into
             mine == acquiring[w][f].name
  <2>4. CASE /\ store' = IF into \in Files THEN [store EXCEPT ![into] = Onto(@, f)] ELSE store
             /\ parts' = IF into \in Names THEN [parts EXCEPT ![into] = Onto(@, f)] ELSE parts
             /\ Goes(w, f, "rename")
    <3>1. /\ into \in {mine, None} \cup spoiled
          /\ ~acquiring[w][f].shared => into = mine /\ parts[mine] = "empty"
      BY <2>1, <2>2 DEF OwnedAt, Holding
    <3>2. None \notin Names /\ spoiled \cap Names = {} /\ mine \notin Files /\ None \notin Files
      BY <1>1, <2>1, NamesAssumption, NoneAssumption DEF CacheTypeOK
    <3>3. StoreIsSound'
      <4>1. CASE into \in Files
        <5>1. into \in spoiled
          BY <3>1, <3>2, <4>1
        <5> QED
          BY <1>1, <2>1, <2>4, <4>1, <5>1 DEF StoreIsSound, CacheTypeOK
      <4>2. CASE into \notin Files
        BY <1>1, <2>1, <2>4, <4>2 DEF StoreIsSound
      <4> QED
        BY <4>1, <4>2
    <3>4. \A n \in Names \ {mine} : parts'[n] = parts[n]
      <4>1. into \in Names => into = mine
        BY <3>1, <3>2
      <4> QED
        BY <1>1, <2>4, <4>1 DEF CacheTypeOK
    <3>5. ~acquiring[w][f].shared => parts'[mine] = f
      BY <1>1, <2>1, <2>4, <3>1 DEF Onto, CacheTypeOK
    <3>6. Owned'
      BY <1>1, <2>1, <2>4, <3>4, <3>5, WritesOwned
    <3> QED
      BY <3>3, <3>6 DEF SInv
  <2> QED
    BY <1>4, <2>3, <2>4 DEF Write
<1>5. CASE Renames(w, f) /\ acquiring[w][f].step \in {"rename", "again"}
  <2>1. Owned'
    BY <1>1, <1>5, RenamesOwned
  <2>2. OwnedAt(w, f)
    BY <1>1 DEF Owned
  <2>3. ~acquiring[w][f].shared => parts[acquiring[w][f].name] = f
    BY <1>5, <2>2 DEF OwnedAt, Holding
  <2>4. StoreIsSound'
    BY <1>1, <1>5, <2>3 DEF StoreIsSound, CacheTypeOK, Renames
  <2> QED
    BY <2>1, <2>4 DEF SInv
<1>6. CASE /\ CannotRename(w, f, "retry") \/ CannotRename(w, f, "failed")
           /\ acquiring[w][f].step \in {"rename", "again"}
  <2>1. PICK step \in {"retry", "failed"} : Goes(w, f, step)
    BY <1>6 DEF CannotRename
  <2>2. UNCHANGED <<store, parts, spoiled>>
    BY <1>6 DEF CannotRename, cache
  <2>3. ~acquiring[w][f].shared => parts[acquiring[w][f].name] = f
    BY <1>1, <1>6 DEF Owned, OwnedAt, Holding
  <2>4. Owned'
    BY <1>1, <1>6, <2>1, <2>2, <2>3, RestsOwned DEF Holding
  <2> QED
    BY <1>1, <2>2, <2>4 DEF SInv, StoreIsSound
<1>7. CASE Retry(w, f)
  <2>1. acquiring[w][f].step = "retry" /\ UNCHANGED <<store, spoiled>>
    BY <1>7 DEF Retry, At
  <2>2. ~acquiring[w][f].shared => parts[acquiring[w][f].name] = f
    BY <1>1, <2>1 DEF Owned, OwnedAt, Holding
  <2>3. CASE \E step \in {"done", "hint", "failed"} : Discards(w, f, step)
    BY <1>1, <2>1, <2>3, DiscardsOwned DEF SInv, StoreIsSound, Holding
  <2>4. CASE UNCHANGED parts /\ \E step \in {"again", "remove"} : Goes(w, f, step)
    <3>1. Owned'
      BY <1>1, <2>1, <2>2, <2>4, RestsOwned DEF Holding
    <3> QED
      BY <1>1, <2>1, <3>1 DEF SInv, StoreIsSound
  <2>5. Promoted(f) \in {"done", "hint"}
    BY DEF Promoted
  <2> QED
    BY <1>7, <2>3, <2>4, <2>5 DEF Retry
<1>8. CASE RemoveCorrupt(w, f)
  <2>1. acquiring[w][f].step = "remove" /\ UNCHANGED <<parts, spoiled>>
    BY <1>8 DEF RemoveCorrupt, At
  <2>2. CASE /\ store' = [store EXCEPT ![f] = None]
             /\ acquiring' = Moved(Going(w, f, "again"), f, None)
    <3>1. Owned'
      BY <1>1, <2>1, <2>2, RemoveOwned
    <3> QED
      BY <1>1, <2>1, <2>2, <3>1 DEF SInv, StoreIsSound, CacheTypeOK
  <2>3. CASE Goes(w, f, "failed") /\ UNCHANGED store
    <3>1. Owned'
      BY <1>1, <2>1, <2>3, RestsOwned DEF Holding
    <3> QED
      BY <1>1, <2>1, <2>3, <3>1 DEF SInv, StoreIsSound
  <2> QED
    BY <1>8, <2>2, <2>3 DEF RemoveCorrupt
<1>9. CASE Hint(w, f)
  <2>1. PICK step \in {"done", "failed"} : Goes(w, f, step)
    BY <1>9 DEF Hint
  <2>2. UNCHANGED <<store, parts, spoiled>> /\ acquiring[w][f].step = "hint"
    BY <1>9 DEF Hint, At
  <2>3. Owned'
    BY <1>1, <2>1, <2>2, RestsOwned DEF Holding
  <2> QED
    BY <1>1, <2>2, <2>3 DEF SInv, StoreIsSound
<1> QED
  BY <1>2, <1>3, <1>4, <1>5, <1>6, <1>7, <1>8, <1>9 DEF Acquire, Rename, RenameAgain, At

\* Whatever does not touch a staging file or a slot under a stream, or starts a
\* command afresh, leaves every staging file with its owner.
LEMMA OthersOwned ==
    ASSUME Owned, UNCHANGED parts, spoiled \subseteq spoiled',
           \A v \in Workers, g \in Files : acquiring'[v][g].step \in Holding =>
                acquiring'[v][g] = acquiring[v][g]
    PROVE  Owned'
<1> SUFFICES ASSUME NEW v \in Workers, NEW g \in Files PROVE OwnedAt(v, g)'
  BY DEF Owned
<1>1. OwnedAt(v, g)
  BY DEF Owned
<1> QED
  BY <1>1 DEF OwnedAt, Holding

LEMMA InitSInv == Init => SInv
<1> SUFFICES ASSUME Init PROVE SInv
  OBVIOUS
<1>1. \A w \in Workers, f \in Files : acquiring[w][f].step = "idle"
  BY DEF Init, CacheInit, NoAcquisition
<1>2. Owned
  BY <1>1 DEF Owned, OwnedAt, Holding
<1>3. StoreIsSound
  BY DEF Init, CacheInit, StoreIsSound
<1> QED
  BY <1>2, <1>3 DEF SInv

\* A command that starts its acquisitions over.
LEMMA RestartSound ==
    ASSUME RInv, SInv, NEW w \in Workers, NEW starts \in [Files -> Acquisition],
           \A f \in Files : starts[f].step \notin Holding,
           acquiring' = [acquiring EXCEPT ![w] = starts],
           named' = [named EXCEPT ![w] = 0] \/ UNCHANGED named,
           UNCHANGED <<store, parts, spoiled>>
    PROVE  SInv'
<1>1. /\ acquiring'[w] = starts
      /\ \A v \in Workers \ {w} : acquiring'[v] = acquiring[v] /\ named'[v] = named[v]
  BY DEF RInv, TypeOK, CacheTypeOK
<1>2. Owned'
  BY <1>1, OthersOwned DEF SInv
<1> QED
  BY <1>2 DEF SInv, StoreIsSound

LEMMA InstallSound ==
    ASSUME RInv, SInv, NEW w \in Workers, Install(w)
    PROVE  SInv'
<1>1. CASE UNCHANGED <<cache, spoiled, acquiring>>
  BY <1>1 DEF cache, SInv, Owned, OwnedAt, StoreIsSound
<1>2. CASE Validate(w)
  <2> DEFINE starts == [f \in Files |->
                    IF f \in Plan[doing[w].runtime] THEN [NoAcquisition EXCEPT !.step = "look"]
                    ELSE NoAcquisition]
  <2>1. starts \in [Files -> Acquisition] /\ \A f \in Files : starts[f].step \notin Holding
    BY DEF Acquisition, NoAcquisition, Running, Holding
  <2>2. UNCHANGED <<store, parts, spoiled, hints>>
    BY <1>2 DEF Validate
  <2>3. CASE UNCHANGED <<acquiring, named>>
    BY <1>1, <2>2, <2>3 DEF cache
  <2>4. CASE acquiring' = [acquiring EXCEPT ![w] = starts] /\ named' = [named EXCEPT ![w] = 0]
    <3> HIDE DEF starts
    <3> QED
      BY <2>1, <2>2, <2>4, RestartSound
  <2> QED
    BY <1>2, <2>3, <2>4 DEF Validate
<1>3. CASE Acquired(w) \/ Fetched(w)
  <2>1. Settled[w] \in [Files -> Acquisition] /\ \A f \in Files : Settled[w][f].step \notin Holding
    BY DEF Settled, Acquisition, NoAcquisition, Holding
  <2>2. acquiring' = [acquiring EXCEPT ![w] = Settled[w]] /\ UNCHANGED <<named, store, parts, spoiled>>
    BY <1>3 DEF Acquired, Fetched, CacheRests, cache
  <2> QED
    BY <2>1, <2>2, RestartSound
<1>4. ASSUME NEW f \in Files, Fetch(w, f) PROVE SInv'
  <2>1. PICK one \in Acquisition : one = acquiring[w][f]
    BY DEF RInv, TypeOK, CacheTypeOK
  <2> DEFINE new == [one EXCEPT !.step = "look"]
             starts == [acquiring[w] EXCEPT ![f] = new]
  <2>2. new \in Acquisition /\ new.step = "look"
    BY <2>1 DEF Acquisition, Running
  <2>3. acquiring' = [acquiring EXCEPT ![w] = starts]
    BY <1>4, <2>1 DEF Fetch
  <2> HIDE DEF new
  <2>4. \A g \in Files : acquiring[w][g].step \notin Running
    BY <1>4 DEF Fetch, RInv, Waited
  <2>5. PICK fresh \in [Files -> Acquisition] : fresh = starts
    BY <2>2 DEF RInv, TypeOK, CacheTypeOK
  <2>6. \A g \in Files : fresh[g].step \notin Holding
    BY <2>2, <2>4, <2>5 DEF RInv, TypeOK, CacheTypeOK, Holding, Running
  <2>7. named' = [named EXCEPT ![w] = 0] /\ UNCHANGED <<store, parts, spoiled>>
    BY <1>4 DEF Fetch
  <2> HIDE DEF starts
  <2> QED
    BY <2>3, <2>5, <2>6, <2>7, RestartSound
<1>5. ASSUME NEW f \in Files, Copy(w, f) PROVE SInv'
  BY <1>1, <1>5 DEF Copy, CacheRests
<1>6. ASSUME NEW r \in Runtimes, Enter(w, r) PROVE SInv'
  BY <1>1, <1>6 DEF Enter, CacheRests
<1>7. CASE \/ Stage(w) \/ Check(w) \/ Retire(w) \/ Promote(w) \/ Restore(w) \/ Clean(w) \/ Final(w)
  BY <1>1, <1>7 DEF Stage, Check, Retire, Promote, Restore, Clean, Final, CacheRests
<1> QED
  BY <1>2, <1>3, <1>4, <1>5, <1>6, <1>7 DEF Install

LEMMA StepSInv == RInv /\ SInv /\ [Next]_vars => SInv'
<1> SUFFICES ASSUME RInv, SInv, [Next]_vars PROVE SInv'
  OBVIOUS
<1>1. ASSUME NEW w \in Workers, Install(w) PROVE SInv'
  BY <1>1, InstallSound
<1>2. ASSUME NEW w \in Workers, Download(w) PROVE SInv'
  BY <1>2, AcquireSound DEF Download
<1>3. ASSUME NEW f \in Files, SpoilStore(f) PROVE SInv'
  <2>1. UNCHANGED <<parts, named, acquiring>>
    BY <1>3 DEF SpoilStore
  <2>2. Owned'
    <3>1. spoiled \subseteq spoiled'
      BY <1>3 DEF SpoilStore
    <3> QED
      BY <2>1, <3>1, OthersOwned DEF SInv
  <2>3. StoreIsSound'
    BY <1>3 DEF SpoilStore, SInv, StoreIsSound, RInv, TypeOK, CacheTypeOK
  <2> QED
    BY <2>2, <2>3 DEF SInv
<1>4. ASSUME NEW r \in Runtimes, NEW f \in Files, SpoilRuntime(r, f) PROVE SInv'
  BY <1>4 DEF SpoilRuntime, CacheRests, cache, SInv, Owned, OwnedAt, StoreIsSound
<1>5. CASE Crash
  <2>1. \A v \in Workers, g \in Files : acquiring'[v][g].step \notin Holding
    BY <1>5 DEF Crash, Settled, NoAcquisition, Holding
  <2>2. UNCHANGED <<store, parts, spoiled>>
    BY <1>5 DEF Crash, CacheRests, cache
  <2>3. Owned'
    BY <2>1 DEF Owned, OwnedAt, Holding
  <2> QED
    BY <2>2, <2>3 DEF SInv, StoreIsSound
<1>6. CASE UNCHANGED vars
  BY <1>6 DEF vars, cacheVars, cache, SInv, Owned, OwnedAt, StoreIsSound
<1> QED
  BY <1>1, <1>2, <1>3, <1>4, <1>5, <1>6 DEF Next, Outside

\* Every slot of the store that nobody else wrote to, and that was not last
\* filled from a staging file two acquisitions had named alike, is empty or has
\* the bytes its digest names, and the runtimes copied from the store are whole:
\* for any number of acquisitions of one digest or of many, each failing or the
\* launcher dying at any step.
THEOREM StoreSoundness == Spec => []RuntimesHold
<1>1. Init => SInv
  BY InitSInv
<1>2. RInv /\ SInv /\ [Next]_vars => SInv'
  BY StepSInv
<1>3. SInv => StoreIsSound
  BY DEF SInv
<1>4. Spec => []StoreIsSound
  BY <1>1, <1>2, <1>3, RuntimeInvariance, PTL DEF Spec
<1>5. RuntimesHold <=> StoreIsSound /\ RuntimeHolds
  BY DEF RuntimesHold
<1> QED
  BY <1>4, <1>5, RuntimeSafety, PTL

=============================================================================
