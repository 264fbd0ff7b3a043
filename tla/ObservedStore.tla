---------------------------- MODULE ObservedStore ----------------------------
(***************************************************************************)
(* The store of artifacts that are published without a digest.  The first  *)
(* acquisition of an address records what it received there, in a document *)
(* named for the digest of it; a later one takes the recorded bytes from   *)
(* the store, or compares what it receives with the record.                *)
(*                                                                         *)
(* Acquisitions run side by side without a lock, also of one address; what *)
(* is published may change, and what is stored may be damaged.             *)
(***************************************************************************)
EXTENDS Naturals

CONSTANTS
    Addresses,
    Contents,      \* what may be published there, named by its digest
    Workers,
    MaxRounds,     \* bound: acquisitions
    MaxChanges,    \* bound: publications
    MaxFaults,     \* bound: failures, damage and restarts
    None

VARIABLES
    published,     \* what each address serves
    objects,       \* the file in the slot of each digest: None, "whole", "corrupt"
    records,       \* <digest>.json: the address in it, or None
    temporary,     \* <digest>.json.tmp
    job,           \* the acquisition of each worker
    rounds, changes, faults,
    \* the past
    served,        \* what each address has served
    given,         \* what acquisitions of each address returned
    excused        \* addresses whose record is gone or not the only one

store == <<objects, records, temporary>>
bounds == <<rounds, changes, faults>>
vars == <<published, store, job, bounds, served, given, excused>>

Idle == [at |-> "idle", address |-> None, pin |-> None, got |-> None]

Goes(w, step) == job' = [job EXCEPT ![w].at = step]

Fault == faults < MaxFaults /\ faults' = faults + 1

-----------------------------------------------------------------------------

Begin(w) ==
    /\ job[w].at = "idle" /\ rounds < MaxRounds /\ rounds' = rounds + 1
    /\ \E a \in Addresses : job' = [job EXCEPT ![w] = [Idle EXCEPT !.at = "pin", !.address = a]]
    /\ UNCHANGED <<published, store, changes, faults, served, given, excused>>

\* observed_pin_for: the first record in the directory with this address; in
\* which order they are listed is not said.
FindPin(w) ==
    LET wanted == job[w].address
        known == {c \in Contents : records[c] = wanted}
    IN  /\ job[w].at = "pin"
        /\ \E pin \in IF known = {} THEN {None} ELSE known :
            job' = [job EXCEPT ![w].pin = pin, ![w].at = IF pin = None THEN "download" ELSE "hit"]
        /\ UNCHANGED <<published, store, bounds, served, given, excused>>

Returns(w, c) ==
    /\ job' = [job EXCEPT ![w] = Idle]
    /\ given' = [given EXCEPT ![job[w].address] = @ \cup {c}]

Fails(w) == job' = [job EXCEPT ![w] = Idle] /\ UNCHANGED given

\* The recorded object, if its bytes still are those; one that cannot be read
\* is not replaced.
Hit(w) ==
    /\ job[w].at = "hit"
    /\ \/ /\ objects[job[w].pin] = "whole" /\ Returns(w, job[w].pin)
          /\ UNCHANGED faults
       \/ /\ objects[job[w].pin] # "whole" /\ Goes(w, "download")
          /\ UNCHANGED <<given, faults>>
       \/ Fault /\ Fails(w)
    /\ UNCHANGED <<published, store, rounds, changes, served, excused>>

\* download_observed, as a transfer ends.
Download(w) ==
    LET wanted == job[w].address
        c == published[wanted]
    IN  /\ job[w].at = "download"
        /\ \/ /\ job[w].pin \in {None, c}
              /\ job' = [job EXCEPT ![w].got = c, ![w].at = "promote"]
              /\ served' = [served EXCEPT ![wanted] = @ \cup {c}]
              /\ UNCHANGED <<given, faults>>
           \/ /\ job[w].pin \notin {None, c}
              /\ Fails(w) /\ UNCHANGED <<served, faults>>
           \/ Fault /\ Fails(w) /\ UNCHANGED served
        /\ UNCHANGED <<published, store, rounds, changes, excused>>

\* Renamed into its slot; when that fails, what is there may do.
Promote(w) ==
    /\ job[w].at = "promote"
    /\ LET Proceed ==
            IF job[w].pin = None THEN Goes(w, "record") /\ UNCHANGED given
            ELSE Returns(w, job[w].got)
       IN  \/ /\ objects' = [objects EXCEPT ![job[w].got] = "whole"]
              /\ Proceed /\ UNCHANGED faults
           \/ /\ Fault /\ UNCHANGED objects
              /\ IF objects[job[w].got] = "whole" THEN Proceed ELSE Fails(w)
    /\ UNCHANGED <<published, records, temporary, rounds, changes, served, excused>>

\* write_observed_record: a sibling, then a rename.
WriteRecord(w) ==
    /\ job[w].at = "record"
    /\ \/ /\ temporary' = [temporary EXCEPT ![job[w].got] = job[w].address]
          /\ Goes(w, "rename") /\ UNCHANGED <<given, faults, excused>>
       \/ /\ Fault /\ temporary' = [temporary EXCEPT ![job[w].got] = None]
          /\ Fails(w) /\ excused' = excused \cup {job[w].address}
    /\ UNCHANGED <<published, objects, records, rounds, changes, served>>

\* It replaces a record of another address that served the same; the sibling
\* may be another's by now, or have been moved away.
RenameRecord(w) ==
    LET c == job[w].got
        wanted == job[w].address
        lost == {records[c], wanted} \ {None, temporary[c]}
    IN  /\ job[w].at = "rename"
        /\ \/ /\ temporary[c] # None
              /\ records' = [records EXCEPT ![c] = temporary[c]]
              /\ temporary' = [temporary EXCEPT ![c] = None]
              /\ excused' = excused \cup lost
                            \cup {b \in {temporary[c]} : \E d \in Contents \ {c} : records[d] = b}
              /\ Returns(w, c) /\ UNCHANGED faults
           \/ /\ temporary[c] = None /\ Fails(w)
              /\ excused' = excused \cup ({wanted} \ {records[c]})
              /\ UNCHANGED <<records, temporary, faults>>
           \/ /\ Fault /\ temporary' = [temporary EXCEPT ![c] = None]
              /\ Fails(w) /\ excused' = excused \cup {wanted}
              /\ UNCHANGED records
    /\ UNCHANGED <<published, objects, rounds, changes, served>>

-----------------------------------------------------------------------------

Publish ==
    /\ changes < MaxChanges /\ changes' = changes + 1
    /\ \E a \in Addresses, c \in Contents :
        c # published[a] /\ published' = [published EXCEPT ![a] = c]
    /\ UNCHANGED <<store, job, rounds, faults, served, given, excused>>

\* An object is damaged or removed from outside; a record becomes unreadable.
Damage ==
    /\ Fault
    /\ \E c \in Contents :
        \/ /\ objects[c] = "whole" /\ \E left \in {None, "corrupt"} : objects' = [objects EXCEPT ![c] = left]
           /\ UNCHANGED <<records, excused>>
        \/ /\ records[c] # None /\ records' = [records EXCEPT ![c] = None]
           /\ excused' = excused \cup {records[c]} /\ UNCHANGED objects
    /\ UNCHANGED <<published, temporary, job, rounds, changes, served, given>>

\* The launcher dies; acquisitions under way have returned nothing.
Crash ==
    /\ Fault
    /\ job' = [w \in Workers |-> Idle]
    /\ UNCHANGED <<published, store, rounds, changes, served, given, excused>>

Init ==
    /\ published \in [Addresses -> Contents]
    /\ objects = [c \in Contents |-> None] /\ records = [c \in Contents |-> None]
    /\ temporary = [c \in Contents |-> None]
    /\ job = [w \in Workers |-> Idle]
    /\ rounds = 0 /\ changes = 0 /\ faults = 0
    /\ served = [a \in Addresses |-> {}] /\ given = [a \in Addresses |-> {}]
    /\ excused = {}

Next ==
    \/ \E w \in Workers :
        \/ Begin(w) \/ FindPin(w) \/ Hit(w) \/ Download(w) \/ Promote(w)
        \/ WriteRecord(w) \/ RenameRecord(w)
    \/ Publish \/ Damage \/ Crash

Spec == Init /\ [][Next]_vars

-----------------------------------------------------------------------------
(* Properties *)

\* The state is of this shape.
TypeOK ==
    /\ objects \in [Contents -> {None, "whole", "corrupt"}]
    /\ records \in [Contents -> Addresses \cup {None}]
    /\ faults \in 0 .. MaxFaults /\ rounds \in 0 .. MaxRounds

\* An acquisition of an address returns bytes that this address has served,
\* never those that another one did, whatever shares the store.
OfItsAddress == \A a \in Addresses : given[a] \subseteq served[a]

\* "content changing under a stable versioned URL fails deliberately"
\* (cache.rs:483): once an address has a record, it never returns other bytes;
\* but a record is lost when it is damaged or cannot be written, when another
\* address serves the same bytes, and when two first acquisitions meet.
ChangeIsNoticed == \A a \in Addresses \ excused : \A c, d \in given[a] : c = d
=============================================================================
