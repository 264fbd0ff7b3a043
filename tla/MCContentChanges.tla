--------------------------- MODULE MCContentChanges ---------------------------
(***************************************************************************)
(* Two mods and a resource pack.  In the first catalogue an update drops a *)
(* requirement or names its version; in the second the three form a chain, *)
(* and updating the pack would pull a mod another one holds.               *)
(***************************************************************************)
EXTENDS ContentChanges

CONSTANTS mod, lib, pack

Nothing == [p \in {mod, lib, pack} |-> None]

MCCatalogues ==
    {[p \in {mod, lib, pack} |->
        CASE p = mod -> [v1 |-> [Nothing EXCEPT ![lib] = "any"],
                         v2 |-> [Nothing EXCEPT ![lib] = "v2"]]
          [] p = pack -> [v1 |-> Nothing, v2 |-> [Nothing EXCEPT ![lib] = "any"]]
          [] p = lib -> [v1 |-> Nothing, v2 |-> Nothing]],
     [p \in {mod, lib, pack} |->
        CASE p = mod -> [v1 |-> [Nothing EXCEPT ![lib] = "v1"], v2 |-> Nothing]
          [] p = pack -> [v1 |-> [Nothing EXCEPT ![mod] = "any"],
                          v2 |-> [Nothing EXCEPT ![lib] = "v2"]]
          [] p = lib -> [v1 |-> Nothing, v2 |-> Nothing]]}

\* The content of an instance fits together at every step: the graph of what is
\* required is whole, and files, records and the enabled packs agree.
ContentHolds == GraphHolds /\ RecordsHold
=============================================================================
