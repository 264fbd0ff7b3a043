----------------------------- MODULE ContentGraph -----------------------------
(***************************************************************************)
(* The planner of provider content: which projects a request reaches, what *)
(* of them is to be downloaded, and the records an install, an update or a *)
(* removal leaves.  It reads no file and writes nothing; ContentChanges    *)
(* carries its plans out.                                                  *)
(***************************************************************************)
EXTENDS Naturals, FiniteSets

CONSTANTS
    Projects,     \* what the provider publishes, in two versions each
    Catalogues,   \* what the versions may require, see demands
    None

Versions == {"v1", "v2"}
Newest == "v2"
Origins == {"direct", "dependency", "recovered"}

ASSUME ProjectsAssumption == IsFiniteSet(Projects)
ASSUME CataloguesAssumption ==
    Catalogues \subseteq
        [Projects -> [Versions -> [Projects -> Versions \cup {"any", None}]]]
ASSUME NoneAssumption == None \notin Projects \cup Versions \cup {"any"}

VARIABLE demands  \* demands[p][v][q]: what v of p requires of q, never changed

\* A record of content-managed.json.
Record ==
    [version : Versions, retained : BOOLEAN, requires : SUBSET Projects,
     origin : Origins, pinned : BOOLEAN]
Records == [Projects -> Record \cup {None}]

Recorded(r) == {p \in Projects : r[p] # None}
RequiredBy(r, p) == {q \in Recorded(r) : p \in r[q].requires}
Meets(demand, v) == demand \in {"any", v}

-----------------------------------------------------------------------------
(* The graph a request reaches, versions[p] being the version of p in it   *)

Needs(p, v) == {q \in Projects : demands[p][v][q] # None}

Closure(roots, versions) ==
    {p \in Projects :
        \A S \in SUBSET Projects :
            (roots \subseteq S /\ \A q \in S : Needs(q, versions[q]) \subseteq S)
            => p \in S}

\* The versions Graph::visit settles on: a dependency keeps its installed
\* version, or takes the newest, unless one that requires it names another
\* and comes first in the order of the visit; a cycle is refused.
Resolves(r, roots, versions) ==
    LET reached == Closure(roots, versions)
        exact(p) ==
            {demands[q][versions[q]][p] : q \in reached} \ {"any", None}
    IN /\ \A S \in (SUBSET reached) \ {{}} :
            \E p \in S : Needs(p, versions[p]) \cap S = {}
       /\ \A p \in Projects :
        /\ p \in reached => exact(p) \subseteq {versions[p]}
        /\ (p \in reached \ roots /\ exact(p) = {}) =>
            versions[p] = IF r[p] = None THEN Newest ELSE r[p].version
        /\ p \notin reached \cup roots => versions[p] = "v1"

\* An install graph swaps no installed version for another.
Installable(r, root, versions) ==
    /\ Resolves(r, {root}, versions)
    /\ \A p \in Closure({root}, versions) :
        r[p] # None => r[p].version = versions[p]

InstallPlan(r, root, versions) == Closure({root}, versions) \ Recorded(r)

UpdatePlan(r, roots, versions) ==
    roots \cup {p \in Closure(roots, versions) :
        r[p] = None \/ r[p].version # versions[p]}

-----------------------------------------------------------------------------
(* The records a request leaves                                            *)

\* What nothing retains, directly or through what requires it.
Orphans(r) ==
    UNION {S \in SUBSET Recorded(r) :
        \A p \in S : ~r[p].retained /\ RequiredBy(r, p) \subseteq S}

Prune(r) == [p \in Projects |-> IF p \in Orphans(r) THEN None ELSE r[p]]

Edges(p, v, known) == Needs(p, v) \cap known

\* ContentState::validate: every edge is recorded, and none closes a cycle.
Valid(r) ==
    /\ \A p \in Recorded(r) : r[p].requires \subseteq Recorded(r) \ {p}
    /\ \A S \in (SUBSET Recorded(r)) \ {{}} :
        \E p \in S : r[p].requires \cap S = {}

InstalledState(r, plan, direct, versions) ==
    LET known == Recorded(r) \cup plan
    IN [p \in Projects |->
        IF p \in plan
        THEN [version |-> versions[p], retained |-> p = direct,
              requires |-> Edges(p, versions[p], known),
              origin |-> IF p = direct THEN "direct" ELSE "dependency",
              pinned |-> FALSE]
        ELSE r[p]]

Removable(r, p) == r[p] # None /\ (r[p].retained \/ RequiredBy(r, p) = {})

RemovedState(r, p) == Prune([r EXCEPT ![p].retained = FALSE])

Superseded(r, plan) == plan \cap Recorded(r)

Updatable(r, roots, plan) ==
    /\ \A p \in roots : r[p] # None /\ r[p].retained
    /\ \A p \in roots : RequiredBy(r, p) \subseteq roots
    /\ roots \subseteq plan
    /\ \A p \in Superseded(r, plan) \ roots :
        /\ ~r[p].retained /\ ~r[p].pinned
        /\ RequiredBy(r, p) \subseteq Superseded(r, plan)

UpdatedState(r, roots, plan, versions) ==
    LET known == Recorded(r) \cup plan
    IN Prune([p \in Projects |->
        IF p \in plan
        THEN [version |-> versions[p], retained |-> p \in roots,
              requires |-> Edges(p, versions[p], known),
              origin |-> IF p \in roots THEN r[p].origin ELSE "dependency",
              pinned |-> p \in roots /\ r[p].pinned]
        ELSE r[p]])
=============================================================================
