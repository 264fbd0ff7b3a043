------------------------ MODULE MCRegistryDocuments ------------------------
(***************************************************************************)
(* Registries as the launcher may find them: a usual record of each        *)
(* platform in each schema, with one part different at a time; and the     *)
(* configurations that the user may ask for.                               *)
(***************************************************************************)
EXTENDS Naturals, Sequences

CONSTANTS Absent, Bad, None, g1, g2, v1, v2, n1, a, b, PackOne

Variants(usual, part, values) == {[usual EXCEPT ![part] = x] : x \in values}

Wish(game, aurora, kind, version) ==
    [game |-> game, aurora |-> aurora, kind |-> kind, version |-> version, memory |-> 2048,
     arguments |-> "good", window |-> None]
Usual == Wish(g1, TRUE, "fabric", v1)
Plain == Wish(g1, FALSE, "fabric", None)

MCWishes ==
    {Usual, Plain}
        \cup Variants(Usual, "game", {g2, Bad}) \cup Variants(Usual, "version", {None, v2, Bad})
        \cup Variants(Usual, "aurora", {FALSE}) \cup Variants(Usual, "kind", {"neoForge"})
        \cup Variants(Plain, "kind", {"vanilla", "neoForge", "quilt"})
        \cup Variants(Plain, "game", {g2}) \cup Variants(Plain, "version", {v2})
        \cup Variants(Plain, "memory", {511, 512, 32768, 32769})
        \cup Variants(Plain, "arguments", {"bad"})
        \cup Variants(Plain, "window", {<<99, 480>>, <<100, 7680>>, <<854, 7681>>})

Pin(kind, version, client) == [game |-> g1, kind |-> kind, version |-> version, client |-> client]
AuroraPin == Pin("fabric", v1, 1)

Record(pin, desired, pack) ==
    [id |-> a, name |-> n1, state |-> "ready", pin |-> pin, desired |-> desired, pack |-> pack]

Second == Record(AuroraPin, None, Absent)
Third == Record(AuroraPin, Usual, Absent)
Fourth ==
    {Third, Record(Pin("fabric", v1, None), Plain, Absent),
     Record(Pin("vanilla", None, None), [Plain EXCEPT !.kind = "vanilla"], Absent),
     Record(Pin("neoForge", v2, None), [Plain EXCEPT !.kind = "neoForge"], Absent)}
Fifth ==
    {[r EXCEPT !.pack = None] : r \in Fourth}
        \cup {Record(Pin("fabric", v1, None), [Plain EXCEPT !.version = v1], PackOne)}

Varied(r) ==
    {r} \cup Variants(r, "name", {Bad}) \cup Variants(r, "state", {"installing"})
        \cup Variants(r, "pin",
                {Pin("fabric", Bad, 1), Pin("fabric", v1, None), Pin("neoForge", v2, None),
                 Pin("neoForge", v2, 1), Pin("vanilla", v1, None)})
        \cup Variants(r, "pack", {None, PackOne, Bad})
        \cup Variants(r, "desired",
                {None, [Usual EXCEPT !.memory = 1], [Plain EXCEPT !.kind = "vanilla"]})

Registries(schemas, records) == [schema : schemas, records : records]

MCDocuments ==
    Registries({2}, {<<r>> : r \in Varied(Second)})
        \cup Registries({3}, {<<r>> : r \in Varied(Third)})
        \cup Registries({4}, {<<r>> : r \in UNION {Varied(q) : q \in Fourth}})
        \cup Registries({5}, {<<r>> : r \in UNION {Varied(q) : q \in Fifth}})
        \cup Registries({1, 2, 6},
                {<<>>, <<Second>>, <<Second, Second>>, <<Second, [Second EXCEPT !.id = b]>>,
                 <<[Second EXCEPT !.id = Bad]>>})

MCManifest == {[client |-> 1, game |-> g1, loader |-> v1], [client |-> 2, game |-> g1, loader |-> v2]}

Entry(version, stable) == [version |-> version, stable |-> stable]
MCListed ==
    [kind \in {"fabric", "neoForge"} |-> [game \in {g1, g2} |->
        IF kind = "fabric"
        THEN IF game = g1 THEN <<Entry(v2, FALSE), Entry(v1, TRUE)>> ELSE <<Entry(v1, FALSE)>>
        ELSE IF game = g1 THEN <<Entry(v2, TRUE)>> ELSE <<>>]]
=============================================================================
