---------------------------- MODULE MCBeforePlay ----------------------------
(***************************************************************************)
(* What there may be before Play.  Mods in a directory: those that require *)
(* a library of some version, those that are it or have it inside, and     *)
(* those with one part of the archive wrong.  Histories: two sessions over *)
(* a few days, and visits to the same and other worlds and servers.  Names *)
(* of servers at their limits.  Everything that Play asks for, with up to  *)
(* three things amiss.  And layouts of options.txt.                        *)
(***************************************************************************)
EXTENDS Naturals, Sequences, TLC

CONSTANTS None, Refused

V(numbers) == [numbers |-> numbers, pre |-> None]
Pre(numbers, parts) == [numbers |-> numbers, pre |-> parts]
Word(n) == [numbers |-> <<>>, pre |-> <<<<1, n>>>>]

ModVersions ==
    {V(n) : n \in {<<1>>, <<1, 2>>, <<1, 2, 0>>, <<1, 3>>, <<2>>}}
        \cup {Pre(n, p) : n \in {<<1, 2>>, <<1, 3>>, <<2>>},
                p \in {<<>>, <<<<0, 2>>>>, <<<<1, 1>>>>, <<<<1, 1>>, <<0, 1>>>>}}

ModGame == V(<<1, 21>>)
ModLoader == V(<<0, 17>>)

One(op, version) == {{[op |-> op, than |-> version]}}
Whatever == One("any", None)
R(id, wanted) == [id |-> id, wanted |-> wanted]

Paths == {"a", "b", "c"}
Doc(id, version) ==
    [readable |-> TRUE, shaped |-> TRUE, id |-> id, version |-> version, environment |-> "client",
     depends |-> {}, breaks |-> {}, jars |-> <<>>, mixins |-> <<>>]
Archived(doc) ==
    [whole |-> TRUE, documents |-> <<doc>>, toml |-> None, legacy |-> None, bytes |-> 1,
     inner |-> [p \in Paths |-> <<>>], configs |-> [p \in Paths |-> <<>>]]
With(jar, paths, inside) ==
    [jar EXCEPT !.documents[1].jars = paths, !.inner = inside @@ jar.inner]

Lib(version) == Archived(Doc("lib", version))
Needs(id, wanted) == Archived([Doc(id, V(<<1>>)) EXCEPT !.depends = {R("lib", wanted)}])
Shuns(id, wanted) == Archived([Doc(id, V(<<1>>)) EXCEPT !.breaks = {R("lib", wanted)}])
Asks(relations) == Archived([Doc("asks", V(<<1>>)) EXCEPT !.depends = relations])
Holds(id, j) == With(Archived(Doc(id, V(<<1>>))), <<"a">>, "a" :> <<j>>)

Config(level) == [readable |-> TRUE, level |-> level]
Mixed(id, side, configs) ==
    [Archived([Doc(id, V(<<1>>)) EXCEPT !.mixins = <<[side |-> side, path |-> "a"]>>])
        EXCEPT !.configs["a"] = configs]

Libraries ==
    "lib1" :> Lib(V(<<1>>)) @@ "lib2" :> Lib(V(<<2>>)) @@ "beta" :> Lib(Pre(<<2>>, <<<<1, 1>>>>))
        @@ "word" :> Lib(Word(1)) @@ "has1" :> Holds("has1", "lib1")
        @@ "has2" :> Holds("has2", "lib2") @@ "deep" :> Holds("deep", "has1")
        @@ "libServer" :> Archived([Doc("lib", V(<<1>>)) EXCEPT !.environment = "server"])
        @@ "hasServer" :> Holds("hasServer", "libServer")

Requirers ==
    "any" :> Needs("any", Whatever) @@ "old" :> Needs("old", One("<", V(<<2>>)))
        @@ "new" :> Needs("new", One(">=", V(<<2>>))) @@ "tilde" :> Needs("tilde", One("~", V(<<1, 0>>)))
        @@ "named" :> Needs("named", One("=", Word(1)))
        @@ "shunsOld" :> Shuns("shunsOld", One("<", V(<<2>>)))
        @@ "shunsAny" :> Shuns("shunsAny", Whatever)

Odd ==
    "good" :> Asks({R("minecraft", One("~", V(<<1, 21>>))), R("java", One(">=", V(<<21>>)))})
        @@ "young" :> Asks({R("java", One(">=", V(<<25>>)))})
        @@ "loader" :> Asks({R("fabricloader", One("malformed", None))})
        @@ "server" :> Archived([Doc("server", V(<<1>>)) EXCEPT !.environment = "server",
                                                         !.depends = {R("lib", Whatever)}])
        @@ "java21" :> Mixed("m", "client", <<Config(21)>>)
        @@ "java25" :> Mixed("m", "client", <<Config(25)>>)
        @@ "java25s" :> Mixed("m", "server", <<Config(25)>>)
        @@ "unsure" :> Mixed("m", "unknown", <<Config(21)>>)
        @@ "level" :> Mixed("m", "client", <<Config(Refused)>>)
        @@ "twice" :> Mixed("m", "client", <<Config(21), Config(21)>>)
        @@ "hasJava25" :> Holds("hasJava25", "java25") @@ "hasLevel" :> Holds("hasLevel", "level")
        @@ "deeper" :> Holds("deeper", "deep")
        @@ "same" :> With(Archived(Doc("same", V(<<1>>))), <<"a", "b">>,
                          "a" :> <<"lib1">> @@ "b" :> <<"lib2">>)
        @@ "wide" :> With(Archived(Doc("wide", V(<<1>>))), <<"a", "b", "c">>,
                          "a" :> <<"lib1">> @@ "b" :> <<"has2">> @@ "c" :> <<"java25">>)
        @@ "heavy" :> [Archived(Doc("lib", V(<<1>>))) EXCEPT !.bytes = 4]
        @@ "hasHeavy" :> Holds("hasHeavy", "heavy")
        @@ "gone" :> With(Archived(Doc("gone", V(<<1>>))), <<"a">>, "a" :> <<>>)
        @@ "again" :> With(Archived(Doc("again", V(<<1>>))), <<"a", "a">>, "a" :> <<"lib1">>)
        @@ "escapes" :> With(Archived(Doc("escapes", V(<<1>>))), <<None>>, "a" :> <<"lib1">>)
        @@ "blank" :> Archived(Doc("blank", None)) @@ "hasBlank" :> Holds("hasBlank", "blank")
        @@ "nobody" :> Archived(Doc(None, V(<<1>>))) @@ "hasNobody" :> Holds("hasNobody", "nobody")
        @@ "torn" :> [Archived(Doc("torn", V(<<1>>))) EXCEPT !.whole = FALSE]
        @@ "hasTorn" :> Holds("hasTorn", "torn")
        @@ "crooked" :> Archived([Doc("crooked", V(<<1>>)) EXCEPT !.shaped = FALSE])
        @@ "hasCrooked" :> Holds("hasCrooked", "crooked")
        @@ "none" :> [Archived(Doc("none", V(<<1>>))) EXCEPT !.documents = <<>>]
        @@ "both" :> [Archived(Doc("both", V(<<1>>))) EXCEPT !.documents = @ \o @]

Header(kind, path) == [kind |-> kind, path |-> path]
Value(key, value) == [kind |-> "value", key |-> key, value |-> value]
Mod(id, version) == <<Header("entry", <<"mods">>), Value("modId", id), Value("version", version)>>
Wanting(owner, values) == <<Header("entry", <<"dependencies", owner>>), Value("modId", "lib")>> \o values
Neo(primary, legacy) == [Archived(Doc("none", None)) EXCEPT !.toml = primary, !.legacy = legacy]
Range(low, high, closed) == [kind |-> "range", low |-> low, high |-> high, closed |-> closed]
Exactly(kind, version) == [kind |-> kind, low |-> version, high |-> None, closed |-> <<TRUE, TRUE>>]
NeoNeeds(kind, wanted) ==
    Neo(Mod("need", V(<<1>>)) \o Wanting("need", <<Value("type", kind), Value("versionRange", wanted)>>),
        None)

NeoLibraries ==
    "neo12" :> Neo(Mod("lib", V(<<1, 2>>)), None)
        @@ "neo120" :> Neo(None, Mod("lib", V(<<1, 2, 0>>)))
        @@ "neoPre" :> Neo(<<Value("modId", "other")>> \o Mod("lib", Pre(<<1, 2>>, <<<<1, 1>>>>)), None)
        @@ "neoTwo" :> Neo(Mod("lib", V(<<1>>)) \o Mod("lib", V(<<1>>)), None)
        @@ "neoWrong" :> Neo(Mod("lib", V(<<1>>)) \o <<[kind |-> "malformed"]>>, None)
        @@ "neoNone" :> Neo(None, None)

Later == Range(V(<<1, 2>>), None, <<TRUE, FALSE>>)
Earlier == Range(None, V(<<1, 2>>), <<FALSE, FALSE>>)
NeoRequirers ==
    "need12" :> NeoNeeds("required", Later) @@ "below12" :> NeoNeeds("required", Earlier)
        @@ "stem1" :> NeoNeeds("discouraged", Exactly("stem", V(<<1>>)))
        @@ "exact12" :> NeoNeeds("required", Exactly("exact", V(<<1, 2>>)))
        @@ "maybe" :> NeoNeeds("optional", Exactly("malformed", None))
        @@ "never" :> NeoNeeds("incompatible", Exactly("any", None))
        @@ "unclear" :> NeoNeeds("required", Exactly("malformed", None))
        @@ "silent" :> Neo(Wanting("need", <<>>) \o Mod("need", V(<<1>>)), None)
        @@ "anyone" :> Neo(Mod("need", V(<<1>>)) \o Wanting("else", <<Value("versionRange", Later)>>), None)
        @@ "pair" :> Neo(Mod("need", V(<<1>>)) \o Wanting("need", <<Value("versionRange", Later)>>)
                            \o Wanting("need", <<Value("type", "optional")>>), None)
        @@ "reopened" :> Neo(Wanting("need", <<>>) \o Mod("need", V(<<1>>))
                                \o <<Header("table", <<"dependencies", "need">>),
                                      Value("versionRange", Earlier),
                                      Header("table", <<"mods">>), Value("version", None)>>, None)

\* What a provider publishes, and mods that are or have the same.
Known ==
    "pub" :> Archived(Doc("pub", V(<<1>>))) @@ "pub2" :> Archived(Doc("pub", V(<<2>>)))
        @@ "copy" :> Archived([Doc("pub", V(<<1>>)) EXCEPT !.depends = {R("minecraft", Whatever)}])
        @@ "hasPub" :> Holds("hasPub", "pub") @@ "hasPub2" :> Holds("hasPub2", "pub2")
        @@ "fan" :> Archived([Doc("fan", V(<<1>>)) EXCEPT !.depends = {R("pub", Whatever)}])
        @@ "shader" :> Archived(Doc("shader", V(<<1>>)))

ModArchive == Libraries @@ Requirers @@ Odd @@ NeoLibraries @@ NeoRequirers @@ Known
Publication(project, kind, requires) == [project |-> project, kind |-> kind, requires |-> requires]
ModPublished ==
    [j \in DOMAIN ModArchive |->
        CASE j \in {"pub", "pub2"} -> Publication("pub", "mod", {})
          [] j = "copy" -> Publication("copy", "mod", {})
          [] j = "fan" -> Publication("fan", "mod", {"pub"})
          [] j = "shader" -> Publication("shader", "shader", {})
          [] OTHER -> None]
ModEdits == {<<<<"x", "on">>, "pub2">>, <<<<"y", "on">>, "pub">>, <<<<"y", "on">>, None>>}

ModSlots == {"x", "y", "z"}

NoClaim == [provider |-> None, bootstrap |-> None, retained |-> None, disabled |-> None, pack |-> FALSE]
NoClaims == [s \in ModSlots |-> NoClaim]
Directory(loader, x, y, z) ==
    [family |-> loader, claims |-> NoClaims,
     mods |-> [n \in ModSlots \X {"on", "off"} |->
        CASE n = <<"x", "on">> -> x [] n = <<"y", "on">> -> y [] n = <<"z", "on">> -> z [] OTHER -> None]]

\* A library whose bytes are those that some documents name and not those that
\* others do, at most two of them, and a mod that requires it, which may have a
\* record.
Owned ==
    LET bytes == {None, "lib1", "lib2"}
        file(x, off) == [n \in ModSlots \X {"on", "off"} |->
            CASE n = <<"x", "on">> -> x [] n = <<"x", "off">> -> off
              [] n = <<"y", "on">> -> "any" [] OTHER -> None]
        record(b, project, requires) ==
            IF b = None THEN None ELSE [bytes |-> b, project |-> project, requires |-> requires]
    IN  {[family |-> "fabric", mods |-> file(pair[1], pair[2]),
          claims |-> [NoClaims EXCEPT
            !["x"] = [provider |-> record(c[1], "lib", {}), bootstrap |-> c[2], retained |-> c[3], disabled |-> c[4],
                      pack |-> other = "pack"],
            !["y"].provider = record(IF other = "any" THEN "any" ELSE None, "any", {"x"})]] :
         pair \in {<<"lib1", None>>, <<None, "lib1">>, <<"lib1", "lib2">>},
         c \in {x \in bytes \X bytes \X bytes \X bytes :
                \E i, k \in 1 .. 4 : \A m \in (1 .. 4) \ {i, k} : x[m] = None},
         other \in {None, "pack", "any"}}

\* A file that the provider publishes, and others that are, have or own the same.
Recoverable ==
    {[family |-> "fabric",
      mods |-> [n \in ModSlots \X {"on", "off"} |->
        CASE n = <<"x", owned[5]>> -> owned[1] [] n = <<"y", "on">> -> y[1] [] OTHER -> None],
      claims |-> [NoClaims EXCEPT ![owned[2]].bootstrap = owned[3], ![owned[2]].retained = owned[4],
                    !["y"].provider = IF y[2] = None THEN None
                                      ELSE [bytes |-> y[1], project |-> y[2], requires |-> {}]]] :
     owned \in {<<"shader", "x", None, None, "on">>, <<"pub", "x", None, None, "on">>,
                <<"pub", "x", None, None, "off">>, <<"pub", "x", "pub", None, "on">>,
                <<"pub", "z", "pub", None, "on">>, <<"pub", "x", "pub2", None, "off">>,
                <<"pub", "z", None, "pub", "on">>},
     y \in {<<None, None>>, <<"fan", None>>, <<"fan", "fan">>, <<"pub", None>>, <<"pub", "other">>,
            <<"pub2", None>>, <<"pub2", "pub">>, <<"copy", "copy">>, <<"hasPub", None>>,
            <<"hasPub2", None>>}}

ModDirectories ==
    {Directory("fabric", x, y, z) :
        x \in DOMAIN Requirers, y \in DOMAIN Libraries,
        z \in {"old", "new", "lib1", None}}
    \cup {Directory("fabric", x, y, None) : x \in DOMAIN Odd, y \in {None, "lib1"}}
    \cup {Directory("neoForge", x, y, None) : x \in DOMAIN NeoRequirers, y \in DOMAIN NeoLibraries}
    \cup Owned \cup Recoverable

\* Texts with comments in them.
Characters == {"quote", "slash", "star", "escape", "end", "a"}
Commented == UNION {[1 .. n -> Characters] : n \in 0 .. 5}

-----------------------------------------------------------------------------
(* Servers and worlds                                                      *)

Label(size, of) == [size |-> size, of |-> of]
Text(labels, port) ==
    [labels |-> labels, address |-> None, behind |-> 0, port |-> port, odd |-> FALSE]
Written(digits, value, size) == [digits |-> digits, value |-> value, size |-> size]
Ports ==
    {None, Written(TRUE, 25565, 5), Written(TRUE, 80, 2), Written(TRUE, 80, 3), Written(TRUE, 0, 1),
     Written(TRUE, 65535, 5), Written(TRUE, 65536, 5), Written(FALSE, 80, 3), Written(FALSE, 0, 0)}
Hosts ==
    LET labels == {Label(1, "lower"), Label(3, "upper"), Label(2, "octet"), Label(3, "digits"),
                   Label(63, "lower"), Label(64, "lower"), Label(0, "lower"), Label(2, "odd")}
        long(last) == <<Label(63, "lower"), Label(63, "upper"), Label(63, "lower"), Label(last, "lower")>>
    IN  {<<l>> : l \in labels} \cup {<<l, k>> : l, k \in labels}
            \cup {[i \in 1 .. 4 |-> IF i = 3 THEN l ELSE Label(3, "octet")] : l \in labels}
            \cup {long(n) : n \in {55, 57, 58, 61, 62}}
Addresses ==
    {[spelling |-> spelling[1], size |-> spelling[2], longer |-> spelling[3]] :
        spelling \in {<<"canonical", 3, 0>>, <<"other", 20, 17>>, <<"wrong", 4, 0>>}}
ServerTexts ==
    {[Text(h, p) EXCEPT !.odd = odd] : h \in Hosts, p \in Ports, odd \in BOOLEAN}
        \cup {[Text(<<>>, p) EXCEPT !.address = x, !.behind = n] :
                x \in Addresses, p \in Ports, n \in {0, 4}}

Server(name, port) == Text(<<Label(name, "lower")>>, port)
World(path, flaws) == [path |-> path, bytes |-> 8, characters |-> 8, flaws |-> flaws]

-----------------------------------------------------------------------------
(* Histories                                                               *)

MCInstances == {"a", "b"}
Session(id, instance, start, duration) ==
    [id |-> id, instance |-> instance, start |-> start, end |-> start + (duration \div 2),
     duration |-> duration, outcome |-> "normal", visits |-> <<>>]
Running(s) == [s EXCEPT !.end = None, !.outcome = None]
NoArchive == [x \in (0 .. 7) \X MCInstances |-> 0]

Histories ==
    {[sessions |-> <<Session("first", "a", start, duration), IF running THEN Running(s) ELSE s>>,
      archive |-> archive] :
     start \in {1, 3}, duration \in {3, 9}, running \in BOOLEAN,
     s \in {Session("second", i, at, d) : i \in MCInstances, at \in {2, 5}, d \in {0, 2, 5}},
     archive \in {NoArchive, [NoArchive EXCEPT ![<<0, "a">>] = 2],
                  [NoArchive EXCEPT ![<<1, "a">>] = 4, ![<<1, "b">>] = 2]}}

Visit(mode, end, world, server, display) ==
    [mode |-> mode, start |-> 0, end |-> end, duration |-> end + 1, world |-> world, server |-> server,
     display |-> display]
Visits ==
    {Visit("singleplayer", 3, World(<<"w">>, {}), None, "old"),
     Visit("singleplayer", 4, World(<<"w">>, {}), None, "new"),
     Visit("singleplayer", 4, World(<<"v">>, {}), None, "other"),
     Visit("singleplayer", 5, World(<<"..">>, {}), None, "up"),
     Visit("singleplayer", 6, None, None, "unnamed"),
     Visit("multiplayer", 4, None, Server(3, Written(TRUE, 80, 2)), "server"),
     Visit("multiplayer", 5, None, Server(3, None), "raw"),
     Visit("unknown", 7, None, None, None)}
Visiting ==
    {[sessions |-> <<[Session("first", "a", 0, 2) EXCEPT !.visits = <<v[1], v[2]>>],
                     [Session("second", i, 2, 2) EXCEPT !.visits = <<v[3]>>]>>,
      archive |-> NoArchive] :
     v \in Visits \X Visits \X Visits, i \in MCInstances}

World0(node, level) == [node |-> node, level |-> level]
Disks ==
    LET disk(registered, saves, w, v) ==
            [registered |-> registered, saves |-> [i \in MCInstances |-> saves],
             worlds |-> <<"a", <<"w">>>> :> w @@ <<"b", <<"w">>>> :> w @@ <<"a", <<"v">>>> :> v
                            @@ <<"a", <<"..">>>> :> World0("directory", "file")]
        good == World0("directory", "file")
    IN  {disk(MCInstances, "directory", good, good), disk({"b"}, "directory", good, good),
         disk(MCInstances, "link", good, good),
         disk(MCInstances, "directory", World0("link", "file"), World0("directory", "none"))}

-----------------------------------------------------------------------------
(* Scenes                                                                  *)

Usual ==
    [instance |-> "a", version |-> "1.21.11", row |-> [state |-> "ready", matches |-> TRUE],
     content |-> "whole", published |-> "all", mods |-> "fine", runtime |-> "ready",
     process |-> "stopped", preparing |-> FALSE, account |-> "known", cached |-> FALSE,
     credential |-> "good", registered |-> TRUE, provider |-> "up"]
Amiss(s) ==
    {[s EXCEPT !.row = x] : x \in {None, [state |-> "installing", matches |-> TRUE],
                                  [state |-> "ready", matches |-> FALSE]}}
        \cup {[s EXCEPT !.content = x] : x \in {"damaged", "unreadable"}}
        \cup {[s EXCEPT !.published = x] : x \in {"noGame", "noRuntime"}}
        \cup {[s EXCEPT !.mods = x] : x \in {"refused", "unreadable"}}
        \cup {[s EXCEPT !.runtime = x] : x \in {"broken", "missing", "damaged"}}
        \cup {[s EXCEPT !.process = x] : x \in {"starting", "running", "exited"}}
        \cup {[s EXCEPT !.account = x] : x \in {None, "unknown"}}
        \cup {[s EXCEPT !.credential = x] : x \in {"none", "foreign", "dead", "unreadable"}}
        \cup {[s EXCEPT !.preparing = TRUE], [s EXCEPT !.cached = TRUE],
               [s EXCEPT !.registered = FALSE], [s EXCEPT !.provider = "down"]}
Scenes ==
    LET two == {Usual} \cup UNION {Amiss(s) : s \in {Usual} \cup Amiss(Usual)}
    IN  two \cup UNION {Amiss(s) : s \in two}

-----------------------------------------------------------------------------
(* options.txt                                                             *)

Line(packs, text, end) == [packs |-> packs, text |-> text, end |-> end]
Other(end) == Line(FALSE, <<"o">>, end)
Listed(text, end) == Line(TRUE, <<"[">> \o text \o <<"]">>, end)
Lists == UNION {[1 .. n -> {"\"", "\\", ",", "/", "a"}] : n \in 0 .. 4}
TwoPacks == <<"\"", "/", "a", "\"", ",", "\"", "v", "\"">>
Blanks == {<<" ", "[", "a", "]", " ">>, <<"[", " ", "]">>, <<"[", "a">>, <<"a", "]">>, <<"[">>, <<>>}
PackNames ==
    UNION {[1 .. n -> {"a", "\"", "\\", ",", " "}] : n \in 1 .. 2} \cup {<<>>, <<"\t">>}

Enable(name) == [kind |-> "enable", name |-> name, to |-> name]
Disable(name) == [kind |-> "disable", name |-> name, to |-> name]
Rename(name, to) == [kind |-> "rename", name |-> name, to |-> to]
FewChanges ==
    LET a == <<"a">> b == <<"b">>
    IN  {<<Enable(a)>>, <<Disable(a)>>, <<Rename(a, b)>>, <<Rename(b, a)>>,
         <<Rename(a, b), Rename(b, a)>>, <<Enable(b), Disable(a)>>}

Layouts ==
    LET list(end) == Listed(TwoPacks, end)
        ends == {"lf", "crlf"}
        last == {"lf", "crlf", "none", "cr"}
    IN  {<<>>} \cup {<<Other(e)>> : e \in last} \cup {<<Other(d), Other(e)>> : d \in ends, e \in last}
        \cup {<<list(e)>> : e \in last} \cup {<<Other(d), list(e)>> : d \in ends, e \in last}
        \cup {<<list(d), Other(e)>> : d \in ends, e \in last}
        \cup {<<Other("lf"), list(d), Other(e)>> : d \in ends, e \in last}
        \cup {<<list("lf"), Other("lf"), list("lf")>>}

OptionsChanges ==
    ({<<Listed(text, "lf")>> : text \in Lists} \cup {<<Line(TRUE, text, "lf")>> : text \in Blanks})
            \X FewChanges
        \cup (Layouts \cup {None, Refused}) \X FewChanges
        \cup {None, <<Listed(TwoPacks, "lf")>>}
                \X UNION {{<<Enable(n)>>, <<Disable(n)>>, <<Enable(n), Rename(<<"a">>, n)>>,
                           <<Enable(n), Rename(n, <<"a">>)>>} : n \in PackNames}
=============================================================================
