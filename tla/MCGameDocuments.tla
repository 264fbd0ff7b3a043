-------------------------- MODULE MCGameDocuments --------------------------
(***************************************************************************)
(* Documents for three instances, of one platform each.  What is published *)
(* is the usual document with one part of it different; every part that is *)
(* looked at is, and so is every way two sources name one library.         *)
(***************************************************************************)
EXTENDS LoaderPlanning

\* What a file holds: the entries of an archive, or one.
Bytes(c) == {<<c, c>>}
Lib(a, v, c) == [artifact |-> a, version |-> v, classifier |-> c]

Good(c) == [digest |-> TRUE, size |-> TRUE, secure |-> TRUE, content |-> Bytes(c)]
Flawed == {[Good("x") EXCEPT !.digest = FALSE], [Good("x") EXCEPT !.size = FALSE],
           [Good("x") EXCEPT !.secure = FALSE]}

Rule(action, os, features) == [action |-> action, os |-> os, features |-> features]
Os(name) == [name |-> name, arch |-> None]
Allow(os) == Rule("allow", os, None)
Disallow(os) == Rule("disallow", os, None)
When(feature) == <<Rule("allow", None, [f \in {feature} |-> TRUE])>>

Library(name, content, rules) ==
    [name |-> name, rules |-> rules, legacy |-> FALSE,
     artifact |-> [path |-> name, digest |-> TRUE, size |-> TRUE, secure |-> TRUE,
                   content |-> content]]

Text(option) == [option |-> option, placeholder |-> None, suffix |-> None]
Template(option, placeholder, suffix) ==
    [option |-> option, placeholder |-> placeholder, suffix |-> suffix]
Argument(rules, values) == [rules |-> rules, values |-> values]

Natives(os) == Library(Lib("glfw", 1, "natives"), {<<"libglfw", os>>}, <<Allow(Os(os))>>)
Brigadier == Library(Lib("brigadier", 1, None), Bytes("brigadier"), None)
Asm == Library(Lib("asm", 1, None), Bytes("asm"), None)

Window == Argument(When("has_custom_resolution"),
                   <<Text("--width"), Template("width", "resolution_width", None)>>)
Demo == Argument(When("is_demo_user"), <<Text("--demo")>>)
LibraryPath(suffix) == Template("java.library.path", "natives_directory", suffix)

Document(version) ==
    [id |-> version, kind |-> "release", inherits |-> FALSE, legacyArguments |-> FALSE,
     mainClass |-> "Main", component |-> "epsilon", java |-> 2, content |-> "document",
     index |-> [id |-> "32", digest |-> TRUE, size |-> TRUE, secure |-> TRUE,
                content |-> Bytes("index")],
     client |-> Good("client"),
     logging |-> [kind |-> "log4j2-xml", name |-> "client.xml",
                  argument |-> Template("log4j", "path", None), artifact |-> Good("log")],
     libraries |-> <<Brigadier, Natives("linux"), Natives("windows"), Natives("osx")>>,
     game |-> <<Argument(None, <<Template("token", "auth_access_token", None)>>), Demo, Window>>,
     jvm |-> <<Argument(<<Allow(Os("osx"))>>, <<Text("-XstartOnFirstThread")>>),
               Argument(<<Rule("allow", [name |-> None, arch |-> "x86"], None)>>, <<Text("-Xss1M")>>),
               Argument(None, <<LibraryPath("java")>>),
               Argument(None, <<Template("-cp", "classpath", None)>>)>>]

\* Other lists of libraries and of arguments, each with what every plan needs.
LibraryLists(d) ==
    {Append(d.libraries, library) : library \in
        {Asm, Brigadier, Library(Lib("brigadier", 1, None), Bytes("other"), None),
         Library(Lib("brigadier", 2, None), Bytes("newer"), None),
         Library(Malformed, Bytes("x"), None), Library(Malformed, Bytes("x"), <<Allow(Os("windows"))>>),
         [Asm EXCEPT !.legacy = TRUE], [Asm EXCEPT !.artifact = None],
         [Asm EXCEPT !.artifact.path = Lib("asm", 2, None)],
         [Asm EXCEPT !.artifact.digest = FALSE],
         [Asm EXCEPT !.rules = <<Allow(None), Disallow(Os("windows"))>>],
         [Asm EXCEPT !.rules = <<Disallow(None), Allow(Os("windows"))>>],
         [Asm EXCEPT !.rules = <<Allow(Os("windows")), Disallow(None)>>],
         [Asm EXCEPT !.rules = <<>>],
         [Asm EXCEPT !.rules = When("is_demo_user")],
         Library(Lib("lwjgl", 1, "natives"), {<<"libglfw", "linux">>}, <<Allow(Os("linux"))>>),
         Library(Lib("lwjgl", 1, "natives"), {<<"libglfw", "mine">>}, <<Allow(Os("linux"))>>),
         Library(Lib("lwjgl", 1, "natives"), {<<Malformed, "x">>}, None),
         Library(Lib("lwjgl", 1, "natives"), {}, None)}}
    \cup {<<>>, <<Brigadier>>, <<Asm>> \o d.libraries}

JvmLists(d) ==
    {Append(d.jvm, argument) : argument \in
        {Argument(None, <<LibraryPath("jna")>>), Argument(None, <<LibraryPath(Malformed)>>),
         Argument(None, <<Template("unknown", "unknown", None)>>),
         Argument(<<Allow(None), Disallow(Os("windows"))>>, <<Text("-Da"), Text("-Db")>>),
         Argument(<<Allow([name |-> "linux", arch |-> "arm64"])>>, <<Text("-Dc")>>)}}
    \cup {<<>>, <<Argument(None, <<LibraryPath(None)>>)>>}

GameLists(d) ==
    {<<Window, Demo>>, <<Argument(None, <<Template("x", "path", None)>>)>>,
     <<Argument(<<Rule("disallow", None, [f \in {"is_demo_user"} |-> TRUE])>>, <<Text("--full")>>)>>}

DocumentsLike(d) ==
    {d}
    \cup {[d EXCEPT !.libraries = l] : l \in LibraryLists(d)}
    \cup {[d EXCEPT !.jvm = l] : l \in JvmLists(d)}
    \cup {[d EXCEPT !.game = l] : l \in GameLists(d)}
    \cup {[d EXCEPT !.client = a] : a \in Flawed}
    \cup {[d EXCEPT !.kind = "old_beta"], [d EXCEPT !.inherits = TRUE],
          [d EXCEPT !.legacyArguments = TRUE], [d EXCEPT !.mainClass = None],
          [d EXCEPT !.index.id = None], [d EXCEPT !.index.size = FALSE],
          [d EXCEPT !.component = None], [d EXCEPT !.java = 0], [d EXCEPT !.java = 1],
          [d EXCEPT !.id = <<0>>], [d EXCEPT !.logging = None],
          [d EXCEPT !.logging.kind = "other"], [d EXCEPT !.logging.name = Malformed],
          [d EXCEPT !.logging.name = None], [d EXCEPT !.logging.argument = None],
          [d EXCEPT !.logging.argument = Malformed],
          [d EXCEPT !.logging.artifact.size = FALSE]}

Entry(version) == [id |-> version, secure |-> TRUE, digest |-> TRUE, content |-> "document"]

Mojang(document, version) ==
    [manifest |-> <<Entry(<<1>>), Entry(version)>>, document |-> document,
     objects |-> <<Bytes("o1"), Bytes("o2"), Bytes("o1")>>]

Manifests(version) ==
    {<<>>, <<Entry(<<1>>)>>, <<[Entry(<<1>>) EXCEPT !.secure = FALSE], Entry(version)>>,
     <<[Entry(version) EXCEPT !.content = "other"]>>, <<[Entry(version) EXCEPT !.digest = FALSE]>>,
     <<[Entry(<<1>>) EXCEPT !.id = None], Entry(version)>>}

\* Fabric.
Loader(n) == [parts |-> <<n>>, suffix |-> FALSE]
Meta(name, content, published) ==
    [name |-> name, content |-> Bytes(content), published |-> published, repository |-> TRUE,
     digest |-> TRUE, size |-> TRUE]
Reference(name, content, version) == [name |-> name, content |-> Bytes(content), version |-> version]

Profile ==
    [generation |-> 2, minJava |-> 1, mainClass |-> "Knot",
     loader |-> Reference(Lib("loader", 1, None), "loader", Loader(7)),
     intermediary |-> Reference(Lib("intermediary", 1, None), "intermediary", 1),
     common |-> <<Meta(Lib("asm", 1, None), "asm", TRUE)>>,
     client |-> <<Meta(Lib("mixin", 1, None), "mixin", FALSE)>>]

Profiles ==
    {Profile, [Profile EXCEPT !.generation = 1], [Profile EXCEPT !.minJava = 0],
     [Profile EXCEPT !.minJava = 3], [Profile EXCEPT !.mainClass = None],
     [Profile EXCEPT !.loader.version = Loader(8)], [Profile EXCEPT !.loader.name = None],
     [Profile EXCEPT !.intermediary.version = NoOp],
     [Profile EXCEPT !.intermediary.version = None],
     [Profile EXCEPT !.intermediary.name = Malformed],
     [Profile EXCEPT !.common = <<Meta(Lib("brigadier", 1, None), "theirs", TRUE)>>],
     [Profile EXCEPT !.common = <<Meta(Lib("brigadier", 2, None), "theirs", TRUE)>>],
     [Profile EXCEPT !.common = <<Meta(Lib("glfw", 1, "natives"), "theirs", TRUE)>>],
     [Profile EXCEPT !.client = <<Meta(Lib("loader", 1, None), "again", TRUE)>>],
     [Profile EXCEPT !.client[1].name = None], [Profile EXCEPT !.client[1].name = Malformed],
     [Profile EXCEPT !.client[1].digest = FALSE], [Profile EXCEPT !.client[1].size = FALSE],
     [Profile EXCEPT !.client[1].repository = FALSE]}

Fabric(profile) == [listed |-> {Loader(7), Loader(8)}, status |-> 200, document |-> profile]

\* NeoForge.
Build(n) == [parts |-> <<26, 2, 0, n>>, suffix |-> FALSE]
ProfileLibrary(name, content) == [name |-> name, path |-> name, artifact |-> Good(content)]
Tool == Lib("tools", 1, None)
Patched == Lib("patched", 1, None)

Install1 ==
    [spec |-> 1, version |-> Build(5), minecraft |-> <<26, 2>>, embedsVersion |-> TRUE,
     data |-> [t \in {"PATCHED", "PATCH"} |->
        IF t = "PATCHED" THEN [kind |-> "artifact", name |-> Patched]
                         ELSE [kind |-> "file", name |-> "patch"]],
     processors |->
        <<[sides |-> {"server"}, jar |-> Tool, classpath |-> <<>>, args |-> <<"NONE">>],
          [sides |-> None, jar |-> Tool, classpath |-> <<Lib("asm", 1, None)>>,
           args |-> <<"MINECRAFT_JAR", "PATCH", "PATCHED">>]>>,
     libraries |-> <<ProfileLibrary(Tool, "tools"), ProfileLibrary(Lib("asm", 1, None), "asm")>>]

Version1 ==
    [id |-> Build(5), inheritsFrom |-> <<26, 2>>, mainClass |-> "Bootstrap",
     libraries |-> <<ProfileLibrary(Lib("asm", 1, None), "asm")>>,
     game |-> <<Text("--neo")>>, jvm |-> <<Template("libs", "library_directory", None)>>]

Universal ==
    [name |-> Lib("universal", 1, None), content |-> Bytes("universal"), native |-> FALSE,
     source |-> "neoforge", trusted |-> TRUE]

NeoForge(profile, version) ==
    [listing |-> [snapshot |-> FALSE, versions |-> <<[parts |-> <<21, 1, 3>>, suffix |-> FALSE],
                                                     [parts |-> <<7>>, suffix |-> TRUE], Build(5)>>],
     published |-> TRUE, profile |-> profile, version |-> version, universal |-> Universal]

Installers ==
    {<<i, Version1>> : i \in
        {Install1, [Install1 EXCEPT !.spec = 2], [Install1 EXCEPT !.version = Build(4)],
         [Install1 EXCEPT !.minecraft = <<26, 1>>], [Install1 EXCEPT !.embedsVersion = FALSE],
         [Install1 EXCEPT !.processors = <<>>], [Install1 EXCEPT !.processors[2].args = <<>>],
         [Install1 EXCEPT !.processors[2].args = <<"UNKNOWN">>],
         [Install1 EXCEPT !.processors[2].jar = Lib("tools", 2, None)],
         [Install1 EXCEPT !.processors[2].classpath = <<Malformed>>],
         [Install1 EXCEPT !.processors = <<Install1.processors[2], Install1.processors[2]>>],
         [Install1 EXCEPT !.data["PATCH"].name = Malformed],
         [Install1 EXCEPT !.libraries[1].path = Lib("tools", 2, None)],
         [Install1 EXCEPT !.libraries = Append(@, ProfileLibrary(Lib("brigadier", 1, None), "theirs"))],
         [Install1 EXCEPT !.libraries = Append(@, ProfileLibrary(Lib("brigadier", 2, None), "newer"))]}}
    \cup {<<Install1, v>> : v \in
        {[Version1 EXCEPT !.id = Build(4)], [Version1 EXCEPT !.inheritsFrom = <<26, 1>>],
         [Version1 EXCEPT !.mainClass = Malformed], [Version1 EXCEPT !.libraries = <<>>],
         [Version1 EXCEPT !.libraries = Append(@, ProfileLibrary(Lib("brigadier", 1, None), "theirs"))],
         [Version1 EXCEPT !.libraries = Append(@, ProfileLibrary(Lib("brigadier", 2, None), "newer"))],
         [Version1 EXCEPT !.jvm = <<Template("unknown", "unknown", None)>>]}}

\* Offers: everything usual but for one part.
Usual(version) ==
    [mojang |-> Mojang(Document(version), version), runtime |-> 2,
     fabric |-> Fabric(Profile), neoforge |-> NeoForge(Install1, Version1)]

VersionOf(platform) == IF platform = "vanilla" THEN <<1, 21, 11>> ELSE <<26, 2>>

MCPins ==
    {[version |-> VersionOf("vanilla"), platform |-> "vanilla", loader |-> None],
     [version |-> VersionOf("fabric"), platform |-> "fabric", loader |-> Loader(7)],
     [version |-> VersionOf("neoforge"), platform |-> "neoforge", loader |-> Build(5)]}

MojangOffers(u, version) ==
    {[u EXCEPT !.mojang.document = d] : d \in DocumentsLike(Document(version))}
    \cup {[u EXCEPT !.mojang.manifest = m] : m \in Manifests(version)}
    \cup {[u EXCEPT !.runtime = 3], [u EXCEPT !.mojang.objects = <<Bytes("o1"), Malformed>>]}

FabricOffers(u) ==
    {[u EXCEPT !.fabric.document = p] : p \in Profiles}
    \cup {[u EXCEPT !.fabric.listed = {Loader(8)}], [u EXCEPT !.fabric.status = 404],
          [u EXCEPT !.fabric.status = 500]}

NeoForgeOffers(u) ==
    {[u EXCEPT !.neoforge = NeoForge(i[1], i[2])] : i \in Installers}
    \cup {[u EXCEPT !.neoforge.published = FALSE], [u EXCEPT !.neoforge.listing.snapshot = TRUE],
          [u EXCEPT !.neoforge.listing.versions = <<Build(4)>>],
          [u EXCEPT !.neoforge.listing.versions = <<>>]}

\* What an instance of each platform may meet.
OffersFor(platform) ==
    LET u == Usual(VersionOf(platform))
    IN  MojangOffers(u, VersionOf(platform))
        \cup (IF platform = "fabric" THEN FabricOffers(u) ELSE {})
        \cup (IF platform = "neoforge" THEN NeoForgeOffers(u) ELSE {})

\* And what may be published while it is there.
RepublishedFor(platform) ==
    LET u == Usual(VersionOf(platform))
        d == u.mojang.document
    IN  {u, [u EXCEPT !.mojang.document = [d EXCEPT !.libraries = Append(d.libraries, Asm)]],
         [u EXCEPT !.mojang.document = [d EXCEPT !.libraries[1].artifact.content = Bytes("patched")]],
         [u EXCEPT !.mojang.document = [d EXCEPT !.jvm = <<Argument(None, <<LibraryPath(None)>>)>>]],
         [u EXCEPT !.mojang.manifest = <<>>]}

MCHosts == {[os |-> "linux", arch |-> "arm64"], [os |-> "windows", arch |-> "x86"],
            [os |-> "osx", arch |-> "x86_64"]}
MCSettings ==
    {[window |-> FALSE, arguments |-> FALSE], [window |-> TRUE, arguments |-> FALSE],
     [window |-> FALSE, arguments |-> TRUE]}
=============================================================================
