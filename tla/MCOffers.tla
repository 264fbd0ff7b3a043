------------------------------ MODULE MCOffers ------------------------------
(***************************************************************************)
(* What may be published of a modpack, and of a Java runtime: the usual    *)
(* documents with one part of them different.                              *)
(***************************************************************************)
EXTENDS PackArchive, TLC

CONSTANT Unsafe

-----------------------------------------------------------------------------
(* Packs *)

P(dir, name) == [dir |-> dir, name |-> name, spelling |-> "plain"]
Spelled(path, spelling) == [path EXCEPT !.spelling = spelling]

Lib == P("mods", "lib")
Mod == P("mods", "mod")
Art == P("resourcepacks", "art")
Script == P("kubejs", "script")
Config == P("config", "config")
Options == P("root", "options")

File(path, side) ==
    [path |-> path, side |-> side, content |-> path.name, hashes |-> TRUE, urls |-> TRUE,
     small |-> TRUE, agrees |-> TRUE]

Item(area, path, bytes) ==
    [area |-> area, path |-> path, content |-> bytes, named |-> TRUE, regular |-> TRUE,
     small |-> TRUE]
IndexItem == Item("index", P("root", "index"), "index")

UsualArchive ==
    [index |-> [format |-> 1, named |-> TRUE, minecraft |-> "1.21", fabric |-> "0.17",
                others |-> FALSE,
                files |-> <<File(Lib, "required"), File(Mod, "optional"),
                            File(Script, "required")>>],
     entries |-> <<IndexItem, Item("common", Config, "common"), Item("client", Config, "client"),
                   Item("server", Options, "server")>>]

Answer(project, requires, conflicts) ==
    [project |-> project, version |-> "v1", requires |-> requires, conflicts |-> conflicts,
     fits |-> TRUE]

UsualAnswers ==
    [bytes \in {"lib", "mod", "art", "script", "config", "options", "world"} |->
        CASE bytes = "lib" -> Answer("lib", {}, {})
          [] bytes = "mod" -> Answer("mod", {<<"lib", "v1">>}, {"art"})
          [] OTHER -> None]

Usual == [small |-> TRUE, loaders |-> {"fabric"}, versions |-> {"1.21"},
          archive |-> UsualArchive, answers |-> UsualAnswers]

Indices ==
    LET i == UsualArchive.index
        With(file) == [i EXCEPT !.files = Append(@, file)]
    IN  {[i EXCEPT !.format = 2], [i EXCEPT !.fabric = None], [i EXCEPT !.others = TRUE],
         [i EXCEPT !.minecraft = "1.20"], [i EXCEPT !.files = <<>>],
         [i EXCEPT !.files = <<File(Script, "required")>>],
         [i EXCEPT !.files[2].side = "unsupported"], [i EXCEPT !.files[2].side = "required"],
         [i EXCEPT !.files[1].content = "mod", !.files[2].content = "lib"],
         [i EXCEPT !.files[1].agrees = FALSE], [i EXCEPT !.files[3].agrees = FALSE],
         [i EXCEPT !.files[1].hashes = FALSE], [i EXCEPT !.files[3].urls = FALSE],
         With(File(Art, "required")), With(File(Spelled(Mod, "upper"), "required")),
         With(File(Config, "unsupported")), With(File(Spelled(Art, "unsafe"), "required")),
         With(File(Options, "required")), With(File(P("saves", "world"), "required")),
         With([File(Art, "required") EXCEPT !.content = "lib"]),
         With([File(Spelled(Art, "nested"), "required") EXCEPT !.content = "lib"])}

EntryLists ==
    LET common == Item("common", Config, "common")
        client == Item("client", Config, "client")
    IN  {<<>>, <<IndexItem>>, <<IndexItem, client, common>>, <<IndexItem, common, common>>,
         <<IndexItem, common, Item("client", Spelled(Config, "upper"), "client")>>,
         <<IndexItem, client, Item("client", Spelled(Config, "upper"), "other")>>,
         <<IndexItem, Item("common", Script, "other")>>,
         <<IndexItem, Item("client", Art, "other"), Item("common", Options, "options")>>,
         <<IndexItem, [common EXCEPT !.regular = FALSE]>>,
         <<IndexItem, Item("other", Config, "x")>>}

AnswerSets ==
    {[UsualAnswers EXCEPT !["lib"] = None], [UsualAnswers EXCEPT !["script"] = Answer("script", {}, {})],
     [UsualAnswers EXCEPT !["mod"].requires = {<<"lib", "v2">>}],
     [UsualAnswers EXCEPT !["mod"].conflicts = {"lib"}], [UsualAnswers EXCEPT !["lib"].fits = FALSE],
     [UsualAnswers EXCEPT !["lib"] = None, !["mod"] = None],
     [UsualAnswers EXCEPT !["mod"].version = "v2"],
     [UsualAnswers EXCEPT !["art"] = Answer("art", {}, {})]}

PackOffers ==
    {Usual, [Usual EXCEPT !.small = FALSE], [Usual EXCEPT !.loaders = {"neoforge"}],
     [Usual EXCEPT !.versions = {"1.20"}]}
    \cup {[Usual EXCEPT !.archive.index = i] : i \in Indices}
    \cup {[Usual EXCEPT !.archive.entries = e] : e \in EntryLists}
    \cup {[Usual EXCEPT !.answers = a] : a \in AnswerSets}
    \cup {[Usual EXCEPT !.archive.index.files = Append(@, File(Art, "required")),
                        !.answers["art"] = Answer("resources", {}, {})]}

-----------------------------------------------------------------------------
(* Java runtimes *)

RuntimeHosts == {"windows", "linux", "macos"} \X {"x86_64", "aarch64", "x86"}
UsualHosts == {<<"windows", "x86_64">>, <<"linux", "x86_64">>, <<"macos", "aarch64">>}
RuntimeWanted == [component |-> "epsilon", major |-> 21]
RuntimeReports == [vm |-> 21, old |-> 17, data |-> 0]

EntryNames == {"bin", "java", "javaw", "bundle", "lib", "Lib", "a", "A", Unsafe, ".."}
RuntimeSpelling == [name \in EntryNames |-> CASE name = "Lib" -> "lib" [] name = "A" -> "a" [] OTHER -> name]

Plain(digest, executable) ==
    [kind |-> "file", digest |-> digest, size |-> 1, secure |-> TRUE, executable |-> executable]
Folder == [kind |-> "directory"]
Link(target) == [kind |-> "link", target |-> target]

Candidate(release, major) == [release |-> release, major |-> major, digest |-> TRUE, size |-> 1]
IndexOf(candidates) == [host \in UsualHosts |-> [epsilon |-> candidates]]

Manifest ==
    <<"bin", "java">> :> Plain("vm", TRUE) @@ <<"bin", "javaw">> :> Plain("vm", TRUE)
        @@ <<"bundle", "java">> :> Plain("vm", TRUE) @@ <<"lib">> :> Folder
        @@ <<"lib", "a">> :> Plain("data", FALSE)

\* One more entry, one different, or one less.
Manifests ==
    {Manifest, <<>>}
    \cup {path :> Folder @@ Manifest : path \in {<<"Lib">>, <<"bin">>, <<"lib", "a">>, <<"lib", "a", "A">>}}
    \cup {path :> Plain("data", FALSE) @@ Manifest :
            path \in {<<"lib", "A">>, <<"Lib", "a">>, <<"Lib", "A">>, <<"lib">>, <<"lib", "a", "A">>,
                      <<"..", "a">>, <<"lib", Unsafe>>}}
    \cup {<<"lib", "A">> :> Plain("old", FALSE) @@ Manifest}
    \cup {path :> Link(target) @@ Manifest :
            path \in {<<"a">>, <<"lib", "A">>},
            target \in {<<>>, <<"lib">>, <<"..", "lib">>, <<"..", "..", "a">>,
                        <<"lib", "..", "..", "a">>, <<Unsafe>>}}
    \cup {<<"lib">> :> Link(<<"bin">>) @@ Manifest}
    \cup {[Manifest EXCEPT ![path] = Plain(digest, executable)] :
            path \in {<<"bin", "java">>, <<"bundle", "java">>},
            digest \in {"vm", "old"}, executable \in BOOLEAN}
    \cup {[Manifest EXCEPT ![<<"lib", "a">>] = entry] :
            entry \in {[Plain("data", FALSE) EXCEPT !.size = 0], Plain(None, FALSE),
                       [Plain("data", FALSE) EXCEPT !.secure = FALSE]}}
    \cup {[p \in DOMAIN Manifest \ {path} |-> Manifest[p]] : path \in DOMAIN Manifest}

Indexes ==
    {IndexOf(candidates) : candidates \in
        {<<>>, <<Candidate("first", 21), Candidate("second", 21)>>, <<Candidate("second", 21)>>,
         <<Candidate("first", 17)>>, <<Candidate(None, 21)>>,
         <<[Candidate("first", 21) EXCEPT !.digest = FALSE]>>,
         <<[Candidate("first", 21) EXCEPT !.size = 0]>>,
         <<[Candidate("first", 21) EXCEPT !.size = 3]>>}}
    \cup {[host \in UsualHosts |-> [other |-> <<Candidate("first", 21)>>]]}

RuntimeOffers ==
    [index : {IndexOf(<<Candidate("first", 21)>>)}, files : Manifests]
        \cup [index : Indexes, files : {Manifest}]
=============================================================================
