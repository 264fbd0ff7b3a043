----------------------------- MODULE OptionsFile -----------------------------
(***************************************************************************)
(* options.txt, which belongs to the game and to the user: the launcher    *)
(* enables, disables and renames resource packs in its resourcePacks line  *)
(* and rewrites nothing else.                                              *)
(*                                                                         *)
(* A document is None, Refused when it cannot be read, or its lines: is it *)
(* the one of the packs, its characters (for that one, those behind the    *)
(* colon), and what ends it: "lf", "crlf", or at the end of the file       *)
(* "none", or "cr" alone.  The slash stands for the prefix "file/".        *)
(***************************************************************************)
EXTENDS Naturals, SequencesExt

CONSTANTS None, Refused

Quoting == {"\"", "\\"}
Vanilla == <<"v">>
Reference(name) == <<"/">> \o name

-----------------------------------------------------------------------------
(* Reading                                                                 *)

\* str::trim
Trim(text) ==
    LET solid == {i \in DOMAIN text : text[i] # " "}
    IN  IF solid = {} THEN <<>>
        ELSE SubSeq(text, CHOOSE i \in solid : \A k \in solid : i <= k,
                          CHOOSE i \in solid : \A k \in solid : k <= i)

\* options_representable
Representable(name) == name # <<>> /\ Trim(name) = name /\ \A i \in DOMAIN name : name[i] # "\t"

\* parse_value, character by character
Ended(s) ==
    [s EXCEPT !.values = IF s.started \/ s.current # <<>> THEN Append(@, s.current) ELSE @,
              !.current = <<>>, !.started = FALSE]

Taken(s, character) ==
    CASE s.escaped ->
            [s EXCEPT !.current = Append(@, character), !.escaped = FALSE]
      [] ~s.escaped /\ s.quoted /\ character = "\\" -> [s EXCEPT !.escaped = TRUE]
      [] ~s.escaped /\ character = "\"" -> [s EXCEPT !.quoted = ~@, !.started = TRUE]
      [] ~s.escaped /\ ~s.quoted /\ character = "," -> Ended(s)
      [] OTHER -> [s EXCEPT !.current = Append(@, character), !.started = TRUE]

WithoutComma(text) == IF text # <<>> /\ Last(text) = "," THEN Front(text) ELSE text

ParseValue(text) ==
    LET list == Trim(text)
        start == [values |-> <<>>, current |-> <<>>, quoted |-> FALSE, escaped |-> FALSE,
                  started |-> FALSE]
        end == FoldLeft(Taken, start, WithoutComma(SubSeq(list, 2, Len(list) - 1)))
    IN  CASE Len(list) < 2 \/ Head(list) # "[" \/ Last(list) # "]" -> Refused
          [] end.quoted \/ end.escaped -> Refused
          [] OTHER -> Ended(end).values

\* load: the packs' line, 0 when there is none, and the packs that are enabled.
PackLines(document) == {i \in DOMAIN document : document[i].packs}
Load(document) ==
    CASE document = None -> [line |-> 0, values |-> <<Vanilla>>]
      [] document = Refused -> Refused
      [] PackLines(document) = {} -> [line |-> 0, values |-> <<Vanilla>>]
      [] OTHER ->
            LET line == CHOOSE i \in PackLines(document) : TRUE
                values == ParseValue(document[line].text)
            IN  IF PackLines(document) # {line} \/ values = Refused THEN Refused
                ELSE [line |-> line, values |-> values]

-----------------------------------------------------------------------------
(* Writing                                                                 *)

\* serialize_values
Quoted(value) ==
    LET Escaped(character) ==
            IF character \in Quoting THEN <<"\\", character>> ELSE <<character>>
    IN  <<"\"">> \o FlattenSeq([i \in DOMAIN value |-> Escaped(value[i])]) \o <<"\"">>
SerializeValues(values) ==
    LET Separated(i) == (IF i = 1 THEN <<>> ELSE <<",">>) \o Quoted(values[i])
    IN  <<"[">> \o FlattenSeq([i \in DOMAIN values |-> Separated(i)]) \o <<"]">>

\* apply: one change of the list.  A pack that is enabled comes first.
Changed(values, change) ==
    CASE change.kind = "enable" ->
            IF \E i \in DOMAIN values : values[i] = Reference(change.name) THEN values
            ELSE <<Reference(change.name)>> \o values
      [] change.kind = "disable" ->
            SelectSeq(values, LAMBDA value : value # Reference(change.name))
      [] OTHER ->
            [i \in DOMAIN values |->
                IF values[i] = Reference(change.name) THEN Reference(change.to) ELSE values[i]]

\* Every value once, where it is first.
Distinct(values) ==
    LET First(i) == \A k \in 1 .. i - 1 : values[k] # values[i]
        places == SelectSeq([i \in DOMAIN values |-> i], First)
    IN  [i \in DOMAIN places |-> values[places[i]]]

\* The terminator of lines that are appended.
DocumentTerminator(lines) == IF \E i \in DOMAIN lines : lines[i].end = "crlf" THEN "crlf" ELSE "lf"

\* A last line that no "\n" ends is ended.
Closed(line, terminator) ==
    CASE line.end \in {"lf", "crlf"} -> line
      [] line.end = "none" -> [line EXCEPT !.end = terminator]
      [] line.end = "cr" /\ terminator = "lf" -> [line EXCEPT !.end = "crlf"]
      [] OTHER -> [line EXCEPT !.text = Append(@, "\r"), !.end = "crlf"]

\* The line of the packs in its place, or appended.  One that "\r" alone ends is
\* taken for one that ends with "\r\n", and the slice behind it is out of range.
Spliced(document, line, values) ==
    LET lines == IF document = None THEN <<>> ELSE document
        terminator == DocumentTerminator(lines)
        written == [packs |-> TRUE, text |-> SerializeValues(values), end |-> terminator]
    IN  CASE line = 0 -> [i \in DOMAIN lines |-> Closed(lines[i], terminator)] \o <<written>>
          [] line # 0 /\ lines[line].end = "cr" -> Refused
          [] OTHER -> [lines EXCEPT ![line] = [written EXCEPT !.end = lines[line].end]]

\* apply
Accepted(change) ==
    Representable(change.name) /\ (change.kind = "rename" => Representable(change.to))

Applied(document, found, changes) ==
    LET values == FoldLeft(Changed, found.values, changes)
    IN  CASE (\E i \in DOMAIN changes : ~Accepted(changes[i])) \/ found = Refused -> Refused
          [] values = found.values -> document
          [] OTHER -> Spliced(document, found.line, Distinct(values))
Apply(document, changes) == Applied(document, Load(document), changes)

IsEnabled(document, name) == Reference(name) \in ToSet(Load(document).values)

-----------------------------------------------------------------------------
(* Properties                                                              *)

\* Whether a text or a name is one that the changes are about.
Named(changes) ==
    {Reference(changes[i].name) : i \in DOMAIN changes}
        \cup {Reference(changes[i].to) : i \in {k \in DOMAIN changes : changes[k].kind = "rename"}}
Untouched(values, changes) ==
    SelectSeq(Distinct(values), LAMBDA value : value \notin Named(changes))
OtherLines(document) ==
    IF document = None THEN <<>> ELSE SelectSeq(document, LAMBDA line : ~line.packs)

\* What is written reads back as what was meant: the last change of a pack is
\* the one that counts, whatever characters its name has and however the list was
\* written before (pack_activation.rs:148-213 and 242-326).
ChangesReadBack(document, changes) ==
    \A result \in {Apply(document, changes)}, last \in {Last(changes)} : result # Refused =>
        /\ Load(result) # Refused
        /\ last.kind = "enable" => IsEnabled(result, last.name)
        /\ last.kind = "disable" => ~IsEnabled(result, last.name)
        /\ last.kind = "rename" /\ last.to # last.name => ~IsEnabled(result, last.name)
        /\ Len(changes) = 1 /\ last.kind = "rename" =>
            (IsEnabled(result, last.to) <=>
                IsEnabled(document, last.to) \/ IsEnabled(document, last.name))

\* The rest is the user's: the other packs stay in their order, and of the other
\* lines and of what ends a line every byte; a last line may be ended, and lines
\* stay lines (pack_activation.rs:66-67).
RestStays(document, changes) ==
    \A result \in {Apply(document, changes)} : result # Refused =>
        LET before == OtherLines(document)
            after == OtherLines(result)
            found == Load(document)
        IN  /\ Untouched(Load(result).values, changes) = Untouched(found.values, changes)
            /\ Len(after) = Len(before)
            /\ \A i \in DOMAIN before :
                \/ after[i] = before[i]
                \/ /\ i = Len(before) /\ before[i].end \in {"none", "cr"}
                   /\ IsPrefix(before[i].text, after[i].text)
            /\ result # None => \A i \in 1 .. Len(result) - 1 : result[i].end \in {"lf", "crlf"}
            /\ found.line # 0 =>
                Len(result) = Len(document) /\ result[found.line].end = document[found.line].end

\* Enabling a pack and disabling it again leaves what was enabled before.
DisablingUndoes(document, changes) ==
    LET change == changes[1]
    IN  \A there \in {Apply(document, <<change>>)} :
            change.kind = "enable" /\ there # Refused /\ ~IsEnabled(document, change.name) =>
                \A back \in {Apply(there, <<[change EXCEPT !.kind = "disable"]>>)} :
                    back # Refused /\ Load(back).values = Distinct(Load(document).values)
=============================================================================
