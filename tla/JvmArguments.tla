---------------------------- MODULE JvmArguments ----------------------------
(***************************************************************************)
(* The additional JVM arguments of an instance: the text that the user     *)
(* typed, as it is split into arguments when a configuration is saved and  *)
(* when a game is launched, and as the launch puts it together again to    *)
(* check it once more.                                                     *)
(***************************************************************************)
EXTENDS Naturals, Sequences, SequencesExt

CONSTANTS
    Quote, Slash, Blank, Control, \* characters with a meaning
    Heap,                         \* stands for the prefix of a heap flag
    Jar,                          \* alone, it is a classpath flag
    MaxText,                      \* 8192
    MaxArgument,                  \* 4096
    MaxArguments                  \* 64

Backslashes(n) == [i \in 1 .. n |-> Slash]

-----------------------------------------------------------------------------
(* parse_jvm_arguments *)

\* What has been read: arguments, the one being read, whether there is one,
\* whether a quote is open, and the backslashes that wait for what follows.
Start == [arguments |-> <<>>, current |-> <<>>, some |-> FALSE, quoted |-> FALSE, run |-> 0]

\* Backslashes are themselves, but before a quote two are one, and an odd one
\* makes it a letter.
Read(s, c) ==
    LET literal == [s EXCEPT !.current = @ \o Backslashes(s.run), !.run = 0]
        halved == [s EXCEPT !.current = @ \o Backslashes(s.run \div 2), !.run = 0, !.some = TRUE]
    IN  CASE c = Slash -> [s EXCEPT !.run = @ + 1, !.some = TRUE]
          [] c = Quote /\ s.run % 2 = 1 -> [halved EXCEPT !.current = Append(@, Quote)]
          [] c = Quote /\ s.run % 2 = 0 -> [halved EXCEPT !.quoted = ~@]
          [] c = Blank /\ ~s.quoted ->
                IF literal.some
                THEN [Start EXCEPT !.arguments = Append(literal.arguments, literal.current)]
                ELSE literal
          [] OTHER -> [literal EXCEPT !.current = Append(@, c), !.some = TRUE]

\* is_launcher_owned_flag
Owned(argument) == argument # <<>> /\ (Head(argument) = Heap \/ argument = <<Jar>>)

Refusal(reason) == [refused |-> reason, arguments |-> <<>>]

Finish(s) ==
    LET last == Append(s.arguments, s.current \o Backslashes(s.run))
        all == IF s.some THEN last ELSE s.arguments
    IN  IF s.quoted THEN Refusal("quote")
        ELSE IF Len(all) > MaxArguments THEN Refusal("limit")
        ELSE IF \E i \in DOMAIN all : Len(all[i]) > MaxArgument THEN Refusal("limit")
        ELSE IF \E i \in DOMAIN all : Owned(all[i]) THEN Refusal("owned")
        ELSE [refused |-> "no", arguments |-> all]

Parse(text) ==
    IF Len(text) > MaxText THEN Refusal("limit")
    ELSE IF Control \in ToSet(text) THEN Refusal("control")
    ELSE Finish(FoldLeft(Read, Start, text))

-----------------------------------------------------------------------------
(* The launch *)

Escaped(c) == IF c \in {Slash, Quote} THEN <<Slash, c>> ELSE <<c>>

\* An argument with a blank or a quote is quoted again.
Requote(argument) ==
    IF ToSet(argument) \cap {Blank, Quote} = {} THEN argument
    ELSE <<Quote>> \o FlattenSeq([i \in DOMAIN argument |-> Escaped(argument[i])]) \o <<Quote>>

JoinWithBlanks(arguments) ==
    FlattenSeq([i \in DOMAIN arguments |->
        IF i = 1 THEN arguments[i] ELSE <<Blank>> \o arguments[i]])

\* resolve_launch_spec: the second validation.
Relaunch(arguments) ==
    Parse(JoinWithBlanks([i \in DOMAIN arguments |-> Requote(arguments[i])]))

-----------------------------------------------------------------------------
(* Properties of a text *)

\* Of an argument, the text that the rules of the module documentation
\* (settings.rs:22-35) give for it: quoted, with the backslashes before a
\* quote doubled and the quote escaped.
RECURSIVE Quoted(_, _)
Quoted(argument, run) ==
    IF argument = <<>> THEN Backslashes(2 * run) \o <<Quote>>
    ELSE CASE Head(argument) = Slash -> Quoted(Tail(argument), run + 1)
           [] Head(argument) = Quote ->
                Backslashes(2 * run + 1) \o <<Quote>> \o Quoted(Tail(argument), 0)
           [] OTHER ->
                Backslashes(run) \o <<Head(argument)>> \o Quoted(Tail(argument), 0)

AsText(argument) == <<Quote>> \o Quoted(argument, 0)

\* The rules can express every argument and any two beside one another, and no
\* more than one way: what a text is split into is what it was written for.
ReadsBack(argument) ==
    (~Owned(argument) /\ Len(argument) <= MaxArgument /\ Control \notin ToSet(argument)) =>
        LET single == AsText(argument)
            pair == single \o <<Blank>> \o single
        IN  /\ Len(single) <= MaxText => Parse(single).arguments = <<argument>>
            /\ Len(pair) <= MaxText => Parse(pair).arguments = <<argument, argument>>

\* A configuration that was saved passes the second check of a launch, unless
\* the limits are less for the text that the launch writes.
LaunchAgrees(text) ==
    LET saved == Parse(text)
    IN  saved.refused = "no" => Relaunch(saved.arguments).refused \in {"no", "limit"}
=============================================================================
