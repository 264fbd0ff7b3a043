------------------------- MODULE GameSessionsProofs -------------------------
(***************************************************************************)
(* What the presence shows and the history holds, for any number of games, *)
(* instances, places and failures.  The history is followed through the    *)
(* recorder each game's listener holds: HistoryInv says who may still      *)
(* write a session, VisitsInv how the places a game reported divide into   *)
(* those recorded, the one it is in and those still being handed over.     *)
(* The presence is followed through the worker's queue: PresenceInv says   *)
(* what the messages still on their way will have told once taken.         *)
(***************************************************************************)
EXTENDS GameSessions, SequenceTheorems, FiniteSetTheorems, WellFoundedInduction, TLAPS

-----------------------------------------------------------------------------
(* The invariants                                                          *)

Steps == {"none", "starting", "launch", "spawned", "telling", "playing", "observing", "draining",
          "finishing", "done"}
Somewhere == Places \cup {Unknown}

\* The steps before a game may have a session, while its recorder works, and
\* while its receiver may be there.
Unrecorded == {"none", "starting", "launch", "spawned"}
Recording == {"telling", "playing", "observing", "draining"}
Following == {"playing", "observing", "draining", "finishing", "done"}

Child == [instance : Instances \cup {None}, at : Steps, outcome : {"normal", "abnormal", None},
          recording : BOOLEAN, visit : Somewhere \cup {None}]
Bridge == [valid : BOOLEAN, at : {"none", "listening", "cloning", "observing", "closed"},
           place : Somewhere \cup {None}, sent : Nat]
Recorder == [active : BOOLEAN, current : Somewhere \cup {None}]

Shapes ==
    /\ configured \in BOOLEAN
    /\ children \in [Games -> Child]
    /\ bridges \in [Games -> Bridge]
    /\ recorders \in [Games -> Recorder]
    /\ heard \in [Games -> Seq(Somewhere)]
    /\ opened \in BOOLEAN

\* Games take their numbers in turn.
Turns == \E k \in 0 .. MaxGames : {g \in Games : children[g].at # "none"} = 1 .. k

\* A receiver is there once its game runs, and what it hears ends with the game.
BridgeFollows(g) ==
    /\ children[g].at # "none" => children[g].instance \in Instances
    /\ bridges[g].at # "none" =>
         /\ children[g].at \in Following /\ children[g].instance \in Bridged
         /\ bridges[g].valid => children[g].at = "playing"
         /\ Readable /\ children[g].at # "playing" => heard[g] # <<>> /\ Last(heard[g]) = Unknown
    /\ bridges[g].at \in {"cloning", "observing"} => bridges[g].place # None
    /\ bridges[g].valid => children[g].at # "none" /\ children[g].instance \in Bridged
    /\ children[g].at \in Unrecorded \cup {"telling"} => heard[g] = <<>>

BridgesFollow == \A g \in Games : BridgeFollows(g)

GamesInv == Shapes /\ Turns /\ BridgesFollow

-----------------------------------------------------------------------------
(* The games and their receivers                                           *)

\* What is heard of a game last is what it reported last.
LEMMA HearFacts ==
    ASSUME Shapes, NEW g \in Games, NEW place \in Somewhere, Hear(g, place)
    PROVE  /\ heard' \in [Games -> Seq(Somewhere)]
           /\ Readable => heard'[g] # <<>> /\ Last(heard'[g]) = place
           /\ \A h \in Games \ {g} : heard'[h] = heard[h]
           /\ \/ heard'[g] = heard[g] /\ (Readable => heard[g] # <<>> /\ Last(heard[g]) = place)
              \/ heard'[g] = Append(heard[g], place)
PROOF
<1> DEFINE before == heard[g]
           now == IF ~Readable \/ (before # <<>> /\ Last(before) = place) THEN before
                  ELSE Append(before, place)
<1>1. before \in Seq(Somewhere) BY DEF Shapes
<1>2. heard' = [heard EXCEPT ![g] = now] BY DEF Hear
<1>3. Append(before, place) \in Seq(Somewhere) /\ Append(before, place) # <<>>
      /\ Last(Append(before, place)) = place
  <2>1. /\ Append(before, place) \in Seq(Somewhere) /\ Append(before, place) # <<>>
        /\ Len(Append(before, place)) = Len(before) + 1
        /\ Append(before, place)[Len(before) + 1] = place
    BY <1>1, AppendProperties
  <2> QED BY <2>1 DEF Last
<1>4. now \in Seq(Somewhere) BY <1>1, <1>3
<1>5. heard' \in [Games -> Seq(Somewhere)] /\ heard'[g] = now
      /\ \A h \in Games \ {g} : heard'[h] = heard[h]
  <2> HIDE DEF now
  <2> QED BY <1>2, <1>4 DEF Shapes
<1> QED BY <1>1, <1>3, <1>5

\* Who is started next is nobody yet.
LEMMA NextTurn ==
    ASSUME Turns, NEW g \in Games, g = Cardinality({h \in Games : children[h].at # "none"}) + 1
    PROVE  /\ children[g].at = "none"
           /\ \A h \in Games : children[h].at # "none" => h < g
           /\ {h \in Games : children[h].at # "none"} \cup {g} = 1 .. g
PROOF
<1>1. PICK k \in 0 .. MaxGames : {h \in Games : children[h].at # "none"} = 1 .. k BY DEF Turns
<1>2. k \in Nat /\ MaxGames \in Nat BY <1>1, SessionBounds
<1>3. Cardinality(1 .. k) = k BY <1>2, FS_Interval
<1>4. g = k + 1 BY <1>1, <1>3
<1>5. (1 .. k) \cup {k + 1} = 1 .. (k + 1) BY <1>2
<1>6. g \notin 1 .. k /\ \A h \in 1 .. k : h < g BY <1>2, <1>4
<1> QED BY <1>1, <1>4, <1>5, <1>6

LEMMA GamesInvInit == Init => GamesInv
PROOF
<1> SUFFICES ASSUME Init PROVE GamesInv OBVIOUS
<1> USE SessionBounds
<1>1. Shapes
  BY EmptySeq DEF Init, DiscordInit, Shapes, Child, Bridge, Recorder, NoProcess, NoBridge, NoRecorder, Steps
<1>2. Turns
  <2>1. {g \in Games : children[g].at # "none"} = 1 .. 0 BY DEF Init, NoProcess
  <2> QED BY <2>1 DEF Turns
<1>3. BridgesFollow BY DEF BridgesFollow, BridgeFollows, Init, NoProcess, NoBridge
<1> QED BY <1>1, <1>2, <1>3 DEF GamesInv

\* The parts of a game a step assigns keep their shapes.
LEMMA Parts ==
    ASSUME Shapes, NEW g \in Games
    PROVE  /\ \A step \in Steps : [children[g] EXCEPT !.at = step] \in Child
           /\ \A step \in Steps, outcome \in {"normal", "abnormal"} :
                [children[g] EXCEPT !.at = step, !.outcome = outcome] \in Child
           /\ \A recording \in BOOLEAN, visit \in Somewhere \cup {None} :
                [children[g] EXCEPT !.at = "finishing", !.recording = recording, !.visit = visit]
                    \in Child
           /\ \A i \in Instances \cup {None}, step \in Steps :
                [NoProcess EXCEPT !.instance = i, !.at = step] \in Child
           /\ \A at \in {"none", "listening", "observing"} : [bridges[g] EXCEPT !.at = at] \in Bridge
           /\ \A at \in {"listening", "closed"} :
                [bridges[g] EXCEPT !.at = at, !.place = None] \in Bridge
           /\ \A valid \in BOOLEAN : [bridges[g] EXCEPT !.valid = valid] \in Bridge
           /\ \A place \in Somewhere :
                /\ [bridges[g] EXCEPT !.sent = @ + 1, !.at = "cloning", !.place = place] \in Bridge
                /\ [bridges[g] EXCEPT !.at = "cloning", !.place = place, !.valid = FALSE] \in Bridge
           /\ \A place \in Somewhere \cup {None} : [recorders[g] EXCEPT !.current = place] \in Recorder
           /\ [recorders[g] EXCEPT !.active = TRUE] \in Recorder
PROOF
<1> USE DEF Child, Bridge, Recorder
<1>1. children[g] \in Child /\ bridges[g] \in Bridge /\ recorders[g] \in Recorder
  BY DEF Shapes
<1>2. \A step \in Steps : [children[g] EXCEPT !.at = step] \in Child BY <1>1
<1>3. \A step \in Steps, outcome \in {"normal", "abnormal"} :
        [children[g] EXCEPT !.at = step, !.outcome = outcome] \in Child
  BY <1>1
<1>4. \A recording \in BOOLEAN, visit \in Somewhere \cup {None} :
        [children[g] EXCEPT !.at = "finishing", !.recording = recording, !.visit = visit] \in Child
  BY <1>1 DEF Steps
<1>5. \A i \in Instances \cup {None}, step \in Steps :
        [NoProcess EXCEPT !.instance = i, !.at = step] \in Child
  BY DEF NoProcess
<1>6. \A at \in {"none", "listening", "observing"} : [bridges[g] EXCEPT !.at = at] \in Bridge BY <1>1
<1>7. \A at \in {"listening", "closed"} : [bridges[g] EXCEPT !.at = at, !.place = None] \in Bridge
  BY <1>1
<1>8. \A valid \in BOOLEAN : [bridges[g] EXCEPT !.valid = valid] \in Bridge BY <1>1
<1>9. \A place \in Somewhere :
        /\ [bridges[g] EXCEPT !.sent = @ + 1, !.at = "cloning", !.place = place] \in Bridge
        /\ [bridges[g] EXCEPT !.at = "cloning", !.place = place, !.valid = FALSE] \in Bridge
  <2> SUFFICES ASSUME NEW place \in Somewhere
               PROVE  /\ [bridges[g] EXCEPT !.sent = @ + 1, !.at = "cloning", !.place = place]
                            \in Bridge
                      /\ [bridges[g] EXCEPT !.at = "cloning", !.place = place, !.valid = FALSE]
                            \in Bridge
    OBVIOUS
  <2>1. bridges[g].sent + 1 \in Nat BY <1>1
  <2>2. [bridges[g] EXCEPT !.sent = bridges[g].sent + 1, !.at = "cloning", !.place = place] \in Bridge
    BY <1>1, <2>1
  <2>3. [bridges[g] EXCEPT !.at = "cloning", !.place = place, !.valid = FALSE] \in Bridge
    BY <1>1
  <2> QED BY <2>2, <2>3
<1>10. \A place \in Somewhere \cup {None} : [recorders[g] EXCEPT !.current = place] \in Recorder
  BY <1>1
<1>11. [recorders[g] EXCEPT !.active = TRUE] \in Recorder BY <1>1
<1> HIDE DEF Child, Bridge, Recorder
<1> QED BY <1>2, <1>3, <1>4, <1>5, <1>6, <1>7, <1>8, <1>9, <1>10, <1>11

\* What a step of one game leaves to the others, and keeps of its shape.
LEMMA StepShapes ==
    ASSUME Shapes, BridgesFollow, NEW g \in Games, Step(g)
    PROVE  /\ Shapes' /\ configured' = configured
           /\ \A h \in Games \ {g} : /\ children'[h] = children[h] /\ bridges'[h] = bridges[h]
                                     /\ recorders'[h] = recorders[h] /\ heard'[h] = heard[h]
           /\ children'[g].instance = children[g].instance
           /\ children[g].at # "none" /\ children'[g].at # "none"
PROOF
<1> DEFINE Set(f, p) == [f EXCEPT ![g] = p]
           ChildGoal == /\ children' \in [Games -> Child]
                        /\ \A h \in Games \ {g} : children'[h] = children[h]
                        /\ children'[g].instance = children[g].instance
                        /\ children[g].at # "none" /\ children'[g].at # "none"
           BridgeGoal == /\ bridges' \in [Games -> Bridge]
                         /\ \A h \in Games \ {g} : bridges'[h] = bridges[h]
           RecorderGoal == /\ recorders' \in [Games -> Recorder]
                           /\ \A h \in Games \ {g} : recorders'[h] = recorders[h]
           HeardGoal == /\ heard' \in [Games -> Seq(Somewhere)]
                        /\ \A h \in Games \ {g} : heard'[h] = heard[h]
           RestGoal == configured' = configured /\ opened' \in BOOLEAN
<1>c. /\ \A c : c \in Child /\ children' = [children EXCEPT ![g] = c] /\ c.instance = children[g].instance
                /\ children[g].at # "none" /\ c.at # "none" => ChildGoal
      /\ UNCHANGED children /\ children[g].at # "none" => ChildGoal
  BY DEF Shapes
<1>b. /\ \A b : b \in Bridge /\ bridges' = [bridges EXCEPT ![g] = b] => BridgeGoal
      /\ UNCHANGED bridges => BridgeGoal
  BY DEF Shapes
<1>r. /\ \A r : r \in Recorder /\ recorders' = [recorders EXCEPT ![g] = r] => RecorderGoal
      /\ UNCHANGED recorders => RecorderGoal
  BY DEF Shapes
<1>h. /\ \A place \in Somewhere : Hear(g, place) => HeardGoal
      /\ UNCHANGED heard => HeardGoal
  BY HearFacts DEF Shapes
<1>i. /\ children[g] \in Child /\ bridges[g] \in Bridge /\ recorders[g] \in Recorder
      /\ opened \in BOOLEAN
  BY DEF Shapes
<1>f. bridges[g].at # "none" => children[g].at # "none" BY DEF BridgesFollow, BridgeFollows, Following
<1>g. Unknown \in Somewhere /\ Places \subseteq Somewhere BY DEF Somewhere
<1>s. \A step \in Steps : At(g, step) /\ children[g].at # "none" /\ step # "none" => ChildGoal
  <2> SUFFICES ASSUME NEW step \in Steps, At(g, step), children[g].at # "none", step # "none"
               PROVE  ChildGoal
    OBVIOUS
  <2> DEFINE c == [children[g] EXCEPT !.at = step]
  <2>1. c \in Child /\ children' = [children EXCEPT ![g] = c] BY Parts DEF At
  <2>2. c.instance = children[g].instance /\ c.at = step BY <1>i DEF Child
  <2> QED BY <2>1, <2>2, <1>c
<1> USE DEF world, records, discord, discordQuiet, rest
<1> HIDE DEF ChildGoal, BridgeGoal, RecorderGoal, HeardGoal
<1> SUFFICES ChildGoal /\ BridgeGoal /\ RecorderGoal /\ HeardGoal /\ RestGoal
  BY DEF Shapes, ChildGoal, BridgeGoal, RecorderGoal, HeardGoal
<1>1. CASE TellStarting(g)
  BY <1>1, <1>b, <1>r, <1>h, <1>s, <1>i DEF TellStarting, Steps
<1>2. CASE Launch(g) BY <1>2, <1>b, <1>r, <1>h, <1>s, <1>i DEF Launch, Steps
<1>3. CASE LaunchFails(g)
  <2> DEFINE c == [children[g] EXCEPT !.at = "finishing", !.outcome = "abnormal"]
  <2>1. c \in Child BY Parts DEF Steps
  <2>2. c.instance = children[g].instance /\ c.at = "finishing" BY <1>i DEF Child
  <2>3. children' = [children EXCEPT ![g] = c] /\ children[g].at = "launch" BY <1>3 DEF LaunchFails
  <2>4. ChildGoal BY <2>1, <2>2, <2>3, <1>c
  <2> QED BY <1>3, <2>4, <1>b, <1>r, <1>h, <1>i DEF LaunchFails
<1>4. CASE Record(g)
  <2>1. /\ At(g, "telling") /\ children[g].at = "spawned"
        /\ opened' = TRUE /\ UNCHANGED <<discord, bridges, heard>>
    BY <1>4 DEF Record
  <2>2. recorders' = recorders \/ recorders' = [recorders EXCEPT ![g] = [@ EXCEPT !.active = TRUE]]
    BY <1>4 DEF Record
  <2>3. RecorderGoal BY <2>2, <1>r, Parts
  <2> QED BY <2>1, <2>3, <1>b, <1>h, <1>s DEF Steps
<1>5. CASE RecordFails(g)
  BY <1>5, <1>b, <1>r, <1>h, <1>s, <1>i DEF RecordFails, Steps
<1>6. CASE TellRunning(g)
  <2>1. \E at \in {"none", "listening"} : bridges' = [bridges EXCEPT ![g] = [@ EXCEPT !.at = at]]
    BY <1>6 DEF TellRunning
  <2>2. BridgeGoal BY <2>1, <1>b, Parts
  <2>3. children[g].at # "none" /\ At(g, "playing") BY <1>6 DEF TellRunning
  <2> QED BY <1>6, <2>2, <2>3, <1>s, <1>r, <1>h, <1>i DEF TellRunning, Steps
<1>7. CASE ExitObserved(g)
  <2>1. /\ At(g, "draining") /\ children[g].at = "observing"
        /\ UNCHANGED <<configured, opened, bridges, heard>>
    BY <1>7 DEF ExitObserved
  <2>2. \/ recorders' = recorders
        \/ \E place \in Somewhere \cup {None} :
              recorders' = [recorders EXCEPT ![g] = [@ EXCEPT !.current = place]]
    BY <1>7, <1>g DEF ExitObserved, Observe, ObserveFails
  <2>3. RecorderGoal BY <2>2, <1>r, Parts
  <2> QED BY <2>1, <2>3, <1>b, <1>h, <1>s, <1>i DEF Steps
<1>8. CASE Ended(g)
  <2> DEFINE c == [children[g] EXCEPT !.at = "finishing", !.recording = recorders[g].active,
                                      !.visit = recorders[g].current]
  <2>1. recorders[g].active \in BOOLEAN /\ recorders[g].current \in Somewhere \cup {None}
    BY <1>i DEF Recorder
  <2>2. c \in Child BY <2>1, Parts
  <2>3. c.instance = children[g].instance /\ c.at = "finishing" BY <1>i DEF Child
  <2>4. children' = [children EXCEPT ![g] = c] /\ children[g].at = "draining" BY <1>8 DEF Ended
  <2>5. ChildGoal BY <2>2, <2>3, <2>4, <1>c
  <2>6. NoRecorder \in Recorder BY DEF NoRecorder, Recorder
  <2> QED BY <1>8, <2>5, <2>6, <1>b, <1>r, <1>h, <1>i DEF Ended
<1>9. CASE Finished(g)
  <2> DEFINE c == Over(g)
  <2>1. children[g].instance \in Instances \cup {None} BY <1>i DEF Child
  <2>2. c \in Child BY <2>1, Parts DEF Over, Steps
  <2>3. c.instance = children[g].instance /\ c.at = "done" BY DEF Over, NoProcess
  <2>4. children' = [children EXCEPT ![g] = c] /\ children[g].at = "finishing" BY <1>9 DEF Finished
  <2>5. ChildGoal BY <2>2, <2>3, <2>4, <1>c
  <2> QED BY <1>9, <2>5, <1>b, <1>r, <1>h, <1>i DEF Finished
<1>10. CASE \E outcome \in Outcomes : Exit(g, outcome)
  <2>1. PICK outcome \in Outcomes : Exit(g, outcome) BY <1>10
  <2>2. outcome \in {"normal", "abnormal"} BY DEF Outcomes
  <2>3. \E step \in {"observing", "draining"} :
          children' = [children EXCEPT ![g] = [@ EXCEPT !.at = step, !.outcome = outcome]]
    BY <2>1 DEF Exit
  <2>4. PICK step \in {"observing", "draining"} :
          children' = [children EXCEPT ![g] = [@ EXCEPT !.at = step, !.outcome = outcome]]
    BY <2>3
  <2> DEFINE c == [children[g] EXCEPT !.at = step, !.outcome = outcome]
  <2>5. c \in Child BY <2>2, Parts DEF Steps
  <2>6. c.instance = children[g].instance /\ c.at = step BY <1>i DEF Child
  <2>7. children[g].at = "playing" /\ UNCHANGED <<configured, opened, recorders>> BY <2>1 DEF Exit
  <2>8. ChildGoal BY <2>4, <2>5, <2>6, <2>7, <1>c
  <2>9. \/ bridges' = bridges /\ heard' = heard
        \/ bridges' = [bridges EXCEPT ![g] = [@ EXCEPT !.valid = FALSE]] /\ Hear(g, Unknown)
    BY <2>1 DEF Exit
  <2>10. BridgeGoal /\ HeardGoal BY <2>9, <1>b, <1>h, <1>g, Parts
  <2> QED BY <2>7, <2>8, <2>10, <1>r, <1>i
<1>11. CASE \E place \in Places : Report(g, place)
  <2>1. PICK place \in Places : Report(g, place) BY <1>11
  <2>2. place \in Somewhere BY <1>g
  <2>3. BridgeGoal
    <3> DEFINE b == [bridges[g] EXCEPT !.sent = @ + 1, !.at = "cloning", !.place = place]
    <3>1. b \in Bridge BY <2>2, Parts
    <3>2. bridges' = [bridges EXCEPT ![g] = b] BY <2>1 DEF Report
    <3> QED BY <3>1, <3>2, <1>b
  <2> QED BY <2>1, <2>2, <2>3, <1>c, <1>r, <1>h, <1>i, <1>f DEF Report
<1>12. CASE CloseBridge(g)
  <2>1. BridgeGoal
    <3> DEFINE b == [bridges[g] EXCEPT !.at = "cloning", !.place = Unknown, !.valid = FALSE]
    <3>1. b \in Bridge BY <1>g, Parts
    <3>2. bridges' = [bridges EXCEPT ![g] = b] BY <1>12 DEF CloseBridge
    <3> QED BY <3>1, <3>2, <1>b
  <2> QED BY <1>12, <2>1, <1>c, <1>r, <1>h, <1>i, <1>f, <1>g DEF CloseBridge
<1>13. CASE Clone(g)
  <2>1. \/ bridges' = [bridges EXCEPT ![g] = [@ EXCEPT !.at = "observing"]]
        \/ \E at \in {"listening", "closed"} :
              bridges' = [bridges EXCEPT ![g] = [@ EXCEPT !.at = at, !.place = None]]
    BY <1>13 DEF Clone, After
  <2>2. BridgeGoal BY <2>1, <1>b, Parts
  <2>3. bridges[g].at = "cloning" /\ UNCHANGED <<configured, opened, children, recorders, heard>>
    BY <1>13 DEF Clone
  <2> QED BY <2>2, <2>3, <1>c, <1>r, <1>h, <1>i, <1>f
<1>14. CASE Observed(g)
  <2>1. \E at \in {"listening", "closed"} :
           bridges' = [bridges EXCEPT ![g] = [@ EXCEPT !.at = at, !.place = None]]
    BY <1>14 DEF Observed, After
  <2>2. BridgeGoal BY <2>1, <1>b, Parts
  <2>3. bridges[g].at = "observing" /\ UNCHANGED <<configured, opened, children, heard>>
    BY <1>14 DEF Observed
  <2>4. bridges[g].place \in Somewhere \cup {None} BY <1>i DEF Bridge
  <2>5. \/ recorders' = recorders
        \/ \E place \in Somewhere \cup {None} :
              recorders' = [recorders EXCEPT ![g] = [@ EXCEPT !.current = place]]
    BY <1>14, <2>4 DEF Observed, Observe, ObserveFails
  <2>6. RecorderGoal BY <2>5, <1>r, Parts
  <2> QED BY <2>2, <2>3, <2>6, <1>c, <1>h, <1>i, <1>f
<1> QED
  BY <1>1, <1>2, <1>3, <1>4, <1>5, <1>6, <1>7, <1>8, <1>9, <1>10, <1>11, <1>12, <1>13, <1>14 DEF Step

\* Where a step of one game takes its supervisor, its receiver and its recorder.
LEMMA StepEffects ==
    ASSUME Shapes, NEW g \in Games
    PROVE  /\ TellStarting(g) => children[g].at = "starting" /\ children'[g].at = "launch"
           /\ Launch(g) => children[g].at = "launch" /\ children'[g].at = "spawned"
           /\ LaunchFails(g) => children[g].at = "launch" /\ children'[g].at = "finishing"
           /\ Record(g) =>
                /\ children[g].at = "spawned" /\ children'[g].at = "telling"
                /\ recorders'[g].current = recorders[g].current
           /\ RecordFails(g) => children[g].at = "spawned" /\ children'[g].at = "telling"
           /\ TellRunning(g) =>
                /\ children[g].at = IF Readable THEN "telling" ELSE "spawned"
                /\ children'[g].at = "playing"
                /\ bridges'[g] = [bridges[g] EXCEPT !.at = IF bridges[g].valid THEN "listening" ELSE "none"]
                /\ bridges'[g].valid = bridges[g].valid /\ bridges'[g].place = bridges[g].place
                /\ bridges'[g].at = IF bridges[g].valid THEN "listening" ELSE "none"
           /\ \A outcome \in Outcomes : Exit(g, outcome) =>
                /\ children[g].at = "playing"
                /\ bridges'[g].at = bridges[g].at /\ bridges'[g].place = bridges[g].place
                /\ children[g].instance \in Bridged =>
                     children'[g].at = "observing" /\ ~bridges'[g].valid /\ Hear(g, Unknown)
                /\ children[g].instance \notin Bridged =>
                     children'[g].at = "draining" /\ UNCHANGED <<bridges, heard>>
           /\ ExitObserved(g) => children[g].at = "observing" /\ children'[g].at = "draining"
           /\ Ended(g) =>
                /\ children[g].at = "draining" /\ children'[g].at = "finishing"
                /\ children'[g].recording = recorders[g].active
                /\ children'[g].visit = recorders[g].current
                /\ ~recorders'[g].active /\ recorders'[g].current = None
           /\ Finished(g) => children[g].at = "finishing" /\ children'[g].at = "done"
           /\ \A place \in Places : Report(g, place) =>
                /\ bridges[g].at = "listening" /\ bridges[g].valid
                /\ bridges'[g].at = "cloning" /\ bridges'[g].place = place /\ bridges'[g].valid
           /\ CloseBridge(g) =>
                /\ bridges[g].at = "listening"
                /\ bridges'[g].at = "cloning" /\ bridges'[g].place = Unknown /\ ~bridges'[g].valid
           /\ Clone(g) =>
                /\ bridges[g].at = "cloning" /\ bridges'[g].valid = bridges[g].valid
                /\ recorders[g].active =>
                     bridges'[g].at = "observing" /\ bridges'[g].place = bridges[g].place
                /\ ~recorders[g].active => bridges'[g].at \in {"listening", "closed"}
           /\ Observed(g) =>
                /\ bridges[g].at = "observing" /\ bridges'[g].valid = bridges[g].valid
                /\ bridges'[g].at \in {"listening", "closed"}
PROOF
<1> USE DEF At, Over, NoProcess, NoRecorder, After
<1>1. /\ children \in [Games -> Child] /\ bridges \in [Games -> Bridge]
      /\ recorders \in [Games -> Recorder]
      /\ children[g] \in Child /\ bridges[g] \in Bridge /\ recorders[g] \in Recorder
  BY DEF Shapes
<1> USE <1>1 DEF Child, Bridge, Recorder
<1>2. TellStarting(g) => children[g].at = "starting" /\ children'[g].at = "launch"
  BY DEF TellStarting
<1>3. Launch(g) => children[g].at = "launch" /\ children'[g].at = "spawned" BY DEF Launch
<1>4. LaunchFails(g) => children[g].at = "launch" /\ children'[g].at = "finishing" BY DEF LaunchFails
<1>5. Record(g) => /\ children[g].at = "spawned" /\ children'[g].at = "telling"
                   /\ recorders'[g].current = recorders[g].current
  <2> SUFFICES ASSUME Record(g)
               PROVE  /\ children[g].at = "spawned" /\ children'[g].at = "telling"
                      /\ recorders'[g].current = recorders[g].current
    OBVIOUS
  <2>1. children[g].at = "spawned" /\ children'[g].at = "telling" BY DEF Record
  <2>2. recorders' = recorders \/ recorders' = [recorders EXCEPT ![g].active = TRUE] BY DEF Record
  <2> QED BY <2>1, <2>2
<1>6. RecordFails(g) => children[g].at = "spawned" /\ children'[g].at = "telling" BY DEF RecordFails
<1>7. TellRunning(g) =>
        /\ children[g].at = IF Readable THEN "telling" ELSE "spawned"
        /\ children'[g].at = "playing"
        /\ bridges'[g] = [bridges[g] EXCEPT !.at = IF bridges[g].valid THEN "listening" ELSE "none"]
        /\ bridges'[g].valid = bridges[g].valid /\ bridges'[g].place = bridges[g].place
        /\ bridges'[g].at = IF bridges[g].valid THEN "listening" ELSE "none"
  BY DEF TellRunning
<1>8. \A outcome \in Outcomes : Exit(g, outcome) =>
        /\ children[g].at = "playing"
        /\ bridges'[g].at = bridges[g].at /\ bridges'[g].place = bridges[g].place
        /\ children[g].instance \in Bridged =>
             children'[g].at = "observing" /\ ~bridges'[g].valid /\ Hear(g, Unknown)
        /\ children[g].instance \notin Bridged =>
             children'[g].at = "draining" /\ UNCHANGED <<bridges, heard>>
  BY DEF Exit
<1>9. ExitObserved(g) => children[g].at = "observing" /\ children'[g].at = "draining"
  BY DEF ExitObserved
<1>10. Ended(g) =>
         /\ children[g].at = "draining" /\ children'[g].at = "finishing"
         /\ children'[g].recording = recorders[g].active
         /\ children'[g].visit = recorders[g].current
         /\ ~recorders'[g].active /\ recorders'[g].current = None
  BY DEF Ended
<1>11. Finished(g) => children[g].at = "finishing" /\ children'[g].at = "done" BY DEF Finished
<1>12. \A place \in Places : Report(g, place) =>
         /\ bridges[g].at = "listening" /\ bridges[g].valid
         /\ bridges'[g].at = "cloning" /\ bridges'[g].place = place /\ bridges'[g].valid
  BY DEF Report
<1>13. CloseBridge(g) =>
         /\ bridges[g].at = "listening"
         /\ bridges'[g].at = "cloning" /\ bridges'[g].place = Unknown /\ ~bridges'[g].valid
  BY DEF CloseBridge
<1>14. Clone(g) =>
         /\ bridges[g].at = "cloning" /\ bridges'[g].valid = bridges[g].valid
         /\ recorders[g].active =>
              bridges'[g].at = "observing" /\ bridges'[g].place = bridges[g].place
         /\ ~recorders[g].active => bridges'[g].at \in {"listening", "closed"}
  BY DEF Clone
<1>15. Observed(g) =>
         /\ bridges[g].at = "observing" /\ bridges'[g].valid = bridges[g].valid
         /\ bridges'[g].at \in {"listening", "closed"}
  BY DEF Observed
<1> QED
  BY <1>2, <1>3, <1>4, <1>5, <1>6, <1>7, <1>8, <1>9, <1>10, <1>11, <1>12, <1>13, <1>14, <1>15

\* What each kind of step keeps of the receivers.
LEMMA StepFollows ==
    ASSUME Shapes, BridgesFollow, NEW g \in Games, Step(g)
    PROVE  BridgesFollow'
PROOF
<1>1. /\ Shapes' /\ configured' = configured
      /\ \A h \in Games \ {g} : /\ children'[h] = children[h] /\ bridges'[h] = bridges[h]
                                /\ recorders'[h] = recorders[h] /\ heard'[h] = heard[h]
      /\ children'[g].instance = children[g].instance
      /\ children[g].at # "none" /\ children'[g].at # "none"
  BY StepShapes
<1>2. \A h \in Games \ {g} : BridgeFollows(h)'
  BY <1>1 DEF BridgesFollow, BridgeFollows, Readable
<1>3. BridgeFollows(g) BY DEF BridgesFollow
<1>4. SUFFICES BridgeFollows(g)' BY <1>2 DEF BridgesFollow
<1>5. UNCHANGED <<bridges, heard>> /\ children'[g].at = children[g].at => BridgeFollows(g)'
  BY <1>1, <1>3 DEF BridgeFollows, Readable
<1>6. /\ UNCHANGED <<bridges, heard>>
      /\ \/ children[g].at \in Unrecorded /\ children'[g].at \in {"launch", "spawned", "telling", "finishing"}
         \/ children[g].at \in Following \ {"playing"} /\ children'[g].at \in {"draining", "finishing", "done"}
      => BridgeFollows(g)'
  BY <1>1, <1>3 DEF BridgeFollows, Readable, Unrecorded, Following
<1> USE <1>1, <1>3 DEF BridgeFollows, Readable, Unrecorded, Following
<1>7. CASE TellStarting(g) BY <1>7, <1>6, StepEffects DEF TellStarting
<1>8. CASE Launch(g) BY <1>8, <1>6, StepEffects DEF Launch
<1>9. CASE LaunchFails(g) BY <1>9, <1>6, StepEffects DEF LaunchFails
<1>10. CASE Record(g) BY <1>10, <1>6, StepEffects DEF Record
<1>11. CASE RecordFails(g) BY <1>11, <1>6, StepEffects DEF RecordFails
<1>12. CASE TellRunning(g)
  <2>1. heard' = heard BY <1>12 DEF TellRunning
  <2> QED BY <1>12, <2>1, StepEffects
<1>13. CASE \E outcome \in Outcomes : Exit(g, outcome)
  <2>1. PICK outcome \in Outcomes : Exit(g, outcome) BY <1>13
  <2>2. CASE children[g].instance \in Bridged
    <3>1. Readable => heard'[g] # <<>> /\ Last(heard'[g]) = Unknown
      <4>1. Unknown \in Somewhere BY DEF Somewhere
      <4> QED BY <2>1, <2>2, <4>1, StepEffects, HearFacts
    <3> QED BY <2>1, <2>2, <3>1, StepEffects
  <2>3. CASE children[g].instance \notin Bridged
    BY <2>1, <2>3, StepEffects
  <2> QED BY <2>2, <2>3
<1>14. CASE ExitObserved(g) BY <1>14, <1>6, StepEffects DEF ExitObserved
<1>15. CASE Ended(g) BY <1>15, <1>6, StepEffects DEF Ended
<1>16. CASE Finished(g) BY <1>16, <1>6, StepEffects DEF Finished
<1>17. CASE \E place \in Places : Report(g, place)
  <2>1. PICK place \in Places : Report(g, place) BY <1>17
  <2>2. children' = children BY <2>1 DEF Report
  <2>3. place # None BY NoneIsNothing
  <2> QED BY <2>1, <2>2, <2>3, StepEffects
<1>18. CASE CloseBridge(g)
  <2>1. children' = children /\ Hear(g, Unknown) BY <1>18 DEF CloseBridge
  <2>2. Unknown # None BY NoneIsNothing
  <2>3. Unknown \in Somewhere BY DEF Somewhere
  <2>4. Readable => heard'[g] # <<>> /\ Last(heard'[g]) = Unknown BY <2>1, <2>3, HearFacts
  <2> QED BY <1>18, <2>1, <2>2, <2>4, StepEffects
<1>19. CASE Clone(g)
  <2>1. children' = children /\ heard' = heard BY <1>19 DEF Clone
  <2> QED BY <1>19, <2>1, StepEffects
<1>20. CASE Observed(g)
  <2>1. children' = children /\ heard' = heard BY <1>20 DEF Observed
  <2> QED BY <1>20, <2>1, StepEffects
<1> QED
  BY <1>7, <1>8, <1>9, <1>10, <1>11, <1>12, <1>13, <1>14, <1>15, <1>16, <1>17, <1>18, <1>19, <1>20
  DEF Step

\* A game takes its turn, and a restart leaves what was started.
LEMMA StartFacts ==
    ASSUME GamesInv, NEW g \in Games, NEW i \in Instances, Start(i, g)
    PROVE  /\ children[g].at = "none" /\ ~bridges[g].valid /\ bridges[g].at = "none"
           /\ \A h \in Games : children[h].at # "none" => h < g
           /\ children' \in [Games -> Child] /\ bridges' \in [Games -> Bridge]
           /\ \A h \in Games \ {g} : children'[h] = children[h] /\ bridges'[h] = bridges[h]
           /\ children'[g].at = "starting" /\ children'[g].instance = i
           /\ bridges'[g].at = bridges[g].at /\ bridges'[g].place = bridges[g].place
           /\ bridges'[g].valid = (i \in Bridged)
           /\ Turns'
PROOF
<1>1. /\ children[g].at = "none"
      /\ \A h \in Games : children[h].at # "none" => h < g
      /\ {h \in Games : children[h].at # "none"} \cup {g} = 1 .. g
  BY NextTurn DEF Start, GamesInv
<1> DEFINE c == [NoProcess EXCEPT !.instance = i, !.at = "starting"]
           b == [bridges[g] EXCEPT !.valid = i \in Bridged]
<1>2. c \in Child /\ b \in Bridge
  <2>1. (i \in Bridged) \in BOOLEAN OBVIOUS
  <2> QED BY <2>1, Parts DEF GamesInv, Steps
<1>3. children' = [children EXCEPT ![g] = c] /\ bridges' = [bridges EXCEPT ![g] = b] BY DEF Start
<1>4. c.at = "starting" /\ c.instance = i BY DEF NoProcess
<1>5. b.at = bridges[g].at /\ b.place = bridges[g].place /\ b.valid = (i \in Bridged)
  BY DEF GamesInv, Shapes, Bridge
<1>6. /\ children' \in [Games -> Child] /\ bridges' \in [Games -> Bridge]
      /\ \A h \in Games \ {g} : children'[h] = children[h] /\ bridges'[h] = bridges[h]
      /\ children'[g] = c /\ bridges'[g] = b
  <2> HIDE DEF c, b
  <2> QED BY <1>2, <1>3 DEF GamesInv, Shapes
<1>7. Turns'
  <2>1. {h \in Games : children'[h].at # "none"} = {h \in Games : children[h].at # "none"} \cup {g}
    BY <1>4, <1>6
  <2>2. g \in 0 .. MaxGames BY SessionBounds DEF Games
  <2> QED BY <1>1, <2>1, <2>2 DEF Turns
<1>8. ~bridges[g].valid /\ bridges[g].at = "none"
  <2>1. bridges[g].valid \in BOOLEAN BY DEF GamesInv, Shapes, Bridge
  <2> QED BY <1>1, <2>1 DEF GamesInv, BridgesFollow, BridgeFollows, Following
<1> QED BY <1>1, <1>4, <1>5, <1>6, <1>7, <1>8

LEMMA RestartFacts ==
    ASSUME Shapes, Restart
    PROVE  /\ Shapes' /\ configured' = configured /\ ~opened'
           /\ \A g \in Games : /\ children'[g].instance = children[g].instance \/ children[g].at = "none"
                               /\ children'[g].at = IF children[g].at = "none" THEN "none" ELSE "done"
                               /\ bridges'[g].at = "none" /\ ~bridges'[g].valid
                               /\ ~recorders'[g].active /\ recorders'[g].current = None
           /\ UNCHANGED <<history, archive, heard, recorded, flawed>>
PROOF
<1> USE DEF Restart, Over, NoProcess, NoBridge, NoRecorder
<1>1. children' \in [Games -> Child]
  <2>1. \A g \in Games : (IF children[g].at = "none" THEN NoProcess ELSE Over(g)) \in Child
    BY DEF Shapes, Child, Steps
  <2> QED BY <2>1
<1>2. \A g \in Games : /\ children'[g].instance = children[g].instance \/ children[g].at = "none"
                       /\ children'[g].at = IF children[g].at = "none" THEN "none" ELSE "done"
                       /\ bridges'[g].at = "none" /\ ~bridges'[g].valid
                       /\ ~recorders'[g].active /\ recorders'[g].current = None
  OBVIOUS
<1>3. bridges' \in [Games -> Bridge] /\ recorders' \in [Games -> Recorder]
  BY DEF Bridge, Recorder
<1>4. /\ configured' = configured /\ opened' = FALSE
      /\ UNCHANGED <<history, archive, heard, recorded, flawed>>
  BY DEF DiscordRestarts
<1>5. Shapes' BY <1>1, <1>3, <1>4 DEF Shapes
<1>6. ~opened' BY <1>4
<1>7. configured' = configured BY <1>4
<1>8. UNCHANGED <<history, archive, heard, recorded, flawed>> BY <1>4
<1> HIDE DEF Restart
<1> QED BY <1>2, <1>5, <1>6, <1>7, <1>8

LEMMA GamesInvNext ==
    ASSUME GamesInv, [Next]_vars
    PROVE  GamesInv'
PROOF
<1> USE DEF GamesInv
<1>2. UNCHANGED <<configured, children, bridges, recorders, heard>> /\ opened' \in BOOLEAN => GamesInv'
  BY DEF Shapes, Turns, BridgesFollow, BridgeFollows, Readable
<1>3. ASSUME NEW g \in Games, Step(g) PROVE GamesInv'
  <2>1. Shapes' /\ BridgesFollow' BY <1>3, StepShapes, StepFollows
  <2>2. \A h \in Games : (children'[h].at # "none") <=> (children[h].at # "none")
    BY <1>3, StepShapes
  <2>3. Turns' BY <2>2 DEF Turns
  <2> QED BY <2>1, <2>3
<1>4. ASSUME NEW g \in Games, NEW i \in Instances, Start(i, g) PROVE GamesInv'
  <2>1. UNCHANGED <<configured, recorders, heard, opened>> BY <1>4 DEF Start, discord, records
  <2>2. Shapes' BY <1>4, <2>1, StartFacts DEF Shapes
  <2>3. BridgesFollow'
    <3>1. ASSUME NEW h \in Games \ {g} PROVE BridgeFollows(h)'
      <4>1. children'[h] = children[h] /\ bridges'[h] = bridges[h] BY <1>4, StartFacts
      <4> QED BY <2>1, <4>1 DEF BridgesFollow, BridgeFollows, Readable
    <3>2. BridgeFollows(g)'
      <4>1. heard[g] = <<>>
        BY <1>4, StartFacts DEF BridgesFollow, BridgeFollows, Unrecorded
      <4>2. /\ children'[g].at = "starting" /\ children'[g].instance = i
            /\ bridges'[g].at = "none" /\ bridges'[g].valid = (i \in Bridged)
        BY <1>4, StartFacts
      <4> QED BY <2>1, <4>1, <4>2 DEF BridgeFollows
    <3> QED BY <3>1, <3>2 DEF BridgesFollow
  <2>4. Turns' BY <1>4, StartFacts
  <2> QED BY <2>2, <2>3, <2>4
<1>5. CASE OpenHistory BY <1>2, <1>5 DEF OpenHistory, discord, world
<1>6. CASE User BY <1>2, <1>6 DEF User, world, records, SetPreferences, Ask, Shapes
<1>7. CASE Restart
  <2>1. Shapes' BY <1>7, RestartFacts
  <2>1a. \A g \in Games :
           /\ children'[g].instance = children[g].instance \/ children[g].at = "none"
           /\ children'[g].at = IF children[g].at = "none" THEN "none" ELSE "done"
           /\ bridges'[g].at = "none" /\ ~bridges'[g].valid
    BY <1>7, RestartFacts
  <2>1b. heard' = heard BY <1>7, RestartFacts
  <2>2. \A h \in Games : (children'[h].at # "none") <=> (children[h].at # "none")
    BY <2>1a
  <2>3. Turns' BY <2>2 DEF Turns
  <2>4. BridgesFollow'
    BY <2>1a, <2>1b DEF BridgesFollow, BridgeFollows, Unrecorded
  <2> QED BY <2>1, <2>3, <2>4
<1>8. ASSUME Work(TRUE) \/ Work(FALSE) PROVE configured' = configured
  BY <1>8 DEF Work, Connects, Publish, Receive, Woken, Tick, rest
<1>9. CASE DiscordWorks BY <1>2, <1>8, <1>9 DEF DiscordWorks, world, records, Shapes
<1>10. CASE DiscordFails BY <1>2, <1>8, <1>10 DEF DiscordFails, world, records, Shapes
<1>11. CASE UNCHANGED vars BY <1>2, <1>11 DEF vars, discord, world, records, Shapes
<1> QED BY <1>3, <1>4, <1>5, <1>6, <1>7, <1>9, <1>10, <1>11 DEF Next

-----------------------------------------------------------------------------
(* The history document                                                    *)

\* A document over its bound loses one ended session, and counts it.
Rotated(doc, k) ==
    /\ Len(doc) > MaxSessions /\ doc[k].outcome # None
    /\ history' = RemoveAt(doc, k)
    /\ archive' = [archive EXCEPT ![doc[k].instance] = @ + 1]

Of(doc, i) == {n \in DOMAIN doc : doc[n].instance = i}

LEMMA LeastIndex ==
    ASSUME NEW T \in SUBSET Nat, T # {}
    PROVE  \E k \in T : \A n \in T : k <= n
PROOF
<1>1. \E k \in T : \A n \in T : ~ (<<n, k>> \in OpToRel(<, Nat))
  BY NatLessThanWellFounded, WFMin
<1>2. PICK k \in T : \A n \in T : ~ (<<n, k>> \in OpToRel(<, Nat)) BY <1>1
<1>3. \A n \in T : <<n, k>> \in OpToRel(<, Nat) <=> n < k BY DEF OpToRel
<1>4. \A n \in T : ~ (n < k) BY <1>2, <1>3
<1>5. \A n \in T : k <= n BY <1>4
<1> QED BY <1>5

LEMMA RemoveAtFacts ==
    ASSUME NEW S, NEW seq \in Seq(S), NEW k \in 1 .. Len(seq)
    PROVE  /\ RemoveAt(seq, k) \in Seq(S) /\ Len(RemoveAt(seq, k)) = Len(seq) - 1
           /\ \A n \in 1 .. (Len(seq) - 1) :
                 RemoveAt(seq, k)[n] = IF n < k THEN seq[n] ELSE seq[n + 1]
PROOF
<1> DEFINE left == SubSeq(seq, 1, k - 1)
           right == SubSeq(seq, k + 1, Len(seq))
<1>1. Len(seq) \in Nat /\ \A n \in 1 .. Len(seq) : seq[n] \in S BY ElementOfSeq, LenProperties
<1>2. /\ left \in Seq(S) /\ Len(left) = k - 1
      /\ \A n \in 1 .. (k - 1) : left[n] = seq[n]
  <2>1. \A n \in 1 .. (k - 1) : seq[n] \in S BY <1>1
  <2>2. /\ left \in Seq(S) /\ Len(left) = IF 1 <= k - 1 THEN (k - 1) - 1 + 1 ELSE 0
        /\ \A n \in 1 .. ((k - 1) - 1 + 1) : left[n] = seq[1 + n - 1]
    BY <1>1, <2>1, SubSeqProperties, k - 1 \in Int
  <2> QED BY <1>1, <2>2
<1>3. /\ right \in Seq(S) /\ Len(right) = Len(seq) - k
      /\ \A n \in 1 .. (Len(seq) - k) : right[n] = seq[n + k]
  <2>1. \A n \in (k + 1) .. Len(seq) : seq[n] \in S BY <1>1
  <2>2. k + 1 \in Int /\ Len(seq) \in Int BY <1>1
  <2>3. /\ right \in Seq(S)
        /\ Len(right) = IF k + 1 <= Len(seq) THEN Len(seq) - (k + 1) + 1 ELSE 0
        /\ \A n \in 1 .. (Len(seq) - (k + 1) + 1) : right[n] = seq[(k + 1) + n - 1]
    BY <2>1, <2>2, SubSeqProperties
  <2> QED BY <1>1, <2>3
<1>4. RemoveAt(seq, k) = left \o right BY DEF RemoveAt
<1> HIDE DEF left, right
<1>5. /\ left \o right \in Seq(S) /\ Len(left \o right) = Len(left) + Len(right)
      /\ \A n \in 1 .. (Len(left) + Len(right)) :
            (left \o right)[n] = IF n <= Len(left) THEN left[n] ELSE right[n - Len(left)]
  BY <1>2, <1>3, ConcatProperties
<1>6. ASSUME NEW n \in 1 .. (Len(seq) - 1)
      PROVE  (left \o right)[n] = IF n < k THEN seq[n] ELSE seq[n + 1]
  <2>1. CASE n < k BY <1>1, <1>2, <1>3, <1>5, <2>1
  <2>2. CASE ~(n < k)
    <3>1. (left \o right)[n] = right[n - (k - 1)] BY <1>1, <1>2, <1>3, <1>5, <2>2
    <3>2. n - (k - 1) \in 1 .. (Len(seq) - k) /\ n - (k - 1) + k = n + 1 BY <1>1, <2>2
    <3> QED BY <1>3, <2>2, <3>1, <3>2
  <2> QED BY <2>1, <2>2
<1> QED BY <1>1, <1>2, <1>3, <1>4, <1>5, <1>6

\* What an edited document leaves: itself, or itself without its oldest ended session.
LEMMA EditFacts ==
    ASSUME NEW doc \in Seq(Session), Edit(doc)
    PROVE  \/ history' = doc /\ archive' = archive /\ Len(doc) <= MaxSessions
           \/ \E k \in 1 .. Len(doc) : Rotated(doc, k)
PROOF
<1> DEFINE ended == {n \in DOMAIN doc : doc[n].outcome # None}
           oldest == CHOOSE n \in ended : \A m \in ended : n <= m
<1>1. PICK kept \in Retain(doc) : history' = kept.sessions /\ archive' = kept.archive BY DEF Edit
<1>2. Len(doc) \in Nat /\ DOMAIN doc = 1 .. Len(doc) /\ MaxSessions \in Nat
  BY LenProperties, SessionBounds
<1>3. CASE Len(doc) <= MaxSessions
  <2>1. kept = Document(doc, archive) BY <1>1, <1>3 DEF Retain
  <2> QED BY <1>1, <1>3, <2>1 DEF Document
<1>4. CASE ~(Len(doc) <= MaxSessions)
  <2>1. ended # {} /\ kept = Document(RemoveAt(doc, oldest),
                                      [archive EXCEPT ![doc[oldest].instance] = @ + 1])
    BY <1>1, <1>4 DEF Retain
  <2>2. ended \in SUBSET Nat BY <1>2
  <2>3. \E n \in ended : \A m \in ended : n <= m
    <3> HIDE DEF ended
    <3> QED BY <2>1, <2>2, LeastIndex
  <2>4. oldest \in ended BY <2>3
  <2>5. oldest \in 1 .. Len(doc) /\ doc[oldest].outcome # None BY <1>2, <2>4
  <2>6. /\ kept.sessions = RemoveAt(doc, oldest)
        /\ kept.archive = [archive EXCEPT ![doc[oldest].instance] = @ + 1]
    BY <2>1 DEF Document
  <2> HIDE DEF oldest, ended
  <2>7. Len(doc) > MaxSessions BY <1>2, <1>4
  <2>8. Rotated(doc, oldest) BY <1>1, <2>5, <2>6, <2>7 DEF Rotated
  <2> QED BY <2>5, <2>8
<1> QED BY <1>3, <1>4

\* Every session of what an edit leaves is one of the document's, and no other's.
LEMMA EditKeeps ==
    ASSUME NEW doc \in Seq(Session), archive \in [Instances -> Nat], Edit(doc)
    PROVE  /\ history' \in Seq(Session) /\ archive' \in [Instances -> Nat]
           /\ Len(doc) <= MaxSessions + 1 => Len(history') <= MaxSessions
           /\ \E f \in [DOMAIN history' -> DOMAIN doc] :
                /\ \A m \in DOMAIN history' : history'[m] = doc[f[m]]
                /\ \A m, n \in DOMAIN history' : f[m] = f[n] => m = n
PROOF
<1>1. Len(doc) \in Nat /\ DOMAIN doc = 1 .. Len(doc) /\ MaxSessions \in Nat
  BY LenProperties, SessionBounds
<1>2. CASE history' = doc /\ archive' = archive /\ Len(doc) <= MaxSessions
  <2> DEFINE f == [n \in DOMAIN doc |-> n]
  <2>1. f \in [DOMAIN doc -> DOMAIN doc] /\ \A n \in DOMAIN doc : f[n] = n OBVIOUS
  <2> QED BY <1>2, <2>1
<1>3. ASSUME NEW k \in 1 .. Len(doc), Rotated(doc, k)
      PROVE  /\ history' \in Seq(Session) /\ archive' \in [Instances -> Nat]
             /\ Len(doc) <= MaxSessions + 1 => Len(history') <= MaxSessions
             /\ \E f \in [DOMAIN history' -> DOMAIN doc] :
                  /\ \A m \in DOMAIN history' : history'[m] = doc[f[m]]
                  /\ \A m, n \in DOMAIN history' : f[m] = f[n] => m = n
  <2>1. /\ history' \in Seq(Session) /\ Len(history') = Len(doc) - 1
        /\ \A n \in 1 .. (Len(doc) - 1) : history'[n] = IF n < k THEN doc[n] ELSE doc[n + 1]
    BY <1>3, RemoveAtFacts DEF Rotated
  <2>2. DOMAIN history' = 1 .. (Len(doc) - 1) BY <2>1, LenProperties
  <2> DEFINE f == [n \in 1 .. (Len(doc) - 1) |-> IF n < k THEN n ELSE n + 1]
  <2>3. /\ f \in [1 .. (Len(doc) - 1) -> 1 .. Len(doc)]
        /\ \A n \in 1 .. (Len(doc) - 1) : f[n] = IF n < k THEN n ELSE n + 1
    BY <1>1
  <2>4. \A m \in DOMAIN history' : history'[m] = doc[f[m]] BY <2>1, <2>2, <2>3
  <2>5. \A m, n \in DOMAIN history' : f[m] = f[n] => m = n BY <2>2, <2>3
  <2>6. archive' \in [Instances -> Nat]
    <3>1. archive' = [archive EXCEPT ![doc[k].instance] = @ + 1] BY <1>3 DEF Rotated
    <3>2. doc[k] \in Session BY ElementOfSeq
    <3>3. doc[k].instance \in Instances BY <3>2 DEF Session
    <3> QED BY <3>1, <3>3
  <2>7. Len(doc) <= MaxSessions + 1 => Len(history') <= MaxSessions BY <1>1, <2>1
  <2>8. f \in [DOMAIN history' -> DOMAIN doc] BY <1>1, <2>2, <2>3
  <2> HIDE DEF f
  <2>9. \E g \in [DOMAIN history' -> DOMAIN doc] :
           /\ \A m \in DOMAIN history' : history'[m] = doc[g[m]]
           /\ \A m, n \in DOMAIN history' : g[m] = g[n] => m = n
    BY <2>4, <2>5, <2>8
  <2> QED BY <2>1, <2>6, <2>7, <2>9
<1> QED BY <1>2, <1>3, EditFacts

LEMMA OfFinite ==
    ASSUME NEW doc \in Seq(Session), NEW i
    PROVE  IsFiniteSet(Of(doc, i)) /\ Cardinality(Of(doc, i)) \in Nat
PROOF
<1>1. Len(doc) \in Nat /\ DOMAIN doc = 1 .. Len(doc) BY LenProperties
<1>2. IsFiniteSet(1 .. Len(doc)) BY <1>1, FS_Interval
<1>3. Of(doc, i) \in SUBSET (1 .. Len(doc)) BY <1>1 DEF Of
<1>4. IsFiniteSet(Of(doc, i)) BY <1>2, <1>3, FS_Subset
<1> QED BY <1>4, FS_CardinalityType

\* Making room moves a session from the document to what is counted of it.
LEMMA EditCounts ==
    ASSUME NEW doc \in Seq(Session), archive \in [Instances -> Nat], Edit(doc), NEW i \in Instances
    PROVE  Cardinality(Of(history', i)) + archive'[i] = Cardinality(Of(doc, i)) + archive[i]
PROOF
<1>1. Len(doc) \in Nat /\ DOMAIN doc = 1 .. Len(doc) BY LenProperties
<1>2. CASE history' = doc /\ archive' = archive BY <1>2
<1>3. ASSUME NEW k \in 1 .. Len(doc), Rotated(doc, k)
      PROVE  Cardinality(Of(history', i)) + archive'[i] = Cardinality(Of(doc, i)) + archive[i]
  <2>1. /\ history' \in Seq(Session) /\ Len(history') = Len(doc) - 1
        /\ \A n \in 1 .. (Len(doc) - 1) : history'[n] = IF n < k THEN doc[n] ELSE doc[n + 1]
    BY <1>3, RemoveAtFacts DEF Rotated
  <2>2. DOMAIN history' = 1 .. (Len(doc) - 1) BY <2>1, LenProperties
  <2> DEFINE left == Of(doc, i) \ {k}
             f == [n \in Of(history', i) |-> IF n < k THEN n ELSE n + 1]
  <2>3. IsFiniteSet(Of(doc, i)) /\ Cardinality(Of(doc, i)) \in Nat BY OfFinite
  <2>4. IsFiniteSet(Of(history', i)) /\ Cardinality(Of(history', i)) \in Nat BY <2>1, OfFinite
  <2>5. /\ \A n \in Of(history', i) : n \in 1 .. (Len(doc) - 1) /\ history'[n].instance = i
        /\ \A n \in left : n \in 1 .. Len(doc) /\ n # k /\ doc[n].instance = i
        /\ \A n \in 1 .. Len(doc) : n # k /\ doc[n].instance = i => n \in left
        /\ \A n \in 1 .. (Len(doc) - 1) : history'[n].instance = i => n \in Of(history', i)
    BY <1>1, <2>2 DEF Of
  <2>6. f \in [Of(history', i) -> left]
    <3>1. ASSUME NEW n \in Of(history', i) PROVE (IF n < k THEN n ELSE n + 1) \in left
      <4> HIDE DEF left
      <4>1. n \in 1 .. (Len(doc) - 1) /\ history'[n].instance = i BY <2>5
      <4>2. CASE n < k BY <1>1, <2>1, <2>5, <4>1, <4>2
      <4>3. CASE ~(n < k)
        <5>1. n + 1 \in 1 .. Len(doc) /\ n + 1 # k /\ history'[n] = doc[n + 1]
          BY <1>1, <2>1, <4>1, <4>3
        <5> QED BY <2>5, <4>1, <4>3, <5>1
      <4> QED BY <4>2, <4>3
    <3> QED BY <3>1
  <2>7. \A a, b \in Of(history', i) : f[a] = f[b] => a = b
    <3> SUFFICES ASSUME NEW a \in Of(history', i), NEW b \in Of(history', i), f[a] = f[b]
                 PROVE  a = b
      OBVIOUS
    <3>1. a \in Nat /\ b \in Nat BY <1>1, <2>5
    <3>2. f[a] = (IF a < k THEN a ELSE a + 1) /\ f[b] = (IF b < k THEN b ELSE b + 1) OBVIOUS
    <3>3. (IF a < k THEN a ELSE a + 1) = (IF b < k THEN b ELSE b + 1) BY <3>2
    <3>4. k \in Nat BY <1>1
    <3> HIDE DEF f
    <3> QED BY <3>1, <3>3, <3>4
  <2>8. \A n \in left : \E m \in Of(history', i) : f[m] = n
    <3> SUFFICES ASSUME NEW n \in left PROVE \E m \in Of(history', i) : f[m] = n
      OBVIOUS
    <3>1. n \in 1 .. Len(doc) /\ n # k /\ doc[n].instance = i BY <2>5
    <3>2. CASE n < k
      <4>1. n \in 1 .. (Len(doc) - 1) /\ history'[n] = doc[n] BY <1>1, <2>1, <3>1, <3>2
      <4>2. n \in Of(history', i) BY <2>5, <3>1, <4>1
      <4> QED BY <3>2, <4>2
    <3>3. CASE ~(n < k)
      <4>1. n - 1 \in 1 .. (Len(doc) - 1) /\ ~(n - 1 < k) /\ (n - 1) + 1 = n BY <1>1, <3>1, <3>3
      <4>2. history'[n - 1] = doc[n] BY <2>1, <4>1
      <4>3. n - 1 \in Of(history', i) BY <2>5, <3>1, <4>1, <4>2
      <4> QED BY <4>1, <4>3
    <3> QED BY <3>2, <3>3
  <2>9. ExistsBijection(Of(history', i), left)
    <3> HIDE DEF f, left
    <3>1. f \in Bijection(Of(history', i), left)
      BY <2>6, <2>7, <2>8 DEF Bijection, Injection, Surjection, IsInjective
    <3> QED BY <3>1 DEF ExistsBijection
  <2>10. Cardinality(left) = Cardinality(Of(history', i)) BY <2>4, <2>9, FS_Bijection
  <2>11. Cardinality(left) = IF k \in Of(doc, i) THEN Cardinality(Of(doc, i)) - 1
                                                 ELSE Cardinality(Of(doc, i))
    BY <2>3, FS_RemoveElement
  <2>12. k \in Of(doc, i) <=> doc[k].instance = i BY <1>1 DEF Of
  <2>13. archive'[i] = IF doc[k].instance = i THEN archive[i] + 1 ELSE archive[i]
    BY <1>3 DEF Rotated
  <2>14. archive[i] \in Nat OBVIOUS
  <2> HIDE DEF left
  <2> QED BY <2>3, <2>4, <2>10, <2>11, <2>12, <2>13, <2>14
<1> QED BY <1>2, <1>3, EditFacts

\* Each game has one session at most.
Once(doc) == \A m, n \in DOMAIN doc : doc[m].game = doc[n].game => m = n

Bounded(doc) == \A n \in DOMAIN doc : Len(doc[n].visits) <= MaxVisits

\* A session is that of a game that was started, and closed only when that is over.
SessionKnown(session) ==
    /\ session.game \in recorded /\ session.instance = children[session.game].instance
    /\ session.outcome # None \/ ~opened => children[session.game].at = "done"

\* Who holds a recorder, and what is left in one whose game has ended.
RecorderTaken(g) ==
    /\ recorders[g].active => opened /\ Readable /\ children[g].at \in Recording
    /\ children[g].at \in Unrecorded \cup {"telling"} => recorders[g].current = None
    /\ children[g].at \in {"finishing", "done"} /\ bridges[g].at = "observing" =>
         recorders[g].current = None

DocumentShapes ==
    /\ history \in Seq(Session) /\ Len(history) <= MaxSessions /\ Bounded(history)
    /\ archive \in [Instances -> Nat] /\ recorded \subseteq Games

HistoryInv ==
    /\ DocumentShapes
    /\ Once(history)
    /\ \A n \in DOMAIN history : SessionKnown(history[n])
    /\ \A g \in recorded : children[g].at \notin Unrecorded
    /\ \A g \in Games : RecorderTaken(g)
    /\ CountedOnce

\* What a step keeps of the sessions that have ended.
Keeps ==
    \A n \in DOMAIN history : history[n].outcome # None =>
        \A m \in DOMAIN history' : history'[m].game = history[n].game =>
            /\ history'[m].outcome = history[n].outcome
            /\ history'[m].visits = history[n].visits

\* The sessions of an instance, in the document and out of it.
Sum(doc, counted, i) == Cardinality(Of(doc, i)) + counted[i]

LEMMA VisitedFacts ==
    ASSUME NEW s \in Session, Len(s.visits) <= MaxVisits, NEW place \in Somewhere \cup {None}
    PROVE  /\ Visited(s, place) \in Session /\ Len(Visited(s, place).visits) <= MaxVisits
           /\ Visited(s, place).game = s.game /\ Visited(s, place).instance = s.instance
           /\ Visited(s, place).outcome = s.outcome /\ Visited(s, place).mode = s.mode
           /\ place = None => Visited(s, place) = s
PROOF
<1>1. CASE place = None BY <1>1 DEF Visited
<1>2. CASE place # None
  <2> DEFINE room == IF Len(s.visits) = MaxVisits THEN Tail(s.visits) ELSE s.visits
  <2>1. place \in Somewhere BY <1>2
  <2>2. s.visits \in Seq(Somewhere) BY DEF Session, Somewhere
  <2>3. Len(s.visits) \in Nat /\ MaxVisits \in Nat \ {0} BY <2>2, LenProperties, SessionBounds
  <2>4. room \in Seq(Somewhere) /\ Len(room) \in Nat /\ Len(room) + 1 <= MaxVisits
    <3>1. CASE Len(s.visits) = MaxVisits
      <4>1. s.visits # <<>> BY <2>3, <3>1, EmptySeq
      <4>2. Tail(s.visits) \in Seq(Somewhere) /\ Len(Tail(s.visits)) = Len(s.visits) - 1
        BY <2>2, <4>1, HeadTailProperties
      <4> QED BY <2>3, <3>1, <4>2
    <3>2. CASE Len(s.visits) # MaxVisits BY <2>2, <2>3, <3>2
    <3> QED BY <3>1, <3>2
  <2> DEFINE v == Append(room, place)
  <2>5. v \in Seq(Somewhere) /\ Len(v) <= MaxVisits
    <3> HIDE DEF room
    <3> QED BY <2>1, <2>4, AppendProperties
  <2>6. Visited(s, place) = [s EXCEPT !.visits = v] BY <1>2 DEF Visited
  <2> HIDE DEF v
  <2> QED BY <1>2, <2>5, <2>6 DEF Session, Somewhere
<1> QED BY <1>1, <1>2

\* Whether written with an edit or left in memory as it was opened.
Written(doc) == Edit(doc) \/ (history' = doc /\ archive' = archive /\ Len(doc) <= MaxSessions)

LEMMA WrittenFacts ==
    ASSUME DocumentShapes, NEW doc \in Seq(Session), Len(doc) <= MaxSessions + 1, Bounded(doc),
           Once(doc), Written(doc)
    PROVE  /\ history' \in Seq(Session) /\ Len(history') <= MaxSessions /\ Bounded(history')
           /\ archive' \in [Instances -> Nat] /\ Once(history')
           /\ \A m \in DOMAIN history' : \E n \in DOMAIN doc : history'[m] = doc[n]
           /\ \A i \in Instances : Sum(history', archive', i) = Sum(doc, archive, i)
PROOF
<1>1. CASE history' = doc /\ archive' = archive /\ Len(doc) <= MaxSessions
  BY <1>1 DEF DocumentShapes
<1>2. CASE Edit(doc)
  <2>1. archive \in [Instances -> Nat] BY DEF DocumentShapes
  <2>2. /\ history' \in Seq(Session) /\ archive' \in [Instances -> Nat]
        /\ Len(history') <= MaxSessions
    BY <1>2, <2>1, EditKeeps
  <2>3. PICK f \in [DOMAIN history' -> DOMAIN doc] :
          /\ \A m \in DOMAIN history' : history'[m] = doc[f[m]]
          /\ \A m, n \in DOMAIN history' : f[m] = f[n] => m = n
    BY <1>2, <2>1, EditKeeps
  <2>4. Bounded(history') BY <2>3 DEF Bounded
  <2>5. Once(history')
    <3> SUFFICES ASSUME NEW m \in DOMAIN history', NEW n \in DOMAIN history',
                        history'[m].game = history'[n].game
                 PROVE  m = n
      BY DEF Once
    <3>1. f[m] \in DOMAIN doc /\ f[n] \in DOMAIN doc /\ doc[f[m]].game = doc[f[n]].game BY <2>3
    <3>2. f[m] = f[n] BY <3>1 DEF Once
    <3> QED BY <2>3, <3>2
  <2>6. \A m \in DOMAIN history' : \E n \in DOMAIN doc : history'[m] = doc[n] BY <2>3
  <2>7. \A i \in Instances : Sum(history', archive', i) = Sum(doc, archive, i)
    BY <1>2, <2>1, EditCounts DEF Sum
  <2> QED BY <2>2, <2>4, <2>5, <2>6, <2>7
<1> QED BY <1>1, <1>2 DEF Written

\* A document that changes nothing of an ended session, written.
LEMMA Rewrites ==
    ASSUME HistoryInv, NEW doc \in Seq(Session), DOMAIN doc = DOMAIN history, Bounded(doc),
           \A n \in DOMAIN history : doc[n].game = history[n].game /\ doc[n].instance = history[n].instance,
           \A n \in DOMAIN history : history[n].outcome # None =>
                doc[n].outcome = history[n].outcome /\ doc[n].visits = history[n].visits,
           Written(doc)
    PROVE  /\ history' \in Seq(Session) /\ Len(history') <= MaxSessions /\ Bounded(history')
           /\ archive' \in [Instances -> Nat] /\ Once(history') /\ Keeps
           /\ \A m \in DOMAIN history' : \E n \in DOMAIN history : history'[m] = doc[n]
           /\ \A i \in Instances : Sum(history', archive', i) = Sum(history, archive, i)
PROOF
<1>1. Len(doc) = Len(history) /\ Len(doc) \in Nat
  <2>1. /\ DOMAIN doc = 1 .. Len(doc) /\ Len(doc) \in Nat
        /\ DOMAIN history = 1 .. Len(history) /\ Len(history) \in Nat
    BY LenProperties DEF HistoryInv, DocumentShapes
  <2>2. 1 .. Len(doc) = 1 .. Len(history) BY <2>1
  <2>3. \A a, b \in Nat : 1 .. a = 1 .. b => a = b
    <3> SUFFICES ASSUME NEW a \in Nat, NEW b \in Nat, 1 .. a = 1 .. b PROVE a = b
      OBVIOUS
    <3>1. a >= 1 => a \in 1 .. b BY a \in 1 .. a \/ a < 1
    <3>2. b >= 1 => b \in 1 .. a BY b \in 1 .. b \/ b < 1
    <3> QED BY <3>1, <3>2
  <2> QED BY <2>1, <2>2, <2>3
<1>2. Len(doc) <= MaxSessions + 1 BY <1>1, SessionBounds DEF HistoryInv, DocumentShapes
<1>3. Once(doc) BY DEF HistoryInv, Once
<1>4. DocumentShapes BY DEF HistoryInv
<1>5. /\ history' \in Seq(Session) /\ Len(history') <= MaxSessions /\ Bounded(history')
      /\ archive' \in [Instances -> Nat] /\ Once(history')
      /\ \A m \in DOMAIN history' : \E n \in DOMAIN doc : history'[m] = doc[n]
      /\ \A i \in Instances : Sum(history', archive', i) = Sum(doc, archive, i)
  BY <1>2, <1>3, <1>4, WrittenFacts
<1>6. Keeps
  <2> SUFFICES ASSUME NEW n \in DOMAIN history, history[n].outcome # None,
                      NEW m \in DOMAIN history', history'[m].game = history[n].game
               PROVE  history'[m].outcome = history[n].outcome /\ history'[m].visits = history[n].visits
    BY DEF Keeps
  <2>1. PICK k \in DOMAIN history : history'[m] = doc[k] BY <1>5
  <2>2. history[k].game = history[n].game BY <2>1
  <2>3. k = n BY <2>2 DEF HistoryInv, Once
  <2> QED BY <2>1, <2>3
<1>7. ASSUME NEW i \in Instances PROVE Sum(history', archive', i) = Sum(history, archive, i)
  <2>1. Of(doc, i) = Of(history, i) BY DEF Of
  <2> QED BY <1>5, <2>1 DEF Sum
<1> QED BY <1>5, <1>6, <1>7

LEMMA MapSeq ==
    ASSUME NEW S, NEW seq \in Seq(S), NEW T, NEW f \in [DOMAIN seq -> T]
    PROVE  f \in Seq(T) /\ DOMAIN f = DOMAIN seq /\ Len(f) = Len(seq)
PROOF
<1>1. DOMAIN seq = 1 .. Len(seq) /\ Len(seq) \in Nat BY LenProperties
<1>2. f \in Seq(T) BY <1>1, SeqDef
<1>3. DOMAIN f = DOMAIN seq OBVIOUS
<1>4. Len(f) = Len(seq) BY <1>1, <1>2, <1>3
<1> QED BY <1>2, <1>3, <1>4

\* A game keeps its instance and is not taken back.
Onward ==
    \A g \in Games :
        /\ children[g].at # "none" => children'[g].instance = children[g].instance
        /\ children[g].at = "done" => children'[g].at = "done"
        /\ children[g].at \notin Unrecorded => children'[g].at \notin Unrecorded

LEMMA HistoryRewritten ==
    ASSUME HistoryInv, Onward, NEW doc \in Seq(Session), DOMAIN doc = DOMAIN history, Bounded(doc),
           \A n \in DOMAIN history : doc[n].game = history[n].game /\ doc[n].instance = history[n].instance,
           \A n \in DOMAIN history : history[n].outcome # None =>
                doc[n].outcome = history[n].outcome /\ doc[n].visits = history[n].visits,
           Written(doc), UNCHANGED recorded,
           \A n \in DOMAIN history : doc[n].outcome # None \/ ~opened' =>
                children'[history[n].game].at = "done",
           \A g \in Games : RecorderTaken(g)'
    PROVE  /\ HistoryInv' /\ Keeps
           /\ \A m \in DOMAIN history' : \E n \in DOMAIN history : history'[m] = doc[n]
PROOF
<1>1. /\ history' \in Seq(Session) /\ Len(history') <= MaxSessions /\ Bounded(history')
      /\ archive' \in [Instances -> Nat] /\ Once(history') /\ Keeps
      /\ \A m \in DOMAIN history' : \E n \in DOMAIN history : history'[m] = doc[n]
      /\ \A i \in Instances : Sum(history', archive', i) = Sum(history, archive, i)
  BY Rewrites
<1>2. DocumentShapes'
  <2>1. recorded' \subseteq Games BY DEF HistoryInv, DocumentShapes
  <2>2. Bounded(history)' BY <1>1 DEF Bounded
  <2> QED BY <1>1, <2>1, <2>2 DEF DocumentShapes
<1>3. Once(history)' BY <1>1 DEF Once
<1>4. \A g \in recorded : g \in Games /\ children[g].at \notin Unrecorded
  BY DEF HistoryInv, DocumentShapes
<1>5. \A g \in recorded' : children'[g].at \notin Unrecorded BY <1>4 DEF Onward
<1>6. \A g \in recorded : children'[g].instance = children[g].instance
  BY <1>4 DEF Onward, Unrecorded
<1>7. ASSUME NEW m \in DOMAIN history' PROVE SessionKnown(history[m])'
  <2>1. PICK n \in DOMAIN history : history'[m] = doc[n] BY <1>1
  <2>2. SessionKnown(history[n]) BY DEF HistoryInv
  <2>3. history'[m].game = history[n].game /\ history'[m].instance = history[n].instance BY <2>1
  <2>4. history[n].game \in recorded /\ history[n].instance = children[history[n].game].instance
    BY <2>2 DEF SessionKnown
  <2>5. history'[m].game \in recorded' /\ history'[m].instance = children'[history'[m].game].instance
    BY <1>6, <2>3, <2>4
  <2>6. history'[m].outcome # None \/ ~opened' => children'[history'[m].game].at = "done"
    BY <2>1, <2>3
  <2> QED BY <2>5, <2>6 DEF SessionKnown
<1>8. CountedOnce'
  <2> SUFFICES ASSUME NEW i \in Instances
               PROVE  Sum(history', archive', i)
                          = Cardinality({g \in recorded' : children'[g].instance = i})
    BY DEF CountedOnce, Sum, Of
  <2>1. {g \in recorded' : children'[g].instance = i} = {g \in recorded : children[g].instance = i}
    BY <1>6
  <2>2. Sum(history, archive, i) = Cardinality({g \in recorded : children[g].instance = i})
    BY DEF HistoryInv, CountedOnce, Sum, Of
  <2> QED BY <1>1, <2>1, <2>2
<1> QED BY <1>1, <1>2, <1>3, <1>5, <1>7, <1>8 DEF HistoryInv

\* A step that does not write, and does not close the document either.
LEMMA HistoryUnwritten ==
    ASSUME HistoryInv, Onward, UNCHANGED <<history, archive, recorded>>,
           opened' = opened \/ \A n \in DOMAIN history : children'[history[n].game].at = "done",
           \A g \in Games : RecorderTaken(g)'
    PROVE  HistoryInv' /\ Keeps
PROOF
<1>1. history \in Seq(Session) /\ Len(history) <= MaxSessions /\ Bounded(history)
  BY DEF HistoryInv, DocumentShapes
<1>2. Written(history) BY <1>1 DEF Written
<1>3. ASSUME NEW n \in DOMAIN history, history[n].outcome # None \/ ~opened'
      PROVE  children'[history[n].game].at = "done"
  <2>1. SessionKnown(history[n]) /\ history[n].game \in Games
    BY DEF HistoryInv, DocumentShapes, SessionKnown
  <2> QED BY <1>3, <2>1 DEF SessionKnown, Onward
<1> QED BY <1>1, <1>2, <1>3, HistoryRewritten

LEMMA OpenedFacts ==
    ASSUME HistoryInv
    PROVE  /\ Opened \in Seq(Session) /\ DOMAIN Opened = DOMAIN history /\ Len(Opened) = Len(history)
           /\ Bounded(Opened)
           /\ \A n \in DOMAIN history :
                /\ Opened[n].game = history[n].game /\ Opened[n].instance = history[n].instance
                /\ Opened[n].visits = history[n].visits
                /\ history[n].outcome # None => Opened[n].outcome = history[n].outcome
                /\ history[n].outcome = None => Opened[n].outcome \in {None, "interrupted"}
                /\ Opened[n].outcome # None => children[history[n].game].at = "done"
PROOF
<1>1. history \in Seq(Session) /\ Bounded(history) /\ \A n \in DOMAIN history : SessionKnown(history[n])
  BY DEF HistoryInv, DocumentShapes
<1>2. \A n \in DOMAIN history : history[n] \in Session BY <1>1, ElementOfSeq, LenProperties
<1>3. CASE opened BY <1>1, <1>3 DEF Opened, SessionKnown
<1>4. CASE ~opened
  <2> DEFINE s(n) == IF history[n].outcome = None THEN [history[n] EXCEPT !.outcome = "interrupted"]
                     ELSE history[n]
  <2>1. Opened = [n \in DOMAIN history |-> s(n)] BY <1>4 DEF Opened, Interrupted
  <2>2. ASSUME NEW n \in DOMAIN history
        PROVE  /\ s(n) \in Session /\ s(n).game = history[n].game /\ s(n).instance = history[n].instance
               /\ s(n).visits = history[n].visits
               /\ history[n].outcome # None => s(n).outcome = history[n].outcome
               /\ history[n].outcome = None => s(n).outcome \in {None, "interrupted"}
    BY <1>2 DEF Session
  <2> HIDE DEF s
  <2>3. Opened \in [DOMAIN history -> Session] /\ \A n \in DOMAIN history : Opened[n] = s(n)
    BY <2>1, <2>2
  <2>4. Opened \in Seq(Session) /\ DOMAIN Opened = DOMAIN history /\ Len(Opened) = Len(history)
    BY <1>1, <2>3, MapSeq
  <2>5. Bounded(Opened) BY <1>1, <2>2, <2>3, <2>4 DEF Bounded
  <2>6. \A n \in DOMAIN history : children[history[n].game].at = "done"
    BY <1>1, <1>4 DEF SessionKnown
  <2> QED BY <2>2, <2>3, <2>4, <2>5, <2>6
<1> QED BY <1>3, <1>4

\* The document is read, and may have been closed by that.
LEMMA HistoryOpened ==
    ASSUME HistoryInv, Onward, history' = Opened, opened', UNCHANGED <<archive, recorded>>,
           \A g \in Games : RecorderTaken(g)'
    PROVE  HistoryInv' /\ Keeps
PROOF
<1>1. /\ Opened \in Seq(Session) /\ DOMAIN Opened = DOMAIN history /\ Len(Opened) = Len(history)
      /\ Bounded(Opened)
      /\ \A n \in DOMAIN history :
           /\ Opened[n].game = history[n].game /\ Opened[n].instance = history[n].instance
           /\ Opened[n].visits = history[n].visits
           /\ history[n].outcome # None => Opened[n].outcome = history[n].outcome
           /\ Opened[n].outcome # None => children[history[n].game].at = "done"
  BY OpenedFacts
<1>2. Written(Opened) BY <1>1 DEF Written, HistoryInv, DocumentShapes
<1>3. \A n \in DOMAIN history : Opened[n].outcome # None \/ ~opened' =>
         children'[history[n].game].at = "done"
  <2>1. \A n \in DOMAIN history : history[n].game \in Games
    BY DEF HistoryInv, DocumentShapes, SessionKnown
  <2> QED BY <1>1, <2>1 DEF Onward
<1> QED BY <1>1, <1>2, <1>3, HistoryRewritten

LEMMA StepOnward ==
    ASSUME Shapes, BridgesFollow, NEW g \in Games, Step(g)
    PROVE  Onward
PROOF
<1>1. /\ \A h \in Games \ {g} : children'[h] = children[h]
      /\ children'[g].instance = children[g].instance
  BY StepShapes
<1>2. \/ children[g].at \in {"starting", "launch", "spawned"}
      \/ /\ children[g].at \in {"telling", "playing", "observing", "draining", "finishing"}
         /\ children'[g].at \notin Unrecorded
      \/ children' = children
  <2> USE StepEffects DEF Unrecorded
  <2>1. CASE TellStarting(g) \/ Launch(g) \/ LaunchFails(g) BY <2>1
  <2>2. CASE Record(g) \/ RecordFails(g) BY <2>2
  <2>3. CASE TellRunning(g) BY <2>3
  <2>4. CASE \E outcome \in Outcomes : Exit(g, outcome) BY <2>4
  <2>5. CASE ExitObserved(g) \/ Ended(g) \/ Finished(g) BY <2>5
  <2>6. CASE \E place \in Places : Report(g, place) BY <2>6 DEF Report
  <2>7. CASE CloseBridge(g) BY <2>7 DEF CloseBridge
  <2>8. CASE Clone(g) BY <2>8 DEF Clone
  <2>9. CASE Observed(g) BY <2>9 DEF Observed
  <2> QED BY <2>1, <2>2, <2>3, <2>4, <2>5, <2>6, <2>7, <2>8, <2>9 DEF Step
<1> QED BY <1>1, <1>2 DEF Onward, Unrecorded

\* What is observed of a game whose session has ended records no visit.
LEMMA HistoryObserved ==
    ASSUME HistoryInv, Shapes, Onward, NEW g \in Games, NEW place \in Somewhere, Observe(g, place),
           UNCHANGED <<recorded, opened>>,
           children[g].at = "done" => recorders[g].current = None,
           \A h \in Games : RecorderTaken(h)'
    PROVE  /\ HistoryInv' /\ Keeps
           /\ \A m \in DOMAIN history' : \E n \in DOMAIN history :
                /\ history'[m].game = history[n].game /\ history'[m].outcome = history[n].outcome
                /\ history'[m].visits =
                     IF history[n].game = g /\ recorders[g].current # place
                     THEN Visited(history[n], recorders[g].current).visits ELSE history[n].visits
PROOF
<1>1. CASE recorders[g].current = place
  <2>1. UNCHANGED <<history, archive>> BY <1>1 DEF Observe
  <2> QED BY <1>1, <2>1, HistoryUnwritten
<1>2. CASE recorders[g].current # place
  <2> DEFINE s(n) == IF n \in Indices(history, g)
                     THEN [Visited(history[n], recorders[g].current) EXCEPT !.mode = place]
                     ELSE history[n]
             doc == [n \in DOMAIN history |-> s(n)]
  <2>1. Edit(doc) BY <1>2 DEF Observe
  <2>2. /\ history \in Seq(Session) /\ Bounded(history) /\ Len(history) <= MaxSessions
        /\ \A n \in DOMAIN history : SessionKnown(history[n])
    BY DEF HistoryInv, DocumentShapes
  <2>3. \A n \in DOMAIN history : history[n] \in Session BY <2>2, ElementOfSeq, LenProperties
  <2>4. recorders[g].current \in Somewhere \cup {None} BY DEF Shapes, Recorder
  <2>5. ASSUME NEW n \in DOMAIN history
        PROVE  /\ s(n) \in Session /\ s(n).game = history[n].game /\ s(n).instance = history[n].instance
               /\ s(n).outcome = history[n].outcome /\ Len(s(n).visits) <= MaxVisits
               /\ history[n].outcome # None => s(n).visits = history[n].visits
               /\ s(n).visits = IF history[n].game = g
                                THEN Visited(history[n], recorders[g].current).visits
                                ELSE history[n].visits
    <3>1. history[n] \in Session /\ Len(history[n].visits) <= MaxVisits
      BY <2>2, <2>3 DEF Bounded
    <3>2. CASE n \in Indices(history, g)
      <4> DEFINE v == Visited(history[n], recorders[g].current)
      <4>1. /\ v \in Session /\ Len(v.visits) <= MaxVisits
            /\ v.game = history[n].game /\ v.instance = history[n].instance
            /\ v.outcome = history[n].outcome
            /\ recorders[g].current = None => v = history[n]
        BY <2>4, <3>1, VisitedFacts
      <4>2. history[n].outcome # None => recorders[g].current = None
        BY <2>2, <3>2 DEF SessionKnown, Indices
      <4>3. s(n) = [v EXCEPT !.mode = place] /\ history[n].game = g BY <3>2 DEF Indices
      <4> HIDE DEF v
      <4>4. s(n).visits = v.visits BY <4>1, <4>3 DEF Session
      <4> USE DEF v
      <4>5. s(n).visits = Visited(history[n], recorders[g].current).visits BY <4>4
      <4> HIDE DEF v, s
      <4>6. s(n) \in Session /\ s(n).game = v.game /\ s(n).instance = v.instance /\ s(n).outcome = v.outcome
        BY <4>1, <4>3 DEF Session, Somewhere
      <4> QED BY <4>1, <4>2, <4>3, <4>4, <4>5, <4>6
    <3>3. CASE n \notin Indices(history, g)
      <4>1. s(n) = history[n] /\ history[n].game # g BY <3>3 DEF Indices
      <4> HIDE DEF s
      <4> QED BY <3>1, <4>1
    <3> QED BY <3>2, <3>3
  <2> HIDE DEF s
  <2>6. doc \in Seq(Session) /\ DOMAIN doc = DOMAIN history /\ \A n \in DOMAIN history : doc[n] = s(n)
    <3>1. doc \in [DOMAIN history -> Session] BY <2>5
    <3> QED BY <2>2, <3>1, MapSeq
  <2> HIDE DEF doc
  <2>7. Bounded(doc) BY <2>5, <2>6 DEF Bounded
  <2>8. Written(doc) BY <2>1 DEF Written
  <2>9. \A n \in DOMAIN history : doc[n].outcome # None \/ ~opened' =>
           children'[history[n].game].at = "done"
    <3>1. \A n \in DOMAIN history : history[n].game \in Games
      BY <2>2 DEF HistoryInv, DocumentShapes, SessionKnown
    <3> QED BY <2>2, <2>5, <2>6, <3>1 DEF SessionKnown, Onward
  <2>10. /\ HistoryInv' /\ Keeps
         /\ \A m \in DOMAIN history' : \E n \in DOMAIN history : history'[m] = doc[n]
    BY <2>5, <2>6, <2>7, <2>8, <2>9, HistoryRewritten
  <2> QED BY <1>2, <2>5, <2>6, <2>10
<1> QED BY <1>1, <1>2

\* A session is closed once, when its game is over.
LEMMA HistoryFinished ==
    ASSUME HistoryInv, Shapes, Onward, NEW g \in Games, children'[g].at = "done",
           Finish(g, children[g].visit, children[g].outcome), UNCHANGED <<recorded, opened>>,
           \A h \in Games : RecorderTaken(h)'
    PROVE  /\ HistoryInv' /\ Keeps
           /\ \A m \in DOMAIN history' : \E n \in DOMAIN history :
                /\ history'[m].game = history[n].game
                /\ \/ history'[m].outcome = history[n].outcome /\ history'[m].visits = history[n].visits
                      /\ (history[n].game # g \/ history[n].outcome # None)
                   \/ /\ history[n].game = g /\ history[n].outcome = None
                      /\ history'[m].visits = Visited(history[n], children[g].visit).visits
PROOF
<1> DEFINE visit == children[g].visit
           outcome == children[g].outcome
           mine(n) == n \in Indices(history, g) /\ history[n].outcome = None
           s(n) == IF mine(n) THEN [Visited(history[n], visit) EXCEPT !.outcome = outcome] ELSE history[n]
           doc == [n \in DOMAIN history |-> s(n)]
<1>1. Edit(doc) BY DEF Finish
<1>2. /\ history \in Seq(Session) /\ Bounded(history) /\ Len(history) <= MaxSessions
      /\ \A n \in DOMAIN history : SessionKnown(history[n])
  BY DEF HistoryInv, DocumentShapes
<1>3. \A n \in DOMAIN history : history[n] \in Session BY <1>2, ElementOfSeq, LenProperties
<1>4. visit \in Somewhere \cup {None} /\ outcome \in {"normal", "abnormal", None}
  BY DEF Shapes, Child
<1>5. ASSUME NEW n \in DOMAIN history
      PROVE  /\ s(n) \in Session /\ s(n).game = history[n].game /\ s(n).instance = history[n].instance
             /\ Len(s(n).visits) <= MaxVisits
             /\ history[n].outcome # None => s(n) = history[n]
             /\ s(n).outcome # None => history[n].outcome # None \/ history[n].game = g
             /\ IF mine(n) THEN s(n).visits = Visited(history[n], visit).visits ELSE s(n) = history[n]
  <2>1. history[n] \in Session /\ Len(history[n].visits) <= MaxVisits
    BY <1>2, <1>3 DEF Bounded
  <2>2. CASE mine(n)
    <3> DEFINE v == Visited(history[n], visit)
    <3>1. /\ v \in Session /\ Len(v.visits) <= MaxVisits
          /\ v.game = history[n].game /\ v.instance = history[n].instance
      BY <1>4, <2>1, VisitedFacts
    <3>2. s(n) = [v EXCEPT !.outcome = outcome] BY <2>2
    <3>3. history[n].game = g /\ history[n].outcome = None BY <2>2 DEF Indices
    <3> HIDE DEF v, outcome
    <3>4. s(n).visits = v.visits BY <3>1, <3>2 DEF Session
    <3>5. s(n).visits = Visited(history[n], visit).visits BY <3>4 DEF v
    <3> HIDE DEF s, mine
    <3>6. s(n) \in Session /\ s(n).game = v.game /\ s(n).instance = v.instance
      BY <1>4, <3>1, <3>2 DEF Session
    <3> QED BY <2>2, <3>1, <3>3, <3>4, <3>5, <3>6
  <2>3. CASE ~mine(n)
    <3>1. s(n) = history[n] BY <2>3
    <3> HIDE DEF s, mine
    <3> QED BY <2>1, <2>3, <3>1
  <2> QED BY <2>2, <2>3
<1> HIDE DEF s
<1>6. doc \in Seq(Session) /\ DOMAIN doc = DOMAIN history /\ \A n \in DOMAIN history : doc[n] = s(n)
  <2>1. doc \in [DOMAIN history -> Session] BY <1>5
  <2> QED BY <1>2, <2>1, MapSeq
<1> HIDE DEF doc
<1>7. Bounded(doc) BY <1>5, <1>6 DEF Bounded
<1>8. Written(doc) BY <1>1 DEF Written
<1>9. \A n \in DOMAIN history : doc[n].outcome # None \/ ~opened' =>
         children'[history[n].game].at = "done"
  <2>1. \A n \in DOMAIN history : history[n].game \in Games
    BY <1>2 DEF HistoryInv, DocumentShapes, SessionKnown
  <2> QED BY <1>2, <1>5, <1>6, <2>1 DEF SessionKnown, Onward
<1>10. /\ HistoryInv' /\ Keeps
       /\ \A m \in DOMAIN history' : \E n \in DOMAIN history : history'[m] = doc[n]
  BY <1>5, <1>6, <1>7, <1>8, <1>9, HistoryRewritten
<1>11. \A n \in DOMAIN history : mine(n) <=> history[n].game = g /\ history[n].outcome = None
  BY DEF Indices
<1> HIDE DEF mine
<1> QED BY <1>5, <1>6, <1>10, <1>11

\* An observation takes a place, it does not take the recorder.
LEMMA ObservingKeeps ==
    ASSUME Shapes, NEW g \in Games, NEW place, Observe(g, place) \/ ObserveFails(g, place)
    PROVE  recorders'[g].active = recorders[g].active
PROOF
<1>1. \/ recorders' = recorders \/ recorders' = [recorders EXCEPT ![g].current = place]
      \/ recorders' = [recorders EXCEPT ![g].current = None]
  BY DEF Observe, ObserveFails
<1> QED BY <1>1 DEF Shapes, Recorder

LEMMA StepRecorders ==
    ASSUME GamesInv, HistoryInv, NEW g \in Games, Step(g)
    PROVE  \A h \in Games : RecorderTaken(h)'
PROOF
<1>1. /\ configured' = configured
      /\ \A h \in Games \ {g} : /\ children'[h] = children[h] /\ bridges'[h] = bridges[h]
                                /\ recorders'[h] = recorders[h] /\ heard'[h] = heard[h]
  BY StepShapes DEF GamesInv
<1>2. opened' = opened \/ opened' = TRUE
  BY DEF Step, TellStarting, Launch, LaunchFails, Record, RecordFails, TellRunning, ExitObserved, Ended,
         Finished, Exit, Report, CloseBridge, Clone, Observed, records
<1>3. RecorderTaken(g) /\ BridgeFollows(g) BY DEF HistoryInv, GamesInv, BridgesFollow
<1>4. Shapes BY DEF GamesInv
<1>5. \A h \in Games \ {g} : RecorderTaken(h)'
  BY <1>1, <1>2 DEF HistoryInv, RecorderTaken, Readable
<1>6. SUFFICES RecorderTaken(g)' BY <1>5
<1>7. /\ bridges'[g].at = bridges[g].at /\ recorders' = recorders
      /\ \/ children[g].at \in Unrecorded /\ children'[g].at \in {"launch", "spawned", "telling", "playing", "finishing"}
         \/ children[g].at = "telling" /\ children'[g].at = "playing"
         \/ children[g].at = "playing" /\ children'[g].at \in {"observing", "draining"}
         \/ children[g].at = "finishing" /\ children'[g].at = "done"
      => RecorderTaken(g)'
  BY <1>1, <1>2, <1>3 DEF RecorderTaken, BridgeFollows, Readable, Unrecorded, Recording, Following
<1> USE <1>1, <1>2, <1>3, <1>4, StepEffects DEF RecorderTaken, Readable
<1>8. CASE TellStarting(g) BY <1>8, <1>7 DEF TellStarting, records, Unrecorded
<1>9. CASE Launch(g) BY <1>9, <1>7 DEF Launch, records, Unrecorded
<1>10. CASE LaunchFails(g) BY <1>10, <1>7 DEF LaunchFails, records, Unrecorded
<1>11. CASE Record(g)
  <2>1. opened' = TRUE /\ Readable /\ bridges' = bridges BY <1>11 DEF Record
  <2>2. recorders[g].current = None BY <1>11 DEF Unrecorded
  <2>3. children'[g].at = "telling" /\ recorders'[g].current = None BY <1>11, <2>2
  <2> HIDE StepEffects
  <2> QED BY <2>1, <2>3 DEF Recording
<1>12. CASE RecordFails(g)
  BY <1>12, <1>7 DEF RecordFails, Unrecorded
<1>13. CASE TellRunning(g)
  <2>1. /\ children[g].at = (IF Readable THEN "telling" ELSE "spawned") /\ children'[g].at = "playing"
        /\ recorders' = recorders
    BY <1>13 DEF TellRunning, records
  <2> HIDE StepEffects
  <2> QED BY <2>1 DEF Recording, Unrecorded
<1>14. CASE \E outcome \in Outcomes : Exit(g, outcome)
  <2>1. PICK outcome \in Outcomes : Exit(g, outcome) BY <1>14
  <2>2. recorders' = recorders BY <2>1 DEF Exit, records
  <2> QED BY <2>1, <2>2, <1>7
<1>15. CASE ExitObserved(g)
  <2>1. recorders'[g].active = recorders[g].active
    BY <1>15, ObservingKeeps DEF ExitObserved
  <2>2. children[g].at = "observing" /\ children'[g].at = "draining" BY <1>15
  <2> HIDE StepEffects
  <2> QED BY <2>1, <2>2 DEF Recording, Unrecorded
<1>16. CASE Ended(g)
  <2>1. children'[g].at = "finishing" /\ ~recorders'[g].active /\ recorders'[g].current = None BY <1>16
  <2> HIDE StepEffects
  <2> QED BY <2>1
<1>17. CASE Finished(g) BY <1>17, <1>7 DEF Finished
<1>18. CASE \E place \in Places : Report(g, place)
  <2>1. PICK place \in Places : Report(g, place) BY <1>18
  <2>2. children' = children /\ recorders' = recorders BY <2>1 DEF Report, records
  <2>3. bridges'[g].at = "cloning" BY <2>1
  <2> HIDE StepEffects
  <2> QED BY <2>2, <2>3
<1>19. CASE CloseBridge(g)
  <2>1. children' = children /\ recorders' = recorders BY <1>19 DEF CloseBridge, records
  <2>2. bridges'[g].at = "cloning" BY <1>19
  <2> HIDE StepEffects
  <2> QED BY <2>1, <2>2
<1>20. CASE Clone(g)
  <2>1. children' = children /\ recorders' = recorders BY <1>20 DEF Clone, records
  <2>2. bridges'[g].at = "observing" => recorders[g].active BY <1>20
  <2> HIDE StepEffects
  <2> QED BY <2>1, <2>2 DEF Recording
<1>21. CASE Observed(g)
  <2>1. children' = children /\ recorders'[g].active = recorders[g].active
    BY <1>21, ObservingKeeps DEF Observed
  <2>2. bridges[g].at = "observing" /\ bridges'[g].at # "observing" BY <1>21
  <2>3. children[g].at \in Following BY <2>2 DEF BridgeFollows
  <2> HIDE StepEffects
  <2> QED BY <2>1, <2>2, <2>3 DEF Following, Unrecorded
<1> QED
  BY <1>8, <1>9, <1>10, <1>11, <1>12, <1>13, <1>14, <1>15, <1>16, <1>17, <1>18, <1>19, <1>20, <1>21
  DEF Step

\* A session begins: the game had none.
LEMMA HistoryRecorded ==
    ASSUME GamesInv, HistoryInv, Onward, NEW g \in Games, Record(g), \A h \in Games : RecorderTaken(h)'
    PROVE  /\ HistoryInv' /\ Keeps
           /\ \A m \in DOMAIN history' :
                \/ \E n \in DOMAIN history : history'[m] = Opened[n]
                \/ history'[m] = Fresh(g)
PROOF
<1> DEFINE begun == Append(Opened, Fresh(g))
<1>1. /\ Opened \in Seq(Session) /\ DOMAIN Opened = DOMAIN history /\ Len(Opened) = Len(history)
      /\ Bounded(Opened)
      /\ \A n \in DOMAIN history :
           /\ Opened[n].game = history[n].game /\ Opened[n].instance = history[n].instance
           /\ Opened[n].visits = history[n].visits
           /\ history[n].outcome # None => Opened[n].outcome = history[n].outcome
           /\ Opened[n].outcome # None => children[history[n].game].at = "done"
  BY OpenedFacts
<1>2. opened' = TRUE /\ children[g].at = "spawned" BY <1>1 DEF Record
<1>3. CASE Retain(begun) = {}
  <2>1. history' = Opened /\ UNCHANGED <<archive, recorded>> BY <1>3 DEF Record
  <2> QED BY <1>1, <1>2, <2>1, HistoryOpened
<1>4. CASE Retain(begun) # {}
  <2>1. Edit(begun) /\ recorded' = recorded \cup {g} BY <1>4 DEF Record
  <2>2. /\ DocumentShapes /\ Len(history) <= MaxSessions /\ Once(history)
        /\ \A n \in DOMAIN history : SessionKnown(history[n])
        /\ \A h \in recorded : h \in Games /\ children[h].at \notin Unrecorded
        /\ CountedOnce
    BY DEF HistoryInv, DocumentShapes
  <2>3. g \notin recorded BY <1>2, <2>2 DEF Unrecorded
  <2>4. children[g].instance \in Instances
    BY <1>2 DEF GamesInv, BridgesFollow, BridgeFollows
  <2>5. Fresh(g) \in Session /\ Len(Fresh(g).visits) = 0
    <3>1. <<>> \in Seq(Somewhere) /\ Len(<<>>) = 0 BY EmptySeq
    <3> QED BY <2>4, <3>1 DEF Fresh, Session, Somewhere
  <2>6. DOMAIN Opened = 1 .. Len(Opened) /\ Len(Opened) \in Nat BY <1>1, LenProperties
  <2>7. /\ begun \in Seq(Session) /\ Len(begun) = Len(Opened) + 1
        /\ \A n \in 1 .. Len(Opened) : begun[n] = Opened[n]
        /\ begun[Len(Opened) + 1] = Fresh(g)
    BY <1>1, <2>5, AppendProperties
  <2>8. DOMAIN begun = 1 .. (Len(Opened) + 1) BY <2>7, LenProperties
  <2> DEFINE last == Len(Opened) + 1
  <2> HIDE DEF begun
  <2>9. /\ \A n \in DOMAIN begun : \/ n \in DOMAIN Opened /\ begun[n] = Opened[n]
                                   \/ n = last /\ begun[n] = Fresh(g)
        /\ \A n \in DOMAIN Opened : n \in DOMAIN begun /\ begun[n] = Opened[n] /\ n # last
        /\ last \in DOMAIN begun /\ begun[last] = Fresh(g)
    <3>1. \A n \in DOMAIN begun : n \in DOMAIN Opened \/ n = last BY <2>6, <2>8
    <3>2. \A n \in DOMAIN Opened : n \in DOMAIN begun /\ n # last BY <2>6, <2>8
    <3>3. last \in DOMAIN begun BY <2>6, <2>8
    <3> QED BY <2>6, <2>7, <3>1, <3>2, <3>3
  <2> HIDE DEF last
  <2>10. Bounded(begun)
    <3>1. Len(Fresh(g).visits) <= MaxVisits BY <2>5, SessionBounds
    <3> QED BY <1>1, <2>9, <3>1 DEF Bounded
  <2>11. Fresh(g).game = g /\ Fresh(g).instance = children[g].instance /\ Fresh(g).outcome = None
    BY DEF Fresh
  <2>12. \A n \in DOMAIN Opened : Opened[n].game # g BY <1>1, <2>2, <2>3 DEF SessionKnown
  <2>13. Once(begun)
    <3>1. Once(Opened) BY <1>1, <2>2 DEF Once
    <3> QED BY <2>9, <2>11, <2>12, <3>1 DEF Once
  <2>14. Len(begun) <= MaxSessions + 1
    BY <1>1, <2>2, <2>6, <2>7, SessionBounds
  <2>15. /\ history' \in Seq(Session) /\ Len(history') <= MaxSessions /\ Bounded(history')
         /\ archive' \in [Instances -> Nat] /\ Once(history')
         /\ \A m \in DOMAIN history' : \E n \in DOMAIN begun : history'[m] = begun[n]
         /\ \A i \in Instances : Sum(history', archive', i) = Sum(begun, archive, i)
    BY <2>1, <2>2, <2>7, <2>10, <2>13, <2>14, WrittenFacts DEF Written
  <2>16. DocumentShapes'
    <3>1. recorded' \subseteq Games BY <2>1, <2>2
    <3>2. Bounded(history)' BY <2>15 DEF Bounded
    <3> QED BY <2>15, <3>1, <3>2 DEF DocumentShapes
  <2>17. Once(history)' BY <2>15 DEF Once
  <2>18. children'[g].at = "telling" /\ children'[g].instance = children[g].instance
    <3>1. children'[g].at = "telling" BY StepEffects DEF GamesInv
    <3> QED BY <1>2, <3>1 DEF Onward
  <2>19. \A h \in recorded' : children'[h].at \notin Unrecorded
    BY <2>1, <2>2, <2>18 DEF Onward, Unrecorded
  <2>20. \A h \in recorded' : children'[h].instance = children[h].instance
    BY <2>1, <2>2, <2>18 DEF Onward, Unrecorded
  <2>21. ASSUME NEW m \in DOMAIN history' PROVE SessionKnown(history[m])'
    <3>1. PICK n \in DOMAIN begun : history'[m] = begun[n] BY <2>15
    <3>2. CASE n \in DOMAIN Opened /\ begun[n] = Opened[n]
      <4>1. SessionKnown(history[n]) BY <1>1, <2>2, <3>2
      <4>2. /\ history'[m].game = history[n].game /\ history'[m].instance = history[n].instance
            /\ history'[m].outcome # None => children[history[n].game].at = "done"
        BY <1>1, <3>1, <3>2
      <4>3. history[n].game \in recorded /\ history[n].game \in recorded' /\ history[n].game \in Games
        BY <2>1, <2>2, <4>1 DEF SessionKnown
      <4> QED BY <1>2, <2>20, <4>1, <4>2, <4>3 DEF SessionKnown, Onward
    <3>3. CASE begun[n] = Fresh(g)
      BY <1>2, <2>1, <2>11, <2>18, <3>1, <3>3 DEF SessionKnown
    <3> QED BY <2>9, <3>2, <3>3
  <2>22. Keeps
    <3> SUFFICES ASSUME NEW n \in DOMAIN history, history[n].outcome # None,
                        NEW m \in DOMAIN history', history'[m].game = history[n].game
                 PROVE  /\ history'[m].outcome = history[n].outcome
                        /\ history'[m].visits = history[n].visits
      BY DEF Keeps
    <3>1. PICK k \in DOMAIN begun : history'[m] = begun[k] BY <2>15
    <3>2. begun[n] = Opened[n] /\ n \in DOMAIN begun BY <1>1, <2>9
    <3>3. begun[k].game = begun[n].game BY <1>1, <3>1, <3>2
    <3>4. k = n BY <2>13, <3>2, <3>3 DEF Once
    <3> QED BY <1>1, <3>1, <3>2, <3>4
  <2>23. CountedOnce'
    <3> SUFFICES ASSUME NEW i \in Instances
                 PROVE  Sum(history', archive', i)
                            = Cardinality({h \in recorded' : children'[h].instance = i})
      BY DEF CountedOnce, Sum, Of
    <3> DEFINE of == {h \in recorded : children[h].instance = i}
    <3>1. {h \in recorded' : children'[h].instance = i} = {h \in recorded' : children[h].instance = i}
      BY <2>20
    <3>2. Of(Opened, i) = Of(history, i) BY <1>1 DEF Of
    <3>3. Cardinality(Of(history, i)) + archive[i] = Cardinality(of) BY <2>2 DEF CountedOnce, Of
    <3>4. IsFiniteSet(Of(Opened, i)) /\ Cardinality(Of(Opened, i)) \in Nat BY <1>1, OfFinite
    <3>5. IsFiniteSet(of)
      <4>1. IsFiniteSet(Games) BY SessionBounds, FS_Interval DEF Games
      <4>2. of \in SUBSET Games BY <2>2
      <4> QED BY <4>1, <4>2, FS_Subset
    <3>6. archive[i] \in Nat BY <2>2 DEF DocumentShapes
    <3>7. CASE children[g].instance = i
      <4>1. Of(begun, i) = Of(Opened, i) \cup {last} BY <2>9, <2>11, <3>7 DEF Of
      <4>2. last \notin Of(Opened, i) BY <2>9 DEF Of
      <4>3. Cardinality(Of(begun, i)) = Cardinality(Of(Opened, i)) + 1
        BY <3>4, <4>1, <4>2, FS_AddElement
      <4>4. {h \in recorded' : children[h].instance = i} = of \cup {g} BY <2>1, <3>7
      <4>5. g \notin of BY <2>3
      <4>6. Cardinality(of \cup {g}) = Cardinality(of) + 1 BY <3>5, <4>5, FS_AddElement
      <4> HIDE DEF of
      <4>7. Sum(begun, archive, i) = Cardinality(of) + 1
        BY <3>2, <3>3, <3>4, <3>6, <4>3 DEF Sum
      <4> QED BY <2>15, <3>1, <4>4, <4>6, <4>7
    <3>8. CASE children[g].instance # i
      <4>1. Of(begun, i) = Of(Opened, i) BY <2>9, <2>11, <3>8 DEF Of
      <4>2. {h \in recorded' : children[h].instance = i} = of BY <2>1, <3>8
      <4> HIDE DEF of
      <4> QED BY <2>15, <3>1, <3>2, <3>3, <4>1, <4>2 DEF Sum
    <3> QED BY <3>7, <3>8
  <2>24. \A m \in DOMAIN history' : \/ \E n \in DOMAIN history : history'[m] = Opened[n]
                                    \/ history'[m] = Fresh(g)
    BY <1>1, <2>9, <2>15
  <2>25. \A h \in Games : RecorderTaken(h)' OBVIOUS
  <2> QED BY <2>16, <2>17, <2>19, <2>21, <2>22, <2>23, <2>24, <2>25 DEF HistoryInv
<1> QED BY <1>3, <1>4

LEMMA HistoryStep ==
    ASSUME GamesInv, HistoryInv, NEW g \in Games, Step(g)
    PROVE  HistoryInv' /\ Keeps
PROOF
<1>1. Onward BY StepOnward DEF GamesInv
<1>2. \A h \in Games : RecorderTaken(h)' BY StepRecorders
<1>3. Shapes /\ BridgeFollows(g) /\ RecorderTaken(g)
  BY DEF GamesInv, BridgesFollow, HistoryInv
<1>4. UNCHANGED <<history, archive, recorded, opened>> => HistoryInv' /\ Keeps
  BY <1>1, <1>2, HistoryUnwritten
<1>5. CASE TellStarting(g) BY <1>4, <1>5 DEF TellStarting, records
<1>6. CASE Launch(g) BY <1>4, <1>6 DEF Launch, records
<1>7. CASE LaunchFails(g) BY <1>4, <1>7 DEF LaunchFails, records
<1>8. CASE Record(g) BY <1>1, <1>2, <1>8, HistoryRecorded
<1>9. CASE RecordFails(g)
  <2>1. UNCHANGED <<archive, recorded>> BY <1>9 DEF RecordFails
  <2>2. UNCHANGED <<opened, history>> \/ (opened' = TRUE /\ history' = Opened) BY <1>9 DEF RecordFails
  <2>3. CASE UNCHANGED <<opened, history>> BY <1>4, <2>1, <2>3
  <2>4. CASE opened' = TRUE /\ history' = Opened BY <1>1, <1>2, <2>1, <2>4, HistoryOpened
  <2> QED BY <2>2, <2>3, <2>4
<1>10. CASE TellRunning(g) BY <1>4, <1>10 DEF TellRunning, records
<1>11. CASE \E outcome \in Outcomes : Exit(g, outcome) BY <1>4, <1>11 DEF Exit, records
<1>12. CASE ExitObserved(g)
  <2>1. UNCHANGED <<recorded, opened>> /\ children[g].at = "observing" BY <1>12 DEF ExitObserved
  <2>2. Observe(g, Unknown) \/ UNCHANGED <<history, archive>>
    BY <1>12 DEF ExitObserved, ObserveFails
  <2>3. Unknown \in Somewhere BY DEF Somewhere
  <2>4. CASE Observe(g, Unknown) BY <1>1, <1>2, <1>3, <2>1, <2>3, <2>4, HistoryObserved
  <2>5. CASE UNCHANGED <<history, archive>> BY <1>4, <2>1, <2>5
  <2> QED BY <2>2, <2>4, <2>5
<1>13. CASE Ended(g) BY <1>4, <1>13 DEF Ended
<1>14. CASE Finished(g)
  <2>1. UNCHANGED <<recorded, opened>> BY <1>14 DEF Finished
  <2>2. children'[g].at = "done" BY <1>3, <1>14, StepEffects
  <2>3. Finish(g, children[g].visit, children[g].outcome) \/ UNCHANGED <<history, archive>>
    BY <1>14 DEF Finished
  <2>4. CASE Finish(g, children[g].visit, children[g].outcome)
    BY <1>1, <1>2, <1>3, <2>1, <2>2, <2>4, HistoryFinished
  <2>5. CASE UNCHANGED <<history, archive>> BY <1>4, <2>1, <2>5
  <2> QED BY <2>3, <2>4, <2>5
<1>15. CASE \E place \in Places : Report(g, place) BY <1>4, <1>15 DEF Report, records
<1>16. CASE CloseBridge(g) BY <1>4, <1>16 DEF CloseBridge, records
<1>17. CASE Clone(g) BY <1>4, <1>17 DEF Clone, records
<1>18. CASE Observed(g)
  <2>1. UNCHANGED <<recorded, opened>> /\ bridges[g].at = "observing" BY <1>18 DEF Observed
  <2>2. Observe(g, bridges[g].place) \/ UNCHANGED <<history, archive>>
    BY <1>18 DEF Observed, ObserveFails
  <2>3. bridges[g].place \in Somewhere
    <3>1. bridges[g].place \in Somewhere \cup {None} BY <1>3 DEF Shapes, Bridge
    <3> QED BY <1>3, <2>1, <3>1 DEF BridgeFollows
  <2>4. CASE Observe(g, bridges[g].place)
    <3>1. children[g].at = "done" => recorders[g].current = None BY <1>3, <2>1 DEF RecorderTaken
    <3> QED BY <1>1, <1>2, <1>3, <2>1, <2>3, <2>4, <3>1, HistoryObserved
  <2>5. CASE UNCHANGED <<history, archive>> BY <1>4, <2>1, <2>5
  <2> QED BY <2>2, <2>4, <2>5
<1> QED
  BY <1>5, <1>6, <1>7, <1>8, <1>9, <1>10, <1>11, <1>12, <1>13, <1>14, <1>15, <1>16, <1>17, <1>18
  DEF Step

LEMMA HistoryInvNext ==
    ASSUME GamesInv, HistoryInv, [Next]_vars
    PROVE  HistoryInv' /\ Keeps
PROOF
<1>1. \A g \in Games : RecorderTaken(g) BY DEF HistoryInv
<1>2. UNCHANGED <<configured, children, bridges, recorders>> => Onward
  BY DEF Onward
<1>3. UNCHANGED <<configured, children, bridges, recorders>> /\ (opened' = opened \/ opened' = TRUE)
      => \A g \in Games : RecorderTaken(g)'
  BY <1>1 DEF RecorderTaken, Readable
<1>4. UNCHANGED <<configured, children, bridges, records>> => HistoryInv' /\ Keeps
  BY <1>2, <1>3, HistoryUnwritten DEF records
<1>5. ASSUME NEW g \in Games, Step(g) PROVE HistoryInv' /\ Keeps BY <1>5, HistoryStep
<1>6. ASSUME NEW g \in Games, NEW i \in Instances, Start(i, g) PROVE HistoryInv' /\ Keeps
  <2>1. UNCHANGED <<configured, records>> BY <1>6 DEF Start, discord
  <2>2. Onward BY <1>6, StartFacts DEF Onward, Unrecorded
  <2>3. \A h \in Games : RecorderTaken(h)'
    <3>1. ASSUME NEW h \in Games \ {g} PROVE RecorderTaken(h)'
      <4>1. children'[h] = children[h] /\ bridges'[h] = bridges[h] BY <1>6, StartFacts
      <4> QED BY <1>1, <2>1, <4>1 DEF RecorderTaken, Readable, records
    <3>2. RecorderTaken(g)'
      <4>1. children[g].at = "none" /\ children'[g].at = "starting" BY <1>6, StartFacts
      <4>2. RecorderTaken(g) BY <1>1
      <4> QED BY <2>1, <4>1, <4>2 DEF RecorderTaken, Readable, records, Unrecorded, Recording
    <3> QED BY <3>1, <3>2
  <2> QED BY <2>1, <2>2, <2>3, HistoryUnwritten DEF records
<1>7. CASE OpenHistory
  <2>1. /\ UNCHANGED <<configured, children, bridges, recorders, archive, recorded>>
        /\ opened' = TRUE /\ ~opened /\ history' = Interrupted(history)
    BY <1>7 DEF OpenHistory, discord, world
  <2>2. history' = Opened BY <2>1 DEF Opened
  <2> QED BY <1>2, <1>3, <2>1, <2>2, HistoryOpened
<1>8. CASE User BY <1>4, <1>8 DEF User, world, SetPreferences, Ask
<1>9. CASE Restart
  <2>1. \A g \in Games :
          /\ children'[g].instance = children[g].instance \/ children[g].at = "none"
          /\ children'[g].at = IF children[g].at = "none" THEN "none" ELSE "done"
          /\ ~recorders'[g].active /\ recorders'[g].current = None
    BY <1>9, RestartFacts DEF GamesInv
  <2>2. UNCHANGED <<history, archive, recorded>> BY <1>9, RestartFacts DEF GamesInv
  <2>3. Onward BY <2>1 DEF Onward, Unrecorded
  <2>4. \A g \in Games : RecorderTaken(g)' BY <2>1 DEF RecorderTaken
  <2>5. \A n \in DOMAIN history : children'[history[n].game].at = "done"
    <3>1. \A n \in DOMAIN history : history[n].game \in Games /\ children[history[n].game].at # "none"
      BY DEF HistoryInv, DocumentShapes, SessionKnown, Unrecorded
    <3> QED BY <2>1, <3>1
  <2> QED BY <2>2, <2>3, <2>4, <2>5, HistoryUnwritten
<1>10. ASSUME Work(TRUE) \/ Work(FALSE) PROVE configured' = configured
  BY <1>10 DEF Work, Connects, Publish, Receive, Woken, Tick, rest
<1>11. CASE DiscordWorks BY <1>4, <1>10, <1>11 DEF DiscordWorks, world
<1>12. CASE DiscordFails BY <1>4, <1>10, <1>12 DEF DiscordFails, world
<1>13. CASE UNCHANGED vars BY <1>4, <1>13 DEF vars, discord, world
<1> QED BY <1>5, <1>6, <1>7, <1>8, <1>9, <1>11, <1>12, <1>13 DEF Next

LEMMA HistoryInvInit == Init => HistoryInv
PROOF
<1> SUFFICES ASSUME Init PROVE HistoryInv OBVIOUS
<1>1. history = <<>> /\ DOMAIN history = {} /\ Len(history) = 0 BY DEF Init
<1>2. recorded = {} /\ archive = [i \in Instances |-> 0] BY DEF Init
<1>3. DocumentShapes BY <1>1, <1>2, EmptySeq, SessionBounds DEF DocumentShapes, Bounded
<1>4. CountedOnce
  <2> SUFFICES ASSUME NEW i \in Instances
               PROVE  Cardinality({n \in DOMAIN history : history[n].instance = i}) + archive[i]
                          = Cardinality({g \in recorded : children[g].instance = i})
    BY DEF CountedOnce
  <2>1. {n \in DOMAIN history : history[n].instance = i} = {} BY <1>1
  <2>2. {g \in recorded : children[g].instance = i} = {} BY <1>2
  <2> QED BY <1>2, <2>1, <2>2, FS_EmptySet
<1>5. \A g \in Games : RecorderTaken(g)
  BY DEF Init, RecorderTaken, NoRecorder
<1> QED BY <1>1, <1>2, <1>3, <1>4, <1>5 DEF HistoryInv, Once

-----------------------------------------------------------------------------
(* What the history is held to                                             *)

THEOREM HistoryInvariance == Spec => [](GamesInv /\ HistoryInv)
PROOF
<1>1. Init => GamesInv /\ HistoryInv BY GamesInvInit, HistoryInvInit
<1>2. GamesInv /\ HistoryInv /\ [Next]_vars => (GamesInv /\ HistoryInv)'
  BY GamesInvNext, HistoryInvNext
<1> QED BY <1>1, <1>2, PTL DEF Spec

\* A session that has ended keeps its outcome and its visits.
THEOREM SessionsClose == Spec => ClosedOnce
PROOF
<1>1. GamesInv /\ HistoryInv /\ [Next]_vars => [Keeps]_vars BY HistoryInvNext
<1>2. [Keeps]_vars =>
        [\A n \in DOMAIN history : history[n].outcome # None =>
            \A m \in DOMAIN history' : history'[m].game = history[n].game =>
                /\ history'[m].outcome = history[n].outcome
                /\ history'[m].visits = history[n].visits]_vars
  BY DEF Keeps
<1> QED BY <1>1, <1>2, HistoryInvariance, PTL DEF Spec, ClosedOnce

-----------------------------------------------------------------------------
(* The visits                                                              *)

\* The place a recorder is in, if any, as a sequence.
Held(place) == IF place = None THEN <<>> ELSE <<place>>

\* What was heard of a game and is not recorded yet: the report its receiver
\* is handing over, then the end its supervisor is.
Pending(g) == bridges[g].at \in {"cloning", "observing"}
Reached(g) == IF Pending(g) THEN bridges[g].place ELSE recorders[g].current
Late(g) == IF Pending(g) /\ bridges[g].place # recorders[g].current THEN <<bridges[g].place>> ELSE <<>>
Final(g) == IF children[g].at = "observing" /\ Reached(g) # Unknown THEN <<Unknown>> ELSE <<>>

\* The visits a session has room for.
Latest(places) ==
    SubSeq(places, IF Len(places) > MaxVisits THEN Len(places) - MaxVisits + 1 ELSE 1, Len(places))

\* A recorder divides what was heard into the visits recorded, the place the
\* game is in, and what is ahead.
Divides(g, visits, before) ==
    /\ heard[g] = (before \o Held(recorders[g].current)) \o (Late(g) \o Final(g))
    /\ visits = Latest(before)
    /\ recorders[g].current = None => before = <<>>

SessionFollows(s) ==
    LET g == s.game
    IN g \notin flawed =>
        /\ s.outcome = None /\ recorders[g].active => \E before \in Seq(Somewhere) : Divides(g, s.visits, before)
        /\ s.outcome = None /\ children[g].at = "finishing" /\ children[g].recording =>
             \E before \in Seq(Somewhere) :
                 heard[g] = before \o Held(children[g].visit) /\ s.visits = Latest(before)
        /\ s.outcome \in {"normal", "abnormal"} => s.visits = Latest(heard[g])

\* Once the output of a game is drained nothing it reported is left to record.
Drained(g) ==
    children[g].at = "draining" /\ g \notin flawed /\ recorders[g].active /\ children[g].instance \in Bridged =>
        recorders[g].current = Unknown /\ (Pending(g) => bridges[g].place = Unknown)

VisitsInv ==
    /\ \A n \in DOMAIN history : SessionFollows(history[n])
    /\ \A g \in Games : Drained(g)

LEMMA LatestFacts ==
    ASSUME NEW before \in Seq(Somewhere)
    PROVE  /\ Latest(before) \in Seq(Somewhere) /\ Len(before) \in Nat
           /\ Len(Latest(before)) = IF Len(before) > MaxVisits THEN MaxVisits ELSE Len(before)
           /\ \A n \in 1 .. Len(Latest(before)) :
                 Latest(before)[n] = before[n + (Len(before) - Len(Latest(before)))]
PROOF
<1> DEFINE len == Len(before)
           first == IF len > MaxVisits THEN len - MaxVisits + 1 ELSE 1
<1>1. len \in Nat /\ MaxVisits \in Nat \ {0} /\ \A n \in 1 .. len : before[n] \in Somewhere
  BY LenProperties, ElementOfSeq, SessionBounds
<1>2. first \in Int /\ len \in Int /\ \A n \in first .. len : before[n] \in Somewhere BY <1>1
<1>3. Latest(before) = SubSeq(before, first, len) BY DEF Latest
<1> HIDE DEF first, len
<1>4. /\ SubSeq(before, first, len) \in Seq(Somewhere)
      /\ Len(SubSeq(before, first, len)) = IF first <= len THEN len - first + 1 ELSE 0
      /\ \A n \in 1 .. (len - first + 1) : SubSeq(before, first, len)[n] = before[first + n - 1]
  BY <1>2, SubSeqProperties
<1>5. Len(Latest(before)) = IF len > MaxVisits THEN MaxVisits ELSE len
  BY <1>1, <1>3, <1>4 DEF first
<1>6. \A n \in 1 .. Len(Latest(before)) :
         n \in 1 .. (len - first + 1) /\ first + n - 1 = n + (len - Len(Latest(before)))
  BY <1>1, <1>5 DEF first
<1>7. \A n \in 1 .. Len(Latest(before)) : Latest(before)[n] = before[n + (len - Len(Latest(before)))]
  BY <1>3, <1>4, <1>6
<1> QED BY <1>1, <1>3, <1>4, <1>5, <1>7 DEF len

\* A place recorded is the latest visit, and the oldest makes room for it.
LEMMA LatestAppend ==
    ASSUME NEW before \in Seq(Somewhere), NEW place \in Somewhere,
           NEW s \in Session, s.visits = Latest(before)
    PROVE  Visited(s, place).visits = Latest(Append(before, place))
PROOF
<1> DEFINE old == Latest(before)
           room == IF Len(old) = MaxVisits THEN Tail(old) ELSE old
           new == Append(room, place)
           next == Append(before, place)
<1>1. /\ old \in Seq(Somewhere) /\ Len(before) \in Nat
      /\ Len(old) = IF Len(before) > MaxVisits THEN MaxVisits ELSE Len(before)
      /\ \A n \in 1 .. Len(old) : old[n] = before[n + (Len(before) - Len(old))]
  BY LatestFacts
<1>2. MaxVisits \in Nat \ {0} BY SessionBounds
<1>3. /\ next \in Seq(Somewhere) /\ Len(next) = Len(before) + 1
      /\ \A n \in 1 .. Len(before) : next[n] = before[n]
      /\ next[Len(before) + 1] = place
  BY AppendProperties
<1> HIDE DEF next, old
<1>4. /\ Latest(next) \in Seq(Somewhere)
      /\ Len(Latest(next)) = IF Len(next) > MaxVisits THEN MaxVisits ELSE Len(next)
      /\ \A n \in 1 .. Len(Latest(next)) : Latest(next)[n] = next[n + (Len(next) - Len(Latest(next)))]
  BY <1>3, LatestFacts
<1>5. /\ room \in Seq(Somewhere) /\ Len(room) \in Nat
      /\ Len(room) = IF Len(before) >= MaxVisits THEN MaxVisits - 1 ELSE Len(before)
      /\ \A n \in 1 .. Len(room) : room[n] = before[n + (Len(before) - Len(room))]
  <2>1. CASE Len(old) = MaxVisits
    <3>1. old # <<>> BY <1>1, <1>2, <2>1, EmptySeq
    <3>2. /\ Tail(old) \in Seq(Somewhere) /\ Len(Tail(old)) = Len(old) - 1
          /\ \A n \in 1 .. Len(Tail(old)) : Tail(old)[n] = old[n + 1]
      BY <1>1, <3>1, HeadTailProperties
    <3>3. room = Tail(old) BY <2>1
    <3> HIDE DEF room
    <3>4. Len(room) = MaxVisits - 1 /\ Len(before) >= MaxVisits BY <1>1, <1>2, <2>1, <3>2, <3>3
    <3>5. ASSUME NEW n \in 1 .. Len(room) PROVE room[n] = before[n + (Len(before) - Len(room))]
      <4> DEFINE a == Len(old)  b == Len(room)  c == Len(before)
      <4>a. a = b + 1 /\ b \in Nat /\ c \in Nat /\ n \in 1 .. b BY <1>1, <1>2, <2>1, <3>4
      <4> HIDE DEF a, b, c
      <4>b. n + 1 \in 1 .. a /\ (n + 1) + (c - a) = n + (c - b) BY <4>a
      <4>1. n + 1 \in 1 .. Len(old) /\ (n + 1) + (Len(before) - Len(old)) = n + (Len(before) - Len(room))
        BY <4>b DEF a, b, c
      <4>2. room[n] = old[n + 1] BY <3>2, <3>3
      <4>3. old[n + 1] = before[(n + 1) + (Len(before) - Len(old))] BY <1>1, <4>1
      <4> QED BY <4>1, <4>2, <4>3
    <3> QED BY <1>1, <1>2, <3>2, <3>3, <3>4, <3>5
  <2>2. CASE Len(old) # MaxVisits
    <3>1. room = old BY <2>2
    <3> HIDE DEF room
    <3>2. Len(old) \in Nat /\ ~(Len(before) >= MaxVisits) /\ Len(old) = Len(before)
      BY <1>1, <1>2, <2>2
    <3> QED BY <1>1, <1>2, <3>1, <3>2
  <2> QED BY <2>1, <2>2
<1> HIDE DEF room
<1>6. /\ new \in Seq(Somewhere) /\ Len(new) = Len(room) + 1
      /\ \A n \in 1 .. Len(room) : new[n] = room[n]
      /\ new[Len(room) + 1] = place
  BY <1>5, AppendProperties
<1> HIDE DEF new
<1>7. Len(new) = Len(Latest(next)) BY <1>1, <1>2, <1>3, <1>4, <1>5, <1>6
<1>8. ASSUME NEW n \in 1 .. Len(new) PROVE new[n] = Latest(next)[n]
  <2>1. Latest(next)[n] = next[n + (Len(next) - Len(new))] BY <1>4, <1>7
  <2>2. CASE n = Len(room) + 1
    <3>1. n + (Len(next) - Len(new)) = Len(before) + 1 BY <1>1, <1>3, <1>5, <1>6, <2>2
    <3> QED BY <1>3, <1>6, <2>1, <2>2, <3>1
  <2>3. CASE n # Len(room) + 1
    <3>1. n \in 1 .. Len(room) BY <1>5, <1>6, <2>3
    <3>2. new[n] = before[n + (Len(before) - Len(room))] BY <1>5, <1>6, <3>1
    <3>3. n + (Len(next) - Len(new)) = n + (Len(before) - Len(room))
      <4> DEFINE b == Len(room)  c == Len(before)
      <4>1. Len(next) = c + 1 /\ Len(new) = b + 1 /\ b \in Nat /\ c \in Nat /\ n \in Nat
        BY <1>1, <1>3, <1>5, <1>6, <3>1
      <4> HIDE DEF b, c
      <4>2. n + (Len(next) - Len(new)) = n + (c - b) BY <4>1
      <4> QED BY <4>2 DEF b, c
    <3>4. n + (Len(before) - Len(room)) \in 1 .. Len(before) BY <1>1, <1>2, <1>5, <3>1
    <3> QED BY <1>3, <2>1, <3>2, <3>3, <3>4
  <2> QED BY <2>2, <2>3
<1>9. new = Latest(next) BY <1>4, <1>6, <1>7, <1>8, SeqEqual
<1>10. place # None BY NoneIsNothing DEF Somewhere
<1>11. Visited(s, place).visits = new
  <2>1. Visited(s, place) = [s EXCEPT !.visits = new] BY <1>10 DEF Visited, new, room, old
  <2> QED BY <2>1 DEF Session
<1> QED BY <1>9, <1>11 DEF next

LEMMA HeldFacts ==
    ASSUME NEW place \in Somewhere \cup {None}
    PROVE  /\ Held(place) \in Seq(Somewhere)
           /\ place # None => Held(place) = <<place>>
           /\ place = None => Held(place) = <<>>
PROOF
<1>1. <<>> \in Seq(Somewhere) BY EmptySeq
<1>2. place # None => <<place>> \in Seq(Somewhere) OBVIOUS
<1> QED BY <1>1, <1>2 DEF Held

LEMMA VisitedLatest ==
    ASSUME NEW s \in Session, NEW before \in Seq(Somewhere), s.visits = Latest(before),
           NEW place \in Somewhere \cup {None}
    PROVE  /\ before \o Held(place) \in Seq(Somewhere)
           /\ Visited(s, place).visits = Latest(before \o Held(place))
PROOF
<1>1. before \o Held(place) \in Seq(Somewhere) BY HeldFacts, ConcatProperties
<1>2. CASE place = None
  <2>1. before \o Held(place) = before BY <1>2, HeldFacts, ConcatEmptySeq
  <2>2. Visited(s, place) = s BY <1>2 DEF Visited
  <2> QED BY <1>1, <2>1, <2>2
<1>3. CASE place # None
  <2>1. place \in Somewhere BY <1>3
  <2>2. Append(before, place) = before \o <<place>> BY <2>1, AppendIsConcat
  <2>3. Held(place) = <<place>> BY <1>3, HeldFacts
  <2>4. Visited(s, place).visits = Latest(Append(before, place)) BY <2>1, LatestAppend
  <2> QED BY <1>1, <2>2, <2>3, <2>4
<1> QED BY <1>2, <1>3

\* What is ahead of a recorder, as a sequence.
LEMMA AheadFacts ==
    ASSUME Shapes, NEW g \in Games
    PROVE  /\ recorders[g].current \in Somewhere \cup {None}
           /\ Pending(g) => bridges[g].place \in Somewhere \cup {None}
           /\ BridgeFollows(g) /\ Pending(g) => bridges[g].place \in Somewhere
           /\ BridgeFollows(g) => Late(g) \in Seq(Somewhere)
           /\ Final(g) \in Seq(Somewhere)
           /\ ~Pending(g) => Late(g) = <<>> /\ Reached(g) = recorders[g].current
           /\ Pending(g) => Reached(g) = bridges[g].place
           /\ children[g].at # "observing" => Final(g) = <<>>
PROOF
<1>1. recorders[g] \in Recorder /\ bridges[g] \in Bridge BY DEF Shapes
<1>2. recorders[g].current \in Somewhere \cup {None} BY <1>1 DEF Recorder
<1>3. bridges[g].place \in Somewhere \cup {None} BY <1>1 DEF Bridge
<1>4. BridgeFollows(g) /\ Pending(g) => bridges[g].place \in Somewhere
  BY <1>3 DEF BridgeFollows, Pending
<1>5. <<>> \in Seq(Somewhere) BY EmptySeq
<1>6. Late(g) = <<>> \/ (Pending(g) /\ Late(g) = <<bridges[g].place>>) BY DEF Late
<1>7. \A place \in Somewhere : <<place>> \in Seq(Somewhere) OBVIOUS
<1>8. BridgeFollows(g) => Late(g) \in Seq(Somewhere) BY <1>4, <1>5, <1>6, <1>7
<1>9. Final(g) \in Seq(Somewhere)
  <2>1. Unknown \in Somewhere BY DEF Somewhere
  <2> QED BY <1>5, <1>7, <2>1 DEF Final
<1>10. ~Pending(g) => Late(g) = <<>> /\ Reached(g) = recorders[g].current BY DEF Late, Reached
<1>11. Pending(g) => Reached(g) = bridges[g].place BY DEF Reached
<1>12. children[g].at # "observing" => Final(g) = <<>> BY DEF Final
<1> QED BY <1>2, <1>3, <1>4, <1>8, <1>9, <1>10, <1>11, <1>12

LEMMA LastOfConcat ==
    ASSUME NEW s \in Seq(Somewhere), NEW place \in Somewhere
    PROVE  s \o <<place>> # <<>> /\ Last(s \o <<place>>) = place
PROOF
<1>1. s \o <<place>> = Append(s, place) BY AppendIsConcat
<1>2. /\ Append(s, place) \in Seq(Somewhere) /\ Append(s, place) # <<>>
      /\ Len(Append(s, place)) = Len(s) + 1 /\ Append(s, place)[Len(s) + 1] = place
  BY AppendProperties
<1> QED BY <1>1, <1>2 DEF Last

\* A game that goes on is heard of where it was last seen to go, and then once more.
LEMMA HeardFurther ==
    ASSUME Shapes, NEW g \in Games, BridgeFollows(g), Readable, Final(g) = <<>>,
           NEW before \in Seq(Somewhere), NEW visits, Divides(g, visits, before),
           NEW place \in Somewhere, Hear(g, place)
    PROVE  heard'[g] = heard[g] \o (IF Reached(g) = place THEN <<>> ELSE <<place>>)
PROOF
<1> DEFINE current == recorders[g].current
           past == before \o Held(current)
<1>1. current \in Somewhere \cup {None} /\ Late(g) \in Seq(Somewhere) BY AheadFacts
<1>2. past \in Seq(Somewhere) BY <1>1, HeldFacts, ConcatProperties
<1>3. Late(g) \o <<>> = Late(g) BY <1>1, ConcatEmptySeq
<1>4. heard[g] = past \o Late(g) BY <1>3 DEF Divides
<1>5. Reached(g) # None => heard[g] # <<>> /\ Last(heard[g]) = Reached(g)
  <2>1. CASE Late(g) # <<>>
    <3>1. Pending(g) /\ Late(g) = <<bridges[g].place>> /\ bridges[g].place \in Somewhere
      BY <2>1, AheadFacts DEF Late
    <3>2. Reached(g) = bridges[g].place BY <3>1, AheadFacts
    <3> HIDE DEF past
    <3> QED BY <1>2, <1>4, <3>1, <3>2, LastOfConcat
  <2>2. CASE Late(g) = <<>>
    <3>1. Reached(g) = current BY <2>2 DEF Late, Reached
    <3>2. heard[g] = past BY <1>2, <1>4, <2>2, ConcatEmptySeq
    <3>3. current # None => past = before \o <<current>> /\ current \in Somewhere BY <1>1, HeldFacts
    <3> HIDE DEF past, current
    <3> QED BY <3>1, <3>2, <3>3, LastOfConcat
  <2> QED BY <2>1, <2>2
<1>6. Reached(g) = None => heard[g] = <<>>
  <2> SUFFICES ASSUME Reached(g) = None PROVE heard[g] = <<>> OBVIOUS
  <2>1. ~Pending(g) BY NoneIsNothing, AheadFacts DEF Somewhere
  <2>2. current = None /\ Late(g) = <<>> BY <2>1, AheadFacts
  <2>3. before = <<>> BY <2>2 DEF Divides
  <2>4. past = <<>> BY <1>1, <2>2, <2>3, HeldFacts, ConcatEmptySeq
  <2> HIDE DEF past
  <2> QED BY <1>2, <1>4, <2>2, <2>4, ConcatEmptySeq
<1>7. heard'[g] = IF heard[g] # <<>> /\ Last(heard[g]) = place THEN heard[g] ELSE Append(heard[g], place)
  BY DEF Hear, Shapes
<1>8. Append(heard[g], place) = heard[g] \o <<place>> /\ heard[g] \o <<>> = heard[g]
  <2>1. heard[g] \in Seq(Somewhere) BY DEF Shapes
  <2> QED BY <2>1, AppendIsConcat, ConcatEmptySeq
<1>9. place # None BY NoneIsNothing DEF Somewhere
<1>10. CASE Reached(g) = None BY <1>6, <1>7, <1>8, <1>9, <1>10
<1>11. CASE Reached(g) # None BY <1>5, <1>7, <1>8, <1>11
<1> QED BY <1>10, <1>11

\* A step that leaves what is heard, recorded and ahead of a game leaves its session.
LEMMA FollowsKept ==
    ASSUME NEW s, NEW t, NEW g, s.game = g, t.game = g, SessionFollows(s),
           t.visits = s.visits, t.outcome = s.outcome \/ t.outcome = "interrupted",
           g \in flawed => g \in flawed', heard'[g] = heard[g],
           recorders'[g].active => recorders[g].active /\ recorders'[g].current = recorders[g].current
                                   /\ Late(g)' \o Final(g)' = Late(g) \o Final(g),
           children'[g].at = "finishing" /\ children'[g].recording =>
                children[g].at = "finishing" /\ children[g].recording /\ children'[g].visit = children[g].visit
    PROVE  SessionFollows(t)'
PROOF
<1> SUFFICES ASSUME g \notin flawed'
             PROVE  /\ t.outcome = None /\ recorders'[g].active =>
                         \E before \in Seq(Somewhere) : Divides(g, t.visits, before)'
                    /\ t.outcome = None /\ children'[g].at = "finishing" /\ children'[g].recording =>
                         \E before \in Seq(Somewhere) :
                             heard'[g] = before \o Held(children'[g].visit) /\ t.visits = Latest(before)
                    /\ t.outcome \in {"normal", "abnormal"} => t.visits = Latest(heard'[g])
  BY DEF SessionFollows, Held, Latest
<1>1. t.outcome = None \/ t.outcome \in {"normal", "abnormal"} => t.outcome = s.outcome
  BY NoneIsNothing
<1>2. g \notin flawed OBVIOUS
<1>3. ASSUME t.outcome = None, recorders'[g].active
      PROVE  \E before \in Seq(Somewhere) : Divides(g, t.visits, before)'
  <2>1. PICK before \in Seq(Somewhere) : Divides(g, s.visits, before)
    BY <1>1, <1>2, <1>3 DEF SessionFollows
  <2>2. /\ heard'[g] = (before \o Held(recorders'[g].current)) \o (Late(g)' \o Final(g)')
        /\ t.visits = Latest(before) /\ (recorders'[g].current = None => before = <<>>)
    BY <1>3, <2>1 DEF Divides
  <2>3. Divides(g, t.visits, before)' BY <2>2 DEF Divides, Held, Latest
  <2> QED BY <2>3
<1>4. ASSUME t.outcome = None, children'[g].at = "finishing", children'[g].recording
      PROVE  \E before \in Seq(Somewhere) :
                 heard'[g] = before \o Held(children'[g].visit) /\ t.visits = Latest(before)
  BY <1>1, <1>2, <1>4 DEF SessionFollows
<1>5. t.outcome \in {"normal", "abnormal"} => t.visits = Latest(heard'[g])
  BY <1>1, <1>2 DEF SessionFollows
<1> QED BY <1>3, <1>4, <1>5

LEMMA TellRunningFollows ==
    ASSUME GamesInv, HistoryInv, NEW g \in Games, TellRunning(g),
           NEW s \in Session, s.game = g, SessionFollows(s)
    PROVE  SessionFollows(s)'
PROOF
<1>1. /\ Shapes /\ BridgeFollows(g) /\ RecorderTaken(g)
  BY DEF GamesInv, BridgesFollow, HistoryInv
<1>2. /\ children[g].at = (IF Readable THEN "telling" ELSE "spawned") /\ children'[g].at = "playing"
      /\ bridges'[g].at \in {"listening", "none"}
  BY <1>1, StepEffects
<1>3. UNCHANGED <<recorders, heard, flawed>> BY DEF TellRunning, records
<1>4. bridges[g].at = "none" BY <1>1, <1>2 DEF BridgeFollows, Following
<1>5. Late(g) = <<>> /\ Final(g) = <<>> /\ Late(g)' = <<>> /\ Final(g)' = <<>>
  BY <1>2, <1>4 DEF Late, Final, Pending
<1>6. SessionFollows(s)'
  <2>1. recorders'[g].active => recorders[g].active /\ recorders'[g].current = recorders[g].current
                                /\ Late(g)' \o Final(g)' = Late(g) \o Final(g)
    BY <1>3, <1>5
  <2>2. children'[g].at # "finishing" /\ heard'[g] = heard[g] /\ (g \in flawed => g \in flawed')
    BY <1>2, <1>3
  <2> QED BY <2>1, <2>2, FollowsKept
<1> QED BY <1>6

LEMMA CloneFollows ==
    ASSUME GamesInv, HistoryInv, NEW g \in Games, Clone(g),
           NEW s \in Session, s.game = g, SessionFollows(s)
    PROVE  SessionFollows(s)'
PROOF
<1>1. Shapes BY DEF GamesInv
<1>2. /\ bridges[g].at = "cloning"
      /\ recorders[g].active => bridges'[g].at = "observing" /\ bridges'[g].place = bridges[g].place
  BY <1>1, StepEffects
<1>3. UNCHANGED <<children, recorders, heard, flawed>> BY DEF Clone, records
<1>4. recorders[g].active => Late(g)' = Late(g) /\ Final(g)' = Final(g)
  BY <1>2, <1>3 DEF Late, Final, Reached, Pending
<1>5. SessionFollows(s)'
  <2>1. recorders'[g].active => recorders[g].active /\ recorders'[g].current = recorders[g].current
                                /\ Late(g)' \o Final(g)' = Late(g) \o Final(g)
    BY <1>3, <1>4
  <2>2. children'[g].at = "finishing" /\ children'[g].recording =>
          children[g].at = "finishing" /\ children[g].recording /\ children'[g].visit = children[g].visit
    BY <1>3
  <2>3. heard'[g] = heard[g] /\ (g \in flawed => g \in flawed') BY <1>3
  <2> QED BY <2>1, <2>2, <2>3, FollowsKept
<1> QED BY <1>5

\* What a game reports, and its receiver at its end, is heard and then ahead of
\* the recorder.
LEMMA ReceiverFollows ==
    ASSUME GamesInv, HistoryInv, NEW g \in Games, NEW place \in Somewhere,
           (Report(g, place) /\ place \in Places) \/ (CloseBridge(g) /\ place = Unknown),
           Drained(g), NEW s \in Session, s.game = g, SessionFollows(s), SessionKnown(s)
    PROVE  SessionFollows(s)'
PROOF
<1>1. Shapes /\ BridgeFollows(g) /\ RecorderTaken(g)
  BY DEF GamesInv, BridgesFollow, HistoryInv
<1>2. /\ bridges[g].at = "listening" /\ bridges'[g].at = "cloning" /\ bridges'[g].place = place
      /\ Hear(g, place) /\ UNCHANGED <<children, recorders, flawed>>
  <2>1. CASE Report(g, place) /\ place \in Places
    <3>1. Hear(g, place) /\ UNCHANGED <<children, recorders, flawed>> BY <2>1 DEF Report, records
    <3> QED BY <1>1, <2>1, <3>1, StepEffects
  <2>2. CASE CloseBridge(g) /\ place = Unknown
    <3>1. Hear(g, place) /\ UNCHANGED <<children, recorders, flawed>>
      BY <2>2 DEF CloseBridge, records
    <3> QED BY <1>1, <2>2, <3>1, StepEffects
  <2> QED BY <2>1, <2>2
<1>3. children[g].at = "playing" \/ (place = Unknown /\ (Readable => heard[g] # <<>> /\ Last(heard[g]) = Unknown))
  BY <1>1, <1>2 DEF BridgeFollows, Report
<1>4. ~Pending(g) /\ Late(g) = <<>> /\ Reached(g) = recorders[g].current
  BY <1>1, <1>2, AheadFacts DEF Pending
<1>5. /\ Late(g)' = IF recorders[g].current = place THEN <<>> ELSE <<place>>
      /\ Final(g)' = IF children[g].at = "observing" /\ place # Unknown THEN <<Unknown>> ELSE <<>>
  BY <1>2 DEF Late, Final, Reached, Pending
<1>6. CASE children[g].at # "playing"
  <2>1. place = Unknown /\ (Readable => heard[g] # <<>> /\ Last(heard[g]) = Unknown) BY <1>3, <1>6
  <2>2. heard'[g] = heard[g] BY <1>1, <1>2, <2>1 DEF Hear, Shapes
  <2>3. /\ Final(g) = IF children[g].at = "observing" /\ recorders[g].current # Unknown
                      THEN <<Unknown>> ELSE <<>>
        /\ Final(g)' = <<>>
    BY <1>4, <1>5, <2>1 DEF Final
  <2>4. recorders[g].active /\ g \notin flawed' => Late(g)' \o Final(g)' = Late(g) \o Final(g)
    <3> SUFFICES ASSUME recorders[g].active, g \notin flawed'
                 PROVE  Late(g)' \o Final(g)' = Late(g) \o Final(g)
      OBVIOUS
    <3>1. <<>> \in Seq(Somewhere) /\ <<Unknown>> \in Seq(Somewhere) BY EmptySeq DEF Somewhere
    <3>2. <<Unknown>> \o <<>> = <<>> \o <<Unknown>> BY <3>1, ConcatEmptySeq
    <3>3. CASE children[g].at = "observing" BY <1>4, <1>5, <2>1, <2>3, <3>2, <3>3
    <3>4. CASE children[g].at # "observing"
      <4>1. children[g].at = "draining"
        <5>1. children[g].at \in Recording BY <1>1 DEF RecorderTaken
        <5>2. children[g].at # "telling" BY <1>1, <1>2 DEF BridgeFollows, Following
        <5> QED BY <1>6, <3>4, <5>1, <5>2 DEF Recording
      <4>2. children[g].instance \in Bridged BY <1>1, <1>2 DEF BridgeFollows
      <4>3. recorders[g].current = Unknown BY <1>2, <4>1, <4>2 DEF Drained
      <4> QED BY <1>4, <1>5, <2>1, <2>3, <3>4, <4>3
    <3> QED BY <3>3, <3>4
  <2>5. SessionFollows(s)'
    <3>1. CASE g \in flawed' BY <3>1 DEF SessionFollows
    <3>2. CASE g \notin flawed'
      <4>1. recorders'[g].active => recorders[g].active /\ recorders'[g].current = recorders[g].current
                                    /\ Late(g)' \o Final(g)' = Late(g) \o Final(g)
        BY <1>2, <2>4, <3>2
      <4>2. children'[g].at = "finishing" /\ children'[g].recording =>
              children[g].at = "finishing" /\ children[g].recording
              /\ children'[g].visit = children[g].visit
        BY <1>2
      <4> QED BY <1>2, <2>2, <4>1, <4>2, FollowsKept
    <3> QED BY <3>1, <3>2
  <2> QED BY <2>5
<1>7. CASE children[g].at = "playing"
  <2>1. Final(g) = <<>> /\ Final(g)' = <<>> BY <1>5, <1>7 DEF Final
  <2>2. SessionFollows(s)'
    <3> SUFFICES ASSUME g \notin flawed'
                 PROVE  /\ s.outcome = None /\ recorders'[g].active =>
                             \E before \in Seq(Somewhere) : Divides(g, s.visits, before)'
                        /\ s.outcome \in {"normal", "abnormal"} => s.visits = Latest(heard'[g])
      BY <1>2, <1>7 DEF SessionFollows, Latest
    <3>1. ASSUME s.outcome = None, recorders'[g].active
          PROVE  \E before \in Seq(Somewhere) : Divides(g, s.visits, before)'
      <4>1. PICK before \in Seq(Somewhere) : Divides(g, s.visits, before)
        BY <1>2, <3>1 DEF SessionFollows
      <4>2. Readable BY <1>1, <1>2, <3>1 DEF RecorderTaken
      <4>3. heard'[g] = heard[g] \o (IF recorders[g].current = place THEN <<>> ELSE <<place>>)
        BY <1>1, <1>2, <1>4, <2>1, <4>1, <4>2, HeardFurther
      <4> DEFINE past == before \o Held(recorders[g].current)
      <4>4. past \in Seq(Somewhere) /\ <<>> \in Seq(Somewhere) /\ Late(g)' \in Seq(Somewhere)
        <5>1. recorders[g].current \in Somewhere \cup {None} BY <1>1, AheadFacts
        <5>2. <<place>> \in Seq(Somewhere) /\ <<>> \in Seq(Somewhere) BY EmptySeq
        <5> QED BY <1>5, <5>1, <5>2, HeldFacts, ConcatProperties
      <4>5. heard[g] = past
        <5>1. heard[g] = past \o (<<>> \o <<>>) BY <1>4, <2>1, <4>1 DEF Divides
        <5> HIDE DEF past
        <5> QED BY <4>4, <5>1, ConcatEmptySeq
      <4>6. heard'[g] = past \o (Late(g)' \o Final(g)')
        <5>1. Late(g)' \o Final(g)' = Late(g)' BY <2>1, <4>4, ConcatEmptySeq
        <5> HIDE DEF past
        <5> QED BY <1>5, <4>3, <4>5, <5>1
      <4>7. s.visits = Latest(before) /\ (recorders'[g].current = None => before = <<>>)
        BY <1>2, <4>1 DEF Divides
      <4>8. recorders'[g].current = recorders[g].current BY <1>2
      <4>9. Divides(g, s.visits, before)' BY <4>6, <4>7, <4>8 DEF Divides, Held, Latest
      <4> QED BY <4>9
    <3>2. s.outcome \in {"normal", "abnormal"} => FALSE
      <4>1. s.outcome = None BY <1>7 DEF SessionKnown
      <4> QED BY <4>1, NoneIsNothing
    <3> QED BY <3>1, <3>2
  <2> QED BY <2>2
<1> QED BY <1>6, <1>7

\* The end of a game is heard of once more, unless its receiver told it first.
LEMMA ExitFollows ==
    ASSUME GamesInv, HistoryInv, NEW g \in Games, NEW outcome \in Outcomes, Exit(g, outcome),
           NEW s \in Session, s.game = g, SessionFollows(s), SessionKnown(s)
    PROVE  SessionFollows(s)'
PROOF
<1>1. Shapes /\ BridgeFollows(g) /\ RecorderTaken(g)
  BY DEF GamesInv, BridgesFollow, HistoryInv
<1>2. /\ children[g].at = "playing"
      /\ bridges'[g].at = bridges[g].at /\ bridges'[g].place = bridges[g].place
      /\ children[g].instance \in Bridged => children'[g].at = "observing" /\ Hear(g, Unknown)
      /\ children[g].instance \notin Bridged =>
           children'[g].at = "draining" /\ UNCHANGED <<bridges, heard>>
  BY <1>1, StepEffects
<1>3. UNCHANGED <<recorders, flawed>> BY DEF Exit, records
<1>5. /\ Final(g) = <<>> /\ Late(g)' = Late(g) /\ Reached(g)' = Reached(g)
      /\ Late(g) \in Seq(Somewhere)
  BY <1>1, <1>2, <1>3, AheadFacts DEF Final, Late, Reached, Pending
<1>6. CASE children[g].instance \notin Bridged
  <2>1. Final(g)' = <<>> BY <1>2, <1>6 DEF Final
  <2>2. SessionFollows(s)'
    <3>1. recorders'[g].active => recorders[g].active /\ recorders'[g].current = recorders[g].current
                                  /\ Late(g)' \o Final(g)' = Late(g) \o Final(g)
      BY <1>3, <1>5, <2>1
    <3>2. children'[g].at # "finishing" /\ heard'[g] = heard[g] /\ (g \in flawed => g \in flawed')
      BY <1>2, <1>3, <1>6
    <3> QED BY <3>1, <3>2, FollowsKept
  <2> QED BY <2>2
<1>7. CASE children[g].instance \in Bridged
  <2>1. children'[g].at = "observing" /\ Hear(g, Unknown) BY <1>2, <1>7
  <2>2. Final(g)' = IF Reached(g) # Unknown THEN <<Unknown>> ELSE <<>> BY <1>5, <2>1 DEF Final
  <2>3. s.outcome = None BY <1>2 DEF SessionKnown
  <2>4. SessionFollows(s)'
    <3> SUFFICES ASSUME g \notin flawed', recorders'[g].active
                 PROVE  \E before \in Seq(Somewhere) : Divides(g, s.visits, before)'
      BY <2>1, <2>3, NoneIsNothing DEF SessionFollows
    <3>1. PICK before \in Seq(Somewhere) : Divides(g, s.visits, before)
      BY <1>3, <2>3 DEF SessionFollows
    <3> DEFINE past == before \o Held(recorders[g].current)
    <3>2. past \in Seq(Somewhere) BY <1>1, AheadFacts, HeldFacts, ConcatProperties
    <3>3. heard'[g] = heard[g] \o Final(g)'
      <4>1. Unknown \in Somewhere /\ Readable BY <1>1, <1>3 DEF Somewhere, RecorderTaken
      <4>2. heard'[g] = heard[g] \o (IF Reached(g) = Unknown THEN <<>> ELSE <<Unknown>>)
        BY <1>1, <1>5, <2>1, <3>1, <4>1, HeardFurther
      <4> QED BY <2>2, <4>2
    <3>4. heard[g] = past \o (Late(g) \o <<>>) BY <1>5, <3>1 DEF Divides
    <3>5. Final(g)' \in Seq(Somewhere) /\ <<>> \in Seq(Somewhere)
      <4>1. <<Unknown>> \in Seq(Somewhere) /\ <<>> \in Seq(Somewhere) BY EmptySeq DEF Somewhere
      <4> QED BY <2>2, <4>1
    <3>6. heard'[g] = past \o (Late(g)' \o Final(g)')
      <4> HIDE DEF past
      <4>1. heard[g] = past \o Late(g) BY <1>5, <3>4, ConcatEmptySeq
      <4>2. (past \o Late(g)) \o Final(g)' = past \o (Late(g) \o Final(g)')
        BY <1>5, <3>2, <3>5, ConcatAssociative
      <4> QED BY <1>5, <3>3, <4>1, <4>2
    <3>7. s.visits = Latest(before) /\ (recorders'[g].current = None => before = <<>>)
      BY <1>3, <3>1 DEF Divides
    <3>8. recorders'[g].current = recorders[g].current BY <1>3
    <3>9. Divides(g, s.visits, before)' BY <3>6, <3>7, <3>8 DEF Divides, Held, Latest
    <3> QED BY <3>9
  <2> QED BY <2>4
<1> QED BY <1>6, <1>7

\* Once its output is drained, nothing of a game is ahead of its recorder.
LEMMA EndedFollows ==
    ASSUME GamesInv, HistoryInv, NEW g \in Games, Ended(g), Drained(g),
           NEW s \in Session, s.game = g, SessionFollows(s), SessionKnown(s)
    PROVE  SessionFollows(s)'
PROOF
<1>1. Shapes /\ BridgeFollows(g) /\ RecorderTaken(g)
  BY DEF GamesInv, BridgesFollow, HistoryInv
<1>2. /\ children[g].at = "draining" /\ children'[g].at = "finishing"
      /\ children'[g].recording = recorders[g].active
      /\ children'[g].visit = recorders[g].current
      /\ ~recorders'[g].active
  BY <1>1, StepEffects
<1>3. UNCHANGED <<heard, flawed>> BY DEF Ended
<1>4. s.outcome = None BY <1>2 DEF SessionKnown
<1>5. SessionFollows(s)'
  <2> SUFFICES ASSUME g \notin flawed, recorders[g].active
               PROVE  \E before \in Seq(Somewhere) :
                          heard'[g] = before \o Held(recorders[g].current) /\ s.visits = Latest(before)
    BY <1>2, <1>3, <1>4, NoneIsNothing DEF SessionFollows, Held, Latest
  <2>1. PICK before \in Seq(Somewhere) : Divides(g, s.visits, before) BY <1>4 DEF SessionFollows
  <2> DEFINE past == before \o Held(recorders[g].current)
  <2>2. past \in Seq(Somewhere) /\ <<>> \in Seq(Somewhere)
    BY <1>1, AheadFacts, HeldFacts, ConcatProperties, EmptySeq
  <2>3. Late(g) = <<>> /\ Final(g) = <<>>
    <3>1. Pending(g) => recorders[g].current = Unknown /\ bridges[g].place = Unknown
      <4>1. Pending(g) => children[g].instance \in Bridged BY <1>1 DEF Pending, BridgeFollows
      <4> QED BY <1>2, <4>1 DEF Drained
    <3> QED BY <1>2, <3>1 DEF Late, Final
  <2>4. heard[g] = past \o (<<>> \o <<>>) BY <2>1, <2>3 DEF Divides
  <2>5. heard[g] = past
    <3> HIDE DEF past
    <3> QED BY <2>2, <2>4, ConcatEmptySeq
  <2>6. s.visits = Latest(before) BY <2>1 DEF Divides
  <2> QED BY <1>3, <2>5, <2>6
<1> QED BY <1>5

\* What was ahead of a recorder and is observed is the place it is in, and the
\* place it was in is a visit.
LEMMA TakenFollows ==
    ASSUME Shapes, Shapes', NEW g \in Games, NEW place \in Somewhere, recorders[g].current # place,
           recorders'[g].active = recorders[g].active, recorders'[g].current = place,
           NEW s \in Session, s.game = g, SessionFollows(s), SessionKnown(s),
           NEW t \in Session, t.game = g, t.outcome = s.outcome,
           t.visits = Visited(s, recorders[g].current).visits,
           UNCHANGED heard, g \in flawed => g \in flawed', BridgeFollows(g)',
           children'[g].at \in {"finishing", "done"} =>
               recorders[g].current = None /\ children'[g] = children[g],
           g \notin flawed' /\ recorders[g].active =>
               Late(g) \o Final(g) = <<place>> \o (Late(g)' \o Final(g)'),
           children[g].at = "done" => children'[g].at = "done"
    PROVE  SessionFollows(t)'
PROOF
<1> DEFINE current == recorders[g].current
<1>1. current \in Somewhere \cup {None} BY AheadFacts
<1>2. current = None => t.visits = s.visits BY DEF Visited
<1>3. s.outcome # None => children'[g].at = "done" BY DEF SessionKnown
<1> SUFFICES ASSUME g \notin flawed'
             PROVE  /\ t.outcome = None /\ recorders'[g].active =>
                         \E before \in Seq(Somewhere) : Divides(g, t.visits, before)'
                    /\ t.outcome = None /\ children'[g].at = "finishing" /\ children'[g].recording =>
                         \E before \in Seq(Somewhere) :
                             heard'[g] = before \o Held(children'[g].visit) /\ t.visits = Latest(before)
                    /\ t.outcome \in {"normal", "abnormal"} => t.visits = Latest(heard'[g])
  BY DEF SessionFollows, Held, Latest
<1>4. ASSUME t.outcome = None, recorders'[g].active
      PROVE  \E before \in Seq(Somewhere) : Divides(g, t.visits, before)'
  <2>1. PICK before \in Seq(Somewhere) : Divides(g, s.visits, before) BY <1>4 DEF SessionFollows
  <2> DEFINE past == before \o Held(current)
             ahead == Late(g)' \o Final(g)'
  <2>2. past \in Seq(Somewhere) /\ t.visits = Latest(past)
    <3>1. s.visits = Latest(before) BY <2>1 DEF Divides
    <3> QED BY <1>1, <3>1, VisitedLatest
  <2>3. ahead \in Seq(Somewhere) /\ <<place>> \in Seq(Somewhere)
    <3>1. Late(g)' \in Seq(Somewhere) /\ Final(g)' \in Seq(Somewhere)
      <4>1. <<>> \in Seq(Somewhere) /\ <<Unknown>> \in Seq(Somewhere) BY EmptySeq DEF Somewhere
      <4>2. Final(g)' \in Seq(Somewhere) BY <4>1 DEF Final
      <4>3. Late(g)' \in Seq(Somewhere)
        <5>1. bridges'[g].place \in Somewhere \cup {None} BY DEF Shapes, Bridge
        <5>2. Pending(g)' => bridges'[g].place # None BY DEF Pending, BridgeFollows
        <5>3. Pending(g)' => <<bridges'[g].place>> \in Seq(Somewhere) BY <5>1, <5>2
        <5> QED BY <4>1, <5>3 DEF Late
      <4> QED BY <4>2, <4>3
    <3> QED BY <3>1, ConcatProperties
  <2>4. heard[g] = past \o (<<place>> \o ahead) BY <1>4, <2>1 DEF Divides
  <2>5. heard'[g] = (past \o <<place>>) \o ahead
    <3>1. (past \o <<place>>) \o ahead = past \o (<<place>> \o ahead)
      <4> HIDE DEF past, ahead
      <4> QED BY <2>2, <2>3, ConcatAssociative
    <3> QED BY <2>4, <3>1
  <2>6. place # None BY NoneIsNothing DEF Somewhere
  <2>7. PICK after \in Seq(Somewhere) : after = past BY <2>2
  <2> HIDE DEF past
  <2>8. /\ heard'[g] = (after \o <<place>>) \o (Late(g)' \o Final(g)')
        /\ t.visits = Latest(after)
    BY <2>2, <2>5, <2>7
  <2>9. Divides(g, t.visits, after)' BY <2>6, <2>8 DEF Divides, Held, Latest
  <2> QED BY <2>9
<1>5. ASSUME t.outcome = None, children'[g].at = "finishing", children'[g].recording
      PROVE  \E before \in Seq(Somewhere) :
                 heard'[g] = before \o Held(children'[g].visit) /\ t.visits = Latest(before)
  BY <1>2, <1>5 DEF SessionFollows
<1>6. ASSUME t.outcome \in {"normal", "abnormal"} PROVE t.visits = Latest(heard'[g])
  <2>1. children'[g].at = "done" BY <1>3, <1>6, NoneIsNothing
  <2> QED BY <1>2, <1>6, <2>1 DEF SessionFollows
<1> QED BY <1>4, <1>5, <1>6

\* The receiver hands over what it holds.
LEMMA ObservedFollows ==
    ASSUME GamesInv, GamesInv', HistoryInv, NEW g \in Games, Observed(g),
           NEW s \in Session, s.game = g, SessionFollows(s), SessionKnown(s),
           NEW t \in Session, t.game = g, t.outcome = s.outcome,
           t.visits = IF Observe(g, bridges[g].place) /\ recorders[g].current # bridges[g].place
                      THEN Visited(s, recorders[g].current).visits ELSE s.visits
    PROVE  SessionFollows(t)'
PROOF
<1> DEFINE place == bridges[g].place
<1>1. Shapes /\ BridgeFollows(g) /\ RecorderTaken(g) /\ Shapes' /\ BridgeFollows(g)'
  BY DEF GamesInv, BridgesFollow, HistoryInv
<1>2. bridges[g].at = "observing" /\ bridges'[g].at \in {"listening", "closed"} BY <1>1, StepEffects
<1>3. UNCHANGED <<children, heard>> BY DEF Observed
<1>4. Pending(g) /\ place \in Somewhere /\ ~Pending(g)'
  <2>1. Pending(g) /\ ~Pending(g)' BY <1>2 DEF Pending
  <2> QED BY <1>1, <2>1, AheadFacts
<1>5. children[g].at \in {"finishing", "done"} => recorders[g].current = None
  BY <1>1, <1>2 DEF RecorderTaken
<1>6. recorders'[g].active = recorders[g].active /\ Late(g)' = <<>>
  <2>1. Observe(g, place) \/ ObserveFails(g, place) BY DEF Observed
  <2>2. recorders'[g].active = recorders[g].active BY <1>1, <2>1, ObservingKeeps
  <2> QED BY <1>4, <2>2 DEF Late
<1>7. CASE Observe(g, place) /\ UNCHANGED flawed
  <2>1. recorders'[g].current = place
    <3>1. recorders \in [Games -> Recorder] BY <1>1 DEF Shapes
    <3>2. recorders[g] \in Recorder BY <3>1
    <3>3. CASE recorders[g].current = place BY <1>7, <3>3 DEF Observe
    <3>4. CASE recorders[g].current # place
      <4>1. recorders' = [recorders EXCEPT ![g].current = place] BY <1>7, <3>4 DEF Observe
      <4> QED BY <3>1, <3>2, <4>1 DEF Recorder
    <3> QED BY <3>3, <3>4
  <2>2. Final(g)' = Final(g) BY <1>3, <1>4, <2>1 DEF Final, Reached
  <2>3. Final(g) \in Seq(Somewhere) /\ <<>> \in Seq(Somewhere) BY <1>1, AheadFacts, EmptySeq
  <2>4. <<>> \o Final(g) = Final(g) BY <2>3, ConcatEmptySeq
  <2>5. SessionFollows(t)'
    <3>1. CASE recorders[g].current = place
      <4>1. Late(g) = <<>> BY <3>1 DEF Late
      <4>2. t.visits = s.visits BY <3>1
      <4>3. recorders'[g].active => recorders[g].active /\ recorders'[g].current = recorders[g].current
                                    /\ Late(g)' \o Final(g)' = Late(g) \o Final(g)
        BY <1>6, <2>1, <2>2, <3>1, <4>1
      <4>4. children'[g].at = "finishing" /\ children'[g].recording =>
              children[g].at = "finishing" /\ children[g].recording /\ children'[g].visit = children[g].visit
        BY <1>3
      <4> QED BY <1>3, <1>7, <4>2, <4>3, <4>4, FollowsKept
    <3>2. CASE recorders[g].current # place
      <4>1. Late(g) = <<place>> BY <1>4, <3>2 DEF Late
      <4>2. Late(g) \o Final(g) = <<place>> \o (Late(g)' \o Final(g)') BY <1>6, <2>2, <2>4, <4>1
      <4>3. t.visits = Visited(s, recorders[g].current).visits BY <1>7, <3>2
      <4> HIDE DEF place
      <4> QED BY <1>1, <1>3, <1>4, <1>5, <1>6, <1>7, <2>1, <3>2, <4>2, <4>3, TakenFollows
    <3> QED BY <3>1, <3>2
  <2> QED BY <2>5
<1>8. CASE g \in flawed' BY <1>8 DEF SessionFollows
<1> QED BY <1>7, <1>8 DEF Observed, Spoil, Fine

\* The supervisor tells that the game is nowhere any more.
LEMMA ExitObservedFollows ==
    ASSUME GamesInv, GamesInv', HistoryInv, NEW g \in Games, ExitObserved(g),
           NEW s \in Session, s.game = g, SessionFollows(s), SessionKnown(s),
           NEW t \in Session, t.game = g, t.outcome = s.outcome,
           t.visits = IF recorders[g].active /\ Observe(g, Unknown) /\ recorders[g].current # Unknown
                      THEN Visited(s, recorders[g].current).visits ELSE s.visits
    PROVE  SessionFollows(t)'
PROOF
<1>1. Shapes /\ BridgeFollows(g) /\ RecorderTaken(g) /\ Shapes' /\ BridgeFollows(g)'
  BY DEF GamesInv, BridgesFollow, HistoryInv
<1>2. children[g].at = "observing" /\ children'[g].at = "draining" BY <1>1, StepEffects
<1>3. UNCHANGED <<bridges, heard>> /\ Unknown \in Somewhere BY DEF ExitObserved, Somewhere
<1>4. g \in flawed => g \in flawed' BY DEF ExitObserved, Spoil
<1>5. s.outcome = None BY <1>2 DEF SessionKnown
<1>6. CASE g \in flawed' BY <1>6 DEF SessionFollows
<1>7. CASE g \notin flawed' /\ ~recorders[g].active
  <2>1. recorders' = recorders /\ t.visits = s.visits BY <1>7 DEF ExitObserved
  <2>2. ~recorders'[g].active BY <1>7, <2>1
  <2> QED BY <1>2, <1>5, <2>2, NoneIsNothing DEF SessionFollows
<1>8. CASE g \notin flawed' /\ recorders[g].active
  <2>1. Observe(g, Unknown) /\ ~LateReport(g) BY <1>8 DEF ExitObserved, Spoil
  <2>2. recorders'[g].active = recorders[g].active BY <1>1, <2>1, ObservingKeeps
  <2>3. recorders'[g].current = Unknown
    <3>1. recorders \in [Games -> Recorder] BY <1>1 DEF Shapes
    <3>2. recorders[g] \in Recorder BY <3>1
    <3>3. CASE recorders[g].current = Unknown BY <2>1, <3>3 DEF Observe
    <3>4. CASE recorders[g].current # Unknown
      <4>1. recorders' = [recorders EXCEPT ![g].current = Unknown] BY <2>1, <3>4 DEF Observe
      <4> QED BY <3>1, <3>2, <4>1 DEF Recorder
    <3> QED BY <3>3, <3>4
  <2>4. Pending(g) => bridges[g].place = Unknown BY <2>1 DEF Pending, LateReport
  <2>5. Late(g)' = <<>> /\ Final(g)' = <<>> BY <1>2, <1>3, <2>3, <2>4 DEF Late, Final, Pending
  <2>6. <<>> \in Seq(Somewhere) /\ <<Unknown>> \in Seq(Somewhere) BY <1>3, EmptySeq
  <2>7. SessionFollows(t)'
    <3>1. CASE recorders[g].current = Unknown
      <4>1. Late(g) = <<>> /\ Final(g) = <<>> BY <2>4, <3>1 DEF Late, Final, Reached
      <4>2. t.visits = s.visits BY <3>1
      <4>3. recorders'[g].active => recorders[g].active /\ recorders'[g].current = recorders[g].current
                                    /\ Late(g)' \o Final(g)' = Late(g) \o Final(g)
        BY <2>2, <2>3, <2>5, <3>1, <4>1
      <4>4. children'[g].at # "finishing" BY <1>2
      <4> QED BY <1>3, <1>4, <4>2, <4>3, <4>4, FollowsKept
    <3>2. CASE recorders[g].current # Unknown
      <4>1. Late(g) \o Final(g) = <<Unknown>> \o (Late(g)' \o Final(g)')
        <5>1. <<Unknown>> \o <<>> = <<Unknown>> /\ <<>> \o <<Unknown>> = <<Unknown>>
              /\ <<>> \o <<>> = <<>>
          BY <2>6, ConcatEmptySeq
        <5>2. CASE Pending(g)
          <6>1. Late(g) = <<Unknown>> /\ Final(g) = <<>> BY <2>4, <3>2, <5>2 DEF Late, Final, Reached
          <6> QED BY <2>5, <5>1, <6>1
        <5>3. CASE ~Pending(g)
          <6>1. Late(g) = <<>> /\ Final(g) = <<Unknown>>
            BY <1>2, <3>2, <5>3 DEF Late, Final, Reached
          <6> QED BY <2>5, <5>1, <6>1
        <5> QED BY <5>2, <5>3
      <4>2. t.visits = Visited(s, recorders[g].current).visits BY <1>8, <2>1, <3>2
      <4>3. children'[g].at \notin {"finishing", "done"} /\ children[g].at # "done" BY <1>2
      <4> QED BY <1>1, <1>3, <1>4, <2>2, <2>3, <3>2, <4>1, <4>2, <4>3, TakenFollows
    <3> QED BY <3>1, <3>2
  <2> QED BY <2>7
<1> QED BY <1>6, <1>7, <1>8

\* A session is closed with the places its game went through.
LEMMA FinishedFollows ==
    ASSUME GamesInv, HistoryInv, NEW g \in Games, Finished(g),
           NEW s \in Session, s.game = g, SessionFollows(s),
           NEW t \in Session, t.game = g,
           \/ t.outcome = s.outcome /\ t.visits = s.visits
              /\ (s.outcome # None \/ ~children[g].recording \/ g \in flawed')
           \/ s.outcome = None /\ children[g].recording
              /\ t.visits = Visited(s, children[g].visit).visits
    PROVE  SessionFollows(t)'
PROOF
<1>1. Shapes /\ RecorderTaken(g) BY DEF GamesInv, HistoryInv
<1>2. children[g].at = "finishing" /\ children'[g].at = "done" BY <1>1, StepEffects
<1>3. UNCHANGED <<heard, recorders>> /\ (g \in flawed => g \in flawed') BY DEF Finished, Spoil, Fine
<1>4. ~recorders'[g].active BY <1>1, <1>2, <1>3 DEF RecorderTaken, Recording
<1>5. SessionFollows(t)'
  <2> SUFFICES ASSUME g \notin flawed', t.outcome \in {"normal", "abnormal"}
               PROVE  t.visits = Latest(heard'[g])
    BY <1>2, <1>4 DEF SessionFollows, Latest
  <2>1. g \notin flawed BY <1>3
  <2>2. CASE s.outcome = None /\ children[g].recording /\ t.visits = Visited(s, children[g].visit).visits
    <3>1. PICK before \in Seq(Somewhere) :
            heard[g] = before \o Held(children[g].visit) /\ s.visits = Latest(before)
      BY <1>2, <2>1, <2>2 DEF SessionFollows
    <3>2. children[g].visit \in Somewhere \cup {None} BY <1>1 DEF Shapes, Child
    <3>3. Visited(s, children[g].visit).visits = Latest(heard[g]) BY <3>1, <3>2, VisitedLatest
    <3> QED BY <1>3, <2>2, <3>3
  <2>3. CASE t.outcome = s.outcome /\ t.visits = s.visits
    <3>1. s.visits = Latest(heard[g]) BY <2>1, <2>3 DEF SessionFollows
    <3> QED BY <1>3, <2>3, <3>1
  <2> QED BY <2>2, <2>3
<1> QED BY <1>5

\* The session of a game that begins has nothing to record yet.
LEMMA FreshFollows ==
    ASSUME GamesInv, HistoryInv, NEW g \in Games, Record(g), NEW t, t = Fresh(g)
    PROVE  SessionFollows(t)'
PROOF
<1>1. Shapes /\ BridgeFollows(g) /\ RecorderTaken(g)
  BY DEF GamesInv, BridgesFollow, HistoryInv
<1>2. /\ children[g].at = "spawned" /\ children'[g].at = "telling"
      /\ recorders'[g].current = recorders[g].current
  BY <1>1, StepEffects
<1>3. UNCHANGED <<heard, bridges>> BY DEF Record
<1>4. heard'[g] = <<>> /\ bridges'[g].at = "none" /\ recorders'[g].current = None
  BY <1>1, <1>2, <1>3 DEF BridgeFollows, RecorderTaken, Unrecorded, Following
<1>5. t.game = g /\ t.visits = <<>> /\ t.outcome = None BY DEF Fresh
<1>6. Late(g)' = <<>> /\ Final(g)' = <<>> BY <1>2, <1>4 DEF Late, Final, Pending
<1>7. Divides(g, t.visits, <<>>)'
  <2>1. <<>> \in Seq(Somewhere) BY EmptySeq
  <2>2. (<<>> \o Held(None)) \o (<<>> \o <<>>) = <<>> BY <2>1, ConcatEmptySeq DEF Held
  <2>3. Latest(<<>>) = <<>>
    <3>1. /\ Latest(<<>>) \in Seq(Somewhere)
          /\ Len(Latest(<<>>)) = IF Len(<<>>) > MaxVisits THEN MaxVisits ELSE Len(<<>>)
      BY <2>1, LatestFacts
    <3>2. Len(<<>>) = 0 /\ MaxVisits \in Nat BY EmptySeq, SessionBounds
    <3>3. Len(Latest(<<>>)) = 0 BY <3>1, <3>2
    <3> QED BY <3>1, <3>3, EmptySeq
  <2>4. heard'[g] = (<<>> \o Held(recorders'[g].current)) \o (Late(g)' \o Final(g)')
    BY <1>4, <1>6, <2>2
  <2>5. t.visits = Latest(<<>>) BY <1>5, <2>3
  <2> QED BY <1>4, <2>4, <2>5 DEF Divides, Held, Latest
<1>8. <<>> \in Seq(Somewhere) BY EmptySeq
<1>9. t.outcome \notin {"normal", "abnormal"} BY <1>5, NoneIsNothing
<1>10. \E before \in Seq(Somewhere) : Divides(g, t.visits, before)' BY <1>7, <1>8
<1> QED BY <1>2, <1>5, <1>9, <1>10 DEF SessionFollows

\* A session a step has nothing to do with.
LEMMA ElseFollows ==
    ASSUME NEW g \in Games, children'[g] = children[g], bridges'[g] = bridges[g],
           recorders'[g] = recorders[g], heard'[g] = heard[g], flawed \subseteq flawed'
    PROVE  /\ \A s, t : /\ s.game = g /\ t.game = g /\ SessionFollows(s) /\ t.visits = s.visits
                        /\ t.outcome = s.outcome \/ t.outcome = "interrupted"
                        => SessionFollows(t)'
           /\ Drained(g) => Drained(g)'
PROOF
<1>1. Late(g)' = Late(g) /\ Final(g)' = Final(g) BY DEF Late, Final, Reached, Pending
<1>2. ASSUME NEW s, NEW t, s.game = g, t.game = g, SessionFollows(s), t.visits = s.visits,
             t.outcome = s.outcome \/ t.outcome = "interrupted"
      PROVE  SessionFollows(t)'
  BY <1>1, <1>2, FollowsKept
<1>3. Drained(g) => Drained(g)' BY DEF Drained, Pending
<1> QED BY <1>2, <1>3

LEMMA SessionsFollow ==
    ASSUME \A m \in DOMAIN history' : \E t : t = history'[m] /\ SessionFollows(t)',
           \A g \in Games : Drained(g)'
    PROVE  VisitsInv'
PROOF
<1>1. ASSUME NEW m \in DOMAIN history' PROVE SessionFollows(history[m])'
  <2>1. PICK t : t = history'[m] /\ SessionFollows(t)' OBVIOUS
  <2> QED BY <2>1 DEF SessionFollows, Divides, Held, Latest, Late, Final, Reached, Pending
<1> QED BY <1>1 DEF VisitsInv

LEMMA DrainedStep ==
    ASSUME GamesInv, HistoryInv, NEW g \in Games, Step(g), Drained(g)
    PROVE  Drained(g)'
PROOF
<1>1. Shapes /\ BridgeFollows(g) /\ RecorderTaken(g)
  BY DEF GamesInv, BridgesFollow, HistoryInv
<1>2. children'[g].instance = children[g].instance BY StepShapes DEF GamesInv
<1>3. children'[g].at # "draining" => Drained(g)' BY DEF Drained
<1>4. CASE ExitObserved(g)
  <2>1. children[g].at = "observing" /\ UNCHANGED bridges BY <1>4 DEF ExitObserved
  <2> SUFFICES ASSUME g \notin flawed', recorders'[g].active
               PROVE  recorders'[g].current = Unknown /\ (Pending(g)' => bridges'[g].place = Unknown)
    BY DEF Drained
  <2>2. recorders[g].active
    <3>1. Observe(g, Unknown) \/ ObserveFails(g, Unknown) \/ recorders' = recorders
      BY <1>4 DEF ExitObserved
    <3> QED BY <1>1, <3>1, ObservingKeeps
  <2>3. Observe(g, Unknown) /\ ~LateReport(g) BY <1>4, <2>2 DEF ExitObserved, Spoil
  <2>4. recorders'[g].current = Unknown BY <1>1, <2>3 DEF Observe, Shapes, Recorder
  <2> QED BY <2>1, <2>3, <2>4 DEF Pending, LateReport
<1>5. CASE \E outcome \in Outcomes : Exit(g, outcome)
  <2>1. PICK outcome \in Outcomes : Exit(g, outcome) BY <1>5
  <2>2. children[g].instance \in Bridged => children'[g].at = "observing" BY <1>1, <2>1, StepEffects
  <2> QED BY <1>2, <2>2 DEF Drained
<1>6. CASE \E place \in Places : Report(g, place)
  <2>1. PICK place \in Places : Report(g, place) BY <1>6
  <2>2. bridges[g].valid /\ bridges[g].at # "none" BY <1>1, <2>1, StepEffects
  <2>3. children[g].at = "playing" BY <1>1, <2>2 DEF BridgeFollows
  <2>4. children' = children BY <2>1 DEF Report
  <2> QED BY <1>3, <2>3, <2>4
<1>7. CASE CloseBridge(g)
  <2>1. bridges'[g].place = Unknown BY <1>1, <1>7, StepEffects
  <2>2. UNCHANGED <<children, recorders, flawed>> BY <1>7 DEF CloseBridge, records
  <2> QED BY <2>1, <2>2 DEF Drained
<1>8. CASE Clone(g)
  <2>1. /\ bridges[g].at = "cloning"
        /\ recorders[g].active => bridges'[g].place = bridges[g].place
    BY <1>1, <1>8, StepEffects
  <2>2. UNCHANGED <<children, recorders, flawed>> BY <1>8 DEF Clone, records
  <2> QED BY <2>1, <2>2 DEF Drained, Pending
<1>9. CASE Observed(g)
  <2>1. /\ bridges[g].at = "observing"
        /\ Observe(g, bridges[g].place) \/ (ObserveFails(g, bridges[g].place) /\ g \in flawed')
    BY <1>9 DEF Observed, Spoil
  <2>2. children' = children /\ flawed \subseteq flawed' BY <1>9 DEF Observed, Spoil, Fine
  <2>3. bridges'[g].at \in {"listening", "closed"} BY <1>1, <1>9, StepEffects
  <2> SUFFICES ASSUME g \notin flawed', recorders'[g].active, children'[g].at = "draining",
                      children'[g].instance \in Bridged
               PROVE  recorders'[g].current = Unknown /\ (Pending(g)' => bridges'[g].place = Unknown)
    BY DEF Drained
  <2>4. Observe(g, bridges[g].place) BY <2>1
  <2>5. recorders[g].active BY <1>1, <2>4, ObservingKeeps
  <2>6. recorders[g].current = Unknown /\ bridges[g].place = Unknown
    BY <2>1, <2>2, <2>5 DEF Drained, Pending
  <2>7. recorders' = recorders BY <2>4, <2>6 DEF Observe
  <2> QED BY <2>3, <2>6, <2>7 DEF Pending
<1>10. CASE \/ TellStarting(g) \/ Launch(g) \/ LaunchFails(g) \/ Record(g) \/ RecordFails(g)
            \/ TellRunning(g) \/ Ended(g) \/ Finished(g)
  <2>1. children'[g].at # "draining" BY <1>1, <1>10, StepEffects
  <2> QED BY <1>3, <2>1
<1> QED BY <1>4, <1>5, <1>6, <1>7, <1>8, <1>9, <1>10 DEF Step

LEMMA VisitsStep ==
    ASSUME GamesInv, HistoryInv, VisitsInv, NEW g \in Games, Step(g)
    PROVE  VisitsInv'
PROOF
<1>1. Shapes /\ BridgeFollows(g) /\ BridgesFollow /\ RecorderTaken(g)
  BY DEF GamesInv, BridgesFollow, HistoryInv
<1>2. /\ \A h \in Games \ {g} : /\ children'[h] = children[h] /\ bridges'[h] = bridges[h]
                                /\ recorders'[h] = recorders[h] /\ heard'[h] = heard[h]
      /\ GamesInv'
  <2>1. Next BY DEF Next
  <2> QED BY <1>1, <2>1, StepShapes, GamesInvNext
<1>3. flawed \subseteq flawed'
  BY DEF Step, TellStarting, Launch, LaunchFails, Record, RecordFails, TellRunning, Exit,
         ExitObserved, Ended, Finished, Report, CloseBridge, Clone, Observed, Spoil, Fine, records
<1>4. /\ \A n \in DOMAIN history : /\ history[n] \in Session /\ history[n].game \in Games
                                   /\ SessionFollows(history[n]) /\ SessionKnown(history[n])
      /\ Drained(g)
  <2>1. history \in Seq(Session) BY DEF HistoryInv, DocumentShapes
  <2>2. \A n \in DOMAIN history : history[n] \in Session BY <2>1
  <2>3. \A n \in DOMAIN history : history[n].game \in Games BY <2>2 DEF Session
  <2> QED BY <2>2, <2>3 DEF VisitsInv, HistoryInv
<1>5. children[g].at \in Unrecorded => \A n \in DOMAIN history : history[n].game # g
  BY <1>4 DEF HistoryInv, SessionKnown
<1>6. ASSUME NEW n \in DOMAIN history, history[n].game # g, NEW t, t.game = history[n].game,
             t.visits = history[n].visits, t.outcome = history[n].outcome \/ t.outcome = "interrupted"
      PROVE  SessionFollows(t)'
  <2>1. PICK s \in Session : s = history[n] BY <1>4
  <2>2. PICK h \in Games \ {g} : h = history[n].game BY <1>4, <1>6
  <2>3. s.game = h /\ SessionFollows(s) BY <1>4, <2>1, <2>2
  <2> QED BY <1>2, <1>3, <1>6, <2>1, <2>2, <2>3, ElseFollows
<1>7. \A h \in Games : Drained(h)'
  <2>1. Drained(g)' BY <1>4, DrainedStep
  <2>2. ASSUME NEW h \in Games \ {g} PROVE Drained(h)'
    <3>1. Drained(h) BY DEF VisitsInv
    <3> QED BY <1>2, <1>3, <3>1, ElseFollows
  <2> QED BY <2>1, <2>2
<1>8. SUFFICES \A m \in DOMAIN history' : \E t : t = history'[m] /\ SessionFollows(t)'
  BY <1>7, SessionsFollow
<1>9. ASSUME UNCHANGED history,
             \A s \in Session : s.game = g /\ SessionFollows(s) /\ SessionKnown(s) => SessionFollows(s)'
      PROVE  \A m \in DOMAIN history' : \E t : t = history'[m] /\ SessionFollows(t)'
  <2> SUFFICES ASSUME NEW m \in DOMAIN history, NEW t, t = history[m] PROVE SessionFollows(t)'
    BY <1>9
  <2>1. CASE history[m].game = g
    <3>1. t \in Session /\ t.game = g /\ SessionFollows(t) /\ SessionKnown(t) BY <1>4, <2>1
    <3> QED BY <1>9, <3>1
  <2>2. CASE history[m].game # g BY <1>6, <2>2
  <2> QED BY <2>1, <2>2
<1>10. ASSUME children[g].at \in Unrecorded,
              \A m \in DOMAIN history' : \A t : t = history'[m] =>
                  \/ \E n \in DOMAIN history :
                        t.game = history[n].game /\ t.visits = history[n].visits
                        /\ (t.outcome = history[n].outcome \/ t.outcome = "interrupted")
                  \/ SessionFollows(t)'
       PROVE  \A m \in DOMAIN history' : \E t : t = history'[m] /\ SessionFollows(t)'
  BY <1>5, <1>6, <1>10
<1>11. ASSUME NEW n \in DOMAIN history
       PROVE  /\ Opened[n].game = history[n].game /\ Opened[n].visits = history[n].visits
              /\ Opened[n].outcome = history[n].outcome \/ Opened[n].outcome = "interrupted"
  BY OpenedFacts
<1>12. CASE TellStarting(g) \/ Launch(g) \/ LaunchFails(g)
  <2>1. children[g].at \in Unrecorded /\ history' = history
    BY <1>12 DEF TellStarting, Launch, LaunchFails, Unrecorded, records
  <2> QED BY <1>10, <2>1
<1>13. CASE Record(g)
  <2>1. Onward /\ \A h \in Games : RecorderTaken(h)' BY <1>1, StepOnward, StepRecorders
  <2>2. \A m \in DOMAIN history' :
           (\E n \in DOMAIN history : history'[m] = Opened[n]) \/ history'[m] = Fresh(g)
    BY <1>13, <2>1, HistoryRecorded
  <2>3. children[g].at \in Unrecorded BY <1>13 DEF Record, Unrecorded
  <2>4. \A t : t = Fresh(g) => SessionFollows(t)' BY <1>13, FreshFollows
  <2> QED BY <1>10, <1>11, <2>2, <2>3, <2>4
<1>14. CASE RecordFails(g)
  <2>1. children[g].at \in Unrecorded BY <1>14 DEF RecordFails, Unrecorded
  <2>2. history' = history \/ history' = Opened BY <1>14 DEF RecordFails
  <2>3. DOMAIN Opened = DOMAIN history BY OpenedFacts
  <2> QED BY <1>10, <1>11, <2>1, <2>2, <2>3
<1>15. CASE TellRunning(g)
  <2>1. history' = history BY <1>15 DEF TellRunning, records
  <2> QED BY <1>9, <1>15, <2>1, TellRunningFollows
<1>16. CASE \E outcome \in Outcomes : Exit(g, outcome)
  <2>1. history' = history BY <1>16 DEF Exit, records
  <2> QED BY <1>9, <1>16, <2>1, ExitFollows
<1>17. CASE Ended(g)
  <2>1. history' = history BY <1>17 DEF Ended
  <2> QED BY <1>4, <1>9, <1>17, <2>1, EndedFollows
<1>18. CASE (\E place \in Places : Report(g, place)) \/ CloseBridge(g)
  <2>1. history' = history BY <1>18 DEF Report, CloseBridge, records
  <2>2. \E place \in Somewhere :
           (Report(g, place) /\ place \in Places) \/ (CloseBridge(g) /\ place = Unknown)
    BY <1>18 DEF Somewhere
  <2> QED BY <1>4, <1>9, <2>1, <2>2, ReceiverFollows
<1>19. CASE Clone(g)
  <2>1. history' = history BY <1>19 DEF Clone, records
  <2> QED BY <1>9, <1>19, <2>1, CloneFollows
<1>20. CASE ExitObserved(g)
  <2>1. UNCHANGED <<recorded, opened>> /\ children[g].at = "observing" BY <1>20 DEF ExitObserved
  <2>2. \/ recorders[g].active /\ Observe(g, Unknown)
        \/ UNCHANGED history /\ (~recorders[g].active \/ g \in flawed')
    BY <1>20 DEF ExitObserved, ObserveFails, Spoil
  <2>3. CASE recorders[g].active /\ Observe(g, Unknown)
    <3>1. Unknown \in Somewhere BY DEF Somewhere
    <3>2. Onward /\ \A h \in Games : RecorderTaken(h)' BY <1>1, StepOnward, StepRecorders
    <3>3. /\ HistoryInv'
          /\ \A m \in DOMAIN history' : \E n \in DOMAIN history :
               /\ history'[m].game = history[n].game /\ history'[m].outcome = history[n].outcome
               /\ history'[m].visits =
                    IF history[n].game = g /\ recorders[g].current # Unknown
                    THEN Visited(history[n], recorders[g].current).visits ELSE history[n].visits
      BY <1>1, <2>1, <2>3, <3>1, <3>2, HistoryObserved
    <3> SUFFICES ASSUME NEW m \in DOMAIN history', NEW t, t = history'[m] PROVE SessionFollows(t)'
      OBVIOUS
    <3>4. t \in Session BY <3>3 DEF HistoryInv, DocumentShapes
    <3>5. PICK n \in DOMAIN history :
             /\ t.game = history[n].game /\ t.outcome = history[n].outcome
             /\ t.visits = IF history[n].game = g /\ recorders[g].current # Unknown
                           THEN Visited(history[n], recorders[g].current).visits ELSE history[n].visits
      BY <3>3
    <3>6. CASE history[n].game # g BY <1>6, <3>5, <3>6
    <3>7. CASE history[n].game = g
      <4>1. PICK s \in Session : s = history[n] BY <1>4
      <4>2. SessionFollows(s) /\ SessionKnown(s) BY <1>4, <4>1
      <4>3. t.visits = IF recorders[g].active /\ Observe(g, Unknown) /\ recorders[g].current # Unknown
                       THEN Visited(s, recorders[g].current).visits ELSE s.visits
        BY <2>3, <3>5, <3>7, <4>1
      <4> QED BY <1>2, <1>20, <3>4, <3>5, <3>7, <4>1, <4>2, <4>3, ExitObservedFollows
    <3> QED BY <3>6, <3>7
  <2>4. CASE UNCHANGED history /\ ~recorders[g].active
    BY <1>2, <1>9, <1>20, <2>4, ExitObservedFollows
  <2>5. CASE UNCHANGED history /\ g \in flawed'
    <3>1. \A s \in Session : s.game = g => SessionFollows(s)' BY <2>5 DEF SessionFollows
    <3> QED BY <1>9, <2>5, <3>1
  <2> QED BY <2>2, <2>3, <2>4, <2>5
<1>21. CASE Observed(g)
  <2> DEFINE place == bridges[g].place
  <2>1. UNCHANGED <<recorded, opened>> /\ bridges[g].at = "observing" BY <1>21 DEF Observed
  <2>2. Observe(g, place) \/ (UNCHANGED history /\ g \in flawed')
    BY <1>21 DEF Observed, ObserveFails, Spoil
  <2>3. CASE Observe(g, place)
    <3>1. place \in Somewhere
      <4>1. Pending(g) BY <2>1 DEF Pending
      <4> QED BY <1>1, <4>1, AheadFacts
    <3>2. Onward /\ \A h \in Games : RecorderTaken(h)' BY <1>1, StepOnward, StepRecorders
    <3>3. children[g].at = "done" => recorders[g].current = None BY <1>1, <2>1 DEF RecorderTaken
    <3> HIDE DEF place
    <3>4. /\ HistoryInv'
          /\ \A m \in DOMAIN history' : \E n \in DOMAIN history :
               /\ history'[m].game = history[n].game /\ history'[m].outcome = history[n].outcome
               /\ history'[m].visits =
                    IF history[n].game = g /\ recorders[g].current # place
                    THEN Visited(history[n], recorders[g].current).visits ELSE history[n].visits
      BY <1>1, <2>1, <2>3, <3>1, <3>2, <3>3, HistoryObserved
    <3> SUFFICES ASSUME NEW m \in DOMAIN history', NEW t, t = history'[m] PROVE SessionFollows(t)'
      OBVIOUS
    <3>5. t \in Session BY <3>4 DEF HistoryInv, DocumentShapes
    <3>6. PICK n \in DOMAIN history :
             /\ t.game = history[n].game /\ t.outcome = history[n].outcome
             /\ t.visits = IF history[n].game = g /\ recorders[g].current # place
                           THEN Visited(history[n], recorders[g].current).visits ELSE history[n].visits
      BY <3>4
    <3>7. CASE history[n].game # g BY <1>6, <3>6, <3>7
    <3>8. CASE history[n].game = g
      <4>1. PICK s \in Session : s = history[n] BY <1>4
      <4>2. SessionFollows(s) /\ SessionKnown(s) BY <1>4, <4>1
      <4>3. t.visits = IF Observe(g, place) /\ recorders[g].current # place
                       THEN Visited(s, recorders[g].current).visits ELSE s.visits
        BY <2>3, <3>6, <3>8, <4>1
      <4> QED BY <1>2, <1>21, <3>5, <3>6, <3>8, <4>1, <4>2, <4>3, ObservedFollows DEF place
    <3> QED BY <3>7, <3>8
  <2>4. CASE UNCHANGED history /\ g \in flawed'
    <3>1. \A s \in Session : s.game = g => SessionFollows(s)' BY <2>4 DEF SessionFollows
    <3> QED BY <1>9, <2>4, <3>1
  <2> QED BY <2>2, <2>3, <2>4
<1>22. CASE Finished(g)
  <2>1. UNCHANGED <<recorded, opened>> BY <1>22 DEF Finished
  <2>2. children'[g].at = "done" BY <1>1, <1>22, StepEffects
  <2>3. \/ children[g].recording /\ Finish(g, children[g].visit, children[g].outcome)
        \/ UNCHANGED history /\ (~children[g].recording \/ g \in flawed')
    BY <1>22 DEF Finished, Spoil
  <2>4. CASE children[g].recording /\ Finish(g, children[g].visit, children[g].outcome)
    <3>1. Onward /\ \A h \in Games : RecorderTaken(h)' BY <1>1, StepOnward, StepRecorders
    <3>2. /\ HistoryInv'
          /\ \A m \in DOMAIN history' : \E n \in DOMAIN history :
               /\ history'[m].game = history[n].game
               /\ \/ history'[m].outcome = history[n].outcome /\ history'[m].visits = history[n].visits
                     /\ (history[n].game # g \/ history[n].outcome # None)
                  \/ /\ history[n].game = g /\ history[n].outcome = None
                     /\ history'[m].visits = Visited(history[n], children[g].visit).visits
      BY <1>1, <2>1, <2>2, <2>4, <3>1, HistoryFinished
    <3> SUFFICES ASSUME NEW m \in DOMAIN history', NEW t, t = history'[m] PROVE SessionFollows(t)'
      OBVIOUS
    <3>3. t \in Session BY <3>2 DEF HistoryInv, DocumentShapes
    <3>4. PICK n \in DOMAIN history :
             /\ t.game = history[n].game
             /\ \/ t.outcome = history[n].outcome /\ t.visits = history[n].visits
                   /\ (history[n].game # g \/ history[n].outcome # None)
                \/ /\ history[n].game = g /\ history[n].outcome = None
                   /\ t.visits = Visited(history[n], children[g].visit).visits
      BY <3>2
    <3>5. CASE history[n].game # g BY <1>6, <3>4, <3>5
    <3>6. CASE history[n].game = g
      <4>1. PICK s \in Session : s = history[n] BY <1>4
      <4>2. SessionFollows(s) BY <1>4, <4>1
      <4> QED BY <1>22, <2>4, <3>3, <3>4, <3>6, <4>1, <4>2, FinishedFollows
    <3> QED BY <3>5, <3>6
  <2>5. CASE UNCHANGED history /\ (~children[g].recording \/ g \in flawed')
    BY <1>9, <1>22, <2>5, FinishedFollows
  <2> QED BY <2>3, <2>4, <2>5
<1> QED
  BY <1>12, <1>13, <1>14, <1>15, <1>16, <1>17, <1>18, <1>19, <1>20, <1>21, <1>22 DEF Step

LEMMA VisitsInvNext ==
    ASSUME GamesInv, HistoryInv, VisitsInv, [Next]_vars
    PROVE  VisitsInv'
PROOF
<1>1. /\ \A n \in DOMAIN history : /\ history[n] \in Session /\ history[n].game \in Games
                                   /\ SessionFollows(history[n]) /\ SessionKnown(history[n])
      /\ \A g \in Games : Drained(g)
  <2>1. history \in Seq(Session) BY DEF HistoryInv, DocumentShapes
  <2>2. \A n \in DOMAIN history : history[n] \in Session BY <2>1
  <2>3. \A n \in DOMAIN history : history[n].game \in Games BY <2>2 DEF Session
  <2> QED BY <2>2, <2>3 DEF VisitsInv, HistoryInv
<1>2. ASSUME NEW n \in DOMAIN history, NEW t, t.game = history[n].game,
             t.visits = history[n].visits, t.outcome = history[n].outcome \/ t.outcome = "interrupted",
             UNCHANGED <<children, bridges, recorders, heard, flawed>>
      PROVE  SessionFollows(t)'
  <2>1. PICK s \in Session : s = history[n] BY <1>1
  <2>2. PICK h \in Games : h = history[n].game BY <1>1
  <2>3. s.game = h /\ SessionFollows(s) BY <1>1, <2>1, <2>2
  <2> QED BY <1>2, <2>1, <2>2, <2>3, ElseFollows
<1>3. UNCHANGED <<children, bridges, recorders, heard, flawed>> => \A g \in Games : Drained(g)'
  BY <1>1, ElseFollows
<1>4. ASSUME UNCHANGED <<children, bridges, recorders, heard, flawed, history>> PROVE VisitsInv'
  <2>1. \A m \in DOMAIN history' : \E t : t = history'[m] /\ SessionFollows(t)' BY <1>2, <1>4
  <2> QED BY <1>3, <1>4, <2>1, SessionsFollow
<1>5. ASSUME NEW g \in Games, Step(g) PROVE VisitsInv' BY <1>5, VisitsStep
<1>6. ASSUME NEW g \in Games, NEW i \in Instances, Start(i, g) PROVE VisitsInv'
  <2>1. UNCHANGED <<recorders, heard, flawed, history>> BY <1>6 DEF Start, records
  <2>2. /\ children[g].at = "none" /\ children'[g].at = "starting"
        /\ \A h \in Games \ {g} : children'[h] = children[h] /\ bridges'[h] = bridges[h]
    BY <1>6, StartFacts
  <2>3. ASSUME NEW h \in Games PROVE Drained(h)'
    <3>1. CASE h = g BY <2>2, <3>1 DEF Drained
    <3>2. CASE h # g BY <1>1, <2>1, <2>2, <3>2, ElseFollows
    <3> QED BY <3>1, <3>2
  <2>4. ASSUME NEW m \in DOMAIN history', NEW t, t = history'[m] PROVE SessionFollows(t)'
    <3>1. m \in DOMAIN history /\ t = history[m] BY <2>1, <2>4
    <3>2. history[m].game # g BY <1>1, <2>2, <3>1 DEF HistoryInv, SessionKnown, Unrecorded
    <3>3. PICK h \in Games \ {g} : h = history[m].game BY <1>1, <3>1, <3>2
    <3> QED BY <1>1, <2>1, <2>2, <3>1, <3>3, ElseFollows
  <2> QED BY <2>3, <2>4, SessionsFollow
<1>7. CASE OpenHistory
  <2>1. UNCHANGED <<children, bridges, recorders, heard, flawed>> /\ history' = Opened
    BY <1>7 DEF OpenHistory, world, Opened
  <2>2. ASSUME NEW m \in DOMAIN history', NEW t, t = history'[m] PROVE SessionFollows(t)'
    <3>1. /\ m \in DOMAIN history /\ t.game = history[m].game /\ t.visits = history[m].visits
          /\ t.outcome = history[m].outcome \/ t.outcome = "interrupted"
      BY <2>1, <2>2, OpenedFacts
    <3> QED BY <1>2, <2>1, <3>1
  <2> QED BY <1>3, <2>1, <2>2, SessionsFollow
<1>8. CASE User BY <1>4, <1>8 DEF User, world, records
<1>9. CASE Restart
  <2>1. /\ \A g \in Games : /\ children'[g].at = IF children[g].at = "none" THEN "none" ELSE "done"
                            /\ ~recorders'[g].active
        /\ UNCHANGED <<history, heard, flawed>>
    BY <1>9, RestartFacts DEF GamesInv
  <2>2. \A g \in Games : Drained(g)' BY <2>1 DEF Drained
  <2>3. ASSUME NEW m \in DOMAIN history', NEW t, t = history'[m] PROVE SessionFollows(t)'
    <3>1. m \in DOMAIN history /\ t = history[m] BY <2>1, <2>3
    <3>2. PICK g \in Games : g = t.game BY <1>1, <3>1
    <3>3. SessionFollows(t) BY <1>1, <3>1
    <3>4. ~recorders'[g].active /\ children'[g].at # "finishing" BY <2>1
    <3> QED BY <2>1, <3>2, <3>3, <3>4, FollowsKept
  <2> QED BY <2>2, <2>3, SessionsFollow
<1>10. CASE DiscordWorks BY <1>4, <1>10 DEF DiscordWorks, world, records
<1>11. CASE DiscordFails BY <1>4, <1>11 DEF DiscordFails, world, records
<1>12. CASE UNCHANGED vars BY <1>4, <1>12 DEF vars, world, records
<1> QED BY <1>5, <1>6, <1>7, <1>8, <1>9, <1>10, <1>11, <1>12 DEF Next

LEMMA VisitsInvInit == Init => VisitsInv
PROOF
<1> SUFFICES ASSUME Init PROVE VisitsInv OBVIOUS
<1>1. DOMAIN history = {} BY DEF Init
<1>2. \A g \in Games : Drained(g) BY DEF Init, Drained, NoProcess
<1> QED BY <1>1, <1>2 DEF VisitsInv

\* The history counts each recorded game once and holds the places it reported
\* in the order it reported them (gameplay_history.rs, observe and finish).
THEOREM HistoryIsTrue == Spec => [](HistoryHolds /\ VisitsInv)
PROOF
<1>1. Init => VisitsInv BY VisitsInvInit
<1>2. GamesInv /\ HistoryInv /\ VisitsInv /\ [Next]_vars => VisitsInv' BY VisitsInvNext
<1>3. HistoryInv /\ VisitsInv => HistoryHolds
  <2> SUFFICES ASSUME HistoryInv, VisitsInv PROVE VisitsFollowReports
    BY DEF HistoryHolds, HistoryInv
  <2> SUFFICES ASSUME NEW n \in DOMAIN history,
                      history[n].outcome \in {"normal", "abnormal"}, history[n].game \notin flawed
               PROVE  history[n].visits = Latest(heard[history[n].game])
    BY DEF VisitsFollowReports, Latest
  <2>1. SessionFollows(history[n]) BY DEF VisitsInv
  <2> QED BY <2>1 DEF SessionFollows
<1> QED BY <1>1, <1>2, <1>3, HistoryInvariance, PTL DEF Spec

-----------------------------------------------------------------------------
(* The presence                                                            *)

\* The messages that tell the saved preferences, and those that tell the
\* state of an instance's process.
Asks == [kind : {"preferences"}, preferences : Preferences]
Tells(i) == [kind : {"process"}, instance : {i}, process : Snapshot \cup {None}]

\* What the worker holds is right, or the last message about it on its way is.
About(q, messages) == {n \in DOMAIN q : q[n] \in messages}
Arrives(held, q, messages, right) ==
    /\ About(q, messages) = {} => held \in right
    /\ \A n \in About(q, messages) : (\A m \in About(q, messages) : m <= n) => q[n] \in right

HeldPreferences == [kind |-> "preferences", preferences |-> preferences]
HeldProcess(i) == [kind |-> "process", instance |-> i, process |-> games[i]]

\* A game whose process state its thread is about to tell.
Telling(i) ==
    \E g \in Games :
        children[g].instance = i /\ children[g].at \in {"starting", "spawned", "telling", "finishing"}

\* A process state that is right, about to be corrected, or overtaken.
Good(i, p) ==
    \/ p = processes[i] \/ Telling(i)
    \/ p # None /\ processes[i] # None /\ p.game < processes[i].game /\ ~Blocks(p.status)

Live == {"starting", "launch", "spawned", "telling", "playing", "observing", "draining"}

Types ==
    /\ DiscordTypeOK
    /\ processes \in [Instances -> Snapshot \cup {None}]
    /\ snapshots \in [Games -> Places \cup {None}]
    /\ flawed \subseteq Games /\ upsets \in 0 .. (MaxUpsets + MaxFaults)

Unconfigured ==
    ~configured => /\ queue = <<>> /\ ~wake /\ connection = "ready" /\ working = "idle"
                   /\ preferences = wanted /\ reported = wanted

Trying == working # "stopped" /\ preferences.enabled => connection = "connected" \/ requested

PreferencesArrive ==
    working # "stopped" =>
        /\ Arrives(HeldPreferences, queue, Asks, {m \in Asks : m.preferences = wanted})
        /\ working = "idle" /\ About(queue, Asks) = {} => reported = preferences

\* A process state is its game's until the next one of the instance starts.
ProcessFollows(g) ==
    LET p == processes[children[g].instance]
    IN /\ children[g].at \in Live =>
            p = Process(g, IF children[g].at \in {"starting", "launch"} THEN "starting" ELSE "running")
       /\ children[g].at = "finishing" => p = Process(g, "ended") \/ (p # None /\ g < p.game)

ProcessesArrive ==
    configured /\ working # "stopped" =>
        \A i \in Instances :
            Arrives(HeldProcess(i), queue, Tells(i), {m \in Tells(i) : Good(i, m.process)})

\* Somebody is between a change of what games report and waking the worker.
Unsettled == wake \/ \E g \in Games : Pending(g) \/ children[g].at = "observing"

Current(act) == act = Activity(preferences, Winner(games)) \/ Unsettled

ShownFollows ==
    /\ working = "send" => connection = "connected" /\ Current(activity)
    /\ working = "connect" => connection # "connected"
    /\ working = "idle" /\ connection = "connected" => Current(shown)

PresenceInv ==
    /\ Types /\ ActivityEnds /\ Unconfigured /\ Trying /\ PreferencesArrive
    /\ \A g \in Games : ProcessFollows(g)
    /\ ProcessesArrive /\ ShownFollows

\* The first message is taken, and held if it is one of those.
LEMMA MessageTaken ==
    ASSUME NEW S, NEW q \in Seq(S), q # <<>>, NEW held, NEW messages, NEW right,
           Arrives(held, q, messages, right), NEW taken,
           Head(q) \in messages => taken = Head(q), Head(q) \notin messages => taken = held
    PROVE  /\ Arrives(taken, Tail(q), messages, right)
           /\ Head(q) \notin messages /\ About(Tail(q), messages) = {} => About(q, messages) = {}
PROOF
<1> DEFINE len == Len(q)
           rest1 == Tail(q)
           all == About(q, messages)
           left == About(rest1, messages)
<1>1. /\ len \in Nat /\ len >= 1 /\ DOMAIN q = 1 .. len /\ q[1] = Head(q)
      /\ DOMAIN rest1 = 1 .. (len - 1) /\ \A n \in 1 .. (len - 1) : rest1[n] = q[n + 1]
  <2>1. /\ Head(q) \in S /\ Tail(q) \in Seq(S) /\ Len(Tail(q)) = Len(q) - 1
        /\ \A n \in 1 .. Len(Tail(q)) : Tail(q)[n] = q[n + 1]
    BY HeadTailProperties
  <2>2. DOMAIN q = 1 .. Len(q) /\ DOMAIN Tail(q) = 1 .. Len(Tail(q)) /\ Len(q) \in Nat /\ Len(Tail(q)) \in Nat
    BY <2>1, LenProperties
  <2>3. q[1] = Head(q) BY DEF Head
  <2> QED BY <2>1, <2>2, <2>3
<1> HIDE DEF rest1, len
<1>2. \A n \in 1 .. (len - 1) : n \in left <=> n + 1 \in all BY <1>1 DEF About
<1>3. left \subseteq 1 .. (len - 1) /\ all \subseteq 1 .. len BY <1>1 DEF About
<1>4. 1 \in all <=> Head(q) \in messages BY <1>1 DEF About
<1>5. \A n \in all : n = 1 \/ (n - 1 \in 1 .. (len - 1) /\ n - 1 \in left)
  <2> SUFFICES ASSUME NEW n \in all, n # 1 PROVE n - 1 \in 1 .. (len - 1) /\ n - 1 \in left
    OBVIOUS
  <2>1. n \in 1 .. len BY <1>3
  <2>2. n - 1 \in 1 .. (len - 1) /\ (n - 1) + 1 = n BY <1>1, <2>1
  <2> QED BY <1>2, <2>2
<1>6. ASSUME left = {} PROVE taken \in right
  <2>1. CASE Head(q) \in messages
    <3>1. 1 \in all /\ \A n \in all : n = 1 BY <1>4, <1>5, <1>6, <2>1
    <3>2. q[1] \in right
      <4>1. \A n \in all : n <= 1 BY <3>1
      <4> QED BY <3>1, <4>1 DEF Arrives
    <3> QED BY <1>1, <2>1, <3>2
  <2>2. CASE Head(q) \notin messages
    <3>1. all = {} BY <1>4, <1>5, <1>6, <2>2
    <3> QED BY <2>2, <3>1 DEF Arrives
  <2> QED BY <2>1, <2>2
<1>7. ASSUME NEW n \in left, \A m \in left : m <= n PROVE rest1[n] \in right
  <2>1. n \in 1 .. (len - 1) /\ n + 1 \in all BY <1>2, <1>3
  <2>2. ASSUME NEW m \in all PROVE m <= n + 1
    <3>1. m \in 1 .. len BY <1>3
    <3>2. CASE m = 1 BY <1>1, <2>1, <3>2
    <3>3. CASE m # 1
      <4>1. m - 1 <= n BY <1>5, <1>7, <3>3
      <4> QED BY <1>1, <2>1, <3>1, <4>1
    <3> QED BY <3>2, <3>3
  <2>3. q[n + 1] \in right BY <2>1, <2>2 DEF Arrives
  <2> QED BY <1>1, <2>1, <2>3
<1>8. Arrives(taken, rest1, messages, right) BY <1>6, <1>7 DEF Arrives
<1>9. Head(q) \notin messages /\ left = {} => all = {} BY <1>4, <1>5
<1> QED BY <1>8, <1>9 DEF rest1

\* A message is told: it is right, or about something else.
LEMMA MessageTold ==
    ASSUME NEW S, NEW q \in Seq(S), NEW message \in S, NEW held, NEW messages, NEW right,
           \/ message \in messages /\ message \in right
           \/ message \notin messages /\ Arrives(held, q, messages, right)
    PROVE  /\ Arrives(held, Append(q, message), messages, right)
           /\ message \in messages => About(Append(q, message), messages) # {}
           /\ message \notin messages => About(Append(q, message), messages) = About(q, messages)
PROOF
<1> DEFINE len == Len(q)
           next == Append(q, message)
           all == About(q, messages)
           more == About(next, messages)
<1>1. /\ len \in Nat /\ DOMAIN q = 1 .. len /\ DOMAIN next = 1 .. (len + 1)
      /\ \A n \in 1 .. len : next[n] = q[n]
      /\ next[len + 1] = message
  <2>1. /\ next \in Seq(S) /\ Len(next) = Len(q) + 1 /\ \A n \in 1 .. Len(q) : next[n] = q[n]
        /\ next[Len(q) + 1] = message
    BY AppendProperties
  <2> QED BY <2>1, LenProperties
<1> HIDE DEF next, len
<1>2. CASE message \in messages /\ message \in right
  <2>1. len + 1 \in more BY <1>1, <1>2 DEF About
  <2>2. ASSUME NEW n \in more, \A m \in more : m <= n PROVE next[n] \in right
    <3>1. n \in 1 .. (len + 1) /\ len + 1 <= n BY <1>1, <2>1, <2>2 DEF About
    <3>2. n = len + 1 BY <1>1, <3>1
    <3> QED BY <1>1, <1>2, <3>2
  <2> QED BY <1>2, <2>1, <2>2 DEF Arrives, next
<1>3. CASE message \notin messages /\ Arrives(held, q, messages, right)
  <2>1. more = all
    <3>1. \A n \in more : n \in all
      <4> SUFFICES ASSUME NEW n \in more PROVE n \in all OBVIOUS
      <4>1. n \in 1 .. (len + 1) /\ next[n] \in messages BY <1>1 DEF About
      <4>2. n # len + 1 BY <1>1, <1>3, <4>1
      <4>3. n \in 1 .. len BY <1>1, <4>1, <4>2
      <4> QED BY <1>1, <4>1, <4>3 DEF About
    <3>2. \A n \in all : n \in more
      <4> SUFFICES ASSUME NEW n \in all PROVE n \in more OBVIOUS
      <4>1. n \in 1 .. len /\ q[n] \in messages BY <1>1 DEF About
      <4>2. n \in 1 .. (len + 1) BY <1>1, <4>1
      <4> QED BY <1>1, <4>1, <4>2 DEF About
    <3> QED BY <3>1, <3>2
  <2>2. \A n \in all : next[n] = q[n] BY <1>1 DEF About
  <2>3. Arrives(held, next, messages, right) BY <1>3, <2>1, <2>2 DEF Arrives
  <2> QED BY <1>3, <2>1, <2>3 DEF next
<1> QED BY <1>2, <1>3

-----------------------------------------------------------------------------
(* What the worker does                                                    *)

LEMMA HeadFacts ==
    ASSUME queue \in Seq(Message), queue # <<>>
    PROVE  /\ Head(queue) \in Message /\ Tail(queue) \in Seq(Message)
           /\ Head(queue).kind = "preferences" =>
                /\ Head(queue).preferences \in Preferences /\ Head(queue) \in Asks
                /\ Head(queue) = [kind |-> "preferences", preferences |-> Head(queue).preferences]
           /\ Head(queue).kind # "preferences" => Head(queue) \notin Asks
           /\ Head(queue).kind = "process" =>
                /\ Head(queue).instance \in Instances /\ Head(queue).process \in Snapshot
                /\ Head(queue) \in Tells(Head(queue).instance)
                /\ Head(queue) = [kind |-> "process", instance |-> Head(queue).instance,
                                  process |-> Head(queue).process]
           /\ \A i : Head(queue).kind # "process" \/ Head(queue).instance # i => Head(queue) \notin Tells(i)
PROOF
<1>1. Head(queue) \in Message /\ Tail(queue) \in Seq(Message) BY HeadTailProperties
<1> DEFINE message == Head(queue)
<1> HIDE DEF message
<1>2. message \in Message BY <1>1 DEF message
<1>3. message.kind = "preferences" =>
        /\ message.preferences \in Preferences /\ message \in Asks
        /\ message = [kind |-> "preferences", preferences |-> message.preferences]
  BY <1>2 DEF Message, Asks
<1>4. message.kind # "preferences" => message \notin Asks BY DEF Asks
<1>5. message.kind = "process" =>
        /\ message.instance \in Instances /\ message.process \in Snapshot
        /\ message \in Tells(message.instance)
        /\ message = [kind |-> "process", instance |-> message.instance, process |-> message.process]
  BY <1>2 DEF Message, Tells
<1>6. \A i : message.kind # "process" \/ message.instance # i => message \notin Tells(i) BY DEF Tells
<1> QED BY <1>1, <1>3, <1>4, <1>5, <1>6 DEF message

\* What follows a message.
LEMMA ReconcileFacts ==
    ASSUME NEW reconnect \in BOOLEAN, NEW asked \in BOOLEAN, Reconcile(reconnect, asked)
    PROVE  /\ connection' = (IF reconnect THEN "ready" ELSE connection)
           /\ shown' = IF reconnect THEN None ELSE shown
           /\ \/ /\ working' = "send" /\ connection' = "connected" /\ reported' = reported
                 /\ activity' = Activity(preferences', Winner(games'))
              \/ working' = "connect" /\ connection' # "connected" /\ UNCHANGED <<reported, activity>>
              \/ /\ working' = "idle" /\ connection' # "connected" /\ reported' = preferences'
                 /\ activity' = activity /\ ~asked
PROOF
<1>1. CASE connection' = "connected" BY <1>1 DEF Reconcile, Make
<1>2. CASE connection' # "connected" BY <1>2 DEF Reconcile, Wait
<1> QED BY <1>1, <1>2

\* What a step of the worker may be, and what it says of the steps that follow a message.
LEMMA WorkerSteps ==
    ASSUME DiscordTypeOK, Work(FALSE) \/ Work(TRUE)
    PROVE  /\ UNCHANGED <<configured, wanted>>
           /\ \/ Stop /\ working = "idle" /\ queue # <<>>
              \/ /\ Connect \/ Preferred \/ Processed
                 /\ working = "idle" /\ queue # <<>> /\ queue' = Tail(queue) /\ wake' = wake
              \/ /\ working = "idle" /\ UNCHANGED <<preferences, games, queue, requested>>
                 /\ (wake /\ wake' = FALSE) \/ (wake' = wake /\ configured)
                 /\ Reconcile(FALSE, requested)
              \/ \E fails \in BOOLEAN : Connects(fails) \/ Publish(fails)
PROOF
<1>1. CASE Receive BY <1>1 DEF Receive
<1>2. CASE Woken BY <1>2 DEF Woken
<1>3. CASE Tick BY <1>3 DEF Tick, rest
<1>4. CASE \E fails \in BOOLEAN : Connects(fails) \/ Publish(fails)
  BY <1>4 DEF Connects, Publish, rest
<1> QED BY <1>1, <1>2, <1>3, <1>4 DEF Work

\* The steps of the worker that follow a message or a wake-up.
LEMMA WorkerReconciles ==
    ASSUME DiscordTypeOK, Connect \/ Preferred \/ Processed \/ Reconcile(FALSE, requested)
    PROVE  /\ connection' = connection \/ connection' = "ready"
           /\ connection' # "connected" /\ connection = "connected" => shown' = None
           /\ shown' = shown \/ shown' = None
           /\ \/ /\ working' = "send" /\ connection' = "connected" /\ reported' = reported
                 /\ activity' = Activity(preferences', Winner(games'))
              \/ working' = "connect" /\ connection' # "connected" /\ UNCHANGED <<reported, activity>>
              \/ /\ working' = "idle" /\ connection' # "connected" /\ reported' = preferences'
                 /\ activity' = activity
           /\ Connect => requested' = TRUE /\ UNCHANGED <<preferences, games>>
           /\ Preferred => /\ requested' = (preferences'.enabled \/ connection = "connected")
                           /\ requested' \in BOOLEAN /\ connection' = connection
                           /\ preferences' = Head(queue).preferences /\ games' = games
           /\ Processed => /\ UNCHANGED <<preferences, requested, connection>>
                           /\ games' = [games EXCEPT ![Head(queue).instance] = Head(queue).process]
PROOF
<1> DEFINE Effects ==
             /\ connection' = connection \/ connection' = "ready"
             /\ connection' # "connected" /\ connection = "connected" => shown' = None
             /\ shown' = shown \/ shown' = None
             /\ \/ /\ working' = "send" /\ connection' = "connected" /\ reported' = reported
                   /\ activity' = Activity(preferences', Winner(games'))
                \/ working' = "connect" /\ connection' # "connected" /\ UNCHANGED <<reported, activity>>
                \/ /\ working' = "idle" /\ connection' # "connected" /\ reported' = preferences'
                   /\ activity' = activity
<1>1. ASSUME NEW reconnect \in BOOLEAN, NEW asked \in BOOLEAN, Reconcile(reconnect, asked)
      PROVE  Effects /\ (~reconnect => connection' = connection)
  BY <1>1, ReconcileFacts
<1> HIDE DEF Effects
<1>2. Connect => Effects /\ requested' = TRUE /\ UNCHANGED <<preferences, games>>
  BY <1>1 DEF Connect
<1>3. Preferred => /\ Effects /\ requested' = (preferences'.enabled \/ connection = "connected")
                   /\ requested' \in BOOLEAN /\ connection' = connection
                   /\ preferences' = Head(queue).preferences /\ games' = games
  <2> SUFFICES ASSUME Preferred
               PROVE  /\ Effects /\ requested' = (preferences'.enabled \/ connection = "connected")
                      /\ requested' \in BOOLEAN /\ connection' = connection
                      /\ preferences' = Head(queue).preferences /\ games' = games
    OBVIOUS
  <2>1. /\ requested' = (preferences'.enabled \/ connection = "connected")
        /\ preferences' = Head(queue).preferences /\ games' = games
        /\ Reconcile(FALSE, requested')
    BY DEF Preferred
  <2>2. requested' \in BOOLEAN BY <2>1
  <2> QED BY <1>1, <2>1, <2>2
<1>4. Processed => /\ Effects /\ UNCHANGED <<preferences, requested, connection>>
                   /\ games' = [games EXCEPT ![Head(queue).instance] = Head(queue).process]
  <2>1. requested \in BOOLEAN BY DEF DiscordTypeOK
  <2> QED BY <1>1, <2>1 DEF Processed
<1>5. Reconcile(FALSE, requested) => Effects BY <1>1 DEF DiscordTypeOK
<1> QED BY <1>2, <1>3, <1>4, <1>5 DEF Effects

LEMMA WorkTypes ==
    ASSUME DiscordTypeOK, working = "send" => connection = "connected", Work(FALSE) \/ Work(TRUE)
    PROVE  DiscordTypeOK'
PROOF
<1>1. /\ UNCHANGED <<configured, wanted>>
      /\ \/ Stop /\ working = "idle" /\ queue # <<>>
         \/ /\ Connect \/ Preferred \/ Processed
            /\ working = "idle" /\ queue # <<>> /\ queue' = Tail(queue) /\ wake' = wake
         \/ /\ working = "idle" /\ UNCHANGED <<preferences, games, queue, requested>>
            /\ (wake /\ wake' = FALSE) \/ (wake' = wake /\ configured)
            /\ Reconcile(FALSE, requested)
         \/ \E fails \in BOOLEAN : Connects(fails) \/ Publish(fails)
  BY WorkerSteps
<1>2. /\ {preferences, wanted, reported} \subseteq Preferences
      /\ queue \in Seq(Message) /\ wake \in BOOLEAN
      /\ games \in [Instances -> Snapshot \cup {None}]
      /\ connection \in {"ready", "connected", "lost"} /\ requested \in BOOLEAN
      /\ working \in {"idle", "connect", "send", "stopped"}
      /\ connection # "connected" => shown = None
  BY DEF DiscordTypeOK
<1>3. preferences.enabled \in BOOLEAN
  <2>1. Preferences \subseteq [enabled : BOOLEAN, place : BOOLEAN] BY DEF Preferences, Off, On
  <2> QED BY <1>2, <2>1
<1>4. CASE Stop
  <2>1. <<>> \in Seq(Message) BY EmptySeq
  <2> QED BY <1>1, <1>2, <1>4, <2>1 DEF Stop, DiscordTypeOK
<1>5. CASE \/ /\ Connect \/ Preferred \/ Processed
              /\ working = "idle" /\ queue # <<>> /\ queue' = Tail(queue) /\ wake' = wake
           \/ /\ working = "idle" /\ UNCHANGED <<preferences, games, queue, requested>>
              /\ (wake /\ wake' = FALSE) \/ (wake' = wake /\ configured)
              /\ Reconcile(FALSE, requested)
  <2>1. /\ connection' = connection \/ connection' = "ready"
        /\ connection' # "connected" /\ connection = "connected" => shown' = None
        /\ shown' = shown \/ shown' = None
        /\ working' \in {"send", "connect", "idle"}
        /\ reported' = reported \/ reported' = preferences'
    BY <1>5, WorkerReconciles
  <2>2. connection' \in {"ready", "connected", "lost"} /\ (connection' # "connected" => shown' = None)
    BY <1>2, <2>1
  <2>3. /\ preferences' \in Preferences /\ queue' \in Seq(Message) /\ wake' \in BOOLEAN
        /\ games' \in [Instances -> Snapshot \cup {None}] /\ requested' \in BOOLEAN
    <3>1. CASE Connect /\ queue # <<>> /\ queue' = Tail(queue) /\ wake' = wake
      <4>1. Tail(queue) \in Seq(Message) BY <1>2, <3>1, HeadFacts
      <4>2. requested' = TRUE /\ UNCHANGED <<preferences, games>> BY <3>1, WorkerReconciles
      <4>3. requested' \in BOOLEAN BY <4>2
      <4> QED BY <1>2, <3>1, <4>1, <4>2, <4>3
    <3>2. CASE Preferred /\ queue # <<>> /\ queue' = Tail(queue) /\ wake' = wake
      <4>1. Tail(queue) \in Seq(Message) /\ Head(queue).preferences \in Preferences
        BY <1>2, <3>2, HeadFacts DEF Preferred
      <4>2. requested' \in BOOLEAN /\ preferences' = Head(queue).preferences /\ games' = games
        BY <3>2, WorkerReconciles
      <4> QED BY <1>2, <3>2, <4>1, <4>2
    <3>3. CASE Processed /\ queue # <<>> /\ queue' = Tail(queue) /\ wake' = wake
      <4>1. /\ Tail(queue) \in Seq(Message) /\ Head(queue).instance \in Instances
            /\ Head(queue).process \in Snapshot
        BY <1>2, <3>3, HeadFacts DEF Processed
      <4>2. /\ UNCHANGED <<preferences, requested>>
            /\ games' = [games EXCEPT ![Head(queue).instance] = Head(queue).process]
        BY <3>3, WorkerReconciles
      <4> QED BY <1>2, <3>3, <4>1, <4>2
    <3>4. CASE UNCHANGED <<preferences, games, queue, requested>> /\ (wake' = FALSE \/ wake' = wake)
      BY <1>2, <3>4
    <3> QED BY <1>5, <3>1, <3>2, <3>3, <3>4
  <2>4. reported' \in Preferences /\ wanted' = wanted BY <1>1, <1>2, <2>1, <2>3
  <2> QED BY <1>2, <2>1, <2>2, <2>3, <2>4 DEF DiscordTypeOK
<1>6. ASSUME NEW fails \in BOOLEAN, Connects(fails) PROVE DiscordTypeOK'
  <2>1. UNCHANGED <<preferences, wanted, queue, wake, games>> BY <1>6 DEF Connects, rest
  <2>2. CASE fails
    <3>1. /\ requested' = preferences.enabled /\ connection' = "lost" /\ shown' = None
          /\ working' = "idle" /\ reported' = preferences'
      BY <1>6, <2>2 DEF Connects, Fail, Wait
    <3> QED BY <1>2, <1>3, <2>1, <3>1 DEF DiscordTypeOK
  <2>3. CASE ~fails
    <3>1. /\ connection' = "connected" /\ requested' = requested
          /\ working' = "send" /\ reported' = reported
      BY <1>6, <2>3 DEF Connects, Make
    <3> QED BY <1>2, <2>1, <3>1 DEF DiscordTypeOK
  <2> QED BY <2>2, <2>3
<1>7. ASSUME NEW fails \in BOOLEAN, Publish(fails) PROVE DiscordTypeOK'
  <2>1. UNCHANGED <<preferences, wanted, queue, wake, games>> /\ working = "send"
    BY <1>7 DEF Publish, rest
  <2>2. CASE fails
    <3>1. /\ requested' = preferences.enabled /\ connection' = "lost" /\ shown' = None
          /\ working' = "idle" /\ reported' = preferences'
      BY <1>7, <2>2 DEF Publish, Fail, Wait
    <3> QED BY <1>2, <1>3, <2>1, <3>1 DEF DiscordTypeOK
  <2>3. CASE ~fails
    <3>1. /\ connection' = connection /\ requested' = requested
          /\ working' = "idle" /\ reported' = preferences'
      BY <1>7, <2>3 DEF Publish, Wait
    <3> QED BY <1>2, <2>1, <3>1 DEF DiscordTypeOK
  <2> QED BY <2>2, <2>3
<1> QED BY <1>1, <1>4, <1>5, <1>6, <1>7

LEMMA WorkTrying ==
    ASSUME DiscordTypeOK, Unconfigured, Trying, Work(FALSE) \/ Work(TRUE)
    PROVE  Unconfigured' /\ Trying'
PROOF
<1>1. /\ UNCHANGED <<configured, wanted>>
      /\ \/ Stop /\ working = "idle" /\ queue # <<>>
         \/ /\ Connect \/ Preferred \/ Processed
            /\ working = "idle" /\ queue # <<>> /\ queue' = Tail(queue) /\ wake' = wake
         \/ /\ working = "idle" /\ UNCHANGED <<preferences, games, queue, requested>>
            /\ (wake /\ wake' = FALSE) \/ (wake' = wake /\ configured)
            /\ Reconcile(FALSE, requested)
         \/ \E fails \in BOOLEAN : Connects(fails) \/ Publish(fails)
  BY WorkerSteps
<1>2. configured
  <2>1. \E fails \in BOOLEAN : Connects(fails) \/ Publish(fails) => working # "idle"
    BY DEF Connects, Publish
  <2> QED BY <1>1, <2>1 DEF Unconfigured, Connects, Publish
<1>3. Unconfigured'
  <2>1. configured' = configured BY <1>1
  <2>2. configured' BY <1>2, <2>1
  <2> QED BY <2>2, Zenon DEF Unconfigured
<1> SUFFICES Trying' BY <1>3
<1>4. CASE Stop BY <1>4 DEF Stop, Trying
<1>5. CASE (Connect \/ Preferred \/ Processed) /\ working = "idle"
  <2>1. CASE Connect
    <3>1. requested' = TRUE BY <2>1, WorkerReconciles
    <3>2. requested' BY <3>1
    <3> QED BY <3>2, Zenon DEF Trying
  <2>2. CASE Preferred
    <3>1. requested' = (preferences'.enabled \/ connection = "connected") BY <2>2, WorkerReconciles
    <3>2. preferences'.enabled => requested' BY <3>1
    <3> QED BY <3>2, Zenon DEF Trying
  <2>3. CASE Processed
    <3>1. UNCHANGED <<preferences, requested, connection>> BY <2>3, WorkerReconciles
    <3>2. Trying => (preferences.enabled => connection = "connected" \/ requested)
      BY <1>5 DEF Trying
    <3> QED BY <3>1, <3>2, Zenon DEF Trying
  <2> QED BY <1>5, <2>1, <2>2, <2>3
<1>6. CASE working = "idle" /\ UNCHANGED <<preferences, requested>> /\ Reconcile(FALSE, requested)
  <2>1. connection' = connection BY <1>6, ReconcileFacts DEF DiscordTypeOK
  <2> QED BY <1>6, <2>1 DEF Trying
<1>7. ASSUME NEW fails \in BOOLEAN, Connects(fails) \/ Publish(fails) PROVE Trying'
  <2>1. preferences' = preferences /\ working # "stopped" BY <1>7 DEF Connects, Publish, rest
  <2>2. \/ requested' = preferences.enabled
        \/ connection' = "connected"
        \/ UNCHANGED <<connection, requested>>
    BY <1>7 DEF Connects, Publish, Fail
  <2> QED BY <2>1, <2>2 DEF Trying
<1> QED BY <1>1, <1>4, <1>5, <1>6, <1>7

LEMMA WorkPreferences ==
    ASSUME DiscordTypeOK, PreferencesArrive, Work(FALSE) \/ Work(TRUE)
    PROVE  PreferencesArrive'
PROOF
<1> DEFINE right == {m \in Asks : m.preferences = wanted}
<1>1. /\ UNCHANGED <<configured, wanted>>
      /\ \/ Stop /\ working = "idle" /\ queue # <<>>
         \/ /\ Connect \/ Preferred \/ Processed
            /\ working = "idle" /\ queue # <<>> /\ queue' = Tail(queue) /\ wake' = wake
         \/ /\ working = "idle" /\ UNCHANGED <<preferences, games, queue, requested>>
            /\ (wake /\ wake' = FALSE) \/ (wake' = wake /\ configured)
            /\ Reconcile(FALSE, requested)
         \/ \E fails \in BOOLEAN : Connects(fails) \/ Publish(fails)
  BY WorkerSteps
<1>2. queue \in Seq(Message) BY DEF DiscordTypeOK
<1>3. right' = right BY <1>1
<1>4. SUFFICES working' # "stopped" => /\ Arrives(HeldPreferences', queue', Asks, right)
                                       /\ working' = "idle" => reported' = preferences'
  BY <1>3 DEF PreferencesArrive, Arrives, About, HeldPreferences
<1>5. working # "stopped" => Arrives(HeldPreferences, queue, Asks, right)
  BY DEF PreferencesArrive
<1>6. UNCHANGED <<preferences, queue>> /\ working # "stopped" => Arrives(HeldPreferences', queue', Asks, right)
  BY <1>5 DEF HeldPreferences
<1> HIDE DEF right
<1>7. CASE Stop BY <1>7 DEF Stop
<1>8. CASE /\ Connect \/ Preferred \/ Processed
           /\ working = "idle" /\ queue # <<>> /\ queue' = Tail(queue)
  <2>1. working' = "idle" => reported' = preferences' BY <1>8, WorkerReconciles
  <2>2. /\ Head(queue) \in Asks => HeldPreferences' = Head(queue)
        /\ Head(queue) \notin Asks => HeldPreferences' = HeldPreferences
    <3>1. CASE Preferred
      <4>1. preferences' = Head(queue).preferences /\ Head(queue).kind = "preferences"
        BY <3>1, WorkerReconciles DEF Preferred
      <4>2. Head(queue) \in Asks
            /\ Head(queue) = [kind |-> "preferences", preferences |-> Head(queue).preferences]
        BY <1>2, <1>8, <4>1, HeadFacts
      <4> QED BY <4>1, <4>2 DEF HeldPreferences
    <3>2. CASE Connect \/ Processed
      <4>1. preferences' = preferences /\ Head(queue).kind # "preferences"
        BY <3>2 DEF Connect, Processed
      <4>2. Head(queue) \notin Asks BY <1>2, <1>8, <4>1, HeadFacts
      <4> QED BY <4>1, <4>2 DEF HeldPreferences
    <3> QED BY <1>8, <3>1, <3>2
  <2>3. Arrives(HeldPreferences', Tail(queue), Asks, right) BY <1>2, <1>5, <1>8, <2>2, MessageTaken
  <2> QED BY <1>8, <2>1, <2>3
<1>9. CASE working = "idle" /\ UNCHANGED <<preferences, queue>> /\ Reconcile(FALSE, requested)
  <2>1. working' = "idle" => reported' = preferences' BY <1>9, ReconcileFacts DEF DiscordTypeOK
  <2> QED BY <1>6, <1>9, <2>1
<1>10. ASSUME NEW fails \in BOOLEAN, Connects(fails) \/ Publish(fails)
       PROVE  working' # "stopped" => /\ Arrives(HeldPreferences', queue', Asks, right)
                                      /\ working' = "idle" => reported' = preferences'
  <2>1. UNCHANGED <<preferences, queue>> /\ working # "stopped" BY <1>10 DEF Connects, Publish, rest
  <2>2. working' = "idle" => reported' = preferences' BY <1>10 DEF Connects, Publish, Fail, Make, Wait
  <2> QED BY <1>6, <2>1, <2>2
<1> QED BY <1>1, <1>7, <1>8, <1>9, <1>10

\* What is right of a process does not depend on the worker.
LEMMA GoodKept ==
    ASSUME NEW i, processes'[i] = processes[i], Telling(i) => Telling(i)'
    PROVE  \A p : Good(i, p) => Good(i, p)'
BY DEF Good

LEMMA WorkProcesses ==
    ASSUME DiscordTypeOK, ProcessesArrive, Work(FALSE) \/ Work(TRUE), UNCHANGED <<processes, children>>
    PROVE  ProcessesArrive'
PROOF
<1>1. /\ UNCHANGED <<configured, wanted>>
      /\ \/ Stop /\ working = "idle" /\ queue # <<>>
         \/ /\ Connect \/ Preferred \/ Processed
            /\ working = "idle" /\ queue # <<>> /\ queue' = Tail(queue) /\ wake' = wake
         \/ /\ working = "idle" /\ UNCHANGED <<preferences, games, queue, requested>>
            /\ (wake /\ wake' = FALSE) \/ (wake' = wake /\ configured)
            /\ Reconcile(FALSE, requested)
         \/ \E fails \in BOOLEAN : Connects(fails) \/ Publish(fails)
  BY WorkerSteps
<1>2. queue \in Seq(Message) /\ games \in [Instances -> Snapshot \cup {None}] BY DEF DiscordTypeOK
<1>3. SUFFICES ASSUME configured, working' # "stopped", NEW i \in Instances
               PROVE  Arrives(HeldProcess(i), queue, Tells(i), {m \in Tells(i) : Good(i, m.process)})'
  BY <1>1 DEF ProcessesArrive
<1> DEFINE right == {m \in Tells(i) : Good(i, m.process)}
<1>4. right' = right BY DEF Good, Telling
<1>5. SUFFICES Arrives(HeldProcess(i)', queue', Tells(i), right)
  BY <1>4 DEF Arrives, About, HeldProcess
<1>6. working # "stopped" => Arrives(HeldProcess(i), queue, Tells(i), right) BY <1>3 DEF ProcessesArrive
<1>7. UNCHANGED <<games, queue>> /\ working # "stopped" => Arrives(HeldProcess(i)', queue', Tells(i), right)
  BY <1>6 DEF HeldProcess
<1> HIDE DEF right
<1>8. CASE Stop BY <1>3, <1>8 DEF Stop
<1>9. CASE /\ Connect \/ Preferred \/ Processed
           /\ working = "idle" /\ queue # <<>> /\ queue' = Tail(queue)
  <2>1. /\ Head(queue) \in Tells(i) => HeldProcess(i)' = Head(queue)
        /\ Head(queue) \notin Tells(i) => HeldProcess(i)' = HeldProcess(i)
    <3>1. CASE Processed
      <4> DEFINE j == Head(queue).instance
                 p == Head(queue).process
      <4>1. games' = [games EXCEPT ![j] = p] /\ Head(queue).kind = "process"
        BY <3>1, WorkerReconciles DEF Processed
      <4>2. j \in Instances /\ Head(queue) = [kind |-> "process", instance |-> j, process |-> p]
            /\ Head(queue) \in Tells(j) /\ (j # i => Head(queue) \notin Tells(i))
        BY <1>2, <1>9, <4>1, HeadFacts
      <4> HIDE DEF j, p
      <4>3. games'[j] = p /\ (j # i => games'[i] = games[i]) BY <1>2, <4>1, <4>2
      <4> QED BY <4>2, <4>3 DEF HeldProcess
    <3>2. CASE Connect \/ Preferred
      <4>1. games' = games /\ Head(queue).kind # "process" BY <3>2 DEF Connect, Preferred
      <4>2. Head(queue) \notin Tells(i) BY <1>2, <1>9, <4>1, HeadFacts
      <4> QED BY <4>1, <4>2 DEF HeldProcess
    <3> QED BY <1>9, <3>1, <3>2
  <2>2. Arrives(HeldProcess(i)', Tail(queue), Tells(i), right) BY <1>2, <1>6, <1>9, <2>1, MessageTaken
  <2> QED BY <1>9, <2>2
<1>10. CASE working = "idle" /\ UNCHANGED <<games, queue>> BY <1>7, <1>10
<1>11. ASSUME NEW fails \in BOOLEAN, Connects(fails) \/ Publish(fails)
       PROVE  Arrives(HeldProcess(i)', queue', Tells(i), right)
  <2>1. UNCHANGED <<games, queue>> /\ working # "stopped" BY <1>11 DEF Connects, Publish, rest
  <2> QED BY <1>7, <2>1
<1> QED BY <1>1, <1>8, <1>9, <1>10, <1>11

\* What is published is the activity there is now, or a wake-up is on its way.
LEMMA WorkShown ==
    ASSUME DiscordTypeOK, ShownFollows, Work(FALSE) \/ Work(TRUE),
           UNCHANGED <<children, bridges, snapshots>>
    PROVE  ShownFollows'
PROOF
<1>1. /\ UNCHANGED <<configured, wanted>>
      /\ \/ Stop /\ working = "idle" /\ queue # <<>>
         \/ /\ Connect \/ Preferred \/ Processed
            /\ working = "idle" /\ queue # <<>> /\ queue' = Tail(queue) /\ wake' = wake
         \/ /\ working = "idle" /\ UNCHANGED <<preferences, games, queue, requested>>
            /\ (wake /\ wake' = FALSE) \/ (wake' = wake /\ configured)
            /\ Reconcile(FALSE, requested)
         \/ \E fails \in BOOLEAN : Connects(fails) \/ Publish(fails)
  BY WorkerSteps
<1>2. Activity(preferences', Winner(games')) = Activity(preferences, Winner(games))'
  BY DEF Activity
<1>3. CASE Stop BY <1>3 DEF Stop, ShownFollows
<1>4. CASE \/ Connect \/ Preferred \/ Processed \/ Reconcile(FALSE, requested)
  <2>1. \/ /\ working' = "send" /\ connection' = "connected"
           /\ activity' = Activity(preferences', Winner(games'))
        \/ working' \in {"connect", "idle"} /\ connection' # "connected"
    BY <1>4, WorkerReconciles
  <2> QED BY <1>2, <2>1 DEF ShownFollows, Current
<1>5. ASSUME NEW fails \in BOOLEAN, Connects(fails) PROVE ShownFollows'
  <2>1. \/ /\ working' = "send" /\ connection' = "connected"
           /\ activity' = Activity(preferences', Winner(games'))
        \/ working' = "idle" /\ connection' # "connected"
    BY <1>5 DEF Connects, Make, Fail, Wait
  <2> QED BY <1>2, <2>1 DEF ShownFollows, Current
<1>6. ASSUME NEW fails \in BOOLEAN, Publish(fails) PROVE ShownFollows'
  <2>1. working' = "idle" /\ working = "send" /\ UNCHANGED <<preferences, games, wake>>
    BY <1>6 DEF Publish, Fail, Wait, rest
  <2>2. CASE fails
    <3>1. connection' = "lost" BY <1>6, <2>2 DEF Publish, Fail
    <3> QED BY <2>1, <3>1 DEF ShownFollows
  <2>3. CASE ~fails
    <3>1. shown' = activity BY <1>6, <2>3 DEF Publish
    <3>2. Current(activity) BY <2>1 DEF ShownFollows
    <3>3. CASE Unsettled
      <4>1. Unsettled' BY <2>1, <3>3 DEF Unsettled, Pending
      <4> QED BY <2>1, <4>1 DEF ShownFollows, Current
    <3>4. CASE activity = Activity(preferences, Winner(games))
      <4>1. shown' = Activity(preferences, Winner(games))' BY <1>2, <2>1, <3>1, <3>4
      <4> QED BY <2>1, <4>1 DEF ShownFollows, Current
    <3> QED BY <3>2, <3>3, <3>4 DEF Current
  <2> QED BY <2>2, <2>3
<1> QED BY <1>1, <1>3, <1>4, <1>5, <1>6

-----------------------------------------------------------------------------
(* What the steps of a game do                                             *)

\* A step of a game reaches the worker by a message or a wake-up only.
LEMMA StepTells ==
    ASSUME NEW g \in Games, Step(g)
    PROVE  /\ UNCHANGED <<configured, preferences, wanted, reported, games, connection, requested,
                          working, activity, shown>>
           /\ wake' = wake \/ wake' = Listens
           /\ UNCHANGED queue \/ TellStarting(g) \/ TellRunning(g) \/ Finished(g)
           /\ TellStarting(g) => TellProcess(g, "starting")
           /\ TellRunning(g) => TellProcess(g, "running")
           /\ Finished(g) => TellProcess(g, "ended")
PROOF
<1> DEFINE Quiet == UNCHANGED <<configured, preferences, wanted, reported, games, connection, requested,
                                working, activity, shown>>
<1> SUFFICES /\ Quiet /\ (wake' = wake \/ wake' = Listens)
             /\ UNCHANGED queue \/ TellStarting(g) \/ TellRunning(g) \/ Finished(g)
  BY DEF TellStarting, TellRunning, Finished
<1>1. CASE TellStarting(g) BY <1>1 DEF TellStarting, discordQuiet
<1>2. CASE TellRunning(g) BY <1>2 DEF TellRunning, discordQuiet
<1>3. CASE Finished(g) BY <1>3 DEF Finished, discordQuiet
<1>4. CASE ExitObserved(g) BY <1>4 DEF ExitObserved, discordQuiet, Wake
<1>5. CASE Observed(g) BY <1>5 DEF Observed, discordQuiet, Wake
<1>6. CASE Clone(g)
  <2>1. CASE UNCHANGED discord BY <2>1 DEF discord
  <2>2. CASE Wake /\ UNCHANGED <<discordQuiet, queue>> BY <2>2 DEF discordQuiet, Wake
  <2> QED BY <1>6, <2>1, <2>2 DEF Clone
<1>7. CASE \/ Launch(g) \/ LaunchFails(g) \/ Record(g) \/ RecordFails(g) \/ Ended(g) \/ CloseBridge(g)
           \/ (\E outcome \in Outcomes : Exit(g, outcome)) \/ (\E place \in Places : Report(g, place))
  <2>1. UNCHANGED discord
    BY <1>7 DEF Launch, LaunchFails, Record, RecordFails, Ended, CloseBridge, Exit, Report, discord
  <2> QED BY <2>1 DEF discord
<1> QED BY <1>1, <1>2, <1>3, <1>4, <1>5, <1>6, <1>7 DEF Step

\* What is told of a game is a message about its instance.
LEMMA ToldFacts ==
    ASSUME NEW g \in Games, children[g].instance \in Instances, NEW status \in Statuses,
           TellProcess(g, status), DiscordTypeOK
    PROVE  \E message \in Message :
             /\ message = [kind |-> "process", instance |-> children[g].instance,
                           process |-> Process(g, status)]
             /\ queue' = IF Listens THEN Append(queue, message) ELSE queue
             /\ queue' \in Seq(Message)
             /\ message \in Tells(children[g].instance) /\ message \notin Asks
             /\ \A i : i # children[g].instance => message \notin Tells(i)
             /\ message.process = Process(g, status)
PROOF
<1> DEFINE message == [kind |-> "process", instance |-> children[g].instance,
                       process |-> Process(g, status)]
<1>1. Process(g, status) \in Snapshot BY DEF Process, Snapshot
<1>2. message \in Message /\ message \in Tells(children[g].instance) BY <1>1 DEF Message, Tells
<1>3. message \notin Asks /\ \A i : i # children[g].instance => message \notin Tells(i)
  BY DEF Asks, Tells
<1>4. message.process = Process(g, status) OBVIOUS
<1>5. queue' = IF Listens THEN Append(queue, message) ELSE queue BY DEF TellProcess, Tell
<1> HIDE DEF message
<1>6. queue' \in Seq(Message)
  <2>1. Append(queue, message) \in Seq(Message) BY <1>2, AppendProperties DEF DiscordTypeOK
  <2> QED BY <1>5, <2>1 DEF DiscordTypeOK
<1> QED BY <1>2, <1>3, <1>4, <1>5, <1>6 DEF message

LEMMA StepTypes ==
    ASSUME GamesInv, Types, ActivityEnds, NEW g \in Games, Step(g)
    PROVE  Types' /\ ActivityEnds'
PROOF
<1>1. Shapes /\ BridgesFollow /\ BridgeFollows(g) BY DEF GamesInv, BridgesFollow
<1>2. /\ children[g].at # "none" /\ children[g].instance \in Instances
      /\ Shapes' /\ \A h \in Games \ {g} : bridges'[h] = bridges[h]
  BY <1>1, StepShapes DEF BridgeFollows
<1>3. DiscordTypeOK'
  <2>1. UNCHANGED <<preferences, wanted, reported, games, connection, requested, working, shown>>
        /\ wake' \in BOOLEAN
    <3>1. Listens \in BOOLEAN BY DEF Listens
    <3> QED BY <3>1, StepTells DEF Types, DiscordTypeOK
  <2>2. queue' \in Seq(Message)
    <3>1. CASE UNCHANGED queue BY <3>1 DEF Types, DiscordTypeOK
    <3>2. CASE \E status \in Statuses : TellProcess(g, status) BY <1>2, <3>2, ToldFacts DEF Types
    <3>3. {"starting", "running", "ended"} \subseteq Statuses BY DEF Statuses
    <3> QED BY <3>1, <3>2, <3>3, StepTells
  <2> QED BY <2>1, <2>2 DEF Types, DiscordTypeOK
<1>4. processes' \in [Instances -> Snapshot \cup {None}]
  <2>1. \A status \in Statuses : Process(g, status) \in Snapshot BY DEF Process, Snapshot
  <2>2. processes' = processes \/ \E status \in Statuses :
            processes' = [processes EXCEPT ![children[g].instance] = Process(g, status)]
    BY DEF Step, TellStarting, Launch, LaunchFails, Record, RecordFails, TellRunning, Exit,
           ExitObserved, Ended, Finished, Report, CloseBridge, Clone, Observed, Statuses
  <2> QED BY <1>2, <2>1, <2>2 DEF Types
<1>5. /\ snapshots' \in [Games -> Places \cup {None}]
      /\ \A h \in Games \ {g} : snapshots'[h] = snapshots[h]
      /\ \/ snapshots'[g] = None
         \/ snapshots'[g] = snapshots[g]
         \/ \E place \in Places : Report(g, place)
  <2>1. \/ snapshots' = snapshots
        \/ snapshots' = [snapshots EXCEPT ![g] = None]
        \/ \E place \in Places : Report(g, place) /\ snapshots' = [snapshots EXCEPT ![g] = place]
    BY DEF Step, TellStarting, Launch, LaunchFails, Record, RecordFails, TellRunning, Exit,
           ExitObserved, Ended, Finished, Report, CloseBridge, Clone, Observed
  <2> QED BY <2>1 DEF Types
<1>6. flawed' \subseteq Games /\ upsets' \in 0 .. (MaxUpsets + MaxFaults)
  <2>1. MaxUpsets \in Nat /\ MaxFaults \in Nat BY SessionBounds
  <2>2. UNCHANGED upsets \/ Upset
    BY DEF Step, TellStarting, Launch, LaunchFails, Record, RecordFails, TellRunning, Exit,
           ExitObserved, Ended, Finished, Report, CloseBridge, Clone, Observed, Spoil, Fine
  <2>3. upsets' \in 0 .. (MaxUpsets + MaxFaults) BY <2>1, <2>2 DEF Types, Upset
  <2>4. flawed' \subseteq flawed \cup {g}
    BY DEF Step, TellStarting, Launch, LaunchFails, Record, RecordFails, TellRunning, Exit,
           ExitObserved, Ended, Finished, Report, CloseBridge, Clone, Observed, Spoil, Fine, records
  <2> QED BY <2>3, <2>4 DEF Types
<1>7. ActivityEnds'
  <2>1. \A h \in Games \ {g} : ~bridges'[h].valid => snapshots'[h] = None
    BY <1>2, <1>5 DEF ActivityEnds
  <2>2. ~bridges'[g].valid => snapshots'[g] = None
    <3>1. CASE snapshots'[g] = None BY <3>1
    <3>2. CASE \E place \in Places : Report(g, place) BY <1>1, <3>2, StepEffects
    <3>3. CASE snapshots'[g] = snapshots[g]
      <4>1. ~bridges'[g].valid => ~bridges[g].valid \/ snapshots'[g] = None
        <5>1. CASE UNCHANGED bridges BY <5>1
        <5>2. CASE TellRunning(g) BY <1>1, <5>2, StepEffects
        <5>3. CASE Clone(g) \/ Observed(g) BY <1>1, <5>3, StepEffects
        <5>4. CASE \E outcome \in Outcomes : Exit(g, outcome)
          <6>1. UNCHANGED bridges \/ snapshots'[g] = None BY <5>4 DEF Exit, Types
          <6> QED BY <6>1
        <5>5. CASE CloseBridge(g)
          <6>1. snapshots'[g] = None BY <5>5 DEF CloseBridge, Types
          <6> QED BY <6>1
        <5>6. CASE \E place \in Places : Report(g, place) BY <1>1, <5>6, StepEffects
        <5> QED BY <5>6, <5>1, <5>2, <5>3, <5>4, <5>5
            DEF Step, TellStarting, Launch, LaunchFails, Record, RecordFails, ExitObserved, Ended,
                Finished, world
      <4> QED BY <3>3, <4>1 DEF ActivityEnds
    <3> QED BY <1>5, <3>1, <3>2, <3>3
  <2> QED BY <2>1, <2>2 DEF ActivityEnds
<1> QED BY <1>3, <1>4, <1>5, <1>6, <1>7 DEF Types

LEMMA StepTrying ==
    ASSUME Types, Unconfigured, Trying, PreferencesArrive, GamesInv, NEW g \in Games, Step(g)
    PROVE  Unconfigured' /\ Trying' /\ PreferencesArrive'
PROOF
<1>1. /\ UNCHANGED <<configured, preferences, wanted, reported, games, connection, requested,
                     working, activity, shown>>
      /\ wake' = wake \/ wake' = Listens
      /\ UNCHANGED queue \/ \E status \in Statuses : TellProcess(g, status)
  BY StepTells DEF Statuses
<1>2. configured \in BOOLEAN BY DEF GamesInv, Shapes
<1>3. Trying' BY <1>1 DEF Trying
<1>4. Unconfigured'
  <2>1. CASE ~configured
    <3>1. ~Listens BY <2>1 DEF Listens
    <3>2. ~wake' BY <1>1, <2>1, <3>1 DEF Unconfigured
    <3>3. queue' = queue BY <1>1, <3>1 DEF TellProcess, Tell
    <3> QED BY <1>1, <2>1, <3>2, <3>3 DEF Unconfigured
  <2>2. CASE configured
    <3>1. configured' BY <1>1, <2>2
    <3> QED BY <3>1, Zenon DEF Unconfigured
  <2> QED BY <2>1, <2>2
<1>5. PreferencesArrive'
  <2> DEFINE right == {m \in Asks : m.preferences = wanted}
  <2>1. SUFFICES ASSUME working # "stopped"
                 PROVE  /\ Arrives(HeldPreferences, queue', Asks, right)
                        /\ working = "idle" /\ About(queue', Asks) = {} => reported = preferences
    BY <1>1 DEF PreferencesArrive, Arrives, About, HeldPreferences
  <2>2. /\ Arrives(HeldPreferences, queue, Asks, right)
        /\ working = "idle" /\ About(queue, Asks) = {} => reported = preferences
    BY <2>1 DEF PreferencesArrive
  <2> HIDE DEF right
  <2>3. CASE UNCHANGED queue BY <2>2, <2>3
  <2>4. ASSUME NEW status \in Statuses, TellProcess(g, status), ~UNCHANGED queue
        PROVE  /\ Arrives(HeldPreferences, queue', Asks, right)
               /\ working = "idle" /\ About(queue', Asks) = {} => reported = preferences
    <3>1. children[g].instance \in Instances BY StepShapes DEF GamesInv, BridgesFollow, BridgeFollows
    <3>2. PICK message \in Message : /\ queue' = IF Listens THEN Append(queue, message) ELSE queue
                                     /\ message \notin Asks
      BY <2>4, <3>1, ToldFacts DEF Types
    <3>3. queue' = Append(queue, message) BY <2>4, <3>2
    <3>4. queue \in Seq(Message) BY DEF Types, DiscordTypeOK
    <3> QED BY <2>2, <3>2, <3>3, <3>4, MessageTold
  <2> QED BY <1>1, <2>3, <2>4
<1> QED BY <1>3, <1>4, <1>5

LEMMA ProcessShape ==
    ASSUME NEW g, NEW status
    PROVE  /\ Process(g, status).game = g /\ Process(g, status).status = status
           /\ \A h, other : Process(g, status) = Process(h, other) => g = h /\ status = other
BY DEF Process

\* A game that goes on keeps its process state, and an ended one gives way.
LEMMA StepProcess ==
    ASSUME GamesInv, Types, \A h \in Games : ProcessFollows(h), NEW g \in Games, Step(g)
    PROVE  \A h \in Games : ProcessFollows(h)'
PROOF
<1> DEFINE i == children[g].instance
<1>1. Shapes /\ BridgesFollow BY DEF GamesInv
<1>2. /\ \A h \in Games \ {g} : children'[h] = children[h]
      /\ children'[g].instance = i /\ children[g].at # "none" /\ i \in Instances
  BY <1>1, StepShapes DEF BridgesFollow, BridgeFollows
<1>3. /\ UNCHANGED processes
      \/ \E status \in Statuses : processes' = [processes EXCEPT ![i] = Process(g, status)]
         /\ children[g].at \in {"launch", "draining"}
  BY DEF Step, TellStarting, Launch, LaunchFails, Record, RecordFails, TellRunning, Exit,
         ExitObserved, Ended, Finished, Report, CloseBridge, Clone, Observed, Statuses
<1>4. \E status \in Statuses : children[g].at \in {"launch", "draining"} =>
          processes[i] = Process(g, status) /\ status # "ended"
  BY DEF ProcessFollows, Live, Statuses
<1>5. ASSUME NEW h \in Games, h # g PROVE ProcessFollows(h)'
  <2>1. children'[h] = children[h] BY <1>2, <1>5
  <2>2. ProcessFollows(h) OBVIOUS
  <2>3. CASE processes'[children[h].instance] = processes[children[h].instance]
    BY <2>1, <2>2, <2>3 DEF ProcessFollows
  <2>4. CASE processes'[children[h].instance] # processes[children[h].instance]
    <3>1. PICK status \in Statuses : processes' = [processes EXCEPT ![i] = Process(g, status)]
                                     /\ children[g].at \in {"launch", "draining"}
      BY <1>3, <2>4
    <3>2. children[h].instance = i /\ processes'[i] = Process(g, status)
      BY <1>2, <2>4, <3>1 DEF Types
    <3>3. PICK former \in Statuses : processes[i] = Process(g, former) /\ former # "ended"
      BY <1>4, <3>1
    <3>4. children[h].at \notin Live BY <1>5, <2>2, <3>2, <3>3, ProcessShape DEF ProcessFollows
    <3>5. children[h].at = "finishing" => h < g
      BY <2>2, <3>2, <3>3, ProcessShape DEF ProcessFollows
    <3>6. processes'[i] # None
      BY <3>2, NoneIsNothing DEF Process, Snapshot, Statuses
    <3> QED BY <2>1, <3>2, <3>4, <3>5, <3>6, ProcessShape DEF ProcessFollows
  <2> QED BY <2>3, <2>4
<1>6. ProcessFollows(g)'
  <2>1. ProcessFollows(g) OBVIOUS
  <2>2. CASE UNCHANGED <<processes, children>> BY <2>1, <2>2 DEF ProcessFollows
  <2> USE <1>2 DEF ProcessFollows, Live
  <2>3. CASE TellStarting(g)
    <3>1. processes' = processes BY <2>3 DEF TellStarting
    <3> QED BY <1>1, <2>1, <2>3, <3>1, StepEffects
  <2>4. CASE Launch(g)
    <3>1. processes'[i] = Process(g, "running") BY <2>4 DEF Launch, Types
    <3> QED BY <1>1, <2>4, <3>1, StepEffects
  <2>5. CASE LaunchFails(g)
    <3>1. processes'[i] = Process(g, "ended") BY <2>5 DEF LaunchFails, Types
    <3> QED BY <1>1, <2>5, <3>1, StepEffects
  <2>6. CASE Record(g) \/ RecordFails(g)
    <3>1. processes' = processes BY <2>6 DEF Record, RecordFails
    <3> QED BY <1>1, <2>1, <2>6, <3>1, StepEffects
  <2>7. CASE TellRunning(g)
    <3>1. processes' = processes BY <2>7 DEF TellRunning
    <3> QED BY <1>1, <2>1, <2>7, <3>1, StepEffects
  <2>8. CASE \E outcome \in Outcomes : Exit(g, outcome)
    <3>1. processes' = processes BY <2>8 DEF Exit
    <3>2. children[g].at = "playing" /\ children'[g].at \in {"observing", "draining"}
      BY <1>1, <2>8, StepEffects
    <3> QED BY <2>1, <3>1, <3>2
  <2>9. CASE ExitObserved(g)
    <3>1. processes' = processes BY <2>9 DEF ExitObserved
    <3> QED BY <1>1, <2>1, <2>9, <3>1, StepEffects
  <2>10. CASE Ended(g)
    <3>1. processes'[i] = Process(g, "ended") BY <2>10 DEF Ended, Types
    <3> QED BY <1>1, <2>10, <3>1, StepEffects
  <2>11. CASE Finished(g)
    <3>1. children'[g].at = "done" BY <1>1, <2>11, StepEffects
    <3> QED BY <3>1
  <2>12. CASE (\E place \in Places : Report(g, place)) \/ CloseBridge(g) \/ Clone(g) \/ Observed(g)
    BY <2>2, <2>12 DEF Report, CloseBridge, Clone, Observed
  <2> QED BY <2>3, <2>4, <2>5, <2>6, <2>7, <2>8, <2>9, <2>10, <2>11, <2>12 DEF Step
<1> QED BY <1>5, <1>6

LEMMA StepProcesses ==
    ASSUME GamesInv, Types, \A h \in Games : ProcessFollows(h), ProcessesArrive,
           NEW g \in Games, Step(g)
    PROVE  ProcessesArrive'
PROOF
<1>1. Shapes /\ BridgesFollow BY DEF GamesInv
<1>2. /\ \A h \in Games \ {g} : children'[h] = children[h]
      /\ children'[g].instance = children[g].instance /\ children[g].at # "none"
      /\ children[g].instance \in Instances
  BY <1>1, StepShapes DEF BridgesFollow, BridgeFollows
<1>3. UNCHANGED <<configured, games, working>> BY StepTells
<1>4. SUFFICES ASSUME configured, working # "stopped", NEW i \in Instances
               PROVE  Arrives(HeldProcess(i), queue, Tells(i), {m \in Tells(i) : Good(i, m.process)})'
  BY <1>3 DEF ProcessesArrive
<1> DEFINE right == {m \in Tells(i) : Good(i, m.process)}
           held == HeldProcess(i)
<1>5. SUFFICES Arrives(held, queue', Tells(i), right')
  BY <1>3 DEF Arrives, About, HeldProcess
<1>6. Arrives(held, queue, Tells(i), right) /\ Listens /\ ~Readable
  BY <1>4 DEF ProcessesArrive, Listens, Readable
<1>7. queue \in Seq(Message) BY DEF Types, DiscordTypeOK
<1>8. ASSUME right \subseteq right' PROVE Arrives(held, queue, Tells(i), right')
  <2> HIDE DEF right, held
  <2> QED BY <1>6, <1>8 DEF Arrives
<1>9. ASSUME NEW status \in Statuses, children[g].instance = i, TellProcess(g, status),
             Good(i, Process(g, status))'
      PROVE  Arrives(held, queue', Tells(i), right')
  <2>1. PICK message \in Message :
           /\ queue' = IF Listens THEN Append(queue, message) ELSE queue
           /\ message \in Tells(i) /\ message.process = Process(g, status)
    BY <1>2, <1>9, ToldFacts DEF Types
  <2>2. message \in right'
    <3>1. Good(i, message.process)' BY <1>9, <2>1
    <3> QED BY <2>1, <3>1 DEF Good, Telling
  <2>3. queue' = Append(queue, message) BY <1>6, <2>1
  <2> HIDE DEF right, held
  <2> QED BY <1>7, <2>1, <2>2, <2>3, MessageTold
<1>10. CASE i # children[g].instance
  <2>1. processes'[i] = processes[i]
    <3>1. \/ UNCHANGED processes
          \/ \E status : processes' = [processes EXCEPT ![children[g].instance] = Process(g, status)]
      BY DEF Step, TellStarting, Launch, LaunchFails, Record, RecordFails, TellRunning, Exit,
             ExitObserved, Ended, Finished, Report, CloseBridge, Clone, Observed
    <3> QED BY <1>10, <3>1 DEF Types
  <2>2. Telling(i) => Telling(i)' BY <1>2, <1>10 DEF Telling
  <2>3. right \subseteq right' BY <2>1, <2>2, GoodKept
  <2>4. Arrives(held, queue, Tells(i), right') BY <2>3, <1>8
  <2>5. CASE UNCHANGED queue BY <2>4, <2>5
  <2>6. ASSUME NEW status \in Statuses, TellProcess(g, status)
        PROVE  Arrives(held, queue', Tells(i), right')
    <3>1. PICK message \in Message : /\ queue' = IF Listens THEN Append(queue, message) ELSE queue
                                     /\ message \notin Tells(i)
      BY <1>2, <1>10, <2>6, ToldFacts DEF Types
    <3>2. queue' = Append(queue, message) BY <1>6, <3>1
    <3> HIDE DEF right, held
    <3> QED BY <1>7, <2>4, <3>1, <3>2, MessageTold
  <2> QED BY <2>5, <2>6, StepTells DEF Statuses
<1>11. CASE i = children[g].instance
  <2> USE <1>11
  <2>1. ProcessFollows(g) OBVIOUS
  <2>2. CASE TellStarting(g)
    <3>1. TellProcess(g, "starting") /\ processes' = processes /\ children[g].at = "starting"
      BY <2>2, StepTells DEF TellStarting
    <3>2. processes'[i] = Process(g, "starting") BY <2>1, <3>1 DEF ProcessFollows, Live
    <3>3. Good(i, Process(g, "starting"))' BY <3>2 DEF Good, Process
    <3> QED BY <1>9, <3>1, <3>3 DEF Statuses
  <2>3. CASE TellRunning(g)
    <3>1. TellProcess(g, "running") /\ processes' = processes /\ children[g].at = "spawned"
      BY <1>6, <2>3, StepTells DEF TellRunning
    <3>2. processes'[i] = Process(g, "running") BY <2>1, <3>1 DEF ProcessFollows, Live
    <3>3. Good(i, Process(g, "running"))' BY <3>2 DEF Good, Process
    <3> QED BY <1>9, <3>1, <3>3 DEF Statuses
  <2>4. CASE Finished(g)
    <3>1. TellProcess(g, "ended") /\ processes' = processes /\ children[g].at = "finishing"
      BY <2>4, StepTells DEF Finished
    <3>2. processes'[i] = Process(g, "ended") \/ (processes'[i] # None /\ g < processes'[i].game)
      BY <2>1, <3>1 DEF ProcessFollows
    <3>3. Process(g, "ended") # None /\ ~Blocks(Process(g, "ended").status)
          /\ Process(g, "ended").game = g
      <4>1. Process(g, "ended") \in Snapshot BY DEF Process, Snapshot, Statuses
      <4> QED BY <4>1, NoneIsNothing, ProcessShape DEF Blocks
    <3>4. Good(i, Process(g, "ended"))'
      <4> DEFINE p == Process(g, "ended")
      <4>1. CASE processes'[i] = p BY <4>1 DEF Good, Process
      <4>2. CASE processes'[i] # None /\ g < processes'[i].game
        BY <3>3, <4>2 DEF Good, Process
      <4> QED BY <3>2, <4>1, <4>2
    <3> QED BY <1>9, <3>1, <3>4 DEF Statuses
  <2>5. CASE /\ ~TellStarting(g) /\ ~TellRunning(g) /\ ~Finished(g)
    <3>1. queue' = queue BY <2>5, StepTells
    <3>2. SUFFICES right \subseteq right' BY <3>1, <1>8
    <3>3. SUFFICES \A p : Good(i, p) => Good(i, p)' OBVIOUS
    <3>4. CASE Launch(g) \/ LaunchFails(g) \/ Ended(g)
      <4>1. children'[g].at \in {"spawned", "finishing"} BY <1>1, <3>4, StepEffects
      <4>2. Telling(i)' BY <1>2, <4>1 DEF Telling
      <4> QED BY <4>2 DEF Good
    <3>5. CASE \/ ExitObserved(g) \/ (\E outcome \in Outcomes : Exit(g, outcome))
               \/ (\E place \in Places : Report(g, place)) \/ CloseBridge(g) \/ Clone(g) \/ Observed(g)
      <4>1. processes' = processes
        BY <3>5 DEF ExitObserved, Exit, Report, CloseBridge, Clone, Observed
      <4>2. children' = children \/ children[g].at \in {"observing", "playing"}
        BY <3>5 DEF ExitObserved, Exit, Report, CloseBridge, Clone, Observed
      <4>3. Telling(i) => Telling(i)' BY <1>2, <4>2 DEF Telling
      <4> QED BY <4>1, <4>3, GoodKept
    <3>6. ~Record(g) /\ ~RecordFails(g) BY <1>6 DEF Record, RecordFails
    <3> QED BY <2>5, <3>4, <3>5, <3>6 DEF Step
  <2> QED BY <2>2, <2>3, <2>4, <2>5
<1> QED BY <1>10, <1>11

\* Whatever changes what a game reports leaves a wake-up, or is about to.
LEMMA StepShown ==
    ASSUME GamesInv, Types, Unconfigured, ShownFollows, NEW g \in Games, Step(g)
    PROVE  ShownFollows'
PROOF
<1>1. Shapes /\ BridgesFollow /\ BridgeFollows(g) BY DEF GamesInv, BridgesFollow
<1>2. /\ \A h \in Games \ {g} : children'[h] = children[h] /\ bridges'[h] = bridges[h]
      /\ children[g].at # "none"
  BY <1>1, StepShapes
<1>3. /\ UNCHANGED <<configured, preferences, games, connection, working, activity, shown>>
      /\ wake' = wake \/ wake' = Listens
  BY StepTells
<1>4. connection = "connected" /\ working # "stopped" => Listens
  BY DEF Unconfigured, Listens
<1>5. SUFFICES ASSUME Listens PROVE Unsettled' \/ (snapshots' = snapshots /\ (Unsettled => Unsettled'))
  <2>1. ASSUME Listens, NEW act, Current(act) PROVE Current(act)'
    <3>1. CASE Unsettled' BY <3>1 DEF Current
    <3>2. CASE snapshots' = snapshots /\ act = Activity(preferences, Winner(games))
      <4>1. act = Activity(preferences, Winner(games))' BY <1>3, <3>2 DEF Activity
      <4> QED BY <4>1 DEF Current
    <3> QED BY <1>5, <2>1, <3>1, <3>2 DEF Current
  <2>2. working' = "send" => connection' = "connected" /\ Current(activity)'
    <3> SUFFICES ASSUME working' = "send" PROVE connection' = "connected" /\ Current(activity)'
      OBVIOUS
    <3>1. connection = "connected" /\ working = "send" /\ Current(activity) BY <1>3 DEF ShownFollows
    <3>2. PICK act : act = activity OBVIOUS
    <3>3. Current(act)' BY <1>4, <2>1, <3>1, <3>2
    <3> QED BY <1>3, <3>1, <3>2, <3>3 DEF Current
  <2>3. working' = "idle" /\ connection' = "connected" => Current(shown)'
    <3> SUFFICES ASSUME working' = "idle", connection' = "connected" PROVE Current(shown)'
      OBVIOUS
    <3>1. connection = "connected" /\ working = "idle" /\ Current(shown) BY <1>3 DEF ShownFollows
    <3>2. PICK act : act = shown OBVIOUS
    <3>3. Current(act)' BY <1>4, <2>1, <3>1, <3>2
    <3> QED BY <1>3, <3>2, <3>3 DEF Current
  <2>4. working' = "connect" => connection' # "connected" BY <1>3 DEF ShownFollows
  <2> QED BY <2>2, <2>3, <2>4 DEF ShownFollows
<1>6. wake' = Listens => Unsettled' BY <1>5 DEF Unsettled
<1>7. Pending(g)' \/ children'[g].at = "observing" => Unsettled' BY DEF Unsettled
<1>8. ASSUME wake' = wake, Pending(g) => Pending(g)', children[g].at # "observing"
      PROVE  Unsettled => Unsettled'
  BY <1>2, <1>8 DEF Unsettled, Pending
<1>9. CASE ExitObserved(g) \/ Observed(g) BY <1>6, <1>9 DEF ExitObserved, Observed, Wake
<1>10. CASE (\E place \in Places : Report(g, place)) \/ CloseBridge(g)
  <2>1. Pending(g)' BY <1>1, <1>10, StepEffects DEF Pending
  <2> QED BY <1>7, <2>1
<1>11. CASE Clone(g)
  <2>1. CASE recorders[g].active
    <3>1. Pending(g)' BY <1>1, <1>11, <2>1, StepEffects DEF Pending
    <3> QED BY <1>7, <3>1
  <2>2. CASE ~recorders[g].active BY <1>6, <1>11, <2>2 DEF Clone, Wake
  <2> QED BY <2>1, <2>2
<1>12. CASE \E outcome \in Outcomes : Exit(g, outcome)
  <2>1. PICK outcome \in Outcomes : Exit(g, outcome) BY <1>12
  <2>2. CASE children[g].instance \in Bridged
    <3>1. children'[g].at = "observing" BY <1>1, <2>1, <2>2, StepEffects
    <3> QED BY <1>7, <3>1
  <2>3. CASE children[g].instance \notin Bridged
    <3>1. UNCHANGED <<wake, bridges, snapshots>> /\ children[g].at = "playing"
      BY <2>1, <2>3 DEF Exit, discord
    <3> QED BY <1>8, <3>1 DEF Pending
  <2> QED BY <2>2, <2>3
<1>13. CASE TellRunning(g)
  <2>1. UNCHANGED <<wake, snapshots>> /\ children[g].at \in {"spawned", "telling"}
    BY <1>13 DEF TellRunning
  <2>2. ~Pending(g) BY <1>1, <2>1 DEF BridgeFollows, Following, Pending
  <2> QED BY <1>8, <2>1, <2>2
<1>14. CASE TellStarting(g) \/ Finished(g)
  <2>1. UNCHANGED <<wake, bridges, snapshots>> /\ children[g].at \in {"starting", "finishing"}
    BY <1>14 DEF TellStarting, Finished
  <2> QED BY <1>8, <2>1 DEF Pending
<1>15. CASE Launch(g) \/ LaunchFails(g) \/ Record(g) \/ RecordFails(g) \/ Ended(g)
  <2>1. /\ UNCHANGED <<wake, bridges, snapshots>>
        /\ children[g].at \in {"launch", "spawned", "draining"}
    BY <1>15 DEF Launch, LaunchFails, Record, RecordFails, Ended, discord
  <2> QED BY <1>8, <2>1 DEF Pending
<1> QED BY <1>9, <1>10, <1>11, <1>12, <1>13, <1>14, <1>15 DEF Step

-----------------------------------------------------------------------------
(* The launcher, and what the presence is held to                          *)

LEMMA StartPresence ==
    ASSUME GamesInv, PresenceInv, NEW g \in Games, NEW i \in Instances, Start(i, g)
    PROVE  PresenceInv'
PROOF
<1>1. /\ children[g].at = "none" /\ ~bridges[g].valid /\ bridges[g].at = "none"
      /\ \A h \in Games : children[h].at # "none" => h < g
      /\ \A h \in Games \ {g} : children'[h] = children[h] /\ bridges'[h] = bridges[h]
      /\ children'[g].at = "starting" /\ children'[g].instance = i
      /\ bridges'[g].at = bridges[g].at
  BY StartFacts
<1>2. /\ UNCHANGED <<configured, preferences, wanted, reported, queue, wake, games, connection,
                     requested, working, activity, shown, snapshots, flawed, upsets>>
      /\ processes' = [processes EXCEPT ![i] = Process(g, "starting")]
      /\ processes[i] # None => ~Blocks(processes[i].status)
  BY DEF Start, discord, records
<1>3. Process(g, "starting") \in Snapshot BY DEF Process, Snapshot, Statuses
<1>4. Types'
  <2>1. processes' \in [Instances -> Snapshot \cup {None}] BY <1>2, <1>3 DEF PresenceInv, Types
  <2> QED BY <1>2, <2>1 DEF PresenceInv, Types, DiscordTypeOK
<1>5. processes'[i] = Process(g, "starting") /\ \A j \in Instances : j # i => processes'[j] = processes[j]
  BY <1>2 DEF PresenceInv, Types
<1>6. ActivityEnds' BY <1>1, <1>2 DEF PresenceInv, ActivityEnds
<1>7. Unconfigured' /\ Trying' /\ PreferencesArrive'
  BY <1>2 DEF PresenceInv, Unconfigured, Trying, PreferencesArrive, Arrives, About, HeldPreferences
<1>8. ASSUME NEW h \in Games PROVE ProcessFollows(h)'
  <2>1. CASE h = g BY <1>1, <1>5, <2>1 DEF ProcessFollows, Live
  <2>2. CASE h # g
    <3>1. children'[h] = children[h] /\ ProcessFollows(h) BY <1>1, <2>2 DEF PresenceInv
    <3>2. children[h].at # "none" => children[h].instance \in Instances /\ h < g
      BY <1>1 DEF GamesInv, BridgesFollow, BridgeFollows
    <3>3. CASE children[h].instance # i
      BY <1>5, <3>1, <3>2, <3>3 DEF ProcessFollows, Live
    <3>4. CASE children[h].instance = i
      <4>1. children[h].at \notin Live
        <5> SUFFICES ASSUME children[h].at \in Live PROVE FALSE OBVIOUS
        <5>1. PICK status \in {"starting", "running"} : processes[i] = Process(h, status)
          BY <3>1, <3>4 DEF ProcessFollows
        <5>2. Process(h, status) \in Snapshot BY DEF Process, Snapshot, Statuses
        <5>3. Process(h, status) # None BY <5>2, NoneIsNothing
        <5>4. Blocks(processes[i].status) BY <5>1, ProcessShape DEF Blocks
        <5> QED BY <1>2, <5>1, <5>3, <5>4
      <4>2. children[h].at = "finishing" => processes'[i] # None /\ h < processes'[i].game
        <5>1. Process(g, "starting") # None BY <1>3, NoneIsNothing
        <5> QED BY <1>5, <3>2, <5>1, ProcessShape
      <4> QED BY <3>1, <3>4, <4>1, <4>2 DEF ProcessFollows
    <3> QED BY <3>3, <3>4
  <2> QED BY <2>1, <2>2
<1>9. ProcessesArrive'
  <2> SUFFICES ASSUME configured, working # "stopped", NEW j \in Instances
               PROVE  Arrives(HeldProcess(j), queue, Tells(j), {m \in Tells(j) : Good(j, m.process)})'
    BY <1>2 DEF ProcessesArrive
  <2> DEFINE right == {m \in Tells(j) : Good(j, m.process)}
  <2>1. Arrives(HeldProcess(j), queue, Tells(j), right) BY DEF PresenceInv, ProcessesArrive
  <2>2. \A p : Good(j, p) => Good(j, p)'
    <3>1. CASE j = i
      <4>1. Telling(j)' BY <1>1, <3>1 DEF Telling
      <4> QED BY <4>1 DEF Good
    <3>2. CASE j # i
      <4>1. Telling(j) => Telling(j)' BY <1>1 DEF Telling
      <4> QED BY <1>5, <3>2, <4>1, GoodKept
    <3> QED BY <3>1, <3>2
  <2>3. right \subseteq right' BY <2>2
  <2>4. Arrives(HeldProcess(j), queue, Tells(j), right')
    <3> HIDE DEF right
    <3> QED BY <2>1, <2>3 DEF Arrives
  <2> QED BY <1>2, <2>4 DEF Arrives, About, HeldProcess
<1>10. ShownFollows'
  <2>1. Unsettled => Unsettled' BY <1>1, <1>2 DEF Unsettled, Pending
  <2>2. Activity(preferences, Winner(games))' = Activity(preferences, Winner(games))
    BY <1>2 DEF Activity
  <2> QED BY <1>2, <2>1, <2>2 DEF PresenceInv, ShownFollows, Current
<1> QED BY <1>4, <1>6, <1>7, <1>8, <1>9, <1>10 DEF PresenceInv

\* The user asks: what is saved is told last.
LEMMA UserPresence ==
    ASSUME GamesInv, PresenceInv, User
    PROVE  PresenceInv'
PROOF
<1>1. /\ configured /\ configured' = configured
      /\ UNCHANGED <<preferences, wake, games, connection, requested, working, activity, shown>>
      /\ UNCHANGED <<processes, children, bridges, snapshots, flawed>>
      /\ upsets' \in 0 .. (MaxUpsets + MaxFaults)
  <2>1. upsets' \in 0 .. (MaxUpsets + MaxFaults)
    BY SessionBounds DEF User, Upset, PresenceInv, Types
  <2> QED BY <2>1 DEF User, SetPreferences, Ask, world, records
<1>2. queue \in Seq(Message) /\ Listens \in BOOLEAN BY DEF PresenceInv, Types, DiscordTypeOK, Listens
<1>3. \E message \in Message :
        /\ queue' = IF Listens THEN Append(queue, message) ELSE queue
        /\ \A i : message \notin Tells(i)
        /\ \/ UNCHANGED <<wanted, reported>> /\ message \notin Asks
           \/ /\ wanted' \in Preferences /\ reported' = wanted'
              /\ message \in Asks /\ message.preferences = wanted'
  <2>1. CASE SetPreferences
    <3>1. wanted' \in Preferences /\ reported' = wanted'
          /\ Tell([kind |-> "preferences", preferences |-> wanted'])
      BY <2>1 DEF SetPreferences
    <3>2. PICK message : message = [kind |-> "preferences", preferences |-> wanted'] OBVIOUS
    <3>3. message \in Message /\ message \in Asks /\ message.preferences = wanted'
          /\ \A i : message \notin Tells(i)
      BY <3>1, <3>2 DEF Message, Asks, Tells
    <3> QED BY <3>1, <3>2, <3>3 DEF Tell
  <2>2. ASSUME NEW kind \in {"connect", "shutdown"}, Ask(kind)
        PROVE  \E message \in Message :
                 /\ queue' = IF Listens THEN Append(queue, message) ELSE queue
                 /\ \A i : message \notin Tells(i)
                 /\ UNCHANGED <<wanted, reported>> /\ message \notin Asks
    <3>1. PICK message : message = [kind |-> kind] OBVIOUS
    <3>2. message \in Message BY <3>1 DEF Message
    <3>3. message \notin Asks /\ \A i : message \notin Tells(i) BY <3>1 DEF Asks, Tells
    <3> QED BY <2>2, <3>1, <3>2, <3>3 DEF Ask, Tell
  <2> QED BY <2>1, <2>2 DEF User
<1>4. PICK message \in Message :
        /\ queue' = IF Listens THEN Append(queue, message) ELSE queue
        /\ \A i : message \notin Tells(i)
        /\ \/ UNCHANGED <<wanted, reported>> /\ message \notin Asks
           \/ /\ wanted' \in Preferences /\ reported' = wanted'
              /\ message \in Asks /\ message.preferences = wanted'
  BY <1>3
<1>5. Types'
  <2>1. Append(queue, message) \in Seq(Message) BY <1>2, AppendProperties
  <2>2. queue' \in Seq(Message) /\ {wanted', reported'} \subseteq Preferences
    BY <1>2, <1>4, <2>1 DEF PresenceInv, Types, DiscordTypeOK
  <2> QED BY <1>1, <2>2 DEF PresenceInv, Types, DiscordTypeOK
<1>6. ActivityEnds' /\ Trying' /\ \A h \in Games : ProcessFollows(h)'
  BY <1>1 DEF PresenceInv, ActivityEnds, Trying, ProcessFollows
<1>7. Unconfigured'
  <2>1. configured' BY <1>1
  <2> QED BY <2>1, Zenon DEF Unconfigured
<1>8. PreferencesArrive'
  <2> SUFFICES ASSUME working # "stopped"
               PROVE  /\ Arrives(HeldPreferences, queue', Asks, {m \in Asks : m.preferences = wanted'})
                      /\ working = "idle" /\ About(queue', Asks) = {} => reported' = preferences
    BY <1>1 DEF PreferencesArrive, Arrives, About, HeldPreferences
  <2> DEFINE right == {m \in Asks : m.preferences = wanted'}
  <2>1. queue' = Append(queue, message) BY <1>1, <1>4 DEF Listens
  <2>2. CASE UNCHANGED <<wanted, reported>> /\ message \notin Asks
    <3>1. /\ Arrives(HeldPreferences, queue, Asks, right)
          /\ working = "idle" /\ About(queue, Asks) = {} => reported = preferences
      BY <2>2 DEF PresenceInv, PreferencesArrive
    <3> HIDE DEF right
    <3>2. /\ Arrives(HeldPreferences, queue', Asks, right)
          /\ About(queue', Asks) = About(queue, Asks)
      BY <1>2, <2>1, <2>2, <3>1, MessageTold
    <3> QED BY <2>2, <3>1, <3>2 DEF right
  <2>3. CASE message \in Asks /\ message.preferences = wanted'
    <3>1. message \in right BY <2>3
    <3> HIDE DEF right
    <3>2. Arrives(HeldPreferences, queue', Asks, right) /\ About(queue', Asks) # {}
      BY <1>2, <2>1, <2>3, <3>1, MessageTold
    <3> QED BY <3>2 DEF right
  <2> QED BY <1>4, <2>2, <2>3
<1>9. ProcessesArrive'
  <2> SUFFICES ASSUME configured, working # "stopped", NEW i \in Instances
               PROVE  Arrives(HeldProcess(i), queue, Tells(i), {m \in Tells(i) : Good(i, m.process)})'
    BY <1>1 DEF ProcessesArrive
  <2> DEFINE right == {m \in Tells(i) : Good(i, m.process)}
  <2>1. Arrives(HeldProcess(i), queue, Tells(i), right) BY DEF PresenceInv, ProcessesArrive
  <2>2. queue' = Append(queue, message) /\ message \notin Tells(i) BY <1>4 DEF Listens
  <2>3. right' = right BY <1>1 DEF Good, Telling
  <2>4. Arrives(HeldProcess(i), queue', Tells(i), right)
    <3> HIDE DEF right
    <3> QED BY <1>2, <2>1, <2>2, MessageTold
  <2> QED BY <1>1, <2>3, <2>4 DEF Arrives, About, HeldProcess
<1>10. ShownFollows'
  <2>1. Unsettled => Unsettled' BY <1>1 DEF Unsettled, Pending
  <2>2. Activity(preferences, Winner(games))' = Activity(preferences, Winner(games))
    BY <1>1 DEF Activity
  <2> QED BY <1>1, <2>1, <2>2 DEF PresenceInv, ShownFollows, Current
<1> QED BY <1>5, <1>6, <1>7, <1>8, <1>9, <1>10 DEF PresenceInv

\* A launcher that has just started has told everything there is.
JustStarted ==
    /\ queue = <<>> /\ wake = FALSE /\ connection = "ready" /\ working = "idle" /\ shown = None
    /\ preferences = wanted /\ reported = wanted /\ requested = wanted.enabled
    /\ wanted \in Preferences
    /\ processes = [i \in Instances |-> None] /\ games = [i \in Instances |-> None]
    /\ snapshots = [g \in Games |-> None] /\ flawed \subseteq Games
    /\ upsets \in 0 .. (MaxUpsets + MaxFaults)
    /\ \A g \in Games : children[g].at \in {"none", "done"}

LEMMA FreshPresence == JustStarted => PresenceInv
PROOF
<1> SUFFICES ASSUME JustStarted PROVE PresenceInv OBVIOUS
<1> USE DEF JustStarted
<1>1. wanted.enabled \in BOOLEAN
  <2>1. Preferences \subseteq [enabled : BOOLEAN, place : BOOLEAN] BY DEF Preferences, Off, On
  <2> QED BY <2>1
<1>2. Types
  <2>1. requested \in BOOLEAN /\ wake \in BOOLEAN BY <1>1
  <2>2. queue \in Seq(Message) BY EmptySeq
  <2> QED BY <2>1, <2>2 DEF Types, DiscordTypeOK
<1>3. ActivityEnds /\ \A g \in Games : ProcessFollows(g) BY DEF ActivityEnds, ProcessFollows, Live
<1>4. ~wake /\ (preferences.enabled => requested) OBVIOUS
<1>5. Unconfigured /\ Trying
  <2>1. Trying BY <1>4, Zenon DEF Trying
  <2>2. Unconfigured BY <1>4 DEF Unconfigured
  <2> QED BY <2>1, <2>2
<1>6. \A messages : About(queue, messages) = {}
  <2>1. DOMAIN queue = {} OBVIOUS
  <2> QED BY <2>1 DEF About
<1>7. PreferencesArrive BY <1>6 DEF PreferencesArrive, Arrives, HeldPreferences, Asks
<1>8. ProcessesArrive BY <1>6 DEF ProcessesArrive, Arrives, HeldProcess, Tells, Good
<1>9. ShownFollows BY DEF ShownFollows
<1> QED BY <1>2, <1>3, <1>5, <1>7, <1>8, <1>9 DEF PresenceInv

LEMMA RestartPresence ==
    ASSUME GamesInv, PresenceInv, Restart
    PROVE  PresenceInv'
PROOF
<1>1. upsets' \in 0 .. (MaxUpsets + MaxFaults)
  BY SessionBounds DEF Restart, Upset, PresenceInv, Types
<1>2. \A g \in Games : children'[g].at \in {"none", "done"}
  BY RestartFacts DEF GamesInv
<1>3. wanted \in Preferences /\ flawed \subseteq Games BY DEF PresenceInv, Types, DiscordTypeOK
<1>4. /\ preferences' = wanted /\ wanted' = wanted /\ reported' = wanted
      /\ connection' = "ready" /\ requested' = wanted.enabled
      /\ processes' = [i \in Instances |-> None]
      /\ games' = [i \in Instances |-> None] /\ flawed' = flawed
      /\ queue' = <<>> /\ wake' = FALSE /\ working' = "idle" /\ shown' = None
      /\ snapshots' = [g \in Games |-> None]
  BY DEF Restart, DiscordRestarts
<1>5. JustStarted' BY <1>1, <1>2, <1>3, <1>4 DEF JustStarted
<1> QED BY <1>5, FreshPresence, PTL

LEMMA PresenceInvInit == Init => PresenceInv
PROOF
<1> SUFFICES ASSUME Init PROVE JustStarted BY FreshPresence
<1>1. wanted \in Preferences BY DEF Init, DiscordInit, Preferences
<1>2. \A g \in Games : children[g].at = "none" BY DEF Init, NoProcess
<1>3. upsets \in 0 .. (MaxUpsets + MaxFaults) BY SessionBounds DEF Init
<1> QED BY <1>1, <1>2, <1>3 DEF Init, DiscordInit, JustStarted

LEMMA WorkPresence ==
    ASSUME PresenceInv, Work(FALSE) \/ Work(TRUE), UNCHANGED <<world, flawed>>,
           upsets' \in 0 .. (MaxUpsets + MaxFaults)
    PROVE  PresenceInv'
PROOF
<1> USE DEF PresenceInv
<1>1. UNCHANGED <<processes, children, bridges, snapshots, flawed>> BY DEF world
<1>2. DiscordTypeOK BY DEF Types
<1>3. DiscordTypeOK' BY <1>2, WorkTypes DEF ShownFollows
<1>4. Types' BY <1>1, <1>3 DEF Types
<1>5. ActivityEnds' BY <1>1 DEF ActivityEnds
<1>6. \A g \in Games : ProcessFollows(g)' BY <1>1 DEF ProcessFollows
<1>7. Unconfigured' /\ Trying' BY <1>2, WorkTrying
<1>8. PreferencesArrive' BY <1>2, WorkPreferences
<1>9. ProcessesArrive' BY <1>1, <1>2, WorkProcesses
<1>10. ShownFollows' BY <1>1, <1>2, WorkShown
<1> QED BY <1>4, <1>5, <1>6, <1>7, <1>8, <1>9, <1>10

LEMMA StepPresence ==
    ASSUME GamesInv, PresenceInv, NEW g \in Games, Step(g)
    PROVE  PresenceInv'
PROOF
<1> USE DEF PresenceInv
<1>1. Types' /\ ActivityEnds' BY StepTypes
<1>2. Unconfigured' /\ Trying' /\ PreferencesArrive' BY StepTrying
<1>3. \A h \in Games : ProcessFollows(h)' BY StepProcess
<1>4. ProcessesArrive' BY StepProcesses
<1>5. ShownFollows' BY StepShown
<1> QED BY <1>1, <1>2, <1>3, <1>4, <1>5

LEMMA PresenceKept ==
    ASSUME PresenceInv, UNCHANGED <<discord, world, flawed, upsets>>
    PROVE  PresenceInv'
PROOF
<1>1. UNCHANGED <<configured, preferences, wanted, reported, queue, wake, games, connection,
                  requested, working, activity, shown, processes, children, bridges, snapshots,
                  flawed, upsets>>
  BY DEF discord, world
<1>2. Unconfigured /\ Trying /\ PreferencesArrive BY DEF PresenceInv
<1>3. (Unconfigured /\ Trying)' BY <1>1, <1>2, Zenon DEF Unconfigured, Trying
<1>4. PreferencesArrive' BY <1>1, <1>2 DEF PreferencesArrive, Arrives, About, HeldPreferences
<1>5. (Types /\ ActivityEnds)' BY <1>1 DEF PresenceInv, Types, DiscordTypeOK, ActivityEnds
<1>6. \A g \in Games : ProcessFollows(g)' BY <1>1 DEF PresenceInv, ProcessFollows
<1>7. ProcessesArrive' 
  BY <1>1 DEF PresenceInv, ProcessesArrive, Arrives, About, HeldProcess, Good, Telling
<1>8. ShownFollows'
  <2>1. Unsettled => Unsettled' BY <1>1 DEF Unsettled, Pending
  <2>2. Activity(preferences, Winner(games))' = Activity(preferences, Winner(games))
    BY <1>1 DEF Activity
  <2> QED BY <1>1, <2>1, <2>2 DEF PresenceInv, ShownFollows, Current
<1> QED BY <1>3, <1>4, <1>5, <1>6, <1>7, <1>8 DEF PresenceInv

LEMMA PresenceInvNext ==
    ASSUME GamesInv, PresenceInv, [Next]_vars
    PROVE  PresenceInv'
PROOF
<1>1. CASE \E g \in Games : Step(g) BY <1>1, StepPresence
<1>2. CASE \E g \in Games : \E i \in Instances : Start(i, g) BY <1>2, StartPresence
<1>3. CASE OpenHistory BY <1>3, PresenceKept DEF OpenHistory
<1>4. CASE User BY <1>4, UserPresence
<1>5. CASE Restart BY <1>5, RestartPresence
<1>6. CASE DiscordWorks
  <2>1. upsets' \in 0 .. (MaxUpsets + MaxFaults) BY <1>6 DEF DiscordWorks, PresenceInv, Types
  <2> QED BY <1>6, <2>1, WorkPresence DEF DiscordWorks, records
<1>7. CASE DiscordFails
  <2>1. upsets' \in 0 .. (MaxUpsets + MaxFaults)
    BY <1>7, SessionBounds DEF DiscordFails, Upset, PresenceInv, Types
  <2> QED BY <1>7, <2>1, WorkPresence DEF DiscordFails, records
<1>8. CASE UNCHANGED vars BY <1>8, PresenceKept DEF vars, records
<1> QED BY <1>1, <1>2, <1>3, <1>4, <1>5, <1>6, <1>7, <1>8 DEF Next

\* Once everything was told, the worker holds each instance's process state.
LEMMA SettledGames ==
    ASSUME PresenceInv, Settled, \A i \in Instances : ~Overtaken(i), configured
    PROVE  games = processes
PROOF
<1>1. games \in [Instances -> Snapshot \cup {None}] /\ processes \in [Instances -> Snapshot \cup {None}]
  BY DEF PresenceInv, Types, DiscordTypeOK
<1>2. ASSUME NEW i \in Instances PROVE games[i] = processes[i]
  <2>1. About(queue, Tells(i)) = {}
    <3>1. DOMAIN queue = {} BY DEF Settled
    <3> QED BY <3>1 DEF About
  <2>2. HeldProcess(i) \in {m \in Tells(i) : Good(i, m.process)}
    BY <2>1 DEF PresenceInv, ProcessesArrive, Arrives, Settled
  <2>3. Good(i, games[i]) BY <2>2 DEF HeldProcess
  <2>4. ~Telling(i) BY DEF Telling, Settled
  <2> QED BY <2>3, <2>4 DEF Good, Overtaken
<1> QED BY <1>1, <1>2

LEMMA PresenceFollows == PresenceInv => PresenceSettles
PROOF
<1> SUFFICES ASSUME PresenceInv, Settled, \A i \in Instances : ~Overtaken(i)
             PROVE  /\ reported = wanted
                    /\ connection = "connected" => shown = Activity(wanted, Winner(processes))
                    /\ shown # None => wanted.enabled /\ (shown.place # None => wanted.place)
  BY DEF PresenceSettles
<1>1. About(queue, Asks) = {}
  <2>1. DOMAIN queue = {} BY DEF Settled
  <2> QED BY <2>1 DEF About
<1>2. preferences = wanted /\ reported = wanted
  <2>1. HeldPreferences \in {m \in Asks : m.preferences = wanted} /\ reported = preferences
    BY <1>1 DEF PresenceInv, PreferencesArrive, Arrives, Settled
  <2>2. HeldPreferences.preferences = wanted BY <2>1
  <2> QED BY <2>1, <2>2 DEF HeldPreferences
<1>3. connection = "connected" => shown = Activity(wanted, Winner(processes))
  <2> SUFFICES ASSUME connection = "connected" PROVE shown = Activity(wanted, Winner(processes))
    OBVIOUS
  <2>1. configured
    <3>1. Unconfigured BY DEF PresenceInv
    <3>2. connection # "ready" OBVIOUS
    <3> QED BY <3>1, <3>2, Zenon DEF Unconfigured
  <2>2. games = processes BY <2>1, SettledGames
  <2>3. ~Unsettled BY DEF Settled, Unsettled, Pending
  <2>4. Current(shown) BY DEF PresenceInv, ShownFollows, Settled
  <2> QED BY <1>2, <2>2, <2>3, <2>4 DEF Current
<1>4. shown # None => wanted.enabled /\ (shown.place # None => wanted.place)
  <2> SUFFICES ASSUME shown # None PROVE wanted.enabled /\ (shown.place # None => wanted.place)
    OBVIOUS
  <2>1. connection = "connected" BY DEF PresenceInv, Types, DiscordTypeOK
  <2>2. shown = Activity(wanted, Winner(processes)) BY <1>3, <2>1
  <2>3. wanted.enabled
    <3> SUFFICES ASSUME ~wanted.enabled PROVE FALSE OBVIOUS
    <3> QED BY <2>2 DEF Activity
  <2>4. ASSUME shown.place # None PROVE wanted.place
    <3> SUFFICES ASSUME ~wanted.place PROVE FALSE OBVIOUS
    <3> QED BY <2>2, <2>3, <2>4 DEF Activity
  <2> QED BY <2>3, <2>4
<1> QED BY <1>2, <1>3, <1>4

\* What Discord shows once everything was told, and that it is tried again.
THEOREM PresenceIsTrue == Spec => []PresenceHolds
PROOF
<1>1. Init => PresenceInv BY PresenceInvInit
<1>2. GamesInv /\ PresenceInv /\ [Next]_vars => PresenceInv' BY PresenceInvNext
<1>3. HistoryInv /\ PresenceInv => PresenceHolds
  <2> SUFFICES ASSUME HistoryInv, PresenceInv PROVE PresenceHolds OBVIOUS
  <2>1. TypeOK BY DEF TypeOK, PresenceInv, Types, HistoryInv, DocumentShapes, Bounded
  <2>2. StillTrying
    <3>1. Trying BY DEF PresenceInv
    <3>2. working = "idle" => working # "stopped" OBVIOUS
    <3> QED BY <3>1, <3>2, Zenon DEF StillTrying, Trying
  <2> QED BY <2>1, <2>2, PresenceFollows DEF PresenceHolds, PresenceInv
<1> QED BY <1>1, <1>2, <1>3, HistoryInvariance, PTL DEF Spec

\* Presence and history follow the games that run (discord_presence/worker.rs,
\* process_supervision.rs, gameplay_history.rs).
THEOREM SessionsAreTrue == Spec => []SessionsHold
PROOF
<1>1. PresenceHolds /\ HistoryHolds => SessionsHold BY DEF SessionsHold
<1> QED BY <1>1, PresenceIsTrue, HistoryIsTrue, PTL
=============================================================================
