---------------------------- MODULE PlayOverview ----------------------------
(***************************************************************************)
(* What the launcher tells before a game starts: how long was played, to   *)
(* which worlds and servers one may return, and whether Play would start   *)
(* the game; and what then happens.  GameSessions has how the history is   *)
(* recorded; here a history, a disk and an account are given.              *)
(***************************************************************************)
EXTENDS Naturals, Sequences, FiniteSets, SequencesExt, FiniteSetsExt

CONSTANTS
    None, Refused,
    Second,         \* milliseconds of a second, stands for 1000
    DaySeconds,     \* stands for 86400
    Week, Month,    \* days, stand for 7 and 30
    Longest,        \* milliseconds of a session, stands for 3660 days
    MaxSessions,    \* stands for 256
    MaxVisits,      \* stands for 16
    MaxDays,        \* stands for 3660
    MaxRecent,      \* stands for 20
    Instances

Day == DaySeconds * Second
Days == 0 .. MaxDays
Total(f(_), S) == MapThenSumSet(f, S)
Least(m, n) == IF m < n THEN m ELSE n

-----------------------------------------------------------------------------
(* The names of worlds and servers                                         *)

\* WorldSaveId::parse: a name is the parts that "/" would separate, and whatever
\* else is wrong with it.
WorldParses(w) ==
    /\ Len(w.path) = 1 /\ w.path[1] \notin {"", ".", ".."}
    /\ w.bytes <= 255 /\ w.characters <= 128 /\ w.flaws = {}

\* A server is an IPv6 address in brackets, which has a spelling and something
\* behind it, or a host of labels; and may have a port, of so many characters.
PortSize(value) == Cardinality({k \in {1, 10, 100, 1000, 10000} : value >= k})
HostSize(t) ==
    IF t.address # None THEN t.address.size + 2
    ELSE FoldLeft(LAMBDA n, label : n + label.size, Len(t.labels) - 1, t.labels)
TargetSize(t) == HostSize(t) + t.behind + (IF t.port = None THEN 0 ELSE 1 + t.port.size)

\* parse_port
ParsePort(port) ==
    IF port = None THEN 25565
    ELSE IF port.digits /\ port.value \in 1 .. 65535 THEN port.value ELSE Refused

IsIPv4(labels) == Len(labels) = 4 /\ \A i \in 1 .. 4 : labels[i].of = "octet"
HostParses(t) ==
    /\ HostSize(t) \in 1 .. 253 /\ Last(t.labels).size > 0
    /\ \/ IsIPv4(t.labels)
       \/ /\ \E i \in DOMAIN t.labels : t.labels[i].of \notin {"octet", "digits"}
          /\ \A i \in DOMAIN t.labels :
                t.labels[i].size \in 1 .. 63 /\ t.labels[i].of # "odd"

\* ServerTarget::parse: the canonical text.
ServerParse(t) ==
    LET port == ParsePort(t.port)
        small(label) == IF label.of = "upper" THEN [label EXCEPT !.of = "lower"] ELSE label
    IN  CASE t.odd \/ TargetSize(t) \notin 1 .. 255 \/ port = Refused -> Refused
          [] t.address = None /\ ~HostParses(t) -> Refused
          [] t.address # None /\ t.address.spelling = "wrong" -> Refused
          [] OTHER ->
                [t EXCEPT !.labels = [i \in DOMAIN t.labels |-> small(t.labels[i])],
                          !.address = IF @ = None THEN None
                                      ELSE [@ EXCEPT !.spelling = "canonical", !.size = @ - t.address.longer,
                                                     !.longer = 0],
                          !.behind = 0,
                          !.port = [digits |-> TRUE, value |-> port, size |-> PortSize(port)]]

\* TryFrom<String> for ServerTarget: as a document has it.
ServerReads(t) == ServerParse(t) = t

-----------------------------------------------------------------------------
(* Playtime                                                                *)

\* add_daily
RECURSIVE AddDaily(_, _, _)
AddDaily(buckets, time, left) ==
    IF left = 0 THEN buckets
    ELSE LET day == time \div Day
             take == Least(left, (day + 1) * Day - time)
         IN  AddDaily([buckets EXCEPT ![day] = @ + take], time + take, left - take)

Of(instance, x) == instance = None \/ x = instance

Buckets(doc, instance) ==
    LET archived ==
            [d \in Days |-> Total(LAMBDA i : doc.archive[<<d, i>>],
                                  {i \in Instances : Of(instance, i)})]
        Add(buckets, s) ==
            IF Of(instance, s.instance) THEN AddDaily(buckets, s.start * Second, s.duration)
            ELSE buckets
    IN  FoldLeft(Add, archived, doc.sessions)

Minus(m, n) == IF m < n THEN 0 ELSE m - n

\* playtime
Playtime(doc, instance, at) ==
    LET buckets == Buckets(doc, instance)
        today == at \div DaySeconds
        sum(days) == Total(LAMBDA d : buckets[d], Minus(today, days - 1) .. today)
    IN  [today |-> sum(1), week |-> sum(Week), month |-> sum(Month),
         all |-> Total(LAMBDA d : buckets[d], Days)]

\* daily_playtime, the oldest first
Daily(doc, instance, at, days) ==
    LET buckets == Buckets(doc, instance)
        day(i) == Minus(at \div DaySeconds, days - i)
    IN  [i \in 1 .. days |-> [day |-> day(i), duration |-> buckets[day(i)]]]

\* Document::validate
HistoryValid(doc) ==
    /\ Len(doc.sessions) <= MaxSessions
    /\ \A x \in DOMAIN doc.archive : doc.archive[x] <= Day
    /\ \A i, k \in DOMAIN doc.sessions : i # k => doc.sessions[i].id # doc.sessions[k].id
    /\ \A i \in DOMAIN doc.sessions :
        LET s == doc.sessions[i]
        IN  /\ Len(s.visits) <= MaxVisits /\ s.duration <= Longest
            /\ IF s.end = None THEN s.outcome = None ELSE s.end >= s.start /\ s.outcome # None
            /\ \A k \in DOMAIN s.visits :
                LET v == s.visits[k]
                IN  /\ v.end >= v.start
                    /\ v.world # None => v.mode = "singleplayer"
                    /\ v.server # None => v.mode = "multiplayer"

\* What can be read: names and servers are parsed too.
HistoryReads(doc) ==
    /\ HistoryValid(doc)
    /\ \A i \in DOMAIN doc.sessions : \A k \in DOMAIN doc.sessions[i].visits :
        LET v == doc.sessions[i].visits[k]
        IN  (v.world # None => WorldParses(v.world)) /\ (v.server # None => ServerReads(v.server))

\* Document::retain: sessions that are dropped become days of the archive.
Earlier(s, t) == s.start < t.start
RECURSIVE Dropped(_)
Dropped(doc) ==
    LET ended == {i \in DOMAIN doc.sessions : doc.sessions[i].end # None}
        s == doc.sessions[Min(ended)]
        daily == AddDaily([d \in Days |-> 0], s.start * Second, s.duration)
    IN  CASE Len(doc.sessions) <= MaxSessions -> doc
          [] Len(doc.sessions) > MaxSessions /\ ended = {} -> Refused
          [] OTHER ->
                Dropped([sessions |-> RemoveAt(doc.sessions, Min(ended)),
                         archive |-> [x \in DOMAIN doc.archive |->
                            doc.archive[x] + IF x[2] = s.instance THEN daily[x[1]] ELSE 0]])
InOrder(sessions) ==
    FoldLeft(LAMBDA sorted, s :
                LET later == {i \in DOMAIN sorted : Earlier(s, sorted[i])}
                IN  InsertAt(sorted, IF later = {} THEN Len(sorted) + 1 ELSE Min(later), s),
             <<>>, sessions)
RetainDays(doc, now) ==
    LET kept == Dropped([doc EXCEPT !.sessions = InOrder(@)])
    IN  IF kept = Refused THEN Refused
        ELSE [kept EXCEPT !.archive = [x \in DOMAIN @ |->
                IF x[1] >= Minus(now \div DaySeconds, MaxDays) THEN @[x] ELSE 0]]

\* Store::start, up to the write
Started(doc, instance, now) ==
    RetainDays([doc EXCEPT !.sessions = Append(@,
        [id |-> "new", instance |-> instance, start |-> now, end |-> None, duration |-> 0,
         outcome |-> None, visits |-> <<>>])], now)

-----------------------------------------------------------------------------
(* Recent worlds and servers                                               *)

\* The digest of a target tells them all apart.
Digest(instance, target) == <<instance, target>>
TargetOf(v) == IF v.mode = "singleplayer" THEN v.world ELSE v.server

\* The visits of a mode that have a target, in the order of the document.
Visited(doc, mode) ==
    LET of(s) == [k \in DOMAIN s.visits |->
                    [visit |-> s.visits[k], instance |-> s.instance,
                     id |-> Digest(s.instance, TargetOf(s.visits[k]))]]
        all == FlattenSeq([i \in DOMAIN doc.sessions |-> of(doc.sessions[i])])
    IN  SelectSeq(all, LAMBDA x : x.visit.mode = mode /\ TargetOf(x.visit) # None)

\* recent: those that are of one time in the order of their digests, which is as
\* good as any.
Recent(doc, mode, instance, limit) ==
    LET visits == SelectSeq(Visited(doc, mode), LAMBDA x : Of(instance, x.instance))
        Count(entry, x) ==
            [entry EXCEPT !.duration = @ + x.visit.duration,
                          !.last = IF x.visit.end >= entry.last THEN x.visit.end ELSE @,
                          !.display = IF x.visit.end >= entry.last THEN x.visit.display ELSE @]
        Entry(id) ==
            FoldLeft(Count, [id |-> id, instance |-> id[1], last |-> 0, duration |-> 0, display |-> None],
                     SelectSeq(visits, LAMBDA x : x.id = id))
        Before(a, b) == a.last > b.last
        sorted == SetToSortSeq({Entry(id) : id \in {x.id : x \in ToSet(visits)}}, Before)
    IN  SubSeq(sorted, 1, Least(Len(sorted), Least(limit, MaxRecent)))

\* quick_target: the first visit that has the digest.
FirstTarget(visited, mode, id) ==
    LET found == {i \in DOMAIN visited : visited[i].id = id}
        x == visited[Min(found)]
    IN  IF found = {} THEN None
        ELSE [instance |-> x.instance, mode |-> mode, target |-> TargetOf(x.visit)]
QuickTarget(doc, mode, id) == FirstTarget(Visited(doc, mode), mode, id)

\* validate_quick_world
WorldThere(disk, instance, w) ==
    /\ WorldParses(w)
    /\ disk.saves[instance] = "directory"
    /\ <<instance, w.path>> \in DOMAIN disk.worlds
    /\ disk.worlds[<<instance, w.path>>] = [node |-> "directory", level |-> "file"]

TargetThere(disk, t) ==
    /\ IF t.mode = "singleplayer" THEN WorldThere(disk, t.instance, t.target) ELSE ServerReads(t.target)
    /\ t.instance \in disk.registered

\* get_recent_worlds, get_recent_servers
Available(doc, disk, mode, id) ==
    LET t == QuickTarget(doc, mode, id) IN t # None /\ TargetThere(disk, t)

\* quick_play_history, up to Play
QuickPlay(doc, disk, mode, id) ==
    LET t == QuickTarget(doc, mode, id)
    IN  IF mode \notin {"singleplayer", "multiplayer"} \/ t = None THEN Refused
        ELSE IF TargetThere(disk, t) THEN t ELSE Refused

-----------------------------------------------------------------------------
(* Readiness, and Play                                                     *)

\* LaunchProcessStatus::blocks_launch
BlocksLaunch(process) == process \in {"starting", "running"}

\* resolve_instance_launch_plans: what stops it, or None.
PlanError(scene) ==
    CASE scene.row = None -> "notFound"
      [] scene.row # None /\ scene.row.state # "ready" -> "notReady"
      [] scene.content = "unreadable" -> "installState"
      [] scene.content # "whole" \/ ~scene.row.matches -> "notReady"
      [] scene.published = "noGame" -> "gameResolution"
      [] scene.published = "noRuntime" -> "runtimeMetadata"
      [] OTHER -> None

\* launch_plan_error
LaunchPlanError(error) ==
    CASE error \in {"notFound", "notReady"} -> "launch_instance_not_ready"
      [] error = "installState" -> "launch_instance_damaged"
      [] error = "runtimeMetadata" -> "launch_runtime_not_ready"
      [] error = "gameResolution" -> "launch_metadata_invalid"

\* launch_account_status
AccountStatus(scene) ==
    CASE scene.account \in {None, "unknown"} -> "missing"
      [] scene.cached -> "ready"
      [] scene.credential = "none" -> "reauthenticationRequired"
      [] ~scene.registered -> "configurationMissing"
      [] OTHER -> "ready"

\* validate_runtime, with or without running it
RuntimeStatus(scene, run) ==
    IF scene.runtime = "broken" THEN IF run THEN "damaged" ELSE "ready" ELSE scene.runtime

InstanceStatus(scene) ==
    CASE scene.row = None -> "missing"
      [] scene.row # None /\ scene.row.state = "installing" -> "installing"
      [] ~scene.row.matches -> "stale"
      [] PlanError(scene) \in {"notReady", "installState"} -> "damaged"
      [] OTHER -> "ready"

\* PlayReadiness::evaluate
Evaluate(instance, runtime, account, process) ==
    (CASE instance = "ready" -> {}
       [] instance = "damaged" -> {"launch_instance_damaged"}
       [] OTHER -> {"launch_instance_not_ready"})
    \cup (IF runtime = "ready" THEN {} ELSE {"launch_runtime_not_ready"})
    \cup (IF account = "ready" THEN {} ELSE {"launch_authentication_required"})
    \cup (IF BlocksLaunch(process) THEN {"launch_already_running"} ELSE {})

\* calculate_play_readiness: the blockers, or Refused when it fails itself.
Readiness(scene) ==
    LET planned == InstanceStatus(scene) = "ready" /\ PlanError(scene) = None
        runtime == IF planned THEN RuntimeStatus(scene, FALSE) ELSE "unresolved"
        credentials == scene.account = "known" /\ ~scene.cached
    IN  IF \/ planned /\ scene.mods = "unreadable"
           \/ credentials /\ scene.credential = "unreadable"
        THEN Refused
        ELSE Evaluate(InstanceStatus(scene), runtime, AccountStatus(scene), scene.process)
                \cup (IF planned /\ scene.mods = "refused" THEN {"launch_mod_incompatible"} ELSE {})

\* ensure_session, and the cache before it
SessionError(scene) ==
    CASE scene.cached -> None
      [] ~scene.registered -> "launch_authentication_required"
      [] scene.account = "unknown" -> "launch_authentication_required"
      [] scene.credential = "none" -> "launch_authentication_required"
      [] scene.credential = "unreadable" -> "launch_session_unavailable"
      [] scene.credential = "foreign" -> "launch_authentication_required"
      [] scene.provider = "down" -> "launch_session_unavailable"
      [] scene.credential = "dead" -> "launch_authentication_required"
      [] OTHER -> None

\* play_instance_with_target: the first thing that stops it, or None when the
\* game is started.  Nothing changes while it prepares.
PlayError(scene, target) ==
    CASE target # None /\ target.instance # scene.instance -> "quick_instance_mismatch"
      [] scene.account = None -> "account_id_invalid"
      [] scene.preparing \/ BlocksLaunch(scene.process) -> "launch_already_running"
      [] scene.row = None \/ scene.content = "unreadable" -> "launch_instance_not_ready"
      [] PlanError(scene) # None -> LaunchPlanError(PlanError(scene))
      [] target # None /\ scene.version # "1.21.11" -> "quick_version_unsupported"
      [] scene.mods = "unreadable" -> "mods_invalid"
      [] scene.mods = "refused" -> "launch_mod_incompatible"
      [] RuntimeStatus(scene, TRUE) # "ready" -> "launch_runtime_not_ready"
      [] OTHER -> SessionError(scene)

-----------------------------------------------------------------------------
(* Properties                                                              *)

\* The time that a session has in a day, from its two ends.
Overlap(s, d) ==
    LET from == s.start * Second
        to == from + s.duration
        begin == IF from > d * Day THEN from ELSE d * Day
    IN  Minus(Least(to, (d + 1) * Day), begin)
Played(doc, i, d) ==
    doc.archive[<<d, i>>]
        + FoldLeft(LAMBDA n, s : n + IF s.instance = i THEN Overlap(s, d) ELSE 0, 0, doc.sessions)

\* The totals are of the days that they name, each instance's add up to the
\* whole, and the days that are shown add up to the totals.
PlaytimeAddsUp(doc, at) ==
    LET today == at \div DaySeconds
        of(i) == Playtime(doc, i, at)
        within(days) == {d \in Days : d <= today /\ d + days > today}
    IN  /\ \A i \in Instances :
            /\ of(i).today = Played(doc, i, today)
            /\ of(i).week = Total(LAMBDA d : Played(doc, i, d), within(Week))
            /\ of(i).month = Total(LAMBDA d : Played(doc, i, d), within(Month))
            /\ of(i).all = Total(LAMBDA d : Played(doc, i, d), Days)
            /\ today + 1 >= Month =>
                LET shown == Daily(doc, i, at, Month)
                IN  of(i).month = Total(LAMBDA k : shown[k].duration, 1 .. Month)
        /\ \A field \in {"today", "week", "month", "all"} :
            of(None)[field] = Total(LAMBDA i : of(i)[field], Instances)

\* An instance plays once at a time, unless the clock was set back.
OneClock(doc) == \A d \in Days, i \in Instances : Played(doc, i, d) <= Day

\* When another session begins, what is dropped from the history is counted as
\* before, and the document can be written.
NothingIsUnplayed(doc, instance, now) ==
    LET next == Started(doc, instance, now)
    IN  next # Refused /\ OneClock(doc) /\ HistoryValid(doc) =>
            /\ HistoryValid(next)
            /\ \A i \in Instances \cup {None}, at \in {s * DaySeconds : s \in Days} :
                Playtime(next, i, at) = Playtime(doc, i, at)

\* What is shown as recent is unique, the latest first, and the latest of all;
\* it leads to its own instance and target, and is called available when a quick
\* start would get to Play.
RecentLeadsBack(doc, disk, mode, instance, limit) ==
    \A shown \in {Recent(doc, mode, instance, limit)},
       visits \in {{x \in ToSet(Visited(doc, mode)) : Of(instance, x.instance)}} :
    LET listed == {shown[i].id : i \in DOMAIN shown}
    IN  HistoryReads(doc) =>
        /\ Cardinality(listed) = Len(shown)
        /\ Len(shown) < Least(limit, MaxRecent) => listed = {x.id : x \in visits}
        /\ \A i \in DOMAIN shown :
            LET own == {x \in visits : x.id = shown[i].id}
            IN  \A t \in {QuickTarget(doc, mode, shown[i].id)},
                   start \in {QuickPlay(doc, disk, mode, shown[i].id)} :
                /\ \A x \in own :
                    /\ x.visit.end <= shown[i].last
                    /\ t = [instance |-> x.instance, mode |-> mode, target |-> TargetOf(x.visit)]
                /\ \E x \in own : x.visit.end = shown[i].last /\ x.visit.display = shown[i].display
                /\ \A x \in visits : x.id \notin listed => x.visit.end <= shown[i].last
                /\ \A k \in 1 .. i : shown[i].last <= shown[k].last
                /\ Available(doc, disk, mode, shown[i].id) = (start = t)
                /\ start # Refused /\ mode = "singleplayer" =>
                    \* what the game opens is a world in this instance's saves
                    /\ disk.saves[start.instance] = "directory"
                    /\ disk.worlds[<<start.instance, start.target.path>>].node = "directory"
                    /\ Len(start.target.path) = 1 /\ start.target.path[1] \notin {".", ".."}

\* What a server is recorded as is read as itself, unless its host leaves no
\* room for the port.
ServerReadsBack(t) ==
    LET parsed == ServerParse(t)
    IN  parsed # Refused => ServerReads(parsed) \/ TargetSize(parsed) > 255

\* When nothing is said to block it, Play starts the game; but for a session
\* that cannot be had after all, a runtime that fails when it is run, and
\* another preparation.
ReadyStarts(scene) ==
    LET error == PlayError(scene, None)
    IN  Readiness(scene) = {} /\ error # None =>
            \/ error = "launch_already_running" /\ scene.preparing
            \/ error = "launch_runtime_not_ready" /\ scene.runtime = "broken"
            \/ /\ error \in {"launch_session_unavailable", "launch_authentication_required"}
               /\ ~scene.cached
               /\ scene.credential \in {"foreign", "dead"} \/ scene.provider = "down"

\* When Play starts the game, only the account may have been said to block it,
\* for one whose session is still there.
StartedWasReady(scene) ==
    PlayError(scene, None) = None /\ Readiness(scene) # Refused =>
        Readiness(scene) \subseteq
            IF scene.account = "unknown" THEN {"launch_authentication_required"} ELSE {}

\* What Play gives as its reason was said to block it: mods, another process, or
\* the instance, of which Play does not tell damaged from unfinished.
ReasonWasGiven(scene) ==
    LET error == PlayError(scene, None)
        told == Readiness(scene)
        instance == {"launch_instance_not_ready", "launch_instance_damaged"}
    IN  told = Refused \/ scene.preparing \/
        /\ error \in {"launch_mod_incompatible", "launch_already_running"} => error \in told
        /\ error \in instance => told \cap instance # {}
=============================================================================
