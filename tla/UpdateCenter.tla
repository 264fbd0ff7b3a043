----------------------------- MODULE UpdateCenter -----------------------------
(***************************************************************************)
(* The update card and the native commands behind it.  A page holds one    *)
(* controller, which runs one piece of work at a time and waits for one    *)
(* native command after another; when the page is loaded again the         *)
(* controller is gone while its command goes on.  What is published, which *)
(* instance is selected and what is installed change meanwhile.            *)
(***************************************************************************)
EXTENDS Naturals

CONSTANTS
    Instances,
    MaxPages,    \* bound: loads of the page
    MaxChanges,  \* bound: publications, selections and failures
    MaxClicks,   \* bound: what the user asks of one page
    Failed,
    None

Pages == 1 .. MaxPages
Versions == 0 .. (MaxChanges + 1)
Builds == 0 .. MaxChanges
Offer == [version : Versions, build : Builds]

\* The version offered, 0 for none, or Failed; None before the first check.
Availabilities == Versions \cup {None, Failed}
Overviews == [launcher : Availabilities, clientInstance : Instances, client : Availabilities]
Previewed == [version : Versions, from : Versions]

Ops == {"startup", "check", "preview", "apply", "download", "install"}

VARIABLES
    published, \* the Aurora client that is published
    offer,     \* the launcher installer that is offered, or None
    installed, \* the client each instance has
    selected,
    changes,
    center,    \* the native record of the last checks
    checking,  \* whether a native check holds the check lock
    busy,      \* the domains whose transaction flag is raised
    pending,   \* the downloaded installer
    startedUp, \* whether the startup check was claimed
    page,      \* the page that is shown
    calls,     \* the native command each page called, with its result
    card,      \* the controller of the shown page
    approved,  \* what the overview showed when each page's user last chose Update
    done       \* what was installed, beside what had been approved

world == <<published, offer, installed, selected>>
native == <<center, checking, busy, pending, startedUp>>
vars == <<world, changes, native, page, calls, card, approved, done>>

NoCall == [op |-> None, at |-> "none", instance |-> None, version |-> None, from |-> None,
           result |-> None]

Unchecked == [launcher |-> None, client |-> None, clientOf |-> None]

Card == [action |-> "idle", overview |-> None, work |-> "none", queued |-> FALSE,
         started |-> FALSE, viewed |-> FALSE, again |-> FALSE, clicks |-> 0]

Init ==
    /\ published \in {0, 1} /\ offer \in {None, [version |-> 1, build |-> 0]}
    /\ installed = [i \in Instances |-> 0] /\ selected \in Instances
    /\ changes = 0
    /\ center = Unchecked /\ checking = FALSE /\ busy = {} /\ pending = None /\ startedUp = FALSE
    /\ page = 1 /\ calls = [p \in Pages |-> NoCall] /\ card = Card
    /\ approved = [p \in Pages |-> None] /\ done = {}

-----------------------------------------------------------------------------
(* The native commands                                                     *)

\* update_overview: the client's availability only counts for the selected
\* instance.
OverviewOf(i, c) ==
    [launcher |-> c.launcher, clientInstance |-> i,
     client |-> IF c.clientOf = i THEN c.client ELSE None]

Overview(c) == OverviewOf(selected, c)

Offered(availability) == availability \in Versions \ {0}

HasUpdate(overview) ==
    overview # None /\ (Offered(overview.launcher) \/ Offered(overview.client))

\* The controller's receive.
Receive(c, overview) ==
    [c EXCEPT !.overview = overview,
              !.action = IF c.action \in {"idle", "available", "noUpdate"} /\ HasUpdate(overview)
                         THEN "available"
                         ELSE IF c.action = "available" THEN "idle" ELSE c.action]

\* Nobody hears the command of a page that is gone.
Return(p, result) ==
    calls' = [calls EXCEPT ![p] = IF p = page THEN [@ EXCEPT !.at = "returned", !.result = result]
                                  ELSE NoCall]
Goes(p, step) == calls' = [calls EXCEPT ![p].at = step]

\* run_update_check up to its first request.
CheckBegins(p) ==
    /\ calls[p].op \in {"startup", "check"} /\ calls[p].at = "called"
    /\ IF checking THEN Return(p, Failed) /\ UNCHANGED native
       ELSE IF calls[p].op = "startup" /\ startedUp
            THEN Return(p, Overview(center)) /\ UNCHANGED native
            ELSE /\ checking' = TRUE /\ Goes(p, "launcher")
                 /\ startedUp' = (startedUp \/ calls[p].op = "startup")
                 /\ UNCHANGED <<center, busy, pending>>
    /\ UNCHANGED <<world, changes, page, card, approved, done>>

\* With fails: whether this request fails.
Fault(fails) ==
    IF fails THEN changes < MaxChanges /\ changes' = changes + 1 ELSE UNCHANGED changes

LauncherAnswers(p, fails) ==
    /\ calls[p].at = "launcher" /\ Fault(fails)
    /\ center' = [center EXCEPT !.launcher =
                    IF fails THEN Failed ELSE IF offer = None THEN 0 ELSE offer.version]
    /\ calls' = [calls EXCEPT ![p].at = "client", ![p].instance = selected]
    /\ UNCHANGED <<world, checking, busy, pending, startedUp, page, card, approved, done>>

\* finish_check of the client's domain.
ClientAnswers(p, fails) ==
    /\ calls[p].at = "client" /\ Fault(fails)
    /\ center' = [center EXCEPT !.client =
                    IF fails THEN Failed
                    ELSE IF published > installed[calls[p].instance] THEN published ELSE 0]
    /\ Goes(p, "record")
    /\ UNCHANGED <<world, checking, busy, pending, startedUp, page, card, approved, done>>

\* Only then is it recorded whose availability it is; the shown page is told.
CheckEnds(p) ==
    /\ calls[p].at = "record"
    /\ center' = [center EXCEPT !.clientOf = calls[p].instance]
    /\ checking' = FALSE
    /\ Return(p, Overview(center'))
    /\ card' = Receive(card, Overview(center'))
    /\ UNCHANGED <<world, changes, busy, pending, startedUp, page, approved, done>>

\* preview_client_update.
Previews(p, fails) ==
    /\ calls[p].op = "preview" /\ calls[p].at = "called" /\ Fault(fails)
    /\ Return(p, IF fails THEN Failed
                 ELSE [version |-> published, from |-> installed[calls[p].instance]])
    /\ UNCHANGED <<world, native, page, card, approved, done>>

\* begin_transaction: the second of a domain is refused.
Begins(p, op, domain, step) ==
    /\ calls[p].op = op /\ calls[p].at = "called"
    /\ IF domain \in busy THEN Return(p, Failed) /\ UNCHANGED native
       ELSE /\ busy' = busy \cup {domain} /\ Goes(p, step)
            /\ UNCHANGED <<center, checking, pending, startedUp>>

Record(p, domain, instance, version) ==
    done' = done \cup {[domain |-> domain, instance |-> instance, version |-> version,
                        approved |-> approved[p]]}

\* apply_update compares the approved fingerprint with what is there now; its
\* transaction is the module ClientUpdate.
Applies(p, fails) ==
    /\ calls[p].at = "applying" /\ Fault(fails)
    /\ busy' = busy \ {"client"}
    /\ LET i == calls[p].instance
       IN IF fails THEN Return(p, Failed) /\ UNCHANGED <<installed, done>>
          ELSE IF published # calls[p].version \/ installed[i] # calls[p].from
          THEN Return(p, "stale") /\ UNCHANGED <<installed, done>>
          ELSE /\ installed' = [installed EXCEPT ![i] = published]
               /\ Record(p, "client", i, published)
               /\ Goes(p, "applied")
    /\ UNCHANGED <<published, offer, selected, center, checking, pending, startedUp, page, card,
                   approved>>

AppliedRecorded(p) ==
    /\ calls[p].at = "applied"
    /\ center' = [center EXCEPT !.client = 0, !.clientOf = calls[p].instance]
    /\ Return(p, "ok")
    /\ UNCHANGED <<world, changes, checking, busy, pending, startedUp, page, card, approved, done>>

\* download: the offer is checked again before any byte is accepted.
Downloads(p, fails) ==
    /\ calls[p].at = "downloading" /\ Fault(fails)
    /\ busy' = busy \ {"launcher"}
    /\ IF fails THEN Return(p, Failed) /\ UNCHANGED pending
       ELSE IF offer = None \/ offer.version # calls[p].version
            THEN Return(p, "stale") /\ UNCHANGED pending
       ELSE pending' = offer /\ Return(p, "ok")
    /\ UNCHANGED <<world, center, checking, startedUp, page, card, approved, done>>

\* install takes the download before it looks at it.
Takes(p) ==
    /\ calls[p].at = "installing"
    /\ pending' = None
    /\ IF pending = None \/ pending.version # calls[p].version
       THEN /\ Return(p, IF pending = None THEN Failed ELSE "stale")
            /\ busy' = busy \ {"launcher"}
       ELSE /\ calls' = [calls EXCEPT ![p].at = "rechecking", ![p].from = pending]
            /\ UNCHANGED busy
    /\ UNCHANGED <<world, changes, center, checking, startedUp, page, card, approved, done>>

\* The offer must still be exactly what was downloaded.
Installs(p, fails) ==
    /\ calls[p].at = "rechecking" /\ Fault(fails)
    /\ busy' = busy \ {"launcher"}
    /\ IF fails THEN Return(p, Failed) /\ UNCHANGED done
       ELSE IF offer # calls[p].from THEN Return(p, "stale") /\ UNCHANGED done
       ELSE Record(p, "launcher", None, calls[p].from.version) /\ Return(p, "ok")
    /\ UNCHANGED <<world, center, checking, pending, startedUp, page, card, approved>>

\* What a page's native command does next, whether that page still shows.
Serve(p) ==
    \/ CheckBegins(p) \/ CheckEnds(p) \/ AppliedRecorded(p) \/ Takes(p)
    \/ Begins(p, "apply", "client", "applying") /\ UNCHANGED <<world, changes, page, card, approved, done>>
    \/ Begins(p, "download", "launcher", "downloading")
       /\ UNCHANGED <<world, changes, page, card, approved, done>>
    \/ Begins(p, "install", "launcher", "installing")
       /\ UNCHANGED <<world, changes, page, card, approved, done>>
    \/ \E fails \in BOOLEAN :
        \/ LauncherAnswers(p, fails) \/ ClientAnswers(p, fails) \/ Previews(p, fails)
        \/ Applies(p, fails) \/ Downloads(p, fails) \/ Installs(p, fails)

-----------------------------------------------------------------------------
(* The controller of the shown page                                        *)

Call(op, instance, version, from) ==
    calls' = [calls EXCEPT ![page] = [op |-> op, at |-> "called", instance |-> instance,
                                      version |-> version, from |-> from, result |-> None]]

Answered(op) == card.work = op /\ calls[page].at = "returned"
Answer == calls[page].result
Quiet == calls' = [calls EXCEPT ![page] = NoCall]

\* The update's work is over.
Rests(c, action, again) ==
    /\ card' = [c EXCEPT !.work = "none", !.action = action, !.again = again]
    /\ approved' = [approved EXCEPT ![page] = None]
    /\ Quiet

\* startup: once per page, and not while the user's own work is under way.
Startup ==
    /\ ~card.started
    /\ IF card.work = "none"
       THEN card' = [card EXCEPT !.started = TRUE, !.work = "startup"] /\ Call("startup", None, None, None)
       ELSE card' = [card EXCEPT !.started = TRUE] /\ UNCHANGED calls
    /\ UNCHANGED <<world, changes, native, page, approved, done>>

PerformCheck(c) ==
    card' = [c EXCEPT !.action = "checking", !.work = "check", !.queued = FALSE, !.again = FALSE]

\* Mutant: a check the user asked for meanwhile is forgotten.
StartupAnswersOnly ==
    /\ Answered("startup")
    /\ card' = [(IF Answer = Failed THEN card ELSE Receive(card, Answer))
                  EXCEPT !.work = "none", !.queued = FALSE]
    /\ Quiet
    /\ UNCHANGED <<world, changes, native, page, approved, done>>

\* A failed startup check is no notice; a check queued behind it begins.
StartupAnswers ==
    /\ Answered("startup")
    /\ LET c == IF Answer = Failed THEN card ELSE Receive(card, Answer)
       IN IF card.queued
          THEN PerformCheck(c) /\ Call("check", None, None, None)
          ELSE card' = [c EXCEPT !.work = "none"] /\ Quiet
    /\ UNCHANGED <<world, changes, native, page, approved, done>>

\* The startup and manual check share the answer: an offer of one domain is
\* shown even where the other one failed.
CheckAnswers ==
    /\ Answered("check")
    /\ card' = [card EXCEPT
         !.work = "none",
         !.overview = IF Answer = Failed THEN @ ELSE Answer,
         !.action = IF Answer = Failed THEN "checkError"
                    ELSE IF HasUpdate(Answer) THEN "available"
                    ELSE IF {Answer.launcher, Answer.client} \cap {None, Failed} # {}
                         THEN "checkError"
                    ELSE IF card.viewed THEN "noUpdate" ELSE "idle"]
    /\ Quiet
    /\ UNCHANGED <<world, changes, native, page, approved, done>>

\* performCheck's timer.
TimerEnds ==
    /\ card.action = "noUpdate" /\ card' = [card EXCEPT !.action = "idle"]
    /\ UNCHANGED <<world, changes, native, page, calls, approved, done>>

Disabled == card.action \in {"checking", "noUpdate", "updating"}

\* update of the launcher, once the client's part is over.
DownloadsNext(c, overview) ==
    IF Offered(overview.launcher)
    THEN /\ card' = [c EXCEPT !.action = "updating", !.work = "download"]
         /\ Call("download", None, overview.launcher, None)
         /\ approved' = [approved EXCEPT ![page] = overview]
    ELSE Rests(c, "idle", FALSE)

\* activate, in its three forms.  A click that changes nothing is no action.
Click ==
    /\ ~Disabled /\ card.clicks < MaxClicks
    /\ LET c == [card EXCEPT !.clicks = @ + 1]
       IN IF card.action = "available" \/ (card.action = "updateError" /\ ~card.again)
          THEN /\ card.work = "none" /\ HasUpdate(card.overview)
               /\ IF Offered(card.overview.client)
                  THEN /\ card' = [c EXCEPT !.action = "updating", !.work = "preview"]
                       /\ Call("preview", card.overview.clientInstance, None, None)
                       /\ approved' = [approved EXCEPT ![page] = card.overview]
                  ELSE DownloadsNext(c, card.overview)
          ELSE /\ UNCHANGED approved
               /\ \/ /\ card.work = "startup"
                     /\ card' = [c EXCEPT !.action = "checking", !.queued = TRUE]
                     /\ UNCHANGED calls
                  \/ /\ card.work = "none"
                     /\ PerformCheck(c) /\ Call("check", None, None, None)
    /\ UNCHANGED <<world, changes, native, page, done>>

\* Mutant: whatever the preview offers is applied.
PreviewAnswersAny ==
    /\ Answered("preview")
    /\ IF Answer = Failed THEN Rests(card, "updateError", FALSE)
       ELSE IF Answer.version <= Answer.from THEN Rests(card, "updateError", TRUE)
       ELSE /\ card' = [card EXCEPT !.work = "apply"]
            /\ Call("apply", approved[page].clientInstance, Answer.version, Answer.from)
            /\ UNCHANGED approved
    /\ UNCHANGED <<world, changes, native, page, done>>

\* Only the displayed release may be applied.
PreviewAnswers ==
    /\ Answered("preview")
    /\ IF Answer = Failed THEN Rests(card, "updateError", FALSE)
       ELSE IF Answer.version # approved[page].client \/ Answer.version <= Answer.from
            THEN Rests(card, "updateError", TRUE)
       ELSE /\ card' = [card EXCEPT !.work = "apply"]
            /\ Call("apply", approved[page].clientInstance, Answer.version, Answer.from)
            /\ UNCHANGED approved
    /\ UNCHANGED <<world, changes, native, page, done>>

\* afterClient reads local state, which may fail; then the launcher's turn.
ApplyAnswers(fails) ==
    /\ Answered("apply")
    /\ IF Answer # "ok" THEN Rests(card, "updateError", Answer = "stale") /\ Fault(FALSE)
       ELSE LET c == [card EXCEPT !.overview = [approved[page] EXCEPT !.client = 0]]
            IN /\ Fault(fails)
               /\ IF fails THEN Rests(c, "updateError", FALSE)
                  ELSE DownloadsNext(Receive(c, Overview(center)), approved[page])
    /\ UNCHANGED <<world, native, page, done>>

DownloadAnswers ==
    /\ Answered("download")
    /\ IF Answer = "ok"
       THEN /\ card' = [card EXCEPT !.work = "install"]
            /\ Call("install", None, approved[page].launcher, None)
            /\ UNCHANGED approved
       ELSE Rests(card, "updateError", Answer = "stale")
    /\ UNCHANGED <<world, changes, native, page, done>>

InstallAnswers ==
    /\ Answered("install")
    /\ IF Answer = "ok" THEN Rests(card, "idle", FALSE)
       ELSE Rests(card, "updateError", Answer = "stale")
    /\ UNCHANGED <<world, changes, native, page, done>>

\* openView refreshes from the native record; closeView drops the confirmation.
View ==
    /\ card.clicks < MaxClicks
    /\ card' = IF card.viewed
               THEN [card EXCEPT !.viewed = FALSE, !.action = IF @ = "noUpdate" THEN "idle" ELSE @]
               ELSE Receive([card EXCEPT !.viewed = TRUE, !.clicks = @ + 1], Overview(center))
    /\ UNCHANGED <<world, changes, native, page, calls, approved, done>>

\* A new page has a controller of its own; the old one's commands go on.
Reload ==
    /\ page < MaxPages /\ page' = page + 1 /\ card' = Receive(Card, Overview(center))
    /\ calls' = [calls EXCEPT ![page] = IF @.at = "returned" THEN NoCall ELSE @]
    /\ UNCHANGED <<world, changes, native, approved, done>>

-----------------------------------------------------------------------------
(* What changes around the card                                            *)

Changed == changes < MaxChanges /\ changes' = changes + 1

Publishes ==
    /\ Changed /\ published' = published + 1
    /\ UNCHANGED <<offer, installed, selected, native, page, calls, card, approved, done>>

\* A release, a release withdrawn, or its file replaced.
Offers ==
    /\ Changed
    /\ \/ offer' = [version |-> IF offer = None THEN 1 ELSE offer.version + 1, build |-> 0]
       \/ offer # None /\ offer' = None
       \/ offer # None /\ offer' = [offer EXCEPT !.build = @ + 1]
    /\ UNCHANGED <<published, installed, selected, native, page, calls, card, approved, done>>

\* The page refreshes the card when the selection changes.
Selects ==
    /\ Changed
    /\ \E i \in Instances \ {selected} :
        selected' = i /\ card' = Receive(card, OverviewOf(i, center))
    /\ UNCHANGED <<published, offer, installed, native, page, calls, approved, done>>

Controller ==
    \/ Startup \/ StartupAnswers \/ CheckAnswers \/ PreviewAnswers
    \/ DownloadAnswers \/ InstallAnswers
    \/ \E fails \in BOOLEAN : ApplyAnswers(fails)

User == Click \/ View \/ TimerEnds \/ Reload

Next ==
    \/ \E p \in Pages : Serve(p)
    \/ Controller \/ User \/ Publishes \/ Offers \/ Selects

Spec == Init /\ [][Next]_vars

-----------------------------------------------------------------------------
Actions == {"idle", "checking", "available", "noUpdate", "updating", "checkError", "updateError"}

\* Type correctness.
TypeOK ==
    /\ published \in Versions /\ offer \in Offer \cup {None}
    /\ installed \in [Instances -> Versions] /\ selected \in Instances
    /\ changes \in 0 .. MaxChanges /\ page \in Pages
    /\ checking \in BOOLEAN /\ startedUp \in BOOLEAN /\ busy \subseteq {"client", "launcher"}
    /\ center \in [launcher : Availabilities, client : Availabilities,
                   clientOf : Instances \cup {None}]
    /\ pending \in Offer \cup {None}
    /\ card \in [action : Actions, overview : Overviews \cup {None}, work : Ops \cup {"none"},
                 queued : BOOLEAN, started : BOOLEAN, viewed : BOOLEAN, again : BOOLEAN,
                 clicks : 0 .. MaxClicks]
    /\ approved \in [Pages -> Overviews \cup {None}]

\* Whatever is installed is the version, and for the client the instance, that
\* the card showed when its user chose Update: no newer release published
\* meanwhile, other instance selected meanwhile, retry or other page replaces it.
ApprovedOnly ==
    \A d \in done :
        IF d.domain = "launcher" THEN d.version = d.approved.launcher
        ELSE d.version = d.approved.client /\ d.instance = d.approved.clientInstance

\* The stages in which a native command owns its domain's transaction.
Holding(domain) ==
    {p \in Pages : calls[p].at \in
        (IF domain = "client" THEN {"applying"} ELSE {"downloading", "installing", "rechecking"})}

\* Two pages never update one domain at once, and a transaction's flag is up
\* exactly while some command owns it: no way out of a command, of a page that
\* is gone included, leaves updating blocked for the rest of the process.
OneAtATime ==
    /\ \A d \in {"client", "launcher"} :
        /\ \A p, q \in Holding(d) : p = q
        /\ d \in busy <=> Holding(d) # {}
    /\ checking <=> \E p \in Pages : calls[p].at \in {"launcher", "client", "record"}

\* The button never stays in a waiting state with nothing under way, and it only
\* says Update where the overview beside it has one.
CardSettles ==
    /\ card.action \in {"checking", "updating"} => card.work # "none"
    /\ card.action = "available" => HasUpdate(card.overview)
=============================================================================
