------------------------------ MODULE SiteStore ------------------------------
(***************************************************************************)
(* One Site's rows in the SQLite database and the processes that write      *)
(* them: Pageview requests (internal/server/server.go collectPageview, then *)
(* internal/store/pageviews.go RecordPageview), the maintenance loop        *)
(* (internal/maintenance, internal/store/maintenance.go) and the            *)
(* administrator's Site operations (internal/store/sites.go).               *)
(*                                                                          *)
(* A transaction that runs under Store.writeMu is one action: the mutex and *)
(* SQLite's own atomicity make it so.  What a process reads BEFORE it takes *)
(* the mutex (the HMAC key, the clock, the cleanup's copy of the Site's     *)
(* settings) is an action of its own, because anything may commit between.  *)
(*                                                                          *)
(* Every statement is restricted to one site_id, so one Site is modelled.   *)
(* The dimensions of a Pageview that never change afterwards (overall,      *)
(* hostname, path, browser, os) are counted alike and are represented by    *)
(* Overall; the geographic ones, which a refresh rebuilds, by Places.       *)
(* Visitors are (hostname, browser) pairs: registrations are scoped by      *)
(* hostname.                                                                *)
(***************************************************************************)
EXTENDS Integers, FiniteSets, FiniteSetsExt

CONSTANTS
  Visitors,          \* who visits, as the tracker identifies them
  Addresses,         \* client IP addresses
  Places,            \* what a GeoIP lookup can answer, "unknown" included
  Overall,           \* the non-geographic dimension value
  Requests,          \* Pageview requests in flight at once
  Cleaners,          \* processes that run the cleanup (serve, the CLI)
  Timezones,         \* statistics timezones on offer
  LocalDate,         \* LocalDate[z][t]: the calendar date of instant t in z
  DayLength,         \* instants in 24 hours
  WindowChoices,     \* deduplication windows, in days
  Policies,          \* retention policies: [days, unlimited]
  Batch,             \* rows one cleanup statement may delete
  ForeignKeys,       \* may the connection that deletes a Site enforce them?
                     \* (which pooled connections do: module Connections)
  MaxClock,          \* bound: last instant of the run
  MaxRecords,        \* bound: Pageview Records ever inserted
  MaxResets,         \* bound: Site data resets
  MaxRules           \* bound: deduplication rules held at once

Instants == 0 .. MaxClock

ASSUME BoundsAssumption ==
  /\ MaxClock \in Nat /\ MaxRecords \in Nat /\ MaxResets \in Nat /\ MaxRules \in Nat
  /\ DayLength \in Nat \ {0} /\ Batch \in Nat \ {0}
  /\ WindowChoices \subseteq Nat \ {0}
  /\ Policies \subseteq [days : Nat \ {0}, unlimited : BOOLEAN]
  /\ ForeignKeys \subseteq BOOLEAN

ASSUME DimensionAssumption == Overall \notin Places /\ IsFiniteSet(Places)

\* The civil date never runs backwards in any timezone.
ASSUME LocalDateAssumption ==
  /\ LocalDate \in [Timezones -> [Instants -> Nat]]
  /\ \A z \in Timezones : \A s, t \in Instants :
        s <= t => LocalDate[z][s] <= LocalDate[z][t]

VARIABLES
  clock,          \* the instant time.Now() returns
  site,           \* the sites row
  rules,          \* site_deduplication_rules
  pageviews,      \* pageviews (detailed records)
  nextId,         \* the next Pageview Record ID
  registrations,  \* visitor_registrations
  totals,         \* daily_aggregates
  request,        \* Pageview requests in flight
  cleaner,        \* cleanup runs in progress
  (* History, read by no action of the program: *)
  ledger          \* what has been counted since the data were last cleared

database == <<site, rules, pageviews, nextId, registrations, totals>>
vars == <<clock, database, request, cleaner, ledger>>

-----------------------------------------------------------------------------
(* Values *)

Epoch == 0                                  \* the date 1970-01-01
Dates == {LocalDate[z][t] : z \in Timezones, t \in Instants}
Dims == Places \cup {Overall}

\* A Visitor Digest: an HMAC of the visitor under the Site key of its time.
Digest == [visitor : Visitors, key : 0 .. MaxResets]

Rule == [eff : Nat, days : WindowChoices]
Window == [start : Int, end : Int]
Registration == [window : Window, dim : Dims, who : Digest]
Pageview ==
  [id : 1 .. MaxRecords, at : Instants, date : Dates, place : Places,
   ip : Addresses, who : Digest, window : Window]

Idle == [step : {"idle"}]
Admitted == [step : {"admitted"}, who : Digest, ip : Addresses]
Stamped == [step : {"stamped"}, who : Digest, ip : Addresses,
            place : Places, at : Instants]

Started == [step : {"started"}, now : Instants]
Listed == [step : {"listed"}, now : Instants, tz : Timezones,
           retention : Policies]

idle == [step |-> "idle"]
NoCounts == [d \in Dates |-> [v \in Dims |-> [pv |-> 0, uv |-> 0]]]

-----------------------------------------------------------------------------
(* Deduplication windows *)

\* The latest rule effective on a date.
ActiveRule(rs, date) ==
  LET live == {r \in rs : r.eff <= date}
  IN  CHOOSE r \in live : \A s \in live : s.eff <= r.eff

\* deduplicationWindowStart: whole windows counted from the rule's anchor.
WindowStart(date, anchor, days) == date - ((date - anchor) % days)

WindowOf(rs, date) ==
  LET rule == ActiveRule(rs, date)
      start == WindowStart(date, rule.eff, rule.days)
  IN  [start |-> start, end |-> start + rule.days]

Today == LocalDate[site.tz][clock]

\* Mutant: the window is left out of the registration key.
RegisteredAnyWindow(window, dim, who) ==
  \E r \in registrations : r.dim = dim /\ r.who = who

\* The primary key of visitor_registrations leaves window_end out.
Registered(window, dim, who) ==
  \E r \in registrations :
     r.window.start = window.start /\ r.dim = dim /\ r.who = who

-----------------------------------------------------------------------------
(* Initial state: the Site CreateSite inserts, with one rule from 1970-01-01. *)

NewSite(tz, window, retention) ==
  [exists |-> TRUE, tz |-> tz, window |-> window, retention |-> retention,
   accepting |-> TRUE, first |-> FALSE, key |-> 0]

NewLedger(quiet) ==
  [accepted |-> [d \in Dates |-> 0],  \* Pageviews accepted, by date
   counted  |-> {},                   \* visitors counted, with their window
   settled  |-> 0,                    \* latest date a cleanup has cleaned to
   expired  |-> {},                   \* dates that lost a record to a cleanup
   spared   |-> TRUE,                 \* no cleanup took what an Unlimited Site keeps
   quiet    |-> quiet]                \* cleared, and not enabled since

Init ==
  /\ clock = 0
  /\ \E tz \in Timezones, w \in WindowChoices, r \in Policies :
       /\ site = NewSite(tz, w, r)
       /\ rules = {[eff |-> Epoch, days |-> w]}
  /\ pageviews = {} /\ nextId = 1 /\ registrations = {} /\ totals = NoCounts
  /\ request = [q \in Requests |-> idle]
  /\ cleaner = [c \in Cleaners |-> idle]
  /\ ledger = NewLedger(FALSE)

-----------------------------------------------------------------------------
(* Pageview requests *)

\* collectPageview reads the Site (and with it the HMAC key) and derives the
\* Visitor Digest.  It does not look at accept_pageviews.
AdmitPageview(q) ==
  /\ request[q] \in Idle
  /\ site.exists
  /\ \E v \in Visitors, ip \in Addresses :
       request' = [request EXCEPT ![q] =
         [step |-> "admitted", who |-> [visitor |-> v, key |-> site.key], ip |-> ip]]
  /\ UNCHANGED <<clock, database, cleaner, ledger>>

\* The lookup (local, online or failed: any place) returns, and RecordPageview
\* stamps OccurredAt before it asks for writeMu.
StampPageview(q) ==
  /\ request[q].step = "admitted"
  /\ \E place \in Places :
       request' = [request EXCEPT ![q] =
         [step |-> "stamped", who |-> request[q].who, ip |-> request[q].ip,
          place |-> place, at |-> clock]]
  /\ UNCHANGED <<clock, database, cleaner, ledger>>

\* aggregateDimensions
DimsOf(place) == {Overall, place}

\* daily_aggregates after one Pageview: every dimension of it gains a
\* Pageview, the newly registered ones a Unique Visitor too.
CountPageview(date, place, fresh) ==
  [totals EXCEPT ![date] =
     [v \in Dims |->
        IF v \in DimsOf(place)
        THEN [pv |-> totals[date][v].pv + 1,
              uv |-> totals[date][v].uv + (IF v \in fresh THEN 1 ELSE 0)]
        ELSE totals[date][v]]]

\* Mutant: accept_pageviews is not read again inside the transaction.
SiteExists == site.exists

\* The Site row the transaction reads is there and says accept_pageviews = 1.
CollectionEnabled == site.exists /\ site.accepting

\* The transaction of RecordPageview, from SELECT timezone to COMMIT.
RecordPageview(q) ==
  LET r == request[q]
      date == LocalDate[site.tz][r.at]
      window == WindowOf(rules, date)
      fresh == {v \in DimsOf(r.place) : ~ Registered(window, v, r.who)}
  IN
  /\ r.step = "stamped"
  /\ CollectionEnabled
  /\ nextId <= MaxRecords
  /\ pageviews' = pageviews \cup
       {[id |-> nextId, at |-> r.at, date |-> date, place |-> r.place,
         ip |-> r.ip, who |-> r.who, window |-> window]}
  /\ nextId' = nextId + 1
  /\ registrations' = registrations \cup
       {[window |-> window, dim |-> v, who |-> r.who] : v \in fresh}
  /\ totals' = CountPageview(date, r.place, fresh)
  /\ site' = [site EXCEPT !.first = TRUE]
  /\ request' = [request EXCEPT ![q] = idle]
  /\ ledger' = [ledger EXCEPT
                  !.accepted[date] = @ + 1,
                  !.counted = @ \cup {[window |-> window, who |-> r.who]}]
  /\ UNCHANGED <<clock, rules, cleaner>>

\* Collection disabled, Site gone, rate limit, client gone, transaction rolled
\* back: the request ends and nothing is stored.
DropPageview(q) ==
  /\ request[q] \notin Idle
  /\ request' = [request EXCEPT ![q] = idle]
  /\ UNCHANGED <<clock, database, cleaner, ledger>>

-----------------------------------------------------------------------------
(* Cleanup *)

\* RunOnce takes `now` once, for all its batches.
StartCleanup(c) ==
  /\ cleaner[c] \in Idle
  /\ cleaner' = [cleaner EXCEPT ![c] = [step |-> "started", now |-> clock]]
  /\ UNCHANGED <<clock, database, request, ledger>>

\* CleanupBatch reads the Sites without writeMu; a deleted Site is not listed.
ListSites(c) ==
  /\ cleaner[c].step = "started"
  /\ cleaner' = [cleaner EXCEPT ![c] =
       IF site.exists
       THEN [step |-> "listed", now |-> cleaner[c].now, tz |-> site.tz,
             retention |-> site.retention]
       ELSE idle]
  /\ UNCHANGED <<clock, database, request, ledger>>

\* The first Batch rows of a set, in an order that may leave ties open.
Batches(rows, Before(_, _)) ==
  {gone \in SUBSET rows :
     /\ Cardinality(gone) =
          IF Cardinality(rows) < Batch THEN Cardinality(rows) ELSE Batch
     /\ \A x \in gone, y \in rows \ gone : ~ Before(y, x)}

OlderRecord(p, r) == p.at < r.at \/ (p.at = r.at /\ p.id < r.id)
EndsEarlier(a, b) == a.window.end < b.window.end

\* The rows the two DELETE statements select, from the settings read earlier.
ExpiredRecords(run) ==
  IF run.retention.unlimited THEN {}
  ELSE {p \in pageviews : p.at < run.now - run.retention.days * DayLength}

\* Mutant: compares the start of the window.
StartedRegistrations(run) ==
  {r \in registrations : r.window.start <= LocalDate[run.tz][run.now]}

CompletedRegistrations(run) ==
  {r \in registrations : r.window.end <= LocalDate[run.tz][run.now]}

\* Mutant: an expired record takes its contribution with it.
CleanSiteReversing(c) ==
  LET run == cleaner[c] IN
  /\ run.step = "listed"
  /\ \E old \in Batches(ExpiredRecords(run), OlderRecord) :
       /\ pageviews' = pageviews \ old
       /\ totals' = [d \in Dates |-> [v \in Dims |->
            [totals[d][v] EXCEPT !.pv = @ - Cardinality(
               {p \in old : p.date = d /\ v \in DimsOf(p.place)})]]]
  /\ cleaner' = [cleaner EXCEPT ![c] = idle]
  /\ UNCHANGED <<clock, site, rules, nextId, registrations, request, ledger>>

\* One Site's transaction of CleanupBatch.  RunOnce adds the rows of all Sites up: another
\* pass follows a full batch, or one that other Sites have filled.
CleanSite(c) ==
  LET run == cleaner[c] IN
  /\ run.step = "listed"
  /\ \E old \in Batches(ExpiredRecords(run), OlderRecord),
        done \in Batches(CompletedRegistrations(run), EndsEarlier), more \in BOOLEAN :
       /\ Cardinality(old) = Batch \/ Cardinality(done) = Batch => more
       /\ pageviews' = pageviews \ old
       /\ registrations' = registrations \ done
       /\ cleaner' = [cleaner EXCEPT ![c] =
            IF more THEN [step |-> "started", now |-> run.now] ELSE idle]
       /\ ledger' = [ledger EXCEPT
            !.settled = IF @ < LocalDate[run.tz][run.now]
                        THEN LocalDate[run.tz][run.now] ELSE @,
            !.expired = @ \cup {p.date : p \in old},
            !.spared = @ /\ (site.exists /\ site.retention.unlimited => old = {})]
  /\ UNCHANGED <<clock, site, rules, nextId, totals, request>>

\* An error, a cancelled context or the 100-batch limit ends the run.
StopCleanup(c) ==
  /\ cleaner[c] \notin Idle
  /\ cleaner' = [cleaner EXCEPT ![c] = idle]
  /\ UNCHANGED <<clock, database, request, ledger>>

-----------------------------------------------------------------------------
(* The administrator *)

\* Mutant: the new window starts today.
ScheduleRuleToday(tz, window) ==
  LET today == LocalDate[tz][clock]
  IN  IF window = site.window THEN rules
      ELSE {r \in rules : r.eff # today} \cup {[eff |-> today, days |-> window]}

\* A changed window becomes a rule for the next local date, in the timezone
\* being saved; ON CONFLICT replaces a rule already scheduled for that date.
ScheduleRule(tz, window) ==
  LET next == LocalDate[tz][clock] + 1
  IN  IF window = site.window THEN rules
      ELSE {r \in rules : r.eff # next} \cup {[eff |-> next, days |-> window]}

\* Mutant: the timezone is not locked by the first Pageview.
AnyTimezone(tz) == TRUE

TimezoneUnlocked(tz) == site.first => tz = site.tz

UpdateSite(tz, window, retention, accepting) ==
  /\ site.exists
  /\ TimezoneUnlocked(tz)
  /\ rules' = ScheduleRule(tz, window)
  /\ Cardinality(rules') <= MaxRules
  /\ site' = [site EXCEPT !.tz = tz, !.window = window, !.retention = retention,
                          !.accepting = accepting]
  /\ ledger' = [ledger EXCEPT !.quiet = @ /\ ~ accepting]
  /\ UNCHANGED <<clock, pageviews, nextId, registrations, totals, request, cleaner>>

ResetSiteData ==
  /\ site.exists /\ site.key < MaxResets
  /\ site' = [site EXCEPT !.accepting = FALSE, !.first = FALSE, !.key = @ + 1]
  /\ rules' = {[eff |-> Epoch, days |-> site.window]}
  /\ pageviews' = {} /\ registrations' = {} /\ totals' = NoCounts
  /\ ledger' = NewLedger(TRUE)
  /\ UNCHANGED <<clock, nextId, request, cleaner>>

\* The Site row goes; ON DELETE CASCADE takes its rows in every other table if
\* the connection enforces foreign keys.
DeleteSite ==
  /\ site.exists
  /\ site' = [site EXCEPT !.exists = FALSE, !.accepting = FALSE, !.first = FALSE]
  /\ \/ /\ TRUE \in ForeignKeys
        /\ rules' = {} /\ pageviews' = {} /\ registrations' = {} /\ totals' = NoCounts
        /\ ledger' = NewLedger(TRUE)
     \/ /\ FALSE \in ForeignKeys
        /\ UNCHANGED <<rules, pageviews, registrations, totals>>
        /\ ledger' = [ledger EXCEPT !.quiet = TRUE]
  /\ UNCHANGED <<clock, nextId, request, cleaner>>

-----------------------------------------------------------------------------

Tick ==
  /\ clock < MaxClock
  /\ clock' = clock + 1
  /\ UNCHANGED <<database, request, cleaner, ledger>>

\* The process stops and starts again: only the database survives.
Restart ==
  /\ request' = [q \in Requests |-> idle]
  /\ cleaner' = [c \in Cleaners |-> idle]
  /\ UNCHANGED <<clock, database, ledger>>

SiteStep ==
  \/ \E q \in Requests :
       AdmitPageview(q) \/ StampPageview(q) \/ RecordPageview(q) \/ DropPageview(q)
  \/ \E c \in Cleaners :
       StartCleanup(c) \/ ListSites(c) \/ CleanSite(c) \/ StopCleanup(c)
  \/ \E tz \in Timezones, w \in WindowChoices, r \in Policies,
        a \in BOOLEAN : UpdateSite(tz, w, r, a)
  \/ ResetSiteData \/ DeleteSite \/ Tick

Next == SiteStep \/ Restart

Spec == Init /\ [][Next]_vars

-----------------------------------------------------------------------------
(* Properties *)

TypeOK ==
  /\ clock \in Instants
  /\ site \in [exists : BOOLEAN, tz : Timezones, window : WindowChoices,
               retention : Policies, accepting : BOOLEAN, first : BOOLEAN, key : 0 .. MaxResets]
  /\ rules \subseteq Rule
  /\ pageviews \subseteq Pageview
  /\ nextId \in 1 .. MaxRecords + 1
  /\ registrations \subseteq Registration
  /\ totals \in [Dates -> [Dims -> [pv : Nat, uv : Nat]]]
  /\ request \in [Requests -> Idle \cup Admitted \cup Stamped]
  /\ cleaner \in [Cleaners -> Idle \cup Started \cup Listed]
  /\ ledger \in [accepted : [Dates -> Nat], counted : SUBSET [window : Window, who : Digest],
                 settled : Nat, expired : SUBSET Dates, spared : BOOLEAN,
                 quiet : BOOLEAN]

\* A retained record stays in the deduplication window it was counted in: no
\* later change of the Site's rules, no cleanup and no reset moves it (UpdateSite
\* schedules rules for tomorrow, under the clock it reads after taking writeMu).
RecordsKeepTheirWindow ==
  \A p \in pageviews : p.window = WindowOf(rules, p.date)

\* Every retained record is dated in the Site's present timezone: the lock that
\* first_pageview_at puts on the timezone is never lifted while records remain,
\* though a request reads the clock long before the timezone it is dated in.
OneTimezone ==
  \A p \in pageviews : p.date = LocalDate[site.tz][p.at]

\* Between a reset or deletion and the next time an administrator enables
\* collection the Site holds no data, whatever requests were in flight.
ClearedStaysEmpty ==
  ledger.quiet => /\ pageviews = {} /\ registrations = {}
                  /\ totals = NoCounts /\ ~ site.first

\* As long as a window is not settled, the visitors counted in it are still
\* registered, so none is counted again.
OpenWindowsRemembered ==
  \A k \in ledger.counted :
     k.window.end > ledger.settled =>
        [window |-> k.window, dim |-> Overall, who |-> k.who] \in registrations

\* window_start identifies a window in the registration key although rules with
\* other lengths come and go.
WindowStartIdentifies ==
  \A k, m \in ledger.counted :
     k.window.start = m.window.start => k.window = m.window

\* "visitor registrations for completed deduplication windows" are removed, no others: a
\* visitor counted in a window that is not over is still registered, whichever timezone
\* a cleanup read before it took the lock.
UnfinishedWindowsRemembered ==
  \A k \in ledger.counted :
     k.window.end > Today =>
        [window |-> k.window, dim |-> Overall, who |-> k.who] \in registrations

\* "Unlimited Sites skip this deletion": while a Site's retention is Unlimited no
\* cleanup removes a Pageview Record of it.
UnlimitedSparesRecords == ledger.spared

Sum(S, f(_)) == SumFunctionOnSet([x \in S |-> f(x)], S)

\* The dates of a window that have come, under the rules of now.
PastDatesOf(w) == {d \in Dates : d <= Today /\ WindowOf(rules, d) = w}

CountedIn(w) == {k \in ledger.counted : k.window = w}

OverallVisitors == [d \in Dates |-> totals[d][Overall].uv]

\* The Unique Visitors of a window that is not settled, added over the dates of it
\* that have come, are the distinct visitors that were counted in it: RecordPageview
\* writes them on several dates, under rules that change, and keeps no list of them
\* but the registrations.
UniqueVisitorsAreDistinct ==
  \A e \in Dates :
     LET w == WindowOf(rules, e)
     IN  (e <= Today /\ rules # {} /\ w.end > ledger.settled) =>
           SumFunctionOnSet(OverallVisitors, PastDatesOf(w)) = Cardinality(CountedIn(w))

\* Expiring records never reverses what they contributed: the overall total of
\* each date, and the sum over its places, is the Pageviews accepted for it.
DurableTotals ==
  \A d \in Dates :
     /\ totals[d][Overall].pv = ledger.accepted[d]
     /\ Sum(Places, LAMBDA v : totals[d][v].pv) = ledger.accepted[d]

\* The rule that will be in force in the end is the window the settings show ...
LastRuleIsSetting ==
  \E r \in rules : r.days = site.window /\ \A s \in rules : s.eff <= r.eff

\* ... and no rule waits beyond tomorrow.
RulesMatchSettings ==
  /\ \A r \in rules : r.eff <= Today + 1
  /\ LastRuleIsSetting

\* "Changing the visitor deduplication window schedules a new rule for the next midnight
\* in the Site timezone and anchors the new sequence at that date": no rule that was
\* scheduled before comes after it (UpdateSite).
SettingsPrevail == site.exists => LastRuleIsSetting

\* Only a change of timezone can make the scheduled rules and the settings
\* disagree.
TimezoneKeepsRules ==
  [][(site.exists' /\ RulesMatchSettings /\ site.tz' = site.tz) => RulesMatchSettings']_vars

\* The statistics are the ledger's: each accepted Pageview counted once, each
\* visitor once per window that is not settled.
Ledger == INSTANCE VisitorLedger WITH
  LedgerDates <- Dates,
  pageviewTotal <- [d \in Dates |-> totals[d][Overall].pv],
  visitorTotal <- [d \in Dates |-> totals[d][Overall].uv],
  counted <- ledger.counted,
  settledTo <- ledger.settled

RefinesLedger == Ledger!LedgerSpec

-----------------------------------------------------------------------------
(* The inductive invariant of SiteStoreProofs, in named parts *)

\* An effective date names one rule.
RulesDistinct == \A r, s \in rules : r.eff = s.eff => r = s

\* Every date has a rule in force.
RulesCover ==
  rules # {} => \A d \in Dates : \E r \in rules :
                   r.eff <= d /\ \A s \in rules : s.eff <= d => s.eff <= r.eff

\* Nothing stored or about to be stored happened after the present.
NothingFromTheFuture ==
  /\ \A p \in pageviews : p.at <= clock
  /\ \A q \in Requests : request[q].step = "stamped" => request[q].at <= clock

\* A Site whose timezone may change has counted nothing.
UnlockedIsEmpty ==
  (site.exists /\ ~ site.first) => pageviews = {} /\ ledger.counted = {}

\* What was counted is the window, under the rules of now, of a date that has come.
CountedByRules ==
  \A k \in ledger.counted : \E d \in Dates :
     /\ d <= Today
     /\ rules # {}
     /\ k.window = WindowOf(rules, d)

\* A registration is the trace of a counted visitor.
RegistrationsCounted ==
  \A r \in registrations : [window |-> r.window, who |-> r.who] \in ledger.counted

\* A Site always has a rule, and its records keep them.
RulesPresent == site.exists \/ pageviews # {} => rules # {}

IInv ==
  /\ TypeOK /\ RulesDistinct /\ RulesCover /\ NothingFromTheFuture /\ UnlockedIsEmpty
  /\ OneTimezone /\ RecordsKeepTheirWindow /\ RulesPresent /\ CountedByRules
  /\ RegistrationsCounted /\ OpenWindowsRemembered

\* A date has at most as many Unique Visitors as Pageviews, and none before it comes.
OverallPlausible ==
  \A d \in Dates :
     /\ totals[d][Overall].uv <= totals[d][Overall].pv
     /\ d > Today => totals[d][Overall].pv = 0

\* A Site whose timezone may change has no totals.
UnlockedUncounted == (site.exists /\ ~ site.first) => totals = NoCounts

VisitorCounts ==
  /\ IsFiniteSet(ledger.counted) /\ OverallPlausible /\ UnlockedUncounted
  /\ UniqueVisitorsAreDistinct

=============================================================================
