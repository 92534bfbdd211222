--------------------------- MODULE SiteStoreProofs ---------------------------
(***************************************************************************)
(* Proofs about SiteStore, and SiteStore with the refresh of GeoRefresh,    *)
(* for every number of visitors, requests, cleanups, places, timezones,     *)
(* windows and instants.                                                    *)
(***************************************************************************)
EXTENDS GeoRefresh, RecursionTheorems, TLAPS

-----------------------------------------------------------------------------
(* Deduplication windows *)

\* deduplicationWindowStart answers a date between the anchor of the rule and the
\* date it is asked about.
LEMMA WindowStartBounds ==
  ASSUME NEW date \in Int, NEW anchor \in Int, NEW days \in Nat \ {0}, anchor <= date
  PROVE  /\ WindowStart(date, anchor, days) \in Int
         /\ anchor <= WindowStart(date, anchor, days)
         /\ WindowStart(date, anchor, days) <= date
         /\ date < WindowStart(date, anchor, days) + days
<1> DEFINE m == (date - anchor) % days
<1>1. m \in 0 .. (days - 1)
  OBVIOUS
<1>2. m <= date - anchor
  OBVIOUS
<1> QED BY <1>1, <1>2 DEF WindowStart

\* The rule ingestion selects is the latest one effective on the date.
LEMMA ActiveRuleIsLatest ==
  ASSUME NEW rs, NEW date,
         \E r \in rs : r.eff <= date /\ \A s \in rs : s.eff <= date => s.eff <= r.eff
  PROVE  LET a == ActiveRule(rs, date)
         IN  /\ a \in rs
             /\ a.eff <= date
             /\ \A s \in rs : s.eff <= date => s.eff <= a.eff
<1> DEFINE live == {r \in rs : r.eff <= date}
           P(r) == \A s \in live : s.eff <= r.eff
<1>1. \E r \in live : P(r)
  OBVIOUS
<1>2. (CHOOSE r \in live : P(r)) \in live /\ P(CHOOSE r \in live : P(r))
  BY <1>1
<1>3. ActiveRule(rs, date) = CHOOSE r \in live : P(r)
  BY DEF ActiveRule
<1> HIDE DEF P, live
<1>4. ActiveRule(rs, date) \in live /\ P(ActiveRule(rs, date))
  BY <1>2, <1>3
<1> QED BY <1>4 DEF P, live

\* A date keeps its window when the rules change only after it.
LEMMA WindowKept ==
  ASSUME NEW rs, NEW rt, NEW date,
         {r \in rs : r.eff <= date} = {r \in rt : r.eff <= date}
  PROVE  WindowOf(rs, date) = WindowOf(rt, date)
BY DEF WindowOf, ActiveRule

LEMMA DatesAreNat == Dates \subseteq Nat
BY LocalDateAssumption DEF Dates

LEMMA LocalDateType ==
  ASSUME NEW z \in Timezones, NEW t \in Instants
  PROVE  LocalDate[z][t] \in Dates /\ LocalDate[z][t] \in Nat
BY LocalDateAssumption DEF Dates

\* What the rules say of a date, wherever they say anything.
LEMMA WindowOfDate ==
  ASSUME rules \subseteq Rule, RulesCover, rules # {}, NEW d \in Dates
  PROVE  LET a == ActiveRule(rules, d)
             w == WindowOf(rules, d)
         IN  /\ a \in rules /\ a.eff <= d
             /\ \A s \in rules : s.eff <= d => s.eff <= a.eff
             /\ w \in Window
             /\ a.eff <= w.start /\ w.start <= d /\ w.end = w.start + a.days
             /\ d < w.end
<1> DEFINE a == ActiveRule(rules, d)
<1>1. a \in rules /\ a.eff <= d /\ \A s \in rules : s.eff <= d => s.eff <= a.eff
  <2>1. \E r \in rules : r.eff <= d /\ \A s \in rules : s.eff <= d => s.eff <= r.eff
    BY DEF RulesCover
  <2> QED BY <2>1, ActiveRuleIsLatest
<1> HIDE DEF a
<1>2. a.eff \in Int /\ a.days \in Nat \ {0} /\ d \in Int
  <2>1. a.eff \in Nat /\ a.days \in WindowChoices
    BY <1>1 DEF Rule
  <2>2. d \in Nat
    BY DatesAreNat
  <2>3. WindowChoices \subseteq Nat \ {0}
    BY BoundsAssumption
  <2>4. a.eff \in Int
    BY <2>1
  <2>5. a.days \in Nat \ {0}
    BY <2>1, <2>3
  <2>6. d \in Int
    BY <2>2
  <2> QED BY <2>4, <2>5, <2>6
<1>3. /\ WindowStart(d, a.eff, a.days) \in Int
      /\ a.eff <= WindowStart(d, a.eff, a.days)
      /\ WindowStart(d, a.eff, a.days) <= d
      /\ d < WindowStart(d, a.eff, a.days) + a.days
  BY <1>1, <1>2, WindowStartBounds
<1>4. WindowOf(rules, d) = [start |-> WindowStart(d, a.eff, a.days),
                            end |-> WindowStart(d, a.eff, a.days) + a.days]
  BY DEF WindowOf, a
<1>5. WindowOf(rules, d) \in Window
  BY <1>2, <1>3, <1>4 DEF Window
<1> QED BY <1>1, <1>3, <1>4, <1>5 DEF a

\* Two dates whose windows start on the same day are in the same window, whatever
\* rules came between them.
LEMMA StartIdentifiesWindow ==
  ASSUME rules \subseteq Rule, RulesCover, RulesDistinct, rules # {},
         NEW d \in Dates, NEW e \in Dates,
         WindowOf(rules, d).start = WindowOf(rules, e).start
  PROVE  WindowOf(rules, d) = WindowOf(rules, e)
<1> DEFINE a == ActiveRule(rules, d)
           b == ActiveRule(rules, e)
           v == WindowOf(rules, d)
           w == WindowOf(rules, e)
<1>1. /\ a \in rules /\ a.eff <= d
      /\ \A s \in rules : s.eff <= d => s.eff <= a.eff
      /\ v \in Window /\ a.eff <= v.start /\ v.start <= d /\ v.end = v.start + a.days
  BY WindowOfDate
<1>2. /\ b \in rules /\ b.eff <= e
      /\ \A s \in rules : s.eff <= e => s.eff <= b.eff
      /\ w \in Window /\ b.eff <= w.start /\ w.start <= e /\ w.end = w.start + b.days
  BY WindowOfDate
<1> HIDE DEF a, b, v, w
<1>3. a.eff \in Nat /\ b.eff \in Nat /\ d \in Nat /\ e \in Nat
  BY <1>1, <1>2, DatesAreNat DEF Rule
<1>4. v.start \in Int /\ w.start \in Int
  BY <1>1, <1>2 DEF Window
<1>5. v.start = w.start
  BY DEF v, w
<1>6. ~ (a.eff < b.eff)
  <2> SUFFICES ASSUME a.eff < b.eff PROVE FALSE
    OBVIOUS
  <2>1. d < b.eff
    BY <1>1, <1>2, <1>3
  <2> QED BY <2>1, <1>1, <1>2, <1>3, <1>4, <1>5
<1>7. ~ (b.eff < a.eff)
  <2> SUFFICES ASSUME b.eff < a.eff PROVE FALSE
    OBVIOUS
  <2>1. e < a.eff
    BY <1>1, <1>2, <1>3
  <2> QED BY <2>1, <1>1, <1>2, <1>3, <1>4, <1>5
<1>8. a = b
  BY <1>1, <1>2, <1>3, <1>6, <1>7 DEF RulesDistinct
<1>9. v = w
  BY <1>1, <1>2, <1>5, <1>8 DEF Window
<1> QED BY <1>9 DEF v, w

-----------------------------------------------------------------------------
(* The inductive invariant *)

LEMMA ChoicesArePositive == WindowChoices \subseteq Nat \ {0}
BY BoundsAssumption

LEMMA BoundsAreNat == MaxClock \in Nat /\ MaxRecords \in Nat /\ MaxResets \in Nat
BY BoundsAssumption

LEMMA ZeroInstant == 0 \in Instants
BY BoundsAreNat DEF Instants

LEMMA NoCountsType == NoCounts \in [Dates -> [Dims -> [pv : Nat, uv : Nat]]]
BY DEF NoCounts

LEMMA NewLedgerType ==
  ASSUME NEW quiet \in BOOLEAN
  PROVE  NewLedger(quiet) \in
           [accepted : [Dates -> Nat], counted : SUBSET [window : Window, who : Digest],
            settled : Nat, expired : SUBSET Dates, spared : BOOLEAN, quiet : BOOLEAN]
BY DEF NewLedger

LEMMA Initially == Init => IInv
<1> SUFFICES ASSUME Init PROVE IInv
  OBVIOUS
<1> PICK tz \in Timezones, w \in WindowChoices, r \in Policies :
      /\ site = NewSite(tz, w, r)
      /\ rules = {[eff |-> Epoch, days |-> w]}
  BY DEF Init
<1>1. TypeOK
  <2>1. clock \in Instants
    BY ZeroInstant DEF Init
  <2>2. site \in [exists : BOOLEAN, tz : Timezones, window : WindowChoices,
               retention : Policies, accepting : BOOLEAN, first : BOOLEAN, key : 0 .. MaxResets]
    BY BoundsAreNat DEF NewSite
  <2>3. rules \subseteq Rule
    BY DEF Rule, Epoch
  <2>4. nextId \in 1 .. MaxRecords + 1
    BY BoundsAreNat DEF Init
  <2>5. totals \in [Dates -> [Dims -> [pv : Nat, uv : Nat]]]
    BY NoCountsType DEF Init
  <2>6. request \in [Requests -> Idle \cup Admitted \cup Stamped]
    BY DEF Init, Idle, idle
  <2>7. cleaner \in [Cleaners -> Idle \cup Started \cup Listed]
    BY DEF Init, Idle, idle
  <2>8. pageviews \subseteq Pageview /\ registrations \subseteq Registration
    BY DEF Init
  <2>9. ledger \in
           [accepted : [Dates -> Nat], counted : SUBSET [window : Window, who : Digest],
            settled : Nat, expired : SUBSET Dates, spared : BOOLEAN, quiet : BOOLEAN]
    BY NewLedgerType DEF Init
  <2> QED BY <2>1, <2>2, <2>3, <2>4, <2>5, <2>6, <2>7, <2>8, <2>9 DEF TypeOK
<1>2. RulesDistinct /\ RulesPresent
  BY DEF RulesDistinct, RulesPresent, Init
<1>3. RulesCover
  BY DatesAreNat DEF RulesCover, Epoch
<1>4. NothingFromTheFuture
  BY DEF NothingFromTheFuture, Init, idle
<1>5. OneTimezone /\ RecordsKeepTheirWindow
  BY DEF OneTimezone, RecordsKeepTheirWindow, Init
<1>6. ledger.counted = {}
  BY DEF Init, NewLedger
<1>7. UnlockedIsEmpty /\ CountedByRules /\ RegistrationsCounted /\ OpenWindowsRemembered
  BY <1>6 DEF UnlockedIsEmpty, CountedByRules, RegistrationsCounted, OpenWindowsRemembered, Init
<1> QED BY <1>1, <1>2, <1>3, <1>4, <1>5, <1>7 DEF IInv

\* A step of a request or a cleanup that leaves the database and the clock alone.
LEMMA ProcessStep ==
  ASSUME IInv, UNCHANGED <<clock, database, ledger>>,
         request' \in [Requests -> Idle \cup Admitted \cup Stamped],
         cleaner' \in [Cleaners -> Idle \cup Started \cup Listed],
         \A q \in Requests : request'[q].step = "stamped" => request'[q].at <= clock
  PROVE  IInv'
<1> USE DEF database
<1>1. TypeOK'
  BY DEF IInv, TypeOK
<1>2. (RulesDistinct /\ RulesCover /\ RulesPresent)'
  BY DEF IInv, RulesDistinct, RulesCover, RulesPresent
<1>3. NothingFromTheFuture'
  BY DEF IInv, NothingFromTheFuture
<1>4. (UnlockedIsEmpty /\ OneTimezone /\ RegistrationsCounted /\ OpenWindowsRemembered)'
  BY DEF IInv, UnlockedIsEmpty, OneTimezone, RegistrationsCounted, OpenWindowsRemembered
<1>5. \A d : WindowOf(rules, d)' = WindowOf(rules, d)
  BY DEF WindowOf, ActiveRule
<1>6. RecordsKeepTheirWindow'
  BY <1>5 DEF IInv, RecordsKeepTheirWindow
<1>7. CountedByRules'
  BY <1>5 DEF IInv, CountedByRules, Today
<1> QED BY <1>1, <1>2, <1>3, <1>4, <1>6, <1>7 DEF IInv

LEMMA TickStep == IInv /\ Tick => IInv'
<1> SUFFICES ASSUME IInv, Tick PROVE IInv'
  OBVIOUS
<1> USE DEF database
<1>1. clock \in Instants /\ clock' \in Instants /\ clock <= clock' /\ site.tz \in Timezones
  BY BoundsAreNat DEF IInv, TypeOK, Tick, Instants
<1>2. TypeOK'
  BY <1>1 DEF IInv, TypeOK, Tick
<1>3. (RulesDistinct /\ RulesCover /\ RulesPresent)'
  BY DEF IInv, RulesDistinct, RulesCover, RulesPresent, Tick
<1>4. NothingFromTheFuture'
  <2>1. \A p \in pageviews : p.at \in Instants /\ p.at <= clock
    BY DEF IInv, TypeOK, Pageview, NothingFromTheFuture
  <2>2. \A q \in Requests : request[q].step = "stamped" =>
           request[q].at \in Instants /\ request[q].at <= clock
    BY DEF IInv, TypeOK, NothingFromTheFuture, Idle, Admitted, Stamped
  <2> QED BY <1>1, <2>1, <2>2 DEF NothingFromTheFuture, Tick, Instants
<1>5. (UnlockedIsEmpty /\ OneTimezone /\ RegistrationsCounted /\ OpenWindowsRemembered)'
  BY DEF IInv, UnlockedIsEmpty, OneTimezone, RegistrationsCounted, OpenWindowsRemembered, Tick
<1>6. \A d : WindowOf(rules, d)' = WindowOf(rules, d)
  BY DEF WindowOf, ActiveRule, Tick
<1>7. RecordsKeepTheirWindow'
  BY <1>6 DEF IInv, RecordsKeepTheirWindow, Tick
<1>8. CountedByRules'
  <2>1. /\ LocalDate[site.tz][clock] <= LocalDate[site.tz][clock']
        /\ LocalDate[site.tz][clock] \in Nat /\ LocalDate[site.tz][clock'] \in Nat
    BY <1>1, LocalDateAssumption
  <2>2. Today \in Nat /\ Today' \in Nat /\ Today <= Today'
    BY <2>1 DEF Today, Tick
  <2>3. \A d \in Dates : d <= Today => d <= Today'
    BY <2>2, DatesAreNat
  <2> QED BY <1>6, <2>3 DEF IInv, CountedByRules, Tick
<1> QED BY <1>2, <1>3, <1>4, <1>5, <1>7, <1>8 DEF IInv

\* One request moves on and nothing else changes.
LEMMA RequestMoves ==
  ASSUME IInv, NEW q \in Requests, NEW r \in Idle \cup Admitted \cup Stamped,
         r.step = "stamped" => r.at <= clock,
         request' = [request EXCEPT ![q] = r],
         UNCHANGED <<clock, database, cleaner, ledger>>
  PROVE  IInv'
<1>1. request \in [Requests -> Idle \cup Admitted \cup Stamped]
  BY DEF IInv, TypeOK
<1>2. cleaner' \in [Cleaners -> Idle \cup Started \cup Listed]
  BY DEF IInv, TypeOK
<1>3. request' \in [Requests -> Idle \cup Admitted \cup Stamped]
  BY <1>1
<1>4. \A u \in Requests : request'[u].step = "stamped" => request'[u].at <= clock
  <2> SUFFICES ASSUME NEW u \in Requests, request'[u].step = "stamped"
               PROVE  request'[u].at <= clock
    OBVIOUS
  <2>1. CASE u = q
    BY <2>1, <1>1
  <2>2. CASE u # q
    BY <2>2, <1>1 DEF IInv, NothingFromTheFuture
  <2> QED BY <2>1, <2>2
<1> QED BY <1>2, <1>3, <1>4, ProcessStep

\* The request steps that store nothing.
LEMMA RequestStep ==
  ASSUME IInv, NEW q \in Requests, AdmitPageview(q) \/ StampPageview(q) \/ DropPageview(q)
  PROVE  IInv'
<1>1. UNCHANGED <<clock, database, cleaner, ledger>>
  BY DEF AdmitPageview, StampPageview, DropPageview
<1>2. /\ request \in [Requests -> Idle \cup Admitted \cup Stamped]
      /\ clock \in Instants /\ site.key \in 0 .. MaxResets
  BY DEF IInv, TypeOK
<1>3. clock <= clock
  BY <1>2, BoundsAreNat DEF Instants
<1>4. CASE AdmitPageview(q)
  <2> PICK v \in Visitors, ip \in Addresses :
        request' = [request EXCEPT ![q] =
         [step |-> "admitted", who |-> [visitor |-> v, key |-> site.key], ip |-> ip]]
    BY <1>4 DEF AdmitPageview
  <2> DEFINE r == [step |-> "admitted", who |-> [visitor |-> v, key |-> site.key], ip |-> ip]
  <2>1. r \in Admitted /\ r.step # "stamped"
    BY <1>2 DEF Admitted, Digest
  <2>2. request' = [request EXCEPT ![q] = r]
    OBVIOUS
  <2> QED BY <2>1, <2>2, <1>1, RequestMoves
<1>5. CASE StampPageview(q)
  <2>1. request[q] \in Admitted
    BY <1>5, <1>2 DEF StampPageview, Idle, Admitted, Stamped
  <2>2. PICK place \in Places : request' = [request EXCEPT ![q] =
          [step |-> "stamped", who |-> request[q].who, ip |-> request[q].ip,
           place |-> place, at |-> clock]]
    BY <1>5 DEF StampPageview
  <2> DEFINE r == [step |-> "stamped", who |-> request[q].who, ip |-> request[q].ip,
                   place |-> place, at |-> clock]
  <2>3. r \in Stamped /\ r.at <= clock
    BY <2>1, <1>2, <1>3 DEF Admitted, Stamped
  <2> QED BY <2>2, <2>3, <1>1, RequestMoves
<1>6. CASE DropPageview(q)
  <2>1. idle \in Idle /\ idle.step # "stamped"
    BY DEF Idle, idle
  <2>2. request' = [request EXCEPT ![q] = idle]
    BY <1>6 DEF DropPageview
  <2> QED BY <2>1, <2>2, <1>1, RequestMoves
<1> QED BY <1>4, <1>5, <1>6

\* The cleanup steps that delete nothing, and a restart of the process.
LEMMA CleanerStep ==
  ASSUME IInv,
         \/ \E c \in Cleaners : StartCleanup(c) \/ ListSites(c) \/ StopCleanup(c)
         \/ Restart
  PROVE  IInv'
<1>1. UNCHANGED <<clock, database, ledger>>
  BY DEF StartCleanup, ListSites, StopCleanup, Restart
<1>2. /\ request \in [Requests -> Idle \cup Admitted \cup Stamped]
      /\ cleaner \in [Cleaners -> Idle \cup Started \cup Listed]
      /\ clock \in Instants /\ site.tz \in Timezones /\ site.retention \in Policies
  BY DEF IInv, TypeOK
<1>3. idle \in Idle
  BY DEF Idle, idle
<1>4. CASE \E c \in Cleaners : StartCleanup(c) \/ ListSites(c) \/ StopCleanup(c)
  <2>1. UNCHANGED request
    BY <1>4 DEF StartCleanup, ListSites, StopCleanup
  <2>2. PICK c \in Cleaners : StartCleanup(c) \/ ListSites(c) \/ StopCleanup(c)
    BY <1>4
  <2>3. cleaner' \in [Cleaners -> Idle \cup Started \cup Listed]
    <3>1. CASE StartCleanup(c)
      BY <3>1, <1>2 DEF StartCleanup, Started
    <3>2. CASE ListSites(c)
      <4>1. cleaner[c] \in Started
        BY <3>2, <1>2 DEF ListSites, Idle, Started, Listed
      <4>2. [step |-> "listed", now |-> cleaner[c].now, tz |-> site.tz,
             retention |-> site.retention] \in Listed
        BY <4>1, <1>2 DEF Started, Listed
      <4> QED BY <3>2, <4>2, <1>2, <1>3 DEF ListSites
    <3>3. CASE StopCleanup(c)
      BY <3>3, <1>2, <1>3 DEF StopCleanup
    <3> QED BY <2>2, <3>1, <3>2, <3>3
  <2>4. \A u \in Requests : request'[u].step = "stamped" => request'[u].at <= clock
    BY <2>1 DEF IInv, NothingFromTheFuture
  <2> QED BY <1>1, <1>2, <2>1, <2>3, <2>4, ProcessStep
<1>5. CASE Restart
  <2>1. /\ request' \in [Requests -> Idle \cup Admitted \cup Stamped]
        /\ cleaner' \in [Cleaners -> Idle \cup Started \cup Listed]
    BY <1>5, <1>3 DEF Restart
  <2>2. \A u \in Requests : request'[u].step = "stamped" => request'[u].at <= clock
    BY <1>5 DEF Restart, idle
  <2> QED BY <1>1, <2>1, <2>2, ProcessStep
<1> QED BY <1>4, <1>5

\* Clearing the data: a reset, or a deletion that cascades.
LEMMA ClearStep ==
  ASSUME IInv, ResetSiteData \/ DeleteSite
  PROVE  IInv'
<1>1. UNCHANGED <<clock, nextId, request, cleaner>>
  BY DEF ResetSiteData, DeleteSite
<1>2. site' \in [exists : BOOLEAN, tz : Timezones, window : WindowChoices,
               retention : Policies, accepting : BOOLEAN, first : BOOLEAN, key : 0 .. MaxResets]
      /\ site.tz' = site.tz
  <2>1. site \in [exists : BOOLEAN, tz : Timezones, window : WindowChoices,
               retention : Policies, accepting : BOOLEAN, first : BOOLEAN, key : 0 .. MaxResets]
    BY DEF IInv, TypeOK
  <2>2. CASE ResetSiteData
    <3>1. site' = [site EXCEPT !.accepting = FALSE, !.first = FALSE, !.key = @ + 1]
          /\ site.key + 1 \in 0 .. MaxResets
      BY <2>1, <2>2, BoundsAreNat DEF ResetSiteData
    <3> QED BY <2>1, <3>1
  <2>3. CASE DeleteSite
    BY <2>1, <2>3 DEF DeleteSite
  <2> QED BY <2>2, <2>3
<1>3. NothingFromTheFuture'
  BY <1>1 DEF IInv, NothingFromTheFuture, ResetSiteData, DeleteSite
<1>4. RulesPresent'
  BY DEF IInv, TypeOK, RulesPresent, ResetSiteData, DeleteSite
<1>5. UnlockedIsEmpty'
  <2>1. CASE ResetSiteData
    BY <2>1 DEF UnlockedIsEmpty, ResetSiteData, NewLedger
  <2>2. CASE DeleteSite
    <3>1. ~ site'.exists
      BY <2>2 DEF IInv, TypeOK, DeleteSite
    <3> QED BY <3>1 DEF UnlockedIsEmpty
  <2> QED BY <2>1, <2>2
<1>6. CASE pageviews' = {} /\ registrations' = {} /\ totals' = NoCounts /\ ledger' = NewLedger(TRUE)
           /\ (rules' = {} \/ rules' = {[eff |-> Epoch, days |-> site.window]})
  <2>1. rules' \subseteq Rule
    BY <1>6 DEF IInv, TypeOK, Rule, Epoch
  <2>2. TypeOK'
    BY <1>1, <1>2, <1>6, <2>1, NoCountsType, NewLedgerType DEF IInv, TypeOK
  <2>3. RulesDistinct'
    BY <1>6 DEF RulesDistinct
  <2>4. RulesCover'
    BY <1>6, DatesAreNat DEF RulesCover, Epoch
  <2>5. OneTimezone' /\ RecordsKeepTheirWindow'
    BY <1>6 DEF OneTimezone, RecordsKeepTheirWindow
  <2>6. ledger'.counted = {}
    BY <1>6 DEF NewLedger
  <2>7. CountedByRules' /\ OpenWindowsRemembered' /\ RegistrationsCounted'
    BY <1>6, <2>6 DEF CountedByRules, OpenWindowsRemembered, RegistrationsCounted
  <2> QED BY <1>3, <1>4, <1>5, <2>2, <2>3, <2>4, <2>5, <2>7 DEF IInv
<1>7. CASE UNCHANGED <<rules, pageviews, registrations, totals>>
           /\ ledger' = [ledger EXCEPT !.quiet = TRUE]
  <2>1. TypeOK'
    BY <1>1, <1>2, <1>7 DEF IInv, TypeOK
  <2>2. ledger'.counted = ledger.counted /\ ledger'.settled = ledger.settled
    BY <1>7 DEF IInv, TypeOK
  <2>3. (RulesDistinct /\ RulesCover)'
    BY <1>7 DEF IInv, RulesDistinct, RulesCover
  <2>4. (OneTimezone /\ OpenWindowsRemembered /\ RegistrationsCounted)'
    BY <1>2, <1>7, <2>2 DEF IInv, OneTimezone, OpenWindowsRemembered, RegistrationsCounted
  <2>5. \A d : WindowOf(rules, d)' = WindowOf(rules, d)
    BY <1>7 DEF WindowOf, ActiveRule
  <2>6. RecordsKeepTheirWindow'
    BY <1>7, <2>5 DEF IInv, RecordsKeepTheirWindow
  <2>7. Today' = Today
    BY <1>1, <1>2 DEF Today
  <2>8. CountedByRules'
    BY <1>7, <2>2, <2>5, <2>7 DEF IInv, CountedByRules
  <2> QED BY <1>3, <1>4, <1>5, <2>1, <2>3, <2>4, <2>6, <2>8 DEF IInv
<1> QED BY <1>6, <1>7 DEF ResetSiteData, DeleteSite

\* One cleanup transaction: it removes rows and moves the settled date on.
LEMMA CleanSiteStep ==
  ASSUME IInv, NEW c \in Cleaners, CleanSite(c)
  PROVE  IInv'
<1> DEFINE date == LocalDate[cleaner[c].tz][cleaner[c].now]
<1>1. UNCHANGED <<clock, site, rules, nextId, totals, request>>
  BY DEF CleanSite
<1>2. PICK old, done, more :
        /\ old \subseteq pageviews
        /\ done \subseteq CompletedRegistrations(cleaner[c])
        /\ pageviews' = pageviews \ old
        /\ registrations' = registrations \ done
        /\ cleaner' = [cleaner EXCEPT ![c] =
             IF more THEN [step |-> "started", now |-> cleaner[c].now] ELSE idle]
        /\ ledger' = [ledger EXCEPT
             !.settled = IF @ < date THEN date ELSE @,
             !.expired = @ \cup {p.date : p \in old},
             !.spared = @ /\ (site.exists /\ site.retention.unlimited => old = {})]
  BY DEF CleanSite, Batches, ExpiredRecords
<1>3. /\ cleaner \in [Cleaners -> Idle \cup Started \cup Listed]
      /\ pageviews \subseteq Pageview /\ registrations \subseteq Registration
      /\ ledger \in [accepted : [Dates -> Nat], counted : SUBSET [window : Window, who : Digest],
                 settled : Nat, expired : SUBSET Dates, spared : BOOLEAN, quiet : BOOLEAN]
  BY DEF IInv, TypeOK
<1>4. cleaner[c] \in Listed
  BY <1>3 DEF CleanSite, Idle, Started, Listed
<1>5. date \in Nat
  BY <1>4, LocalDateType DEF Listed
<1> HIDE DEF date
<1>6. /\ ledger'.counted = ledger.counted
      /\ ledger'.settled = IF ledger.settled < date THEN date ELSE ledger.settled
  BY <1>2, <1>3
<1>7. TypeOK'
  <2>1. pageviews' \subseteq Pageview /\ registrations' \subseteq Registration
    BY <1>2, <1>3
  <2>2. cleaner' \in [Cleaners -> Idle \cup Started \cup Listed]
    <3>1. idle \in Idle /\ [step |-> "started", now |-> cleaner[c].now] \in Started
      BY <1>4 DEF Idle, idle, Started, Listed
    <3> QED BY <3>1, <1>2, <1>3
  <2>3. {p.date : p \in old} \subseteq Dates
    BY <1>2, <1>3 DEF Pageview
  <2>4. (ledger.spared /\ (site.exists /\ site.retention.unlimited => old = {})) \in BOOLEAN
    OBVIOUS
  <2>5. (IF ledger.settled < date THEN date ELSE ledger.settled) \in Nat
    BY <1>3, <1>5
  <2>6. ledger' \in [accepted : [Dates -> Nat], counted : SUBSET [window : Window, who : Digest],
                 settled : Nat, expired : SUBSET Dates, spared : BOOLEAN, quiet : BOOLEAN]
    BY <1>2, <1>3, <2>3, <2>4, <2>5
  <2> QED BY <1>1, <2>1, <2>2, <2>6 DEF IInv, TypeOK
<1>8. (RulesDistinct /\ RulesCover)'
  BY <1>1 DEF IInv, RulesDistinct, RulesCover
<1>9. RulesPresent'
  BY <1>1, <1>2 DEF IInv, RulesPresent
<1>10. NothingFromTheFuture'
  BY <1>1, <1>2 DEF IInv, NothingFromTheFuture
<1>11. UnlockedIsEmpty'
  BY <1>1, <1>2, <1>6 DEF IInv, UnlockedIsEmpty
<1>12. OneTimezone'
  BY <1>1, <1>2 DEF IInv, OneTimezone
<1>13. \A d : WindowOf(rules, d)' = WindowOf(rules, d)
  BY <1>1 DEF WindowOf, ActiveRule
<1>14. RecordsKeepTheirWindow'
  BY <1>2, <1>13 DEF IInv, RecordsKeepTheirWindow
<1>15. CountedByRules'
  BY <1>1, <1>6, <1>13 DEF IInv, CountedByRules, Today
<1>16. RegistrationsCounted'
  BY <1>2, <1>6 DEF IInv, RegistrationsCounted
<1>17. OpenWindowsRemembered'
  <2> SUFFICES ASSUME NEW k \in ledger.counted, k.window.end > ledger'.settled
               PROVE  [window |-> k.window, dim |-> Overall, who |-> k.who] \in registrations'
    BY <1>6 DEF OpenWindowsRemembered
  <2> DEFINE r == [window |-> k.window, dim |-> Overall, who |-> k.who]
  <2>1. k.window.end \in Int
    BY <1>3 DEF Window
  <2>2. ledger.settled \in Nat
    BY <1>3
  <2>3. k.window.end > ledger.settled /\ ~ (k.window.end <= date)
    BY <1>5, <1>6, <2>1, <2>2
  <2>4. r \in registrations
    BY <2>3 DEF IInv, OpenWindowsRemembered
  <2>5. r \notin done
    <3>1. \A s \in done : s.window.end <= date
      BY <1>2 DEF CompletedRegistrations, date
    <3>2. r.window.end = k.window.end
      OBVIOUS
    <3> QED BY <3>1, <3>2, <2>3
  <2> QED BY <1>2, <2>4, <2>5
<1> QED BY <1>7, <1>8, <1>9, <1>10, <1>11, <1>12, <1>14, <1>15, <1>16, <1>17 DEF IInv

\* Saving the settings: a rule for tomorrow moves no date that has come.
LEMMA UpdateSiteStep ==
  ASSUME IInv, NEW tz \in Timezones, NEW w \in WindowChoices, NEW p \in Policies,
         NEW a \in BOOLEAN, UpdateSite(tz, w, p, a)
  PROVE  IInv'
<1> DEFINE next == LocalDate[tz][clock] + 1
           rule == [eff |-> next, days |-> w]
<1>1. UNCHANGED <<clock, pageviews, nextId, registrations, totals, request, cleaner>>
  BY DEF UpdateSite
<1>2. /\ clock \in Instants /\ rules \subseteq Rule /\ pageviews \subseteq Pageview
      /\ site \in [exists : BOOLEAN, tz : Timezones, window : WindowChoices,
               retention : Policies, accepting : BOOLEAN, first : BOOLEAN, key : 0 .. MaxResets]
      /\ ledger \in [accepted : [Dates -> Nat], counted : SUBSET [window : Window, who : Digest],
                 settled : Nat, expired : SUBSET Dates, spared : BOOLEAN, quiet : BOOLEAN]
  BY DEF IInv, TypeOK
<1>3. /\ site.exists /\ (site.first => tz = site.tz)
      /\ site' = [site EXCEPT !.tz = tz, !.window = w, !.retention = p, !.accepting = a]
      /\ ledger' = [ledger EXCEPT !.quiet = @ /\ ~ a]
  BY DEF UpdateSite, TimezoneUnlocked
<1>4. site'.tz = tz /\ site'.first = site.first /\ site'.exists
  BY <1>2, <1>3
<1>5. ledger'.counted = ledger.counted /\ ledger'.settled = ledger.settled
  BY <1>2, <1>3
<1>6. next \in Nat /\ LocalDate[tz][clock] \in Nat
  BY <1>2, LocalDateType
<1> HIDE DEF next
<1>7. rules' = rules \/ rules' = {r \in rules : r.eff # next} \cup {rule}
  BY DEF UpdateSite, ScheduleRule, next
<1>8. \A r \in rules : r.eff \in Nat
  BY <1>2 DEF Rule
<1>9. rule \in Rule
  BY <1>6 DEF Rule
<1>10. TypeOK'
  <2>1. rules' \subseteq Rule
    BY <1>2, <1>7, <1>9
  <2>2. site' \in [exists : BOOLEAN, tz : Timezones, window : WindowChoices,
               retention : Policies, accepting : BOOLEAN, first : BOOLEAN, key : 0 .. MaxResets]
    BY <1>2, <1>3
  <2>3. ledger' \in [accepted : [Dates -> Nat], counted : SUBSET [window : Window, who : Digest],
                 settled : Nat, expired : SUBSET Dates, spared : BOOLEAN, quiet : BOOLEAN]
    BY <1>2, <1>3
  <2> QED BY <1>1, <2>1, <2>2, <2>3 DEF IInv, TypeOK
<1>11. RulesDistinct'
  BY <1>7 DEF IInv, RulesDistinct
<1>12. RulesCover'
  <2> SUFFICES ASSUME NEW d \in Dates
               PROVE  \E r \in rules' : /\ r.eff <= d
                                        /\ \A s \in rules' : s.eff <= d => s.eff <= r.eff
    BY DEF RulesCover
  <2>1. rules # {}
    BY <1>3 DEF IInv, RulesPresent
  <2>2. PICK r \in rules : r.eff <= d /\ \A s \in rules : s.eff <= d => s.eff <= r.eff
    BY <2>1 DEF IInv, RulesCover
  <2>3. d \in Nat /\ r.eff \in Nat
    BY <1>8, DatesAreNat
  <2>4. CASE rules' = rules
    BY <2>2, <2>4
  <2>5. CASE rules' = {s \in rules : s.eff # next} \cup {rule} /\ (next > d \/ r.eff > next)
    <3>1. r \in rules'
      BY <2>2, <2>3, <2>5, <1>6
    <3>2. \A s \in rules' : s.eff <= d => s.eff <= r.eff
      BY <2>2, <2>3, <2>5, <1>6, <1>8
    <3> QED BY <3>1, <3>2, <2>2
  <2>6. CASE rules' = {s \in rules : s.eff # next} \cup {rule} /\ next <= d /\ r.eff <= next
    <3>1. rule \in rules' /\ rule.eff = next
      BY <2>6
    <3>2. \A s \in rules' : s.eff <= d => s.eff <= next
      BY <2>2, <2>3, <2>6, <1>6, <1>8
    <3> QED BY <3>1, <3>2, <2>6
  <2> QED BY <1>6, <1>7, <2>3, <2>4, <2>5, <2>6
<1>13. \A d \in Dates : d <= LocalDate[tz][clock] => WindowOf(rules, d)' = WindowOf(rules, d)
  <2> SUFFICES ASSUME NEW d \in Dates, d <= LocalDate[tz][clock]
               PROVE  WindowOf(rules', d) = WindowOf(rules, d)
    BY DEF WindowOf, ActiveRule
  <2>1. d \in Nat /\ d < next
    BY <1>6, DatesAreNat DEF next
  <2>2. {r \in rules : r.eff <= d} = {r \in rules' : r.eff <= d}
    BY <1>6, <1>7, <1>8, <2>1
  <2> QED BY <2>2, WindowKept
<1>14. RulesPresent'
  BY <1>3, <1>7 DEF IInv, RulesPresent
<1>15. NothingFromTheFuture'
  BY <1>1 DEF IInv, NothingFromTheFuture
<1>16. UnlockedIsEmpty'
  BY <1>1, <1>3, <1>4, <1>5 DEF IInv, UnlockedIsEmpty
<1>17. OneTimezone'
  BY <1>1, <1>3, <1>4 DEF IInv, OneTimezone, UnlockedIsEmpty
<1>18. RecordsKeepTheirWindow'
  <2> SUFFICES ASSUME NEW q \in pageviews PROVE q.window = WindowOf(rules, q.date)'
    BY <1>1 DEF RecordsKeepTheirWindow
  <2>1. site.first /\ tz = site.tz
    BY <1>3 DEF IInv, UnlockedIsEmpty
  <2>2. q.at \in Instants /\ q.at <= clock /\ q.date = LocalDate[tz][q.at] /\ q.date \in Dates
    BY <1>2, <2>1 DEF IInv, NothingFromTheFuture, OneTimezone, Pageview
  <2>3. q.date <= LocalDate[tz][clock]
    BY <1>2, <2>2, LocalDateAssumption
  <2> QED BY <1>13, <2>2, <2>3 DEF IInv, RecordsKeepTheirWindow
<1>19. CountedByRules'
  <2> SUFFICES ASSUME NEW k \in ledger.counted
               PROVE  \E d \in Dates : d <= Today' /\ rules' # {} /\ k.window = WindowOf(rules, d)'
    BY <1>5 DEF CountedByRules
  <2>1. tz = site.tz
    BY <1>3 DEF IInv, UnlockedIsEmpty
  <2>2. Today = LocalDate[tz][clock] /\ Today' = LocalDate[tz][clock]
    BY <1>1, <1>4, <2>1 DEF Today
  <2>3. PICK d \in Dates : d <= Today /\ rules # {} /\ k.window = WindowOf(rules, d)
    BY DEF IInv, CountedByRules
  <2>4. rules' # {}
    BY <1>7, <2>3
  <2> QED BY <1>13, <2>2, <2>3, <2>4
<1>20. (RegistrationsCounted /\ OpenWindowsRemembered)'
  BY <1>1, <1>5 DEF IInv, RegistrationsCounted, OpenWindowsRemembered
<1> QED BY <1>10, <1>11, <1>12, <1>14, <1>15, <1>16, <1>17, <1>18, <1>19, <1>20 DEF IInv

\* The transaction of RecordPageview.
LEMMA RecordPageviewStep ==
  ASSUME IInv, NEW q \in Requests, RecordPageview(q)
  PROVE  IInv'
<1> DEFINE r == request[q]
           date == LocalDate[site.tz][r.at]
           window == WindowOf(rules, date)
           fresh == {v \in DimsOf(r.place) : ~ Registered(window, v, r.who)}
           row == [id |-> nextId, at |-> r.at, date |-> date, place |-> r.place,
                   ip |-> r.ip, who |-> r.who, window |-> window]
           mark == [window |-> window, who |-> r.who]
           LedgerType == [accepted : [Dates -> Nat],
                 counted : SUBSET [window : Window, who : Digest],
                 settled : Nat, expired : SUBSET Dates, spared : BOOLEAN, quiet : BOOLEAN]
<1>1. /\ request \in [Requests -> Idle \cup Admitted \cup Stamped]
      /\ clock \in Instants /\ rules \subseteq Rule /\ pageviews \subseteq Pageview
      /\ registrations \subseteq Registration /\ nextId \in 1 .. MaxRecords + 1
      /\ totals \in [Dates -> [Dims -> [pv : Nat, uv : Nat]]]
      /\ site \in [exists : BOOLEAN, tz : Timezones, window : WindowChoices,
               retention : Policies, accepting : BOOLEAN, first : BOOLEAN, key : 0 .. MaxResets]
      /\ ledger \in LedgerType
  BY DEF IInv, TypeOK
<1>2. r \in Stamped
  BY <1>1 DEF RecordPageview, Idle, Admitted, Stamped
<1>3. /\ site.exists /\ nextId <= MaxRecords
      /\ pageviews' = pageviews \cup {row}
      /\ nextId' = nextId + 1
      /\ registrations' = registrations \cup
           {[window |-> window, dim |-> v, who |-> r.who] : v \in fresh}
      /\ totals' = CountPageview(date, r.place, fresh)
      /\ site' = [site EXCEPT !.first = TRUE]
      /\ request' = [request EXCEPT ![q] = idle]
      /\ ledger' = [ledger EXCEPT !.accepted[date] = @ + 1, !.counted = @ \cup {mark}]
      /\ UNCHANGED <<clock, rules, cleaner>>
  BY DEF RecordPageview, CollectionEnabled
<1>4. date \in Dates
  BY <1>1, <1>2, LocalDateType DEF Stamped
<1>5. rules # {}
  BY <1>3 DEF IInv, RulesPresent
<1>6. window \in Window
  BY <1>1, <1>4, <1>5, WindowOfDate DEF IInv
<1> DEFINE stamp == r.at
           who == r.who
           place == r.place
<1>7. stamp \in Instants /\ who \in Digest /\ place \in Places /\ r.ip \in Addresses
  BY <1>2 DEF Stamped
<1>8. fresh \subseteq Dims
  BY <1>7 DEF DimsOf, Dims
<1>9. stamp <= clock
  BY <1>2 DEF IInv, NothingFromTheFuture, Stamped
<1>10. /\ site'.exists /\ site'.first /\ site.tz' = site.tz
       /\ ledger'.counted = ledger.counted \cup {mark} /\ ledger'.settled = ledger.settled
  BY <1>1, <1>3
<1>11. \A d : WindowOf(rules, d)' = WindowOf(rules, d)
  BY <1>3 DEF WindowOf, ActiveRule
<1>12. Today' = Today
  BY <1>3, <1>10 DEF Today
<1>13. date <= Today
  BY <1>1, <1>7, <1>9, LocalDateAssumption DEF Today
<1> HIDE DEF fresh, window, date, r
<1>14. TypeOK'
  <2>1. pageviews' \subseteq Pageview
    <3>1. nextId \in 1 .. MaxRecords
      BY <1>1, <1>3, BoundsAreNat
    <3>2. row \in Pageview
      BY <3>1, <1>4, <1>6, <1>7 DEF Pageview
    <3> QED BY <3>2, <1>1, <1>3
  <2>2. nextId' \in 1 .. MaxRecords + 1
    BY <1>1, <1>3, BoundsAreNat
  <2>3. registrations' \subseteq Registration
    BY <1>1, <1>3, <1>6, <1>7, <1>8 DEF Registration
  <2>4. totals' \in [Dates -> [Dims -> [pv : Nat, uv : Nat]]]
    <3> DEFINE counts == [v \in Dims |->
                  IF v \in DimsOf(place)
                  THEN [pv |-> totals[date][v].pv + 1,
                        uv |-> totals[date][v].uv + (IF v \in fresh THEN 1 ELSE 0)]
                  ELSE totals[date][v]]
    <3>1. \A v \in Dims : totals[date][v] \in [pv : Nat, uv : Nat]
      BY <1>1, <1>4
    <3>2. counts \in [Dims -> [pv : Nat, uv : Nat]]
      BY <3>1
    <3>3. totals' = [totals EXCEPT ![date] = counts]
      BY <1>3 DEF CountPageview
    <3> QED BY <3>2, <3>3, <1>1
  <2>5. site' \in [exists : BOOLEAN, tz : Timezones, window : WindowChoices,
               retention : Policies, accepting : BOOLEAN, first : BOOLEAN, key : 0 .. MaxResets]
    BY <1>1, <1>3
  <2>6. request' \in [Requests -> Idle \cup Admitted \cup Stamped]
    BY <1>1, <1>3 DEF Idle, idle
  <2>7. ledger' \in LedgerType
    <3>1. ledger.counted \cup {mark} \in SUBSET [window : Window, who : Digest]
      BY <1>1, <1>6, <1>7
    <3>2. [ledger.accepted EXCEPT ![date] = @ + 1] \in [Dates -> Nat]
      BY <1>1, <1>4
    <3>3. ledger' = [[ledger EXCEPT !.accepted = [ledger.accepted EXCEPT ![date] = @ + 1]]
                       EXCEPT !.counted = ledger.counted \cup {mark}]
      BY <1>1, <1>3
    <3> QED BY <3>1, <3>2, <3>3, <1>1
  <2> QED BY <1>3, <2>1, <2>2, <2>3, <2>4, <2>5, <2>6, <2>7 DEF IInv, TypeOK
<1>15. (RulesDistinct /\ RulesCover)'
  BY <1>3 DEF IInv, RulesDistinct, RulesCover
<1>16. RulesPresent'
  BY <1>3, <1>5 DEF RulesPresent
<1>17. NothingFromTheFuture'
  <2>1. \A p \in pageviews' : p.at <= clock
    BY <1>3, <1>9 DEF IInv, NothingFromTheFuture
  <2>2. \A u \in Requests : request'[u].step = "stamped" => request'[u].at <= clock
    BY <1>1, <1>3 DEF IInv, NothingFromTheFuture, idle
  <2> QED BY <1>3, <2>1, <2>2 DEF NothingFromTheFuture
<1>18. UnlockedIsEmpty'
  BY <1>10 DEF UnlockedIsEmpty
<1>19. OneTimezone'
  <2>1. row.date = LocalDate[site.tz][row.at]
    BY DEF date
  <2> QED BY <2>1, <1>3, <1>10 DEF IInv, OneTimezone
<1>20. RecordsKeepTheirWindow'
  <2>1. row.window = WindowOf(rules, row.date)
    BY DEF window
  <2> QED BY <2>1, <1>3, <1>11 DEF IInv, RecordsKeepTheirWindow
<1>21. CountedByRules'
  <2>1. \A k \in ledger.counted : \E d \in Dates :
           d <= Today' /\ rules' # {} /\ k.window = WindowOf(rules, d)'
    BY <1>3, <1>5, <1>11, <1>12 DEF IInv, CountedByRules
  <2>2. PICK d \in Dates : d = date
    BY <1>4
  <2>3. d <= Today' /\ rules' # {} /\ mark.window = WindowOf(rules, d)'
    BY <2>2, <1>3, <1>5, <1>11, <1>12, <1>13 DEF window
  <2>4. \A k \in ledger'.counted : k \in ledger.counted \/ k = mark
    BY <1>10
  <2> QED BY <2>1, <2>3, <2>4 DEF CountedByRules
<1>22. RegistrationsCounted'
  <2> SUFFICES ASSUME NEW g \in registrations'
               PROVE  [window |-> g.window, who |-> g.who] \in ledger'.counted
    BY DEF RegistrationsCounted
  <2>1. CASE g \in registrations
    BY <2>1, <1>10 DEF IInv, RegistrationsCounted
  <2>2. CASE g \notin registrations
    <3>1. PICK v \in fresh : g = [window |-> window, dim |-> v, who |-> r.who]
      BY <2>2, <1>3
    <3>2. [window |-> g.window, who |-> g.who] = mark
      BY <3>1
    <3> QED BY <3>2, <1>10
  <2> QED BY <2>1, <2>2
<1>23. OpenWindowsRemembered'
  <2> SUFFICES ASSUME NEW k \in ledger'.counted, k.window.end > ledger.settled
               PROVE  [window |-> k.window, dim |-> Overall, who |-> k.who] \in registrations'
    BY <1>10 DEF OpenWindowsRemembered
  <2>1. CASE k \in ledger.counted
    BY <2>1, <1>3 DEF IInv, OpenWindowsRemembered
  <2>2. CASE k = mark /\ Overall \in fresh
    BY <2>2, <1>3
  <2>3. CASE k = mark /\ Overall \notin fresh
    <3>1. Registered(window, Overall, who)
      BY <2>3 DEF fresh, DimsOf
    <3>2. PICK g \in registrations :
            g.window.start = window.start /\ g.dim = Overall /\ g.who = who
      BY <3>1 DEF Registered
    <3>3. PICK d \in Dates : g.window = WindowOf(rules, d)
      BY <3>2 DEF IInv, RegistrationsCounted, CountedByRules
    <3>4. g.window = window
      BY <3>2, <3>3, <1>1, <1>4, <1>5, StartIdentifiesWindow DEF IInv, window
    <3>5. g = [window |-> window, dim |-> Overall, who |-> who]
      BY <3>2, <3>4, <1>1 DEF Registration
    <3> QED BY <3>5, <2>3, <1>3
  <2> QED BY <2>1, <2>2, <2>3, <1>10
<1> QED BY <1>14, <1>15, <1>16, <1>17, <1>18, <1>19, <1>20, <1>21, <1>22, <1>23 DEF IInv

LEMMA Invariance == IInv /\ [Next]_vars => IInv'
<1> SUFFICES ASSUME IInv, [Next]_vars PROVE IInv'
  OBVIOUS
<1>1. ASSUME NEW q \in Requests,
             AdmitPageview(q) \/ StampPageview(q) \/ DropPageview(q)
      PROVE  IInv'
  BY <1>1, RequestStep
<1>2. ASSUME NEW q \in Requests, RecordPageview(q) PROVE IInv'
  BY <1>2, RecordPageviewStep
<1>3. CASE \/ \E c \in Cleaners : StartCleanup(c) \/ ListSites(c) \/ StopCleanup(c)
           \/ Restart
  BY <1>3, CleanerStep
<1>4. ASSUME NEW c \in Cleaners, CleanSite(c) PROVE IInv'
  BY <1>4, CleanSiteStep
<1>5. ASSUME NEW tz \in Timezones, NEW w \in WindowChoices, NEW p \in Policies,
             NEW a \in BOOLEAN, UpdateSite(tz, w, p, a)
      PROVE  IInv'
  BY <1>5, UpdateSiteStep
<1>6. CASE ResetSiteData \/ DeleteSite
  BY <1>6, ClearStep
<1>7. CASE Tick
  BY <1>7, TickStep
<1>8. CASE UNCHANGED vars
  <2>1. request \in [Requests -> Idle \cup Admitted \cup Stamped]
        /\ cleaner \in [Cleaners -> Idle \cup Started \cup Listed]
        /\ \A q \in Requests : request[q].step = "stamped" => request[q].at <= clock
    BY DEF IInv, TypeOK, NothingFromTheFuture
  <2> QED BY <2>1, <1>8, ProcessStep DEF vars, database
<1> QED BY <1>1, <1>2, <1>3, <1>4, <1>5, <1>6, <1>7, <1>8 DEF Next, SiteStep

-----------------------------------------------------------------------------
(* Theorems *)

LEMMA Inductive == Spec => []IInv
BY Initially, Invariance, PTL DEF Spec

\* The state of a Site is always well formed.
THEOREM TypeCorrect == Spec => []TypeOK
<1>1. IInv => TypeOK
  BY DEF IInv
<1> QED BY <1>1, Inductive, PTL

\* A retained record stays in the window it was counted in, whatever windows an
\* administrator schedules and however late a request commits (RecordPageview,
\* UpdateSite).
THEOREM RecordsStayInWindow == Spec => []RecordsKeepTheirWindow
<1>1. IInv => RecordsKeepTheirWindow
  BY DEF IInv
<1> QED BY <1>1, Inductive, PTL

\* All retained records of a Site are dated in one timezone, its present one.
THEOREM RecordsShareTimezone == Spec => []OneTimezone
<1>1. IInv => OneTimezone
  BY DEF IInv
<1> QED BY <1>1, Inductive, PTL

\* window_start is enough of a key for visitor_registrations: no two windows of
\* different lengths that a visitor was counted in begin on one day.
THEOREM WindowStartIsKey == Spec => []WindowStartIdentifies
<1>1. IInv => WindowStartIdentifies
  <2> SUFFICES ASSUME IInv, NEW k \in ledger.counted, NEW m \in ledger.counted,
                      k.window.start = m.window.start
               PROVE  k.window = m.window
    BY DEF WindowStartIdentifies
  <2>1. PICK d \in Dates : rules # {} /\ k.window = WindowOf(rules, d)
    BY DEF IInv, CountedByRules
  <2>2. PICK e \in Dates : m.window = WindowOf(rules, e)
    BY DEF IInv, CountedByRules
  <2>3. WindowOf(rules, d) = WindowOf(rules, e)
    BY <2>1, <2>2, StartIdentifiesWindow DEF IInv, TypeOK
  <2> QED BY <2>1, <2>2, <2>3
<1> QED BY <1>1, Inductive, PTL

\* A visitor counted in a window that no cleanup has settled is still registered
\* in it, so RecordPageview does not count the visitor again.
THEOREM CountedStayRegistered == Spec => []OpenWindowsRemembered
<1>1. IInv => OpenWindowsRemembered
  BY DEF IInv
<1> QED BY <1>1, Inductive, PTL

-----------------------------------------------------------------------------
(* What a reset leaves behind *)

\* A cleared Site does not collect, whatever requests are in flight.
Cleared == ledger.quiet => ~ site.accepting

LEMMA ClearedInitially == Init => Cleared /\ ClearedStaysEmpty
BY DEF Init, NewLedger, Cleared, ClearedStaysEmpty

\* The only step that stores anything needs accept_pageviews, and the only step
\* that sets it ends the quiet.
LEMMA ClearedStep ==
  ASSUME FALSE \notin ForeignKeys, IInv, Cleared, ClearedStaysEmpty, [Next]_vars
  PROVE  (Cleared /\ ClearedStaysEmpty)'
<1>1. /\ site \in [exists : BOOLEAN, tz : Timezones, window : WindowChoices,
                   retention : Policies, accepting : BOOLEAN, first : BOOLEAN,
                   key : 0 .. MaxResets]
      /\ ledger \in [accepted : [Dates -> Nat], counted : SUBSET [window : Window, who : Digest],
                     settled : Nat, expired : SUBSET Dates, spared : BOOLEAN, quiet : BOOLEAN]
  BY DEF IInv, TypeOK
<1> USE DEF Cleared, ClearedStaysEmpty
<1>2. ASSUME UNCHANGED <<database, ledger>> PROVE (Cleared /\ ClearedStaysEmpty)'
  BY <1>2 DEF database
<1>3. ASSUME NEW q \in Requests, RecordPageview(q)
      PROVE  (Cleared /\ ClearedStaysEmpty)'
  <2>1. site.accepting
    BY <1>3 DEF RecordPageview, CollectionEnabled
  <2>2. ledger'.quiet = ledger.quiet
    BY <1>1, <1>3 DEF RecordPageview
  <2> QED BY <2>1, <2>2
<1>4. ASSUME NEW c \in Cleaners, CleanSite(c)
      PROVE  (Cleared /\ ClearedStaysEmpty)'
  <2>1. /\ pageviews' \subseteq pageviews /\ registrations' \subseteq registrations
        /\ UNCHANGED <<site, totals>>
    BY <1>4 DEF CleanSite
  <2>2. ledger'.quiet = ledger.quiet
    BY <1>1, <1>4 DEF CleanSite
  <2> QED BY <2>1, <2>2
<1>5. ASSUME NEW tz \in Timezones, NEW w \in WindowChoices, NEW p \in Policies,
             NEW a \in BOOLEAN, UpdateSite(tz, w, p, a)
      PROVE  (Cleared /\ ClearedStaysEmpty)'
  <2>1. UNCHANGED <<pageviews, registrations, totals>>
    BY <1>5 DEF UpdateSite
  <2>2. site'.first = site.first /\ site'.accepting = a
    BY <1>1, <1>5 DEF UpdateSite
  <2>3. ledger'.quiet = (ledger.quiet /\ ~ a)
    BY <1>1, <1>5 DEF UpdateSite
  <2> QED BY <2>1, <2>2, <2>3
<1>6. CASE ResetSiteData \/ DeleteSite
  <2>1. pageviews' = {} /\ registrations' = {} /\ totals' = NoCounts
    BY <1>6 DEF ResetSiteData, DeleteSite
  <2>2. ~ site'.first /\ ~ site'.accepting
    BY <1>1, <1>6 DEF ResetSiteData, DeleteSite
  <2> QED BY <2>1, <2>2
<1>7. ASSUME NEW q \in Requests, AdmitPageview(q) \/ StampPageview(q) \/ DropPageview(q)
      PROVE  (Cleared /\ ClearedStaysEmpty)'
  BY <1>2, <1>7 DEF AdmitPageview, StampPageview, DropPageview
<1>8. ASSUME NEW c \in Cleaners, StartCleanup(c) \/ ListSites(c) \/ StopCleanup(c)
      PROVE  (Cleared /\ ClearedStaysEmpty)'
  BY <1>2, <1>8 DEF StartCleanup, ListSites, StopCleanup
<1>9. CASE Tick \/ Restart \/ UNCHANGED vars
  BY <1>2, <1>9 DEF Tick, Restart, vars
<1> QED BY <1>3, <1>4, <1>5, <1>6, <1>7, <1>8, <1>9 DEF Next, SiteStep

\* Where every connection enforces foreign keys, a Site that was reset or deleted
\* stays empty until an administrator enables collection again: no request that
\* was admitted before it comes through (RecordPageview reads accept_pageviews
\* inside its transaction).
THEOREM ResetIsFinal == FALSE \notin ForeignKeys => (Spec => []ClearedStaysEmpty)
<1> SUFFICES ASSUME FALSE \notin ForeignKeys PROVE Spec => []ClearedStaysEmpty
  OBVIOUS
<1>1. Init => Cleared /\ ClearedStaysEmpty
  BY ClearedInitially
<1>2. IInv /\ (Cleared /\ ClearedStaysEmpty) /\ [Next]_vars => (Cleared /\ ClearedStaysEmpty)'
  BY ClearedStep
<1> QED BY <1>1, <1>2, Inductive, PTL DEF Spec

-----------------------------------------------------------------------------
(* Scheduled rules and the settings *)

LEMMA TodayIsNat == IInv => Today \in Nat
BY LocalDateType DEF IInv, TypeOK, Today

LEMMA RulesFollowSettings ==
  ASSUME IInv, IInv', [Next]_vars, site.exists', RulesMatchSettings, site.tz' = site.tz
  PROVE  RulesMatchSettings'
<1>1. site \in [exists : BOOLEAN, tz : Timezones, window : WindowChoices,
                retention : Policies, accepting : BOOLEAN, first : BOOLEAN,
                key : 0 .. MaxResets]
      /\ rules \subseteq Rule /\ clock \in Instants
  BY DEF IInv, TypeOK
<1>2. Today \in Nat /\ \A r \in rules : r.eff \in Nat
  BY <1>1, TodayIsNat DEF Rule
<1>3. ASSUME rules' = rules, site'.window = site.window, clock' = clock
      PROVE  RulesMatchSettings'
  BY <1>3 DEF RulesMatchSettings, LastRuleIsSetting, Today
<1>4. ASSUME NEW q \in Requests, RecordPageview(q) PROVE RulesMatchSettings'
  BY <1>1, <1>3, <1>4 DEF RecordPageview
<1>5. ASSUME NEW c \in Cleaners, CleanSite(c) PROVE RulesMatchSettings'
  BY <1>3, <1>5 DEF CleanSite
<1>6. ASSUME NEW tz \in Timezones, NEW w \in WindowChoices, NEW p \in Policies,
             NEW a \in BOOLEAN, UpdateSite(tz, w, p, a)
      PROVE  RulesMatchSettings'
  <2>1. site'.window = w /\ tz = site.tz /\ clock' = clock
    BY <1>1, <1>6 DEF UpdateSite
  <2>2. rules' = ScheduleRule(site.tz, w)
    BY <2>1, <1>6 DEF UpdateSite
  <2>3. CASE w = site.window
    BY <2>1, <2>2, <2>3, <1>3 DEF ScheduleRule
  <2>4. CASE w # site.window
    <3> DEFINE new == [eff |-> Today + 1, days |-> w]
    <3>1. rules' = {r \in rules : r.eff # Today + 1} \cup {new}
      BY <2>2, <2>4 DEF ScheduleRule, Today
    <3>2. new \in rules' /\ new.days = site'.window
      BY <2>1, <3>1
    <3>3. \A r \in rules' : r.eff <= Today + 1
      BY <3>1, <1>2 DEF RulesMatchSettings, LastRuleIsSetting
    <3>4. \A r \in rules' : r.eff <= new.eff
      BY <3>3
    <3>5. Today' = Today
      BY <2>1 DEF Today
    <3> HIDE DEF new
    <3> QED BY <3>2, <3>3, <3>4, <3>5 DEF RulesMatchSettings, LastRuleIsSetting
  <2> QED BY <2>3, <2>4
<1>7. CASE ResetSiteData
  <2>1. site'.window = site.window /\ rules' = {[eff |-> Epoch, days |-> site.window]}
    BY <1>1, <1>7 DEF ResetSiteData
  <2>2. Today' \in Nat
    BY LocalDateType DEF IInv, TypeOK, Today
  <2>3. \A r \in rules' : r.eff = 0 /\ r.days = site'.window
    BY <2>1 DEF Epoch
  <2>4. \A r \in rules' : r.eff <= Today' + 1
    BY <2>2, <2>3
  <2>5. \A r, s \in rules' : s.eff <= r.eff
    BY <2>3
  <2>6. \E r \in rules' : r.days = site'.window
    BY <2>1
  <2> QED BY <2>4, <2>5, <2>6 DEF RulesMatchSettings, LastRuleIsSetting
<1>8. CASE DeleteSite
  BY <1>1, <1>8 DEF DeleteSite
<1>9. CASE Tick
  <2>1. rules' = rules /\ site' = site /\ clock <= clock' /\ clock' \in Instants
    BY <1>1, <1>9, BoundsAreNat DEF Tick, database, Instants
  <2>2. Today' \in Nat /\ Today <= Today'
    <3>1. site.tz \in Timezones /\ site'.tz = site.tz
      BY <2>1, <1>1
    <3>2. /\ LocalDate[site.tz][clock] <= LocalDate[site.tz][clock']
          /\ LocalDate[site.tz][clock'] \in Nat
      BY <2>1, <3>1, <1>1, LocalDateAssumption
    <3> QED BY <3>1, <3>2 DEF Today
  <2>3. \A r \in rules : r.eff <= Today + 1
    BY DEF RulesMatchSettings, LastRuleIsSetting
  <2>4. \A r \in rules' : r.eff <= Today' + 1
    BY <2>1, <2>2, <2>3, <1>2
  <2>5. \E r \in rules' : r.days = site'.window /\ \A s \in rules' : s.eff <= r.eff
    BY <2>1 DEF RulesMatchSettings, LastRuleIsSetting
  <2> QED BY <2>4, <2>5 DEF RulesMatchSettings, LastRuleIsSetting
<1>10. ASSUME NEW q \in Requests, AdmitPageview(q) \/ StampPageview(q) \/ DropPageview(q)
      PROVE  RulesMatchSettings'
  BY <1>3, <1>10 DEF AdmitPageview, StampPageview, DropPageview, database
<1>11. ASSUME NEW c \in Cleaners, StartCleanup(c) \/ ListSites(c) \/ StopCleanup(c)
      PROVE  RulesMatchSettings'
  BY <1>3, <1>11 DEF StartCleanup, ListSites, StopCleanup, database
<1>12. CASE Restart \/ UNCHANGED vars
  BY <1>3, <1>12 DEF Restart, vars, database
<1> QED BY <1>4, <1>5, <1>6, <1>7, <1>8, <1>9, <1>10, <1>11, <1>12 DEF Next, SiteStep

\* No request, cleanup, reset or change of window parts the scheduled rules from
\* the settings; only a change of timezone can (UpdateSite, which schedules for
\* the next date of the timezone being saved).
THEOREM OnlyTimezonePartsRules == Spec => TimezoneKeepsRules
<1>1. IInv /\ IInv' /\ [Next]_vars =>
        [(site.exists' /\ RulesMatchSettings /\ site.tz' = site.tz) => RulesMatchSettings']_vars
  BY RulesFollowSettings
<1> QED BY <1>1, Inductive, PTL DEF Spec, TimezoneKeepsRules

-----------------------------------------------------------------------------
(* Refinement of VisitorLedger *)

LEMMA LedgerInitially == Init => Ledger!Empty
<1> SUFFICES ASSUME Init PROVE Ledger!Empty
  OBVIOUS
<1>1. totals = NoCounts /\ ledger = NewLedger(FALSE)
  BY DEF Init
<1>2. \A d \in Dates : totals[d][Overall] = [pv |-> 0, uv |-> 0]
  BY <1>1 DEF NoCounts, Dims
<1>3. ledger.counted = {} /\ ledger.settled = 0
  BY <1>1 DEF NewLedger
<1> QED BY <1>2, <1>3 DEF Ledger!Empty

\* What the overall registration tells RecordPageview of a visitor: missing, the visitor
\* is new to the window, or the window settled; there, the visitor has been counted.
LEMMA FreshIsNew ==
  ASSUME IInv, rules # {}, NEW date \in Dates, NEW who
  PROVE  LET window == WindowOf(rules, date)
             mark == [window |-> window, who |-> who]
         IN  /\ ~ Registered(window, Overall, who) =>
                  mark \notin ledger.counted \/ window.end <= ledger.settled
             /\ Registered(window, Overall, who) => mark \in ledger.counted
<1> DEFINE window == WindowOf(rules, date)
           mark == [window |-> window, who |-> who]
<1>1. /\ rules \subseteq Rule /\ registrations \subseteq Registration
      /\ ledger.settled \in Nat
  BY DEF IInv, TypeOK
<1>2. window \in Window
  BY <1>1, WindowOfDate DEF IInv
<1>3. ASSUME ~ Registered(window, Overall, who), mark \in ledger.counted,
             ~ (window.end <= ledger.settled)
      PROVE  FALSE
  <2>1. mark.window.end > ledger.settled
    BY <1>1, <1>2, <1>3 DEF Window
  <2>2. [window |-> mark.window, dim |-> Overall, who |-> mark.who] \in registrations
    BY <1>3, <2>1 DEF IInv, OpenWindowsRemembered
  <2> QED BY <1>3, <2>2 DEF Registered
<1>4. ASSUME Registered(window, Overall, who) PROVE mark \in ledger.counted
  <2>1. PICK g \in registrations :
          g.window.start = window.start /\ g.dim = Overall /\ g.who = who
    BY <1>4 DEF Registered
  <2>2. PICK d \in Dates : g.window = WindowOf(rules, d)
    BY <2>1 DEF IInv, RegistrationsCounted, CountedByRules
  <2>3. g.window = window
    BY <2>1, <2>2, <1>1, StartIdentifiesWindow DEF IInv
  <2> QED BY <2>1, <2>3 DEF IInv, RegistrationsCounted
<1> QED BY <1>3, <1>4

\* An accepted Pageview is one visit of the ledger.
LEMMA PageviewIsVisit ==
  ASSUME IInv, NEW q \in Requests, RecordPageview(q)
  PROVE  Ledger!LedgerNext
<1> DEFINE r == request[q]
           date == LocalDate[site.tz][r.at]
           window == WindowOf(rules, date)
           fresh == {v \in DimsOf(r.place) : ~ Registered(window, v, r.who)}
           mark == [window |-> window, who |-> r.who]
           pvs == [d \in Dates |-> totals[d][Overall].pv]
           uvs == [d \in Dates |-> totals[d][Overall].uv]
<1>1. /\ request \in [Requests -> Idle \cup Admitted \cup Stamped]
      /\ rules \subseteq Rule /\ registrations \subseteq Registration
      /\ totals \in [Dates -> [Dims -> [pv : Nat, uv : Nat]]]
      /\ site.tz \in Timezones
      /\ ledger \in [accepted : [Dates -> Nat],
                 counted : SUBSET [window : Window, who : Digest],
                 settled : Nat, expired : SUBSET Dates, spared : BOOLEAN, quiet : BOOLEAN]
  BY DEF IInv, TypeOK
<1>2. r \in Stamped
  BY <1>1 DEF RecordPageview, Idle, Admitted, Stamped
<1>3. /\ site.exists
      /\ totals' = CountPageview(date, r.place, fresh)
      /\ ledger' = [ledger EXCEPT !.accepted[date] = @ + 1, !.counted = @ \cup {mark}]
  BY DEF RecordPageview, CollectionEnabled
<1>4. date \in Dates
  BY <1>1, <1>2, LocalDateType DEF Stamped
<1>5. rules # {}
  BY <1>3 DEF IInv, RulesPresent
<1>6. window \in Window
  BY <1>1, <1>4, <1>5, WindowOfDate DEF IInv
<1>7. ledger'.counted = ledger.counted \cup {mark} /\ ledger'.settled = ledger.settled
  BY <1>1, <1>3
<1>8. Overall \in Dims /\ Overall \in DimsOf(r.place)
  BY DEF Dims, DimsOf
<1>9. \A d \in Dates : totals'[d][Overall] =
        IF d = date
        THEN [pv |-> totals[date][Overall].pv + 1,
              uv |-> totals[date][Overall].uv + (IF Overall \in fresh THEN 1 ELSE 0)]
        ELSE totals[d][Overall]
  BY <1>1, <1>3, <1>4, <1>8 DEF CountPageview
<1>10. Overall \in fresh => mark \notin ledger.counted \/ mark.window.end <= ledger.settled
  BY <1>4, <1>5, FreshIsNew
<1>11. Overall \notin fresh => mark \in ledger.counted
  BY <1>4, <1>5, <1>8, FreshIsNew
<1> HIDE DEF r, date, window, fresh, mark
<1>12. pvs' = [pvs EXCEPT ![date] = @ + 1]
  <2>1. \A d \in Dates : totals'[d][Overall].pv =
          IF d = date THEN totals[date][Overall].pv + 1 ELSE totals[d][Overall].pv
    BY <1>9
  <2> QED BY <2>1, <1>4
<1>13. uvs' = IF Overall \in fresh THEN [uvs EXCEPT ![date] = @ + 1] ELSE uvs
  <2>1. \A d \in Dates : totals[d][Overall].uv \in Nat
    BY <1>1, <1>8
  <2>2. \A d \in Dates : totals'[d][Overall].uv =
          IF d = date /\ Overall \in fresh
          THEN totals[date][Overall].uv + 1 ELSE totals[d][Overall].uv
    BY <1>4, <1>9, <2>1
  <2>3. CASE Overall \in fresh
    BY <2>2, <2>3, <1>4
  <2>4. CASE Overall \notin fresh
    BY <2>2, <2>4
  <2> QED BY <2>3, <2>4
<1>14. PICK d \in Dates, m \in ledger'.counted : d = date /\ m = mark
  BY <1>4, <1>7
<1>15. Ledger!Visit(d, m)
  BY <1>7, <1>10, <1>11, <1>12, <1>13, <1>14 DEF Ledger!Visit
<1> QED BY <1>15, <1>14 DEF Ledger!LedgerNext

\* Every step is a step of the ledger or leaves it unchanged.
LEMMA LedgerStep == IInv /\ [Next]_vars => [Ledger!LedgerNext]_(Ledger!ledgerVars)
<1> SUFFICES ASSUME IInv, [Next]_vars PROVE [Ledger!LedgerNext]_(Ledger!ledgerVars)
  OBVIOUS
<1>1. ledger \in [accepted : [Dates -> Nat], counted : SUBSET [window : Window, who : Digest],
                 settled : Nat, expired : SUBSET Dates, spared : BOOLEAN, quiet : BOOLEAN]
  BY DEF IInv, TypeOK
<1>2. ASSUME NEW q \in Requests, RecordPageview(q)
      PROVE  [Ledger!LedgerNext]_(Ledger!ledgerVars)
  BY <1>2, PageviewIsVisit
<1>3. ASSUME totals' = totals, ledger'.counted = ledger.counted,
             ledger'.settled = ledger.settled
      PROVE  [Ledger!LedgerNext]_(Ledger!ledgerVars)
  BY <1>3 DEF Ledger!ledgerVars
<1>4. ASSUME NEW c \in Cleaners, CleanSite(c)
      PROVE  [Ledger!LedgerNext]_(Ledger!ledgerVars)
  <2> DEFINE date == LocalDate[cleaner[c].tz][cleaner[c].now]
  <2>1. PICK old : ledger' = [ledger EXCEPT
                !.settled = IF @ < date THEN date ELSE @,
                !.expired = @ \cup {p.date : p \in old},
                !.spared = @ /\ (site.exists /\ site.retention.unlimited => old = {})]
    BY <1>4 DEF CleanSite
  <2>2. cleaner[c] \in Listed
    BY <1>4 DEF CleanSite, IInv, TypeOK, Idle, Started, Listed
  <2>3. date \in Nat
    BY <2>2, LocalDateType DEF Listed
  <2> HIDE DEF date
  <2>4. /\ ledger'.counted = ledger.counted
        /\ ledger'.settled = IF ledger.settled < date THEN date ELSE ledger.settled
    BY <1>1, <2>1
  <2>5. ledger'.settled \in Int /\ ledger'.settled >= ledger.settled
    BY <1>1, <2>3, <2>4
  <2>6. totals' = totals
    BY <1>4 DEF CleanSite
  <2>7. Ledger!Settle
    BY <2>4, <2>5, <2>6 DEF Ledger!Settle
  <2> QED BY <2>7 DEF Ledger!LedgerNext
<1>5. ASSUME totals' = NoCounts, ledger' = NewLedger(TRUE)
      PROVE  [Ledger!LedgerNext]_(Ledger!ledgerVars)
  <2>1. \A d \in Dates : totals'[d][Overall] = [pv |-> 0, uv |-> 0]
    BY <1>5 DEF NoCounts, Dims
  <2>2. ledger'.counted = {} /\ ledger'.settled = 0
    BY <1>5 DEF NewLedger
  <2>3. Ledger!Clear
    BY <2>1, <2>2 DEF Ledger!Clear, Ledger!Empty
  <2> QED BY <2>3 DEF Ledger!LedgerNext
<1>6. CASE ResetSiteData
  BY <1>6, <1>5 DEF ResetSiteData
<1>7. CASE DeleteSite
  <2>1. CASE totals' = NoCounts /\ ledger' = NewLedger(TRUE)
    BY <2>1, <1>5
  <2>2. CASE totals' = totals /\ ledger' = [ledger EXCEPT !.quiet = TRUE]
    BY <2>2, <1>1, <1>3
  <2> QED BY <1>7, <2>1, <2>2 DEF DeleteSite
<1>8. ASSUME NEW tz \in Timezones, NEW w \in WindowChoices, NEW p \in Policies,
             NEW a \in BOOLEAN, UpdateSite(tz, w, p, a)
      PROVE  [Ledger!LedgerNext]_(Ledger!ledgerVars)
  BY <1>1, <1>3, <1>8 DEF UpdateSite
<1>9. ASSUME NEW q \in Requests, AdmitPageview(q) \/ StampPageview(q) \/ DropPageview(q)
      PROVE  [Ledger!LedgerNext]_(Ledger!ledgerVars)
  BY <1>3, <1>9 DEF AdmitPageview, StampPageview, DropPageview, database
<1>10. ASSUME NEW c \in Cleaners, StartCleanup(c) \/ ListSites(c) \/ StopCleanup(c)
      PROVE  [Ledger!LedgerNext]_(Ledger!ledgerVars)
  BY <1>3, <1>10 DEF StartCleanup, ListSites, StopCleanup, database
<1>11. CASE Tick \/ Restart \/ UNCHANGED vars
  BY <1>3, <1>11 DEF Tick, Restart, vars, database
<1> QED BY <1>2, <1>4, <1>6, <1>7, <1>8, <1>9, <1>10, <1>11 DEF Next, SiteStep

\* The statistics of a Site are those of a ledger that counts each accepted
\* Pageview once and each visitor once per window that is not settled.
THEOREM StoreImplementsLedger == Spec => RefinesLedger
<1>1. Spec => [][Ledger!LedgerNext]_(Ledger!ledgerVars)
  BY Inductive, LedgerStep, PTL DEF Spec
<1> QED BY <1>1, LedgerInitially, PTL DEF Spec, RefinesLedger, Ledger!LedgerSpec

-----------------------------------------------------------------------------
(* The totals of a date *)

LEMMA PlacesAreFinite == IsFiniteSet(Places) /\ Overall \notin Places
BY DimensionAssumption

LEMMA PlacesSum ==
  ASSUME NEW d
  PROVE  Sum(Places, LAMBDA v : totals[d][v].pv)
           = SumFunctionOnSet([v \in Places |-> totals[d][v].pv], Places)
BY DEF Sum

\* Cleared data have no Pageviews to add.
LEMMA NoCountsAddNothing ==
  ASSUME NEW d \in Dates
  PROVE  /\ NoCounts[d][Overall].pv = 0
         /\ SumFunctionOnSet([v \in Places |-> NoCounts[d][v].pv], Places) = 0
<1>1. \A v \in Dims : NoCounts[d][v].pv = 0
  BY DEF NoCounts
<1>2. Overall \in Dims /\ Places \subseteq Dims
  BY DEF Dims
<1> DEFINE f == [v \in Places |-> NoCounts[d][v].pv]
<1>3. \A v \in Places : f[v] = 0
  BY <1>1, <1>2
<1> HIDE DEF f
<1>4. SumFunctionOnSet(f, Places) = 0
  BY <1>3, PlacesAreFinite, SumOfZeros
<1> QED BY <1>1, <1>2, <1>4 DEF f

LEMMA TotalsInitially == Init => DurableTotals
<1> SUFFICES ASSUME Init PROVE DurableTotals
  OBVIOUS
<1>1. totals = NoCounts /\ \A d \in Dates : ledger.accepted[d] = 0
  BY DEF Init, NewLedger
<1> QED BY <1>1, NoCountsAddNothing DEF DurableTotals, Sum

\* The overall row and one geographic row of the date gain the Pageview.
LEMMA PageviewAddsOne ==
  ASSUME IInv, DurableTotals, NEW q \in Requests, RecordPageview(q)
  PROVE  DurableTotals'
<1> DEFINE r == request[q]
           date == LocalDate[site.tz][r.at]
           window == WindowOf(rules, date)
           fresh == {v \in DimsOf(r.place) : ~ Registered(window, v, r.who)}
           mark == [window |-> window, who |-> r.who]
           place == r.place
<1>1. /\ request \in [Requests -> Idle \cup Admitted \cup Stamped]
      /\ totals \in [Dates -> [Dims -> [pv : Nat, uv : Nat]]]
      /\ site.tz \in Timezones
      /\ ledger \in [accepted : [Dates -> Nat],
                 counted : SUBSET [window : Window, who : Digest],
                 settled : Nat, expired : SUBSET Dates, spared : BOOLEAN, quiet : BOOLEAN]
  BY DEF IInv, TypeOK
<1>2. r \in Stamped
  BY <1>1 DEF RecordPageview, Idle, Admitted, Stamped
<1>3. /\ totals' = CountPageview(date, place, fresh)
      /\ ledger' = [ledger EXCEPT !.accepted[date] = @ + 1, !.counted = @ \cup {mark}]
  BY DEF RecordPageview
<1>4. date \in Dates /\ place \in Places
  BY <1>1, <1>2, LocalDateType DEF Stamped
<1> HIDE DEF r, date, window, fresh, mark, place
<1>5. \A d \in Dates : ledger'.accepted[d] =
        IF d = date THEN ledger.accepted[d] + 1 ELSE ledger.accepted[d]
  BY <1>1, <1>3, <1>4
<1>6. \A d \in Dates : \A v \in Dims : totals'[d][v].pv =
        IF d = date /\ v \in DimsOf(place) THEN totals[d][v].pv + 1 ELSE totals[d][v].pv
  BY <1>1, <1>3, <1>4 DEF CountPageview
<1>7. Overall \in Dims /\ Places \subseteq Dims /\ Overall \in DimsOf(place)
  BY DEF Dims, DimsOf
<1>8. \A v \in Places : v \in DimsOf(place) <=> v = place
  BY PlacesAreFinite DEF DimsOf
<1> SUFFICES ASSUME NEW d \in Dates
             PROVE  /\ totals'[d][Overall].pv = ledger'.accepted[d]
                    /\ Sum(Places, LAMBDA v : totals[d][v].pv)' = ledger'.accepted[d]
  BY DEF DurableTotals
<1> DEFINE f == [v \in Places |-> totals[d][v].pv]
           h == [v \in Places |-> totals'[d][v].pv]
<1>9. /\ totals[d][Overall].pv = ledger.accepted[d]
      /\ SumFunctionOnSet(f, Places) = ledger.accepted[d]
  BY PlacesSum DEF DurableTotals
<1>10. \A v \in Places : f[v] \in Int /\ h[v] = IF d = date /\ v = place THEN f[v] + 1 ELSE f[v]
  BY <1>1, <1>6, <1>7, <1>8
<1>11. Sum(Places, LAMBDA v : totals[d][v].pv)' = SumFunctionOnSet(h, Places)
  BY DEF Sum
<1> HIDE DEF f, h
<1>12. \A v \in Places : h[v] \in Int
  BY <1>10
<1>13. SumFunctionOnSet(h, Places) = SumFunctionOnSet(f, Places) - f[place] + h[place]
  BY <1>4, <1>10, <1>12, PlacesAreFinite, SumUpdate
<1>14. ledger.accepted[d] \in Nat
  BY <1>1
<1>15. h[place] = IF d = date THEN f[place] + 1 ELSE f[place]
  BY <1>4, <1>10
<1>16. f[place] \in Int
  BY <1>4, <1>10
<1> QED BY <1>5, <1>6, <1>7, <1>9, <1>11, <1>13, <1>14, <1>15, <1>16

\* No other step of a Site touches the counts, except to clear them.
LEMMA TotalsStep == IInv /\ DurableTotals /\ [Next]_vars => DurableTotals'
<1> SUFFICES ASSUME IInv, DurableTotals, [Next]_vars PROVE DurableTotals'
  OBVIOUS
<1>1. ledger \in [accepted : [Dates -> Nat], counted : SUBSET [window : Window, who : Digest],
                 settled : Nat, expired : SUBSET Dates, spared : BOOLEAN, quiet : BOOLEAN]
  BY DEF IInv, TypeOK
<1>2. ASSUME NEW q \in Requests, RecordPageview(q) PROVE DurableTotals'
  BY <1>2, PageviewAddsOne
<1>3. ASSUME totals' = totals, ledger'.accepted = ledger.accepted PROVE DurableTotals'
  BY <1>3 DEF DurableTotals, Sum
<1>4. ASSUME NEW c \in Cleaners, CleanSite(c) PROVE DurableTotals'
  <2>1. totals' = totals /\ ledger'.accepted = ledger.accepted
    BY <1>1, <1>4 DEF CleanSite
  <2> QED BY <2>1, <1>3
<1>5. ASSUME totals' = NoCounts, ledger' = NewLedger(TRUE) PROVE DurableTotals'
  <2>1. \A d \in Dates : ledger'.accepted[d] = 0
    BY <1>5 DEF NewLedger
  <2> QED BY <2>1, <1>5, NoCountsAddNothing DEF DurableTotals, Sum
<1>6. CASE ResetSiteData
  BY <1>6, <1>5 DEF ResetSiteData
<1>7. CASE DeleteSite
  <2>1. CASE totals' = totals /\ ledger' = [ledger EXCEPT !.quiet = TRUE]
    BY <2>1, <1>1, <1>3
  <2> QED BY <1>7, <2>1, <1>5 DEF DeleteSite
<1>8. ASSUME NEW tz \in Timezones, NEW w \in WindowChoices, NEW p \in Policies,
             NEW a \in BOOLEAN, UpdateSite(tz, w, p, a)
      PROVE  DurableTotals'
  BY <1>1, <1>3, <1>8 DEF UpdateSite
<1>9. ASSUME NEW q \in Requests, AdmitPageview(q) \/ StampPageview(q) \/ DropPageview(q)
      PROVE  DurableTotals'
  BY <1>3, <1>9 DEF AdmitPageview, StampPageview, DropPageview, database
<1>10. ASSUME NEW c \in Cleaners, StartCleanup(c) \/ ListSites(c) \/ StopCleanup(c)
      PROVE  DurableTotals'
  BY <1>3, <1>10 DEF StartCleanup, ListSites, StopCleanup, database
<1>11. CASE Tick \/ Restart \/ UNCHANGED vars
  BY <1>3, <1>11 DEF Tick, Restart, vars, database
<1> QED BY <1>2, <1>4, <1>6, <1>7, <1>8, <1>9, <1>10, <1>11 DEF Next, SiteStep

\* Expiring records takes nothing back: whatever cleanups, requests and resets are
\* interleaved, each date's overall total, and the sum over its places, is the
\* number of Pageviews accepted for it (CleanupBatch deletes rows of pageviews only).
THEOREM TotalsAreDurable == Spec => []DurableTotals
<1>1. IInv /\ DurableTotals /\ [Next]_vars => DurableTotals'
  BY TotalsStep
<1>2. Init => DurableTotals
  BY TotalsInitially
<1> QED BY <1>1, <1>2, Inductive, PTL DEF Spec

-----------------------------------------------------------------------------
(* The refresh of record geography: GeoRefresh *)

LEMMA RecordsAreFinite ==
  ASSUME NEW rows, rows \subseteq Pageview, \A p, q \in rows : p.id = q.id => p = q
  PROVE  IsFiniteSet(rows)
<1> DEFINE f == [p \in rows |-> p.id]
<1>1. f \in Injection(rows, 1 .. MaxRecords)
  BY DEF Injection, IsInjective, Pageview
<1>2. IsFiniteSet(1 .. MaxRecords)
  BY BoundsAreNat, FS_Interval
<1> HIDE DEF f
<1> QED BY <1>1, <1>2, FS_Injection

LEMMA WhosAreFinite ==
  ASSUME NEW rows, IsFiniteSet(rows)
  PROVE  IsFiniteSet({q.who : q \in rows})
<1> DEFINE f == [q \in rows |-> q.who]
<1>1. f \in Surjection(rows, {q.who : q \in rows})
  BY DEF Surjection
<1> HIDE DEF f
<1> QED BY <1>1, FS_Surjection

LEMMA DatesUpTo ==
  ASSUME NEW n \in Nat
  PROVE  IsFiniteSet({d \in Dates : d <= n})
<1>1. {d \in Dates : d <= n} \in SUBSET Nat
  BY DatesAreNat
<1> QED BY <1>1, FS_BoundedSetOfNaturals

\* The dates of a window that have come, as a set of any dates and rules.
LEMMA PastDatesAreFinite ==
  ASSUME NEW n \in Nat, NEW D, D \subseteq {d \in Dates : d <= n}
  PROVE  IsFiniteSet(D)
BY DatesUpTo, FS_Subset

\* Nothing at all is counted at the places.
LEMMA NobodyCounted ==
  ASSUME NEW f, NEW D, IsFiniteSet(D), \A d \in D : f[d] = 0, NEW whos, IsFiniteSet(whos)
  PROVE  SumFunctionOnSet(f, D) <= Cardinality(whos)
<1>1. SumFunctionOnSet(f, D) = 0
  BY SumOfZeros
<1>2. Cardinality(whos) \in Nat
  BY FS_CardinalityType
<1> QED BY <1>1, <1>2

\* A new Site has no records and no counts.
LEMMA GeoInitially == GeoInit => GeoIInv
<1> SUFFICES ASSUME GeoInit PROVE GeoIInv
  OBVIOUS
<1>1. IInv
  BY Initially DEF GeoInit
<1>2. /\ pageviews = {} /\ registrations = {} /\ totals = NoCounts /\ refresh = idle
      /\ ledger = NewLedger(FALSE)
  BY DEF GeoInit, Init
<1>3. RefreshType
  BY <1>2 DEF RefreshType, Idle, idle
<1>4. \A d \in Dates : \A v \in Places : totals[d][v].pv = 0 /\ totals[d][v].uv = 0
  BY <1>2 DEF NoCounts, Dims
<1>5. IdsIdentify /\ RecordsCounted /\ UnlockedUncounted /\ RecordsRegistered
  BY <1>2 DEF IdsIdentify, RecordsCounted, UnlockedUncounted, RecordsRegistered
<1>6. PlacesPlausible
  BY <1>4 DEF PlacesPlausible
<1>7. GeographyMatchesRecords
  <2>1. \A d \in Dates : \A v \in Places : {p \in pageviews : p.date = d /\ p.place = v} = {}
    BY <1>2
  <2> QED BY <1>4, <2>1, FS_EmptySet DEF GeographyMatchesRecords
<1>8. OpenVisitorsOnce
  <2> SUFFICES ASSUME NEW w, NEW v \in Places
               PROVE  SumFunctionOnSet(VisitorsAt(v), PastDatesOf(w)) <= Cardinality(WhosAt(w, v))
    BY DEF OpenVisitorsOnce
  <2>1. IsFiniteSet(PastDatesOf(w))
    BY <1>1, TodayIsNat, PastDatesAreFinite DEF PastDatesOf
  <2>2. \A d \in PastDatesOf(w) : VisitorsAt(v)[d] = 0
    BY <1>4 DEF VisitorsAt, PastDatesOf
  <2>3. WhosAt(w, v) = {}
    BY <1>2 DEF WhosAt
  <2> QED BY <2>1, <2>2, <2>3, FS_EmptySet, NobodyCounted
<1> QED BY <1>1, <1>3, <1>5, <1>6, <1>7, <1>8 DEF GeoIInv, GeoCounts

\* A step that touches neither the counts nor the present date.
LEMMA CountsUntouched ==
  ASSUME GeoCounts,
         UNCHANGED <<clock, rules, pageviews, nextId, registrations, totals>>,
         site'.tz = site.tz, ledger'.counted = ledger.counted,
         ledger'.settled = ledger.settled, ledger'.expired = ledger.expired,
         UnlockedUncounted'
  PROVE  GeoCounts'
<1>1. Today' = Today
  BY DEF Today
<1>2. \A w : OpenWindow(w)' <=> OpenWindow(w)
  BY <1>1 DEF OpenWindow
<1>3. \A d : WindowOf(rules, d)' = WindowOf(rules, d)
  BY DEF WindowOf, ActiveRule
<1>4. \A w : PastDatesOf(w)' = PastDatesOf(w)
  BY <1>1, <1>3 DEF PastDatesOf
<1>5. \A w, v : WhosAt(w, v)' = WhosAt(w, v)
  BY DEF WhosAt
<1>6. \A v : VisitorsAt(v)' = VisitorsAt(v)
  BY DEF VisitorsAt
<1>7. (IdsIdentify /\ RecordsCounted)'
  BY DEF GeoCounts, IdsIdentify, RecordsCounted
<1>8. PlacesPlausible'
  BY <1>1 DEF GeoCounts, PlacesPlausible
<1>9. GeographyMatchesRecords'
  BY DEF GeoCounts, GeographyMatchesRecords
<1>10. RecordsRegistered'
  BY <1>2 DEF GeoCounts, RecordsRegistered, Registered
<1>11. OpenVisitorsOnce'
  BY <1>1, <1>2, <1>3, <1>4, <1>5, <1>6 DEF GeoCounts, OpenVisitorsOnce
<1> QED BY <1>7, <1>8, <1>9, <1>10, <1>11 DEF GeoCounts

\* Midnight passes: the dates that begin have counted nothing yet.
LEMMA GeoTick ==
  ASSUME IInv, GeoCounts, Tick
  PROVE  GeoCounts'
<1>1. UNCHANGED <<database, ledger>> /\ clock' \in Instants /\ clock \in Instants /\ clock <= clock'
  BY BoundsAreNat DEF IInv, TypeOK, Tick, Instants
<1> USE DEF database
<1>2. Today \in Nat /\ Today' \in Nat /\ Today <= Today'
  <2>1. site.tz \in Timezones
    BY DEF IInv, TypeOK
  <2>2. /\ LocalDate[site.tz][clock] <= LocalDate[site.tz][clock']
        /\ LocalDate[site.tz][clock] \in Nat /\ LocalDate[site.tz][clock'] \in Nat
    BY <1>1, <2>1, LocalDateAssumption
  <2> QED BY <1>1, <2>2 DEF Today
<1> DEFINE Came(d) == d <= Today
           Comes(d) == d <= Today'
<1>0. \A d \in Dates : (Came(d) => Comes(d)) /\ (~ Came(d) => d > Today)
  BY <1>2, DatesAreNat
<1> HIDE DEF Came, Comes
<1>3. \A d : WindowOf(rules, d)' = WindowOf(rules, d)
  BY <1>1 DEF WindowOf, ActiveRule
<1>4. \A d \in Dates : rules # {} => WindowOf(rules, d) \in Window
  BY WindowOfDate DEF IInv, TypeOK
<1>5. \A w \in Window : OpenWindow(w)' => OpenWindow(w)
  BY <1>1, <1>2 DEF OpenWindow, Window
<1>6. \A w, v : WhosAt(w, v)' = WhosAt(w, v)
  BY <1>1 DEF WhosAt
<1>7. \A v : VisitorsAt(v)' = VisitorsAt(v)
  BY <1>1 DEF VisitorsAt
<1>8. (IdsIdentify /\ RecordsCounted /\ UnlockedUncounted /\ GeographyMatchesRecords)'
  BY <1>1 DEF GeoCounts, IdsIdentify, RecordsCounted, UnlockedUncounted, GeographyMatchesRecords
<1>9. PlacesPlausible'
  <2>1. \A d \in Dates : d > Today' => d > Today
    BY <1>2, DatesAreNat
  <2> QED BY <1>1, <2>1 DEF GeoCounts, PlacesPlausible
<1>10. RecordsRegistered'
  <2>1. \A p \in pageviews : p.window \in Window
    BY DEF IInv, TypeOK, Pageview
  <2> QED BY <1>1, <1>5, <2>1 DEF GeoCounts, RecordsRegistered, Registered
<1>11. OpenVisitorsOnce'
  <2> SUFFICES ASSUME NEW e \in Dates, NEW v \in Places, rules # {},
                      OpenWindow(WindowOf(rules, e))',
                      (PastDatesOf(WindowOf(rules, e)) \cap ledger.expired = {})'
               PROVE  (SumFunctionOnSet(VisitorsAt(v), PastDatesOf(WindowOf(rules, e)))
                         <= Cardinality(WhosAt(WindowOf(rules, e), v)))'
    BY <1>1 DEF OpenVisitorsOnce
  <2> DEFINE w == WindowOf(rules, e)
             before == PastDatesOf(w)
             after == {d \in Dates : d <= Today' /\ WindowOf(rules, d) = w}
             f == VisitorsAt(v)
  <2>1. PastDatesOf(w)' = after
    BY <1>1, <1>3 DEF PastDatesOf
  <2>2. before \in SUBSET after
    BY <1>0 DEF PastDatesOf, Came, Comes
  <2>3. IsFiniteSet(after)
    BY <1>2, PastDatesAreFinite
  <2>4. \A d \in after : f[d] \in Int
    BY DEF IInv, TypeOK, VisitorsAt, Dims
  <2>5. \A d \in after \ before : f[d] = 0
    <3> SUFFICES ASSUME NEW d \in after \ before PROVE f[d] = 0
      OBVIOUS
    <3>1. d \in Dates /\ d > Today
      BY <1>0 DEF PastDatesOf, Came
    <3>2. totals[d][v].uv <= totals[d][v].pv /\ totals[d][v].pv = 0 /\ totals[d][v].uv \in Nat
      BY <3>1 DEF GeoCounts, PlacesPlausible, IInv, TypeOK, Dims
    <3> QED BY <3>1, <3>2 DEF VisitorsAt
  <2>6. OpenWindow(w) /\ before \cap ledger.expired = {}
    BY <1>1, <1>3, <1>4, <1>5, <2>1, <2>2
  <2>7. IsFiniteSet(WhosAt(w, v))
    <3>1. IsFiniteSet(pageviews)
      BY RecordsAreFinite DEF IInv, TypeOK, GeoCounts, IdsIdentify
    <3>2. IsFiniteSet({r \in pageviews : r.window = w /\ r.place = v})
      BY <3>1, FS_Subset
    <3> QED BY <3>2, WhosAreFinite DEF WhosAt
  <2>8. SumFunctionOnSet(f, before) <= Cardinality(WhosAt(w, v))
    <3>1. CASE before = {}
      BY <3>1, <2>7, FS_EmptySet, NobodyCounted
    <3>2. CASE before # {}
      <4>1. PICK d \in Dates : d <= Today /\ WindowOf(rules, d) = w
        BY <3>2 DEF PastDatesOf
      <4> QED BY <4>1, <2>6 DEF GeoCounts, OpenVisitorsOnce
    <3> QED BY <3>1, <3>2
  <2> HIDE DEF f, before, after
  <2>9. SumFunctionOnSet(f, after) = SumFunctionOnSet(f, before)
    BY <2>2, <2>3, <2>4, <2>5, SumOfSupport
  <2>10. VisitorsAt(v)' = f /\ WhosAt(w, v)' = WhosAt(w, v)
    BY <1>3, <1>6, <1>7 DEF f
  <2> QED BY <2>1, <2>8, <2>9, <2>10, <1>3
<1> QED BY <1>8, <1>9, <1>10, <1>11 DEF GeoCounts

LEMMA RecordsFiniteNow == IInv /\ GeoCounts => IsFiniteSet(pageviews)
BY RecordsAreFinite DEF IInv, TypeOK, GeoCounts, IdsIdentify

LEMMA WhosFiniteNow ==
  ASSUME IsFiniteSet(pageviews), NEW w, NEW v
  PROVE  IsFiniteSet(WhosAt(w, v)) /\ Cardinality(WhosAt(w, v)) \in Nat
<1>1. IsFiniteSet({r \in pageviews : r.window = w /\ r.place = v})
  BY FS_Subset
<1> QED BY <1>1, WhosAreFinite, FS_CardinalityType DEF WhosAt

\* With neither records nor counts every window holds what it should.
LEMMA NobodyCountedNext ==
  ASSUME pageviews' = {}, Today' \in Nat,
         \A d \in Dates : \A v \in Places : totals'[d][v].uv = 0
  PROVE  OpenVisitorsOnce'
<1> SUFFICES ASSUME NEW w, NEW v \in Places
             PROVE  SumFunctionOnSet(VisitorsAt(v)', PastDatesOf(w)') <= Cardinality(WhosAt(w, v)')
  BY DEF OpenVisitorsOnce
<1> DEFINE D == PastDatesOf(w)'
           f == VisitorsAt(v)'
<1>1. IsFiniteSet(D)
  BY PastDatesAreFinite DEF PastDatesOf
<1>2. \A d \in D : f[d] = 0
  BY DEF VisitorsAt, PastDatesOf
<1>3. WhosAt(w, v)' = {}
  BY DEF WhosAt
<1> HIDE DEF D, f
<1>4. SumFunctionOnSet(f, D) <= Cardinality({})
  BY <1>1, <1>2, FS_EmptySet, NobodyCounted
<1> QED BY <1>3, <1>4 DEF D, f

\* Everything is cleared together, or the Site row goes and nothing else.
LEMMA GeoClear ==
  ASSUME IInv, IInv', GeoCounts, ResetSiteData \/ DeleteSite
  PROVE  GeoCounts'
<1>1. /\ ledger \in [accepted : [Dates -> Nat], counted : SUBSET [window : Window, who : Digest],
                 settled : Nat, expired : SUBSET Dates, spared : BOOLEAN, quiet : BOOLEAN]
      /\ site \in [exists : BOOLEAN, tz : Timezones, window : WindowChoices,
               retention : Policies, accepting : BOOLEAN, first : BOOLEAN, key : 0 .. MaxResets]
  BY DEF IInv, TypeOK
<1>2. CASE pageviews' = {} /\ registrations' = {} /\ totals' = NoCounts
  <2>1. \A d \in Dates : \A v \in Places : totals'[d][v].pv = 0 /\ totals'[d][v].uv = 0
    BY <1>2 DEF NoCounts, Dims
  <2>2. (IdsIdentify /\ RecordsCounted /\ UnlockedUncounted /\ RecordsRegistered)'
    BY <1>2 DEF IdsIdentify, RecordsCounted, UnlockedUncounted, RecordsRegistered, NoCounts
  <2>3. PlacesPlausible'
    BY <2>1 DEF PlacesPlausible
  <2>4. GeographyMatchesRecords'
    <3>1. \A d \in Dates : \A v \in Places : {p \in pageviews' : p.date = d /\ p.place = v} = {}
      BY <1>2
    <3> QED BY <2>1, <3>1, FS_EmptySet DEF GeographyMatchesRecords
  <2>5. Today' \in Nat
    BY LocalDateType DEF IInv, TypeOK, Today
  <2>6. OpenVisitorsOnce'
    BY <1>2, <2>1, <2>5, NobodyCountedNext
  <2> QED BY <2>2, <2>3, <2>4, <2>6 DEF GeoCounts
<1>3. CASE DeleteSite /\ UNCHANGED <<rules, pageviews, registrations, totals>>
           /\ ledger' = [ledger EXCEPT !.quiet = TRUE]
  <2>1. site'.tz = site.tz /\ ~ site'.exists /\ UNCHANGED <<clock, nextId>>
    BY <1>1, <1>3 DEF DeleteSite
  <2>2. UnlockedUncounted'
    BY <2>1 DEF UnlockedUncounted
  <2> QED BY <1>1, <1>3, <2>1, <2>2, CountsUntouched
<1> QED BY <1>2, <1>3 DEF ResetSiteData, DeleteSite

\* A registration with the start of a record's window is one of that window.
LEMMA StartOfRecord ==
  ASSUME IInv, NEW p \in pageviews, NEW g \in registrations, g.window.start = p.window.start
  PROVE  g.window = p.window
<1>1. p.date \in Dates /\ p.window = WindowOf(rules, p.date) /\ rules # {} /\ rules \subseteq Rule
  BY DEF IInv, TypeOK, Pageview, RecordsKeepTheirWindow, RulesPresent
<1>2. PICK d \in Dates : g.window = WindowOf(rules, d)
  BY DEF IInv, RegistrationsCounted, CountedByRules
<1> QED BY <1>1, <1>2, StartIdentifiesWindow DEF IInv

\* The date of a record has come.
LEMMA RecordsArePast ==
  ASSUME IInv, NEW p \in pageviews
  PROVE  p.date \in Dates /\ p.date <= Today
<1>1. p.at \in Instants /\ clock \in Instants /\ p.at <= clock /\ site.tz \in Timezones
  BY DEF IInv, TypeOK, Pageview, NothingFromTheFuture
<1>2. p.date = LocalDate[site.tz][p.at]
  BY DEF IInv, OneTimezone
<1> QED BY <1>1, <1>2, LocalDateType, LocalDateAssumption DEF Today

\* A cleanup takes records, and with them their dates, out of what the properties
\* speak of; registrations it takes belong to windows it has settled.
LEMMA GeoClean ==
  ASSUME IInv, GeoCounts, NEW c \in Cleaners, CleanSite(c)
  PROVE  GeoCounts'
<1> DEFINE date == LocalDate[cleaner[c].tz][cleaner[c].now]
<1>1. UNCHANGED <<clock, site, rules, nextId, totals, request>>
  BY DEF CleanSite
<1>2. PICK old, done :
        /\ old \subseteq pageviews
        /\ done \subseteq CompletedRegistrations(cleaner[c])
        /\ pageviews' = pageviews \ old
        /\ registrations' = registrations \ done
        /\ ledger' = [ledger EXCEPT
             !.settled = IF @ < date THEN date ELSE @,
             !.expired = @ \cup {p.date : p \in old},
             !.spared = @ /\ (site.exists /\ site.retention.unlimited => old = {})]
  BY DEF CleanSite, Batches, ExpiredRecords
<1>3. /\ cleaner \in [Cleaners -> Idle \cup Started \cup Listed]
      /\ ledger \in [accepted : [Dates -> Nat], counted : SUBSET [window : Window, who : Digest],
                 settled : Nat, expired : SUBSET Dates, spared : BOOLEAN, quiet : BOOLEAN]
      /\ pageviews \subseteq Pageview /\ rules \subseteq Rule
  BY DEF IInv, TypeOK
<1>4. date \in Nat
  <2>1. cleaner[c] \in Listed
    BY <1>3 DEF CleanSite, Idle, Started, Listed
  <2> QED BY <2>1, LocalDateType DEF Listed
<1>5. \A g \in done : g.window.end <= date
  BY <1>2 DEF CompletedRegistrations
<1> HIDE DEF date
<1>6. /\ ledger'.counted = ledger.counted
      /\ ledger'.settled = IF ledger.settled < date THEN date ELSE ledger.settled
      /\ ledger'.expired = ledger.expired \cup {p.date : p \in old}
  BY <1>2, <1>3
<1>7. Today' = Today
  BY <1>1 DEF Today
<1>8. \A w \in Window : OpenWindow(w)' => OpenWindow(w) /\ ~ (w.end <= date)
  <2> SUFFICES ASSUME NEW w \in Window, OpenWindow(w)'
               PROVE  OpenWindow(w) /\ ~ (w.end <= date)
    OBVIOUS
  <2>1. w.end \in Int /\ w.end > Today /\ w.end > ledger'.settled
    BY <1>7 DEF OpenWindow, Window
  <2> QED BY <2>1, <1>3, <1>4, <1>6 DEF OpenWindow
<1>9. (IdsIdentify /\ RecordsCounted /\ PlacesPlausible /\ UnlockedUncounted)'
  BY <1>1, <1>2, <1>6, <1>7
     DEF GeoCounts, IdsIdentify, RecordsCounted, PlacesPlausible, UnlockedUncounted
<1>10. GeographyMatchesRecords'
  <2> SUFFICES ASSUME NEW d \in Dates, d \notin ledger'.expired, NEW v \in Places
               PROVE  totals[d][v].pv
                        = Cardinality({p \in pageviews' : p.date = d /\ p.place = v})
    BY <1>1 DEF GeographyMatchesRecords
  <2>1. {p \in pageviews' : p.date = d /\ p.place = v} = {p \in pageviews : p.date = d /\ p.place = v}
    BY <1>2, <1>6
  <2> QED BY <2>1, <1>6 DEF GeoCounts, GeographyMatchesRecords
<1>11. RecordsRegistered'
  <2> SUFFICES ASSUME NEW p \in pageviews', OpenWindow(p.window)'
               PROVE  Registered(p.window, p.place, p.who)'
    BY DEF RecordsRegistered
  <2>1. p \in pageviews /\ p.window \in Window
    BY <1>2, <1>3 DEF Pageview
  <2>2. OpenWindow(p.window) /\ ~ (p.window.end <= date)
    BY <1>8, <2>1
  <2>3. PICK g \in registrations :
          g.window.start = p.window.start /\ g.dim = p.place /\ g.who = p.who
    BY <2>1, <2>2 DEF GeoCounts, RecordsRegistered, Registered
  <2>4. g.window = p.window
    BY <2>1, <2>3, StartOfRecord
  <2>5. g \in registrations'
    BY <1>2, <1>5, <2>2, <2>4
  <2> QED BY <2>3, <2>5 DEF Registered
<1>12. OpenVisitorsOnce'
  <2> SUFFICES ASSUME NEW e \in Dates, NEW v \in Places, e <= Today, rules # {},
                      OpenWindow(WindowOf(rules, e))',
                      (PastDatesOf(WindowOf(rules, e)) \cap ledger.expired = {})'
               PROVE  (SumFunctionOnSet(VisitorsAt(v), PastDatesOf(WindowOf(rules, e)))
                         <= Cardinality(WhosAt(WindowOf(rules, e), v)))'
    BY <1>1, <1>7 DEF OpenVisitorsOnce
  <2> DEFINE w == WindowOf(rules, e)
  <2>1. \A d : WindowOf(rules, d)' = WindowOf(rules, d)
    BY <1>1 DEF WindowOf, ActiveRule
  <2>2. PastDatesOf(w)' = PastDatesOf(w) /\ VisitorsAt(v)' = VisitorsAt(v)
    BY <1>1, <1>7, <2>1 DEF PastDatesOf, VisitorsAt
  <2>3. w \in Window
    BY <1>3, WindowOfDate DEF IInv
  <2>4. OpenWindow(w)
    BY <1>8, <2>1, <2>3
  <2>5. PastDatesOf(w) \cap ledger'.expired = {}
    BY <2>1, <2>2
  <2>6. \A p \in old : p.window # w
    <3> SUFFICES ASSUME NEW p \in old, p.window = w PROVE FALSE
      OBVIOUS
    <3>1. p \in pageviews /\ p.date \in ledger'.expired
      BY <1>2, <1>6
    <3>2. p.date \in PastDatesOf(w)
      BY <3>1, RecordsArePast DEF IInv, RecordsKeepTheirWindow, PastDatesOf
    <3> QED BY <2>5, <3>1, <3>2
  <2>7. WhosAt(w, v)' = WhosAt(w, v)
    BY <1>2, <2>1, <2>6 DEF WhosAt
  <2>8. SumFunctionOnSet(VisitorsAt(v), PastDatesOf(w)) <= Cardinality(WhosAt(w, v))
    BY <1>6, <2>4, <2>5 DEF GeoCounts, OpenVisitorsOnce
  <2> QED BY <2>1, <2>2, <2>7, <2>8
<1> QED BY <1>9, <1>10, <1>11, <1>12 DEF GeoCounts

\* New settings: the timezone changes only while nothing is counted, and the rule for
\* tomorrow moves no date that has come.
LEMMA GeoUpdate ==
  ASSUME IInv, GeoCounts, NEW tz \in Timezones, NEW days \in WindowChoices,
         NEW p \in Policies, NEW a \in BOOLEAN, UpdateSite(tz, days, p, a)
  PROVE  GeoCounts'
<1> DEFINE next == LocalDate[tz][clock] + 1
           rule == [eff |-> next, days |-> days]
<1>1. UNCHANGED <<clock, pageviews, nextId, registrations, totals, request, cleaner>>
  BY DEF UpdateSite
<1>2. /\ clock \in Instants /\ rules \subseteq Rule /\ pageviews \subseteq Pageview
      /\ site \in [exists : BOOLEAN, tz : Timezones, window : WindowChoices,
               retention : Policies, accepting : BOOLEAN, first : BOOLEAN, key : 0 .. MaxResets]
      /\ ledger \in [accepted : [Dates -> Nat], counted : SUBSET [window : Window, who : Digest],
                 settled : Nat, expired : SUBSET Dates, spared : BOOLEAN, quiet : BOOLEAN]
      /\ totals \in [Dates -> [Dims -> [pv : Nat, uv : Nat]]]
  BY DEF IInv, TypeOK
<1>3. /\ site.exists /\ (site.first => tz = site.tz)
      /\ site' = [site EXCEPT !.tz = tz, !.window = days, !.retention = p, !.accepting = a]
      /\ ledger' = [ledger EXCEPT !.quiet = @ /\ ~ a]
  BY DEF UpdateSite, TimezoneUnlocked
<1>4. site'.tz = tz /\ site'.first = site.first /\ site'.exists
  BY <1>2, <1>3
<1>5. /\ ledger'.counted = ledger.counted /\ ledger'.settled = ledger.settled
      /\ ledger'.expired = ledger.expired
  BY <1>2, <1>3
<1>6. Today' = LocalDate[tz][clock] /\ Today' \in Nat
  BY <1>1, <1>2, <1>4, LocalDateType DEF Today
<1>7. (IdsIdentify /\ RecordsCounted /\ UnlockedUncounted /\ GeographyMatchesRecords)'
  BY <1>1, <1>3, <1>4, <1>5
     DEF GeoCounts, IdsIdentify, RecordsCounted, UnlockedUncounted, GeographyMatchesRecords
<1>8. CASE site.first
  <2>1. Today' = Today
    BY <1>3, <1>6, <1>8 DEF Today
  <2>2. \A w : OpenWindow(w)' <=> OpenWindow(w)
    BY <2>1, <1>5 DEF OpenWindow
  <2>3. PlacesPlausible'
    BY <1>1, <2>1 DEF GeoCounts, PlacesPlausible
  <2>4. RecordsRegistered'
    BY <1>1, <2>2 DEF GeoCounts, RecordsRegistered, Registered
  <2>5. \A d \in Dates : d <= Today => WindowOf(rules, d)' = WindowOf(rules, d)
    <3> SUFFICES ASSUME NEW d \in Dates, d <= Today
                 PROVE  WindowOf(rules', d) = WindowOf(rules, d)
      BY DEF WindowOf, ActiveRule
    <3>1. next \in Nat /\ d \in Nat /\ d < next
      BY <1>6, <2>1, DatesAreNat
    <3> HIDE DEF next
    <3>2. rules' = rules \/ rules' = {r \in rules : r.eff # next} \cup {rule}
      BY DEF UpdateSite, ScheduleRule, next
    <3>3. \A r \in rules : r.eff \in Nat
      BY <1>2 DEF Rule
    <3>4. {r \in rules : r.eff <= d} = {r \in rules' : r.eff <= d}
      BY <3>1, <3>2, <3>3
    <3> QED BY <3>4, WindowKept
  <2>6. OpenVisitorsOnce'
    <3> SUFFICES ASSUME NEW e \in Dates, NEW v \in Places, e <= Today,
                        OpenWindow(WindowOf(rules', e)),
                        PastDatesOf(WindowOf(rules, e))' \cap ledger.expired = {}
                 PROVE  SumFunctionOnSet(VisitorsAt(v)', PastDatesOf(WindowOf(rules, e))')
                           <= Cardinality(WhosAt(WindowOf(rules, e), v)')
      BY <1>5, <2>1, <2>2 DEF OpenVisitorsOnce
    <3> DEFINE w == WindowOf(rules, e)
    <3>1. WindowOf(rules', e) = w
      BY <2>5
    <3>2. \A x : PastDatesOf(x)' = PastDatesOf(x)
      BY <2>1, <2>5 DEF PastDatesOf
    <3>3. \A x : WhosAt(x, v)' = WhosAt(x, v)
      BY <1>1 DEF WhosAt
    <3>4. VisitorsAt(v)' = VisitorsAt(v)
      BY <1>1 DEF VisitorsAt
    <3>5. rules # {}
      BY <1>3 DEF IInv, RulesPresent
    <3>6. SumFunctionOnSet(VisitorsAt(v), PastDatesOf(w)) <= Cardinality(WhosAt(w, v))
      BY <3>1, <3>2, <3>5 DEF GeoCounts, OpenVisitorsOnce
    <3> QED BY <3>1, <3>2, <3>3, <3>4, <3>6
  <2> QED BY <1>7, <2>3, <2>4, <2>6 DEF GeoCounts
<1>9. CASE ~ site.first
  <2>1. pageviews' = {} /\ totals' = NoCounts
    BY <1>1, <1>3, <1>9 DEF IInv, UnlockedIsEmpty, GeoCounts, UnlockedUncounted
  <2>2. \A d \in Dates : \A v \in Places : totals'[d][v].pv = 0 /\ totals'[d][v].uv = 0
    BY <2>1 DEF NoCounts, Dims
  <2>3. PlacesPlausible'
    BY <2>2 DEF PlacesPlausible
  <2>4. RecordsRegistered'
    BY <2>1 DEF RecordsRegistered
  <2>5. OpenVisitorsOnce'
    BY <2>1, <2>2, <1>6, NobodyCountedNext
  <2> QED BY <1>7, <2>3, <2>4, <2>5 DEF GeoCounts
<1> QED BY <1>8, <1>9

\* The transaction of RecordPageview: the record, the registration and the count of
\* its place agree with each other.
LEMMA GeoRecord ==
  ASSUME IInv, GeoCounts, NEW q \in Requests, RecordPageview(q)
  PROVE  GeoCounts'
<1> DEFINE r == request[q]
           date == LocalDate[site.tz][r.at]
           window == WindowOf(rules, date)
           fresh == {v \in DimsOf(r.place) : ~ Registered(window, v, r.who)}
           place == r.place
           who == r.who
           row == [id |-> nextId, at |-> r.at, date |-> date, place |-> place,
                   ip |-> r.ip, who |-> who, window |-> window]
           mark == [window |-> window, who |-> who]
<1>1. /\ request \in [Requests -> Idle \cup Admitted \cup Stamped]
      /\ clock \in Instants /\ rules \subseteq Rule /\ pageviews \subseteq Pageview
      /\ nextId \in 1 .. MaxRecords + 1
      /\ totals \in [Dates -> [Dims -> [pv : Nat, uv : Nat]]]
      /\ site \in [exists : BOOLEAN, tz : Timezones, window : WindowChoices,
               retention : Policies, accepting : BOOLEAN, first : BOOLEAN, key : 0 .. MaxResets]
      /\ ledger \in [accepted : [Dates -> Nat],
                 counted : SUBSET [window : Window, who : Digest],
                 settled : Nat, expired : SUBSET Dates, spared : BOOLEAN, quiet : BOOLEAN]
  BY DEF IInv, TypeOK
<1>2. r \in Stamped
  BY <1>1 DEF RecordPageview, Idle, Admitted, Stamped
<1>3. /\ site.exists
      /\ pageviews' = pageviews \cup {row}
      /\ nextId' = nextId + 1
      /\ registrations' = registrations \cup
           {[window |-> window, dim |-> v, who |-> who] : v \in fresh}
      /\ totals' = CountPageview(date, place, fresh)
      /\ site' = [site EXCEPT !.first = TRUE]
      /\ ledger' = [ledger EXCEPT !.accepted[date] = @ + 1, !.counted = @ \cup {mark}]
      /\ UNCHANGED <<clock, rules>>
  BY DEF RecordPageview, CollectionEnabled
<1>4. /\ date \in Dates /\ place \in Places
      /\ date <= Today
  <2>1. r.at \in Instants /\ r.place \in Places /\ r.at <= clock
    BY <1>2 DEF Stamped, IInv, NothingFromTheFuture
  <2> QED BY <1>1, <2>1, LocalDateType, LocalDateAssumption DEF Today
<1>5. rules # {}
  BY <1>3 DEF IInv, RulesPresent
<1>6. /\ ledger'.counted = ledger.counted \cup {mark} /\ ledger'.settled = ledger.settled
      /\ ledger'.expired = ledger.expired
  BY <1>1, <1>3
<1>7. site'.tz = site.tz /\ site'.first /\ Today' = Today
  BY <1>1, <1>3 DEF Today
<1>8. \A w : OpenWindow(w)' <=> OpenWindow(w)
  BY <1>6, <1>7 DEF OpenWindow
<1>9. \A d : WindowOf(rules, d)' = WindowOf(rules, d)
  BY <1>3 DEF WindowOf, ActiveRule
<1>10. place \in fresh <=> ~ Registered(window, place, who)
  BY DEF DimsOf
<1>11. window = WindowOf(rules, date)
  OBVIOUS
<1> HIDE DEF r, date, window, fresh, place, who
<1>12. \A v \in Places : v \in DimsOf(place) <=> v = place
  BY PlacesAreFinite DEF DimsOf
<1>13. \A d \in Dates : \A v \in Places :
         /\ totals[d][v].pv \in Nat /\ totals[d][v].uv \in Nat
         /\ totals'[d][v].pv = IF d = date /\ v = place THEN totals[d][v].pv + 1
                               ELSE totals[d][v].pv
         /\ totals'[d][v].uv = IF d = date /\ v = place /\ place \in fresh
                               THEN totals[d][v].uv + 1 ELSE totals[d][v].uv
  <2>1. \A v \in Places : v \in Dims
    BY DEF Dims
  <2> SUFFICES ASSUME NEW d \in Dates, NEW v \in Places
               PROVE  /\ totals[d][v].pv \in Nat /\ totals[d][v].uv \in Nat
                      /\ totals'[d][v].pv = IF d = date /\ v = place THEN totals[d][v].pv + 1
                                            ELSE totals[d][v].pv
                      /\ totals'[d][v].uv = IF d = date /\ v = place /\ place \in fresh
                                            THEN totals[d][v].uv + 1 ELSE totals[d][v].uv
    OBVIOUS
  <2>2. totals[d][v] \in [pv : Nat, uv : Nat]
    BY <1>1, <2>1
  <2>3. CASE d = date /\ v = place
    <3>1. totals'[d][v] = [pv |-> totals[d][v].pv + 1,
                           uv |-> totals[d][v].uv + (IF v \in fresh THEN 1 ELSE 0)]
      BY <1>1, <1>3, <1>4, <1>12, <2>1, <2>3 DEF CountPageview
    <3>2. CASE place \in fresh
      BY <2>2, <2>3, <3>1, <3>2
    <3>3. CASE place \notin fresh
      BY <2>2, <2>3, <3>1, <3>3
    <3> QED BY <3>2, <3>3
  <2>4. CASE ~ (d = date /\ v = place)
    <3>1. totals'[d][v] = totals[d][v]
      BY <1>1, <1>3, <1>4, <1>12, <2>1, <2>4 DEF CountPageview
    <3> QED BY <2>2, <2>4, <3>1
  <2> QED BY <2>3, <2>4
<1>14. row \notin pageviews
  <2>1. \A p \in pageviews : p.id < nextId /\ p.id \in Nat
    BY <1>1 DEF GeoCounts, IdsIdentify, Pageview
  <2> QED BY <2>1, <1>1
<1>15. IdsIdentify'
  <2>1. \A p \in pageviews : p.id < nextId /\ p.id < nextId' /\ p.id # nextId
    <3>1. \A p \in pageviews : p.id < nextId /\ p.id \in Nat
      BY <1>1 DEF GeoCounts, IdsIdentify, Pageview
    <3> QED BY <1>1, <1>3, <3>1
  <2>2. row.id = nextId /\ nextId < nextId'
    BY <1>1, <1>3
  <2>3. \A p, s \in pageviews : p.id = s.id => p = s
    BY DEF GeoCounts, IdsIdentify
  <2> HIDE DEF row
  <2> QED BY <1>3, <2>1, <2>2, <2>3 DEF IdsIdentify
<1>16. RecordsCounted'
  <2>1. [window |-> row.window, who |-> row.who] = mark
    OBVIOUS
  <2> HIDE DEF row, mark
  <2> QED BY <1>3, <1>6, <2>1 DEF GeoCounts, RecordsCounted
<1>17. PlacesPlausible'
  <2> SUFFICES ASSUME NEW d \in Dates, NEW v \in Places
               PROVE  /\ totals'[d][v].uv <= totals'[d][v].pv
                      /\ d > Today => totals'[d][v].pv = 0
    BY <1>7 DEF PlacesPlausible
  <2>1. totals[d][v].uv <= totals[d][v].pv /\ (d > Today => totals[d][v].pv = 0)
    BY DEF GeoCounts, PlacesPlausible
  <2>2. ~ (date > Today)
    BY <1>4, TodayIsNat, DatesAreNat
  <2>3. /\ totals[d][v].pv \in Nat /\ totals[d][v].uv \in Nat
        /\ totals'[d][v].pv = IF d = date /\ v = place THEN totals[d][v].pv + 1
                               ELSE totals[d][v].pv
        /\ totals'[d][v].uv = IF d = date /\ v = place /\ place \in fresh
                               THEN totals[d][v].uv + 1 ELSE totals[d][v].uv
    BY <1>13
  <2>4. CASE d = date
    BY <2>1, <2>2, <2>3, <2>4
  <2>5. CASE d # date
    BY <2>1, <2>3, <2>5
  <2> QED BY <2>4, <2>5
<1>18. UnlockedUncounted'
  BY <1>7 DEF UnlockedUncounted
<1>19. GeographyMatchesRecords'
  <2> SUFFICES ASSUME NEW d \in Dates, d \notin ledger.expired, NEW v \in Places
               PROVE  totals'[d][v].pv
                        = Cardinality({p \in pageviews' : p.date = d /\ p.place = v})
    BY <1>6 DEF GeographyMatchesRecords
  <2> DEFINE there == {p \in pageviews : p.date = d /\ p.place = v}
  <2>1. totals[d][v].pv = Cardinality(there)
    BY DEF GeoCounts, GeographyMatchesRecords
  <2>2. CASE d = date /\ v = place
    <3>1. {p \in pageviews' : p.date = d /\ p.place = v} = there \cup {row}
      BY <1>3, <2>2
    <3>2. IsFiniteSet(there) /\ row \notin there
      BY <1>14, RecordsFiniteNow, FS_Subset
    <3> HIDE DEF there, row
    <3>3. Cardinality(there \cup {row}) = Cardinality(there) + 1
      BY <3>2, FS_AddElement
    <3>4. totals'[d][v].pv = totals[d][v].pv + 1
      BY <2>2, <1>13
    <3> QED BY <3>1, <3>3, <3>4, <2>1
  <2>3. CASE ~ (d = date /\ v = place)
    <3>1. {p \in pageviews' : p.date = d /\ p.place = v} = there
      BY <1>3, <2>3
    <3> QED BY <3>1, <2>1, <2>3, <1>13
  <2> QED BY <2>2, <2>3
<1>20. RecordsRegistered'
  <2> SUFFICES ASSUME NEW p \in pageviews', OpenWindow(p.window)
               PROVE  Registered(p.window, p.place, p.who)'
    BY <1>8 DEF RecordsRegistered
  <2>1. CASE p \in pageviews
    <3>1. Registered(p.window, p.place, p.who)
      BY <2>1 DEF GeoCounts, RecordsRegistered
    <3> QED BY <1>3, <3>1 DEF Registered
  <2>2. CASE p = row /\ place \in fresh
    <3>1. [window |-> window, dim |-> place, who |-> who] \in registrations'
      BY <1>3, <2>2
    <3> QED BY <2>2, <3>1 DEF Registered
  <2>3. CASE p = row /\ place \notin fresh
    <3>1. Registered(window, place, who)
      BY <1>10, <2>3
    <3> QED BY <1>3, <2>3, <3>1 DEF Registered
  <2> QED BY <1>3, <2>1, <2>2, <2>3
<1>21. OpenVisitorsOnce'
  <2> SUFFICES ASSUME NEW e \in Dates, NEW v \in Places, e <= Today,
                      OpenWindow(WindowOf(rules, e)),
                      PastDatesOf(WindowOf(rules, e)) \cap ledger.expired = {}
               PROVE  SumFunctionOnSet(VisitorsAt(v)', PastDatesOf(WindowOf(rules, e)))
                         <= Cardinality(WhosAt(WindowOf(rules, e), v)')
    <3>1. \A w : PastDatesOf(w)' = PastDatesOf(w)
      BY <1>7, <1>9 DEF PastDatesOf
    <3> QED BY <1>6, <1>7, <1>8, <1>9, <3>1 DEF OpenVisitorsOnce
  <2> DEFINE w == WindowOf(rules, e)
             D == PastDatesOf(w)
             f == VisitorsAt(v)
             h == VisitorsAt(v)'
             before == WhosAt(w, v)
             after == WhosAt(w, v)'
  <2>1. SumFunctionOnSet(f, D) <= Cardinality(before)
    BY <1>5 DEF GeoCounts, OpenVisitorsOnce
  <2>2. IsFiniteSet(D) /\ D \subseteq Dates
    BY TodayIsNat, PastDatesAreFinite DEF PastDatesOf
  <2>3. IsFiniteSet(before) /\ Cardinality(before) \in Nat
    BY RecordsFiniteNow, WhosFiniteNow
  <2>4. \A d \in Dates : f[d] = totals[d][v].uv /\ h[d] = totals'[d][v].uv
    BY DEF VisitorsAt
  <2>5. \A d \in Dates : f[d] \in Nat /\ h[d] \in Nat
    BY <2>4, <1>13
  <2>6. after = IF w = window /\ v = place THEN before \cup {who} ELSE before
    <3>1. CASE w = window /\ v = place
      <4>1. row.window = w /\ row.place = v /\ row.who = who
        BY <3>1
      <4> HIDE DEF row
      <4> DEFINE A == {s \in pageviews : s.window = w /\ s.place = v}
                 B == {s \in pageviews' : s.window = w /\ s.place = v}
      <4>2. B = A \cup {row}
        BY <1>3, <4>1
      <4>3. before = {s.who : s \in A} /\ after = {s.who : s \in B}
        BY <1>9 DEF WhosAt
      <4> HIDE DEF A, B, before, after
      <4>4. {s.who : s \in A \cup {row}} = {s.who : s \in A} \cup {row.who}
        OBVIOUS
      <4> QED BY <3>1, <4>1, <4>2, <4>3, <4>4
    <3>2. CASE ~ (w = window /\ v = place)
      BY <1>3, <3>2 DEF WhosAt
    <3> QED BY <3>1, <3>2
  <2>7. w = window => date \in D
    BY <1>4, <1>11 DEF PastDatesOf
  <2>8. date \in D => w = window
    BY <1>11 DEF PastDatesOf
  <2> HIDE DEF D, f, h, after, before
  <2>9. Cardinality(before) <= Cardinality(after) /\ Cardinality(after) \in Nat
    <3>1. IsFiniteSet(before \cup {who})
          /\ Cardinality(before \cup {who}) \in {Cardinality(before), Cardinality(before) + 1}
      BY <2>3, FS_AddElement
    <3> QED BY <2>3, <2>6, <3>1
  <2>10. SumFunctionOnSet(f, D) \in Nat
    BY <2>2, <2>5, SumIsNat
  <2>11. CASE w = window /\ v = place /\ place \in fresh
    <3>1. who \notin before
      <4> SUFFICES ASSUME who \in before PROVE FALSE
        OBVIOUS
      <4>1. PICK p \in pageviews : p.window = w /\ p.place = v /\ p.who = who
        BY DEF before, WhosAt
      <4>2. Registered(window, place, who)
        BY <2>11, <4>1 DEF GeoCounts, RecordsRegistered
      <4> QED BY <4>2, <2>11, <1>10
    <3>2. Cardinality(after) = Cardinality(before) + 1
      BY <2>3, <2>6, <2>11, <3>1, FS_AddElement
    <3>3. date \in D /\ h[date] = f[date] + 1
      BY <1>4, <1>13, <2>4, <2>7, <2>11
    <3>4. \A d \in D : d # date => h[d] = f[d]
      BY <1>13, <2>2, <2>4
    <3>5. \A d \in D : f[d] \in Int /\ h[d] \in Int
      BY <2>2, <2>5
    <3>6. SumFunctionOnSet(h, D) = SumFunctionOnSet(f, D) - f[date] + h[date]
      BY <2>2, <3>3, <3>4, <3>5, SumUpdate
    <3>7. f[date] \in Int
      BY <3>3, <3>5
    <3> QED BY <2>1, <2>3, <2>10, <3>2, <3>3, <3>6, <3>7 DEF D, h, after
  <2>12. CASE ~ (w = window /\ v = place /\ place \in fresh)
    <3>1. \A d \in D : h[d] = f[d]
      BY <1>4, <1>13, <2>2, <2>4, <2>8, <2>12
    <3>2. SumFunctionOnSet(h, D) = SumFunctionOnSet(f, D)
      BY <2>2, <3>1, SumCongruence
    <3> QED BY <2>1, <2>3, <2>9, <2>10, <3>2 DEF D, h, after
  <2> QED BY <2>11, <2>12
<1> QED BY <1>15, <1>16, <1>17, <1>18, <1>19, <1>20, <1>21 DEF GeoCounts

-----------------------------------------------------------------------------
(* The transaction that commits a refresh *)

SameButPlace(x, p) ==
  /\ x.id = p.id /\ x.at = p.at /\ x.date = p.date /\ x.ip = p.ip
  /\ x.who = p.who /\ x.window = p.window

\* The rows a refresh writes: the records, at places a lookup answered.
Relocated(rows) ==
  /\ rows \subseteq Pageview
  /\ \A x \in rows : \E p \in pageviews : SameButPlace(x, p)
  /\ \A p \in pageviews : \E x \in rows : SameButPlace(x, p)
  /\ \A x, y \in rows : x.id = y.id => x = y

Rebuilds(rows) ==
  /\ pageviews' = rows
  /\ totals' = RebuildTotals(rows)
  /\ registrations' = registrations \cup RebuiltRegistrations(rows)
  /\ UNCHANGED <<clock, site, rules, nextId, request, cleaner, ledger>>

LEMMA CommitRelocates ==
  ASSUME IInv, RefreshType, IdsIdentify, RefreshCommit
  PROVE  \E rows : Relocated(rows) /\ Rebuilds(rows)
<1>1. refresh.step = "located" /\ \A ip \in DOMAIN refresh.found : refresh.found[ip] \in Places
  BY DEF RefreshType, RefreshCommit, Idle
<1>2. pageviews \subseteq Pageview
  BY DEF IInv, TypeOK
<1> DEFINE place(late, ip) == IF ip \in DOMAIN refresh.found THEN refresh.found[ip] ELSE late[ip]
           moved(late) == {[p EXCEPT !.place = place(late, p.ip)] : p \in pageviews}
<1>3. PICK late \in [AddressesOf(pageviews) \ DOMAIN refresh.found -> Places] :
        /\ pageviews' = {p \in pageviews : p \notin RowsToRefresh} \cup moved(late)
        /\ totals' = RebuildTotals(moved(late))
        /\ registrations' = registrations \cup RebuiltRegistrations(moved(late))
  BY DEF RefreshCommit, RowsToRefresh
<1>4. \A p \in pageviews : place(late, p.ip) \in Places
  BY <1>1 DEF AddressesOf
<1>5. \A p \in pageviews : LET x == [p EXCEPT !.place = place(late, p.ip)]
                            IN  x \in Pageview /\ SameButPlace(x, p)
  BY <1>2, <1>4 DEF Pageview, SameButPlace
<1>6. Relocated(moved(late))
  <2> HIDE DEF place
  <2>1. \A p, q \in pageviews : p.id = q.id => p = q
    BY DEF IdsIdentify
  <2>2. \A x, y \in moved(late) : x.id = y.id => x = y
    <3> SUFFICES ASSUME NEW p \in pageviews, NEW q \in pageviews,
                        [p EXCEPT !.place = place(late, p.ip)].id
                          = [q EXCEPT !.place = place(late, q.ip)].id
                 PROVE  p = q
      OBVIOUS
    <3> QED BY <1>5, <2>1 DEF SameButPlace
  <2> QED BY <1>5, <2>2 DEF Relocated
<1>7. Rebuilds(moved(late))
  <2>1. pageviews' = moved(late)
    BY <1>3 DEF RowsToRefresh
  <2> HIDE DEF moved
  <2> QED BY <1>3, <2>1 DEF Rebuilds, RefreshCommit
<1> QED BY <1>6, <1>7

\* What the rows of a refresh keep of the records.
LEMMA RelocatedRows ==
  ASSUME IInv, GeoCounts, NEW rows, Relocated(rows)
  PROVE  /\ IsFiniteSet(rows)
         /\ rules \subseteq Rule
         /\ \A x \in rows :
              /\ x \in Pageview /\ x.place \in Places
              /\ x.date \in Dates /\ x.date <= Today
              /\ rules # {} /\ x.window = WindowOf(rules, x.date) /\ x.window \in Window
              /\ [window |-> x.window, who |-> x.who] \in ledger.counted
              /\ x.id < nextId
<1>1. rows \subseteq Pageview /\ \A x, y \in rows : x.id = y.id => x = y
  BY DEF Relocated
<1>2. IsFiniteSet(rows)
  BY <1>1, RecordsAreFinite
<1> SUFFICES ASSUME NEW x \in rows
             PROVE  /\ x \in Pageview /\ x.place \in Places
                    /\ x.date \in Dates /\ x.date <= Today
                    /\ rules # {} /\ x.window = WindowOf(rules, x.date) /\ x.window \in Window
                    /\ [window |-> x.window, who |-> x.who] \in ledger.counted
                    /\ x.id < nextId
  BY <1>2 DEF IInv, TypeOK
<1>3. PICK p \in pageviews : SameButPlace(x, p)
  BY DEF Relocated
<1>4. p.date \in Dates /\ p.date <= Today
  BY RecordsArePast
<1>5. p.window = WindowOf(rules, p.date) /\ rules # {}
  BY DEF IInv, RecordsKeepTheirWindow, RulesPresent
<1>6. [window |-> p.window, who |-> p.who] \in ledger.counted /\ p.id < nextId
  BY DEF GeoCounts, RecordsCounted, IdsIdentify
<1>7. x \in Pageview
  BY <1>1
<1>8. x.place \in Places /\ x.window \in Window
  BY <1>7 DEF Pageview
<1> QED BY <1>3, <1>4, <1>5, <1>6, <1>7, <1>8 DEF SameButPlace

\* Among the rows of a visitor at a place in a window one is the first.
LEMMA FirstExists ==
  ASSUME NEW rows, rows \subseteq Pageview, NEW p \in rows
  PROVE  \E q \in rows :
           /\ q.place = p.place /\ q.who = p.who
           /\ WindowOf(rules, q.date).start = WindowOf(rules, p.date).start
           /\ FirstOfWindow(rows, q)
<1> DEFINE like == {q \in rows : /\ q.place = p.place /\ q.who = p.who
                                 /\ WindowOf(rules, q.date).start = WindowOf(rules, p.date).start}
           T == {q.id : q \in like}
<1>1. T \subseteq 0 .. MaxRecords /\ T # {}
  <2>1. \A q \in like : q.id \in 1 .. MaxRecords
    BY DEF Pageview
  <2>2. p \in like
    OBVIOUS
  <2>3. 1 .. MaxRecords \subseteq 0 .. MaxRecords
    BY BoundsAreNat
  <2> HIDE DEF like
  <2> QED BY <2>1, <2>2, <2>3
<1> HIDE DEF T
<1>2. PICK m \in T : \A i \in T : m <= i
  BY <1>1, BoundsAreNat, LeastOfInterval
<1>3. PICK q \in like : q.id = m
  BY DEF T
<1>4. FirstOfWindow(rows, q)
  <2> SUFFICES ASSUME NEW x \in rows, x.id < q.id, x.place = q.place, x.who = q.who,
                      WindowOf(rules, x.date).start = WindowOf(rules, q.date).start
               PROVE  FALSE
    BY DEF FirstOfWindow
  <2>1. x \in like
    BY <1>3
  <2>2. m <= x.id
    BY <1>2, <2>1 DEF T
  <2>3. x.id \in Nat /\ q.id \in Nat
    BY <1>3 DEF Pageview
  <2> QED BY <1>3, <2>2, <2>3
<1> QED BY <1>3, <1>4

RowsAt(rows, d, v) == {p \in rows : p.date = d /\ p.place = v}
FirstsAt(rows, d, v) == {p \in RowsAt(rows, d, v) : FirstOfWindow(rows, p)}

\* The counts a refresh writes: of the rows of a date, if it has any, else the old ones.
LEMMA RebuiltCounts ==
  ASSUME IInv, GeoCounts, NEW rows, Relocated(rows), NEW d \in Dates
  PROVE  /\ RebuildTotals(rows)[d][Overall] = totals[d][Overall]
         /\ \A v \in Places :
              /\ Cardinality(RowsAt(rows, d, v)) \in Nat
              /\ Cardinality(FirstsAt(rows, d, v)) \in Nat
              /\ Cardinality(FirstsAt(rows, d, v)) <= Cardinality(RowsAt(rows, d, v))
              /\ \/ /\ RebuildTotals(rows)[d][v] = [pv |-> Cardinality(RowsAt(rows, d, v)),
                                                   uv |-> Cardinality(FirstsAt(rows, d, v))]
                    /\ \E p \in pageviews : p.date = d
                 \/ /\ RebuildTotals(rows)[d][v] = totals[d][v]
                    /\ RowsAt(rows, d, v) = {}
                    /\ ~ \E p \in pageviews : p.date = d
<1>1. Overall \in Dims /\ Overall \notin Places /\ Places \subseteq Dims
  BY PlacesAreFinite DEF Dims
<1> DEFINE covered == {p.date : p \in pageviews}
<1>2. \A v \in Dims : RebuildTotals(rows)[d][v] =
        IF d \in covered /\ v \in Places
        THEN [pv |-> Cardinality(RowsAt(rows, d, v)), uv |-> Cardinality(FirstsAt(rows, d, v))]
        ELSE totals[d][v]
  BY DEF RebuildTotals, RowsAt, FirstsAt
<1>3. d \notin covered => \A v : RowsAt(rows, d, v) = {}
  BY DEF Relocated, SameButPlace, RowsAt
<1>4. \A v : /\ Cardinality(RowsAt(rows, d, v)) \in Nat
             /\ Cardinality(FirstsAt(rows, d, v)) \in Nat
             /\ Cardinality(FirstsAt(rows, d, v)) <= Cardinality(RowsAt(rows, d, v))
  <2> TAKE v
  <2>1. IsFiniteSet(rows)
    BY RelocatedRows
  <2>2. IsFiniteSet(RowsAt(rows, d, v))
    BY <2>1, FS_Subset DEF RowsAt
  <2>3. IsFiniteSet(FirstsAt(rows, d, v))
        /\ Cardinality(FirstsAt(rows, d, v)) <= Cardinality(RowsAt(rows, d, v))
    BY <2>2, FS_Subset DEF FirstsAt
  <2> QED BY <2>2, <2>3, FS_CardinalityType
<1>5. RebuildTotals(rows)[d][Overall] = totals[d][Overall]
  BY <1>1, <1>2
<1> QED BY <1>1, <1>2, <1>3, <1>4, <1>5

\* The transaction leaves the store in a state the other transactions can leave it in.
LEMMA CommitKeepsStore ==
  ASSUME IInv, GeoCounts, NEW rows, Relocated(rows), Rebuilds(rows)
  PROVE  IInv'
<1>1. /\ pageviews' = rows
      /\ totals' = RebuildTotals(rows)
      /\ registrations' = registrations \cup RebuiltRegistrations(rows)
      /\ UNCHANGED <<clock, site, rules, nextId, request, cleaner, ledger>>
  BY DEF Rebuilds
<1>2. \A d : WindowOf(rules, d)' = WindowOf(rules, d)
  BY <1>1 DEF WindowOf, ActiveRule
<1>3. Today' = Today
  BY <1>1 DEF Today
<1>4. \A g \in RebuiltRegistrations(rows) :
        g \in Registration /\ [window |-> g.window, who |-> g.who] \in ledger.counted
  <2> SUFFICES ASSUME NEW p \in rows,
                      NEW g, g = [window |-> WindowOf(rules, p.date), dim |-> p.place, who |-> p.who]
               PROVE  g \in Registration /\ [window |-> g.window, who |-> g.who] \in ledger.counted
    BY DEF RebuiltRegistrations
  <2>1. /\ p \in Pageview /\ p.window = WindowOf(rules, p.date) /\ p.window \in Window
        /\ p.place \in Places
        /\ [window |-> p.window, who |-> p.who] \in ledger.counted
    BY RelocatedRows
  <2>2. p.who \in Digest /\ p.place \in Dims
    BY <2>1 DEF Pageview, Dims
  <2> QED BY <2>1, <2>2 DEF Registration
<1>5. TypeOK'
  <2>1. registrations' \subseteq Registration
    BY <1>1, <1>4 DEF IInv, TypeOK
  <2>2. pageviews' \subseteq Pageview
    BY <1>1 DEF Relocated
  <2>3. totals' \in [Dates -> [Dims -> [pv : Nat, uv : Nat]]]
    <3>1. \A d \in Dates : \A v \in Dims : RebuildTotals(rows)[d][v] \in [pv : Nat, uv : Nat]
      <4> SUFFICES ASSUME NEW d \in Dates, NEW v \in Dims
                   PROVE  RebuildTotals(rows)[d][v] \in [pv : Nat, uv : Nat]
        OBVIOUS
      <4>1. totals[d][v] \in [pv : Nat, uv : Nat]
        BY DEF IInv, TypeOK
      <4>2. CASE v = Overall
        BY <4>1, <4>2, RebuiltCounts
      <4>3. CASE v \in Places
        <5> DEFINE a == Cardinality(RowsAt(rows, d, v))
                   b == Cardinality(FirstsAt(rows, d, v))
        <5>1. /\ a \in Nat /\ b \in Nat
              /\ \/ RebuildTotals(rows)[d][v] = [pv |-> a, uv |-> b]
                 \/ RebuildTotals(rows)[d][v] = totals[d][v]
          BY <4>3, RebuiltCounts
        <5> HIDE DEF a, b
        <5>2. [pv |-> a, uv |-> b] \in [pv : Nat, uv : Nat]
          BY <5>1
        <5> QED BY <4>1, <5>1, <5>2
      <4> QED BY <4>2, <4>3 DEF Dims
    <3>2. /\ DOMAIN RebuildTotals(rows) = Dates
          /\ RebuildTotals(rows) = [d \in Dates |-> RebuildTotals(rows)[d]]
          /\ \A d \in Dates : RebuildTotals(rows)[d] = [v \in Dims |-> RebuildTotals(rows)[d][v]]
      BY DEF RebuildTotals
    <3> QED BY <1>1, <3>1, <3>2
  <2> QED BY <1>1, <2>1, <2>2, <2>3 DEF IInv, TypeOK
<1>6. (RulesDistinct /\ RulesCover)'
  BY <1>1 DEF IInv, RulesDistinct, RulesCover
<1>7. RulesPresent'
  BY <1>1, RelocatedRows DEF IInv, RulesPresent
<1>8. NothingFromTheFuture' /\ OneTimezone'
  BY <1>1 DEF IInv, NothingFromTheFuture, OneTimezone, Relocated, SameButPlace
<1>9. UnlockedIsEmpty'
  BY <1>1 DEF IInv, UnlockedIsEmpty, Relocated
<1>10. RecordsKeepTheirWindow'
  BY <1>1, <1>2, RelocatedRows DEF RecordsKeepTheirWindow
<1>11. CountedByRules'
  BY <1>1, <1>2, <1>3 DEF IInv, CountedByRules
<1>12. (RegistrationsCounted /\ OpenWindowsRemembered)'
  BY <1>1, <1>4 DEF IInv, RegistrationsCounted, OpenWindowsRemembered
<1> QED BY <1>5, <1>6, <1>7, <1>8, <1>9, <1>10, <1>11, <1>12 DEF IInv

\* The rebuilt totals, records and registrations agree with each other.
LEMMA GeoCommit ==
  ASSUME IInv, GeoCounts, NEW rows, Relocated(rows), Rebuilds(rows)
  PROVE  GeoCounts'
<1>1. /\ pageviews' = rows
      /\ totals' = RebuildTotals(rows)
      /\ registrations' = registrations \cup RebuiltRegistrations(rows)
      /\ UNCHANGED <<clock, site, rules, nextId, request, cleaner, ledger>>
  BY DEF Rebuilds
<1>2. \A d : WindowOf(rules, d)' = WindowOf(rules, d)
  BY <1>1 DEF WindowOf, ActiveRule
<1>3. Today' = Today
  BY <1>1 DEF Today
<1>4. \A w : OpenWindow(w)' <=> OpenWindow(w)
  BY <1>1, <1>3 DEF OpenWindow
<1>5. \A d \in Dates : \A v \in Places : totals[d][v].pv \in Nat /\ totals[d][v].uv \in Nat
  BY DEF IInv, TypeOK, Dims
<1>6. (IdsIdentify /\ RecordsCounted)'
  BY <1>1, RelocatedRows DEF IdsIdentify, RecordsCounted, Relocated
<1>7. PlacesPlausible'
  <2> SUFFICES ASSUME NEW d \in Dates, NEW v \in Places
               PROVE  /\ totals'[d][v].uv <= totals'[d][v].pv
                      /\ d > Today => totals'[d][v].pv = 0
    BY <1>3 DEF PlacesPlausible
  <2>1. CASE /\ totals'[d][v] = [pv |-> Cardinality(RowsAt(rows, d, v)),
                                uv |-> Cardinality(FirstsAt(rows, d, v))]
             /\ \E p \in pageviews : p.date = d
    <3>1. d <= Today /\ ~ (d > Today)
      BY <2>1, RecordsArePast, TodayIsNat, DatesAreNat
    <3>2. Cardinality(FirstsAt(rows, d, v)) <= Cardinality(RowsAt(rows, d, v))
      BY RebuiltCounts
    <3> QED BY <2>1, <3>1, <3>2
  <2>2. CASE totals'[d][v] = totals[d][v]
    BY <2>2 DEF GeoCounts, PlacesPlausible
  <2> QED BY <1>1, <2>1, <2>2, RebuiltCounts
<1>8. UnlockedUncounted'
  <2> SUFFICES ASSUME site.exists, ~ site.first PROVE totals' = NoCounts
    BY <1>1 DEF UnlockedUncounted
  <2>1. pageviews = {} /\ totals = NoCounts
    BY DEF IInv, UnlockedIsEmpty, GeoCounts, UnlockedUncounted
  <2>2. \A d \in Dates : \A v \in Dims : RebuildTotals(rows)[d][v] = totals[d][v]
    BY <2>1 DEF RebuildTotals
  <2>3. RebuildTotals(rows) = [d \in Dates |-> [v \in Dims |-> RebuildTotals(rows)[d][v]]]
    BY DEF RebuildTotals
  <2> QED BY <1>1, <2>1, <2>2, <2>3 DEF NoCounts
<1>9. GeographyMatchesRecords'
  <2> SUFFICES ASSUME NEW d \in Dates, d \notin ledger.expired, NEW v \in Places
               PROVE  totals'[d][v].pv = Cardinality(RowsAt(rows, d, v))
    BY <1>1 DEF GeographyMatchesRecords, RowsAt
  <2>1. CASE totals'[d][v] = [pv |-> Cardinality(RowsAt(rows, d, v)),
                              uv |-> Cardinality(FirstsAt(rows, d, v))]
    BY <2>1
  <2>2. CASE /\ totals'[d][v] = totals[d][v] /\ RowsAt(rows, d, v) = {}
             /\ ~ \E p \in pageviews : p.date = d
    <3>1. {p \in pageviews : p.date = d /\ p.place = v} = {}
      BY <2>2
    <3> QED BY <2>2, <3>1 DEF GeoCounts, GeographyMatchesRecords
  <2> QED BY <1>1, <2>1, <2>2, RebuiltCounts
<1>10. RecordsRegistered'
  <2> SUFFICES ASSUME NEW p \in rows, OpenWindow(p.window)
               PROVE  Registered(p.window, p.place, p.who)'
    BY <1>1, <1>4 DEF RecordsRegistered
  <2>1. PICK q \in rows :
          /\ q.place = p.place /\ q.who = p.who
          /\ WindowOf(rules, q.date).start = WindowOf(rules, p.date).start
          /\ FirstOfWindow(rows, q)
    BY FirstExists DEF Relocated
  <2>2. /\ p.date \in Dates /\ q.date \in Dates /\ rules # {} /\ rules \subseteq Rule
        /\ p.window = WindowOf(rules, p.date) /\ q.window = WindowOf(rules, q.date)
    BY RelocatedRows
  <2>3. q.window = p.window
    BY <2>1, <2>2, StartIdentifiesWindow DEF IInv
  <2>4. CASE Registered(p.window, p.place, p.who)
    BY <1>1, <2>4 DEF Registered
  <2>5. CASE ~ Registered(p.window, p.place, p.who)
    <3> DEFINE g == [window |-> WindowOf(rules, q.date), dim |-> q.place, who |-> q.who]
    <3>1. WindowOf(rules, q.date).end > Today
      BY <2>2, <2>3 DEF OpenWindow
    <3>2. g \in RebuiltRegistrations(rows)
      BY <2>1, <2>2, <2>3, <2>5, <3>1 DEF RebuiltRegistrations
    <3>3. g.window.start = p.window.start /\ g.dim = p.place /\ g.who = p.who
      BY <2>1, <2>2, <2>3
    <3> HIDE DEF g
    <3> QED BY <1>1, <3>2, <3>3 DEF Registered
  <2> QED BY <2>4, <2>5
<1>11. OpenVisitorsOnce'
  <2> SUFFICES ASSUME NEW e \in Dates, NEW v \in Places, e <= Today, rules # {},
                      OpenWindow(WindowOf(rules, e)),
                      PastDatesOf(WindowOf(rules, e)) \cap ledger.expired = {}
               PROVE  SumFunctionOnSet(VisitorsAt(v)', PastDatesOf(WindowOf(rules, e)))
                         <= Cardinality(WhosAt(WindowOf(rules, e), v)')
    <3>1. \A w : PastDatesOf(w)' = PastDatesOf(w)
      BY <1>2, <1>3 DEF PastDatesOf
    <3> QED BY <1>1, <1>2, <1>3, <1>4, <3>1 DEF OpenVisitorsOnce
  <2> DEFINE w == WindowOf(rules, e)
             D == PastDatesOf(w)
             h == VisitorsAt(v)'
             whos == {x.who : x \in {r \in rows : r.window = w /\ r.place = v}}
             part == [d \in D |-> FirstsAt(rows, d, v)]
             F == UNION {part[d] : d \in D}
  <2>1. IsFiniteSet(D) /\ D \subseteq Dates
    BY TodayIsNat, PastDatesAreFinite DEF PastDatesOf
  <2>2. WhosAt(w, v)' = whos
    BY <1>1, <1>2 DEF WhosAt
  <2>3. IsFiniteSet(rows)
    BY RelocatedRows
  <2>4. IsFiniteSet(whos)
    <3>1. IsFiniteSet({r \in rows : r.window = w /\ r.place = v})
      BY <2>3, FS_Subset
    <3> QED BY <3>1, WhosAreFinite
  <2>5. \A d \in D : h[d] = Cardinality(FirstsAt(rows, d, v))
    <3> SUFFICES ASSUME NEW d \in D PROVE totals'[d][v].uv = Cardinality(FirstsAt(rows, d, v))
      BY <2>1 DEF VisitorsAt
    <3>1. d \in Dates /\ d \notin ledger.expired
      BY <2>1
    <3>2. CASE totals'[d][v] = [pv |-> Cardinality(RowsAt(rows, d, v)),
                                uv |-> Cardinality(FirstsAt(rows, d, v))]
      BY <3>2
    <3>3. CASE /\ totals'[d][v] = totals[d][v] /\ RowsAt(rows, d, v) = {}
               /\ ~ \E p \in pageviews : p.date = d
      <4>1. {p \in pageviews : p.date = d /\ p.place = v} = {}
        BY <3>3
      <4>2. totals[d][v].pv = 0
        BY <3>1, <4>1, FS_EmptySet DEF GeoCounts, GeographyMatchesRecords
      <4>3. totals[d][v].uv <= 0 /\ totals[d][v].uv \in Nat
        BY <1>5, <3>1, <4>2 DEF GeoCounts, PlacesPlausible
      <4>4. totals'[d][v].uv = 0
        BY <3>3, <4>3
      <4>5. FirstsAt(rows, d, v) = {}
        BY <3>3 DEF FirstsAt
      <4> QED BY <4>4, <4>5, FS_EmptySet
    <3> QED BY <1>1, <3>1, <3>2, <3>3, RebuiltCounts
  <2>6. \A x, y \in D : x # y => part[x] \cap part[y] = {}
    BY DEF FirstsAt, RowsAt
  <2>7. \A x \in D : part[x] \in SUBSET rows /\ h[x] = Cardinality(part[x])
    BY <2>5 DEF FirstsAt, RowsAt
  <2>8. SumFunctionOnSet(h, D) = Cardinality(F)
    <3> HIDE DEF h, D, part
    <3> QED BY <2>1, <2>3, <2>6, <2>7, SumOfParts
  <2>9. \A p \in F : /\ p \in rows /\ p.place = v /\ FirstOfWindow(rows, p)
                     /\ WindowOf(rules, p.date) = w /\ p.window = w
    <3>1. \A p \in F : p \in rows /\ p.place = v /\ FirstOfWindow(rows, p) /\ p.date \in D
      BY DEF FirstsAt, RowsAt
    <3>2. \A d \in D : WindowOf(rules, d) = w
      BY DEF PastDatesOf
    <3> HIDE DEF F, D, w
    <3> QED BY <3>1, <3>2, RelocatedRows
  <2> HIDE DEF F, w
  <2>10. \A p, q \in F : p.who = q.who => p = q
    <3> SUFFICES ASSUME NEW p \in F, NEW q \in F, p.who = q.who PROVE p = q
      OBVIOUS
    <3>1. ~ (p.id < q.id) /\ ~ (q.id < p.id)
      BY <2>9 DEF FirstOfWindow
    <3>2. p.id \in Nat /\ q.id \in Nat
      BY <2>9 DEF Relocated, Pageview
    <3>3. p.id = q.id
      BY <3>1, <3>2
    <3> QED BY <2>9, <3>3 DEF Relocated
  <2>11. Cardinality(F) <= Cardinality(whos)
    <3> DEFINE m == [p \in F |-> p.who]
    <3>1. m \in Injection(F, whos)
      BY <2>9, <2>10 DEF Injection, IsInjective
    <3> HIDE DEF m, whos
    <3> QED BY <2>4, <3>1, FS_Injection
  <2> QED BY <2>2, <2>8, <2>11 DEF w
<1> QED BY <1>6, <1>7, <1>8, <1>9, <1>10, <1>11 DEF GeoCounts

-----------------------------------------------------------------------------
(* Theorems of GeoRefresh *)

LEMMA GeoStoreStep ==
  ASSUME IInv, GeoCounts, SiteStep \/ Restart \/ UNCHANGED vars
  PROVE  IInv' /\ GeoCounts'
<1>1. IInv'
  BY Invariance DEF Next
<1>2. ledger \in [accepted : [Dates -> Nat], counted : SUBSET [window : Window, who : Digest],
                 settled : Nat, expired : SUBSET Dates, spared : BOOLEAN, quiet : BOOLEAN]
  BY DEF IInv, TypeOK
<1>3. ASSUME UNCHANGED <<clock, database, ledger>> PROVE GeoCounts'
  <2>1. UNCHANGED <<clock, site, rules, pageviews, nextId, registrations, totals, ledger>>
    BY <1>3 DEF database
  <2>2. UnlockedUncounted'
    BY <2>1 DEF GeoCounts, UnlockedUncounted
  <2> QED BY <2>1, <2>2, CountsUntouched
<1>4. ASSUME NEW q \in Requests, AdmitPageview(q) \/ StampPageview(q) \/ DropPageview(q)
      PROVE  GeoCounts'
  BY <1>3, <1>4 DEF AdmitPageview, StampPageview, DropPageview
<1>5. ASSUME NEW q \in Requests, RecordPageview(q) PROVE GeoCounts'
  BY <1>5, GeoRecord
<1>6. ASSUME NEW c \in Cleaners, StartCleanup(c) \/ ListSites(c) \/ StopCleanup(c)
      PROVE  GeoCounts'
  BY <1>3, <1>6 DEF StartCleanup, ListSites, StopCleanup
<1>7. ASSUME NEW c \in Cleaners, CleanSite(c) PROVE GeoCounts'
  BY <1>7, GeoClean
<1>8. ASSUME NEW tz \in Timezones, NEW w \in WindowChoices, NEW p \in Policies,
             NEW a \in BOOLEAN, UpdateSite(tz, w, p, a)
      PROVE  GeoCounts'
  BY <1>8, GeoUpdate
<1>9. CASE ResetSiteData \/ DeleteSite
  BY <1>1, <1>9, GeoClear
<1>10. CASE Tick
  BY <1>1, <1>10, GeoTick
<1>11. CASE Restart \/ UNCHANGED vars
  BY <1>1, <1>3, <1>11 DEF Restart, vars
<1> QED BY <1>1, <1>4, <1>5, <1>6, <1>7, <1>8, <1>9, <1>10, <1>11 DEF SiteStep

LEMMA RefreshTypeStep == RefreshType /\ [GeoNext]_geoVars => RefreshType'
<1> SUFFICES ASSUME RefreshType, [GeoNext]_geoVars PROVE RefreshType'
  OBVIOUS
<1>1. CASE refresh' = refresh
  BY <1>1 DEF RefreshType
<1>2. CASE refresh' = idle
  BY <1>2 DEF RefreshType, Idle, idle
<1>3. CASE RefreshLocate
  BY <1>3 DEF RefreshLocate, RefreshType
<1> QED BY <1>1, <1>2, <1>3 DEF GeoNext, RefreshCommit, RefreshFail, geoVars

LEMMA GeoInvariance == GeoIInv /\ [GeoNext]_geoVars => GeoIInv'
<1> SUFFICES ASSUME GeoIInv, [GeoNext]_geoVars PROVE GeoIInv'
  OBVIOUS
<1>1. IInv /\ RefreshType /\ GeoCounts
  BY DEF GeoIInv
<1>2. RefreshType'
  BY <1>1, RefreshTypeStep
<1>3. CASE SiteStep \/ Restart \/ UNCHANGED vars
  BY <1>1, <1>2, <1>3, GeoStoreStep DEF GeoIInv
<1>4. CASE RefreshCommit
  <2>1. PICK rows : Relocated(rows) /\ Rebuilds(rows)
    BY <1>1, <1>4, CommitRelocates DEF GeoCounts
  <2> QED BY <1>1, <1>2, <2>1, CommitKeepsStore, GeoCommit DEF GeoIInv
<1> QED BY <1>3, <1>4 DEF GeoNext, RefreshLocate, RefreshFail, geoVars

LEMMA GeoInductive == GeoSpec => []GeoIInv
BY GeoInitially, GeoInvariance, PTL DEF GeoSpec

\* The refresh rewrites records, registrations and totals, and still: the store is well
\* formed, every record stays in its window and timezone, and a visitor counted in a
\* window that is not settled stays registered (RefreshRecordGeoIP beside every other
\* transaction).
THEOREM RefreshKeepsStore ==
  GeoSpec => [](TypeOK /\ RecordsKeepTheirWindow /\ OneTimezone /\ OpenWindowsRemembered)
<1>1. GeoIInv => TypeOK /\ RecordsKeepTheirWindow /\ OneTimezone /\ OpenWindowsRemembered
  BY DEF GeoIInv, IInv
<1> QED BY <1>1, GeoInductive, PTL

\* On a date that has lost no record the geographic totals are those of the records,
\* however many refreshes, requests and cleanups are interleaved.
THEOREM GeographyFollowsRecords == GeoSpec => []GeographyMatchesRecords
<1>1. GeoIInv => GeographyMatchesRecords
  BY DEF GeoIInv, GeoCounts
<1> QED BY <1>1, GeoInductive, PTL

\* After a refresh moved a record ingestion finds its visitor registered at the new
\* place, as long as the window is open.
THEOREM MovedRecordsStayRegistered == GeoSpec => []RecordsRegistered
<1>1. GeoIInv => RecordsRegistered
  BY DEF GeoIInv, GeoCounts
<1> QED BY <1>1, GeoInductive, PTL

\* No visitor is counted twice at a place in an open window that has all its records:
\* the dates of the window that have come satisfy it by the invariant, the others
\* have counted nobody.
LEMMA WindowsCountOnce == GeoIInv => GeoVisitorsCountedOnce
<1> SUFFICES ASSUME GeoIInv, NEW p \in pageviews, OpenWindow(p.window),
                    {d \in Dates : WindowOf(rules, d) = p.window} \cap ledger.expired = {}
             PROVE  Sum({d \in Dates : WindowOf(rules, d) = p.window},
                        LAMBDA d : totals[d][p.place].uv)
                      <= Cardinality({q.who : q \in {r \in pageviews :
                                         r.window = p.window /\ r.place = p.place}})
  BY DEF GeoVisitorsCountedOnce
<1> DEFINE w == p.window
           v == p.place
           dates == {d \in Dates : WindowOf(rules, d) = w}
           past == PastDatesOf(w)
           f == [d \in dates |-> totals[d][v].uv]
<1>1. IInv /\ GeoCounts
  BY DEF GeoIInv
<1>2. /\ p.date \in Dates /\ p.date <= Today /\ w = WindowOf(rules, p.date)
      /\ rules # {} /\ rules \subseteq Rule /\ v \in Places /\ w \in Window
  BY <1>1, RecordsArePast
     DEF IInv, TypeOK, Pageview, RecordsKeepTheirWindow, RulesPresent
<1>3. IsFiniteSet(dates)
  <2>1. w.end \in Int /\ \A d \in dates : d \in Nat /\ d < w.end
    BY <1>1, <1>2, WindowOfDate, DatesAreNat DEF IInv, Window
  <2>2. w.end \in Nat
    BY <1>2, <2>1
  <2>3. dates \in SUBSET Nat /\ \A d \in dates : d <= w.end
    BY <2>1
  <2> HIDE DEF dates
  <2> QED BY <2>2, <2>3, FS_BoundedSetOfNaturals
<1>4. past \in SUBSET dates /\ IsFiniteSet(past)
  BY <1>3, FS_Subset DEF PastDatesOf
<1>5. \A d \in dates : f[d] \in Int
  BY <1>1, <1>2 DEF IInv, TypeOK, Dims
<1>6. \A d \in dates \ past : f[d] = 0
  <2> SUFFICES ASSUME NEW d \in dates \ past PROVE totals[d][v].uv = 0
    OBVIOUS
  <2>1. d \in Dates /\ ~ (d <= Today)
    BY DEF PastDatesOf
  <2>2. d > Today
    BY <1>1, <2>1, TodayIsNat, DatesAreNat
  <2>3. totals[d][v].uv <= 0 /\ totals[d][v].uv \in Nat
    BY <1>1, <1>2, <2>1, <2>2 DEF GeoCounts, PlacesPlausible, IInv, TypeOK, Dims
  <2> QED BY <2>3
<1>7. SumFunctionOnSet(VisitorsAt(v), past) <= Cardinality(WhosAt(w, v))
  BY <1>1, <1>2, <1>4 DEF GeoCounts, OpenVisitorsOnce
<1>8. \A d \in past : f[d] = VisitorsAt(v)[d]
  BY <1>4 DEF VisitorsAt, PastDatesOf
<1>9. Sum(dates, LAMBDA d : totals[d][v].uv) = SumFunctionOnSet(f, dates)
  BY DEF Sum
<1> HIDE DEF f, past, dates
<1>10. SumFunctionOnSet(f, dates) = SumFunctionOnSet(f, past)
  BY <1>3, <1>4, <1>5, <1>6, SumOfSupport
<1>11. SumFunctionOnSet(f, past) = SumFunctionOnSet(VisitorsAt(v), past)
  BY <1>4, <1>8, SumCongruence
<1> QED BY <1>7, <1>9, <1>10, <1>11 DEF WhosAt, dates

\* Ingestion and refresh share one registration scheme: while a window is open and its
\* records are all there, no visitor is counted twice at a place of it.
THEOREM VisitorsCountedOnceAtPlaces == GeoSpec => []GeoVisitorsCountedOnce
BY WindowsCountOnce, GeoInductive, PTL

\* A refresh is invisible to the overall statistics.
LEMMA GeoLedgerStep == GeoIInv /\ [GeoNext]_geoVars => [Ledger!LedgerNext]_(Ledger!ledgerVars)
<1> SUFFICES ASSUME GeoIInv, [GeoNext]_geoVars PROVE [Ledger!LedgerNext]_(Ledger!ledgerVars)
  OBVIOUS
<1>1. IInv /\ RefreshType /\ GeoCounts
  BY DEF GeoIInv
<1>2. CASE SiteStep \/ Restart \/ UNCHANGED vars
  BY <1>1, <1>2, LedgerStep DEF Next
<1>3. CASE RefreshCommit
  <2>1. PICK rows : Relocated(rows) /\ Rebuilds(rows)
    BY <1>1, <1>3, CommitRelocates DEF GeoCounts
  <2>2. \A d \in Dates : totals'[d][Overall] = totals[d][Overall]
    BY <1>1, <2>1, RebuiltCounts DEF Rebuilds
  <2>3. ledger' = ledger
    BY <2>1 DEF Rebuilds
  <2> QED BY <2>2, <2>3 DEF Ledger!ledgerVars
<1> QED BY <1>2, <1>3 DEF GeoNext, RefreshLocate, RefreshFail, geoVars

\* With refreshes too, the overall statistics are those of the ledger: a refresh moves
\* no Pageview and no Unique Visitor of them.
THEOREM RefreshImplementsLedger == GeoSpec => RefinesLedger
<1>1. GeoSpec => [][Ledger!LedgerNext]_(Ledger!ledgerVars)
  BY GeoInductive, GeoLedgerStep, PTL DEF GeoSpec
<1>2. GeoInit => Ledger!Empty
  BY LedgerInitially DEF GeoInit
<1> QED BY <1>1, <1>2, PTL DEF GeoSpec, RefinesLedger, Ledger!LedgerSpec

-----------------------------------------------------------------------------
(* What OpenWindow leaves out *)

\* All timezones on offer have the same dates: nothing for a Site to change.
SameDates == \A y, z \in Timezones : LocalDate[y] = LocalDate[z]

\* No cleanup works for a date that has not come.
CleanupsArePast ==
  /\ \A c \in Cleaners : cleaner[c].step # "idle" => cleaner[c].now <= clock
  /\ ledger.settled <= Today

LEMMA CleanupsInitially == Init /\ IInv => CleanupsArePast
<1> SUFFICES ASSUME Init, IInv PROVE CleanupsArePast
  OBVIOUS
<1>1. ledger.settled = 0 /\ \A c \in Cleaners : cleaner[c].step = "idle"
  BY DEF Init, NewLedger, idle
<1> QED BY <1>1, TodayIsNat DEF CleanupsArePast

LEMMA CleanupsStep ==
  ASSUME SameDates, IInv, IInv', CleanupsArePast, [Next]_vars
  PROVE  CleanupsArePast'
<1>1. /\ clock \in Instants /\ clock \in Nat
      /\ cleaner \in [Cleaners -> Idle \cup Started \cup Listed]
      /\ site \in [exists : BOOLEAN, tz : Timezones, window : WindowChoices,
               retention : Policies, accepting : BOOLEAN, first : BOOLEAN, key : 0 .. MaxResets]
      /\ ledger \in [accepted : [Dates -> Nat], counted : SUBSET [window : Window, who : Digest],
                 settled : Nat, expired : SUBSET Dates, spared : BOOLEAN, quiet : BOOLEAN]
  BY BoundsAreNat DEF IInv, TypeOK, Instants
<1>2. clock' \in Instants /\ site'.tz \in Timezones /\ Today' \in Nat /\ Today \in Nat
  BY LocalDateType, TodayIsNat DEF IInv, TypeOK, Today
<1>3. ASSUME UNCHANGED <<clock, cleaner>>, ledger'.settled \in {ledger.settled, 0}
      PROVE  CleanupsArePast'
  <2>1. Today' = Today
    BY <1>1, <1>2, <1>3 DEF SameDates, Today
  <2> QED BY <1>2, <1>3, <2>1 DEF CleanupsArePast
<1>4. CASE Tick
  <2>1. clock' = clock + 1 /\ UNCHANGED <<site, cleaner, ledger>>
    BY <1>4 DEF Tick, database
  <2>2. \A c \in Cleaners : cleaner[c].step # "idle" => cleaner[c].now \in Nat
    BY <1>1, BoundsAreNat DEF Idle, Started, Listed, Instants
  <2>3. Today <= Today'
    BY <1>1, <1>2, <2>1, LocalDateAssumption DEF Today
  <2>4. \A c \in Cleaners : cleaner'[c].step # "idle" => cleaner'[c].now <= clock'
    BY <1>1, <2>1, <2>2 DEF CleanupsArePast
  <2>5. ledger'.settled <= Today'
    BY <1>1, <1>2, <2>1, <2>3 DEF CleanupsArePast
  <2> QED BY <2>4, <2>5 DEF CleanupsArePast
<1>5. ASSUME UNCHANGED <<clock, site, ledger>>, NEW c \in Cleaners, NEW x,
             cleaner' = [cleaner EXCEPT ![c] = x], x.step # "idle" => x.now <= clock
      PROVE  CleanupsArePast'
  BY <1>1, <1>5 DEF CleanupsArePast, Today
<1>6. ASSUME NEW c \in Cleaners, StartCleanup(c) \/ ListSites(c) \/ StopCleanup(c)
      PROVE  CleanupsArePast'
  <2>1. UNCHANGED <<clock, site, ledger>>
    BY <1>6 DEF StartCleanup, ListSites, StopCleanup, database
  <2>2. CASE StartCleanup(c)
    <3> DEFINE x == [step |-> "started", now |-> clock]
    <3>1. cleaner' = [cleaner EXCEPT ![c] = x]
      BY <2>2 DEF StartCleanup
    <3>2. x.now <= clock
      BY <1>1
    <3> HIDE DEF x
    <3> QED BY <1>5, <2>1, <3>1, <3>2
  <2>3. CASE ListSites(c)
    <3>1. cleaner[c].step # "idle"
      BY <2>3 DEF ListSites
    <3>2. cleaner[c].now <= clock
      BY <3>1 DEF CleanupsArePast
    <3>3. CASE site.exists
      BY <1>5, <2>1, <2>3, <3>2, <3>3 DEF ListSites
    <3>4. CASE ~ site.exists
      BY <1>5, <2>1, <2>3, <3>4 DEF ListSites, idle
    <3> QED BY <3>3, <3>4
  <2>4. CASE StopCleanup(c)
    BY <1>5, <2>1, <2>4 DEF StopCleanup, idle
  <2> QED BY <1>6, <2>2, <2>3, <2>4
<1>7. ASSUME NEW c \in Cleaners, CleanSite(c) PROVE CleanupsArePast'
  <2> DEFINE run == cleaner[c]
             date == LocalDate[run.tz][run.now]
  <2>1. PICK old, done, more :
          /\ cleaner' = [cleaner EXCEPT ![c] =
               IF more THEN [step |-> "started", now |-> run.now] ELSE idle]
          /\ ledger' = [ledger EXCEPT
               !.settled = IF @ < date THEN date ELSE @,
               !.expired = @ \cup {p.date : p \in old},
               !.spared = @ /\ (site.exists /\ site.retention.unlimited => old = {})]
    BY <1>7 DEF CleanSite
  <2>2. UNCHANGED <<clock, site>> /\ run \in Listed /\ run.now <= clock
    BY <1>1, <1>7 DEF CleanSite, Idle, Started, Listed, CleanupsArePast
  <2>3. date <= Today /\ date \in Nat
    <3>1. run.now \in Instants /\ run.tz \in Timezones /\ site.tz \in Timezones
      BY <1>1, <2>2 DEF Listed
    <3>2. LocalDate[run.tz][run.now] <= LocalDate[run.tz][clock]
      BY <1>1, <2>2, <3>1, LocalDateAssumption
    <3>3. LocalDate[run.tz][clock] = Today
      BY <3>1 DEF SameDates, Today
    <3> QED BY <3>1, <3>2, <3>3, LocalDateType
  <2>4. Today' = Today
    BY <2>2 DEF Today
  <2> HIDE DEF date, run
  <2>5. ledger'.settled = IF ledger.settled < date THEN date ELSE ledger.settled
    BY <1>1, <2>1
  <2>6. ledger'.settled <= Today'
    BY <2>3, <2>4, <2>5 DEF CleanupsArePast
  <2>7. \A b \in Cleaners : cleaner'[b].step # "idle" => cleaner'[b].now <= clock'
    BY <1>1, <2>1, <2>2 DEF CleanupsArePast, idle
  <2> QED BY <2>6, <2>7 DEF CleanupsArePast
<1>8. ASSUME NEW q \in Requests,
             AdmitPageview(q) \/ StampPageview(q) \/ RecordPageview(q) \/ DropPageview(q)
      PROVE  CleanupsArePast'
  BY <1>1, <1>3, <1>8 DEF AdmitPageview, StampPageview, RecordPageview, DropPageview, database
<1>9. ASSUME NEW tz \in Timezones, NEW w \in WindowChoices, NEW p \in Policies,
             NEW a \in BOOLEAN, UpdateSite(tz, w, p, a)
      PROVE  CleanupsArePast'
  BY <1>1, <1>3, <1>9 DEF UpdateSite
<1>10. CASE ResetSiteData \/ DeleteSite
  <2>1. UNCHANGED <<clock, cleaner>>
    BY <1>10 DEF ResetSiteData, DeleteSite
  <2>2. ledger' = NewLedger(TRUE) \/ ledger' = [ledger EXCEPT !.quiet = TRUE]
    BY <1>10 DEF ResetSiteData, DeleteSite
  <2>3. ledger'.settled \in {ledger.settled, 0}
    BY <1>1, <2>2 DEF NewLedger
  <2> QED BY <1>3, <2>1, <2>3
<1>11. CASE Restart
  <2>1. \A c \in Cleaners : cleaner'[c].step = "idle"
    BY <1>11 DEF Restart, idle
  <2>2. Today' = Today /\ ledger' = ledger
    BY <1>11 DEF Restart, Today, database
  <2> QED BY <2>1, <2>2 DEF CleanupsArePast
<1>12. CASE UNCHANGED vars
  BY <1>3, <1>12 DEF vars, database
<1> QED BY <1>4, <1>6, <1>7, <1>8, <1>9, <1>10, <1>11, <1>12 DEF Next, SiteStep

LEMMA GeoCleanupsStep ==
  ASSUME SameDates
  PROVE  GeoIInv /\ GeoIInv' /\ CleanupsArePast /\ [GeoNext]_geoVars => CleanupsArePast'
<1> SUFFICES ASSUME GeoIInv, GeoIInv', CleanupsArePast, [GeoNext]_geoVars
             PROVE  CleanupsArePast'
  OBVIOUS
<1>1. IInv /\ IInv'
  BY DEF GeoIInv
<1>2. CASE [Next]_vars
  BY <1>1, <1>2, CleanupsStep
<1>3. CASE RefreshCommit
  BY <1>3 DEF RefreshCommit, CleanupsArePast, Today
<1> QED BY <1>2, <1>3 DEF GeoNext, Next, RefreshLocate, RefreshFail, geoVars

\* Where no change of timezone is possible, a window is open until its last day is
\* over: nothing is settled before.  There the visitors of the records of every window
\* that is not over are registered, whatever refreshes and cleanups run.
THEOREM UnfinishedWindowsRegistered ==
  SameDates => (GeoSpec => [](\A p \in pageviews :
                     p.window.end > Today => Registered(p.window, p.place, p.who)))
<1> SUFFICES ASSUME SameDates
             PROVE  GeoSpec => [](\A p \in pageviews :
                       p.window.end > Today => Registered(p.window, p.place, p.who))
  OBVIOUS
<1>1. GeoInit /\ GeoIInv => CleanupsArePast
  BY CleanupsInitially DEF GeoInit, GeoIInv
<1>2. GeoIInv /\ GeoIInv' /\ CleanupsArePast /\ [GeoNext]_geoVars => CleanupsArePast'
  BY GeoCleanupsStep
<1>3. GeoIInv /\ CleanupsArePast =>
        \A p \in pageviews : p.window.end > Today => Registered(p.window, p.place, p.who)
  <2> SUFFICES ASSUME GeoIInv, CleanupsArePast, NEW p \in pageviews, p.window.end > Today
               PROVE  Registered(p.window, p.place, p.who)
    OBVIOUS
  <2>1. p.window.end \in Int /\ ledger.settled \in Nat /\ Today \in Nat
    BY TodayIsNat DEF GeoIInv, IInv, TypeOK, Pageview, Window
  <2>2. p.window.end > ledger.settled
    BY <2>1 DEF CleanupsArePast
  <2> QED BY <2>2 DEF GeoIInv, GeoCounts, RecordsRegistered, OpenWindow
<1> QED BY <1>1, <1>2, <1>3, GeoInductive, PTL DEF GeoSpec


-----------------------------------------------------------------------------
(* The Unique Visitors of a window *)

LEMMA CountedInIsFinite ==
  ASSUME IsFiniteSet(ledger.counted), NEW w
  PROVE  IsFiniteSet(CountedIn(w)) /\ Cardinality(CountedIn(w)) \in Nat
BY FS_Subset, FS_CardinalityType DEF CountedIn

LEMMA PastDatesFinite == IInv => \A w : IsFiniteSet(PastDatesOf(w))
BY TodayIsNat, PastDatesAreFinite DEF PastDatesOf

\* With nothing counted every window holds what it should.
LEMMA NothingCounted ==
  ASSUME ledger.counted = {}, totals = NoCounts, Today \in Nat
  PROVE  VisitorCounts
<1>1. \A d \in Dates : totals[d][Overall] = [pv |-> 0, uv |-> 0]
  BY DEF NoCounts, Dims
<1>2. IsFiniteSet(ledger.counted)
  BY FS_EmptySet
<1>3. OverallPlausible
  BY <1>1 DEF OverallPlausible
<1>4. ASSUME NEW w
      PROVE  SumFunctionOnSet(OverallVisitors, PastDatesOf(w)) = Cardinality(CountedIn(w))
  <2>1. IsFiniteSet(PastDatesOf(w))
    BY PastDatesAreFinite DEF PastDatesOf
  <2>2. \A d \in PastDatesOf(w) : OverallVisitors[d] = 0
    BY <1>1 DEF OverallVisitors, PastDatesOf
  <2>3. CountedIn(w) = {}
    BY DEF CountedIn
  <2> QED BY <2>1, <2>2, <2>3, SumOfZeros, FS_EmptySet
<1>5. UniqueVisitorsAreDistinct
  BY <1>4 DEF UniqueVisitorsAreDistinct
<1> QED BY <1>2, <1>3, <1>5 DEF VisitorCounts, UnlockedUncounted

LEMMA VisitorsInitially == Init => VisitorCounts
<1> SUFFICES ASSUME Init PROVE VisitorCounts
  OBVIOUS
<1>1. ledger.counted = {} /\ totals = NoCounts
  BY DEF Init, NewLedger
<1> QED BY <1>1, Initially, TodayIsNat, NothingCounted

\* A step that leaves the counts and the present date alone; it may settle windows.
LEMMA VisitorsUntouched ==
  ASSUME IInv, VisitorCounts, UNCHANGED <<clock, rules>>, site'.tz = site.tz,
         \A d \in Dates : totals'[d][Overall] = totals[d][Overall],
         ledger'.counted = ledger.counted,
         ledger'.settled \in Nat, ledger.settled <= ledger'.settled,
         UnlockedUncounted'
  PROVE  VisitorCounts'
<1>1. Today' = Today
  BY DEF Today
<1>2. \A d : WindowOf(rules, d)' = WindowOf(rules, d)
  BY DEF WindowOf, ActiveRule
<1>3. \A w : PastDatesOf(w)' = PastDatesOf(w) /\ CountedIn(w)' = CountedIn(w)
  BY <1>1, <1>2 DEF PastDatesOf, CountedIn
<1>4. OverallVisitors' = OverallVisitors
  BY DEF OverallVisitors
<1>5. OverallPlausible'
  BY <1>1 DEF VisitorCounts, OverallPlausible
<1>6. UniqueVisitorsAreDistinct'
  <2> SUFFICES ASSUME NEW e \in Dates, e <= Today, rules # {},
                      WindowOf(rules, e).end > ledger'.settled
               PROVE  SumFunctionOnSet(OverallVisitors, PastDatesOf(WindowOf(rules, e)))
                        = Cardinality(CountedIn(WindowOf(rules, e)))
    BY <1>1, <1>2, <1>3, <1>4 DEF UniqueVisitorsAreDistinct
  <2>1. WindowOf(rules, e).end \in Int /\ ledger.settled \in Nat
    BY WindowOfDate DEF IInv, TypeOK, Window
  <2>2. WindowOf(rules, e).end > ledger.settled
    BY <2>1
  <2> QED BY <2>2 DEF VisitorCounts, UniqueVisitorsAreDistinct
<1> QED BY <1>5, <1>6 DEF VisitorCounts

\* Midnight passes: the dates that begin have counted nobody yet, and a window that
\* begins with them is nobody's.
LEMMA VisitorsTick ==
  ASSUME IInv, VisitorCounts, Tick
  PROVE  VisitorCounts'
<1>1. UNCHANGED <<database, ledger>> /\ clock' \in Instants /\ clock \in Instants /\ clock <= clock'
  BY BoundsAreNat DEF IInv, TypeOK, Tick, Instants
<1> USE DEF database
<1>2. Today \in Nat /\ Today' \in Nat /\ Today <= Today'
  <2>1. site.tz \in Timezones
    BY DEF IInv, TypeOK
  <2>2. /\ LocalDate[site.tz][clock] <= LocalDate[site.tz][clock']
        /\ LocalDate[site.tz][clock] \in Nat /\ LocalDate[site.tz][clock'] \in Nat
    BY <1>1, <2>1, LocalDateAssumption
  <2> QED BY <1>1, <2>2 DEF Today
<1>3. \A d \in Dates : (d <= Today => d <= Today') /\ (~ (d <= Today) => d > Today)
                       /\ (d > Today' => d > Today)
  BY <1>2, DatesAreNat
<1>4. \A d : WindowOf(rules, d)' = WindowOf(rules, d)
  BY <1>1 DEF WindowOf, ActiveRule
<1>5. OverallPlausible'
  BY <1>1, <1>3 DEF VisitorCounts, OverallPlausible
<1>6. (IsFiniteSet(ledger.counted) /\ UnlockedUncounted)'
  BY <1>1 DEF VisitorCounts, UnlockedUncounted
<1>7. UniqueVisitorsAreDistinct'
  <2> SUFFICES ASSUME NEW e \in Dates, rules # {}, WindowOf(rules, e).end > ledger.settled
               PROVE  SumFunctionOnSet(OverallVisitors, PastDatesOf(WindowOf(rules, e))')
                        = Cardinality(CountedIn(WindowOf(rules, e)))
    BY <1>1, <1>4 DEF UniqueVisitorsAreDistinct, OverallVisitors, CountedIn
  <2> DEFINE w == WindowOf(rules, e)
             before == PastDatesOf(w)
             after == PastDatesOf(w)'
             f == OverallVisitors
  <2>1. after = {d \in Dates : d <= Today' /\ WindowOf(rules, d) = w}
    BY <1>4 DEF PastDatesOf
  <2>2. before \in SUBSET after
    BY <1>3, <2>1 DEF PastDatesOf
  <2>3. IsFiniteSet(after)
    BY <1>2, <2>1, PastDatesAreFinite
  <2>4. \A d \in after : f[d] \in Int
    BY <2>1 DEF IInv, TypeOK, OverallVisitors, Dims
  <2>5. \A d \in after \ before : f[d] = 0
    <3> SUFFICES ASSUME NEW d \in after \ before PROVE f[d] = 0
      OBVIOUS
    <3>1. d \in Dates /\ d > Today
      BY <1>3, <2>1 DEF PastDatesOf
    <3>2. /\ totals[d][Overall].uv <= totals[d][Overall].pv /\ totals[d][Overall].pv = 0
          /\ totals[d][Overall].uv \in Nat
      BY <3>1 DEF VisitorCounts, OverallPlausible, IInv, TypeOK, Dims
    <3> QED BY <3>1, <3>2 DEF OverallVisitors
  <2>6. SumFunctionOnSet(f, before) = Cardinality(CountedIn(w))
    <3>1. CASE before = {}
      <4>1. CountedIn(w) = {}
        <5> SUFFICES ASSUME NEW k \in ledger.counted, k.window = w PROVE FALSE
          BY DEF CountedIn
        <5>1. PICK d \in Dates : d <= Today /\ k.window = WindowOf(rules, d)
          BY DEF IInv, CountedByRules
        <5> QED BY <3>1, <5>1 DEF PastDatesOf
      <4> QED BY <3>1, <4>1, SumEmpty, FS_EmptySet
    <3>2. CASE before # {}
      <4>1. PICK d \in Dates : d <= Today /\ WindowOf(rules, d) = w
        BY <3>2 DEF PastDatesOf
      <4> QED BY <4>1 DEF VisitorCounts, UniqueVisitorsAreDistinct
    <3> QED BY <3>1, <3>2
  <2> HIDE DEF f, before, after, w
  <2>7. SumFunctionOnSet(f, after) = SumFunctionOnSet(f, before)
    BY <2>2, <2>3, <2>4, <2>5, SumOfSupport
  <2> QED BY <2>6, <2>7 DEF f, after, w
<1> QED BY <1>5, <1>6, <1>7 DEF VisitorCounts

LEMMA NothingCountedNext ==
  (ledger.counted = {} /\ totals = NoCounts /\ Today \in Nat)' => VisitorCounts'
<1>1. ledger.counted = {} /\ totals = NoCounts /\ Today \in Nat => VisitorCounts
  BY NothingCounted
<1> QED BY <1>1, PTL

\* New settings: only a Site that has counted nothing changes its timezone, and the rule
\* for tomorrow moves no date that has come.
LEMMA VisitorsUpdate ==
  ASSUME IInv, VisitorCounts, NEW tz \in Timezones, NEW days \in WindowChoices,
         NEW p \in Policies, NEW a \in BOOLEAN, UpdateSite(tz, days, p, a)
  PROVE  VisitorCounts'
<1> DEFINE next == LocalDate[tz][clock] + 1
           rule == [eff |-> next, days |-> days]
<1>1. UNCHANGED <<clock, pageviews, nextId, registrations, totals, request, cleaner>>
  BY DEF UpdateSite
<1>2. /\ clock \in Instants /\ rules \subseteq Rule
      /\ site \in [exists : BOOLEAN, tz : Timezones, window : WindowChoices,
               retention : Policies, accepting : BOOLEAN, first : BOOLEAN, key : 0 .. MaxResets]
      /\ ledger \in [accepted : [Dates -> Nat], counted : SUBSET [window : Window, who : Digest],
                 settled : Nat, expired : SUBSET Dates, spared : BOOLEAN, quiet : BOOLEAN]
  BY DEF IInv, TypeOK
<1>3. /\ site.exists /\ (site.first => tz = site.tz)
      /\ site' = [site EXCEPT !.tz = tz, !.window = days, !.retention = p, !.accepting = a]
      /\ ledger' = [ledger EXCEPT !.quiet = @ /\ ~ a]
  BY DEF UpdateSite, TimezoneUnlocked
<1>4. site'.tz = tz /\ site'.first = site.first /\ site'.exists
  BY <1>2, <1>3
<1>5. ledger'.counted = ledger.counted /\ ledger'.settled = ledger.settled
  BY <1>2, <1>3
<1>6. Today' = LocalDate[tz][clock] /\ Today' \in Nat
  BY <1>1, <1>2, <1>4, LocalDateType DEF Today
<1>7. CASE site.first
  <2>1. Today' = Today
    BY <1>3, <1>6, <1>7 DEF Today
  <2>2. \A d \in Dates : d <= Today => WindowOf(rules, d)' = WindowOf(rules, d)
    <3> SUFFICES ASSUME NEW d \in Dates, d <= Today
                 PROVE  WindowOf(rules', d) = WindowOf(rules, d)
      BY DEF WindowOf, ActiveRule
    <3>1. next \in Nat /\ d \in Nat /\ d < next
      BY <1>6, <2>1, DatesAreNat
    <3> HIDE DEF next
    <3>2. rules' = rules \/ rules' = {r \in rules : r.eff # next} \cup {rule}
      BY DEF UpdateSite, ScheduleRule, next
    <3>3. \A r \in rules : r.eff \in Nat
      BY <1>2 DEF Rule
    <3>4. {r \in rules : r.eff <= d} = {r \in rules' : r.eff <= d}
      BY <3>1, <3>2, <3>3
    <3> QED BY <3>4, WindowKept
  <2>3. \A w : PastDatesOf(w)' = PastDatesOf(w) /\ CountedIn(w)' = CountedIn(w)
    BY <1>5, <2>1, <2>2 DEF PastDatesOf, CountedIn
  <2>4. OverallVisitors' = OverallVisitors
    BY <1>1 DEF OverallVisitors
  <2>5. UniqueVisitorsAreDistinct'
    <3>1. rules # {}
      BY <1>3 DEF IInv, RulesPresent
    <3> QED BY <1>5, <2>1, <2>2, <2>3, <2>4, <3>1
            DEF VisitorCounts, UniqueVisitorsAreDistinct
  <2>6. OverallPlausible'
    BY <1>1, <2>1 DEF VisitorCounts, OverallPlausible
  <2>7. UnlockedUncounted'
    BY <1>4, <1>7 DEF UnlockedUncounted
  <2> QED BY <1>5, <2>5, <2>6, <2>7 DEF VisitorCounts
<1>8. CASE ~ site.first
  <2>1. ledger'.counted = {} /\ totals' = NoCounts
    BY <1>1, <1>3, <1>5, <1>8 DEF IInv, UnlockedIsEmpty, VisitorCounts, UnlockedUncounted
  <2> QED BY <2>1, <1>6, NothingCountedNext
<1> QED BY <1>7, <1>8

\* The transaction of RecordPageview: the visitor is new to the window exactly if the
\* overall registration is missing, and then both sides gain one.
LEMMA VisitorsRecord ==
  ASSUME IInv, VisitorCounts, NEW q \in Requests, RecordPageview(q)
  PROVE  VisitorCounts'
<1> DEFINE r == request[q]
           date == LocalDate[site.tz][r.at]
           window == WindowOf(rules, date)
           fresh == {v \in DimsOf(r.place) : ~ Registered(window, v, r.who)}
           mark == [window |-> window, who |-> r.who]
<1>1. /\ request \in [Requests -> Idle \cup Admitted \cup Stamped]
      /\ clock \in Instants /\ rules \subseteq Rule
      /\ totals \in [Dates -> [Dims -> [pv : Nat, uv : Nat]]]
      /\ site \in [exists : BOOLEAN, tz : Timezones, window : WindowChoices,
               retention : Policies, accepting : BOOLEAN, first : BOOLEAN, key : 0 .. MaxResets]
      /\ ledger \in [accepted : [Dates -> Nat],
                 counted : SUBSET [window : Window, who : Digest],
                 settled : Nat, expired : SUBSET Dates, spared : BOOLEAN, quiet : BOOLEAN]
  BY DEF IInv, TypeOK
<1>2. r \in Stamped
  BY <1>1 DEF RecordPageview, Idle, Admitted, Stamped
<1>3. /\ site.exists
      /\ totals' = CountPageview(date, r.place, fresh)
      /\ site' = [site EXCEPT !.first = TRUE]
      /\ ledger' = [ledger EXCEPT !.accepted[date] = @ + 1, !.counted = @ \cup {mark}]
      /\ UNCHANGED <<clock, rules>>
  BY DEF RecordPageview, CollectionEnabled
<1>4. date \in Dates /\ date <= Today
  <2>1. r.at \in Instants /\ r.at <= clock
    BY <1>2 DEF Stamped, IInv, NothingFromTheFuture
  <2> QED BY <1>1, <2>1, LocalDateType, LocalDateAssumption DEF Today
<1>5. rules # {}
  BY <1>3 DEF IInv, RulesPresent
<1>6. window \in Window
  BY <1>1, <1>4, <1>5, WindowOfDate DEF IInv
<1>7. /\ ledger'.counted = ledger.counted \cup {mark}
      /\ ledger'.settled = ledger.settled
  BY <1>1, <1>3
<1>8. site'.first /\ Today' = Today
  BY <1>1, <1>3 DEF Today
<1>9. \A d : WindowOf(rules, d)' = WindowOf(rules, d)
  BY <1>3 DEF WindowOf, ActiveRule
<1>13. Overall \in Dims /\ Overall \in DimsOf(r.place)
  BY DEF Dims, DimsOf
<1>10. Overall \in fresh => mark \notin ledger.counted \/ window.end <= ledger.settled
  BY <1>4, <1>5, FreshIsNew
<1>11. Overall \notin fresh => mark \in ledger.counted
  BY <1>4, <1>5, <1>13, FreshIsNew
<1>12. window = WindowOf(rules, date) /\ mark.window = window
  OBVIOUS
<1> HIDE DEF r, date, window, fresh, mark
<1>14. \A d \in Dates :
         /\ totals[d][Overall].pv \in Nat /\ totals[d][Overall].uv \in Nat
         /\ totals'[d][Overall].pv = IF d = date THEN totals[d][Overall].pv + 1
                                     ELSE totals[d][Overall].pv
         /\ totals'[d][Overall].uv = IF d = date /\ Overall \in fresh
                                     THEN totals[d][Overall].uv + 1 ELSE totals[d][Overall].uv
  <2> SUFFICES ASSUME NEW d \in Dates
               PROVE  /\ totals[d][Overall].pv \in Nat /\ totals[d][Overall].uv \in Nat
                      /\ totals'[d][Overall].pv = IF d = date THEN totals[d][Overall].pv + 1
                                     ELSE totals[d][Overall].pv
                      /\ totals'[d][Overall].uv = IF d = date /\ Overall \in fresh
                                     THEN totals[d][Overall].uv + 1 ELSE totals[d][Overall].uv
    OBVIOUS
  <2>1. totals[d][Overall] \in [pv : Nat, uv : Nat]
    BY <1>1, <1>13
  <2>2. CASE d = date
    <3>1. totals'[d][Overall] = [pv |-> totals[d][Overall].pv + 1,
             uv |-> totals[d][Overall].uv + (IF Overall \in fresh THEN 1 ELSE 0)]
      BY <1>1, <1>3, <1>4, <1>13, <2>2 DEF CountPageview
    <3>2. CASE Overall \in fresh
      BY <2>1, <2>2, <3>1, <3>2
    <3>3. CASE Overall \notin fresh
      BY <2>1, <2>2, <3>1, <3>3
    <3> QED BY <3>2, <3>3
  <2>3. CASE d # date
    <3>1. totals'[d][Overall] = totals[d][Overall]
      BY <1>1, <1>3, <1>4, <1>13, <2>3 DEF CountPageview
    <3> QED BY <2>1, <2>3, <3>1
  <2> QED BY <2>2, <2>3
<1>15. OverallPlausible'
  <2> SUFFICES ASSUME NEW d \in Dates
               PROVE  /\ totals'[d][Overall].uv <= totals'[d][Overall].pv
                      /\ d > Today => totals'[d][Overall].pv = 0
    BY <1>8 DEF OverallPlausible
  <2>1. totals[d][Overall].uv <= totals[d][Overall].pv /\ (d > Today => totals[d][Overall].pv = 0)
    BY DEF VisitorCounts, OverallPlausible
  <2>2. ~ (date > Today)
    BY <1>4, TodayIsNat, DatesAreNat
  <2> QED BY <1>14, <2>1, <2>2
<1>16. UniqueVisitorsAreDistinct'
  <2> SUFFICES ASSUME NEW e \in Dates, e <= Today, WindowOf(rules, e).end > ledger.settled
               PROVE  SumFunctionOnSet(OverallVisitors', PastDatesOf(WindowOf(rules, e)))
                        = Cardinality(CountedIn(WindowOf(rules, e))')
    <3>1. \A w : PastDatesOf(w)' = PastDatesOf(w)
      BY <1>8, <1>9 DEF PastDatesOf
    <3> QED BY <1>7, <1>8, <1>9, <3>1 DEF UniqueVisitorsAreDistinct
  <2> DEFINE w == WindowOf(rules, e)
             D == PastDatesOf(w)
             f == OverallVisitors
             h == OverallVisitors'
             before == CountedIn(w)
             after == CountedIn(w)'
  <2>1. SumFunctionOnSet(f, D) = Cardinality(before)
    BY <1>5 DEF VisitorCounts, UniqueVisitorsAreDistinct
  <2>2. IsFiniteSet(D) /\ D \subseteq Dates
    BY PastDatesFinite DEF PastDatesOf
  <2>3. IsFiniteSet(before) /\ Cardinality(before) \in Nat
    BY CountedInIsFinite DEF VisitorCounts
  <2>4. \A d \in Dates : f[d] = totals[d][Overall].uv /\ h[d] = totals'[d][Overall].uv
    BY DEF OverallVisitors
  <2>5. \A d \in Dates : f[d] \in Nat /\ h[d] \in Nat
    BY <2>4, <1>14
  <2>6. after = IF w = window THEN before \cup {mark} ELSE before
    BY <1>7, <1>9, <1>12 DEF CountedIn
  <2>7. date \in D <=> w = window
    BY <1>4, <1>12 DEF PastDatesOf
  <2>8. w.end > ledger.settled /\ window.end \in Int /\ ledger.settled \in Nat
    BY <1>1, <1>6 DEF Window
  <2>9. mark \in before <=> mark \in ledger.counted /\ w = window
    BY <1>12 DEF CountedIn
  <2> HIDE DEF D, f, h, after, before, w
  <2>10. CASE w = window /\ Overall \in fresh
    <3>1. mark \notin before
      BY <1>10, <2>8, <2>9, <2>10
    <3>2. Cardinality(after) = Cardinality(before) + 1
      BY <2>3, <2>6, <2>10, <3>1, FS_AddElement
    <3>3. date \in D /\ h[date] = f[date] + 1
      BY <1>4, <1>14, <2>4, <2>7, <2>10
    <3>4. \A d \in D : d # date => h[d] = f[d]
      BY <1>14, <2>2, <2>4
    <3>5. \A d \in D : f[d] \in Int /\ h[d] \in Int
      BY <2>2, <2>5
    <3>6. SumFunctionOnSet(h, D) = SumFunctionOnSet(f, D) - f[date] + h[date]
      BY <2>2, <3>3, <3>4, <3>5, SumUpdate
    <3>7. f[date] \in Int
      BY <3>3, <3>5
    <3> QED BY <2>1, <2>3, <3>2, <3>3, <3>6, <3>7 DEF D, h, after, w
  <2>11. CASE ~ (w = window /\ Overall \in fresh)
    <3>1. \A d \in D : h[d] = f[d]
      BY <1>4, <1>14, <2>2, <2>4, <2>7, <2>11
    <3>2. SumFunctionOnSet(h, D) = SumFunctionOnSet(f, D)
      BY <2>2, <3>1, SumCongruence
    <3>3. after = before
      BY <1>11, <2>6, <2>9, <2>11
    <3> QED BY <2>1, <3>2, <3>3 DEF D, h, after, w
  <2> QED BY <2>10, <2>11
<1>17. IsFiniteSet(ledger'.counted)
  BY <1>7, FS_AddElement DEF VisitorCounts
<1> QED BY <1>8, <1>15, <1>16, <1>17 DEF VisitorCounts, UnlockedUncounted

LEMMA VisitorsStep ==
  ASSUME IInv, VisitorCounts, [Next]_vars
  PROVE  VisitorCounts'
<1>1. /\ ledger \in [accepted : [Dates -> Nat], counted : SUBSET [window : Window, who : Digest],
                 settled : Nat, expired : SUBSET Dates, spared : BOOLEAN, quiet : BOOLEAN]
      /\ site \in [exists : BOOLEAN, tz : Timezones, window : WindowChoices,
               retention : Policies, accepting : BOOLEAN, first : BOOLEAN, key : 0 .. MaxResets]
      /\ cleaner \in [Cleaners -> Idle \cup Started \cup Listed]
  BY DEF IInv, TypeOK
<1>2. Today' \in Nat
  BY Invariance, TodayIsNat, LocalDateType DEF IInv, TypeOK, Today
<1>3. ASSUME UNCHANGED <<clock, rules, totals, ledger>>, site' = site PROVE VisitorCounts'
  BY <1>1, <1>3, VisitorsUntouched DEF VisitorCounts, UnlockedUncounted
<1>4. ASSUME NEW q \in Requests, AdmitPageview(q) \/ StampPageview(q) \/ DropPageview(q)
      PROVE  VisitorCounts'
  BY <1>3, <1>4 DEF AdmitPageview, StampPageview, DropPageview, database
<1>5. ASSUME NEW q \in Requests, RecordPageview(q) PROVE VisitorCounts'
  BY <1>5, VisitorsRecord
<1>6. ASSUME NEW c \in Cleaners, StartCleanup(c) \/ ListSites(c) \/ StopCleanup(c)
      PROVE  VisitorCounts'
  BY <1>3, <1>6 DEF StartCleanup, ListSites, StopCleanup, database
<1>7. ASSUME NEW c \in Cleaners, CleanSite(c) PROVE VisitorCounts'
  <2> DEFINE date == LocalDate[cleaner[c].tz][cleaner[c].now]
  <2>1. date \in Nat
    <3>1. cleaner[c] \in Listed
      BY <1>1, <1>7 DEF CleanSite, Idle, Started, Listed
    <3> QED BY <3>1, LocalDateType DEF Listed
  <2>2. /\ UNCHANGED <<clock, site, rules, totals>>
        /\ ledger'.counted = ledger.counted
        /\ ledger'.settled = IF ledger.settled < date THEN date ELSE ledger.settled
    BY <1>1, <1>7 DEF CleanSite
  <2> HIDE DEF date
  <2>3. ledger'.settled \in Nat /\ ledger.settled <= ledger'.settled
    BY <1>1, <2>1, <2>2
  <2>4. UnlockedUncounted'
    BY <2>2 DEF VisitorCounts, UnlockedUncounted
  <2> QED BY <2>2, <2>3, <2>4, VisitorsUntouched
<1>8. ASSUME NEW tz \in Timezones, NEW w \in WindowChoices, NEW p \in Policies,
             NEW a \in BOOLEAN, UpdateSite(tz, w, p, a)
      PROVE  VisitorCounts'
  BY <1>8, VisitorsUpdate
<1>9. ASSUME ledger' = NewLedger(TRUE), totals' = NoCounts PROVE VisitorCounts'
  BY <1>2, <1>9, NothingCountedNext DEF NewLedger
<1>10. CASE ResetSiteData
  BY <1>9, <1>10 DEF ResetSiteData
<1>11. CASE DeleteSite
  <2>1. UNCHANGED clock /\ site'.tz = site.tz /\ ~ site'.exists
    BY <1>1, <1>11 DEF DeleteSite
  <2>2. CASE UNCHANGED <<rules, totals>> /\ ledger' = [ledger EXCEPT !.quiet = TRUE]
    <3>1. ledger'.counted = ledger.counted /\ ledger'.settled = ledger.settled
      BY <1>1, <2>2
    <3> QED BY <1>1, <2>1, <2>2, <3>1, VisitorsUntouched DEF UnlockedUncounted
  <2> QED BY <1>9, <1>11, <2>2 DEF DeleteSite
<1>12. CASE Tick
  BY <1>12, VisitorsTick
<1>13. CASE Restart \/ UNCHANGED vars
  BY <1>3, <1>13 DEF Restart, vars, database
<1> QED BY <1>4, <1>5, <1>6, <1>7, <1>8, <1>10, <1>11, <1>12, <1>13 DEF Next, SiteStep

\* A refresh rebuilds the geographic totals only.
LEMMA VisitorsGeoStep == GeoIInv /\ GeoIInv' /\ VisitorCounts /\ [GeoNext]_geoVars => VisitorCounts'
<1> SUFFICES ASSUME GeoIInv, GeoIInv', VisitorCounts, [GeoNext]_geoVars PROVE VisitorCounts'
  OBVIOUS
<1>1. IInv /\ GeoCounts /\ UnlockedUncounted'
  BY DEF GeoIInv, GeoCounts
<1>2. CASE [Next]_vars
  BY <1>1, <1>2, VisitorsStep
<1>3. CASE RefreshCommit
  <2>1. PICK rows : Relocated(rows) /\ Rebuilds(rows)
    BY <1>1, <1>3, CommitRelocates DEF GeoIInv, GeoCounts
  <2>2. \A d \in Dates : totals'[d][Overall] = totals[d][Overall]
    BY <1>1, <2>1, RebuiltCounts DEF Rebuilds
  <2>3. ledger.settled \in Nat
    BY <1>1 DEF IInv, TypeOK
  <2> QED BY <1>1, <2>1, <2>2, <2>3, VisitorsUntouched DEF Rebuilds
<1> QED BY <1>2, <1>3 DEF GeoNext, Next, RefreshLocate, RefreshFail, geoVars

\* The Unique Visitors of the dates of a window add up to the distinct visitors counted
\* in it, until it is settled: with and without refreshes, whatever rules come and go.
THEOREM WindowsCountDistinctVisitors ==
  (Spec => []UniqueVisitorsAreDistinct) /\ (GeoSpec => []UniqueVisitorsAreDistinct)
<1>1. VisitorCounts => UniqueVisitorsAreDistinct
  BY DEF VisitorCounts
<1>2. Spec => []UniqueVisitorsAreDistinct
  <2>1. IInv /\ VisitorCounts /\ [Next]_vars => VisitorCounts'
    BY VisitorsStep
  <2> QED BY <1>1, <2>1, VisitorsInitially, Inductive, PTL DEF Spec
<1>3. GeoSpec => []UniqueVisitorsAreDistinct
  <2>1. GeoInit => VisitorCounts
    BY VisitorsInitially DEF GeoInit
  <2> QED BY <1>1, <2>1, VisitorsGeoStep, GeoInductive, PTL DEF GeoSpec
<1> QED BY <1>2, <1>3

\* No date reports more Unique Visitors than Pageviews, and none that has not come
\* reports any.
THEOREM VisitorsWithinPageviews == GeoSpec => []OverallPlausible
<1>1. VisitorCounts => OverallPlausible
  BY DEF VisitorCounts
<1>2. GeoInit => VisitorCounts
  BY VisitorsInitially DEF GeoInit
<1> QED BY <1>1, <1>2, VisitorsGeoStep, GeoInductive, PTL DEF GeoSpec
=============================================================================
