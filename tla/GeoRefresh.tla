----------------------------- MODULE GeoRefresh -----------------------------
(***************************************************************************)
(* SiteStore with the manual refresh of record geography                    *)
(* (internal/server/recordgeoip.go, internal/store/georefresh.go).  The     *)
(* refresh looks the retained addresses up without a lock, then rewrites    *)
(* the records and rebuilds their dates' geographic totals in one           *)
(* transaction; anything in SiteStore may happen in between.  The process   *)
(* runs one refresh at a time (recordGeoIPMu), so it is one variable.       *)
(***************************************************************************)
EXTENDS SiteStore

VARIABLE refresh   \* the running refresh: the places found so far

geoVars == <<vars, refresh>>

GeoInit == Init /\ refresh = idle

AddressesOf(rows) == {p.ip : p \in rows}

-----------------------------------------------------------------------------

\* The distinct addresses of the records are read and looked up one by one.
RefreshLocate ==
  /\ refresh \in Idle
  /\ site.exists
  /\ \E found \in [AddressesOf(pageviews) -> Places] :
       refresh' = [step |-> "located", found |-> found]
  /\ UNCHANGED vars

\* Mutant: records that arrived during the lookups are not included.
RowsLocated == {p \in pageviews : p.ip \in DOMAIN refresh.found}

\* The rows of the transaction: it counts the records again first.
RowsToRefresh == pageviews

\* Mutant: visitors are told apart by date.
FirstOfDate(rows, p) ==
  ~ \E q \in rows : q.id < p.id /\ q.place = p.place /\ q.who = p.who /\ q.date = p.date

\* Rows are read in ID order; the first of a visitor at a place in a window (told
\* by its start) counts as the Unique Visitor and keeps the registration.
FirstOfWindow(rows, p) ==
  ~ \E q \in rows :
      /\ q.id < p.id /\ q.place = p.place /\ q.who = p.who
      /\ WindowOf(rules, q.date).start = WindowOf(rules, p.date).start

\* The geographic totals of the dates that still have records, built from them.
RebuildTotals(rows) ==
  LET covered == {p.date : p \in pageviews}
      At(d, v) == {p \in rows : p.date = d /\ p.place = v}
  IN  [d \in Dates |-> [v \in Dims |->
         IF d \in covered /\ v \in Places
         THEN [pv |-> Cardinality(At(d, v)),
               uv |-> Cardinality({p \in At(d, v) : FirstOfWindow(rows, p)})]
         ELSE totals[d][v]]]

\* Mutant: the rebuilt registrations are not stored.
NoRegistrations(rows) == {}

\* Registrations of windows that are not over, added ON CONFLICT DO NOTHING.
RebuiltRegistrations(rows) ==
  {[window |-> WindowOf(rules, p.date), dim |-> p.place, who |-> p.who] :
     p \in {q \in rows :
              /\ FirstOfWindow(rows, q)
              /\ WindowOf(rules, q.date).end > Today
              /\ ~ Registered(WindowOf(rules, q.date), q.place, q.who)}}

\* The transaction under writeMu.  Addresses of late records are looked up now.
RefreshCommit ==
  /\ refresh.step = "located"
  /\ site.exists
  /\ \E late \in [AddressesOf(pageviews) \ DOMAIN refresh.found -> Places] :
       LET place(ip) == IF ip \in DOMAIN refresh.found THEN refresh.found[ip] ELSE late[ip]
           rows == {[p EXCEPT !.place = place(p.ip)] : p \in RowsToRefresh}
       IN  /\ pageviews' = {p \in pageviews : p \notin RowsToRefresh} \cup rows
           /\ totals' = RebuildTotals(rows)
           /\ registrations' = registrations \cup RebuiltRegistrations(rows)
  /\ refresh' = idle
  /\ UNCHANGED <<clock, site, rules, nextId, request, cleaner, ledger>>

\* The Site is gone, the two hours are over or a statement failed.
RefreshFail ==
  /\ refresh \notin Idle
  /\ refresh' = idle
  /\ UNCHANGED vars

GeoNext ==
  \/ SiteStep /\ UNCHANGED refresh
  \/ Restart /\ refresh' = idle
  \/ RefreshLocate \/ RefreshCommit \/ RefreshFail

GeoSpec == GeoInit /\ [][GeoNext]_geoVars

-----------------------------------------------------------------------------
(* Properties *)

\* On a date that has lost no record the totals of every place are those of the
\* records, however records, refreshes and cleanups are interleaved.
GeographyMatchesRecords ==
  \A d \in Dates \ ledger.expired : \A v \in Places :
     totals[d][v].pv = Cardinality({p \in pageviews : p.date = d /\ p.place = v})

\* Whether a window is still open, for the Site and for every cleanup so far.  (Until
\* the first Pageview the timezone may change, so a cleanup that listed the Site
\* before may settle windows that are open in its present timezone.)
OpenWindow(w) == w.end > Today /\ w.end > ledger.settled

\* While a window is open and its records are all there, no visitor is counted
\* twice at a place: ingestion and rebuild share one registration scheme.  (In a
\* window that is over the rebuild leaves no registration, and a request that was
\* stamped before its end may count the visitor again.)
GeoVisitorsCountedOnce ==
  \A p \in pageviews :
     LET w == p.window
         dates == {d \in Dates : WindowOf(rules, d) = w}
     IN  (OpenWindow(w) /\ dates \cap ledger.expired = {}) =>
           Sum(dates, LAMBDA d : totals[d][p.place].uv)
             <= Cardinality({q.who : q \in {r \in pageviews : r.window = w /\ r.place = p.place}})

\* While a window is open, the visitors of its records are registered at the place
\* the records show, so that ingestion does not count them again there.
RecordsRegistered ==
  \A p \in pageviews : OpenWindow(p.window) => Registered(p.window, p.place, p.who)

-----------------------------------------------------------------------------
(* The inductive invariant, in named parts *)

RefreshType ==
  \/ refresh \in Idle
  \/ /\ refresh.step = "located"
     /\ \A ip \in DOMAIN refresh.found : refresh.found[ip] \in Places

\* Pageview Record IDs are never used twice.
IdsIdentify ==
  /\ \A p \in pageviews : p.id < nextId
  /\ \A p, q \in pageviews : p.id = q.id => p = q

\* The visitor of a retained record has been counted in the record's window.
RecordsCounted ==
  \A p \in pageviews : [window |-> p.window, who |-> p.who] \in ledger.counted

\* A place has at most as many visitors as Pageviews, and none on a date to come.
PlacesPlausible ==
  \A d \in Dates : \A v \in Places :
     /\ totals[d][v].uv <= totals[d][v].pv
     /\ d > Today => totals[d][v].pv = 0

\* GeoVisitorsCountedOnce for every place, with records or without, of every window
\* that has begun, and over the dates that have come: what later rules move are
\* the others.
WhosAt(w, v) == {q.who : q \in {r \in pageviews : r.window = w /\ r.place = v}}

VisitorsAt(v) == [d \in Dates |-> totals[d][v].uv]

OpenVisitorsOnce ==
  \A e \in Dates : \A v \in Places :
     LET w == WindowOf(rules, e)
     IN  (e <= Today /\ rules # {} /\ OpenWindow(w) /\ PastDatesOf(w) \cap ledger.expired = {}) =>
           SumFunctionOnSet(VisitorsAt(v), PastDatesOf(w)) <= Cardinality(WhosAt(w, v))

GeoCounts ==
  /\ IdsIdentify /\ RecordsCounted /\ PlacesPlausible /\ UnlockedUncounted
  /\ GeographyMatchesRecords /\ RecordsRegistered /\ OpenVisitorsOnce

GeoIInv == IInv /\ RefreshType /\ GeoCounts

=============================================================================
