# VisitorTrace in TLA+

This directory specifies the parts of VisitorTrace whose correctness depends on the
order in which things happen, checks them with TLC, and proves the central results
with TLAPS. It is written from the Go source of the server and from the scripts that
run in browsers; every definition that models code is listed in `PROJECT.json` ("map")
with the lines it stands for.

Contents: [the system](#1-the-system), [the modules](#2-the-modules),
[the runs](#3-the-runs), [fairness](#4-fairness), [the proofs](#5-the-proofs),
[what the code does not keep](#6-what-the-code-does-not-keep),
[what is left out](#7-what-is-left-out), [plan](#8-plan),
[how to run](#9-how-to-run).

## 1. The system

VisitorTrace is one Go process that serves many Sites. Visitors' browsers send
Pageviews; the process stores them in one SQLite database, keeps daily totals, and
serves maps and analytics to the public. An administrator changes Sites, refreshes
geography, restores backups and updates the program itself; a command line does some
of the same beside the running server. Three scripts run elsewhere: the tracker in the
pages of the observed websites, the navigator with its authorization dialog and the
analytics page in the administrator's browser.

| Component | State | Operations | Where it is hard |
|---|---|---|---|
| Site store (`internal/store`) | rows of a Site: settings, deduplication rules, Pageview Records, visitor registrations, daily totals | CreateSite, RecordPageview, UpdateSite, ResetSiteData, DeleteSite | a request reads the key and the clock, waits for a lookup, and commits under settings that have changed meanwhile |
| Retention cleanup (`internal/maintenance`, `store/maintenance.go`) | none of its own; settings read before the lock | RunOnce, CleanupBatch | bounded batches over several passes beside ingestion; two cleaners (server, command line) |
| Geography refresh (`store/georefresh.go`, `server/recordgeoip.go`) | places found so far | locate, then rewrite records, totals and registrations | minutes of lookups without a lock, then one transaction over rows that have changed |
| Map cache (`server/mapcache.go`) | entries, recency list, counters, flights, generations | getOrRender, putLocked, deleteSite | a render without a lock races invalidations; followers wait for a leader |
| Connection pool (`store/store.go`) | up to four SQLite connections, `writeMu` | every query and transaction | hold-and-wait on a bounded pool; a pragma that belongs to one connection |
| Start-up and self-update (`cmd/visitortrace`, `internal/selfupdate`) | release link, pending update, attempts, lock | RegisterStartup, prepareAndActivate, CompletePending | crashes between two renames; server and command line at once; counting attempts across exits |
| Backup and restore (`internal/backup`) | archives, pending restore, staged copy | Create, ScheduleRestore, ApplyPendingRestore, RestoreForRollback | a database renamed away and another renamed into its place |
| Administrator sessions (`store/admin.go`, `server/adminauth.go`) | password hash, sessions, step-up verification | login, logout, password change, expiry, the gates of sensitive and irreversible actions | a login or an action that has verified the old password while the password changes |
| Authorization dialog (`web/auth-dialog.js`) | `pending`, `resolving`, the dialog, promises under way | submit, confirm, cancel, close event, answers | answers and close events that arrive after the dialog was cancelled and opened again; a verification that runs out on the way |
| Console navigation (`web/app-entry.js`) | session history, `currentURL`, `activeRequest`, the busy button | click, forms, popstate, answers, swap, full load | an answer to a request that was overtaken; history that moves under a request; an update of the server under an open tab |
| Analytics page (`web/analytics-entry.js`) | charts, `__vtMapState` | run on every swap, tear down, save and take over the view of the map | a script that arrives after the next swap; a view taken over by another page |
| Embedded tracker (`server/assets/tracker.js`) | Visitor ID in localStorage, `__visitorTraceState`, frames | script run, track, resize message | several scripts in one page, several tabs on one storage, facilities that are missing or refuse |
| World map (`tools/generate-basemap.mjs`, `web/analytics-entry.js`) | the rings of a country | shift, simplify, split at the seam, place markers | rings that touch, cross or run along the seam; degenerate chords |
| GeoIP datasets (`internal/geoipupdate`) | dataset file, `.previous`, active resolver | download, install, rollback | renames and activation that fail halfway |
| Operation status (`internal/operations`, `store/operations.go`) | one row per background task | begin, progress, finish | a task that dies without finishing |
| Rate limits (`internal/ratelimit`) | token buckets | Allow, forget old buckets | forgetting a bucket that has not refilled |
| GeoIP resolution, map rendering, analytics, request parsing, settings, pages | read-only or pure | | data algorithms, no interleaving |

How they interact: a Pageview request (HTTP goroutine) reads the Site row, resolves
a place, and calls RecordPageview; every writer of the store serialises on
`Store.writeMu` and uses one pooled connection per statement or transaction. The
cleanup runs on a ticker and from the command line. Handlers that change what a map
shows commit to the store first and call `mapCache.deleteSite` afterwards. An update
writes files that only the next start of the process reads; a supervisor restarts the
process from the link `releases/current` whenever it exits. `PROJECT.json` lists every
component with its status, and under "hazards" the places where this can go wrong.

In the browser the dialog hears a submission first and hands it on, with a CSRF value
and perhaps a password, to the navigator or to the browser; the navigator announces a
swap (`vt:before-swap`), on which the analytics script of the old body saves its view
for that of the new one. The tracker only posts Pageviews and receives the sizes that
the framed map reports.

What makes each component correct, in a sentence: no visitor is counted twice in an
open deduplication window and none is missed; expiry never takes a count back; what
is stored stays in the window and the timezone it was counted in; cleared data do not
come back; a cached map is not older than the last invalidation; every waiter is
answered; the pool neither leaks nor deadlocks; whatever crashes, the release that
starts next can open the database it finds; a session is worth the password it was
opened with; every confirmation is used once and for what it was given; what a tab
shows is what its address says; a browser is one visitor and reports a page once; a
country is drawn whole, within the map, under its markers.

## 2. The modules

    VisitorLedger  <--implements--  SiteStore  <--EXTENDS--  GeoRefresh
                                        ^                        ^
                                   MCSiteStore      MCGeoRefresh, SiteStoreProofs
    MapService     <--implements--  MapAnswers  --EXTENDS-->  MapCache
                                        ^
                             MapCacheProofs, MCMapCache
    RecursionTheorems  <-- SiteStoreProofs, MapCacheProofs
           |
        EXTENDS
           v
    Simplification  <--EXTENDS--  WorldMap  <-- MCWorldMap
    Connections   <-- ConnectionsProofs, MCConnections
    Lifecycle     <-- LifecycleProofs, MCLifecycle
    AdminSession  <--EXTENDS--  AuthDialog  <-- AuthDialogProofs, MCAuthDialog
    Navigator     <-- NavigatorProofs, MCNavigator
    Tracker       <-- TrackerProofs, MCTracker

**VisitorLedger** is what the statistics of a Site promise, with no database in
sight: a visit adds one to the total of its date; a visitor adds one to the unique
visitors once per window; a window can be settled, after which a late visit may count
its visitor again; clearing empties the ledger.

**SiteStore** is one Site (every statement of the store is restricted to one
`site_id`). A transaction under `writeMu` is one action; what a process reads before
it takes the mutex is an action of its own. So a Pageview is AdmitPageview (Site row,
HMAC key, digest), StampPageview (lookup finished, `OccurredAt`), RecordPageview (the
whole transaction: rule, window, record, registrations, totals,
`first_pageview_at`) or DropPageview (every early return). A cleanup is StartCleanup
(`now`), ListSites (settings read without the lock), CleanSite (one batch of records
and one of registrations), StopCleanup. UpdateSite, ResetSiteData, DeleteSite and
Restart complete it. Dimensions that are never rebuilt (overall, path, browser, ...)
are counted alike and are represented by `Overall`; the geographic ones by `Places`.
A visitor is a (hostname, browser) pair, since registrations are scoped by hostname.
`ledger` is history: no action of the program reads it.

**GeoRefresh** adds the refresh to the same state: RefreshLocate answers the distinct
addresses of the records outside the lock, RefreshCommit is the transaction, which
reads the records again, looks late addresses up under `writeMu`, rebuilds the
geographic totals of every date that has records, and adds registrations of windows
that are still open. It never deletes a registration, so a visitor whose record moved
stays registered at the old place too, until cleanup.

**MapCache** has one action per locked section of `mapcache.go`; a render is three
(totals, points, second locked section), because `mapData` reads twice without a
transaction. `version[s]` counts the changes of a Site that are followed by
`deleteSite`: a new preset, a reset, a deletion, a refresh. Pageviews and renames do
not invalidate; maps may lag them by the TTL, by design.

**MapService** is what those who ask for maps are promised, with no cache in sight: a
request is served at once with a map that is no older than the last invalidation of its
Site, or has one rendered that is no older than the beginning of the render, or waits
for a render under way and is answered with it; and no key is ever shown less than was
shown for it before. **MapAnswers** is MapCache with three history variables (what was
invalidated last, what each key was answered with last, when each render began), which
no action reads, and the mapping under which it implements MapService: entries, their
expiry and eviction, generations and flights have no counterpart.

**Connections** is the pool behind the store as `open` configures it: up to N
connections, as many idle as open, the last one released taken first, both pragmas
executed once. Goroutines run a single query, a write transaction, an update that
reads the Site back after its commit with `writeMu` still held, a deletion, or
ListSites, which asks for a second connection while its rows are open.

**Lifecycle** is the server process from start to exit under a supervisor, with the
files that outlive it: the link, the database (its schema only), the copy a restore
renames away, the pending restore, the pending update. A start goes through the
phases of `runServe`: pending restore, pending update (clear an interrupted one,
reject an unexpected one, count an attempt, or roll back on the third), open and
migrate, serve, confirm when ready. Each rename or removal is an action, and Crash
can follow any of them. Updates are prepared by the serving process or by the command
line, one at a time by the lock; the steps are lock (with the comparison of schemas and
the reading of the link), candidate checked, backup, state file, link. As in
`checkManifest` a release on offer is newer than the updater itself (OwnReleases,
OnOffer) and is compared with nothing else: a command may have been started as an older
release than the linked one, and a serving process may be older than the link, so an
update may lead back. `outrun` is history: while a command prepares an update the link
is ahead of what it has read or of the release it prepares.

**AdminSession** is the server's side of an administrator: the password, a number that
grows with every change, the rows of `administrator_sessions`, and the handlers, cut
where another may come between: a login is LoginCheck (hash read and compared) and
LoginCreate; an action is Admit (session, CSRF value, gate), CheckPassword, Mark and
Run. The five minutes of a verification are three ages (more than thirty seconds left,
the last thirty, over). `overtaken` is history: the password changed between the check
of the login and its row.

**AuthDialog** composes it with one page of the console: the submit listener and its
context (SubmitForm, AnswerContext, Resolve, ResolveFails), the promise chain of a
confirmation (Confirm, AnswerConfirm, ChainContext, Verify, VerifyMark, Verified,
ChainFails), the server's answers apart from the callbacks that receive them, Cancel
(button or Escape) and the close event, which the browser delivers later. The body may
be swapped and the page replaced at any time; other tabs log in and change the cookie.

**Navigator** is one tab: the session history as the browser keeps it (entries with the
document they belong to), what the body shows, the request that is not aborted, and the
release of navigator and server. Answers come in two steps, headers (Receive, ToLogin)
and text (Land), since requestDocument looks at `signal.aborted` before each. A swap
leaves the analytics script of the new body on its way: RunAnalytics runs it whenever it
arrives, on the body that is there then. Pages, redirections and links are constants.

**Tracker** is one browser: `localStorage` shared by tabs, and per tab the page load
with its script elements. A script runs to its end, except that another tab, in another
process, may use the storage between reading and writing it; so getVisitorID is
ReadStorage and Mint. What the browser offers (a storage that can be read, one that can
be written, random numbers, sendBeacon, fetch) is chosen once.

**RecursionTheorems** has no state: what recursive definitions compute, for all data. It
has the laws of the library's sum over a finite set, on which the proofs about totals
and byte counts rest, and the theorem about the simplification of an outline.

**WorldMap** is a pipeline over one ring, Shift and Simplify of the build tool and
Repair of the page. Its recursive part, `simplify` of the build tool, is the module
**Simplification**, which has no state. Both compute with integers: areas doubled,
distances squared and multiplied by the length of the chord, sources on a grid on which
the crossings of the seam are exact.

How the state corresponds to the code is stated beside each VARIABLE; names follow
the source (`writeMu`, `generations`, `flights`, `first`, `settled`, ...).

## 3. The runs

Every run finishes within two minutes on two cores. Model values stand for visitors,
addresses, places, connections, goroutines, Sites and map keys; symmetry is used only
in runs without liveness, and only over sets that the specification treats alike.

| Run | Bounds | What it shows |
|---|---|---|
| `counting` (564 000 states) | 1 visitor, 2 places, 2 requests in flight, 1 cleanup, windows of 1 and 2 days, 3 instants, 2 records, deletion with and without foreign keys | OpenWindowsRemembered: a visitor counted in a window that is not settled is still registered. UniqueVisitorsAreDistinct: the Unique Visitors of its dates add up to the visitors counted in it. DurableTotals: expiry takes no count back. RefinesLedger: SiteStore implements VisitorLedger |
| `administration` (482 000) | 2 requests, 2 timezones a day apart, 2 windows, up to 3 rules, 1 reset | RecordsKeepTheirWindow, OneTimezone, WindowStartIdentifies: rows keep the window and timezone they were counted under, and the start of a window is enough of a key. ClearedStaysEmpty: nothing in flight repopulates a cleared Site (connections enforce foreign keys here; `deletion` has one that does not) |
| `geo_refresh` (205 000) | 2 addresses, 2 places, 2 records, 1 refresh, 1 cleanup, windows of 2 days | GeographyMatchesRecords, GeoVisitorsCountedOnce, RecordsRegistered: totals by place are those of the records, no visitor counts twice at a place in an open window, and the records of an open window stay registered |
| `map_cache` (1 317 000) | 2 Sites of which one changes, 3 maps, 2 requests, 2 handlers, room for 2 bytes, 1 entry per Site | CacheIsCurrent: no map of the cache predates an invalidation. CountersAgree, LimitsHold: counters and limits are exact. RefinesService: what is answered is what MapService promises, and whoever waits has a render to wait for |
| `connections` (32 000) | 2 connections, 3 goroutines, fair | ConnectionsAccounted: none is leaked or shared. SomebodyGoesOn: while lists leave a connection, some operation that has begun can take its next step (SomebodyGoesOn spells out when Lock, Acquire and Finish are enabled). Completes: every operation ends as long as lists leave a connection |
| `lifecycle` (628 000) | 3 releases with a schema each, 1 that does not start, server and command line, 2 archives, 2 crashes, fair | DatabaseFitsRelease: the linked release can open the database, as long as the link has outrun no command. GoesBackRestored: the link goes back in a rollback, or in an update of a process that is older than it, and the release it goes back to can open the database in its place. RestoreIsConsumed: no restore is left for a later start. UpdateIsDecided: once updates cease none is pending for ever |
| `visitor_page` (921 000) | 2 tabs, 3 script elements (one page with widget and map, one with the bare tracker), 3 locations of 2 paths, 32 kinds of browser, 1 more page load per tab | ReportedOnce: each path once per page load, and each path that was marked. OneIdentityPerLoad, FewIdentities: what the tabs draw and store. OwnFrameSizes: whose messages size a frame |
| `navigation` (1 087 000) | 2 entries of history, 2 Sites, a section, a redirected range, login, 2 scripts on their way, 1 update of the server | AddressIsShown, NewestRequestLands, BusyHasAnswer, OneRelease, ViewOfThisPage |
| `authorization` (4 883 000) | 2 sessions, 1 login and 1 action at a time, 1 change of password, 2 openings, 1 close event on its way | OldPasswordsEnd, CriticalNeedsPassword, NoSecondPrompt, ConfirmedOnce, OpenDialogAnswers |
| `world_map` (176 000) | every simple ring of 3 to 5 corners on 3 columns about the seam and 4 rows, one below the map; tolerance none and half a column | AreaKept, PiecesFit, MarkersOnLand, SimplifiedClose |
| `deletion`, `broken_release` | as small as they can be | two statements of the documentation that the code does not keep, see section 6 |

Beside these runs there are seven configurations of one property each, in which TLC
finds a further disagreement between the code and what is said of it within seconds:
`outrun_command`, `overtaken_start`, `stale_rule`, `stale_retention`, `stale_timezone`,
`partial_date`, `overtaken_login`. They too are described in section 6. What they show
is excluded by name, or by a condition, from the properties of the runs (`outrun`,
Overtaken, `overtaken`, OpenWindow, dates that have lost no record).

Why the bounds are enough. *Clock*: three instants give a request before, in and after
a window or a retention period, a request stamped before a cleanup and committed after
it, and a rule scheduled for tomorrow that comes into force. *Records*: two are the
least that share a window, a place or a batch, and every property relates at most two.
*Requests*: two are the least that race for one registration; a third repeats the race.
*Rules*: three give a past, a present and a scheduled rule. *Cache*: the limits of one
entry per Site and two bytes are crossed by the second map, bodies of one to three
bytes include one larger than the cache; one instant of TTL gives expiry; the data of
one Site change (MaxVersion is a bound per Site), those of the other need not, since a
Site's versions are compared with its own only. *Pool*: two
connections and two ListSites fill the pool, the third goroutine is the one that
suffers. *Lifecycle*: two crashes reach a crash during the recovery from a crash; three
releases give an update over an update and one that leads back, and a schema for each is
the case in which a database may be too new. *Tracker*:
two tabs race for the storage, and a second load shows what was kept. *Navigator*: two
entries give back and forward with an answer on its way; a third takes the run beyond
minutes, and the proofs hold for every length. *Dialog*: an opening, its
cancellation and the next opening are what a late answer or close event can confuse;
two sessions give a cookie that changes under the page. *World map*: five corners give
a ring that crosses the seam twice, with or without a corner or an edge on it, begun at
any of them.

The bounds themselves (MaxClock, MaxRecords, MaxResets, MaxRules, MaxVersion,
MaxCrashes, MaxLoads, MaxHistory, MaxScripts, MaxRelease, MaxPassword, MaxOpenings,
MaxEvents) are guards of the actions that would exceed them. The proofs hold for
every value of them.

Deadlock is checked in every run but two: `world_map` ends when its ring is drawn, and
in `visitor_page` a browser without any page left to load, frame to size or function to
call has nothing to do.

Each property has a mutant of the code that breaks it (PROJECT.json, "mutants"): a
dropped guard, a stale comparison, a missing decrement, a swapped order. They stand
beside the definitions they change, marked "Mutant".

## 4. Fairness

- *Connections*: statements end (weak fairness of Finish). Strong fairness of Lock and
  Acquire: `sync.Mutex` hands itself to a starving waiter, `database/sql` serves its
  queue. Cancellation is not fair, and Completes is claimed only while ListSites leave
  the pool a connection. The pool is modelled as barging (any waiter may get a released
  connection), which allows more than the queue does.
- *Lifecycle*: weak fairness of the steps of a start (the supervisor's Restart=always
  and the process itself), of the update under way, of the watcher's confirmation, and
  of an exit that was requested or of a release that does not start. Strong fairness of
  the two renames of a rollback: a sound archive and disk let it succeed sooner or
  later, though it may fail any finite number of times. Crashes, new updates, restores
  and voluntary exits are not fair. What is claimed of a pending update (UpdateIsDecided,
  RejectedIsRolledBack) supposes that nobody updates any more from some moment on
  (UpdatesCease): an administrator may replace a pending update by another for ever.

The other modules carry safety only. That whoever waits for another's render has one to
wait for is part of RefinesService; that a render ends is up to its queries, which run
under a context.

## 5. The proofs

All theorems are for every value of the constants that satisfies the named ASSUMEs.

**SiteStoreProofs.** The inductive invariant `IInv` (end of SiteStore) is TypeOK and ten
named parts. What must be carried along: rules have distinct effective dates
(RulesDistinct) and one is in force on every date (RulesCover, RulesPresent), so that
WindowOf is a function of the date; a new rule is dated after every date that has been
counted, because nothing is from the future (NothingFromTheFuture) and a Site whose
timezone may change has counted nothing (UnlockedIsEmpty); so old windows are untouched
(RecordsKeepTheirWindow, CountedByRules); a registration is the trace of something
counted (RegistrationsCounted), hence its window too is one of the rules, two windows
with one start are one window, and leaving `window_end` out of the primary key is
harmless (WindowStartIdentifies). A cleanup deletes registrations of windows that end by
its date only, which is what `settled` records (OpenWindowsRemembered). With that
RecordPageview counts a visitor as fresh exactly when the ledger may, and every action
maps to a step of VisitorLedger or a stutter. Two results rest on less: a Site that was
cleared does not collect (Cleared), and the only step that stores anything reads
`accept_pageviews` in its transaction; a rule is scheduled for tomorrow, which no rule
passes while the timezone stays. Theorems: TypeCorrect, RecordsStayInWindow,
RecordsShareTimezone, WindowStartIsKey, CountedStayRegistered, StoreImplementsLedger,
OnlyTimezonePartsRules (TimezoneKeepsRules, which is in no run's configuration and which
TLC confirms on the instance of `administration`), TotalsAreDurable, and ResetIsFinal,
which assumes that every connection enforces foreign keys (`deletion` shows one that
does not).

*The Unique Visitors of a window* (WindowsCountDistinctVisitors). RecordPageview adds
one to the date of the request, so the visitors of a window are spread over its dates,
and nothing but the registrations remembers them. `VisitorCounts` carries
UniqueVisitorsAreDistinct together with what it takes: the marks are finitely many, a
date to come has no counts (OverallPlausible), a Site whose timezone may change has none
at all (UnlockedUncounted). The sum runs over the dates that have come: midnight adds
dates that hold nothing, a new rule moves only dates to come, and FreshIsNew says that
the missing registration is a visitor new to the window, so that both sides gain one or
neither does. By the same invariant no date has more Unique Visitors than Pageviews
(VisitorsWithinPageviews).

*The refresh* is proved about in the same module, for GeoSpec. `GeoIInv` (end of
GeoRefresh) adds to IInv: IDs identify records (IdsIdentify), the visitor of a record is
counted (RecordsCounted), a place has no more visitors than Pageviews and none on dates
to come (PlacesPlausible), and the three properties of the run, of which
GeoVisitorsCountedOnce is not inductive: a window without records may get its first one,
so OpenVisitorsOnce speaks of every window and place. A commit is described by the rows
it writes, the records at other places (Relocated); the first row of a visitor in a
window at a place (FirstOfWindow) is one per visitor, so the visitors of a window at a
place, summed over dates, are counted by disjoint sets of them (SumOfParts). A refresh
leaves the overall dimension and the ledger alone, so it is a stutter of VisitorLedger.
Theorems: RefreshKeepsStore, GeographyFollowsRecords, MovedRecordsStayRegistered,
VisitorsCountedOnceAtPlaces, RefreshImplementsLedger.

These speak of open windows. `OpenWindow(w)` asks that the window is not over and that
no cleanup has settled it: a cleanup that listed the Site under another timezone may
work with a date that is already past the window (section 6). Where the timezones on
offer have the same dates (SameDates) nothing is settled before it is over
(CleanupsArePast), which gives UnfinishedWindowsRegistered without that condition.

**RecursionTheorems.** *Sums.* `SumFunctionOnSet` chooses a function that is defined by
recursion on subsets. AddsExists shows that there is one on every finite set, AddsAgree
that two such functions agree; both argue by a smallest counterexample (SmallestSubset)
instead of an induction rule. From these: taking one member or a subset away (SumOfMember,
SumOfDifference), changing one term (SumUpdate), terms that are zero (SumOfSupport),
monotony, and the sum of the sizes of disjoint sets (SumOfParts).

*Simplification.* `Simplified` chooses a function on the spans of a chain that is defined
by what it answers for shorter spans. RecursionExists builds one, span length by span
length (the farthest point between the ends exists, FirstGreatest, and parts the span
into two shorter ones, SpansShrink). By the same induction every span is answered with
its ends and with neighbours that everything between is close to (Stays): one segment is
close to what it replaces (WithinIsNear, which needs products cancelled by the squared
length of the segment), and two answers that share an end join (JoinedStay). Theorem:
SimplificationIsClose, the formula of SimplifiedClose for every chain of integer points
and every tolerance.

**MapCacheProofs.** `IInv`: types, no leader has a generation of the future
(GenerationsPast), what a leader of the present generation has read is current or will
still be invalidated (FlightsCurrent), CacheIsCurrent, OneRenderPerKey. The heart is
`deleteSite`: it increments the generation, so every render that began before it is
outdated and is never stored, and it drops what was stored. Theorems:
CachedMapsAreCurrent, RendersAreCoalesced.

On top of it `AnsweredInv` (end of MapAnswers) carries the refinement of MapService. A
cached map is no older than the last invalidation nor than what was answered last for
its key, and there is none while the key is rendered (EntriesServe); a render shows
nothing older than its beginning, which is not before the last invalidation if its
generation is still the Site's (RenderServes). So a hit and the end of a render both
answer with something newer than before, though renders overlap invalidations: a render
that an invalidation has outdated is answered but not stored, and it has kept the key to
itself meanwhile. AnsweredIsCache: the history variables add no behaviour, so what is
proved about MapCache holds here. Theorem: CacheImplementsService.

A second invariant, `Counted`, is about the bookkeeping of putLocked and remove: the
recency list names each entry once, the byte count is the sum of the sizes of the
entries, a Site's count is the number of its entries. Entries go only with what they
added to the counters, and whoever stores evicts until both limits hold again. The list
is shortened by a recursive function (`Without`), about whose values a proof can argue
by the length of the list; the library's SelectSeq is opaque to the provers. Theorems:
CountersTellTheTruth, LimitsAreKept.

**LifecycleProofs.** `IInv` is `Shape`, which holds of every behaviour, and `Order`,
which holds until a command is outrun. Shape: types; an update of the server exists only
while it serves, and its target is newer than the process (ServerUpdates); a serving
process has migrated the database, and there is no copy beside a database
(DatabaseServed); a rollback has read an update (RollbackReads). Order: the backup of an
update fits the release it would go back to and the one it is of (UpdatesSound); an
updater has seen the link where it is or later, and no command prepares a release older
than the link (UpdaterAhead); the process is of the linked release or an older one
(ProcessBehind); database and copy fit the linked release (DatabasesFit); what a
rollback has put in place fits the previous release before the link is switched
(RollbackFits). The link goes back in two steps. SwitchBack takes it back when the
restored database is as old as the release it goes back to. SwitchRelease takes it back
when the server is older than the link, because another updater has linked a newer
release that nobody has started yet; then the database is still the one that this very
process has migrated and holds, and the release it prepares is newer than the process. A
command has no such hold on the database: a start may migrate it between the command's
check and its switch, which is what `outrun` is about. Theorems: TypeCorrect;
DatabasesFitReleases; RestoresAreConsumed (with one more conjunct, RestoreDecided);
RollbacksRestoreFirst, which rests on backups that exist as long as an update refers to
them (BackupsExist); OnlyKillsMisplace, which rests on StagedIsMissing, and on renaming
the copy back as `restore` does when the second rename fails (its DatabaseInPlace is in
no run's configuration; TLC confirms it on the instance of `lifecycle`).
DatabasesFitReleases and RollbacksRestoreFirst claim nothing after a command was outrun;
`outrun_command` (section 6) shows that there is nothing to claim.

**ConnectionsProofs.** `IInv`: types, ConnectionsAccounted, and what a goroutine holds at
each point of its operation (Holding), which gives OnlyListsBlock at once: the only
operation that waits for a connection while it holds one is ListSites. That nobody waits
for ever needs counting. If nobody can go on, no connection is free and whoever holds one
waits for another (StuckExhausts), so every connection is held by a list of its own
(ListsHoldAll, a bijection), and the lists leave no room (StuckLeavesNoRoom). Theorems:
PoolIsAccounted, HoldAndWaitIsListing, NoDeadlockWithRoom.

**AuthDialogProofs.** One invariant for the server and one for the page. Server: a login
past its check holds the password in force or has been overtaken (LoginsCurrent), an
action past its check, whose session is still there, holds the password in force
(MarksCurrent), tokens are drawn once (TokensDrawn), and what the browser was told of a
verification holds when its form arrives (PromisesKept): the change of password deletes
every session, which is why Mark may rely on the row. Page: what it has been told still
holds (ContextKept), and nothing has become of the opening on the screen (Undecided).
Theorems: SessionsFollowPassword, CriticalActionsVerified, PromptsAreNotRepeated,
OpeningsSubmitOnce, DialogsHaveForms.

**NavigatorProofs.** `IInv`: types; the only request that is not aborted is for the page
that was asked for last (NewestOnly); currentURL is the page that the body shows, or the
body is an error (BodyKnown); currentURL is the address unless an answer to a traversal
is on its way (AddressKnown); a view is saved under the path of its page unless the
document has been traversed (SavedUnderPath). Theorems: TabShowsItsAddress,
OvertakenNeverLands, BusyIsAnswered, ReleasesAgree, ViewsStayOnTheirPage.

**TrackerProofs.** `IInv`: types; what was posted is marked, and all of it but the path
under way (Marked); a page draws or reads its ID before its first Pageview and keeps it
(Identified); IDs drawn and tabs about to draw one are no more than the tabs, because
after the first is stored nobody starts to draw (MintersLeft). Theorems:
PathsReportedOnce, IdentityKept, IdentitiesBounded, FramesObeyTheirDocument, and an
action property that no run has in its configuration (TLC confirms it on the instance of
`visitor_page`): once an ID is stored and no tab still holds an older answer, the browser
keeps this identity (SettledForGood).

*Assumptions worth knowing.* Navigator: the first page of the tab is one that a GET of
it ends at. SiteStore: the civil date of an instant never runs
backwards in a timezone. Lifecycle: later releases support later or equal schemas.

*Assumptions of SiteStore.* The places a lookup can answer are finitely many and the
overall dimension is none of them (DimensionAssumption): DurableTotals is a sum over
the places.

*Model-checked only.* Liveness (Completes, UpdateIsDecided), which is beyond the prover,
and WorldMap (AreaKept, PiecesFit, MarkersOnLand, SimplifiedClose) as a specification: of
its four properties the last is proved about the operator, not about the behaviours of
Spec, and the first three speak of rings that are unwrapped, cut twice, flattened and
summed, a recursion each, about which nothing is proved yet. Not all of PiecesFit is
true of every tolerance, either: a chord of a simplified ring that is longer than half
the circle is unwrapped the other way round.

## 6. What the code does not keep

Two runs must fail; PROJECT.json quotes the sentence of the documentation that each
contradicts.

- `deletion`: `PRAGMA foreign_keys = ON` runs once, on one of the pooled connections; a
  deletion on another removes the Site row and none of its data.
- `broken_release`: a second update prepared before the restart takes the new release
  for the previous one. The next start clears it as interrupted; if the new release
  never becomes ready, it is never rolled back.

Seven more configurations must fail, for the same kind of reason. The module to run and
the property are given in brackets.

- `outrun_command`: `checkManifest` (`manager.go:115`) compares the release on offer with
  the updater's own version, `prepareAndActivate` its schema with that of the database at
  the moment, and nobody compares it with the link that is read at line 173. A command
  that was started as release 1 to prepare release 2 takes the lock after another has
  linked release 3; the start of release 3 migrates the database once the command has
  passed its checks, and the command then links release 2, which cannot open it, in spite
  of the guard "release schema %d is older than database schema %d" (`manager.go:171`).
  The console is exposed to the same comparison (an older signed release uploaded to a
  server that is older than the link leads back), but not to this end: the database is
  then the one that the server holds and has migrated (DatabasesFitReleases).
  [MCLifecycle, SchemaGuardHolds]
- `overtaken_start`: a start that has read the pending update writes it back with one
  more attempt (`recovery.go:76`); if the command line has written a newer update in
  between, the file no longer matches the link and every later start is rejected without
  being counted, though docs/user-guide.md:411 promises that three failed starts switch
  back. UpdateIsDecided excludes this state by name. [MCLifecycle, RejectedIsRolledBack]
- `stale_rule`: a window change is scheduled under tomorrow's date in the timezone of the
  moment (`sites.go:245`). If the Site, still without Pageviews, moves west and the window
  changes again, the first rule is dated after the second and takes over a day later;
  docs/user-guide.md:70 does not expect that. [MCSiteStore, SettingsPrevail]
- `stale_retention`: a cleanup works with the retention it read before it took the lock
  (`maintenance.go:25`); records of a Site that has just become Unlimited are deleted
  (docs/user-guide.md:338). [MCSiteStore, UnlimitedSparesRecords]
- `stale_timezone`: a cleanup lists the Site with its timezone and takes the lock later
  (`maintenance.go:25`). If the Site, still without Pageviews, has moved west and counted
  its first visitor in between, the date of the old timezone may be the end of a window
  that is open in the new one: the registrations go, and the visitor may be counted again
  in it, although maintenance removes registrations of completed windows only
  (docs/user-guide.md:339). The window then is settled in the ledger, and OpenWindow does
  not hold of it. [MCSiteStore, UnfinishedWindowsRemembered]
- `partial_date`: a refresh rebuilds a date's geographic totals from the records that are
  left (`georefresh.go:262`); contributions of records of that date that expired earlier
  are reversed (docs/development.md:67). A date all of whose records have expired is left
  alone. [MCGeoRefresh, DurableTotals]
- `overtaken_login`: a login that has compared the old password when the change commits
  still gets its session, although "every Administrator session" is revoked
  (docs/user-guide.md:353). OldPasswordsEnd names the case, `overtaken`. [MCAuthDialog,
  ChangeEndsSessions]

Smaller observations on the server:

- *Restore, crash, refusal.* If a crash falls between the two renames of a restore and
  the retry at the next start is refused (the disk is full, say), the state file is
  quarantined and no database is in its place, although `runServe` reports "current
  database retained"; the data are still in the `.restore-rollback` copy, which the
  next restore removes first.
- *A copy that is not renamed back.* The error of the rename that undoes a failed swap is
  ignored (`backup.go:427`). If it fails too, or a kill falls in, the next attempt removes
  the copy first and no database is left. OnlyKillsMisplace takes this rename to succeed.
- *An outdated render is still joined.* `deleteSite` leaves a flight open, so a request
  that arrives after the change joins a render begun before it (`mapcache.go:117`) and is
  answered, once, with the old map, or one whose totals are older than its points. The
  answer is not stored; MapService allows exactly that.
- *Attempts.* The third start rolls back before it serves, so a release gets two starts
  to become ready; a release that runs but never becomes ready (no GeoIP dataset, for
  instance) is not restarted by anybody and stays pending (AwaitsRestart covers the case
  of a process older than the update).
- *Rollback.* Whatever was recorded after the pre-update backup is lost, by design.
- *After a window.* A request stamped in a window that a cleanup has settled meanwhile
  may count its visitor again; the ledger allows exactly that.
- *A refresh after a window* leaves no registrations for it, so a late request may count
  a visitor again at a place (see GeoVisitorsCountedOnce).

Observations on the scripts:

- *Back and forward at once.* The tab goes back to X, whose body is asked for, and
  forward before it arrives: popstate finds the address of the body on the screen and
  returns early, but does not abort (app-entry.js:319). X's answer then replaces the
  other entry of the history. Body and address agree, the entry is lost.
- *View after a traversal.* The old body is torn down when the address is already the
  new one, so the view of its map is saved under the new page's path
  (analytics-entry.js:117) and taken over there, against the comment at 130.
  ViewOfThisPage excludes documents in which back or forward was used.
- *Late scripts.* After two quick swaps two analytics scripts run on one body.
- *Fragments.* `Response.url` has none: a section anchor that the click handler carries
  over (app-entry.js:274) is dropped by the swap, as are the fragments of redirections.
  A GET that fails, and whose target is the address with a fragment, is asked for again
  by the fragment navigation that is meant to load it, for ever.
- *Newer release.* An error answer to a POST from a newer release loads the POST-only
  address.
- *promptStepUp* is not reached: the forms that the navigator posts are not gated.
- *Swapped form.* A form whose body was swapped while the dialog was open is confirmed,
  the password verified, and nothing submitted.
- *Password field.* It is read again after the verification (auth-dialog.js:95): what the
  user types meanwhile is submitted instead of what was verified, and refused.
- *Simplification at the seam.* A chord is measured on the plane of shifted longitudes;
  one that leads over the seam is measured the long way round. SimplifiedClose speaks of
  the plane. A marker exactly on 170 degrees west stays at the left edge.

## 7. What is left out

- Names, notes, origins, map presets and the Site limit: no property speaks of them.
- Invalid stored addresses in a refresh; the `ORDER BY` on text timestamps (instants
  are numbers here); SQLite's own locks between connections and `busy_timeout`.
- A panic in the renderer, which would leave its flight open.
- The database file behind an open connection: an updater is taken to find the database
  that is in its place, also when a restore has renamed it under an open connection.
- The age of the update lock (an abandoned one is taken after a while; Lifecycle takes
  the lock of a dead updater for free), the download and installation of candidates
  beyond success and failure, pruning of releases and archives, archive formats and
  checksums beyond "refused".
- Browsers: scroll offsets, focus, stylesheets, toasts, control buttons and charts; the
  options of the chart library; the projection of the static SVG; polygons with holes
  (the page drops the holes of countries that cross the seam, and its comment says that
  there are none). Delivery of a Pageview after the tracker has handed it over.
- The password hash, cookie attributes and the login rate limit; the revocation of
  sessions by a restore.
- GeoIP lookup, rendering, analytics, parsing: pure data code. A lookup appears as a
  free choice of place, a render as the two reads it is drawn from.
- Components with status "not_modelled" in PROJECT.json, each with its reason.

## 8. Plan

Done: the counting core with its abstract ledger; geography refresh; map cache;
connection pool; start-up, update and restore; sessions and the authorization dialog;
console navigation; the tracker; the world map. The store and the map cache implement
abstract specifications of what they promise. Every safety property that a passing run
checks, but for those of the world map, is a theorem, and of those the closeness of the
simplification is proved as a law of its operator.

Next, in this order:

1. **GeoIPUpdate**: install, rollback and activation of a dataset with failures and
   crashes, the runners of several datasets, readiness depending on an active resolver;
   compose with Lifecycle's Confirm.
2. **Operations**: begin, progress and finish of background tasks, restarts, the single
   flight of refresh, backup and update; settings that request a restart.
3. **Resolution**: the chain of datasets and online providers with fallback, cache and
   time-outs, as it answers a lookup of SiteStore.
4. **RateLimit** and the pure algorithms of the server (city merging, binary search,
   version order) as recursive functions against reference definitions.
5. **Scroll restoration** in Navigator: the stamp timer that is pending at popstate.
6. **Proofs**: the geometry of the page (a repaired piece keeps to the map and its area),
   along the lines of RecursionTheorems, with cuts written as recursive functions; an
   abstract specification of an update (prepare, try, confirm or go back) that Lifecycle
   implements.

## 9. How to run

    tlc -workers 2 -config counting.cfg MCSiteStore
    tlapm SiteStoreProofs.tla

Each `.cfg` belongs to the MC module named in PROJECT.json ("runs") or in section 6.
