------------------------------ MODULE MapCache ------------------------------
(***************************************************************************)
(* The in-memory cache of rendered public maps (internal/server/mapcache.go)*)
(* between the requests that ask for maps (server.go renderSiteMap) and the *)
(* handlers that change a Site's data and then call deleteSite (pages.go    *)
(* preset, reset and deletion; recordgeoip.go).                             *)
(*                                                                          *)
(* Every section of code that holds mapCache.mu is one action.  A render    *)
(* holds no lock: it reads the totals and the points of the map in separate *)
(* queries (internal/store/mapdata.go), so it is three actions.             *)
(***************************************************************************)
EXTENDS Integers, Sequences, FiniteSets, FiniteSetsExt, SequencesExt

CONSTANTS
  Sites, Keys,
  SiteOf,        \* SiteOf[k]: the Site the cache key k begins with
  Clients,       \* map requests
  Handlers,      \* administrator handlers and the geography refresh
  Sizes,         \* bytes a rendered map may have
  TTL, MaxBytes, MaxSiteEntries,
  MaxClock,      \* bound: last instant
  MaxVersion     \* bound: changes of the data of each Site

ASSUME CacheAssumption ==
  /\ SiteOf \in [Keys -> Sites]
  /\ Sizes \subseteq Nat
  /\ TTL \in Nat /\ MaxBytes \in Nat /\ MaxSiteEntries \in Nat \ {0}
  /\ MaxClock \in Nat /\ MaxVersion \in [Sites -> Nat]

VARIABLES
  clock,
  version,      \* version[s]: how often the data of s have been changed
  handler,      \* a Site whose change is committed and not yet invalidated
  entries,      \* entries and their items
  order,        \* keys, most recently used first
  bytes,        \* the running total of body sizes
  siteEntries,  \* siteEntries[s]: the running count of entries
  flights,      \* keys being rendered
  generations,
  client

cache == <<entries, order, bytes, siteEntries>>
vars == <<clock, version, handler, cache, flights, generations, client>>

Nobody == "nobody"
ASSUME HandlerAssumption == Nobody \notin Sites

Item == [totals : Nat, points : Nat, size : Sizes, expires : Nat]
idle == [step |-> "idle"]

Client ==
  [step : {"idle"}]
    \cup [step : {"arrived"}, key : Keys, now : 0 .. MaxClock]
    \cup [step : {"waiting"}, key : Keys]
    \cup [step : {"leading", "failed"}, key : Keys, generation : Nat]
    \cup [step : {"halfway"}, key : Keys, generation : Nat, totals : Nat]
    \cup [step : {"rendered"}, key : Keys, generation : Nat, item : Item]

Init ==
  /\ clock = 0
  /\ version = [s \in Sites |-> 0]
  /\ handler = [h \in Handlers |-> Nobody]
  /\ entries = << >> /\ order = << >>
  /\ bytes = 0 /\ siteEntries = [s \in Sites |-> 0]
  /\ flights = {} /\ generations = [s \in Sites |-> 0]
  /\ client = [c \in Clients |-> idle]

-----------------------------------------------------------------------------
(* The list and its counters *)

Cached == DOMAIN entries
CachedOf(s) == {k \in Cached : SiteOf[k] = s}
TotalSize(keys, items) == SumFunctionOnSet([k \in DOMAIN items |-> items[k].size], keys)

\* The list after list.Remove of the elements of some keys.  (SelectSeq, as a
\* recursive function: the provers know nothing of SelectSeq.)
Without(list, keys) ==
  LET kept[i \in 0 .. Len(list)] ==
        IF i = 0 THEN << >>
        ELSE IF list[i] \in keys THEN kept[i - 1] ELSE Append(kept[i - 1], list[i])
  IN  kept[Len(list)]

\* Mutant: the bytes of a removed entry stay in the total.
DropUncounted(keys) ==
  /\ entries' = [k \in Cached \ keys |-> entries[k]]
  /\ order' = Without(order, keys)
  /\ siteEntries' = [s \in Sites |->
       siteEntries[s] - Cardinality({k \in keys : SiteOf[k] = s})]
  /\ UNCHANGED bytes

\* remove, for every element of a set: the map, the list and both counters.
Drop(keys) ==
  /\ entries' = [k \in Cached \ keys |-> entries[k]]
  /\ order' = Without(order, keys)
  /\ bytes' = bytes - TotalSize(keys, entries)
  /\ siteEntries' = [s \in Sites |->
       siteEntries[s] - Cardinality({k \in keys : SiteOf[k] = s})]

\* putLocked removes an old entry of the key before it inserts the new one.
OldBytes(k) == IF k \in Cached THEN entries[k].size ELSE 0

\* Mutant: the oldest entry of the Site stays.
KeptEverything(list, s) == list

\* The list without the oldest entries of a Site that has too many.
KeptPerSite(list, s) ==
  LET rank(i) == Cardinality({j \in 1 .. i : SiteOf[list[j]] = s})
      late == {list[i] : i \in {n \in DOMAIN list : SiteOf[list[n]] = s /\ rank(n) > MaxSiteEntries}}
  IN  Without(list, late)

\* The longest beginning of the list that fits into MaxBytes.
KeptInBytes(list, items) ==
  LET fits == {n \in 0 .. Len(list) : TotalSize(ToSet(SubSeq(list, 1, n)), items) <= MaxBytes}
  IN  SubSeq(list, 1, Max(fits))

\* putLocked.  A body larger than the whole cache is not stored, but has already
\* displaced the old entry of its key.
Put(k, item) ==
  LET items == [j \in Cached \cup {k} |-> IF j = k THEN item ELSE entries[j]]
      list == <<k>> \o Without(order, {k})
      kept == KeptInBytes(KeptPerSite(list, SiteOf[k]), items)
      gone == (Cached \cup {k}) \ ToSet(kept)
  IN
  IF item.size > MaxBytes
  THEN Drop({k} \cap Cached)
  ELSE /\ entries' = [j \in (Cached \cup {k}) \ gone |-> items[j]]
       /\ order' = kept
       /\ bytes' = bytes - OldBytes(k) + item.size - TotalSize(gone, items)
       /\ siteEntries' = [s \in Sites |->
            siteEntries[s] + (IF SiteOf[k] = s /\ k \notin Cached THEN 1 ELSE 0)
              - Cardinality({j \in gone : SiteOf[j] = s})]

-----------------------------------------------------------------------------
(* getOrRender *)

\* The request has read the Site and its options, and the time.
Arrive(c) ==
  /\ client[c].step = "idle"
  /\ \E k \in Keys : client' = [client EXCEPT ![c] =
       [step |-> "arrived", key |-> k, now |-> clock]]
  /\ UNCHANGED <<clock, version, handler, cache, flights, generations>>

Fresh(k, now) == k \in Cached /\ now < entries[k].expires

\* First locked section: a hit, a flight to wait for, or a flight of its own.
Hit(c) ==
  LET k == client[c].key IN
  /\ client[c].step = "arrived"
  /\ Fresh(k, client[c].now)
  /\ order' = <<k>> \o Without(order, {k})
  /\ client' = [client EXCEPT ![c] = idle]
  /\ UNCHANGED <<clock, version, handler, entries, bytes, siteEntries, flights, generations>>

Join(c) ==
  LET k == client[c].key IN
  /\ client[c].step = "arrived"
  /\ ~ Fresh(k, client[c].now)
  /\ k \in flights
  /\ Drop({k} \cap Cached)
  /\ client' = [client EXCEPT ![c] = [step |-> "waiting", key |-> k]]
  /\ UNCHANGED <<clock, version, handler, flights, generations>>

Lead(c) ==
  LET k == client[c].key IN
  /\ client[c].step = "arrived"
  /\ ~ Fresh(k, client[c].now)
  /\ k \notin flights
  /\ Drop({k} \cap Cached)
  /\ flights' = flights \cup {k}
  /\ client' = [client EXCEPT ![c] =
       [step |-> "leading", key |-> k, generation |-> generations[SiteOf[k]]]]
  /\ UNCHANGED <<clock, version, handler, generations>>

\* The render: the totals, then the points.
ReadTotals(c) ==
  /\ client[c].step = "leading"
  /\ client' = [client EXCEPT ![c] =
       [step |-> "halfway", key |-> client[c].key, generation |-> client[c].generation,
        totals |-> version[SiteOf[client[c].key]]]]
  /\ UNCHANGED <<clock, version, handler, cache, flights, generations>>

ReadPoints(c) ==
  /\ client[c].step = "halfway"
  /\ \E size \in Sizes : client' = [client EXCEPT ![c] =
       [step |-> "rendered", key |-> client[c].key, generation |-> client[c].generation,
        item |-> [totals |-> client[c].totals, points |-> version[SiteOf[client[c].key]],
                  size |-> size, expires |-> clock + TTL]]]
  /\ UNCHANGED <<clock, version, handler, cache, flights, generations>>

\* The Site is gone or unpublished, or the leader's own context is cancelled.
RenderFails(c) ==
  /\ client[c].step \in {"leading", "halfway"}
  /\ client' = [client EXCEPT ![c] =
       [step |-> "failed", key |-> client[c].key, generation |-> client[c].generation]]
  /\ UNCHANGED <<clock, version, handler, cache, flights, generations>>

\* Everyone who waits for the flight has the leader's answer, error included.
Landed(c) ==
  [d \in Clients |->
     IF d = c \/ (client[d].step = "waiting" /\ client[d].key = client[c].key)
     THEN idle ELSE client[d]]

\* Mutant: the generation is not compared.
AnyGeneration(c) == TRUE

SameGeneration(c) == generations[SiteOf[client[c].key]] = client[c].generation

\* Mutant: a leader whose render failed leaves its flight behind.
FinishRendered(c) ==
  /\ client[c].step \in {"rendered", "failed"}
  /\ IF client[c].step = "rendered" /\ SameGeneration(c)
     THEN Put(client[c].key, client[c].item)
     ELSE UNCHANGED cache
  /\ flights' = IF client[c].step = "failed" THEN flights ELSE flights \ {client[c].key}
  /\ client' = IF client[c].step = "failed" THEN [client EXCEPT ![c] = idle] ELSE Landed(c)
  /\ UNCHANGED <<clock, version, handler, generations>>

\* Second locked section of the leader.
Finish(c) ==
  /\ client[c].step \in {"rendered", "failed"}
  /\ IF client[c].step = "rendered" /\ SameGeneration(c)
     THEN Put(client[c].key, client[c].item)
     ELSE UNCHANGED cache
  /\ flights' = flights \ {client[c].key}
  /\ client' = Landed(c)
  /\ UNCHANGED <<clock, version, handler, generations>>

\* A waiting client goes away.
Leave(c) ==
  /\ client[c].step = "waiting"
  /\ client' = [client EXCEPT ![c] = idle]
  /\ UNCHANGED <<clock, version, handler, cache, flights, generations>>

-----------------------------------------------------------------------------
(* The handlers *)

\* The store commits a new preset, a reset, a deletion or a refresh.
Commit(h, s) ==
  /\ handler[h] = Nobody
  /\ version[s] < MaxVersion[s]
  /\ version' = [version EXCEPT ![s] = @ + 1]
  /\ handler' = [handler EXCEPT ![h] = s]
  /\ UNCHANGED <<clock, cache, flights, generations, client>>

\* deleteSite
DeleteSite(h) ==
  LET s == handler[h] IN
  /\ s # Nobody
  /\ generations' = [generations EXCEPT ![s] = @ + 1]
  /\ Drop(CachedOf(s))
  /\ handler' = [handler EXCEPT ![h] = Nobody]
  /\ UNCHANGED <<clock, version, flights, client>>

Tick ==
  /\ clock < MaxClock
  /\ clock' = clock + 1
  /\ UNCHANGED <<version, handler, cache, flights, generations, client>>

Answer(c) ==
  Hit(c) \/ Join(c) \/ Lead(c) \/ ReadTotals(c) \/ ReadPoints(c) \/ RenderFails(c) \/ Finish(c)

Next ==
  \/ \E c \in Clients : Arrive(c) \/ Answer(c) \/ Leave(c)
  \/ \E h \in Handlers : DeleteSite(h) \/ \E s \in Sites : Commit(h, s)
  \/ Tick

Spec == Init /\ [][Next]_vars

-----------------------------------------------------------------------------
(* Properties *)

Step(s) == {c \in Clients : client[c].step = s}

StateTypes ==
  /\ clock \in 0 .. MaxClock
  /\ version \in [Sites -> Nat]
  /\ handler \in [Handlers -> Sites \cup {Nobody}]
  /\ Cached \subseteq Keys /\ \A k \in Cached : entries[k] \in Item
  /\ generations \in [Sites -> Nat]
  /\ flights \subseteq Keys
  /\ client \in [Clients -> Client]

TypeOK == StateTypes /\ bytes \in Nat /\ siteEntries \in [Sites -> Nat]

\* A change of s is committed and its deleteSite has not run yet.
Pending(s) == \E h \in Handlers : handler[h] = s

\* A cached map is of the Site's present data, its totals and its points, unless a
\* handler is between its commit and its deleteSite: no render in flight brings old
\* or torn data back after an invalidation (getOrRender, deleteSite).
CacheIsCurrent ==
  \A k \in Cached :
     \/ Pending(SiteOf[k])
     \/ entries[k].totals = version[SiteOf[k]] /\ entries[k].points = version[SiteOf[k]]

\* The list, the map and the two running counters tell the same story after any
\* series of hits, expiries, replacements, evictions and invalidations.
CountersAgree ==
  /\ ToSet(order) = Cached /\ Len(order) = Cardinality(Cached)
  /\ bytes = TotalSize(Cached, entries)
  /\ \A s \in Sites : siteEntries[s] = Cardinality(CachedOf(s))

\* No Site has more entries than its share, and the bodies fit into the cache's
\* bytes, whenever the mutex is free (putLocked).
LimitsHold ==
  /\ TotalSize(Cached, entries) <= MaxBytes
  /\ \A s \in Sites : Cardinality(CachedOf(s)) <= MaxSiteEntries

\* A key is rendered by one request at a time, it has a flight exactly then, and whoever
\* waits, waits for such a flight: no request is left behind by the leader it joined.
OneRenderPerKey ==
  LET rendering == Step("leading") \cup Step("halfway") \cup Step("rendered") \cup Step("failed")
  IN  /\ \A c, d \in rendering : client[c].key = client[d].key => c = d
      /\ flights = {client[c].key : c \in rendering}
      /\ \A c \in Step("waiting") : client[c].key \in flights

\* What a leader read before any deleteSite of its Site is current, or will be
\* invalidated by a handler that has yet to run its deleteSite.  (With the next one,
\* the inductive invariant of MapCacheProofs.)
FlightsCurrent ==
  \A c \in Clients :
    LET s == SiteOf[client[c].key]
        valid == client[c].generation = generations[s] /\ ~ Pending(s)
    IN  /\ client[c].step = "halfway" /\ valid => client[c].totals = version[s]
        /\ client[c].step = "rendered" /\ valid =>
              client[c].item.totals = version[s] /\ client[c].item.points = version[s]

\* No leader has a generation of the future.
GenerationsPast ==
  \A c \in Clients : client[c].step \in {"leading", "halfway", "rendered", "failed"} =>
    client[c].generation <= generations[SiteOf[client[c].key]]

IInv == StateTypes /\ GenerationsPast /\ FlightsCurrent /\ CacheIsCurrent /\ OneRenderPerKey

=============================================================================
