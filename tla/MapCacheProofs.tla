---------------------------- MODULE MapCacheProofs ----------------------------
(***************************************************************************)
(* Proofs about MapCache for every number of Sites, maps, requests and      *)
(* handlers, every limit and every size.                                    *)
(***************************************************************************)
EXTENDS MapAnswers, RecursionTheorems, SequenceTheorems, TLAPS

Rendering == {"leading", "halfway", "rendered", "failed"}

\* What a locked section of the cache does to a state in which every entry is
\* current: it only removes entries, or also stores the one of a leader.
Shrinks == Cached' \subseteq Cached /\ \A k \in Cached' : entries'[k] = entries[k]

LEMMA DropShrinks ==
  ASSUME NEW keys, Drop(keys)
  PROVE  Shrinks /\ Cached' = Cached \ keys
BY DEF Drop, Shrinks, Cached

\* putLocked stores at most the new item; everything else was there before.
LEMMA PutStores ==
  ASSUME NEW k, NEW item, Put(k, item)
  PROVE  /\ Cached' \subseteq Cached \cup {k}
         /\ \A j \in Cached' : entries'[j] = IF j = k THEN item ELSE entries[j]
<1>1. CASE item.size > MaxBytes
  <2>1. Shrinks /\ Cached' = Cached \ ({k} \cap Cached)
    BY <1>1, DropShrinks DEF Put
  <2> QED BY <2>1 DEF Shrinks
<1>2. CASE ~ (item.size > MaxBytes)
  <2> DEFINE items == [j \in Cached \cup {k} |-> IF j = k THEN item ELSE entries[j]]
  <2>1. PICK kept : entries' = [j \in (Cached \cup {k}) \ ((Cached \cup {k}) \ kept) |-> items[j]]
    BY <1>2 DEF Put
  <2>2. Cached' = (Cached \cup {k}) \ ((Cached \cup {k}) \ kept)
    BY <2>1 DEF Cached
  <2> QED BY <2>1, <2>2
<1> QED BY <1>1, <1>2

-----------------------------------------------------------------------------
(* The inductive invariant *)

LEMMA Initially == Init => IInv
<1> SUFFICES ASSUME Init PROVE IInv
  OBVIOUS
<1> USE DEF Init
<1>1. StateTypes
  BY CacheAssumption, HandlerAssumption DEF StateTypes, Cached, Client, idle
<1>2. GenerationsPast /\ FlightsCurrent
  BY DEF GenerationsPast, FlightsCurrent, idle
<1>3. CacheIsCurrent
  BY DEF CacheIsCurrent, Cached
<1>4. OneRenderPerKey
  BY DEF OneRenderPerKey, Step, idle
<1> QED BY <1>1, <1>2, <1>3, <1>4 DEF IInv

\* A step of a request that is no render: it only moves itself and drops entries.
LEMMA Bystander ==
  ASSUME IInv, NEW c \in Clients, NEW r \in Client,
         client[c].step \notin Rendering, r.step \notin Rendering,
         r.step = "waiting" => r.key \in flights,
         client' = [client EXCEPT ![c] = r], Shrinks,
         UNCHANGED <<clock, version, handler, flights, generations>>
  PROVE  IInv'
<1> USE DEF IInv, StateTypes
<1>1. \A d \in Clients : d # c => client'[d] = client[d]
  OBVIOUS
<1>2. client'[c] = r
  OBVIOUS
<1>3. StateTypes'
  BY DEF Shrinks, Cached
<1>4. GenerationsPast'
  BY <1>1, <1>2 DEF GenerationsPast, Rendering
<1>5. FlightsCurrent'
  BY <1>1, <1>2 DEF FlightsCurrent, Pending, Rendering
<1>6. CacheIsCurrent'
  BY DEF CacheIsCurrent, Pending, Shrinks
<1>7. OneRenderPerKey'
  <2>1. \A s \in Rendering : Step(s)' = Step(s)
    BY <1>1, <1>2 DEF Step, Rendering
  <2>2. \A d \in Clients : client[d].step \in Rendering => client'[d] = client[d]
    BY <1>1
  <2>3. \A d \in Clients : client'[d].step = "waiting" => client'[d].key \in flights'
    BY <1>1, <1>2 DEF OneRenderPerKey, Step
  <2> QED BY <2>1, <2>2, <2>3 DEF OneRenderPerKey, Step, Rendering
<1> QED BY <1>3, <1>4, <1>5, <1>6, <1>7

\* A step of a render under way: it keeps its key and its generation, and what it
\* has read is what its FlightsCurrent asks for.
LEMMA RenderMoves ==
  ASSUME IInv, NEW c \in Clients, NEW r \in Client,
         client[c].step \in Rendering, r.step \in Rendering,
         r.key = client[c].key, r.generation = client[c].generation,
         client' = [client EXCEPT ![c] = r],
         r.step = "halfway" => r.totals = version[SiteOf[r.key]],
         r.step = "rendered" /\ r.generation = generations[SiteOf[r.key]]
           /\ ~ Pending(SiteOf[r.key]) =>
              r.item.totals = version[SiteOf[r.key]] /\ r.item.points = version[SiteOf[r.key]],
         UNCHANGED <<clock, version, handler, cache, flights, generations>>
  PROVE  IInv'
<1> USE DEF IInv, StateTypes
<1>1. \A d \in Clients : d # c => client'[d] = client[d]
  OBVIOUS
<1>2. client'[c] = r
  OBVIOUS
<1>3. StateTypes'
  BY DEF cache, Cached
<1>4. GenerationsPast'
  BY <1>1, <1>2 DEF GenerationsPast, Rendering
<1>5. FlightsCurrent'
  BY <1>1, <1>2 DEF FlightsCurrent, Pending
<1>6. CacheIsCurrent'
  BY DEF CacheIsCurrent, Pending, cache, Cached
<1>7. OneRenderPerKey'
  <2>1. \A d \in Clients : client'[d].step \in Rendering <=> client[d].step \in Rendering
    BY <1>1, <1>2
  <2>2. \A d \in Clients : client[d].step \in Rendering => client'[d].key = client[d].key
    BY <1>1, <1>2
  <2>3. \A d \in Clients : client'[d].step = "waiting" => client'[d].key \in flights'
    BY <1>1, <1>2 DEF OneRenderPerKey, Step, Rendering
  <2> QED BY <2>1, <2>2, <2>3 DEF OneRenderPerKey, Step, Rendering
<1> QED BY <1>3, <1>4, <1>5, <1>6, <1>7

LEMMA ArriveStep == ASSUME IInv, NEW c \in Clients, Arrive(c) PROVE IInv'
<1>1. PICK k \in Keys : client' = [client EXCEPT ![c] = [step |-> "arrived", key |-> k, now |-> clock]]
  BY DEF Arrive
<1>2. [step |-> "arrived", key |-> k, now |-> clock] \in Client
  BY DEF Client, IInv, StateTypes
<1>3. Shrinks
  BY DEF Arrive, Shrinks, cache, Cached
<1> QED BY <1>1, <1>2, <1>3, Bystander DEF Arrive, Rendering

LEMMA IdleClient == idle \in Client
BY DEF idle, Client

LEMMA WaitingClient == ASSUME NEW k \in Keys PROVE [step |-> "waiting", key |-> k] \in Client
BY DEF Client

LEMMA HitStep == ASSUME IInv, NEW c \in Clients, Hit(c) PROVE IInv'
<1>1. Shrinks
  BY DEF Hit, Shrinks, Cached
<1> QED BY <1>1, IdleClient, Bystander DEF Hit, Rendering, idle

LEMMA JoinStep == ASSUME IInv, NEW c \in Clients, Join(c) PROVE IInv'
<1>1. client[c].key \in Keys
  BY DEF Join, IInv, StateTypes, Client
<1>2. Shrinks
  BY DropShrinks DEF Join
<1> QED BY <1>1, <1>2, WaitingClient, Bystander DEF Join, Rendering

LEMMA LeaveStep == ASSUME IInv, NEW c \in Clients, Leave(c) PROVE IInv'
<1>1. Shrinks
  BY DEF Leave, Shrinks, cache, Cached
<1> QED BY <1>1, IdleClient, Bystander DEF Leave, Rendering, idle

LEMMA LeadStep == ASSUME IInv, NEW c \in Clients, Lead(c) PROVE IInv'
<1> USE DEF IInv, StateTypes
<1> DEFINE k == client[c].key
           r == [step |-> "leading", key |-> k, generation |-> generations[SiteOf[k]]]
<1>1. k \in Keys /\ SiteOf[k] \in Sites
  BY CacheAssumption DEF Lead, Client
<1>2. r \in Client
  BY <1>1 DEF Client
<1>3. client' = [client EXCEPT ![c] = r] /\ client[c].step = "arrived"
  BY DEF Lead
<1>4. Shrinks
  BY DropShrinks DEF Lead
<1>5. UNCHANGED <<clock, version, handler, generations>> /\ k \notin flights /\ flights' = flights \cup {k}
  BY DEF Lead
<1>6. StateTypes'
  BY <1>1, <1>2, <1>3, <1>4, <1>5 DEF Shrinks
<1>7. GenerationsPast'
  BY <1>1, <1>3, <1>5 DEF GenerationsPast
<1>8. FlightsCurrent'
  BY <1>3, <1>5 DEF FlightsCurrent, Pending
<1>9. CacheIsCurrent'
  BY <1>4, <1>5 DEF CacheIsCurrent, Pending, Shrinks
<1>10. OneRenderPerKey'
  <2>1. \A d \in Clients : client'[d].step \in Rendering <=> d = c \/ client[d].step \in Rendering
    BY <1>3 DEF Rendering
  <2>2. \A d \in Clients : client[d].step \in Rendering => client'[d].key = client[d].key
    BY <1>3
  <2>3. client'[c].key = k
    BY <1>3
  <2>4. \A d \in Clients : client[d].step \in Rendering => client[d].key # k
    BY <1>5 DEF OneRenderPerKey, Step, Rendering
  <2>5. \A d \in Clients : client'[d].step = "waiting" => client'[d].key \in flights'
    BY <1>3, <1>5 DEF OneRenderPerKey, Step
  <2> QED BY <2>1, <2>2, <2>3, <2>4, <2>5, <1>5 DEF OneRenderPerKey, Step, Rendering
<1> QED BY <1>6, <1>7, <1>8, <1>9, <1>10

LEMMA ReadTotalsStep == ASSUME IInv, NEW c \in Clients, ReadTotals(c) PROVE IInv'
<1> DEFINE r == [step |-> "halfway", key |-> client[c].key, generation |-> client[c].generation,
                 totals |-> version[SiteOf[client[c].key]]]
<1>1. client[c].key \in Keys /\ client[c].generation \in Nat
  BY DEF ReadTotals, IInv, StateTypes, Client
<1>2. version[SiteOf[client[c].key]] \in Nat
  BY <1>1, CacheAssumption DEF IInv, StateTypes
<1>3. r \in Client
  BY <1>1, <1>2 DEF Client
<1>4. client' = [client EXCEPT ![c] = r]
  BY DEF ReadTotals
<1> QED BY <1>3, <1>4, RenderMoves DEF ReadTotals, Rendering

LEMMA ReadPointsStep == ASSUME IInv, NEW c \in Clients, ReadPoints(c) PROVE IInv'
<1>1. client[c].key \in Keys /\ client[c].generation \in Nat /\ client[c].totals \in Nat
  BY DEF ReadPoints, IInv, StateTypes, Client
<1>2. version[SiteOf[client[c].key]] \in Nat /\ clock + TTL \in Nat
  BY <1>1, CacheAssumption DEF IInv, StateTypes
<1>3. PICK size \in Sizes : client' = [client EXCEPT ![c] =
        [step |-> "rendered", key |-> client[c].key, generation |-> client[c].generation,
         item |-> [totals |-> client[c].totals, points |-> version[SiteOf[client[c].key]],
                   size |-> size, expires |-> clock + TTL]]]
  BY DEF ReadPoints
<1> DEFINE i == [totals |-> client[c].totals, points |-> version[SiteOf[client[c].key]],
                 size |-> size, expires |-> clock + TTL]
           r == [step |-> "rendered", key |-> client[c].key, generation |-> client[c].generation,
                 item |-> i]
<1>4. i \in Item
  BY <1>1, <1>2 DEF Item
<1>5. r \in Client
  BY <1>1, <1>4 DEF Client
<1>6. r.generation = generations[SiteOf[r.key]] /\ ~ Pending(SiteOf[r.key])
        => client[c].totals = version[SiteOf[client[c].key]]
  BY DEF ReadPoints, IInv, FlightsCurrent
<1> QED BY <1>3, <1>5, <1>6, RenderMoves DEF ReadPoints, Rendering

LEMMA RenderFailsStep == ASSUME IInv, NEW c \in Clients, RenderFails(c) PROVE IInv'
<1> DEFINE r == [step |-> "failed", key |-> client[c].key, generation |-> client[c].generation]
<1>1. client[c].key \in Keys /\ client[c].generation \in Nat
  BY DEF RenderFails, IInv, StateTypes, Client
<1>2. r \in Client
  BY <1>1 DEF Client
<1> QED BY <1>2, RenderMoves DEF RenderFails, Rendering

LEMMA FinishStep == ASSUME IInv, NEW c \in Clients, Finish(c) PROVE IInv'
<1> USE DEF IInv, StateTypes
<1> DEFINE k == client[c].key
           stored == client[c].step = "rendered" /\ SameGeneration(c)
<1>1. k \in Keys /\ SiteOf[k] \in Sites
  BY CacheAssumption DEF Finish, Client
<1>2. client[c].step = "rendered" => client[c].item \in Item
  BY <1>1 DEF Client
<1>3. \A d \in Clients : client'[d] = idle \/ client'[d] = client[d]
  BY DEF Finish, Landed
<1>4. \A d \in Clients : client'[d].step \in Rendering <=> d # c /\ client[d].step \in Rendering
  BY DEF Finish, Landed, idle, Rendering
<1>5. \A d \in Clients : d # c /\ client[d].step \in Rendering => client'[d] = client[d]
  BY DEF Finish, Landed, Rendering
<1>6. UNCHANGED <<clock, version, handler, generations>> /\ flights' = flights \ {k}
  BY DEF Finish
<1>7. /\ Cached' \subseteq Cached \cup {k}
      /\ \A j \in Cached' : \/ entries'[j] = entries[j] /\ j \in Cached
                            \/ stored /\ j = k /\ entries'[j] = client[c].item
  <2>1. CASE stored
    BY <2>1, PutStores DEF Finish
  <2>2. CASE ~ stored
    BY <2>2 DEF Finish, cache, Cached
  <2> QED BY <2>1, <2>2
<1>8. StateTypes'
  <2>1. client' \in [Clients -> Client]
    BY <1>3, IdleClient DEF Finish, Landed
  <2>2. Cached' \subseteq Keys /\ \A j \in Cached' : entries'[j] \in Item
    BY <1>1, <1>2, <1>7
  <2> QED BY <2>1, <2>2, <1>6
<1>9. GenerationsPast'
  BY <1>4, <1>5, <1>6 DEF GenerationsPast, Rendering
<1>10. FlightsCurrent'
  BY <1>3, <1>6 DEF FlightsCurrent, Pending, idle
<1>11. CacheIsCurrent'
  <2>1. stored /\ ~ Pending(SiteOf[k]) =>
          client[c].item.totals = version[SiteOf[k]] /\ client[c].item.points = version[SiteOf[k]]
    BY DEF FlightsCurrent, SameGeneration
  <2> QED BY <2>1, <1>6, <1>7 DEF CacheIsCurrent, Pending
<1>12. OneRenderPerKey'
  <2>1. client[c].step \in Rendering
    BY DEF Finish, Rendering
  <2>2. \A d \in Clients : d # c /\ client[d].step \in Rendering => client[d].key # k
    BY <2>1 DEF OneRenderPerKey, Step, Rendering
  <2>3. ASSUME NEW d \in Clients, client'[d].step = "waiting"
        PROVE  client'[d].key \in flights'
    <3>1. client'[d] = client[d] /\ client[d].step = "waiting"
      BY <2>3, <1>3 DEF idle
    <3>2. client[d].key # k
      BY <2>3, <3>1 DEF Finish, Landed, idle
    <3>3. client[d].key \in flights
      BY <3>1 DEF OneRenderPerKey, Step
    <3> QED BY <3>1, <3>2, <3>3, <1>6
  <2> QED BY <2>1, <2>2, <2>3, <1>4, <1>5, <1>6 DEF OneRenderPerKey, Step, Rendering
<1> QED BY <1>8, <1>9, <1>10, <1>11, <1>12

LEMMA CommitStep == ASSUME IInv, NEW h \in Handlers, NEW s \in Sites, Commit(h, s) PROVE IInv'
<1> USE DEF IInv, StateTypes
<1>1. Pending(s)'
  BY DEF Commit, Pending
<1>2. \A t \in Sites : Pending(t) => Pending(t)'
  BY HandlerAssumption DEF Commit, Pending
<1>3. \A t \in Sites : t # s => version'[t] = version[t]
  BY DEF Commit
<1>4. UNCHANGED <<clock, cache, flights, generations, client>>
  BY DEF Commit
<1>5. StateTypes'
  BY <1>4, CacheAssumption DEF Commit, cache, Cached
<1>6. GenerationsPast' /\ OneRenderPerKey'
  BY <1>4 DEF GenerationsPast, OneRenderPerKey, Step
<1>7. FlightsCurrent'
  <2> SUFFICES ASSUME NEW c \in Clients, client[c].step \in {"halfway", "rendered"},
                      client[c].generation = generations[SiteOf[client[c].key]],
                      ~ Pending(SiteOf[client[c].key])'
               PROVE  /\ client[c].step = "halfway" =>
                           client[c].totals = version'[SiteOf[client[c].key]]
                      /\ client[c].step = "rendered" =>
                           /\ client[c].item.totals = version'[SiteOf[client[c].key]]
                           /\ client[c].item.points = version'[SiteOf[client[c].key]]
    BY <1>4 DEF FlightsCurrent, Pending
  <2>1. SiteOf[client[c].key] \in Sites
    BY CacheAssumption DEF Client
  <2>2. SiteOf[client[c].key] # s
    BY <1>1, <1>4 DEF Pending
  <2>3. ~ Pending(SiteOf[client[c].key])
    BY <1>2, <1>4, <2>1 DEF Pending
  <2> QED BY <2>1, <2>2, <2>3, <1>3 DEF FlightsCurrent
<1>8. CacheIsCurrent'
  <2> SUFFICES ASSUME NEW k \in Cached, ~ Pending(SiteOf[k])'
               PROVE  entries[k].totals = version'[SiteOf[k]] /\ entries[k].points = version'[SiteOf[k]]
    BY <1>4 DEF CacheIsCurrent, Pending, cache, Cached
  <2>1. SiteOf[k] \in Sites
    BY CacheAssumption
  <2>2. SiteOf[k] # s /\ ~ Pending(SiteOf[k])
    BY <1>1, <1>2, <2>1 DEF Pending
  <2> QED BY <2>1, <2>2, <1>3 DEF CacheIsCurrent
<1> QED BY <1>5, <1>6, <1>7, <1>8

\* The heart of the argument: deleteSite outdates every render of the Site that has
\* begun, and removes every entry of it.
LEMMA DeleteSiteStep == ASSUME IInv, NEW h \in Handlers, DeleteSite(h) PROVE IInv'
<1> USE DEF IInv, StateTypes
<1> DEFINE s == handler[h]
<1>1. s \in Sites
  BY DEF DeleteSite
<1>2. Shrinks /\ Cached' = Cached \ CachedOf(s)
  BY DropShrinks DEF DeleteSite
<1>3. UNCHANGED <<clock, version, flights, client>>
  BY DEF DeleteSite
<1>4. generations' = [generations EXCEPT ![s] = @ + 1]
  BY DEF DeleteSite
<1>5. \A t \in Sites : t # s => generations'[t] = generations[t] /\ (Pending(t) => Pending(t)')
  BY <1>4 DEF DeleteSite, Pending
<1>6. generations' \in [Sites -> Nat] /\ \A t \in Sites : generations[t] <= generations'[t]
  BY <1>1, <1>4
<1>7. StateTypes'
  <2>1. handler' \in [Handlers -> Sites \cup {Nobody}]
    BY DEF DeleteSite
  <2>2. Cached' \subseteq Keys /\ \A j \in Cached' : entries'[j] \in Item
    BY <1>2 DEF Shrinks
  <2> QED BY <2>1, <2>2, <1>3, <1>6
<1>8. GenerationsPast'
  <2> SUFFICES ASSUME NEW c \in Clients, client[c].step \in Rendering
               PROVE  client[c].generation <= generations'[SiteOf[client[c].key]]
    BY <1>3 DEF GenerationsPast, Rendering
  <2>1. SiteOf[client[c].key] \in Sites /\ client[c].generation \in Nat
    BY CacheAssumption DEF Client, Rendering
  <2>2. client[c].generation <= generations[SiteOf[client[c].key]]
    BY DEF GenerationsPast, Rendering
  <2>3. generations[SiteOf[client[c].key]] <= generations'[SiteOf[client[c].key]]
    BY <2>1, <1>6
  <2>4. generations[SiteOf[client[c].key]] \in Nat /\ generations'[SiteOf[client[c].key]] \in Nat
    BY <2>1, <1>6
  <2> QED BY <2>1, <2>2, <2>3, <2>4
<1>9. FlightsCurrent'
  <2> SUFFICES ASSUME NEW c \in Clients, client[c].step \in {"halfway", "rendered"},
                      client[c].generation = generations'[SiteOf[client[c].key]],
                      ~ Pending(SiteOf[client[c].key])'
               PROVE  /\ client[c].step = "halfway" =>
                           client[c].totals = version[SiteOf[client[c].key]]
                      /\ client[c].step = "rendered" =>
                           /\ client[c].item.totals = version[SiteOf[client[c].key]]
                           /\ client[c].item.points = version[SiteOf[client[c].key]]
    BY <1>3 DEF FlightsCurrent, Pending
  <2>1. SiteOf[client[c].key] \in Sites /\ client[c].generation \in Nat
    BY CacheAssumption DEF Client
  <2>2. client[c].generation <= generations[SiteOf[client[c].key]]
    BY DEF GenerationsPast
  <2>3. SiteOf[client[c].key] # s
    <3>1. generations[s] \in Nat /\ generations'[s] = generations[s] + 1
      BY <1>1, <1>4
    <3> QED BY <3>1, <2>1, <2>2
  <2>4. client[c].generation = generations[SiteOf[client[c].key]]
    BY <2>1, <2>3, <1>5
  <2>5. ~ Pending(SiteOf[client[c].key])
    BY <2>1, <2>3, <1>3, <1>5 DEF Pending
  <2> QED BY <2>4, <2>5 DEF FlightsCurrent
<1>10. CacheIsCurrent'
  <2> SUFFICES ASSUME NEW k \in Cached', ~ Pending(SiteOf[k])'
               PROVE  entries'[k].totals = version[SiteOf[k]] /\ entries'[k].points = version[SiteOf[k]]
    BY <1>3 DEF CacheIsCurrent, Pending
  <2>1. k \in Cached /\ entries'[k] = entries[k] /\ SiteOf[k] # s
    BY <1>2 DEF Shrinks, CachedOf
  <2>2. SiteOf[k] \in Sites
    BY <2>1, CacheAssumption
  <2> QED BY <2>1, <2>2, <1>5 DEF CacheIsCurrent
<1>11. OneRenderPerKey'
  BY <1>3 DEF OneRenderPerKey, Step
<1> QED BY <1>7, <1>8, <1>9, <1>10, <1>11

LEMMA TickStep == ASSUME IInv, Tick PROVE IInv'
<1> USE DEF IInv, StateTypes, Tick
<1>1. StateTypes'
  BY CacheAssumption DEF cache, Cached
<1>2. GenerationsPast' /\ FlightsCurrent' /\ CacheIsCurrent' /\ OneRenderPerKey'
  BY DEF GenerationsPast, FlightsCurrent, CacheIsCurrent, OneRenderPerKey, Step, Pending, cache, Cached
<1> QED BY <1>1, <1>2

LEMMA Inductive == IInv /\ [Next]_vars => IInv'
<1> SUFFICES ASSUME IInv, [Next]_vars PROVE IInv'
  OBVIOUS
<1>1. CASE UNCHANGED vars
  BY <1>1 DEF vars, cache, IInv, StateTypes, GenerationsPast, FlightsCurrent, CacheIsCurrent,
              OneRenderPerKey, Step, Pending, Cached
<1>2. ASSUME NEW c \in Clients, Arrive(c) \/ Answer(c) \/ Leave(c) PROVE IInv'
  BY <1>2, ArriveStep, HitStep, JoinStep, LeadStep, ReadTotalsStep, ReadPointsStep,
     RenderFailsStep, FinishStep, LeaveStep DEF Answer
<1>3. ASSUME NEW h \in Handlers, NEW s \in Sites, Commit(h, s) PROVE IInv'
  BY <1>3, CommitStep
<1>4. ASSUME NEW h \in Handlers, DeleteSite(h) PROVE IInv'
  BY <1>4, DeleteSiteStep
<1> QED BY <1>1, <1>2, <1>3, <1>4, TickStep DEF Next

-----------------------------------------------------------------------------
(* Lists without duplicates *)

Distinct(list) == \A i, j \in 1 .. Len(list) : list[i] = list[j] => i = j

LEMMA ListElements ==
  ASSUME NEW S, NEW list \in Seq(S)
  PROVE  /\ ToSet(list) = {list[i] : i \in 1 .. Len(list)}
         /\ ToSet(list) \subseteq S
         /\ IsFiniteSet(ToSet(list))
         /\ Distinct(list) <=> Len(list) = Cardinality(ToSet(list))
<1>1. Len(list) \in Nat /\ DOMAIN list = 1 .. Len(list) /\ list \in [1 .. Len(list) -> S]
  BY LenProperties
<1>2. ToSet(list) = {list[i] : i \in 1 .. Len(list)} /\ ToSet(list) \subseteq S
  BY <1>1 DEF ToSet
<1>3. list \in Surjection(1 .. Len(list), ToSet(list))
  BY <1>1, <1>2 DEF Surjection
<1>4. IsFiniteSet(1 .. Len(list)) /\ Cardinality(1 .. Len(list)) = Len(list)
  BY <1>1, FS_Interval
<1>5. /\ IsFiniteSet(ToSet(list))
      /\ Cardinality(ToSet(list)) = Len(list) <=> list \in Injection(1 .. Len(list), ToSet(list))
  BY <1>3, <1>4, FS_Surjection
<1>6. list \in Injection(1 .. Len(list), ToSet(list)) <=> Distinct(list)
  BY <1>1, <1>3 DEF Injection, Surjection, IsInjective, Distinct
<1> QED BY <1>2, <1>5, <1>6

\* g is the recursive function of Without, up to n.
Filters(list, keys, n, g) ==
  g = [i \in 0 .. n |->
         IF i = 0 THEN << >>
         ELSE IF list[i] \in keys THEN g[i - 1] ELSE Append(g[i - 1], list[i])]

LEMMA FiltersExists ==
  ASSUME NEW list, NEW keys, NEW n \in Nat
  PROVE  \E g : Filters(list, keys, n, g)
<1> DEFINE T == {m \in Nat : \E g : Filters(list, keys, m, g)}
<1>1. 0 \in T
  <2>1. Filters(list, keys, 0, [i \in 0 .. 0 |-> << >>])
    BY DEF Filters
  <2> QED BY <2>1
<1>2. ASSUME NEW i \in 0 .. (n - 1), i \in T PROVE i + 1 \in T
  <2>1. PICK g : Filters(list, keys, i, g)
    BY <1>2
  <2> DEFINE h == [j \in 0 .. i + 1 |->
                     IF j = i + 1
                     THEN IF list[j] \in keys THEN g[i] ELSE Append(g[i], list[j])
                     ELSE g[j]]
  <2>2. \A j \in 0 .. i : g[j] = IF j = 0 THEN << >>
                                ELSE IF list[j] \in keys THEN g[j - 1] ELSE Append(g[j - 1], list[j])
    BY <2>1 DEF Filters
  <2>3. \A j \in 0 .. i + 1 :
          h[j] = IF j = 0 THEN << >>
                 ELSE IF list[j] \in keys THEN h[j - 1] ELSE Append(h[j - 1], list[j])
    BY <2>2
  <2>4. Filters(list, keys, i + 1, h)
    BY <2>3 DEF Filters
  <2> QED BY <2>4
<1>3. n \in T
  <2> HIDE DEF T
  <2> QED BY <1>1, <1>2, IntervalInduction
<1> QED BY <1>3

\* What list.Remove leaves: the other elements, in a list without duplicates.
LEMMA WithoutLaws ==
  ASSUME NEW S, NEW list \in Seq(S), NEW keys
  PROVE  /\ Without(list, keys) \in Seq(S)
         /\ ToSet(Without(list, keys)) = ToSet(list) \ keys
         /\ Distinct(list) => Distinct(Without(list, keys))
<1> DEFINE n == Len(list)
           g == CHOOSE h : Filters(list, keys, n, h)
<1>1. n \in Nat
  BY LenProperties
<1>2. Without(list, keys) = g[n]
  BY DEF Without, Filters
<1>3. Filters(list, keys, n, g)
  BY <1>1, FiltersExists
<1> HIDE DEF g
<1>4. /\ g[0] = << >>
      /\ \A i \in 0 .. (n - 1) :
           g[i + 1] = IF list[i + 1] \in keys THEN g[i] ELSE Append(g[i], list[i + 1])
  <2> HIDE DEF n
  <2>1. \A j \in 0 .. n : g[j] = IF j = 0 THEN << >>
                                ELSE IF list[j] \in keys THEN g[j - 1] ELSE Append(g[j - 1], list[j])
    BY <1>3 DEF Filters
  <2>2. 0 \in 0 .. n
    BY <1>1
  <2>3. ASSUME NEW i \in 0 .. (n - 1)
        PROVE  g[i + 1] = IF list[i + 1] \in keys THEN g[i] ELSE Append(g[i], list[i + 1])
    <3>1. i + 1 \in 0 .. n /\ i + 1 # 0 /\ (i + 1) - 1 = i
      BY <1>1
    <3>2. g[i + 1] = IF list[i + 1] \in keys THEN g[(i + 1) - 1] ELSE Append(g[(i + 1) - 1], list[i + 1])
      BY <2>1, <3>1
    <3> QED BY <3>1, <3>2
  <2> QED BY <2>1, <2>2, <2>3
<1> DEFINE Good(i) == /\ g[i] \in Seq(S)
                      /\ ToSet(g[i]) = {list[j] : j \in 1 .. i} \ keys
                      /\ Distinct(list) => Distinct(g[i])
           T == {i \in Nat : Good(i)}
<1>5. 0 \in T
  <2>1. g[0] \in Seq(S) /\ Len(g[0]) = 0
    BY <1>4, EmptySeq
  <2>2. ToSet(g[0]) = {}
    BY <2>1, ListElements
  <2>3. Distinct(g[0])
    BY <2>1 DEF Distinct
  <2>4. {list[j] : j \in 1 .. 0} = {}
    OBVIOUS
  <2> QED BY <2>1, <2>2, <2>3, <2>4
<1>6. ASSUME NEW i \in 0 .. (n - 1), i \in T PROVE i + 1 \in T
  <2> DEFINE e == list[i + 1]
  <2>1. i + 1 \in 1 .. n /\ e \in S
    BY <1>1, ElementOfSeq
  <2>2. Good(i)
    BY <1>6
  <2>3. {list[j] : j \in 1 .. i + 1} = {list[j] : j \in 1 .. i} \cup {e}
    OBVIOUS
  <2>4. CASE e \in keys
    <3>1. g[i + 1] = g[i]
      BY <2>4, <1>4
    <3> QED BY <2>2, <2>3, <2>4, <3>1
  <2>5. CASE e \notin keys
    <3> DEFINE old == g[i]  new == g[i + 1]
    <3>1. new = Append(old, e)
      BY <2>5, <1>4
    <3>2. old \in Seq(S)
      BY <2>2
    <3> HIDE DEF old, new
    <3>3. /\ new \in Seq(S) /\ Len(new) = Len(old) + 1 /\ new[Len(old) + 1] = e
          /\ \A j \in 1 .. Len(old) : new[j] = old[j]
      BY <3>1, <3>2, <2>1, AppendProperties
    <3>4. Len(old) \in Nat
      BY <3>2, LenProperties
    <3>5. ToSet(new) = ToSet(old) \cup {e}
      <4>1. /\ ToSet(new) = {new[j] : j \in 1 .. Len(new)}
            /\ ToSet(old) = {old[j] : j \in 1 .. Len(old)}
        BY <3>2, <3>3, ListElements
      <4> QED BY <4>1, <3>3, <3>4
    <3>6. ToSet(new) = {list[j] : j \in 1 .. i + 1} \ keys
      BY <3>5, <2>2, <2>3, <2>5 DEF old
    <3>7. ASSUME Distinct(list) PROVE Distinct(new)
      <4>1. e \notin ToSet(old)
        BY <3>7, <2>1, <2>2 DEF Distinct, old
      <4>2. \A j \in 1 .. Len(old) : old[j] # e
        BY <4>1, <3>2, ListElements
      <4>3. Distinct(old)
        BY <3>7, <2>2 DEF old
      <4> QED BY <4>2, <4>3, <3>3, <3>4 DEF Distinct
    <3> QED BY <3>3, <3>6, <3>7 DEF new
  <2> QED BY <2>4, <2>5
<1>7. n \in T
  <2> HIDE DEF T, n
  <2> QED BY <1>1, <1>5, <1>6, IntervalInduction
<1>8. ToSet(list) = {list[j] : j \in 1 .. n}
  BY ListElements
<1> QED BY <1>2, <1>7, <1>8

-----------------------------------------------------------------------------
(* The list, the map and the counters *)

Share(keys, s) == {k \in keys : SiteOf[k] = s}

HasSizes(items, keys) == keys \subseteq DOMAIN items /\ \A k \in keys : items[k].size \in Nat

LEMMA TotalLaws ==
  ASSUME NEW items, NEW K, IsFiniteSet(K), HasSizes(items, K), NEW A \in SUBSET K
  PROVE  /\ TotalSize(K, items) \in Nat /\ TotalSize(A, items) \in Nat
         /\ TotalSize(K \ A, items) = TotalSize(K, items) - TotalSize(A, items)
         /\ TotalSize(A, items) <= TotalSize(K, items)
<1> DEFINE f == [k \in DOMAIN items |-> items[k].size]
<1>1. \A k \in K : f[k] \in Nat
  BY DEF HasSizes
<1>2. IsFiniteSet(A)
  BY FS_Subset
<1> HIDE DEF f
<1>3. SumFunctionOnSet(f, K) \in Nat /\ SumFunctionOnSet(f, A) \in Nat
  BY <1>1, <1>2, SumIsNat
<1>4. SumFunctionOnSet(f, K \ A) = SumFunctionOnSet(f, K) - SumFunctionOnSet(f, A)
  BY <1>1, SumOfDifference
<1>5. SumFunctionOnSet(f, A) <= SumFunctionOnSet(f, K)
  BY <1>1, SumIsMonotone
<1> QED BY <1>3, <1>4, <1>5 DEF TotalSize, f

LEMMA TotalCongruence ==
  ASSUME NEW items, NEW others, NEW K, IsFiniteSet(K),
         K \subseteq DOMAIN items, K \subseteq DOMAIN others,
         \A k \in K : items[k].size = others[k].size
  PROVE  TotalSize(K, items) = TotalSize(K, others)
<1> DEFINE f == [k \in DOMAIN items |-> items[k].size]
           h == [k \in DOMAIN others |-> others[k].size]
<1>1. \A k \in K : f[k] = h[k]
  OBVIOUS
<1> HIDE DEF f, h
<1>2. SumFunctionOnSet(f, K) = SumFunctionOnSet(h, K)
  BY <1>1, SumCongruence
<1> QED BY <1>2 DEF TotalSize, f, h

LEMMA TotalOfNone == ASSUME NEW items PROVE TotalSize({}, items) = 0
BY SumEmpty DEF TotalSize

LEMMA TotalOfOne ==
  ASSUME NEW items, NEW k, HasSizes(items, {k})
  PROVE  TotalSize({k}, items) = items[k].size
<1> DEFINE f == [j \in DOMAIN items |-> items[j].size]
           K == {k}
<1>1. f[k] = items[k].size /\ f[k] \in Nat
  BY DEF HasSizes
<1>2. IsFiniteSet(K) /\ k \in K /\ K \ {k} = {} /\ \A j \in K : f[j] \in Int
  <2>1. IsFiniteSet(K)
    BY FS_Singleton
  <2>2. k \in K /\ K \ {k} = {} /\ \A j \in K : j = k
    OBVIOUS
  <2> HIDE DEF K, f
  <2> QED BY <2>1, <2>2, <1>1
<1> HIDE DEF f, K
<1>3. SumFunctionOnSet(f, K) = f[k] + SumFunctionOnSet(f, K \ {k})
  BY <1>2, SumOfMember
<1>4. SumFunctionOnSet(f, K \ {k}) = 0
  BY <1>2, SumEmpty
<1>5. SumFunctionOnSet(f, K) = items[k].size
  BY <1>1, <1>3, <1>4
<1> QED BY <1>5 DEF TotalSize, f, K

\* MoveToFront and PushFront.
LEMMA FrontLaws ==
  ASSUME NEW list \in Seq(Keys), Distinct(list), NEW k \in Keys
  PROVE  /\ <<k>> \o Without(list, {k}) \in Seq(Keys)
         /\ ToSet(<<k>> \o Without(list, {k})) = ToSet(list) \cup {k}
         /\ Distinct(<<k>> \o Without(list, {k}))
<1> DEFINE rest == Without(list, {k})
           new == <<k>> \o rest
<1>1. rest \in Seq(Keys) /\ ToSet(rest) = ToSet(list) \ {k} /\ Distinct(rest)
  BY WithoutLaws
<1>2. <<k>> \in Seq(Keys) /\ Len(<<k>>) = 1 /\ <<k>>[1] = k
  OBVIOUS
<1> HIDE DEF rest
<1>3. /\ new \in Seq(Keys) /\ Len(new) = Len(rest) + 1
      /\ \A i \in 1 .. Len(rest) + 1 : new[i] = IF i <= 1 THEN k ELSE rest[i - 1]
  <2>1. /\ new \in Seq(Keys) /\ Len(new) = Len(<<k>>) + Len(rest)
        /\ \A i \in 1 .. Len(<<k>>) + Len(rest) :
             new[i] = IF i <= Len(<<k>>) THEN <<k>>[i] ELSE rest[i - Len(<<k>>)]
    BY <1>1, <1>2, ConcatProperties
  <2>2. Len(rest) \in Nat
    BY <1>1, LenProperties
  <2> QED BY <2>1, <2>2, <1>2
<1> HIDE DEF new
<1>4. Len(rest) \in Nat
  BY <1>1, LenProperties
<1>5. /\ ToSet(new) = {new[i] : i \in 1 .. Len(new)}
      /\ ToSet(rest) = {rest[i] : i \in 1 .. Len(rest)}
  BY <1>1, <1>3, ListElements
<1>6. ToSet(new) = {k} \cup ToSet(rest)
  <2>1. ASSUME NEW i \in 1 .. Len(new) PROVE new[i] \in {k} \cup ToSet(rest)
    <3>1. CASE i = 1
      BY <3>1, <1>3, <1>4
    <3>2. CASE i # 1
      <4>1. i - 1 \in 1 .. Len(rest) /\ new[i] = rest[i - 1]
        BY <3>2, <1>3, <1>4
      <4> QED BY <4>1, <1>5
    <3> QED BY <3>1, <3>2
  <2>2. k \in ToSet(new)
    <3>1. 1 \in 1 .. Len(new) /\ new[1] = k
      BY <1>3, <1>4
    <3> QED BY <3>1, <1>5
  <2>3. ASSUME NEW i \in 1 .. Len(rest) PROVE rest[i] \in ToSet(new)
    <3>1. i + 1 \in 1 .. Len(new) /\ new[i + 1] = rest[i]
      BY <1>3, <1>4
    <3> QED BY <3>1, <1>5
  <2> QED BY <2>1, <2>2, <2>3, <1>5
<1>7. Distinct(new)
  <2>1. \A i \in 1 .. Len(rest) : rest[i] # k
    BY <1>1, <1>5
  <2>2. ASSUME NEW i \in 1 .. Len(new), NEW j \in 1 .. Len(new), new[i] = new[j], i < j
        PROVE  FALSE
    <3>1. j - 1 \in 1 .. Len(rest) /\ new[j] = rest[j - 1]
      BY <2>2, <1>3, <1>4
    <3>2. i # 1
      BY <3>1, <2>1, <2>2, <1>3, <1>4
    <3>3. i - 1 \in 1 .. Len(rest) /\ new[i] = rest[i - 1]
      BY <3>2, <1>3, <1>4
    <3>4. i - 1 = j - 1
      BY <3>1, <3>3, <2>2, <1>1 DEF Distinct
    <3> QED BY <3>4, <2>2
  <2>3. \A i, j \in 1 .. Len(new) : i < j \/ j < i \/ i = j
    BY <1>3, <1>4
  <2> QED BY <2>2, <2>3 DEF Distinct
<1>8. ToSet(new) = ToSet(list) \cup {k}
  BY <1>1, <1>6
<1> QED BY <1>3, <1>7, <1>8 DEF new, rest

\* The loop over oldestForSite leaves a Site its share of the list.
LEMMA PerSiteLaws ==
  ASSUME NEW list \in Seq(Keys), Distinct(list), NEW s \in Sites
  PROVE  /\ KeptPerSite(list, s) \in Seq(Keys) /\ Distinct(KeptPerSite(list, s))
         /\ ToSet(KeptPerSite(list, s)) \subseteq ToSet(list)
         /\ Cardinality(Share(ToSet(KeptPerSite(list, s)), s)) <= MaxSiteEntries
<1> DEFINE upTo(i) == {j \in 1 .. i : SiteOf[list[j]] = s}
           rank(i) == Cardinality(upTo(i))
           late == {list[i] : i \in {n \in DOMAIN list : SiteOf[list[n]] = s /\ rank(n) > MaxSiteEntries}}
           kept == KeptPerSite(list, s)
<1>1. kept = Without(list, late)
  BY DEF KeptPerSite
<1>2. Len(list) \in Nat /\ DOMAIN list = 1 .. Len(list)
  BY LenProperties
<1>3. /\ kept \in Seq(Keys) /\ Distinct(kept)
      /\ ToSet(kept) = ToSet(list) \ late
  <2> HIDE DEF late, kept
  <2> QED BY <1>1, WithoutLaws
<1>4. \A i \in 1 .. Len(list) : IsFiniteSet(upTo(i)) /\ rank(i) \in Nat
  <2> SUFFICES ASSUME NEW i \in 1 .. Len(list) PROVE IsFiniteSet(upTo(i)) /\ rank(i) \in Nat
    OBVIOUS
  <2>1. IsFiniteSet(1 .. i)
    BY <1>2, FS_Interval
  <2> QED BY <2>1, FS_Subset, FS_CardinalityType
<1>5. ASSUME NEW i \in 1 .. Len(list), NEW j \in 1 .. Len(list), i < j, SiteOf[list[j]] = s
      PROVE  rank(i) < rank(j)
  <2>1. upTo(i) \subseteq upTo(j) /\ j \in upTo(j) /\ j \notin upTo(i)
    BY <1>2, <1>5
  <2>2. IsFiniteSet(upTo(j)) /\ rank(i) \in Nat /\ rank(j) \in Nat
    BY <1>4
  <2>3. Cardinality(upTo(i)) <= Cardinality(upTo(j)) /\ Cardinality(upTo(i)) # Cardinality(upTo(j))
    <3> HIDE DEF upTo
    <3> QED BY <2>1, <2>2, FS_Subset
  <2> QED BY <2>2, <2>3
<1>6. ASSUME NEW i \in 1 .. Len(list), SiteOf[list[i]] = s PROVE rank(i) # 0
  <2>1. i \in upTo(i)
    BY <1>2, <1>6
  <2> QED BY <2>1, <1>4, FS_EmptySet
<1> DEFINE K == Share(ToSet(kept), s)
           pos(k) == CHOOSE i \in 1 .. Len(list) : list[i] = k
           f == [k \in K |-> rank(pos(k))]
<1>7. ASSUME NEW k \in K
      PROVE  /\ pos(k) \in 1 .. Len(list) /\ list[pos(k)] = k
             /\ SiteOf[k] = s /\ rank(pos(k)) \in 1 .. MaxSiteEntries
  <2>1. k \in ToSet(list) /\ k \notin late /\ SiteOf[k] = s
    BY <1>3, <1>7 DEF Share
  <2>2. pos(k) \in 1 .. Len(list) /\ list[pos(k)] = k
    BY <2>1, ListElements
  <2>3. ~ (rank(pos(k)) > MaxSiteEntries)
    <3> HIDE DEF rank, pos
    <3> QED BY <2>1, <2>2, <1>2
  <2>4. rank(pos(k)) \in Nat /\ rank(pos(k)) # 0
    BY <2>1, <2>2, <1>4, <1>6
  <2> HIDE DEF rank, pos
  <2> QED BY <2>1, <2>2, <2>3, <2>4, CacheAssumption
<1>8. f \in Injection(K, 1 .. MaxSiteEntries)
  <2>1. ASSUME NEW a \in K, NEW b \in K, rank(pos(a)) = rank(pos(b)) PROVE a = b
    <3> HIDE DEF rank, pos, K
    <3>1. /\ pos(a) \in 1 .. Len(list) /\ list[pos(a)] = a /\ SiteOf[a] = s
          /\ pos(b) \in 1 .. Len(list) /\ list[pos(b)] = b /\ SiteOf[b] = s
      BY <1>7
    <3>2. rank(pos(a)) \in Nat /\ rank(pos(b)) \in Nat
      BY <3>1, <1>4 DEF rank
    <3>3. ~ (pos(a) < pos(b)) /\ ~ (pos(b) < pos(a))
      BY <3>1, <3>2, <2>1, <1>5
    <3>4. pos(a) = pos(b)
      BY <3>1, <3>3, <1>2
    <3> QED BY <3>1, <3>4
  <2>2. \A k \in K : rank(pos(k)) \in 1 .. MaxSiteEntries
    BY <1>7
  <2> HIDE DEF rank, pos, K
  <2> QED BY <2>1, <2>2 DEF Injection, IsInjective
<1>9. Cardinality(K) <= MaxSiteEntries
  <2>1. IsFiniteSet(1 .. MaxSiteEntries) /\ Cardinality(1 .. MaxSiteEntries) = MaxSiteEntries
    BY CacheAssumption, FS_Interval
  <2> HIDE DEF K, f
  <2> QED BY <2>1, <1>8, FS_Injection
<1> QED BY <1>3, <1>9

\* The loop over order.Back leaves a list that fits.
LEMMA InBytesLaws ==
  ASSUME NEW list \in Seq(Keys), Distinct(list), NEW items
  PROVE  /\ KeptInBytes(list, items) \in Seq(Keys) /\ Distinct(KeptInBytes(list, items))
         /\ ToSet(KeptInBytes(list, items)) \subseteq ToSet(list)
         /\ TotalSize(ToSet(KeptInBytes(list, items)), items) <= MaxBytes
<1> DEFINE fits == {n \in 0 .. Len(list) : TotalSize(ToSet(SubSeq(list, 1, n)), items) <= MaxBytes}
           kept == KeptInBytes(list, items)
<1>1. Len(list) \in Nat
  BY LenProperties
<1>2. 0 \in fits
  <2>1. SubSeq(list, 1, 0) = << >>
    BY SubSeqEmpty
  <2>2. ToSet(SubSeq(list, 1, 0)) = {}
    BY <2>1 DEF ToSet
  <2>3. TotalSize(ToSet(SubSeq(list, 1, 0)), items) = 0
    BY <2>2, TotalOfNone
  <2>4. 0 \in 0 .. Len(list) /\ 0 <= MaxBytes
    BY <1>1, CacheAssumption
  <2> QED BY <2>3, <2>4
<1>3. Max(fits) \in fits
  <2>1. fits \subseteq 0 .. Len(list) /\ fits # {}
    BY <1>2
  <2> HIDE DEF fits
  <2>2. PICK m \in fits : \A i \in fits : i <= m
    BY <1>1, <2>1, GreatestOfInterval
  <2>3. \A i \in fits : m >= i
    BY <2>1, <2>2
  <2> QED BY <2>3 DEF Max
<1> DEFINE n == Max(fits)
<1>4. kept = SubSeq(list, 1, n)
  BY DEF KeptInBytes
<1>5. n \in 0 .. Len(list) /\ TotalSize(ToSet(SubSeq(list, 1, n)), items) <= MaxBytes
  BY <1>3
<1> HIDE DEF n, kept
<1>6. /\ kept \in Seq(Keys) /\ Len(kept) = n
      /\ \A i \in 1 .. n : kept[i] = list[i]
  <2>1. \A i \in 1 .. n : list[i] \in Keys
    BY <1>1, <1>5, ElementOfSeq
  <2> QED BY <2>1, <1>1, <1>4, <1>5, SubSeqProperties
<1>7. ToSet(kept) \subseteq ToSet(list)
  <2>1. /\ ToSet(kept) = {kept[i] : i \in 1 .. n}
        /\ ToSet(list) = {list[i] : i \in 1 .. Len(list)}
    BY <1>6, ListElements
  <2> QED BY <2>1, <1>1, <1>5, <1>6
<1>8. Distinct(kept)
  BY <1>1, <1>5, <1>6 DEF Distinct
<1> QED BY <1>4, <1>5, <1>6, <1>7, <1>8 DEF kept

\* What every locked section keeps besides IInv.
Counted == order \in Seq(Keys) /\ CountersAgree /\ LimitsHold

LEMMA CountedFacts ==
  ASSUME IInv, Counted
  PROVE  /\ IsFiniteSet(Cached) /\ Distinct(order) /\ HasSizes(entries, Cached)
         /\ \A s \in Sites : IsFiniteSet(Share(Cached, s)) /\ siteEntries[s] = Cardinality(Share(Cached, s))
<1>1. IsFiniteSet(Cached) /\ Distinct(order)
  BY ListElements DEF Counted, CountersAgree
<1>2. HasSizes(entries, Cached)
  BY CacheAssumption DEF HasSizes, IInv, StateTypes, Cached, Item
<1>3. ASSUME NEW s \in Sites
      PROVE  IsFiniteSet(Share(Cached, s)) /\ siteEntries[s] = Cardinality(Share(Cached, s))
  <2>1. Share(Cached, s) = CachedOf(s) /\ Share(Cached, s) \subseteq Cached
    BY DEF Share, CachedOf
  <2> QED BY <2>1, <1>1, FS_Subset DEF Counted, CountersAgree
<1> QED BY <1>1, <1>2, <1>3

\* What is left to show of a locked section, in terms of the set of keys after it.
LEMMA CountedAfter ==
  ASSUME order' \in Seq(Keys), Distinct(order)', ToSet(order)' = Cached',
         bytes' = TotalSize(Cached', entries'), bytes' <= MaxBytes,
         \A s \in Sites : /\ siteEntries'[s] = Cardinality(Share(Cached', s))
                         /\ Cardinality(Share(Cached', s)) <= MaxSiteEntries
  PROVE  Counted'
<1>1. Len(order)' = Cardinality(Cached)'
  <2>1. Len(order') = Cardinality(ToSet(order'))
    BY ListElements
  <2> QED BY <2>1
<1>2. \A s \in Sites : CachedOf(s)' = Share(Cached', s)
  BY DEF CachedOf, Share
<1> QED BY <1>1, <1>2 DEF Counted, CountersAgree, LimitsHold

LEMMA DropCounted ==
  ASSUME IInv, Counted, NEW keys \in SUBSET Cached, Drop(keys)
  PROVE  Counted'
<1>1. /\ IsFiniteSet(Cached) /\ Distinct(order) /\ HasSizes(entries, Cached)
      /\ \A s \in Sites : IsFiniteSet(Share(Cached, s)) /\ siteEntries[s] = Cardinality(Share(Cached, s))
  BY CountedFacts
<1>2. Cached' = Cached \ keys /\ \A k \in Cached' : entries'[k] = entries[k]
  BY DropShrinks DEF Shrinks
<1>3. order' \in Seq(Keys) /\ ToSet(order') = Cached' /\ Distinct(order')
  BY <1>1, <1>2, WithoutLaws DEF Drop, Counted, CountersAgree
<1>4. bytes' = TotalSize(Cached', entries') /\ bytes' <= MaxBytes
  <2>1. /\ TotalSize(Cached \ keys, entries) = TotalSize(Cached, entries) - TotalSize(keys, entries)
        /\ TotalSize(Cached, entries) \in Nat /\ TotalSize(keys, entries) \in Nat
    BY <1>1, TotalLaws
  <2>2. IsFiniteSet(Cached')
    BY <1>1, <1>2, FS_Subset
  <2>3. TotalSize(Cached', entries) = TotalSize(Cached', entries')
    <3>1. Cached' \subseteq DOMAIN entries /\ Cached' \subseteq DOMAIN entries'
      BY <1>2 DEF Cached
    <3>2. \A k \in Cached' : entries[k].size = entries'[k].size
      BY <1>2
    <3> QED BY <2>2, <3>1, <3>2, TotalCongruence
  <2>4. bytes' = TotalSize(Cached, entries) - TotalSize(keys, entries)
    BY DEF Drop, Counted, CountersAgree
  <2>5. TotalSize(Cached, entries) <= MaxBytes /\ MaxBytes \in Nat
    BY CacheAssumption DEF Counted, LimitsHold
  <2> QED BY <1>2, <2>1, <2>3, <2>4, <2>5
<1>5. ASSUME NEW s \in Sites
      PROVE  /\ siteEntries'[s] = Cardinality(Share(Cached', s))
             /\ Cardinality(Share(Cached', s)) <= MaxSiteEntries
  <2>1. siteEntries'[s] = siteEntries[s] - Cardinality(Share(keys, s))
    BY DEF Drop, Share
  <2>2. Share(Cached', s) = Share(Cached, s) \ Share(keys, s) /\ Share(keys, s) \in SUBSET Share(Cached, s)
    BY <1>2 DEF Share
  <2>3. IsFiniteSet(Share(Cached, s)) /\ siteEntries[s] = Cardinality(Share(Cached, s))
    BY <1>1
  <2>4. /\ Cardinality(Share(keys, s)) \in Nat /\ Cardinality(Share(Cached, s)) \in Nat
        /\ Cardinality(Share(Cached', s)) = Cardinality(Share(Cached, s)) - Cardinality(Share(keys, s))
    BY <2>2, <2>3, CardinalityOfRest
  <2>5. Cardinality(Share(Cached, s)) <= MaxSiteEntries /\ MaxSiteEntries \in Nat
    BY CacheAssumption DEF Counted, LimitsHold, CachedOf, Share
  <2> QED BY <2>1, <2>3, <2>4, <2>5
<1> QED BY <1>3, <1>4, <1>5, CountedAfter

LEMMA HitCounted == ASSUME IInv, Counted, NEW c \in Clients, Hit(c) PROVE Counted'
<1> DEFINE k == client[c].key
<1>1. /\ IsFiniteSet(Cached) /\ Distinct(order) /\ HasSizes(entries, Cached)
      /\ \A s \in Sites : IsFiniteSet(Share(Cached, s)) /\ siteEntries[s] = Cardinality(Share(Cached, s))
  BY CountedFacts
<1>2. k \in Cached /\ k \in Keys /\ order' = <<k>> \o Without(order, {k})
  BY DEF Hit, Fresh, IInv, StateTypes
<1>3. UNCHANGED <<entries, bytes, siteEntries>> /\ Cached' = Cached
  BY DEF Hit, Cached
<1>4. order' \in Seq(Keys) /\ ToSet(order') = Cached' /\ Distinct(order')
  <2>1. /\ order' \in Seq(Keys) /\ ToSet(order') = ToSet(order) \cup {k} /\ Distinct(order')
    BY <1>1, <1>2, FrontLaws DEF Counted
  <2> QED BY <2>1, <1>2, <1>3 DEF Counted, CountersAgree
<1> QED BY <1>1, <1>3, <1>4, CountedAfter DEF Counted, CountersAgree, LimitsHold, CachedOf, Share

LEMMA PutCounted ==
  ASSUME IInv, Counted, NEW k \in Keys, NEW item \in Item, Put(k, item)
  PROVE  Counted'
<1>1. /\ IsFiniteSet(Cached) /\ Distinct(order) /\ HasSizes(entries, Cached)
      /\ \A s \in Sites : IsFiniteSet(Share(Cached, s)) /\ siteEntries[s] = Cardinality(Share(Cached, s))
  BY CountedFacts
<1>2. CASE item.size > MaxBytes
  <2>1. Drop({k} \cap Cached) /\ {k} \cap Cached \in SUBSET Cached
    BY <1>2 DEF Put
  <2> QED BY <2>1, DropCounted
<1>3. CASE ~ (item.size > MaxBytes)
  <2> DEFINE all == Cached \cup {k}
             items == [j \in all |-> IF j = k THEN item ELSE entries[j]]
             list == <<k>> \o Without(order, {k})
             mine == SiteOf[k]
             short == KeptPerSite(list, mine)
             kept == KeptInBytes(short, items)
             gone == all \ ToSet(kept)
  <2>1. /\ entries' = [j \in all \ gone |-> items[j]]
        /\ order' = kept
        /\ bytes' = bytes - OldBytes(k) + item.size - TotalSize(gone, items)
        /\ \A s \in Sites : siteEntries'[s] =
             siteEntries[s] + (IF mine = s /\ k \notin Cached THEN 1 ELSE 0) - Cardinality(Share(gone, s))
    BY <1>3 DEF Put, Share
  <2>2. mine \in Sites
    BY CacheAssumption
  <2>3. list \in Seq(Keys) /\ ToSet(list) = all /\ Distinct(list)
    BY <1>1, FrontLaws DEF Counted, CountersAgree
  <2> HIDE DEF list
  <2>4. /\ short \in Seq(Keys) /\ Distinct(short) /\ ToSet(short) \subseteq all
        /\ Cardinality(Share(ToSet(short), mine)) <= MaxSiteEntries
    BY <2>2, <2>3, PerSiteLaws
  <2> HIDE DEF short
  <2>5. /\ kept \in Seq(Keys) /\ Distinct(kept) /\ ToSet(kept) \subseteq ToSet(short)
        /\ TotalSize(ToSet(kept), items) <= MaxBytes
    BY <2>4, InBytesLaws
  <2> HIDE DEF kept
  <2>6. ToSet(kept) \subseteq all /\ all \ gone = ToSet(kept) /\ gone \in SUBSET all
    BY <2>4, <2>5
  <2>7. Cached' = ToSet(kept)
    BY <2>1, <2>6 DEF Cached
  <2>8. IsFiniteSet(all)
    BY <1>1, FS_AddElement
  <2>9. HasSizes(items, all)
    <3>1. item.size \in Nat
      BY CacheAssumption DEF Item
    <3> QED BY <3>1, <1>1 DEF HasSizes
  <2>10. IsFiniteSet(ToSet(kept)) /\ IsFiniteSet(gone)
    BY <2>6, <2>8, FS_Subset
  <2>11. bytes' = TotalSize(Cached', entries') /\ bytes' <= MaxBytes
    <3> DEFINE rest == Cached \ {k}  old == {k} \cap Cached
    <3>1. TotalSize(old, entries) = OldBytes(k)
      <4>1. CASE k \in Cached
        <5>1. old = {k} /\ HasSizes(entries, {k})
          BY <4>1, <1>1 DEF HasSizes
        <5>2. TotalSize({k}, entries) = entries[k].size
          BY <5>1, TotalOfOne
        <5> QED BY <4>1, <5>1, <5>2 DEF OldBytes
      <4>2. CASE k \notin Cached
        <5>1. old = {}
          BY <4>2
        <5> QED BY <4>2, <5>1, TotalOfNone DEF OldBytes
      <4> QED BY <4>1, <4>2
    <3>2. /\ TotalSize(Cached \ old, entries) = TotalSize(Cached, entries) - TotalSize(old, entries)
          /\ TotalSize(Cached, entries) \in Nat /\ TotalSize(old, entries) \in Nat
      BY <1>1, TotalLaws
    <3>3. rest = Cached \ old /\ rest = all \ {k} /\ IsFiniteSet(rest)
      BY <1>1, FS_Subset
    <3>4. TotalSize(rest, entries) = TotalSize(rest, items)
      <4>1. rest \subseteq DOMAIN entries /\ rest \subseteq DOMAIN items
        BY DEF Cached
      <4>2. \A j \in rest : entries[j].size = items[j].size
        OBVIOUS
      <4> HIDE DEF rest, items
      <4> QED BY <4>1, <4>2, <3>3, TotalCongruence
    <3>5. /\ TotalSize(all \ {k}, items) = TotalSize(all, items) - TotalSize({k}, items)
          /\ TotalSize(all, items) \in Nat /\ TotalSize({k}, items) \in Nat
      <4>1. {k} \in SUBSET all
        OBVIOUS
      <4> HIDE DEF all, items
      <4> QED BY <4>1, <2>8, <2>9, TotalLaws
    <3>6. TotalSize({k}, items) = item.size
      <4>1. HasSizes(items, {k}) /\ items[k] = item
        BY <2>9 DEF HasSizes
      <4> HIDE DEF items
      <4> QED BY <4>1, TotalOfOne
    <3>7. bytes = TotalSize(Cached, entries)
      BY DEF Counted, CountersAgree
    <3>8. TotalSize(all, items) = bytes - OldBytes(k) + item.size
      <4>1. TotalSize(rest, items) = TotalSize(all, items) - TotalSize({k}, items)
        BY <3>3, <3>5
      <4>2. TotalSize(rest, entries) = TotalSize(Cached, entries) - TotalSize(old, entries)
        BY <3>2, <3>3
      <4> HIDE DEF items, all, rest, old
      <4> QED BY <4>1, <4>2, <3>1, <3>2, <3>4, <3>5, <3>6, <3>7
    <3>9. /\ TotalSize(all \ gone, items) = TotalSize(all, items) - TotalSize(gone, items)
          /\ TotalSize(gone, items) \in Nat
      <4> HIDE DEF all, items, gone
      <4> QED BY <2>6, <2>8, <2>9, TotalLaws
    <3>10. TotalSize(ToSet(kept), items) = bytes'
      <4>1. TotalSize(ToSet(kept), items) = TotalSize(all, items) - TotalSize(gone, items)
        BY <2>6, <3>9
      <4>2. bytes' = bytes - OldBytes(k) + item.size - TotalSize(gone, items)
        BY <2>1
      <4>3. bytes \in Int /\ OldBytes(k) \in Int /\ item.size \in Int
        BY <3>1, <3>2, <3>5, <3>6, <3>7
      <4> HIDE DEF all, items, gone, kept
      <4> QED BY <4>1, <4>2, <4>3, <3>8, <3>9
    <3>11. TotalSize(ToSet(kept), items) = TotalSize(Cached', entries')
      <4>1. ToSet(kept) \subseteq DOMAIN entries' /\ ToSet(kept) \subseteq DOMAIN items
        BY <2>6, <2>7 DEF Cached
      <4>2. \A j \in ToSet(kept) : items[j].size = entries'[j].size
        BY <2>1, <2>6
      <4> HIDE DEF items, all, gone
      <4> QED BY <4>1, <4>2, <2>7, <2>10, TotalCongruence
    <3> QED BY <2>5, <3>10, <3>11
  <2>12. ASSUME NEW s \in Sites
         PROVE  /\ siteEntries'[s] = Cardinality(Share(Cached', s))
                /\ Cardinality(Share(Cached', s)) <= MaxSiteEntries
    <3>1. IsFiniteSet(Share(Cached, s)) /\ siteEntries[s] = Cardinality(Share(Cached, s))
      BY <1>1
    <3>2. Cardinality(Share(Cached, s)) \in Nat
      BY <3>1, FS_CardinalityType
    <3>3. /\ IsFiniteSet(Share(all, s))
          /\ Cardinality(Share(all, s)) = siteEntries[s] + (IF mine = s /\ k \notin Cached THEN 1 ELSE 0)
      <4>1. CASE mine = s
        <5>1. Share(all, s) = Share(Cached, s) \cup {k} /\ (k \in Share(Cached, s) <=> k \in Cached)
          BY <4>1 DEF Share
        <5>2. /\ IsFiniteSet(Share(Cached, s) \cup {k})
              /\ Cardinality(Share(Cached, s) \cup {k}) =
                   IF k \in Share(Cached, s) THEN Cardinality(Share(Cached, s)) ELSE Cardinality(Share(Cached, s)) + 1
          BY <3>1, FS_AddElement
        <5>3. CASE k \in Cached
          BY <4>1, <5>1, <5>2, <5>3, <3>1, <3>2
        <5>4. CASE k \notin Cached
          <6>1. Cardinality(Share(all, s)) = siteEntries[s] + 1
            BY <5>1, <5>2, <5>4, <3>1
          <6> QED BY <4>1, <5>1, <5>2, <5>4, <6>1
        <5> QED BY <5>3, <5>4
      <4>2. CASE mine # s
        <5>1. Share(all, s) = Share(Cached, s)
          BY <4>2 DEF Share
        <5> QED BY <4>2, <5>1, <3>1, <3>2
      <4> QED BY <4>1, <4>2
    <3>4. Share(Cached', s) = Share(all, s) \ Share(gone, s) /\ Share(gone, s) \in SUBSET Share(all, s)
      BY <2>6, <2>7 DEF Share
    <3>5. /\ Cardinality(Share(Cached', s)) = Cardinality(Share(all, s)) - Cardinality(Share(gone, s))
          /\ Cardinality(Share(gone, s)) \in Nat
      BY <3>3, <3>4, CardinalityOfRest
    <3>6. siteEntries'[s] = Cardinality(Share(Cached', s))
      <4> DEFINE more == IF mine = s /\ k \notin Cached THEN 1 ELSE 0
      <4>1. siteEntries'[s] = siteEntries[s] + more - Cardinality(Share(gone, s))
        BY <2>1
      <4>2. Cardinality(Share(all, s)) = siteEntries[s] + more
        BY <3>3
      <4>3. siteEntries[s] \in Int /\ more \in Int
        BY <3>1, <3>2
      <4> HIDE DEF all, gone, more
      <4> QED BY <4>1, <4>2, <4>3, <3>5
    <3>7. CASE mine = s
      <4>1. Share(Cached', s) \in SUBSET Share(ToSet(short), s)
        BY <2>5, <2>7 DEF Share
      <4>2. IsFiniteSet(ToSet(short))
        BY <2>4, ListElements
      <4>3. IsFiniteSet(Share(ToSet(short), s))
        <5>1. Share(ToSet(short), s) \in SUBSET ToSet(short)
          BY DEF Share
        <5> QED BY <5>1, <4>2, FS_Subset
      <4>4. Cardinality(Share(Cached', s)) <= Cardinality(Share(ToSet(short), s))
        BY <4>1, <4>3, FS_Subset
      <4>5. Cardinality(Share(ToSet(short), s)) \in Nat /\ Cardinality(Share(Cached', s)) \in Nat
        BY <4>1, <4>3, FS_Subset, FS_CardinalityType
      <4> QED BY <2>4, <3>6, <3>7, <4>4, <4>5, CacheAssumption
    <3>8. CASE mine # s
      <4>1. Share(Cached', s) \in SUBSET Share(Cached, s)
        BY <2>6, <2>7, <3>8 DEF Share
      <4>2. Cardinality(Share(Cached', s)) <= Cardinality(Share(Cached, s))
        BY <4>1, <3>1, FS_Subset
      <4>3. Cardinality(Share(Cached, s)) <= MaxSiteEntries
        BY DEF Counted, LimitsHold, CachedOf, Share
      <4>4. Cardinality(Share(Cached', s)) \in Nat
        BY <4>1, <3>1, FS_Subset, FS_CardinalityType
      <4> QED BY <3>2, <3>6, <4>2, <4>3, <4>4, CacheAssumption
    <3> QED BY <3>7, <3>8, <3>6
  <2> QED BY <2>1, <2>5, <2>7, <2>11, <2>12, CountedAfter
<1> QED BY <1>2, <1>3

LEMMA UnchangedCounted == ASSUME Counted, UNCHANGED cache PROVE Counted'
BY DEF Counted, CountersAgree, LimitsHold, cache, Cached, CachedOf

LEMMA InitiallyCounted == Init => Counted
<1> SUFFICES ASSUME Init PROVE Counted
  OBVIOUS
<1>1. Cached = {} /\ order = << >> /\ bytes = 0 /\ \A s \in Sites : siteEntries[s] = 0
  BY DEF Init, Cached
<1>2. order \in Seq(Keys) /\ Len(order) = 0 /\ ToSet(order) = {}
  BY <1>1, EmptySeq DEF ToSet
<1>3. Cardinality({}) = 0 /\ TotalSize({}, entries) = 0
  BY FS_EmptySet, TotalOfNone
<1>4. \A s \in Sites : CachedOf(s) = {}
  BY <1>1 DEF CachedOf
<1>5. TotalSize(Cached, entries) = 0 /\ Cardinality(Cached) = 0 /\ \A s \in Sites : Cardinality(CachedOf(s)) = 0
  BY <1>1, <1>3, <1>4
<1>6. CountersAgree
  BY <1>1, <1>2, <1>5 DEF CountersAgree
<1>7. LimitsHold
  BY <1>5, CacheAssumption DEF LimitsHold
<1> QED BY <1>2, <1>6, <1>7 DEF Counted

LEMMA CountedInductive == IInv /\ Counted /\ [Next]_vars => Counted'
<1> SUFFICES ASSUME IInv, Counted, [Next]_vars PROVE Counted'
  OBVIOUS
<1>1. CASE UNCHANGED vars
  BY <1>1, UnchangedCounted DEF vars
<1>2. ASSUME NEW c \in Clients, Arrive(c) \/ ReadTotals(c) \/ ReadPoints(c) \/ RenderFails(c) \/ Leave(c)
      PROVE  Counted'
  BY <1>2, UnchangedCounted DEF Arrive, ReadTotals, ReadPoints, RenderFails, Leave
<1>3. ASSUME NEW c \in Clients, Hit(c) PROVE Counted'
  BY <1>3, HitCounted
<1>4. ASSUME NEW c \in Clients, Join(c) \/ Lead(c) PROVE Counted'
  <2>1. Drop({client[c].key} \cap Cached) /\ {client[c].key} \cap Cached \in SUBSET Cached
    BY <1>4 DEF Join, Lead
  <2> QED BY <2>1, DropCounted
<1>5. ASSUME NEW c \in Clients, Finish(c) PROVE Counted'
  <2>1. CASE client[c].step = "rendered" /\ SameGeneration(c)
    <3>1. client[c].key \in Keys /\ client[c].item \in Item
      BY <2>1 DEF IInv, StateTypes, Client
    <3> QED BY <1>5, <2>1, <3>1, PutCounted DEF Finish
  <2>2. CASE ~ (client[c].step = "rendered" /\ SameGeneration(c))
    BY <1>5, <2>2, UnchangedCounted DEF Finish
  <2> QED BY <2>1, <2>2
<1>6. ASSUME NEW h \in Handlers, DeleteSite(h) PROVE Counted'
  <2>1. Drop(CachedOf(handler[h])) /\ CachedOf(handler[h]) \in SUBSET Cached
    BY <1>6 DEF DeleteSite, CachedOf
  <2> QED BY <2>1, DropCounted
<1>7. ASSUME NEW h \in Handlers, NEW s \in Sites, Commit(h, s) PROVE Counted'
  BY <1>7, UnchangedCounted DEF Commit
<1>8. CASE Tick
  BY <1>8, UnchangedCounted DEF Tick
<1> QED BY <1>1, <1>2, <1>3, <1>4, <1>5, <1>6, <1>7, <1>8 DEF Next, Answer

-----------------------------------------------------------------------------
(* The answers *)

LEMMA AnsweredIsNext == [AnsweredNext]_answeredVars => [Next]_vars
BY DEF AnsweredNext, answeredVars, Next, AnsweredHit, AnsweredLead, AnsweredFinish,
       AnsweredDelete, Quiet, Answer

\* What is proved of Spec holds of the specification with history, too.
LEMMA AnsweredIsCache == AnsweredSpec => Spec
<1>1. AnsweredInit => Init
  BY DEF AnsweredInit
<1> QED BY <1>1, AnsweredIsNext, PTL DEF AnsweredSpec, Spec

LEMMA AnsweredInitially == AnsweredInit => AnsweredInv
<1> SUFFICES ASSUME AnsweredInit PROVE AnsweredInv
  OBVIOUS
<1> USE DEF AnsweredInit, Init
<1>1. HistoryTypes /\ EntriesServe
  BY DEF HistoryTypes, EntriesServe, Cached
<1>2. RendersServe
  BY DEF RendersServe, idle
<1>3. ShownPast
  BY CacheAssumption DEF ShownPast
<1> QED BY <1>1, <1>2, <1>3 DEF AnsweredInv

\* What the invariants say of a step that answers nobody and changes no history.
LEMMA QuietServes ==
  ASSUME IInv, AnsweredInv, Shrinks, flights' = flights,
         UNCHANGED <<version, generations, history>>,
         \A c \in Clients : client'[c].step \in Rendering =>
           \/ client'[c] = client[c]
           \/ /\ client[c].step \in Rendering
              /\ client'[c].key = client[c].key /\ client'[c].generation = client[c].generation
              /\ client'[c].step = "halfway" => client'[c].totals = version[SiteOf[client[c].key]]
              /\ client'[c].step = "rendered" =>
                   /\ client[c].step = "halfway"
                   /\ client'[c].item.totals = client[c].totals
                   /\ client'[c].item.points = version[SiteOf[client[c].key]]
  PROVE  AnsweredInv'
<1> USE DEF AnsweredInv, history
<1>1. HistoryTypes'
  BY DEF HistoryTypes
<1>2. EntriesServe'
  BY DEF EntriesServe, Shrinks
<1>3. RendersServe'
  <2> SUFFICES ASSUME NEW c \in Clients, client'[c].step \in Rendering
               PROVE  RenderServes(c)'
    BY DEF RendersServe, Rendering
  <2>1. client[c].step \in Rendering /\ client'[c].key = client[c].key
    OBVIOUS
  <2>2. client[c] \in Client /\ client[c].key \in Keys
    BY <2>1 DEF IInv, StateTypes, Client, Rendering
  <2>3. SiteOf[client[c].key] \in Sites
    BY <2>2, CacheAssumption
  <2>4. RenderServes(c)
    BY <2>1 DEF RendersServe, Rendering
  <2>5. CASE client'[c] = client[c]
    BY <2>4, <2>5 DEF RenderServes
  <2>6. CASE client'[c] # client[c]
    <3>1. since[c] \in Nat /\ version[SiteOf[client[c].key]] \in Nat
      BY <2>3 DEF HistoryTypes, IInv, StateTypes
    <3>2. client[c].step = "halfway" => client[c].totals \in Nat
      BY <2>2 DEF Client
    <3> QED BY <2>4, <2>6, <3>1, <3>2 DEF RenderServes
  <2> QED BY <2>5, <2>6
<1>4. ShownPast'
  BY DEF ShownPast
<1> QED BY <1>1, <1>2, <1>3, <1>4

LEMMA HitServes ==
  ASSUME IInv, AnsweredInv, NEW c \in Clients, AnsweredHit(c)
  PROVE  AnsweredInv'
<1> USE DEF AnsweredInv
<1> DEFINE k == client[c].key
           e == entries[k]
<1>1. k \in Cached /\ k \in Keys /\ e \in Item
  BY DEF AnsweredHit, Hit, Fresh, IInv, StateTypes
<1>2. /\ shown' = [shown EXCEPT ![k] = Drawn(e)]
      /\ UNCHANGED <<announced, since, version, entries, flights, generations>>
      /\ client' = [client EXCEPT ![c] = idle]
  BY DEF AnsweredHit, Hit
<1>3. e.totals \in Nat /\ e.points \in Nat
  BY <1>1 DEF Item
<1>4. HistoryTypes'
  BY <1>2, <1>3 DEF HistoryTypes, Drawn
<1>5. EntriesServe'
  <2> SUFFICES ASSUME NEW j \in Cached
               PROVE  shown'[j].totals <= entries[j].totals /\ shown'[j].points <= entries[j].points
    BY <1>2 DEF EntriesServe, Cached
  <2>1. CASE j = k
    BY <2>1, <1>1, <1>2, <1>3 DEF HistoryTypes, Drawn
  <2>2. CASE j # k
    BY <2>2, <1>2 DEF EntriesServe, HistoryTypes
  <2> QED BY <2>1, <2>2
<1>6. RendersServe'
  <2> SUFFICES ASSUME NEW d \in Clients, client'[d].step \in Rendering
               PROVE  RenderServes(d)'
    BY DEF RendersServe, Rendering
  <2>1. client'[d] = client[d]
    BY <1>2 DEF idle, Rendering
  <2>2. client[d].key # k
    BY <1>1, <2>1 DEF EntriesServe, IInv, OneRenderPerKey, Step, Rendering
  <2>3. RenderServes(d)
    BY <2>1 DEF RendersServe, Rendering
  <2>4. shown'[client[d].key] = shown[client[d].key]
    BY <1>2, <2>2 DEF HistoryTypes
  <2> QED BY <1>2, <2>1, <2>3, <2>4 DEF RenderServes
<1>7. ShownPast'
  <2>1. e.totals <= e.points /\ e.points <= version[SiteOf[k]]
    BY <1>1 DEF EntriesServe
  <2> QED BY <1>2, <1>3, <2>1 DEF ShownPast, HistoryTypes, Drawn
<1> QED BY <1>4, <1>5, <1>6, <1>7

LEMMA LeadServes ==
  ASSUME IInv, AnsweredInv, NEW c \in Clients, AnsweredLead(c)
  PROVE  AnsweredInv'
<1> USE DEF AnsweredInv
<1> DEFINE k == client[c].key
<1>1. k \in Keys /\ SiteOf[k] \in Sites
  BY CacheAssumption DEF AnsweredLead, Lead, IInv, StateTypes, Client
<1>2. /\ since' = [since EXCEPT ![c] = version[SiteOf[k]]] /\ flights' = flights \cup {k}
      /\ UNCHANGED <<announced, shown, version, generations>>
      /\ client' = [client EXCEPT ![c] =
           [step |-> "leading", key |-> k, generation |-> generations[SiteOf[k]]]]
  BY DEF AnsweredLead, Lead
<1>3. Shrinks /\ Cached' = Cached \ {k}
  BY DropShrinks DEF AnsweredLead, Lead
<1>4. version[SiteOf[k]] \in Nat
  BY <1>1 DEF IInv, StateTypes
<1>5. HistoryTypes'
  BY <1>2, <1>4 DEF HistoryTypes
<1>6. EntriesServe'
  BY <1>2, <1>3 DEF EntriesServe, Shrinks
<1>7. RendersServe'
  <2> SUFFICES ASSUME NEW d \in Clients, client'[d].step \in Rendering
               PROVE  RenderServes(d)'
    BY DEF RendersServe, Rendering
  <2>1. CASE d = c
    <3>1. client'[d] = [step |-> "leading", key |-> k, generation |-> generations[SiteOf[k]]]
      BY <2>1, <1>2 DEF IInv, StateTypes
    <3>2. since'[d] = version[SiteOf[k]]
      BY <2>1, <1>2 DEF HistoryTypes
    <3>3. /\ shown[k].totals <= version[SiteOf[k]] /\ shown[k].points <= version[SiteOf[k]]
          /\ announced[SiteOf[k]] <= version[SiteOf[k]]
      BY <1>1, <1>4 DEF ShownPast, HistoryTypes
    <3> QED BY <1>2, <1>4, <3>1, <3>2, <3>3 DEF RenderServes
  <2>2. CASE d # c
    <3>1. client'[d] = client[d] /\ since'[d] = since[d]
      BY <2>2, <1>2
    <3>2. RenderServes(d)
      BY <3>1 DEF RendersServe, Rendering
    <3> QED BY <1>2, <3>1, <3>2 DEF RenderServes
  <2> QED BY <2>1, <2>2
<1>8. ShownPast'
  BY <1>2 DEF ShownPast
<1> QED BY <1>5, <1>6, <1>7, <1>8

LEMMA FinishServes ==
  ASSUME IInv, AnsweredInv, NEW c \in Clients, AnsweredFinish(c)
  PROVE  AnsweredInv'
<1> USE DEF AnsweredInv
<1> DEFINE k == client[c].key
           item == client[c].item
           shows == client[c].step = "rendered"
           stored == shows /\ SameGeneration(c)
<1>1. client[c].step \in Rendering /\ k \in Keys /\ SiteOf[k] \in Sites
  BY CacheAssumption DEF AnsweredFinish, Finish, Rendering, IInv, StateTypes, Client
<1>2. /\ shown' = IF shows THEN [shown EXCEPT ![k] = Drawn(item)] ELSE shown
      /\ since' = [since EXCEPT ![c] = 0]
      /\ UNCHANGED <<announced, version, generations>> /\ flights' = flights \ {k}
  BY DEF AnsweredFinish, Finish
<1>3. shows => item \in Item /\ item.totals \in Nat /\ item.points \in Nat
  BY DEF IInv, StateTypes, Client, Item
<1>4. /\ since[c] \in Nat /\ version[SiteOf[k]] \in Nat /\ announced[SiteOf[k]] \in Nat
      /\ shown[k].totals \in Nat /\ shown[k].points \in Nat
  BY <1>1 DEF HistoryTypes, IInv, StateTypes
<1>5. RenderServes(c) /\ k \in flights /\ k \notin Cached
  BY <1>1 DEF RendersServe, Rendering, EntriesServe, IInv, OneRenderPerKey, Step
<1>6. shows => /\ item.totals <= item.points /\ item.points <= version[SiteOf[k]]
               /\ shown[k].totals <= item.totals /\ shown[k].points <= item.points
  BY <1>3, <1>4, <1>5 DEF RenderServes
<1>7. /\ Cached' \subseteq Cached \cup {k}
      /\ \A j \in Cached' : \/ entries'[j] = entries[j] /\ j \in Cached /\ j # k
                            \/ stored /\ j = k /\ entries'[j] = item
  <2>1. CASE stored
    BY <2>1, <1>5, PutStores DEF AnsweredFinish, Finish
  <2>2. CASE ~ stored
    BY <2>2, <1>5 DEF AnsweredFinish, Finish, cache, Cached
  <2> QED BY <2>1, <2>2
<1>8. HistoryTypes'
  BY <1>2, <1>3 DEF HistoryTypes, Drawn
<1>9. \A j \in Keys : j # k => shown'[j] = shown[j]
  BY <1>2 DEF HistoryTypes
<1>10. shows => shown'[k] = Drawn(item)
  BY <1>1, <1>2 DEF HistoryTypes
<1>11. EntriesServe'
  <2> SUFFICES ASSUME NEW j \in Cached'
               PROVE  /\ j \notin flights'
                      /\ announced[SiteOf[j]] <= entries'[j].totals
                      /\ entries'[j].totals <= entries'[j].points
                      /\ entries'[j].points <= version[SiteOf[j]]
                      /\ shown'[j].totals <= entries'[j].totals
                      /\ shown'[j].points <= entries'[j].points
    BY <1>2 DEF EntriesServe
  <2>1. CASE entries'[j] = entries[j] /\ j \in Cached /\ j # k
    <3>1. j \in Keys
      BY <2>1 DEF IInv, StateTypes
    <3> QED BY <2>1, <3>1, <1>2, <1>9 DEF EntriesServe
  <2>2. CASE stored /\ j = k /\ entries'[j] = item
    <3>1. announced[SiteOf[k]] <= since[c] /\ since[c] <= item.totals
      BY <2>2, <1>5 DEF RenderServes, SameGeneration
    <3>2. shown'[k].totals = item.totals /\ shown'[k].points = item.points
      BY <2>2, <1>10 DEF Drawn
    <3> QED BY <2>2, <3>1, <3>2, <1>2, <1>3, <1>4, <1>6
  <2> QED BY <2>1, <2>2, <1>7
<1>12. RendersServe'
  <2> SUFFICES ASSUME NEW d \in Clients, client'[d].step \in Rendering
               PROVE  RenderServes(d)'
    BY DEF RendersServe, Rendering
  <2>1. d # c /\ client'[d] = client[d]
    BY DEF AnsweredFinish, Finish, Landed, idle, Rendering
  <2>2. client[d].key # k
    BY <1>1, <2>1 DEF IInv, OneRenderPerKey, Step, Rendering
  <2>3. client[d].key \in Keys
    BY <2>1 DEF IInv, StateTypes, Client, Rendering
  <2>4. RenderServes(d)
    BY <2>1 DEF RendersServe, Rendering
  <2>5. shown'[client[d].key] = shown[client[d].key] /\ since'[d] = since[d]
    BY <1>2, <1>9, <2>1, <2>2, <2>3 DEF HistoryTypes
  <2> QED BY <1>2, <2>1, <2>4, <2>5 DEF RenderServes
<1>13. ShownPast'
  <2>1. ASSUME NEW j \in Keys
        PROVE  shown'[j].totals <= shown'[j].points /\ shown'[j].points <= version[SiteOf[j]]
    <3>1. CASE shows /\ j = k
      BY <3>1, <1>3, <1>6, <1>10 DEF Drawn
    <3>2. CASE ~ (shows /\ j = k)
      BY <3>2, <1>2, <1>9 DEF ShownPast
    <3> QED BY <3>1, <3>2
  <2> QED BY <1>2, <2>1 DEF ShownPast
<1> QED BY <1>8, <1>11, <1>12, <1>13

\* What the deletion of a Site announces is what no entry of it and no render of its
\* present generation is older than: there are none.
LEMMA DeleteServes ==
  ASSUME IInv, AnsweredInv, NEW h \in Handlers, AnsweredDelete(h)
  PROVE  AnsweredInv'
<1> USE DEF AnsweredInv
<1> DEFINE s == handler[h]
<1>1. s \in Sites /\ version[s] \in Nat /\ generations[s] \in Nat
  BY DEF AnsweredDelete, DeleteSite, IInv, StateTypes
<1>2. /\ announced' = [announced EXCEPT ![s] = version[s]]
      /\ generations' = [generations EXCEPT ![s] = @ + 1]
      /\ UNCHANGED <<shown, since, version, flights, client>>
  BY DEF AnsweredDelete, DeleteSite
<1>3. Shrinks /\ Cached' = Cached \ CachedOf(s)
  BY DropShrinks DEF AnsweredDelete, DeleteSite
<1>4. \A t \in Sites : t # s => announced'[t] = announced[t] /\ generations'[t] = generations[t]
  BY <1>2 DEF HistoryTypes, IInv, StateTypes
<1>5. HistoryTypes'
  BY <1>1, <1>2 DEF HistoryTypes
<1>6. EntriesServe'
  <2> SUFFICES ASSUME NEW k \in Cached'
               PROVE  announced'[SiteOf[k]] = announced[SiteOf[k]]
    BY <1>2, <1>3 DEF EntriesServe, Shrinks
  <2>1. k \in Keys /\ SiteOf[k] \in Sites /\ SiteOf[k] # s
    BY <1>3, CacheAssumption DEF IInv, StateTypes, CachedOf
  <2> QED BY <1>4, <2>1
<1>7. RendersServe'
  <2> SUFFICES ASSUME NEW c \in Clients, client[c].step \in Rendering
               PROVE  RenderServes(c)'
    BY <1>2 DEF RendersServe, Rendering
  <2>1. RenderServes(c)
    BY DEF RendersServe, Rendering
  <2>2. client[c].key \in Keys /\ SiteOf[client[c].key] \in Sites
    BY CacheAssumption DEF IInv, StateTypes, Client, Rendering
  <2>3. CASE SiteOf[client[c].key] = s
    <3>1. client[c].generation <= generations[s] /\ client[c].generation \in Nat
      BY <2>3 DEF IInv, GenerationsPast, StateTypes, Client, Rendering
    <3>2. generations'[s] = generations[s] + 1
      BY <1>1, <1>2 DEF IInv, StateTypes
    <3>3. client[c].generation # generations'[s]
      BY <3>1, <3>2, <1>1
    <3> QED BY <1>2, <2>1, <2>3, <3>3 DEF RenderServes
  <2>4. CASE SiteOf[client[c].key] # s
    BY <1>2, <1>4, <2>1, <2>2, <2>4 DEF RenderServes
  <2> QED BY <2>3, <2>4
<1>8. ShownPast'
  <2>1. \A t \in Sites : announced'[t] <= version[t]
    BY <1>1, <1>2 DEF ShownPast, HistoryTypes
  <2> QED BY <1>2, <2>1 DEF ShownPast
<1> QED BY <1>5, <1>6, <1>7, <1>8

LEMMA CommitServes ==
  ASSUME IInv, AnsweredInv, NEW h \in Handlers, NEW s \in Sites, Commit(h, s), UNCHANGED history
  PROVE  AnsweredInv'
<1> USE DEF AnsweredInv
<1>1. UNCHANGED <<announced, shown, since, entries, flights, generations, client>>
  BY DEF Commit, cache, history
<1>2. \A t \in Sites : version[t] \in Nat /\ version'[t] \in Nat /\ version[t] <= version'[t]
  BY DEF Commit, IInv, StateTypes
<1>3. HistoryTypes'
  BY <1>1 DEF HistoryTypes
<1>4. EntriesServe'
  <2> SUFFICES ASSUME NEW k \in Cached PROVE entries[k].points <= version'[SiteOf[k]]
    BY <1>1 DEF EntriesServe, Cached
  <2>1. SiteOf[k] \in Sites /\ entries[k].points \in Nat
    BY CacheAssumption DEF IInv, StateTypes, Item
  <2>2. entries[k].points <= version[SiteOf[k]]
    BY DEF EntriesServe
  <2> QED BY <1>2, <2>1, <2>2
<1>5. RendersServe'
  <2> SUFFICES ASSUME NEW c \in Clients, client[c].step \in Rendering
               PROVE  RenderServes(c)'
    BY <1>1 DEF RendersServe, Rendering
  <2>1. RenderServes(c)
    BY DEF RendersServe, Rendering
  <2>2. client[c] \in Client /\ SiteOf[client[c].key] \in Sites
    BY CacheAssumption DEF IInv, StateTypes, Client, Rendering
  <2>3. /\ client[c].step = "halfway" => client[c].totals \in Nat
        /\ client[c].step = "rendered" => client[c].item.points \in Nat
    BY <2>2 DEF Client, Item
  <2>4. since[c] \in Nat
    BY DEF HistoryTypes
  <2> QED BY <1>1, <1>2, <2>1, <2>2, <2>3, <2>4 DEF RenderServes
<1>6. ShownPast'
  <2>1. \A k \in Keys : SiteOf[k] \in Sites /\ shown[k].points \in Nat
    BY CacheAssumption DEF HistoryTypes
  <2>2. \A t \in Sites : announced[t] \in Nat
    BY DEF HistoryTypes
  <2>3. \A t \in Sites : announced[t] <= version'[t]
    BY <1>2, <2>2 DEF ShownPast
  <2>4. \A k \in Keys : shown[k].points <= version'[SiteOf[k]]
    BY <1>2, <2>1 DEF ShownPast
  <2> QED BY <1>1, <2>3, <2>4 DEF ShownPast
<1> QED BY <1>3, <1>4, <1>5, <1>6

LEMMA QuietStepServes ==
  ASSUME IInv, AnsweredInv, NEW c \in Clients, Quiet(c), UNCHANGED history
  PROVE  AnsweredInv'
<1>1. /\ UNCHANGED <<version, generations>> /\ flights' = flights
      /\ \A d \in Clients : d # c => client'[d] = client[d]
  BY DEF Quiet, Arrive, Join, ReadTotals, ReadPoints, RenderFails, Leave, IInv, StateTypes
<1>2. Shrinks
  <2>1. CASE Join(c)
    BY <2>1, DropShrinks DEF Join
  <2>2. CASE ~ Join(c)
    BY <2>2 DEF Quiet, Arrive, ReadTotals, ReadPoints, RenderFails, Leave, cache, Shrinks, Cached
  <2> QED BY <2>1, <2>2
<1>3. client'[c].step \in Rendering =>
        /\ client[c].step \in Rendering
        /\ client'[c].key = client[c].key /\ client'[c].generation = client[c].generation
        /\ client'[c].step = "halfway" => client'[c].totals = version[SiteOf[client[c].key]]
        /\ client'[c].step = "rendered" =>
             /\ client[c].step = "halfway"
             /\ client'[c].item.totals = client[c].totals
             /\ client'[c].item.points = version[SiteOf[client[c].key]]
  <2>1. CASE ReadPoints(c)
    <3>1. PICK size \in Sizes : client' = [client EXCEPT ![c] =
            [step |-> "rendered", key |-> client[c].key, generation |-> client[c].generation,
             item |-> [totals |-> client[c].totals, points |-> version[SiteOf[client[c].key]],
                       size |-> size, expires |-> clock + TTL]]]
      BY <2>1 DEF ReadPoints
    <3>2. client'[c] = [step |-> "rendered", key |-> client[c].key, generation |-> client[c].generation,
             item |-> [totals |-> client[c].totals, points |-> version[SiteOf[client[c].key]],
                       size |-> size, expires |-> clock + TTL]]
      BY <3>1 DEF IInv, StateTypes
    <3> QED BY <2>1, <3>2 DEF ReadPoints, Rendering
  <2>2. CASE ReadTotals(c)
    BY <2>2 DEF ReadTotals, Rendering, IInv, StateTypes
  <2>3. CASE RenderFails(c)
    BY <2>3 DEF RenderFails, Rendering, IInv, StateTypes
  <2>4. CASE Join(c)
    BY <2>4 DEF Join, Rendering, IInv, StateTypes
  <2>5. CASE Arrive(c) \/ Leave(c)
    BY <2>5 DEF Arrive, Leave, idle, Rendering, IInv, StateTypes
  <2> QED BY <2>1, <2>2, <2>3, <2>4, <2>5 DEF Quiet
<1>4. ASSUME NEW d \in Clients, client'[d].step \in Rendering
      PROVE  \/ client'[d] = client[d]
             \/ /\ client[d].step \in Rendering
                /\ client'[d].key = client[d].key /\ client'[d].generation = client[d].generation
                /\ client'[d].step = "halfway" => client'[d].totals = version[SiteOf[client[d].key]]
                /\ client'[d].step = "rendered" =>
                     /\ client[d].step = "halfway"
                     /\ client'[d].item.totals = client[d].totals
                     /\ client'[d].item.points = version[SiteOf[client[d].key]]
  BY <1>1, <1>3, <1>4
<1> QED BY <1>1, <1>2, <1>4, QuietServes

LEMMA AnsweredInductive == IInv /\ AnsweredInv /\ [AnsweredNext]_answeredVars => AnsweredInv'
<1> SUFFICES ASSUME IInv, AnsweredInv, [AnsweredNext]_answeredVars PROVE AnsweredInv'
  OBVIOUS
<1>1. CASE UNCHANGED answeredVars
  <2>1. UNCHANGED <<version, generations, flights, entries, client, history>>
    BY <1>1 DEF answeredVars, vars, cache
  <2>2. Shrinks
    BY <2>1 DEF Shrinks, Cached
  <2> QED BY <2>1, <2>2, QuietServes
<1>2. ASSUME NEW c \in Clients, AnsweredHit(c) PROVE AnsweredInv'
  BY <1>2, HitServes
<1>3. ASSUME NEW c \in Clients, AnsweredLead(c) PROVE AnsweredInv'
  BY <1>3, LeadServes
<1>4. ASSUME NEW c \in Clients, AnsweredFinish(c) PROVE AnsweredInv'
  BY <1>4, FinishServes
<1>5. ASSUME NEW c \in Clients, Quiet(c), UNCHANGED history PROVE AnsweredInv'
  BY <1>5, QuietStepServes
<1>6. ASSUME NEW h \in Handlers, AnsweredDelete(h) PROVE AnsweredInv'
  BY <1>6, DeleteServes
<1>7. ASSUME NEW h \in Handlers, NEW s \in Sites, Commit(h, s), UNCHANGED history
      PROVE  AnsweredInv'
  BY <1>7, CommitServes
<1>8. CASE Tick /\ UNCHANGED history
  <2>1. UNCHANGED <<version, generations, flights, entries, client, history>>
    BY <1>8 DEF Tick, cache
  <2>2. Shrinks
    BY <2>1 DEF Shrinks, Cached
  <2> QED BY <2>1, <2>2, QuietServes
<1> QED BY <1>1, <1>2, <1>3, <1>4, <1>5, <1>6, <1>7, <1>8 DEF AnsweredNext

LEMMA AnsweredInvariance == AnsweredSpec => [](IInv /\ AnsweredInv)
<1>1. AnsweredInit => IInv /\ AnsweredInv
  BY Initially, AnsweredInitially DEF AnsweredInit
<1>2. IInv /\ AnsweredInv /\ [AnsweredNext]_answeredVars => IInv' /\ AnsweredInv'
  BY Inductive, AnsweredInductive, AnsweredIsNext
<1> QED BY <1>1, <1>2, PTL DEF AnsweredSpec

-----------------------------------------------------------------------------
(* The refinement *)

LEMMA ServiceInitially == AnsweredInit => Service!NothingAsked
BY DEF AnsweredInit, Init, idle, Request, Service!NothingAsked, Service!NoRequest

\* How the requests of the service follow those of the cache.
LEMMA RequestMoves ==
  ASSUME NEW c \in Clients,
         \A d \in Clients : d # c => client'[d] = client[d] /\ since'[d] = since[d]
  PROVE  [d \in Clients |-> Request(d)]'
           = [[d \in Clients |-> Request(d)] EXCEPT ![c] = Request(c)']
<1>1. \A d \in Clients : d # c => Request(d)' = Request(d)
  BY DEF Request
<1> QED BY <1>1

\* The answer of a hit or of a render is one that the service may give.
LEMMA Showing ==
  ASSUME IInv, AnsweredInv, NEW k \in Keys, NEW item \in Item, NEW oldest \in Nat,
         oldest <= item.totals, item.totals <= item.points, item.points <= version[SiteOf[k]],
         shown[k].totals <= item.totals, shown[k].points <= item.points,
         shown' = [shown EXCEPT ![k] = Drawn(item)]
  PROVE  Service!Show(k, oldest)
<1>1. item.totals \in Nat /\ item.points \in Nat /\ version[SiteOf[k]] \in Nat
  BY CacheAssumption DEF Item, IInv, StateTypes
<1>2. item.totals \in oldest .. version[SiteOf[k]] /\ item.points \in item.totals .. version[SiteOf[k]]
  BY <1>1
<1> QED BY <1>2 DEF Service!Show, Drawn

LEMMA ServiceStep ==
  IInv /\ AnsweredInv /\ [AnsweredNext]_answeredVars
    => [Service!ServiceNext]_(Service!serviceVars)
<1> SUFFICES ASSUME IInv, AnsweredInv, [AnsweredNext]_answeredVars
             PROVE  [Service!ServiceNext]_(Service!serviceVars)
  OBVIOUS
<1> DEFINE request == [c \in Clients |-> Request(c)]
<1> USE DEF IInv, StateTypes
<1>1. CASE UNCHANGED answeredVars
  <2>1. request' = request
    BY <1>1 DEF answeredVars, vars, history, Request
  <2> QED BY <1>1, <2>1 DEF answeredVars, vars, history, Service!serviceVars
<1>2. ASSUME NEW c \in Clients, AnsweredHit(c) PROVE Service!Serve(c)
  <2> DEFINE k == client[c].key
  <2>1. k \in Cached /\ k \in Keys /\ entries[k] \in Item /\ client[c].step = "arrived"
    BY <1>2 DEF AnsweredHit, Hit, Fresh
  <2>2. UNCHANGED <<version, announced, since>> /\ client' = [client EXCEPT ![c] = idle]
    BY <1>2 DEF AnsweredHit, Hit
  <2>3. request[c] = [step |-> "asking", key |-> k]
    BY <2>1 DEF Request
  <2>4. request' = [request EXCEPT ![c] = Service!NoRequest]
    <3>1. Request(c)' = Service!NoRequest
      BY <2>2 DEF Request, idle, Service!NoRequest
    <3> QED BY <2>2, <3>1, RequestMoves
  <2>5. announced[SiteOf[k]] \in Nat
    BY <2>1, CacheAssumption DEF AnsweredInv, HistoryTypes
  <2>6. Service!Show(k, announced[SiteOf[k]])
    BY <1>2, <2>1, <2>5, Showing DEF AnsweredInv, EntriesServe, AnsweredHit
  <2> QED BY <2>2, <2>3, <2>4, <2>6 DEF Service!Serve
<1>3. ASSUME NEW c \in Clients, AnsweredLead(c) PROVE Service!Begin(c)
  <2> DEFINE k == client[c].key
  <2>1. client[c].step = "arrived" /\ k \notin flights
    BY <1>3 DEF AnsweredLead, Lead
  <2>2. /\ UNCHANGED <<version, announced, shown>>
        /\ client' = [client EXCEPT ![c] =
             [step |-> "leading", key |-> k, generation |-> generations[SiteOf[k]]]]
        /\ since' = [since EXCEPT ![c] = version[SiteOf[k]]]
    BY <1>3 DEF AnsweredLead, Lead
  <2>3. request[c] = [step |-> "asking", key |-> k]
    BY <2>1 DEF Request
  <2>4. ~ Service!Rendered(k)
    <3> SUFFICES ASSUME NEW d \in Clients, request[d].step = "rendering", request[d].key = k
                 PROVE  FALSE
      BY DEF Service!Rendered
    <3>1. client[d].step \in Rendering /\ client[d].key = k
      BY DEF Request, Client, Rendering
    <3> QED BY <3>1, <2>1 DEF OneRenderPerKey, Step, Rendering
  <2>5. request' = [request EXCEPT ![c] =
          [step |-> "rendering", key |-> k, since |-> version[SiteOf[k]]]]
    <3>1. Request(c)' = [step |-> "rendering", key |-> k, since |-> version[SiteOf[k]]]
      BY <2>2 DEF Request, AnsweredInv, HistoryTypes
    <3>2. \A d \in Clients : d # c => client'[d] = client[d] /\ since'[d] = since[d]
      BY <2>2 DEF AnsweredInv, HistoryTypes
    <3> QED BY <3>1, <3>2, RequestMoves
  <2>6. request[c].step = "asking" /\ request[c].key = k
    BY <2>3
  <2>7. request' = [request EXCEPT ![c] = [step |-> "rendering", key |-> request[c].key,
                                           since |-> version[SiteOf[request[c].key]]]]
    BY <2>5, <2>6
  <2>8. ~ Service!Rendered(request[c].key)
    BY <2>4, <2>6
  <2>9. UNCHANGED <<version, announced, shown>>
    BY <2>2
  <2> HIDE DEF request
  <2> QED BY <2>6, <2>7, <2>8, <2>9 DEF Service!Begin, request
<1>4. ASSUME NEW c \in Clients, AnsweredFinish(c) PROVE Service!End(c)
  <2> DEFINE k == client[c].key
             done == [d \in Clients |->
               IF d = c \/ (request[d].step = "waiting" /\ request[d].key = k)
               THEN Service!NoRequest ELSE request[d]]
  <2>1. client[c].step \in {"rendered", "failed"} /\ k \in Keys
    BY <1>4 DEF AnsweredFinish, Finish, Client
  <2>2. /\ UNCHANGED <<version, announced>> /\ client' = Landed(c)
        /\ since' = [since EXCEPT ![c] = 0]
        /\ shown' = IF client[c].step = "rendered"
                    THEN [shown EXCEPT ![k] = Drawn(client[c].item)] ELSE shown
    BY <1>4 DEF AnsweredFinish, Finish
  <2>3. request[c] = [step |-> "rendering", key |-> k, since |-> since[c]]
    BY <2>1 DEF Request
  <2>4. ASSUME NEW d \in Clients
        PROVE  Request(d)' = IF d = c \/ (request[d].step = "waiting" /\ request[d].key = k)
                             THEN Service!NoRequest ELSE Request(d)
    <3>1. request[d].step = "waiting" /\ request[d].key = k
            <=> client[d].step = "waiting" /\ client[d].key = k
      BY DEF Request, Client
    <3>2. CASE d = c \/ (client[d].step = "waiting" /\ client[d].key = k)
      <4>1. client'[d] = idle
        BY <2>2, <3>2 DEF Landed
      <4> QED BY <3>1, <3>2, <4>1 DEF Request, idle, Service!NoRequest
    <3>3. CASE ~ (d = c \/ (client[d].step = "waiting" /\ client[d].key = k))
      <4>1. client'[d] = client[d] /\ since'[d] = since[d]
        BY <2>2, <3>3 DEF Landed, AnsweredInv, HistoryTypes
      <4>2. Request(d)' = Request(d)
        BY <4>1 DEF Request
      <4> QED BY <3>1, <3>3, <4>2
    <3> QED BY <3>2, <3>3
  <2>5. request' = done
    BY <2>4
  <2>6. Service!Show(k, since[c]) \/ UNCHANGED shown
    <3>1. CASE client[c].step = "rendered"
      <4>1. client[c].item \in Item /\ client[c].item.totals \in Nat /\ since[c] \in Nat
        BY <3>1 DEF Client, Item, AnsweredInv, HistoryTypes
      <4>2. RenderServes(c) /\ client[c].item.points \in Nat
        BY <3>1, <4>1 DEF AnsweredInv, RendersServe, Item
      <4>3. shown[k].totals \in Nat /\ shown[k].points \in Nat
        BY <2>1 DEF AnsweredInv, HistoryTypes
      <4>4. /\ shown[k].totals <= client[c].item.totals /\ shown[k].points <= client[c].item.points
            /\ since[c] <= client[c].item.totals /\ client[c].item.totals <= client[c].item.points
            /\ client[c].item.points <= version[SiteOf[k]]
        BY <3>1, <4>1, <4>2, <4>3 DEF RenderServes
      <4>5. shown' = [shown EXCEPT ![k] = Drawn(client[c].item)]
        BY <2>2, <3>1
      <4> QED BY <2>1, <4>1, <4>4, <4>5, Showing
    <3>2. CASE client[c].step # "rendered"
      BY <2>2, <3>2
    <3> QED BY <3>1, <3>2
  <2>7. request[c].step = "rendering" /\ request[c].key = k /\ request[c].since = since[c]
    BY <2>3
  <2>8. /\ UNCHANGED <<version, announced>>
        /\ Service!Show(request[c].key, request[c].since) \/ UNCHANGED shown
        /\ request' = [d \in Clients |->
             IF d = c \/ (request[d].step = "waiting" /\ request[d].key = request[c].key)
             THEN Service!NoRequest ELSE request[d]]
    BY <2>2, <2>5, <2>6, <2>7
  <2> HIDE DEF request
  <2> QED BY <2>7, <2>8 DEF Service!End, request
<1>5. ASSUME NEW c \in Clients, Quiet(c), UNCHANGED history
      PROVE  \/ \E k \in Keys : Service!Ask(c, k)
             \/ Service!Join(c) \/ Service!Leave(c)
             \/ UNCHANGED <<version, announced, shown, request>>
  <2> DEFINE k == client[c].key
  <2>1. UNCHANGED <<version, announced, shown, since>>
    BY <1>5 DEF Quiet, history, Arrive, Join, ReadTotals, ReadPoints, RenderFails, Leave
  <2>2. CASE Arrive(c)
    <3>1. PICK key \in Keys :
            client' = [client EXCEPT ![c] = [step |-> "arrived", key |-> key, now |-> clock]]
      BY <2>2 DEF Arrive
    <3>2. request[c].step = "idle"
      BY <2>2 DEF Arrive, Request
    <3>3. Request(c)' = [step |-> "asking", key |-> key]
      BY <3>1 DEF Request
    <3>4. request' = [request EXCEPT ![c] = [step |-> "asking", key |-> key]]
      BY <2>1, <3>1, <3>3, RequestMoves
    <3> HIDE DEF request
    <3> QED BY <2>1, <3>2, <3>4 DEF Service!Ask, request
  <2>3. CASE Join(c)
    <3>1. /\ client[c].step = "arrived" /\ k \in flights
          /\ client' = [client EXCEPT ![c] = [step |-> "waiting", key |-> k]]
      BY <2>3 DEF Join
    <3>2. request[c].step = "asking" /\ request[c].key = k
      BY <3>1 DEF Request
    <3>3. PICK d \in Clients : client[d].step \in Rendering /\ client[d].key = k
      BY <3>1 DEF OneRenderPerKey, Step, Rendering
    <3>4. request[d].step = "rendering" /\ request[d].key = k
      BY <3>3 DEF Request, Rendering
    <3>5. Request(c)' = [step |-> "waiting", key |-> k]
      BY <3>1 DEF Request
    <3>6. request' = [request EXCEPT ![c] = [step |-> "waiting", key |-> request[c].key]]
      BY <2>1, <3>1, <3>2, <3>5, RequestMoves
    <3>7. Service!Rendered(request[c].key)
      BY <3>2, <3>4 DEF Service!Rendered
    <3> HIDE DEF request
    <3> QED BY <2>1, <3>2, <3>6, <3>7 DEF Service!Join, request
  <2>4. CASE Leave(c)
    <3>1. client[c].step = "waiting" /\ client' = [client EXCEPT ![c] = idle]
      BY <2>4 DEF Leave
    <3>2. request[c].step = "waiting"
      BY <3>1 DEF Request
    <3>3. Request(c)' = Service!NoRequest
      BY <3>1 DEF Request, idle, Service!NoRequest
    <3>4. request' = [request EXCEPT ![c] = Service!NoRequest]
      BY <2>1, <3>1, <3>3, RequestMoves
    <3> HIDE DEF request
    <3> QED BY <2>1, <3>2, <3>4 DEF Service!Leave, request
  <2>5. CASE ReadTotals(c) \/ ReadPoints(c) \/ RenderFails(c)
    <3>1. /\ \A d \in Clients : d # c => client'[d] = client[d]
          /\ client[c].step \in Rendering /\ client'[c].step \in Rendering
          /\ client'[c].key = client[c].key
      BY <2>5 DEF ReadTotals, ReadPoints, RenderFails, Rendering
    <3>2. \A d \in Clients : Request(d)' = Request(d)
      BY <2>1, <3>1 DEF Request, Rendering
    <3> QED BY <2>1, <3>2
  <2> QED BY <1>5, <2>2, <2>3, <2>4, <2>5 DEF Quiet
<1>6. ASSUME NEW h \in Handlers, AnsweredDelete(h) PROVE \E s \in Sites : Service!Announce(s)
  <2>1. handler[h] \in Sites
    BY <1>6 DEF AnsweredDelete, DeleteSite
  <2>2. UNCHANGED <<version, shown, since, client>>
    BY <1>6 DEF AnsweredDelete, DeleteSite
  <2>3. request' = request
    BY <2>2 DEF Request
  <2> HIDE DEF request
  <2> QED BY <1>6, <2>1, <2>2, <2>3 DEF AnsweredDelete, Service!Announce, request
<1>7. ASSUME NEW h \in Handlers, NEW s \in Sites, Commit(h, s), UNCHANGED history
      PROVE  Service!Change(s)
  <2>1. UNCHANGED <<announced, shown, since, client>>
    BY <1>7 DEF Commit, history
  <2>2. request' = request
    BY <2>1 DEF Request
  <2> HIDE DEF request
  <2> QED BY <1>7, <2>1, <2>2 DEF Commit, Service!Change, request
<1>8. CASE Tick /\ UNCHANGED history
  <2>1. UNCHANGED <<version, announced, shown, since, client>>
    BY <1>8 DEF Tick, history
  <2>2. request' = request
    BY <2>1 DEF Request
  <2> QED BY <2>1, <2>2 DEF Service!serviceVars
<1> HIDE DEF request
<1> QED BY <1>1, <1>2, <1>3, <1>4, <1>5, <1>6, <1>7, <1>8
        DEF AnsweredNext, Service!ServiceNext, Service!serviceVars, request

-----------------------------------------------------------------------------
(* The results *)

LEMMA Invariance == Spec => []IInv
BY Initially, Inductive, PTL DEF Spec

\* However renders, invalidations, expiries and evictions interleave, a cached map
\* shows the Site's present data, in its totals and in its points, unless a handler
\* has committed a change and has yet to run its deleteSite.
THEOREM CachedMapsAreCurrent == Spec => []CacheIsCurrent
<1>1. IInv => CacheIsCurrent
  BY DEF IInv
<1> QED BY <1>1, Invariance, PTL

\* A map variant is rendered by at most one request at a time, its flight is open exactly
\* while one does, and every request that waits has such a leader (getOrRender).
THEOREM RendersAreCoalesced == Spec => []OneRenderPerKey
<1>1. IInv => OneRenderPerKey
  BY DEF IInv
<1> QED BY <1>1, Invariance, PTL

\* The list, the map and the running counters of bytes and of a Site's entries tell the
\* same story whenever the mutex is free, after any series of hits, expiries,
\* replacements, evictions and invalidations (remove, putLocked).
THEOREM CountersTellTheTruth == Spec => []CountersAgree
<1>1. IInv /\ Counted => CountersAgree
  BY DEF Counted
<1> QED BY <1>1, Invariance, InitiallyCounted, CountedInductive, PTL DEF Spec

\* The bodies fit into the cache's bytes and no Site has more than its share of
\* entries: putLocked, which trims the Site of the new entry only, never leaves
\* another one over its share.
THEOREM LimitsAreKept == Spec => []LimitsHold
<1>1. IInv /\ Counted => LimitsHold
  BY DEF Counted
<1> QED BY <1>1, Invariance, InitiallyCounted, CountedInductive, PTL DEF Spec

\* Whoever asks for a map is served as MapService says, however renders, invalidations,
\* expiries, evictions and failures interleave: a hit is no older than the last deleteSite
\* of its Site, a render no older than its beginning, who waits has the answer of a render
\* under way, and no key's answers ever go back (getOrRender, deleteSite).
THEOREM CacheImplementsService == AnsweredSpec => RefinesService
<1>1. AnsweredSpec => [][Service!ServiceNext]_(Service!serviceVars)
  BY AnsweredInvariance, ServiceStep, PTL DEF AnsweredSpec
<1> QED BY <1>1, ServiceInitially, PTL DEF AnsweredSpec, RefinesService, Service!ServiceSpec

=============================================================================
