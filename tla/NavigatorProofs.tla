-------------------------- MODULE NavigatorProofs --------------------------
(***************************************************************************)
(* Proofs about Navigator for every set of addresses, redirections, pages   *)
(* with maps, length of the session history and number of releases.         *)
(***************************************************************************)
EXTENDS Navigator, FiniteSetTheorems, TLAPS

-----------------------------------------------------------------------------
(* Addresses and history entries *)

LEMMA PagesTyped ==
  /\ Pages \subseteq Addresses /\ Posted \in Addresses
  /\ \A u \in Addresses : Page(u) \in Addresses /\ Page(Page(u)) = Page(u)
                          /\ Page(u).path = u.path
  /\ \A u \in Addresses, f \in Fragments : WithFragment(u, f) \in Addresses
                                        /\ Page(WithFragment(u, f)) = Page(u)
  /\ \A p \in Targets : p \in Addresses /\ Page(p) = p /\ p \in Entered
  /\ URLs \subseteq Entered
<1>3. \A u \in Addresses, f \in Fragments : WithFragment(u, f) \in Addresses
                                         /\ Page(WithFragment(u, f)) = Page(u)
  BY DEF Addresses, Page, WithFragment
<1>4. \A u \in Addresses : Page(u) \in Addresses /\ Page(Page(u)) = Page(u)
                           /\ Page(u).path = u.path
  BY NavigatorAssumption DEF Addresses, Page, WithFragment
<1>5. URLs \subseteq Addresses /\ Home \in URLs
  BY NavigatorAssumption
<1>7. Posted \in Addresses /\ Page(Posted) = Posted
  BY NavigatorAssumption
<1>8. \A p \in Pages : p \in Addresses /\ Page(p) = p
  BY <1>4, <1>5 DEF Pages
<1>9. \A p \in Targets : p \in Addresses /\ Page(p) = p /\ p \in Entered
  BY <1>7, <1>8 DEF Targets, Entered
<1>10. URLs \subseteq Entered
  BY <1>4, <1>5 DEF Entered, Targets, Pages
<1> QED BY <1>3, <1>4, <1>5, <1>7, <1>8, <1>9, <1>10

LEMMA EndsTyped ==
  /\ \A p \in Targets : Ends(p) \in Targets
  /\ \A p \in Pages : p # Posted => Ends(p) \in Pages
  /\ Login \in Targets
BY NavigatorAssumption DEF Ends, Targets

LEMMA IntervalSize == ASSUME NEW n \in Nat PROVE IsFiniteSet(1 .. n) /\ Cardinality(1 .. n) = n
<1> DEFINE size == IF 1 > n THEN 0 ELSE n - 1 + 1
<1>1. IsFiniteSet(1 .. n) /\ Cardinality(1 .. n) = size
  <2>1. 1 \in Int /\ n \in Int
    OBVIOUS
  <2> QED BY <2>1, FS_Interval, Zenon
<1>2. size = n
  OBVIOUS
<1> HIDE DEF size
<1> QED BY <1>1, <1>2, Zenon

LEMMA HistoryTyped ==
  ASSUME HistoryOK
  PROVE  /\ DOMAIN hist = 1 .. Len(hist) /\ Len(hist) \in Nat \ {0} /\ Len(hist) <= MaxHistory
         /\ at \in DOMAIN hist /\ at \in Nat \ {0}
         /\ \A i \in DOMAIN hist : hist[i] \in Entries /\ hist[i].url \in Entered
                                   /\ hist[i].doc \in 1 .. MaxHistory + 1
         /\ Location \in Entered
<1>1. /\ DOMAIN hist = 1 .. Len(hist) /\ Len(hist) \in Nat \ {0} /\ Len(hist) <= MaxHistory
      /\ at \in DOMAIN hist /\ at \in Nat \ {0}
      /\ \A i \in DOMAIN hist : hist[i] \in Entries
  BY NavigatorAssumption DEF HistoryOK
<1>2. \A e \in Entries : e.url \in Entered /\ e.doc \in 1 .. MaxHistory + 1
  BY DEF Entries
<1> QED BY <1>1, <1>2 DEF Location

\* A history is never full of documents: there is one more name than there are entries.
LEMMA NewDocTyped == ASSUME HistoryOK PROVE NewDoc \in 1 .. MaxHistory + 1
<1>1. \E doc \in 1 .. MaxHistory + 1 : \A i \in DOMAIN hist : hist[i].doc # doc
  <2> SUFFICES ASSUME \A doc \in 1 .. MaxHistory + 1 : \E i \in DOMAIN hist : hist[i].doc = doc
               PROVE FALSE
    OBVIOUS
  <2> DEFINE D == 1 .. MaxHistory + 1
             entry == [doc \in D |-> CHOOSE i \in DOMAIN hist : hist[i].doc = doc]
  <2>1. MaxHistory \in Nat /\ Len(hist) \in Nat /\ Len(hist) <= MaxHistory
        /\ DOMAIN hist = 1 .. Len(hist) /\ Len(hist) > 0
    BY NavigatorAssumption, HistoryTyped
  <2>2. \A doc \in D : entry[doc] \in DOMAIN hist /\ hist[entry[doc]].doc = doc
    OBVIOUS
  <2>3. entry \in [D -> DOMAIN hist]
    BY <2>2
  <2>4. IsFiniteSet(D) /\ Cardinality(D) = MaxHistory + 1
    BY <2>1, IntervalSize
  <2>5. IsFiniteSet(1 .. Len(hist)) /\ Cardinality(1 .. Len(hist)) = Len(hist)
    BY <2>1, IntervalSize
  <2>6. IsFiniteSet(DOMAIN hist) /\ Cardinality(DOMAIN hist) = Len(hist)
    BY <2>1, <2>5, Zenon
  <2>7. Cardinality(DOMAIN hist) < Cardinality(D)
    BY <2>1, <2>4, <2>6
  <2>8. \E x, y \in D : x # y /\ entry[x] = entry[y]
    <3> HIDE DEF D, entry
    <3> QED BY <2>3, <2>4, <2>6, <2>7, FS_PigeonHole
  <2> QED BY <2>2, <2>8
<1> QED BY <1>1 DEF NewDoc

LEMMA HistoryPushed ==
  ASSUME HistoryOK, NEW url \in Entered, NEW doc \in 1 .. MaxHistory + 1, at < MaxHistory,
         hist' = Pushed(url, doc), at' = at + 1
  PROVE  HistoryOK' /\ Location' = url
<1> DEFINE kept == SubSeq(hist, 1, at)
           new == Entry(url, doc)
<1>1. new \in Entries /\ new.url = url
  BY DEF Entry, Entries
<1>2. kept \in Seq(Entries) /\ Len(kept) = at
  BY HistoryTyped DEF HistoryOK
<1>3. Append(kept, new) \in Seq(Entries) /\ Len(Append(kept, new)) = at + 1
      /\ Append(kept, new)[at + 1] = new
  <2> HIDE DEF kept, new
  <2> QED BY <1>1, <1>2
<1>4. hist' = Append(kept, new)
  BY DEF Pushed
<1>5. at + 1 \in 1 .. at + 1 /\ at + 1 <= MaxHistory
  BY HistoryTyped, NavigatorAssumption
<1> HIDE DEF kept, new
<1>6. HistoryOK'
  BY <1>3, <1>4, <1>5 DEF HistoryOK, Entries, Entered, Targets
<1> QED BY <1>1, <1>3, <1>4, <1>6 DEF Location

LEMMA HistoryReplaced ==
  ASSUME HistoryOK, NEW i \in DOMAIN hist, NEW url \in Entered, at' = i,
         \/ hist' = Replaced(i, url)
         \/ \E doc \in 1 .. MaxHistory + 1 : hist' = [hist EXCEPT ![i] = Entry(url, doc)]
  PROVE  HistoryOK' /\ Location' = url
<1>1. hist \in Seq(Entries) /\ DOMAIN hist = 1 .. Len(hist) /\ hist[i].doc \in 1 .. MaxHistory + 1
  BY HistoryTyped DEF HistoryOK
<1>2. PICK doc \in 1 .. MaxHistory + 1 : hist' = [hist EXCEPT ![i] = Entry(url, doc)]
  BY <1>1 DEF Replaced
<1>3. Entry(url, doc) \in Entries /\ Entry(url, doc).url = url
  BY DEF Entries, Entry
<1>4. hist' \in Seq(Entries) /\ Len(hist') = Len(hist) /\ hist'[i] = Entry(url, doc)
  BY <1>1, <1>2, <1>3
<1>5. HistoryOK'
  BY <1>1, <1>4, HistoryTyped DEF HistoryOK, Entries, Entered, Targets
<1> QED BY <1>3, <1>4, <1>5 DEF Location

-----------------------------------------------------------------------------
(* Full page loads *)

LEMMA ArrivedAt == ASSUME NEW u \in Entered, Arrive(u) PROVE currentURL' \in Entered
<1>1. Page(u) \in Targets /\ u \in Addresses
  BY DEF Entered
<1>2. Ends(Page(u)) \in Targets /\ Ends(Page(u)) \in Addresses /\ u.fragment \in Fragments
  BY <1>1, EndsTyped, PagesTyped DEF Addresses
<1>3. currentURL' \in Addresses /\ Page(currentURL') = Page(Ends(Page(u)))
  BY <1>2, PagesTyped DEF Arrive
<1> QED BY <1>2, <1>3, PagesTyped DEF Entered

LEMMA ArriveStep ==
  ASSUME IInv, NEW u \in Entered, Arrive(u), HistoryOK', Location' = currentURL',
         release' = release
  PROVE  IInv'
<1> DEFINE end == Ends(Page(u))
<1> USE DEF Arrive
<1>1. Page(u) \in Targets /\ u \in Addresses
  BY DEF Entered
<1>2. end \in Targets /\ end \in Addresses /\ u.fragment \in Fragments
  BY <1>1, EndsTyped, PagesTyped DEF Addresses
<1>3. currentURL' \in Addresses /\ Page(currentURL') = end
  BY <1>2, PagesTyped
<1>4. shown' = [page |-> end, error |-> FALSE, release |-> release] /\ release \in Nat
  BY DEF IInv, TypeOK
<1>5. TypeOK'
  <2> HIDE DEF end
  <2>1. currentURL' \in Entered
    BY ArrivedAt
  <2>2. shown'.page = end /\ shown'.error = FALSE /\ shown'.release = release
        /\ shown' \in [page : Targets, error : BOOLEAN, release : Nat]
    BY <1>2, <1>4
  <2>3. scripts' \in Nat /\ charts' \in Nat
    OBVIOUS
  <2>4. Entered' = Entered /\ Targets' = Targets /\ Sent' = Sent
    BY DEF Entered, Targets, Sent
  <2> QED BY <1>1, <1>4, <2>1, <2>2, <2>3, <2>4 DEF TypeOK, Targets, Pages, Sent, Entered
<1>6. NewestOnly' /\ AddressKnown' /\ SavedUnderPath'
  BY DEF NewestOnly, AddressKnown, SavedUnderPath
<1>7. BodyKnown' /\ NewestRequestLands'
  BY <1>2, <1>3, <1>4 DEF BodyKnown, NewestRequestLands, Ends, Page, WithFragment
<1>8. BusyHasAnswer' /\ OneRelease' /\ ViewOfThisPage'
  BY <1>4 DEF BusyHasAnswer, OneRelease, ViewOfThisPage
<1> QED BY <1>5, <1>6, <1>7, <1>8 DEF IInv

LEMMA LoadPageStep ==
  ASSUME IInv, NEW u \in Entered, LoadPage(u), release' = release
  PROVE  IInv'
<1>1. Arrive(u) /\ HistoryOK
  BY DEF LoadPage, IInv, TypeOK
<1>2. currentURL' \in Entered
  BY <1>1, ArrivedAt
<1>3. NewDoc \in 1 .. MaxHistory + 1 /\ at \in DOMAIN hist
  BY <1>1, NewDocTyped, HistoryTyped
<1>4. HistoryOK' /\ Location' = currentURL'
  <2>1. CASE u = Location
    BY <1>1, <1>2, <1>3, <2>1, HistoryReplaced DEF LoadPage
  <2>2. CASE u # Location
    BY <1>1, <1>2, <1>3, <2>2, HistoryPushed DEF LoadPage
  <2> QED BY <2>1, <2>2
<1> QED BY <1>1, <1>4, ArriveStep

LEMMA LoadEntryStep ==
  ASSUME IInv, NEW i \in DOMAIN hist, LoadEntry(i), release' = release
  PROVE  IInv'
<1>1. HistoryOK /\ hist[i].url \in Entered /\ Arrive(hist[i].url)
  BY HistoryTyped DEF LoadEntry, IInv, TypeOK
<1>2. currentURL' \in Entered
  BY <1>1, ArrivedAt
<1>3. HistoryOK' /\ Location' = currentURL'
  BY <1>1, <1>2, HistoryReplaced DEF LoadEntry
<1> QED BY <1>1, <1>3, ArriveStep

-----------------------------------------------------------------------------
(* Requests and fragments *)

LEMMA AskStep ==
  ASSUME IInv, NEW method \in {"GET", "POST"}, NEW target \in Entered,
         NEW history \in {"push", "replace"}, method = "POST" => target = Posted,
         Ask(Request(method, target, history)), busy' \in {busy, TRUE},
         UNCHANGED <<hist, at, shown, currentURL, app, traversed, mapVars, release>>
  PROVE  IInv'
<1> DEFINE r == Request(method, target, history)
<1>1. pending' = {r} /\ wanted' = Page(target) /\ wanted' \in Targets
  BY DEF Ask, Entered, Request
<1>2. r \in Sent /\ r.step = "sent" /\ r.method = method /\ r.target = target
  BY <1>1 DEF Sent, Request
<1> HIDE DEF r
<1>3. TypeOK'
  BY <1>1, <1>2 DEF IInv, TypeOK, HistoryOK, mapVars, Sent, Entered, Targets, Entries
<1>4. NewestOnly'
  BY <1>1, <1>2 DEF NewestOnly
<1>5. BodyKnown' /\ AddressKnown' /\ SavedUnderPath'
  BY <1>1 DEF IInv, BodyKnown, AddressKnown, SavedUnderPath, mapVars, Location
<1>6. NewestRequestLands' /\ BusyHasAnswer' /\ OneRelease' /\ ViewOfThisPage'
  BY <1>1 DEF IInv, NewestRequestLands, BusyHasAnswer, OneRelease, ViewOfThisPage, mapVars
<1> QED BY <1>3, <1>4, <1>5, <1>6 DEF IInv

\* The address has become u: by a traversal, or by a fragment of the page it was at.
LEMMA PopStateStep ==
  ASSUME IInv, NEW u \in Entered, PopState(u), HistoryOK', Location' = u,
         traversed' \/ (traversed' = traversed /\ Page(u) = Page(Location)),
         traversed' \in BOOLEAN,
         UNCHANGED <<shown, busy, app, mapVars, release>>
  PROVE  IInv'
<1>1. CASE Page(currentURL) = Page(u)
  <2>1. currentURL' = u /\ UNCHANGED <<pending, wanted>>
    BY <1>1 DEF PopState
  <2>2. TypeOK' /\ NewestOnly'
    BY <2>1 DEF IInv, TypeOK, NewestOnly, mapVars, Sent, Entered, Targets
  <2>3. BodyKnown' /\ AddressKnown' /\ SavedUnderPath'
    BY <1>1, <2>1 DEF IInv, BodyKnown, AddressKnown, SavedUnderPath, mapVars
  <2>4. NewestRequestLands' /\ BusyHasAnswer' /\ OneRelease' /\ ViewOfThisPage'
    BY <2>1 DEF IInv, NewestRequestLands, BusyHasAnswer, OneRelease, ViewOfThisPage, mapVars
  <2> QED BY <2>2, <2>3, <2>4 DEF IInv
<1>2. CASE Page(currentURL) # Page(u)
  <2> DEFINE r == Request("GET", u, "replace")
  <2>1. pending' = {r} /\ wanted' = Page(u) /\ wanted' \in Targets /\ currentURL' = currentURL
    BY <1>2 DEF PopState, Ask, Entered, Request
  <2>2. r \in Sent /\ r.step = "sent" /\ r.method = "GET" /\ r.target = u
    BY <2>1 DEF Sent, Request
  <2> HIDE DEF r
  <2>3. traversed'
    BY <1>2 DEF IInv, AddressKnown
  <2>4. TypeOK'
    BY <2>1, <2>2 DEF IInv, TypeOK, mapVars, Sent, Entered, Targets
  <2>5. NewestOnly'
    BY <2>1, <2>2 DEF NewestOnly
  <2>6. BodyKnown' /\ AddressKnown' /\ SavedUnderPath'
    BY <2>1, <2>3 DEF IInv, BodyKnown, AddressKnown, SavedUnderPath, mapVars
  <2>7. NewestRequestLands' /\ BusyHasAnswer' /\ OneRelease' /\ ViewOfThisPage'
    BY <2>1, <2>3 DEF IInv, NewestRequestLands, BusyHasAnswer, OneRelease, ViewOfThisPage, mapVars
  <2> QED BY <2>4, <2>5, <2>6, <2>7 DEF IInv
<1> QED BY <1>1, <1>2

LEMMA FragmentStep ==
  ASSUME IInv, NEW u \in Entered, GoToFragment(u), Page(u) = Page(Location)
  PROVE  IInv'
<1>1. HistoryOK /\ at \in DOMAIN hist /\ hist[at].doc \in 1 .. MaxHistory + 1
      /\ traversed \in BOOLEAN
  BY HistoryTyped DEF IInv, TypeOK
<1>2. HistoryOK' /\ Location' = u
  <2>1. CASE u = Location
    BY <1>1, <2>1 DEF GoToFragment, HistoryOK, Location, Entries, Entered, Targets
  <2>2. CASE u # Location
    BY <1>1, <2>2, HistoryPushed DEF GoToFragment
  <2> QED BY <2>1, <2>2
<1>3. PopState(u) /\ UNCHANGED <<shown, busy, app, traversed, mapVars, release>>
  BY DEF GoToFragment
<1> QED BY <1>1, <1>2, <1>3, PopStateStep

LEMMA FollowStep == ASSUME IInv, NEW u \in Entered, Follow(u) PROVE IInv'
BY LoadPageStep, FragmentStep DEF Follow

-----------------------------------------------------------------------------
(* The user *)

LEMMA ClickStep == ASSUME IInv, Click PROVE IInv'
<1>1. PICK u \in URLs :
        IF Page(u) = Page(Location)
        THEN Follow(u)
        ELSE /\ Ask(Request("GET", Carried(u), "push"))
             /\ UNCHANGED <<hist, at, shown, currentURL, busy, app, traversed, mapVars, release>>
  BY DEF Click
<1>2. u \in Entered /\ u \in Addresses /\ Location \in Addresses
  BY PagesTyped, HistoryTyped, NavigatorAssumption DEF IInv, TypeOK, Entered
<1>3. Carried(u) \in Entered
  BY <1>2, PagesTyped DEF Carried, Entered, Addresses
<1> QED BY <1>1, <1>2, <1>3, FollowStep, AskStep

LEMMA SubmitGetStep == ASSUME IInv, SubmitGet PROVE IInv'
<1>1. \A p \in Pages : p \in Entered
  BY PagesTyped DEF Targets
<1> QED BY <1>1, AskStep DEF SubmitGet

LEMMA SubmitPostStep == ASSUME IInv, SubmitPost PROVE IInv'
<1>1. Posted \in Entered
  BY PagesTyped DEF Targets
<1> QED BY <1>1, AskStep DEF SubmitPost

LEMMA SubmitNativeStep == ASSUME IInv, SubmitNative PROVE IInv'
<1>1. \A p \in Pages : p \in Entered
  BY PagesTyped DEF Targets
<1> QED BY <1>1, LoadPageStep DEF SubmitNative

LEMMA TraverseStep == ASSUME IInv, Traverse PROVE IInv'
<1>1. PICK i \in DOMAIN hist \ {at} :
        IF hist[i].doc = hist[at].doc
        THEN /\ at' = i
             /\ PopState(hist[i].url)
             /\ traversed' = TRUE
             /\ UNCHANGED <<hist, shown, busy, app, mapVars, release>>
        ELSE LoadEntry(i) /\ UNCHANGED release
  BY DEF Traverse
<1>2. HistoryOK /\ hist[i].url \in Entered /\ DOMAIN hist = 1 .. Len(hist)
  BY HistoryTyped DEF IInv, TypeOK
<1>3. CASE hist[i].doc = hist[at].doc
  <2>1. HistoryOK' /\ Location' = hist[i].url
    BY <1>1, <1>2, <1>3 DEF HistoryOK, Location, Entries, Entered, Targets
  <2> QED BY <1>1, <1>2, <1>3, <2>1, PopStateStep
<1>4. CASE hist[i].doc # hist[at].doc
  BY <1>1, <1>4, LoadEntryStep
<1> QED BY <1>3, <1>4

-----------------------------------------------------------------------------
(* Answers *)

LEMMA ReceiveStep == ASSUME IInv, NEW r \in pending, Receive(r) PROVE IInv'
<1>1. PICK final \in Pages \cup {Posted}, redirected \in BOOLEAN :
        /\ IF r.method = "GET"
           THEN final = Ends(Page(r.target)) /\ redirected = (final # Page(r.target))
           ELSE redirected = (final # Posted)
        /\ pending' = (pending \ {r}) \cup
             {[r EXCEPT !.step = "reading", !.final = final, !.redirected = redirected,
                        !.release = release]}
  BY DEF Receive
<1> DEFINE q == [r EXCEPT !.step = "reading", !.final = final, !.redirected = redirected,
                          !.release = release]
<1>2. r \in Sent /\ release \in Nat /\ final \in Targets /\ pending = {r}
  BY DEF IInv, TypeOK, NewestOnly, Targets
<1>3. /\ q \in Sent /\ q.step = "reading" /\ q.final = final /\ q.redirected = redirected
      /\ q.method = r.method /\ q.target = r.target
  BY <1>2 DEF Sent
<1>4. pending' = {q}
  BY <1>1, <1>2
<1> HIDE DEF q
<1>5. UNCHANGED <<hist, at, shown, currentURL, busy, app, wanted, traversed, mapVars, release>>
  BY DEF Receive
<1>6. TypeOK'
  BY <1>3, <1>4, <1>5 DEF IInv, TypeOK, HistoryOK, mapVars, Sent, Entered, Targets, Entries
<1>7. NewestOnly'
  BY <1>1, <1>2, <1>3, <1>4, <1>5 DEF IInv, NewestOnly, Ends
<1>8. BodyKnown' /\ AddressKnown' /\ SavedUnderPath'
  BY <1>4, <1>5 DEF IInv, BodyKnown, AddressKnown, SavedUnderPath, mapVars, Location
<1>9. NewestRequestLands' /\ BusyHasAnswer' /\ OneRelease' /\ ViewOfThisPage'
  BY <1>4, <1>5 DEF IInv, NewestRequestLands, BusyHasAnswer, OneRelease, ViewOfThisPage, mapVars
<1> QED BY <1>6, <1>7, <1>8, <1>9 DEF IInv

LEMMA ToLoginStep == ASSUME IInv, NEW r \in pending, ToLogin(r) PROVE IInv'
BY EndsTyped, PagesTyped, LoadPageStep DEF ToLogin

LEMMA FailStep == ASSUME IInv, NEW r \in pending, Fail(r) PROVE IInv'
<1>1. r.target \in Entered /\ at \in DOMAIN hist
  BY HistoryTyped DEF IInv, TypeOK, Sent
<1> QED BY <1>1, FollowStep, LoadEntryStep DEF Fail

LEMMA SwapStep ==
  ASSUME IInv, NEW r \in pending, r.step = "reading", Swap(r), SameApp(r)
  PROVE  IInv'
<1>1. /\ HistoryOK /\ at \in DOMAIN hist /\ hist[at].doc \in 1 .. MaxHistory + 1
      /\ Location \in Entered
  BY HistoryTyped DEF IInv, TypeOK
<1>2. r \in Sent /\ r.final \in Targets /\ r.final \in Entered /\ Page(r.final) = r.final
      /\ r.release \in Nat /\ pending = {r} /\ r.method \in {"GET", "POST"}
  BY PagesTyped DEF IInv, TypeOK, NewestOnly, Sent
<1>3. NewAddress(r) \in Entered /\ currentURL' = NewAddress(r) /\ pending' = {}
  BY <1>1, <1>2 DEF NewAddress, Swap
<1>4. HistoryOK' /\ Location' = NewAddress(r)
  <2>1. CASE Replaces(r)
    BY <1>1, <1>3, <2>1, HistoryReplaced DEF Swap
  <2>2. CASE ~ Replaces(r)
    BY <1>1, <1>3, <2>2, HistoryPushed DEF Swap
  <2> QED BY <2>1, <2>2
<1>5. /\ shown' = [page |-> r.final, error |-> IsError(r), release |-> r.release]
      /\ busy' = FALSE /\ UNCHANGED <<app, wanted, traversed, release>>
      /\ IsError(r) \in BOOLEAN
  BY <1>2 DEF Swap, IsError, Sent
<1>6. charts' = 0 /\ view' = NoMap
      /\ saved' = IF charts > 0 THEN [path |-> Location.path, view |-> view] ELSE saved
  BY DEF Swap, Teardown
<1>7. TypeOK'
  <2>1. scripts' \in Nat
    BY DEF Swap, IInv, TypeOK
  <2>2. shown' \in [page : Targets, error : BOOLEAN, release : Nat]
    BY <1>2, <1>5
  <2>3. Entered' = Entered /\ Targets' = Targets /\ Sent' = Sent
    BY DEF Entered, Targets, Sent
  <2> QED BY <1>3, <1>4, <1>5, <1>6, <2>1, <2>2, <2>3 DEF IInv, TypeOK
<1>8. NewestOnly' /\ AddressKnown' /\ BusyHasAnswer'
  BY <1>3, <1>4, <1>5 DEF NewestOnly, AddressKnown, BusyHasAnswer
<1>9. BodyKnown' /\ NewestRequestLands'
  <2>1. shown'.page = r.final /\ shown'.error = IsError(r) /\ wanted' = wanted
    BY <1>5
  <2>2. CASE r.method = "GET"
    <3>1. ~ IsError(r) /\ NewAddress(r) = r.final
      BY <2>2 DEF IsError, NewAddress
    <3>2. r.final = Ends(wanted)
      BY <2>2 DEF IInv, NewestOnly
    <3>3. Ends(wanted)' = Ends(wanted)
      BY <1>5 DEF Ends
    <3> QED BY <1>2, <1>3, <2>1, <3>1, <3>2, <3>3 DEF BodyKnown, NewestRequestLands, Page,
            WithFragment
  <2>3. CASE r.method = "POST"
    <3>1. wanted = Posted
      BY <2>3, PagesTyped, NavigatorAssumption DEF IInv, NewestOnly
    <3>2. shown'.error \/ NewAddress(r) = r.final
      BY <2>1 DEF NewAddress
    <3> QED BY <1>2, <1>3, <2>1, <3>1, <3>2 DEF BodyKnown, NewestRequestLands, Page,
            WithFragment
  <2> QED BY <1>2, <2>2, <2>3
<1>10. OneRelease' /\ ViewOfThisPage'
  BY <1>5, <1>6 DEF SameApp, OneRelease, ViewOfThisPage
<1>11. SavedUnderPath'
  <2>1. CASE charts > 0 /\ ~ traversed
    <3>1. currentURL = Location /\ Page(currentURL) = shown.page
      BY <2>1 DEF IInv, AddressKnown, BodyKnown, ViewOfThisPage
    <3>2. Location.path = shown.page.path
      BY <1>1, <3>1, PagesTyped DEF Entered
    <3> QED BY <1>6, <2>1, <3>2 DEF IInv, ViewOfThisPage, SavedUnderPath
  <2>2. CASE traversed
    BY <1>5, <2>2 DEF SavedUnderPath
  <2>3. CASE ~ (charts > 0)
    BY <1>5, <1>6, <2>3 DEF IInv, SavedUnderPath
  <2> QED BY <2>1, <2>2, <2>3
<1> QED BY <1>7, <1>8, <1>9, <1>10, <1>11 DEF IInv

LEMMA LandStep == ASSUME IInv, NEW r \in pending, Land(r) PROVE IInv'
<1>1. r.final \in Entered
  BY PagesTyped DEF IInv, TypeOK, Sent
<1> QED BY <1>1, SwapStep, LoadPageStep DEF Land

-----------------------------------------------------------------------------
(* The analytics script, and the server *)

LEMMA RunAnalyticsStep == ASSUME IInv, RunAnalytics PROVE IInv'
<1>1. UNCHANGED <<hist, at, shown, currentURL, pending, busy, app, wanted, traversed, release>>
      /\ scripts' \in Nat /\ charts' \in Nat
  BY DEF RunAnalytics, IInv, TypeOK, tabVars
<1>2. TypeOK' /\ NewestOnly'
  BY <1>1 DEF IInv, TypeOK, HistoryOK, NewestOnly, Sent, Entered, Targets, Entries
<1>3. BodyKnown' /\ AddressKnown' /\ NewestRequestLands' /\ BusyHasAnswer' /\ OneRelease'
  BY <1>1 DEF IInv, BodyKnown, AddressKnown, NewestRequestLands, BusyHasAnswer, OneRelease,
     Location
<1>4. SavedUnderPath'
  BY <1>1 DEF RunAnalytics, IInv, SavedUnderPath
<1>5. ViewOfThisPage'
  <2>1. CASE HasMap(shown.page) /\ ~ shown.error /\ ~ traversed
    <3>1. currentURL = Location /\ Page(currentURL) = shown.page /\ Location \in Addresses
      BY <2>1, HistoryTyped DEF IInv, TypeOK, AddressKnown, BodyKnown, Entered
    <3>2. Location.path = shown.page.path
      BY <3>1, PagesTyped
    <3> QED BY <1>1, <2>1, <3>2 DEF RunAnalytics, SavedHere, IInv, SavedUnderPath, ViewOfThisPage
  <2>2. CASE ~ (HasMap(shown.page) /\ ~ shown.error /\ ~ traversed)
    BY <1>1, <2>2 DEF RunAnalytics, IInv, ViewOfThisPage, HasMap
  <2> QED BY <2>1, <2>2
<1> QED BY <1>2, <1>3, <1>4, <1>5 DEF IInv

LEMMA MoveMapStep == ASSUME IInv, MoveMap PROVE IInv'
<1>1. UNCHANGED <<hist, at, shown, currentURL, pending, busy, app, wanted, traversed, release,
                  scripts, charts, saved>>
  BY DEF MoveMap, tabVars
<1>2. TypeOK' /\ NewestOnly'
  BY <1>1 DEF IInv, TypeOK, HistoryOK, NewestOnly, Sent, Entered, Targets, Entries
<1>3. BodyKnown' /\ AddressKnown' /\ NewestRequestLands' /\ BusyHasAnswer' /\ OneRelease'
  BY <1>1 DEF IInv, BodyKnown, AddressKnown, NewestRequestLands, BusyHasAnswer, OneRelease,
     Location
<1>4. SavedUnderPath' /\ ViewOfThisPage'
  BY <1>1 DEF MoveMap, IInv, SavedUnderPath, ViewOfThisPage
<1> QED BY <1>2, <1>3, <1>4 DEF IInv

LEMMA DeployStep == ASSUME IInv, Deploy PROVE IInv'
<1>1. UNCHANGED <<hist, at, tabVars, mapVars>> /\ release' \in Nat
  BY DEF Deploy, IInv, TypeOK
<1>2. TypeOK' /\ NewestOnly'
  BY <1>1 DEF IInv, TypeOK, HistoryOK, NewestOnly, Sent, Entered, Targets, Entries, tabVars,
     mapVars
<1>3. BodyKnown' /\ AddressKnown' /\ NewestRequestLands' /\ BusyHasAnswer' /\ OneRelease'
  BY <1>1 DEF IInv, BodyKnown, AddressKnown, NewestRequestLands, BusyHasAnswer, OneRelease,
     Location, tabVars
<1>4. SavedUnderPath' /\ ViewOfThisPage'
  BY <1>1 DEF IInv, SavedUnderPath, ViewOfThisPage, tabVars, mapVars
<1> QED BY <1>2, <1>3, <1>4 DEF IInv

-----------------------------------------------------------------------------
(* The theorems *)

LEMMA Initially == Init => IInv
<1> SUFFICES ASSUME Init PROVE IInv
  OBVIOUS
<1>1. Home \in Entered /\ Home \in Addresses /\ Page(Home) \in Targets
      /\ Page(Page(Home)) = Page(Home)
  BY NavigatorAssumption, PagesTyped DEF Entered
<1>2. Location = Home
  BY DEF Init, Location, Entry
<1>3. HistoryOK
  BY <1>1, NavigatorAssumption DEF Init, HistoryOK, Entries, Entry
<1>4. TypeOK
  BY <1>1, <1>3 DEF Init, TypeOK
<1>5. NewestOnly /\ BodyKnown /\ AddressKnown /\ SavedUnderPath
  BY <1>2 DEF Init, NewestOnly, BodyKnown, AddressKnown, SavedUnderPath
<1>6. BusyHasAnswer /\ OneRelease /\ ViewOfThisPage
  BY DEF Init, BusyHasAnswer, OneRelease, ViewOfThisPage
<1>7. NewestRequestLands
  BY NavigatorAssumption DEF Init, NewestRequestLands, Ends
<1> QED BY <1>3, <1>4, <1>5, <1>6, <1>7 DEF IInv

LEMMA Stutters == IInv /\ UNCHANGED vars => IInv'
<1> SUFFICES ASSUME IInv, UNCHANGED vars PROVE IInv'
  OBVIOUS
<1> USE DEF vars, tabVars, mapVars
<1>1. TypeOK' /\ NewestOnly'
  BY DEF IInv, TypeOK, HistoryOK, NewestOnly, Sent, Entered, Targets, Entries
<1>2. BodyKnown' /\ AddressKnown' /\ NewestRequestLands' /\ BusyHasAnswer' /\ OneRelease'
  BY DEF IInv, BodyKnown, AddressKnown, NewestRequestLands, BusyHasAnswer, OneRelease, Location
<1>3. SavedUnderPath' /\ ViewOfThisPage'
  BY DEF IInv, SavedUnderPath, ViewOfThisPage
<1> QED BY <1>1, <1>2, <1>3 DEF IInv

LEMMA Step == IInv /\ [Next]_vars => IInv'
<1> SUFFICES ASSUME IInv, Next PROVE IInv'
  BY Stutters
<1>1. CASE Click \/ SubmitGet \/ SubmitPost \/ SubmitNative \/ Traverse
  BY <1>1, ClickStep, SubmitGetStep, SubmitPostStep, SubmitNativeStep, TraverseStep
<1>2. CASE \E r \in pending : Receive(r) \/ ToLogin(r) \/ Fail(r) \/ Land(r)
  BY <1>2, ReceiveStep, ToLoginStep, FailStep, LandStep
<1>3. CASE RunAnalytics \/ MoveMap \/ Deploy
  BY <1>3, RunAnalyticsStep, MoveMapStep, DeployStep
<1> QED BY <1>1, <1>2, <1>3 DEF Next

LEMMA Invariant == Spec => []IInv
BY Initially, Step, PTL DEF Spec

LEMMA AddressFollows == IInv => AddressIsShown
<1> SUFFICES ASSUME IInv, pending = {}, ~ shown.error PROVE Page(Location) = shown.page
  BY DEF AddressIsShown
<1> QED BY DEF IInv, AddressKnown, BodyKnown

\* With no answer on its way the tab shows the page of its address, for all addresses,
\* redirections and lengths of history (applyDocument, the popstate handler).
THEOREM TabShowsItsAddress == Spec => []AddressIsShown
BY Invariant, AddressFollows, PTL

\* What is shown is the answer to the newest request: one that was overtaken never lands
\* (requestDocument).
THEOREM OvertakenNeverLands == Spec => []NewestRequestLands
<1>1. IInv => NewestRequestLands
  BY DEF IInv
<1> QED BY <1>1, Invariant, PTL

\* A busy button always has an answer on its way (markBusy).
THEOREM BusyIsAnswered == Spec => []BusyHasAnswer
<1>1. IInv => BusyHasAnswer
  BY DEF IInv
<1> QED BY <1>1, Invariant, PTL

\* Page and navigator are of one release, however often the server is updated
\* (applyDocument).
THEOREM ReleasesAgree == Spec => []OneRelease
<1>1. IInv => OneRelease
  BY DEF IInv
<1> QED BY <1>1, Invariant, PTL

\* Without a traversal a map never takes over the view of another page (savedMapState).
THEOREM ViewsStayOnTheirPage == Spec => []ViewOfThisPage
<1>1. IInv => ViewOfThisPage
  BY DEF IInv
<1> QED BY <1>1, Invariant, PTL

=============================================================================
