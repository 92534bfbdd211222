--------------------------- MODULE TrackerProofs ---------------------------
(***************************************************************************)
(* Proofs about Tracker for every number of tabs, script elements, page     *)
(* loads and paths, and every kind of browser.                              *)
(***************************************************************************)
EXTENDS Tracker, FiniteSetTheorems, TLAPS

Post == [path : Paths, id : Int]

-----------------------------------------------------------------------------
(* One page *)

LEMMA Appended ==
  ASSUME NEW s \in Seq(Post), NEW e \in Post
  PROVE  /\ Append(s, e) \in Seq(Post) /\ Len(Append(s, e)) = Len(s) + 1
         /\ PathsOf(Append(s, e)) = PathsOf(s) \cup {e.path}
         /\ \A i \in DOMAIN Append(s, e) : Append(s, e)[i] = e \/ (i \in DOMAIN s /\ Append(s, e)[i] = s[i])
<1>1. /\ Append(s, e) \in Seq(Post) /\ Len(Append(s, e)) = Len(s) + 1
      /\ DOMAIN Append(s, e) = 1 .. Len(s) + 1 /\ DOMAIN s = 1 .. Len(s) /\ Len(s) \in Nat
      /\ \A i \in 1 .. Len(s) : Append(s, e)[i] = s[i]
      /\ Append(s, e)[Len(s) + 1] = e
  OBVIOUS
<1> DEFINE t == Append(s, e)
<1> HIDE DEF t
<1>2. \A i \in DOMAIN t : t[i] = e \/ (i \in DOMAIN s /\ t[i] = s[i])
  BY <1>1 DEF t
<1>3. PathsOf(t) \subseteq PathsOf(s) \cup {e.path}
  BY <1>2 DEF PathsOf
<1>4. PathsOf(s) \subseteq PathsOf(t) /\ e.path \in PathsOf(t)
  <2>1. \A i \in DOMAIN s : i \in DOMAIN t /\ t[i] = s[i]
    BY <1>1 DEF t
  <2>2. Len(s) + 1 \in DOMAIN t /\ t[Len(s) + 1] = e
    BY <1>1 DEF t
  <2> QED BY <2>1, <2>2 DEF PathsOf
<1> QED BY <1>1, <1>2, <1>3, <1>4 DEF t

\* A page whose path is marked and not yet handed over.
Underway(pg) ==
  /\ Len(pg.posts) = Cardinality(PathsOf(pg.posts)) /\ IsFiniteSet(PathsOf(pg.posts))
  /\ PathsOf(pg.posts) \subseteq pg.sent
  /\ pg.path \in pg.sent \ PathsOf(pg.posts)
  /\ browser.fetch => PathsOf(pg.posts) = pg.sent \ {pg.path}

LEMMA HandedOverOK ==
  ASSUME TypeOK, NEW pg \in PageViews, Underway(pg), NEW id \in Int, NEW taken \in Outcomes,
         browser.crypto =>
           Valid(id) /\ pg.visitorID = id /\ \A i \in DOMAIN pg.posts : pg.posts[i].id = id
  PROVE  LET next == HandedOver(pg, pg.path, id, taken) IN
         /\ next \in PageViews /\ Marked(next) /\ Identified(next)
         /\ next.step = "idle" /\ next.frame = pg.frame
<1> DEFINE next == HandedOver(pg, pg.path, id, taken)
           post == [path |-> pg.path, id |-> id]
<1>1. post \in Post /\ post.path = pg.path /\ post.id = id /\ pg.posts \in Seq(Post)
  BY DEF PageViews, Post
<1>2. taken \in BOOLEAN /\ (browser.fetch => taken)
  BY DEF Outcomes, TypeOK
<1> DEFINE posts == IF taken THEN Append(pg.posts, post) ELSE pg.posts
<1>3. posts \in Seq(Post)
  BY <1>1, Appended
<1>4. /\ next.posts = posts /\ next.step = "idle" /\ next.sent = pg.sent
      /\ next.visitorID = pg.visitorID /\ next.frame = pg.frame
      /\ next \in PageViews
  <2> HIDE DEF post
  <2>1. next = [pg EXCEPT !.step = "idle", !.posts = posts]
    BY DEF HandedOver, post
  <2> HIDE DEF posts, next
  <2> QED BY <1>3, <2>1 DEF PageViews, Post
<1> HIDE DEF next, post
<1>5. Marked(next)
  <2>1. CASE taken
    <3>1. PathsOf(posts) = PathsOf(pg.posts) \cup {pg.path} /\ Len(posts) = Len(pg.posts) + 1
      BY <1>1, <2>1, Appended
    <3>2. IsFiniteSet(PathsOf(posts)) /\ Cardinality(PathsOf(posts)) = Cardinality(PathsOf(pg.posts)) + 1
      BY <3>1, FS_AddElement DEF Underway
    <3> QED BY <1>4, <3>1, <3>2 DEF Marked, Underway
  <2>2. CASE ~ taken
    BY <1>2, <1>4, <2>2 DEF Marked, Underway
  <2> QED BY <1>2, <2>1, <2>2
<1>6. Identified(next)
  <2>1. \A i \in DOMAIN posts : posts[i] = post \/ (i \in DOMAIN pg.posts /\ posts[i] = pg.posts[i])
    BY <1>1, Appended
  <2> HIDE DEF posts
  <2> QED BY <1>1, <1>4, <2>1 DEF Identified
<1> QED BY <1>4, <1>5, <1>6 DEF next

LEMMA BeginOK ==
  ASSUME TypeOK, NEW pg \in PageViews, pg.step = "idle", Marked(pg), Identified(pg),
         NEW l \in Locations, NEW next \in Begin(pg, l)
  PROVE  /\ next \in PageViews /\ Marked(next) /\ Identified(next)
         /\ next.step \in {"idle", "reading"} /\ next.frame = pg.frame
<1> DEFINE path == PathOf[l]
           marked == [pg EXCEPT !.sent = @ \cup {path}, !.path = path]
<1>1. path \in Paths
  BY DEF Paths
<1>2. CASE path \in pg.sent
  BY <1>2 DEF Begin
<1>3. CASE path \notin pg.sent
  <2>1. /\ marked \in PageViews /\ marked.sent = pg.sent \cup {path} /\ marked.path = path
        /\ marked.posts = pg.posts /\ marked.visitorID = pg.visitorID
        /\ marked.frame = pg.frame /\ marked.step = "idle"
    BY <1>1 DEF PageViews
  <2>2. Underway(marked)
    <3> HIDE DEF marked, path
    <3> QED BY <1>3, <2>1 DEF Marked, Underway
  <2>3. CASE marked.visitorID # Null
    <3>1. PICK taken \in Outcomes : next = HandedOver(marked, path, marked.visitorID, taken)
      BY <1>3, <2>3 DEF Begin
    <3> HIDE DEF marked, path
    <3>2. marked.visitorID \in Int /\
          (browser.crypto =>
             /\ Valid(marked.visitorID)
             /\ \A i \in DOMAIN marked.posts : marked.posts[i].id = marked.visitorID)
      BY <2>1, <2>3 DEF Identified, PageViews
    <3> QED BY <2>1, <2>2, <3>1, <3>2, HandedOverOK
  <2>4. CASE marked.visitorID = Null
    <3>1. next = [marked EXCEPT !.step = "reading"]
      BY <1>3, <2>4 DEF Begin
    <3> HIDE DEF marked, path
    <3>2. /\ next \in PageViews /\ next.step = "reading" /\ next.sent = marked.sent
          /\ next.path = marked.path /\ next.posts = marked.posts
          /\ next.visitorID = marked.visitorID /\ next.frame = marked.frame
      BY <2>1, <3>1 DEF PageViews
    <3>3. Marked(next)
      BY <2>2, <3>2 DEF Marked, Underway
    <3>4. Identified(next)
      <4>1. browser.crypto => pg.posts = << >>
        BY <2>1, <2>4 DEF Identified, Valid, Null
      <4> QED BY <2>1, <3>2, <4>1 DEF Identified
    <3> QED BY <2>1, <3>2, <3>3, <3>4
  <2> QED BY <2>3, <2>4
<1> QED BY <1>2, <1>3

-----------------------------------------------------------------------------
(* One tab moves *)

FramesOwn(pg) ==
  \A e \in Elements :
    /\ pg.frame[e] \in {Unmounted, FirstSize(e)} \cup Reported[e]
    /\ pg.frame[e] # Unmounted => Fits(pg.frame[e])

PageOK(pg) == pg \in PageViews /\ Marked(pg) /\ Identified(pg) /\ FramesOwn(pg)

Minters == {t \in Tabs : tab[t].step = "minting"}

\* All of the invariant that is not about the drawing of IDs, tab by tab.
LEMMA PagesMove ==
  ASSUME IInv, NEW t \in Tabs, NEW next, tab' = [tab EXCEPT ![t] = next],
         UNCHANGED browser, storage' \in Int, minted' \in Nat, PageOK(next)
  PROVE  /\ TypeOK' /\ OwnFrameSizes'
         /\ \A u \in Tabs : Marked(tab[u])' /\ Identified(tab[u])'
<1>1. tab' \in [Tabs -> PageViews] /\ tab'[t] = next
      /\ \A u \in Tabs \ {t} : tab'[u] = tab[u]
  BY DEF IInv, TypeOK, PageOK
<1>2. PageViews' = PageViews /\ browser' = browser
  BY DEF PageViews, Paths, Sizes
<1>3. TypeOK'
  BY <1>1, <1>2 DEF IInv, TypeOK
<1>5. \A u \in Tabs : Marked(tab'[u]) /\ Identified(tab'[u])
  BY <1>1 DEF IInv, PageOK
<1>6. \A u \in Tabs : Marked(tab[u])' /\ Identified(tab[u])'
  BY <1>1, <1>2, <1>5 DEF Marked, Identified, PathsOf, Valid, Null
<1>7. OwnFrameSizes'
  <2>1. \A u \in Tabs : FramesOwn(tab'[u])
    BY <1>1 DEF IInv, PageOK, OwnFrameSizes, FramesOwn
  <2> QED BY <2>1 DEF OwnFrameSizes, FramesOwn, Unmounted, FirstSize, Fits, Within, NaN
<1> QED BY <1>3, <1>6, <1>7

LEMMA TabOK ==
  ASSUME IInv, NEW t \in Tabs
  PROVE  PageOK(tab[t]) /\ TypeOK
BY DEF IInv, TypeOK, PageOK, OwnFrameSizes, FramesOwn

\* No ID is drawn, and nobody begins to draw one.
LEMMA NobodyMints ==
  ASSUME IInv, NEW t \in Tabs, NEW next \in PageViews, tab' = [tab EXCEPT ![t] = next],
         UNCHANGED <<browser, storage, minted>>, next.step # "minting"
  PROVE  MintersLeft'
<1>1. Minters' \subseteq Minters
  BY DEF Minters, IInv, TypeOK
<1>2. IsFiniteSet(Minters) /\ Cardinality(Minters') <= Cardinality(Minters)
      /\ Cardinality(Minters) \in Nat /\ Cardinality(Minters') \in Nat
  <2>1. IsFiniteSet(Minters)
    BY TrackerAssumption, FS_Subset DEF Minters
  <2> QED BY <1>1, <2>1, FS_Subset, FS_CardinalityType
<1>3. Cardinality(Tabs) \in Nat
  BY TrackerAssumption, FS_CardinalityType
<1>4. browser' = browser /\ storage' = storage /\ minted' = minted /\ minted \in Nat
  BY DEF IInv, TypeOK
<1> QED BY <1>2, <1>3, <1>4 DEF IInv, MintersLeft, Minters, Stores, Valid

LEMMA MoveWithoutMinting ==
  ASSUME IInv, NEW t \in Tabs, NEW next, tab' = [tab EXCEPT ![t] = next],
         UNCHANGED <<browser, storage, minted>>, PageOK(next), next.step # "minting"
  PROVE  IInv'
<1>1. storage' \in Int /\ minted' \in Nat
  BY DEF IInv, TypeOK
<1> QED BY <1>1, PagesMove, NobodyMints DEF IInv, PageOK

\* Tab t, which neither read nor drew an ID, shows another page state and draws none.
IdleMove(t) ==
  \E next :
    /\ tab' = [tab EXCEPT ![t] = next] /\ PageOK(next) /\ next.step # "minting"
    /\ tab[t].step = "idle" /\ UNCHANGED <<browser, storage, minted>>

LEMMA IdleMoveStep == ASSUME IInv, NEW t \in Tabs, IdleMove(t) PROVE IInv'
BY MoveWithoutMinting DEF IdleMove

LEMMA SizesTyped ==
  /\ Unmounted \in Sizes
  /\ \A e \in Elements : FirstSize(e) \in Sizes /\ Fits(FirstSize(e))
<1>1. /\ MinSize \in Sizes /\ MaxSize \in Sizes /\ DefaultSize \in Sizes /\ Fits(DefaultSize)
      /\ \A e \in Elements : Asked[e] \in Sizes
  BY TrackerAssumption
<1>2. Unmounted \in Sizes
  BY DEF Unmounted, Sizes
<1>3. ASSUME NEW e \in Elements PROVE FirstSize(e) \in Sizes /\ Fits(FirstSize(e))
  BY <1>1 DEF FirstSize, Fits, Within, Sizes, NaN
<1> QED BY <1>2, <1>3

\* A page that has reported nothing yet.
LEMMA FreshPage ==
  ASSUME NEW pg, pg.step = "idle", pg.sent = {}, pg.posts = << >>, pg.visitorID = Null
  PROVE  Marked(pg) /\ Identified(pg)
<1>1. PathsOf(pg.posts) = {}
  BY DEF PathsOf
<1>2. IsFiniteSet({}) /\ Cardinality({}) = 0
  BY FS_EmptySet, Zenon
<1>3. Len(pg.posts) = 0
  OBVIOUS
<1>4. Marked(pg)
  BY <1>1, <1>2, <1>3 DEF Marked
<1>5. Identified(pg)
  BY DEF Identified
<1> QED BY <1>4, <1>5

LEMMA RunMoves == ASSUME IInv, NEW t \in Tabs, NEW e \in Elements, Run(t, e) PROVE IdleMove(t)
<1> DEFINE mounted == IF RendersWidget(e)
                      THEN [tab[t] EXCEPT !.ran = @ \cup {e}, !.frame[e] = FirstSize(e)]
                      ELSE [tab[t] EXCEPT !.ran = @ \cup {e}]
<1>1. /\ tab[t].step = "idle" /\ UNCHANGED <<browser, storage, minted>>
      /\ \E next \in (IF DisplayOnly(e) THEN {mounted} ELSE Begin(mounted, mounted.here)) :
           tab' = [tab EXCEPT ![t] = next]
  BY DEF Run
<1>2. PageOK(tab[t]) /\ TypeOK
  BY TabOK
<1>3. /\ mounted \in PageViews /\ mounted.step = "idle" /\ mounted.sent = tab[t].sent
      /\ mounted.posts = tab[t].posts /\ mounted.visitorID = tab[t].visitorID
      /\ mounted.here = tab[t].here /\ mounted.path = tab[t].path
      /\ mounted.frame \in {tab[t].frame, [tab[t].frame EXCEPT ![e] = FirstSize(e)]}
  BY <1>1, <1>2, SizesTyped DEF PageOK, PageViews
<1> HIDE DEF mounted
<1>4. Marked(mounted) /\ Identified(mounted)
  BY <1>1, <1>2, <1>3 DEF PageOK, Marked, Identified
<1>5. FramesOwn(mounted)
  <2>1. tab[t].frame \in [Elements -> Sizes]
    BY <1>2 DEF PageOK, PageViews
  <2> QED BY <1>2, <1>3, <2>1, SizesTyped DEF PageOK, FramesOwn
<1>6. mounted.here \in Locations
  BY <1>3 DEF PageViews
<1>7. PICK next : /\ tab' = [tab EXCEPT ![t] = next]
                  /\ next = mounted \/ next \in Begin(mounted, mounted.here)
  BY <1>1
<1>8. PageOK(next) /\ next.step # "minting"
  BY <1>2, <1>3, <1>4, <1>5, <1>6, <1>7, BeginOK DEF PageOK, FramesOwn
<1> QED BY <1>1, <1>7, <1>8 DEF IdleMove

LEMMA TrackMoves == ASSUME IInv, NEW t \in Tabs, Track(t) PROVE IdleMove(t)
<1>1. PICK l \in Locations :
        \E next \in Begin([tab[t] EXCEPT !.here = l], l) : tab' = [tab EXCEPT ![t] = next]
  BY DEF Track
<1> DEFINE here == [tab[t] EXCEPT !.here = l]
<1>2. PageOK(tab[t]) /\ TypeOK /\ tab[t].step = "idle" /\ UNCHANGED <<browser, storage, minted>>
  BY TabOK DEF Track
<1>3. /\ here \in PageViews /\ here.step = "idle" /\ here.sent = tab[t].sent
      /\ here.posts = tab[t].posts /\ here.visitorID = tab[t].visitorID
      /\ here.path = tab[t].path /\ here.frame = tab[t].frame
  BY <1>2 DEF PageOK, PageViews
<1>4. PICK next \in Begin(here, l) : tab' = [tab EXCEPT ![t] = next]
  BY <1>1
<1> HIDE DEF here
<1>5. Marked(here) /\ Identified(here)
  BY <1>2, <1>3 DEF PageOK, Marked, Identified
<1>6. next \in PageViews /\ Marked(next) /\ Identified(next) /\ next.step \in {"idle", "reading"}
      /\ next.frame = tab[t].frame
  BY <1>2, <1>3, <1>4, <1>5, BeginOK
<1>7. PageOK(next) /\ next.step # "minting"
  BY <1>2, <1>6 DEF PageOK, FramesOwn
<1> QED BY <1>2, <1>4, <1>7 DEF IdleMove

LEMMA LoadMoves == ASSUME IInv, NEW t \in Tabs, Load(t) PROVE IdleMove(t)
<1>1. PICK l \in Locations : tab' = [tab EXCEPT ![t] = Page(tab[t].loads + 1, l)]
  BY DEF Load
<1> DEFINE next == Page(tab[t].loads + 1, l)
<1>2. tab[t].loads + 1 \in Nat /\ tab[t].step = "idle" /\ UNCHANGED <<browser, storage, minted>>
  BY TabOK DEF Load, PageOK, PageViews
<1>3. next \in PageViews /\ next.step = "idle" /\ next.sent = {} /\ next.posts = << >>
      /\ next.visitorID = Null /\ next.frame = [e \in Elements |-> Unmounted]
  BY <1>2, SizesTyped DEF Page, PageViews, Paths, Null
<1> HIDE DEF next
<1>5. Marked(next) /\ Identified(next)
  BY <1>3, FreshPage
<1>6. FramesOwn(next)
  BY <1>3 DEF FramesOwn
<1> QED BY <1>1, <1>2, <1>3, <1>5, <1>6 DEF PageOK, next, IdleMove

LEMMA ResizeMoves == ASSUME IInv, NEW t \in Tabs, Resize(t) PROVE IdleMove(t)
<1> DEFINE pg == tab[t]
<1>1. PICK source \in DOMAIN Reported : \E size \in Reported[source] :
        tab' = [tab EXCEPT ![t].frame = [e \in Elements |->
          IF @[e] # Unmounted /\ ListensTo(e, source) THEN Sized(@[e], size) ELSE @[e]]]
  BY DEF Resize
<1>2. PICK size \in Reported[source] :
        tab' = [tab EXCEPT ![t].frame = [e \in Elements |->
          IF @[e] # Unmounted /\ ListensTo(e, source) THEN Sized(@[e], size) ELSE @[e]]]
  BY <1>1
<1> DEFINE frame == [e \in Elements |->
             IF pg.frame[e] # Unmounted /\ ListensTo(e, source)
             THEN Sized(pg.frame[e], size) ELSE pg.frame[e]]
           next == [pg EXCEPT !.frame = frame]
<1>3. PageOK(pg) /\ TypeOK /\ pg.step = "idle" /\ UNCHANGED <<browser, storage, minted>>
  BY TabOK DEF Resize
<1>4. tab' = [tab EXCEPT ![t] = next]
  BY <1>2, <1>3 DEF TypeOK
<1>5. size \in Sizes
  BY TrackerAssumption
<1>6. pg.frame \in [Elements -> Sizes]
  BY <1>3 DEF PageOK, PageViews
<1>7. frame \in [Elements -> Sizes]
  BY <1>5, <1>6 DEF Sized
<1>8. \A e \in Elements : frame[e] = pg.frame[e] \/ (size \in Reported[e] /\ Fits(size) /\ frame[e] = size)
  BY DEF ListensTo, Sized
<1> HIDE DEF frame, pg
<1>9. /\ next \in PageViews /\ next.step = "idle" /\ next.sent = pg.sent /\ next.path = pg.path
      /\ next.posts = pg.posts /\ next.visitorID = pg.visitorID /\ next.frame = frame
  BY <1>3, <1>7 DEF PageOK, PageViews
<1> HIDE DEF next
<1>10. Marked(next) /\ Identified(next)
  BY <1>3, <1>9 DEF PageOK, Marked, Identified
<1>11. FramesOwn(next)
  BY <1>3, <1>8, <1>9 DEF PageOK, FramesOwn
<1> QED BY <1>3, <1>4, <1>9, <1>10, <1>11 DEF PageOK, IdleMove, pg

-----------------------------------------------------------------------------
(* The Visitor ID *)

LEMMA ReadStorageStep == ASSUME IInv, NEW t \in Tabs, ReadStorage(t) PROVE IInv'
<1> DEFINE found == IF browser.reads THEN storage ELSE Null
           pg == [tab[t] EXCEPT !.visitorID = found]
<1>1. PageOK(tab[t]) /\ TypeOK /\ tab[t].step = "reading" /\ UNCHANGED <<browser, storage, minted>>
  BY TabOK DEF ReadStorage
<1>2. found \in Int
  BY <1>1 DEF TypeOK, Null
<1>3. /\ pg \in PageViews /\ pg.step = "reading" /\ pg.sent = tab[t].sent /\ pg.path = tab[t].path
      /\ pg.posts = tab[t].posts /\ pg.visitorID = found /\ pg.frame = tab[t].frame
  <2> HIDE DEF found
  <2> QED BY <1>1, <1>2 DEF PageOK, PageViews
<1>4. \/ Valid(found) /\ \E taken \in Outcomes :
           tab' = [tab EXCEPT ![t] = HandedOver(pg, pg.path, found, taken)]
      \/ ~ Valid(found) /\ browser.crypto /\ tab' = [tab EXCEPT ![t] = [pg EXCEPT !.step = "minting"]]
      \/ ~ browser.crypto /\ \E taken \in Outcomes :
           tab' = [tab EXCEPT ![t] = HandedOver(pg, pg.path, NoID, taken)]
  BY DEF ReadStorage
<1>5. browser.crypto => pg.posts = << >>
  BY <1>1, <1>3 DEF PageOK, Identified
<1>6. Underway(pg)
  <2> HIDE DEF pg
  <2> QED BY <1>1, <1>3 DEF PageOK, Marked, Underway
<1>7. ASSUME NEW id \in Int, NEW taken \in Outcomes, browser.crypto => Valid(id) /\ id = found,
             tab' = [tab EXCEPT ![t] = HandedOver(pg, pg.path, id, taken)]
      PROVE  IInv'
  <2> HIDE DEF pg, found
  <2>1. browser.crypto =>
          Valid(id) /\ pg.visitorID = id /\ \A i \in DOMAIN pg.posts : pg.posts[i].id = id
    BY <1>3, <1>5, <1>7
  <2> DEFINE next == HandedOver(pg, pg.path, id, taken)
  <2>2. next \in PageViews /\ Marked(next) /\ Identified(next)
        /\ next.step = "idle" /\ next.frame = pg.frame
    BY <1>1, <1>3, <1>6, <2>1, HandedOverOK
  <2> HIDE DEF next
  <2>3. PageOK(next) /\ next.step # "minting"
    BY <1>1, <1>3, <2>2 DEF PageOK, FramesOwn
  <2> QED BY <1>1, <1>7, <2>3, MoveWithoutMinting DEF next
<1>8. CASE Valid(found) /\ \E taken \in Outcomes :
             tab' = [tab EXCEPT ![t] = HandedOver(pg, pg.path, found, taken)]
  BY <1>2, <1>7, <1>8
<1>9. CASE ~ browser.crypto /\ \E taken \in Outcomes :
             tab' = [tab EXCEPT ![t] = HandedOver(pg, pg.path, NoID, taken)]
  <2>1. NoID \in Int
    BY DEF NoID
  <2> QED BY <1>7, <1>9, <2>1
<1>10. CASE ~ Valid(found) /\ browser.crypto
            /\ tab' = [tab EXCEPT ![t] = [pg EXCEPT !.step = "minting"]]
  <2> DEFINE next == [pg EXCEPT !.step = "minting"]
  <2>1. /\ next \in PageViews /\ next.step = "minting" /\ next.sent = pg.sent
        /\ next.path = pg.path /\ next.posts = pg.posts /\ next.visitorID = pg.visitorID
        /\ next.frame = pg.frame
    <3> HIDE DEF pg
    <3> QED BY <1>3 DEF PageViews
  <2>2. tab' = [tab EXCEPT ![t] = next]
    BY <1>10
  <2> HIDE DEF next, pg
  <2>3. Marked(next) /\ Identified(next)
    BY <1>3, <1>5, <1>6, <1>10, <2>1 DEF Underway, Marked, Identified
  <2>4. PageOK(next)
    BY <1>1, <1>3, <2>1, <2>3 DEF PageOK, FramesOwn
  <2>5. MintersLeft'
    <3>1. Minters' \subseteq Tabs
      BY DEF Minters
    <3>2. Cardinality(Minters') <= Cardinality(Tabs) /\ Cardinality(Tabs) \in Nat
          /\ Cardinality(Minters') \in Nat
      BY <3>1, TrackerAssumption, FS_Subset, FS_CardinalityType
    <3>3. Stores => minted = 0
      BY <1>1, <1>10 DEF Stores, IInv, MintersLeft, TypeOK
    <3> QED BY <1>1, <3>2, <3>3 DEF MintersLeft, Minters, Stores
  <2>6. storage' \in Int /\ minted' \in Nat
    BY <1>1 DEF TypeOK
  <2> QED BY <1>1, <2>2, <2>4, <2>5, <2>6, PagesMove DEF IInv
<1> QED BY <1>4, <1>8, <1>9, <1>10

LEMMA MintStep == ASSUME IInv, NEW t \in Tabs, Mint(t) PROVE IInv'
<1> DEFINE id == minted + 1
           pg == [tab[t] EXCEPT !.visitorID = id]
<1>1. PageOK(tab[t]) /\ TypeOK /\ tab[t].step = "minting" /\ browser' = browser
      /\ minted' = id /\ storage' = IF browser.writes THEN minted' ELSE storage
  BY TabOK DEF Mint
<1>2. id \in Nat /\ id \in Int /\ Valid(id)
  BY <1>1 DEF TypeOK, Valid
<1>3. PICK taken \in Outcomes : tab' = [tab EXCEPT ![t] = HandedOver(pg, tab[t].path, id, taken)]
  BY <1>1 DEF Mint
<1> HIDE DEF id
<1>4. /\ pg \in PageViews /\ pg.step = "minting" /\ pg.sent = tab[t].sent /\ pg.path = tab[t].path
      /\ pg.posts = tab[t].posts /\ pg.visitorID = id /\ pg.frame = tab[t].frame
  BY <1>1, <1>2 DEF PageOK, PageViews
<1> HIDE DEF pg
<1>5. Underway(pg)
  BY <1>1, <1>4 DEF PageOK, Marked, Underway
<1>6. browser.crypto =>
        Valid(id) /\ pg.visitorID = id /\ \A i \in DOMAIN pg.posts : pg.posts[i].id = id
  BY <1>1, <1>2, <1>4 DEF PageOK, Identified
<1> DEFINE next == HandedOver(pg, pg.path, id, taken)
<1>7. next \in PageViews /\ Marked(next) /\ Identified(next)
      /\ next.step = "idle" /\ next.frame = pg.frame
  BY <1>1, <1>2, <1>4, <1>5, <1>6, HandedOverOK
<1>8. tab' = [tab EXCEPT ![t] = next]
  BY <1>3, <1>4
<1> HIDE DEF next
<1>9. PageOK(next)
  BY <1>1, <1>4, <1>7 DEF PageOK, FramesOwn
<1>10. MintersLeft'
  <2>1. t \in Minters /\ Minters' = Minters \ {t}
    BY <1>1, <1>7, <1>8 DEF Minters, TypeOK
  <2>2. IsFiniteSet(Minters)
    BY TrackerAssumption, FS_Subset DEF Minters
  <2>3. Cardinality(Minters') = Cardinality(Minters) - 1 /\ Cardinality(Minters) \in Nat
    BY <2>1, <2>2, FS_RemoveElement, FS_CardinalityType
  <2>4. Cardinality(Tabs) \in Nat
    BY TrackerAssumption, FS_CardinalityType
  <2>5. Stores => minted + Cardinality(Minters) <= Cardinality(Tabs)
    BY DEF IInv, MintersLeft, Minters
  <2>6. Stores => minted' + Cardinality(Minters') <= Cardinality(Tabs)
    BY <1>1, <2>3, <2>4, <2>5 DEF id, TypeOK
  <2>7. Stores => Valid(storage')
    BY <1>1, <1>2 DEF Stores
  <2> QED BY <1>1, <2>6, <2>7 DEF MintersLeft, Minters, Stores, Valid
<1>11. storage' \in Int /\ minted' \in Nat
  BY <1>1, <1>2 DEF TypeOK
<1> QED BY <1>1, <1>8, <1>9, <1>10, <1>11, PagesMove DEF IInv

-----------------------------------------------------------------------------
(* The theorems *)

LEMMA Initially == Init => IInv
<1> SUFFICES ASSUME Init PROVE IInv
  OBVIOUS
<1>1. storage \in Int /\ minted = 0
      /\ browser \in [reads : BOOLEAN, writes : BOOLEAN, crypto : BOOLEAN,
                      beacon : BOOLEAN, fetch : BOOLEAN]
  BY DEF Init, Null, Junk
<1>2. ASSUME NEW t \in Tabs
      PROVE  PageOK(tab[t]) /\ tab[t].step = "idle"
  <2>1. PICK l \in Locations : tab[t] = Page(0, l)
    BY DEF Init
  <2>2. tab[t] \in PageViews /\ tab[t].step = "idle" /\ tab[t].sent = {} /\ tab[t].posts = << >>
        /\ tab[t].visitorID = Null /\ tab[t].frame = [e \in Elements |-> Unmounted]
    BY <2>1, SizesTyped DEF Page, PageViews, Paths, Null
  <2>4. Marked(tab[t]) /\ Identified(tab[t])
    BY <2>2, FreshPage
  <2> QED BY <2>2, <2>4 DEF PageOK, FramesOwn
<1>3. TypeOK
  <2>1. tab \in [Tabs -> {Page(0, l) : l \in Locations}]
    BY DEF Init
  <2>2. tab \in [Tabs -> PageViews]
    BY <1>2, <2>1 DEF PageOK
  <2> QED BY <1>1, <2>2 DEF TypeOK
<1>4. MintersLeft
  <2>1. Minters = {}
    BY <1>2 DEF Minters
  <2>2. Cardinality(Minters) = 0 /\ Cardinality(Tabs) \in Nat
    BY <2>1, TrackerAssumption, FS_EmptySet, FS_CardinalityType
  <2> QED BY <1>1, <2>2 DEF MintersLeft, Minters, Stores
<1> QED BY <1>2, <1>3, <1>4 DEF IInv, PageOK, OwnFrameSizes, FramesOwn

LEMMA Stutters == IInv /\ UNCHANGED vars => IInv'
<1> SUFFICES ASSUME IInv, UNCHANGED vars PROVE IInv'
  OBVIOUS
<1> USE DEF vars
<1>1. TypeOK' /\ MintersLeft' /\ OwnFrameSizes'
  BY DEF IInv, TypeOK, PageViews, Paths, Sizes, MintersLeft, Stores, Valid, OwnFrameSizes, Unmounted,
     FirstSize, Fits, Within, NaN
<1>2. \A t \in Tabs : Marked(tab[t])' /\ Identified(tab[t])'
  <2> SUFFICES ASSUME NEW t \in Tabs PROVE Marked(tab[t])' /\ Identified(tab[t])'
    OBVIOUS
  <2>1. Marked(tab[t]) /\ Identified(tab[t]) /\ tab' = tab /\ browser' = browser
    BY DEF IInv
  <2>2. PathsOf(tab[t].posts)' = PathsOf(tab[t].posts)
    BY <2>1 DEF PathsOf
  <2>3. Marked(tab[t])'
    BY <2>1, <2>2 DEF Marked
  <2>4. Identified(tab[t])'
    BY <2>1 DEF Identified, Valid, Null
  <2> QED BY <2>3, <2>4
<1> QED BY <1>1, <1>2 DEF IInv

LEMMA Step == IInv /\ [Next]_vars => IInv'
<1> SUFFICES ASSUME IInv, Next PROVE IInv'
  BY Stutters
<1>1. PICK t \in Tabs :
        \/ \E e \in Elements : Run(t, e)
        \/ ReadStorage(t) \/ Mint(t)
        \/ Track(t) \/ Resize(t) \/ Load(t)
  BY DEF Next
<1> QED BY <1>1, RunMoves, TrackMoves, ResizeMoves, LoadMoves, IdleMoveStep, ReadStorageStep, MintStep

LEMMA Invariant == Spec => []IInv
BY Initially, Step, PTL DEF Spec

LEMMA ReportsMarked == IInv => ReportedOnce
<1> SUFFICES ASSUME IInv, NEW t \in Tabs
             PROVE  LET posted == {post.path : post \in Range(tab[t].posts)} IN
                    /\ Len(tab[t].posts) = Cardinality(posted)
                    /\ browser.fetch /\ tab[t].step = "idle" => posted = tab[t].sent
  BY DEF ReportedOnce
<1>1. {post.path : post \in Range(tab[t].posts)} = PathsOf(tab[t].posts)
  BY DEF Range, PathsOf
<1> QED BY <1>1 DEF IInv, Marked

LEMMA IDsKept == IInv => OneIdentityPerLoad
BY DEF IInv, Identified, OneIdentityPerLoad, Range

LEMMA IDsCounted == IInv => FewIdentities
<1> SUFFICES ASSUME IInv, Stores PROVE minted <= Cardinality(Tabs)
  BY DEF FewIdentities
<1>1. IsFiniteSet(Minters)
  BY TrackerAssumption, FS_Subset DEF Minters
<1>2. Cardinality(Minters) \in Nat /\ Cardinality(Tabs) \in Nat
  BY <1>1, TrackerAssumption, FS_CardinalityType
<1> QED BY <1>2 DEF IInv, MintersLeft, Minters, TypeOK

\* However many elements run and calls of track are made in a page load, and wherever
\* another tab interrupts, no path is reported twice and none is forgotten (send).
THEOREM PathsReportedOnce == Spec => []ReportedOnce
BY Invariant, ReportsMarked, PTL

\* All Pageviews of a page load carry one valid Visitor ID (getVisitorID).
THEOREM IdentityKept == Spec => []OneIdentityPerLoad
BY Invariant, IDsKept, PTL

\* A browser with storage is at most as many visitors as it had tabs, for any number of
\* page loads (getVisitorID).
THEOREM IdentitiesBounded == Spec => []FewIdentities
BY Invariant, IDsCounted, PTL

\* Frames have their own sizes, within the limits (sizeFrame).
THEOREM FramesObeyTheirDocument == Spec => []OwnFrameSizes
<1>1. IInv => OwnFrameSizes
  BY DEF IInv
<1> QED BY <1>1, Invariant, PTL

-----------------------------------------------------------------------------
(* An identity that has settled *)

\* What IdentitySettles says of a step.
KeepsIdentity ==
  /\ Settled' /\ UNCHANGED <<storage, minted>>
  /\ \A t \in Tabs : tab[t].step = "reading" /\ tab'[t].step = "idle"
                      => tab'[t].visitorID = storage

\* One tab moves, draws no ID, and has the stored one if it was looking.
LEMMA MoveSettles ==
  ASSUME TypeOK, Settled, NEW t \in Tabs, NEW next, tab' = [tab EXCEPT ![t] = next],
         UNCHANGED <<browser, storage, minted>>, next.step # "minting",
         tab[t].step = "reading" => next.visitorID = storage
  PROVE  KeepsIdentity
<1>1. tab'[t] = next /\ \A u \in Tabs \ {t} : tab'[u] = tab[u]
  BY DEF TypeOK
<1>2. Settled'
  BY <1>1 DEF Settled, Valid
<1>3. \A u \in Tabs \ {t} : ~ (tab[u].step = "reading" /\ tab'[u].step = "idle")
  BY <1>1
<1> QED BY <1>1, <1>2, <1>3 DEF KeepsIdentity

LEMMA ReadStorageSettles ==
  ASSUME IInv, Settled, NEW t \in Tabs, ReadStorage(t) PROVE KeepsIdentity
<1> DEFINE pg == [tab[t] EXCEPT !.visitorID = storage]
<1>1. browser.reads /\ Valid(storage) /\ UNCHANGED <<browser, storage, minted>>
      /\ tab[t] \in PageViews /\ TypeOK
  BY TabOK DEF Settled, ReadStorage, PageOK
<1>2. PICK taken \in Outcomes : tab' = [tab EXCEPT ![t] = HandedOver(pg, pg.path, storage, taken)]
  BY <1>1 DEF ReadStorage
<1>3. pg.visitorID = storage /\ pg \in PageViews
  BY <1>1 DEF PageViews, TypeOK
<1> HIDE DEF pg
<1> DEFINE next == HandedOver(pg, pg.path, storage, taken)
<1>4. next.step = "idle" /\ next.visitorID = storage
  BY <1>3 DEF HandedOver, PageViews
<1> HIDE DEF next
<1> QED BY <1>1, <1>2, <1>4, MoveSettles DEF next

LEMMA SettledStep == ASSUME IInv, Settled, [Next]_vars PROVE KeepsIdentity
<1>1. TypeOK
  BY DEF IInv
<1>2. CASE UNCHANGED vars
  BY <1>2 DEF vars, Settled, Valid, KeepsIdentity
<1>3. ASSUME NEW t \in Tabs, IdleMove(t) PROVE KeepsIdentity
  BY <1>1, <1>3, MoveSettles DEF IdleMove
<1>4. ASSUME NEW t \in Tabs, Mint(t) PROVE FALSE
  BY <1>4 DEF Mint, Settled
<1>5. CASE Next
  BY <1>3, <1>4, <1>5, RunMoves, TrackMoves, ResizeMoves, LoadMoves, ReadStorageSettles DEF Next
<1> QED BY <1>2, <1>5

\* Once an ID is stored and every tab that looked before that has stored its own, the
\* browser keeps this identity in all tabs and all page loads to come (getVisitorID).
THEOREM SettledForGood == Spec => IdentitySettles
<1>1. IInv /\ [Next]_vars => [Settled => KeepsIdentity]_vars
  BY SettledStep
<1> QED BY <1>1, Invariant, PTL DEF Spec, IdentitySettles, KeepsIdentity


=============================================================================
