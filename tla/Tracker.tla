------------------------------ MODULE Tracker ------------------------------
(***************************************************************************)
(* The script that an observed website embeds for one Site, served as       *)
(* tracker.js, widget.js and map.js (internal/server/assets/tracker.js).    *)
(* Several script elements of one page share window.__visitorTraceState,    *)
(* several tabs share localStorage.                                         *)
(*                                                                          *)
(* A script runs to its end in its own tab, but another tab, in another     *)
(* process, may use localStorage in between: reading the stored Visitor ID  *)
(* and storing a new one are separate actions.  Handing a Pageview to the   *)
(* browser is where the script ends: a failed delivery is swallowed and     *)
(* changes nothing.                                                         *)
(***************************************************************************)
EXTENDS Integers, Sequences, FiniteSets, FiniteSetsExt, SequencesExt

CONSTANTS
  Tabs,
  Elements,     \* script elements
  KindOf,       \* KindOf[e]: which of the three scripts the element loads
  EmbeddedIn,   \* EmbeddedIn[t]: elements of the pages shown in tab t
  Locations,    \* what location.pathname or an argument of track may be
  PathOf,       \* PathOf[l]: normalizePath, without query and fragment
  Asked,        \* Asked[e]: the size in the parameters w and h of the element
  Reported,     \* Reported[w]: sizes the window w reports by message
  Strangers,    \* windows that are no frame of the page's scripts
  MinSize, MaxSize, DefaultSize,   \* 160 x 90, 1200 x 800, 720 x 400
  MaxLoads      \* bound: page loads of a tab

NaN == -1        \* no number: every comparison with it is false
Sizes == [width : Int, height : Int]

Within(n, low, high) == n # NaN /\ n >= low /\ n <= high
Fits(size) ==
  /\ Within(size.width, MinSize.width, MaxSize.width)
  /\ Within(size.height, MinSize.height, MaxSize.height)

Kinds == {"tracker", "widget", "map"}

ASSUME TrackerAssumption ==
  /\ KindOf \in [Elements -> Kinds]
  /\ EmbeddedIn \in [Tabs -> SUBSET Elements]
  /\ DOMAIN PathOf = Locations
  /\ Asked \in [Elements -> Sizes]
  /\ Reported \in [Elements \cup Strangers -> SUBSET Sizes]
  /\ {MinSize, MaxSize, DefaultSize} \subseteq Sizes /\ Fits(DefaultSize)
  /\ IsFiniteSet(Tabs)
  /\ MaxLoads \in Nat

VARIABLES
  browser,   \* what this browser offers; never changes.  localStorage may refuse to be
             \* read, to be written (its quota is used up), or both
  storage,   \* the value under "visitortrace:<site>", shared by the tabs
  minted,    \* how many Visitor IDs have been drawn at random
  tab        \* tab[t]: the page in tab t and window.__visitorTraceState in it

vars == <<browser, storage, minted, tab>>

Null == 0        \* no value: getItem returned null, visitorID was never set
Junk == -1       \* a stored value that is not 32 hexadecimal digits
NoID == -2       \* the empty string
Valid(id) == id > 0
Paths == {PathOf[l] : l \in Locations}
Unmounted == [width |-> 0, height |-> 0]

Page(n, l) ==
  [loads |-> n, here |-> l, ran |-> {}, sent |-> {}, visitorID |-> Null,
   step |-> "idle", path |-> PathOf[l], posts |-> << >>,
   frame |-> [e \in Elements |-> Unmounted]]

Init ==
  /\ browser \in [reads : BOOLEAN, writes : BOOLEAN, crypto : BOOLEAN,
                 beacon : BOOLEAN, fetch : BOOLEAN]
  /\ storage \in {Null, Junk}
  /\ minted = 0
  /\ tab \in [Tabs -> {Page(0, l) : l \in Locations}]

DisplayOnly(e) == KindOf[e] = "map"
RendersWidget(e) == DisplayOnly(e) \/ KindOf[e] = "widget"

-----------------------------------------------------------------------------
(* send *)

\* sendBeacon may refuse a Pageview; fetch takes it then, if there is one.
Outcomes == IF browser.fetch THEN {TRUE} ELSE IF browser.beacon THEN BOOLEAN ELSE {FALSE}

\* The page pg after a Pageview of path under this ID left send.
HandedOver(pg, path, id, taken) ==
  [pg EXCEPT !.step = "idle",
             !.posts = IF taken THEN Append(@, [path |-> path, id |-> id]) ELSE @]

\* Mutant: what was sent is remembered by location.
BeginByLocation(pg, l) ==
  LET path == PathOf[l] IN
  IF l \in pg.sent
  THEN {pg}
  ELSE LET marked == [pg EXCEPT !.sent = @ \cup {l}, !.path = path] IN
       IF marked.visitorID # Null
       THEN {HandedOver(marked, path, marked.visitorID, taken) : taken \in Outcomes}
       ELSE {[marked EXCEPT !.step = "reading"]}

\* The pages that pg may become when send starts: the path is marked first.
Begin(pg, l) ==
  LET path == PathOf[l] IN
  IF path \in pg.sent
  THEN {pg}
  ELSE LET marked == [pg EXCEPT !.sent = @ \cup {path}, !.path = path] IN
       IF marked.visitorID # Null
       THEN {HandedOver(marked, path, marked.visitorID, taken) : taken \in Outcomes}
       ELSE {[marked EXCEPT !.step = "reading"]}

\* Mutant: an ID found in storage is not kept for the page load.
ReadEveryTime(t) ==
  LET pg == tab[t]
      found == IF browser.reads THEN storage ELSE Null
  IN
  /\ pg.step = "reading"
  /\ IF Valid(found)
     THEN \E taken \in Outcomes :
            tab' = [tab EXCEPT ![t] = HandedOver(pg, pg.path, found, taken)]
     ELSE IF browser.crypto
     THEN tab' = [tab EXCEPT ![t] = [pg EXCEPT !.step = "minting"]]
     ELSE \E taken \in Outcomes :
            tab' = [tab EXCEPT ![t] = HandedOver(pg, pg.path, NoID, taken)]
  /\ UNCHANGED <<browser, storage, minted>>

\* getVisitorID: the stored value is kept, valid or not; without a random source
\* an invalid one is answered with the empty string.
ReadStorage(t) ==
  LET found == IF browser.reads THEN storage ELSE Null
      pg == [tab[t] EXCEPT !.visitorID = found]
  IN
  /\ pg.step = "reading"
  /\ IF Valid(found)
     THEN \E taken \in Outcomes :
            tab' = [tab EXCEPT ![t] = HandedOver(pg, pg.path, found, taken)]
     ELSE IF browser.crypto
     THEN tab' = [tab EXCEPT ![t] = [pg EXCEPT !.step = "minting"]]
     ELSE \E taken \in Outcomes :
            tab' = [tab EXCEPT ![t] = HandedOver(pg, pg.path, NoID, taken)]
  /\ UNCHANGED <<browser, storage, minted>>

\* Mutant: a new ID is not stored.
MintForThisPage(t) ==
  /\ tab[t].step = "minting"
  /\ minted' = minted + 1
  /\ \E taken \in Outcomes :
       tab' = [tab EXCEPT ![t] =
         HandedOver([tab[t] EXCEPT !.visitorID = minted'], tab[t].path, minted', taken)]
  /\ UNCHANGED <<browser, storage>>

\* getVisitorID: a new random ID, stored where storage can be written.
Mint(t) ==
  /\ tab[t].step = "minting"
  /\ minted' = minted + 1
  /\ storage' = IF browser.writes THEN minted' ELSE storage
  /\ \E taken \in Outcomes :
       tab' = [tab EXCEPT ![t] =
         HandedOver([tab[t] EXCEPT !.visitorID = minted'], tab[t].path, minted', taken)]
  /\ UNCHANGED browser

-----------------------------------------------------------------------------
(* The frame of the map *)

\* sizeFrame
Sized(current, next) == IF Fits(next) THEN next ELSE current

\* Each of w and h that does not fit has its default; the frame is mounted in this size.
FirstSize(e) ==
  [width |-> IF Within(Asked[e].width, MinSize.width, MaxSize.width)
             THEN Asked[e].width ELSE DefaultSize.width,
   height |-> IF Within(Asked[e].height, MinSize.height, MaxSize.height)
              THEN Asked[e].height ELSE DefaultSize.height]

\* Mutant: every mounted frame obeys every window.
Obeys(e, source) == TRUE

\* The listener of e compares event.source with the window of its own frame.
ListensTo(e, source) == source = e

\* A message of type visitortrace:resize reaches every listener of the page.
Resize(t) ==
  LET pg == tab[t] IN
  /\ pg.step = "idle"
  /\ \E source \in DOMAIN Reported : \E size \in Reported[source] :
       /\ source \in Elements => pg.frame[source] # Unmounted
       /\ tab' = [tab EXCEPT ![t].frame = [e \in Elements |->
            IF @[e] # Unmounted /\ ListensTo(e, source) THEN Sized(@[e], size) ELSE @[e]]]
  /\ UNCHANGED <<browser, storage, minted>>

-----------------------------------------------------------------------------
(* The page *)

\* A script element runs: it mounts its frame, and all but map.js report the page.
Run(t, e) ==
  LET mounted == IF RendersWidget(e)
                 THEN [tab[t] EXCEPT !.ran = @ \cup {e}, !.frame[e] = FirstSize(e)]
                 ELSE [tab[t] EXCEPT !.ran = @ \cup {e}]
  IN
  /\ tab[t].step = "idle" /\ e \in EmbeddedIn[t] \ tab[t].ran
  /\ \E next \in (IF DisplayOnly(e) THEN {mounted} ELSE Begin(mounted, mounted.here)) :
       tab' = [tab EXCEPT ![t] = next]
  /\ UNCHANGED <<browser, storage, minted>>

\* window.VisitorTrace.track exists once a script other than map.js has run; a
\* single-page website calls it for every page it shows.
Track(t) ==
  /\ tab[t].step = "idle"
  /\ \E e \in tab[t].ran : ~ DisplayOnly(e)
  /\ \E l \in Locations : \E next \in Begin([tab[t] EXCEPT !.here = l], l) :
       tab' = [tab EXCEPT ![t] = next]
  /\ UNCHANGED <<browser, storage, minted>>

\* The next page load in the tab.
Load(t) ==
  /\ tab[t].step = "idle"
  /\ tab[t].loads < MaxLoads
  /\ \E l \in Locations : tab' = [tab EXCEPT ![t] = Page(tab[t].loads + 1, l)]
  /\ UNCHANGED <<browser, storage, minted>>

Next ==
  \E t \in Tabs :
    \/ \E e \in Elements : Run(t, e)
    \/ ReadStorage(t) \/ Mint(t)
    \/ Track(t) \/ Resize(t) \/ Load(t)

Spec == Init /\ [][Next]_vars

-----------------------------------------------------------------------------
(* Properties *)

\* In one page load every path of the website is reported at most once, under whatever
\* location and by however many script elements and calls of track; and unless the
\* browser can send nothing, a path that is marked as sent was handed over (send).
ReportedOnce ==
  \A t \in Tabs :
    LET posted == {post.path : post \in Range(tab[t].posts)} IN
    /\ Len(tab[t].posts) = Cardinality(posted)
    /\ browser.fetch /\ tab[t].step = "idle" => posted = tab[t].sent

\* In a browser with a random source all Pageviews of a page load carry one Visitor ID
\* that the server accepts, also when another tab stores another ID meanwhile
\* (getVisitorID; internal/visitor/digest.go rejects anything but 32 hexadecimal digits).
OneIdentityPerLoad ==
  browser.crypto =>
    \A t \in Tabs : \A p, q \in Range(tab[t].posts) : p.id = q.id /\ Valid(p.id)

Stores == browser.reads /\ browser.writes

\* Where storage and a random source work, a browser is never more visitors than it has
\* tabs: an ID is only replaced by a tab that looked before the ID was stored, and every
\* later page load has the stored one (getVisitorID).
FewIdentities == Stores => minted <= Cardinality(Tabs)

\* Of several frames on a page each has its first size or one within the limits that its
\* own document has reported, whatever the parameters of its element and the messages of
\* other windows say (sizeFrame; the listener compares event.source).
OwnFrameSizes ==
  \A t \in Tabs : \A e \in Elements :
    /\ tab[t].frame[e] \in {Unmounted, FirstSize(e)} \cup Reported[e]
    /\ tab[t].frame[e] # Unmounted => Fits(tab[t].frame[e])

\* A valid ID is stored, and no tab still holds the answer of a look before that.
Settled == browser.reads /\ Valid(storage) /\ \A t \in Tabs : tab[t].step # "minting"

\* Once settled, a browser is the same visitor for good: no other ID is drawn or stored,
\* and every tab that looks reports under the stored one (getVisitorID).
IdentitySettles ==
  [][Settled =>
       /\ Settled' /\ UNCHANGED <<storage, minted>>
       /\ \A t \in Tabs : tab[t].step = "reading" /\ tab'[t].step = "idle"
                           => tab'[t].visitorID = storage]_vars

-----------------------------------------------------------------------------
(* The inductive invariant *)

PageViews ==
  [loads : Nat, here : Locations, ran : SUBSET Elements, sent : SUBSET Paths,
   visitorID : Int, step : {"idle", "reading", "minting"}, path : Paths,
   posts : Seq([path : Paths, id : Int]), frame : [Elements -> Sizes]]

TypeOK ==
  /\ browser \in [reads : BOOLEAN, writes : BOOLEAN, crypto : BOOLEAN,
                 beacon : BOOLEAN, fetch : BOOLEAN]
  /\ storage \in Int /\ minted \in Nat
  /\ tab \in [Tabs -> PageViews]

PathsOf(posts) == {posts[i].path : i \in DOMAIN posts}

\* What has been reported is marked, the path under way is marked and not yet reported.
Marked(pg) ==
  /\ Len(pg.posts) = Cardinality(PathsOf(pg.posts)) /\ IsFiniteSet(PathsOf(pg.posts))
  /\ PathsOf(pg.posts) \subseteq pg.sent
  /\ pg.step # "idle" => pg.path \in pg.sent \ PathsOf(pg.posts)
  /\ browser.fetch =>
       PathsOf(pg.posts) = IF pg.step = "idle" THEN pg.sent ELSE pg.sent \ {pg.path}

\* A page reads and mints its ID before its first Pageview, and keeps it.
Identified(pg) ==
  browser.crypto =>
    /\ \A i \in DOMAIN pg.posts : pg.posts[i].id = pg.visitorID
    /\ IF pg.step = "idle" THEN pg.visitorID = Null \/ Valid(pg.visitorID)
       ELSE pg.posts = << >>
    /\ pg.posts # << >> => Valid(pg.visitorID)

\* Whoever still mints looked before the first ID was stored.
MintersLeft ==
  Stores =>
    /\ minted > 0 => Valid(storage)
    /\ minted + Cardinality({t \in Tabs : tab[t].step = "minting"}) <= Cardinality(Tabs)

IInv ==
  /\ TypeOK /\ MintersLeft /\ OwnFrameSizes
  /\ \A t \in Tabs : Marked(tab[t]) /\ Identified(tab[t])

=============================================================================
