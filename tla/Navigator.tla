----------------------------- MODULE Navigator -----------------------------
(***************************************************************************)
(* One tab of the Admin Console: the navigator that answers links, forms    *)
(* and the back button by fetching pages and swapping the body              *)
(* (web/app-entry.js), and the analytics script of the pages that show a    *)
(* map, whose view is handed from body to body (web/analytics-entry.js).    *)
(*                                                                          *)
(* Left out: scroll offsets and focus, stylesheets, toasts and titles, the  *)
(* elements that opt out of navigation, and promptStepUp, which no          *)
(* data-vt-nav form of the templates reaches.  The browser is modelled from *)
(* its standards: what traversing, assigning location.href and fragment     *)
(* navigation do to the session history, and that Response.url has no       *)
(* fragment.  A full page load is one action.                               *)
(***************************************************************************)
EXTENDS Integers, Sequences

CONSTANTS
  Paths, Queries, Fragments,
  NoFragment,
  URLs,         \* addresses that links and the user name
  Home,         \* the address of the first page, to which its redirections led
  Login,        \* the login page
  Posted,       \* the address that forms post to, no page
  Redirect,     \* Redirect[p]: the page that a GET of the page p ends at
  MapPages,     \* paths whose pages show a map
  MaxHistory,   \* bound: length of the session history
  MaxScripts,   \* bound: analytics scripts on their way
  MaxRelease    \* bound: releases of the server

Addresses == [path : Paths, query : Queries, fragment : Fragments]
WithFragment(u, f) == [path |-> u.path, query |-> u.query, fragment |-> f]
Page(u) == WithFragment(u, NoFragment)
Pages == {Page(u) : u \in URLs}

ASSUME NavigatorAssumption ==
  /\ NoFragment \in Fragments /\ URLs \subseteq Addresses
  /\ Posted \in Addresses /\ Page(Posted) = Posted
  /\ Home \in URLs /\ Login \in Pages
  /\ Redirect \in [Pages -> Pages] /\ Redirect[Page(Home)] = Page(Home)
  /\ MaxHistory \in Nat \ {0} /\ MaxScripts \in Nat \ {0} /\ MaxRelease \in Nat

VARIABLES
  hist, at,      \* session history: addresses and the documents they belong to
  shown,         \* what the body shows: a page, an error answer or not, a release
  currentURL,
  pending,       \* requests that are not aborted
  busy,          \* a button of the body is marked busy
  app,           \* the release of the navigator that runs in the tab
  release,       \* the release of the server
  scripts,       \* re-inserted analytics scripts that are still being fetched
  charts,        \* runs of the analytics script whose charts are alive
  view,          \* the path on whose map the user chose the view shown, or none
  saved,         \* window.__vtMapState
  wanted,        \* for the properties: the page of the newest request
  traversed      \* for the properties: back or forward was used in this document

tabVars == <<shown, currentURL, pending, busy, app, wanted, traversed>>
mapVars == <<scripts, charts, view, saved>>
vars == <<hist, at, tabVars, mapVars, release>>

Location == hist[at].url
Entry(url, doc) == [url |-> url, doc |-> doc]
NoMap == "no map"
Default == "default view"
Nothing == [path |-> NoMap, view |-> NoMap]
HasMap(page) == page.path \in MapPages

\* Where a GET of the page p ends; what forms post to answers it with an error page.
Ends(p) == IF p = Posted THEN Posted ELSE Redirect[p]

Init ==
  /\ hist = <<Entry(Home, 1)>> /\ at = 1
  /\ shown = [page |-> Page(Home), error |-> FALSE, release |-> 0]
  /\ currentURL = Home
  /\ pending = {} /\ busy = FALSE
  /\ app = 0 /\ release = 0
  /\ scripts = (IF HasMap(Home) THEN 1 ELSE 0) /\ charts = 0
  /\ view = NoMap /\ saved = Nothing
  /\ wanted = Page(Home) /\ traversed = FALSE

-----------------------------------------------------------------------------
(* Full page loads *)

NewDoc == CHOOSE doc \in 1 .. MaxHistory + 1 : \A i \in DOMAIN hist : hist[i].doc # doc

\* history.pushState, and any navigation that adds an entry: what was ahead is gone.
Pushed(url, doc) == Append(SubSeq(hist, 1, at), Entry(url, doc))

\* history.replaceState
Replaced(i, url) == [hist EXCEPT ![i] = Entry(url, @.doc)]

\* The tab starts over with the page that u leads to.
Arrive(u) ==
  /\ shown' = [page |-> Ends(Page(u)), error |-> FALSE, release |-> release]
  /\ currentURL' = WithFragment(Ends(Page(u)), u.fragment)
  /\ app' = release
  /\ pending' = {} /\ busy' = FALSE
  /\ wanted' = Page(u) /\ traversed' = FALSE
  /\ scripts' = (IF HasMap(shown'.page) THEN 1 ELSE 0)
  /\ charts' = 0 /\ view' = NoMap /\ saved' = Nothing

\* location.href = u, a native link or a native form: the address it is at already is
\* replaced, another is added.
LoadPage(u) ==
  /\ Arrive(u)
  /\ IF u = Location
     THEN hist' = [hist EXCEPT ![at] = Entry(currentURL', NewDoc)] /\ at' = at
     ELSE /\ at < MaxHistory
          /\ hist' = Pushed(currentURL', NewDoc)
          /\ at' = at + 1

\* location.reload, and a traversal to an entry of another document.
LoadEntry(i) ==
  /\ Arrive(hist[i].url)
  /\ hist' = Replaced(i, currentURL')
  /\ at' = i

-----------------------------------------------------------------------------
(* requestDocument *)

Request(method, target, history) ==
  [method |-> method, target |-> target, history |-> history, step |-> "sent",
   final |-> Page(target), redirected |-> FALSE, release |-> 0]

\* Mutant: the earlier request is not aborted.
AskToo(r) ==
  /\ pending' = pending \cup {r}
  /\ wanted' = Page(r.target)

\* The earlier request is aborted: all its callbacks find signal.aborted set.
Ask(r) ==
  /\ pending' = {r}
  /\ wanted' = Page(r.target)

\* The popstate handler at the address u.  A request is for the page at u, and takes
\* its place in the history.
PopState(u) ==
  IF Page(currentURL) = Page(u)
  THEN currentURL' = u /\ UNCHANGED <<pending, wanted>>
  ELSE Ask(Request("GET", u, "replace")) /\ UNCHANGED currentURL

\* A fragment navigation: no load, and popstate fires.
GoToFragment(u) ==
  /\ IF u = Location
     THEN UNCHANGED <<hist, at>>
     ELSE /\ at < MaxHistory
          /\ hist' = Pushed(u, hist[at].doc)
          /\ at' = at + 1
  /\ PopState(u)
  /\ UNCHANGED <<shown, busy, app, traversed, mapVars, release>>

\* Assigning location.href, or following a link natively.
Follow(u) ==
  IF Page(u) = Page(Location) /\ u.fragment # NoFragment
  THEN GoToFragment(u)
  ELSE LoadPage(u) /\ UNCHANGED release

-----------------------------------------------------------------------------
(* The user *)

\* In-page section anchors are carried to other pages of the same path.
Carried(u) ==
  IF u.fragment = NoFragment /\ u.path = Location.path
  THEN WithFragment(u, Location.fragment) ELSE u

\* click
Click ==
  \E u \in URLs :
    IF Page(u) = Page(Location)
    THEN Follow(u)
    ELSE /\ Ask(Request("GET", Carried(u), "push"))
         /\ UNCHANGED <<hist, at, shown, currentURL, busy, app, traversed, mapVars, release>>

\* submit of a GET form: its action loses the fragment.
SubmitGet ==
  /\ \E p \in Pages : Ask(Request("GET", p, "push"))
  /\ UNCHANGED <<hist, at, shown, currentURL, busy, app, traversed, mapVars, release>>

\* submit of a POST form with data-vt-nav.
SubmitPost ==
  /\ Ask(Request("POST", Posted, "push"))
  /\ busy' = TRUE
  /\ UNCHANGED <<hist, at, shown, currentURL, app, traversed, mapVars, release>>

\* submit of any other POST form, or an address typed by the user: the browser loads
\* the answer.
SubmitNative == \E p \in Pages : LoadPage(p) /\ UNCHANGED release

\* Back, forward, or several entries at once.
Traverse ==
  \E i \in DOMAIN hist \ {at} :
    IF hist[i].doc = hist[at].doc
    THEN /\ at' = i
         /\ PopState(hist[i].url)
         /\ traversed' = TRUE
         /\ UNCHANGED <<hist, shown, busy, app, mapVars, release>>
    ELSE LoadEntry(i) /\ UNCHANGED release

-----------------------------------------------------------------------------
(* Answers *)

\* The headers of an HTML page: of the page a GET ends at; of an error answer to a POST
\* or the page it redirects to.  A redirection to the login page is ToLogin.
Receive(r) ==
  /\ r.step = "sent"
  /\ \E final \in Pages \cup {Posted} : \E redirected \in BOOLEAN :
       /\ IF r.method = "GET"
          THEN final = Ends(Page(r.target)) /\ redirected = (final # Page(r.target))
          ELSE redirected = (final # Posted)
       /\ redirected => final # Login
       /\ pending' = (pending \ {r}) \cup
            {[r EXCEPT !.step = "reading", !.final = final, !.redirected = redirected,
                       !.release = release]}
  /\ UNCHANGED <<hist, at, shown, currentURL, busy, app, wanted, traversed, mapVars, release>>

\* The session is over: the request was redirected to the login page.
ToLogin(r) ==
  /\ r.step = "sent"
  /\ LoadPage(Login)
  /\ UNCHANGED release

\* Mutant: a failed POST is given up.
GiveUp(r) ==
  IF r.method = "POST"
  THEN /\ pending' = pending \ {r}
       /\ UNCHANGED <<hist, at, shown, currentURL, busy, app, wanted, traversed, mapVars, release>>
  ELSE Follow(r.target)

\* catch: no answer, or one that is not HTML.
Fail(r) ==
  IF r.method = "POST"
  THEN LoadEntry(at) /\ UNCHANGED release
  ELSE Follow(r.target)

\* The history entry that the answer goes to: options merged for a POST.
Replaces(r) ==
  \/ r.history = "replace"
  \/ r.method = "POST" /\ (~ r.redirected \/ r.final = Location)

IsError(r) == r.method = "POST" /\ ~ r.redirected
NewAddress(r) == IF IsError(r) THEN Location ELSE r.final

\* vt:before-swap, heard by every run of the analytics script on this body.
Teardown ==
  /\ saved' = IF charts > 0 THEN [path |-> Location.path, view |-> view] ELSE saved
  /\ charts' = 0 /\ view' = NoMap

\* Mutant: currentURL stays that of the first page.
SwapUnnoticed(r) ==
  /\ Teardown
  /\ shown' = [page |-> r.final, error |-> IsError(r), release |-> r.release]
  /\ IF Replaces(r)
     THEN hist' = Replaced(at, NewAddress(r)) /\ at' = at
     ELSE /\ at < MaxHistory
          /\ hist' = Pushed(NewAddress(r), hist[at].doc)
          /\ at' = at + 1
  /\ busy' = FALSE
  /\ scripts' = scripts + (IF HasMap(r.final) /\ ~ IsError(r) THEN 1 ELSE 0)
  /\ pending' = pending \ {r}
  /\ UNCHANGED <<currentURL, app, wanted, traversed, release>>

\* applyDocument: the body is replaced, its scripts are fetched again.
Swap(r) ==
  /\ Teardown
  /\ shown' = [page |-> r.final, error |-> IsError(r), release |-> r.release]
  /\ IF Replaces(r)
     THEN hist' = Replaced(at, NewAddress(r)) /\ at' = at
     ELSE /\ at < MaxHistory
          /\ hist' = Pushed(NewAddress(r), hist[at].doc)
          /\ at' = at + 1
  /\ currentURL' = NewAddress(r)
  /\ busy' = FALSE
  /\ scripts' = scripts + (IF HasMap(r.final) /\ ~ IsError(r) THEN 1 ELSE 0)
  /\ pending' = pending \ {r}
  /\ UNCHANGED <<app, wanted, traversed, release>>

\* Mutant: the release is not compared.
SameRelease(r) == TRUE

\* The page asks for the app.js that runs.
SameApp(r) == r.release = app

\* The text of the answer: it is swapped in, or loaded with the navigator it belongs to.
Land(r) ==
  /\ r.step = "reading"
  /\ scripts < MaxScripts
  /\ IF SameApp(r) THEN Swap(r) ELSE LoadPage(r.final) /\ UNCHANGED release

-----------------------------------------------------------------------------
(* The analytics script *)

\* Mutant: the saved view is taken over by any page.
AnySaved == saved # Nothing

\* savedMapState: it belongs to the page at the address of the moment.
SavedHere == saved # Nothing /\ saved.path = Location.path

\* A script has arrived: it draws the map of the body that is shown now, if it has one.
RunAnalytics ==
  /\ scripts > 0
  /\ scripts' = scripts - 1
  /\ IF HasMap(shown.page) /\ ~ shown.error
     THEN /\ charts' = charts + 1
          /\ view' = IF SavedHere THEN saved.view ELSE Default
          /\ saved' = Nothing
     ELSE UNCHANGED <<charts, view, saved>>
  /\ UNCHANGED <<hist, at, tabVars, release>>

\* The user drags the map, or resets it.
MoveMap ==
  /\ charts > 0
  /\ view' \in {shown.page.path, Default}
  /\ UNCHANGED <<hist, at, tabVars, scripts, charts, saved, release>>

\* The server is updated.
Deploy ==
  /\ release < MaxRelease
  /\ release' = release + 1
  /\ UNCHANGED <<hist, at, tabVars, mapVars>>

Next ==
  \/ Click \/ SubmitGet \/ SubmitPost \/ SubmitNative \/ Traverse
  \/ \E r \in pending : Receive(r) \/ ToLogin(r) \/ Fail(r) \/ Land(r)
  \/ RunAnalytics \/ MoveMap \/ Deploy

Spec == Init /\ [][Next]_vars

-----------------------------------------------------------------------------
(* Properties *)

\* When no answer is on its way, the body shows the page of the address, or the error
\* answer to a form: links, forms, back and forward in any order and at any time,
\* lost answers and new releases never leave one under the address of another.
AddressIsShown ==
  pending = {} => shown.error \/ Page(Location) = shown.page

\* ... and it is the answer to the newest request, never to one that was overtaken
\* (activeRequest.abort).
NewestRequestLands ==
  pending = {} => shown.error \/ wanted = Posted \/ shown.page = Ends(wanted)

\* A button that is marked busy has an answer on its way that will replace it, also
\* when another request overtakes its own (markBusy).
BusyHasAnswer == busy => pending # {}

\* The page shown has been rendered by the release whose navigator runs, so that old
\* handlers never meet new forms (applyDocument).
OneRelease == shown.release = app

\* Charts belong to the body that is shown, whenever its script arrived; and as long as
\* pages are reached by links and forms, a map shows the view that the user chose on that
\* very page, or the default one (savedMapState).  After a traversal it need not: the
\* view is then saved under the address of the next page.
ViewOfThisPage ==
  /\ charts > 0 => HasMap(shown.page) /\ ~ shown.error
  /\ traversed \/ view \in {NoMap, Default, shown.page.path}

-----------------------------------------------------------------------------
(* The inductive invariant *)

Targets == Pages \cup {Posted}
Entered == {u \in Addresses : Page(u) \in Targets}
Sent ==
  [method : {"GET", "POST"}, target : Entered, history : {"push", "replace"},
   step : {"sent", "reading"}, final : Targets, redirected : BOOLEAN, release : Nat]

Entries == [url : Entered, doc : 1 .. MaxHistory + 1]

HistoryOK ==
  /\ hist \in Seq(Entries)
  /\ at \in 1 .. Len(hist) /\ Len(hist) <= MaxHistory

TypeOK ==
  /\ HistoryOK
  /\ shown \in [page : Targets, error : BOOLEAN, release : Nat]
  /\ currentURL \in Entered
  /\ pending \subseteq Sent
  /\ busy \in BOOLEAN /\ traversed \in BOOLEAN
  /\ app \in Nat /\ release \in Nat /\ scripts \in Nat /\ charts \in Nat
  /\ wanted \in Targets

\* One request at a time is not aborted, and it is the newest.
NewestOnly ==
  \A r \in pending :
    /\ pending = {r}
    /\ wanted = Page(r.target)
    /\ r.method = "POST" => r.target = Posted
    /\ r.step = "reading" =>
         IF r.method = "GET" THEN r.final = Ends(Page(r.target))
         ELSE r.redirected <=> r.final # Posted

\* What the navigator takes for the current address: that of the body it has shown, and
\* the tab's own unless a traversal is waiting for its page.
BodyKnown == shown.error \/ Page(currentURL) = shown.page
AddressKnown == pending = {} \/ ~ traversed => currentURL = Location

\* The saved view was saved under its own path.
SavedUnderPath ==
  traversed \/ saved = Nothing \/ saved.view \in {NoMap, Default, saved.path}

IInv ==
  /\ TypeOK /\ NewestOnly /\ BodyKnown /\ AddressKnown /\ SavedUnderPath
  /\ NewestRequestLands /\ BusyHasAnswer /\ OneRelease /\ ViewOfThisPage

=============================================================================
