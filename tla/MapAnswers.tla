----------------------------- MODULE MapAnswers -----------------------------
(***************************************************************************)
(* MapCache with what it takes to say which maps its requests are answered  *)
(* with: three history variables, which no action of the program reads, and *)
(* the mapping under which it implements MapService.                        *)
(***************************************************************************)
EXTENDS MapCache

VARIABLES
  announced,   \* announced[s]: version[s] when deleteSite last ran for s
  shown,       \* shown[k]: the map that was answered last for k
  since        \* since[c]: version of its Site when c began to render, or 0

history == <<announced, shown, since>>
answeredVars == <<vars, history>>

Drawn(item) == [totals |-> item.totals, points |-> item.points]

AnsweredInit ==
  /\ Init
  /\ announced = [s \in Sites |-> 0]
  /\ shown = [k \in Keys |-> [totals |-> 0, points |-> 0]]
  /\ since = [c \in Clients |-> 0]

AnsweredHit(c) ==
  /\ Hit(c)
  /\ shown' = [shown EXCEPT ![client[c].key] = Drawn(entries[client[c].key])]
  /\ UNCHANGED <<announced, since>>

AnsweredLead(c) ==
  /\ Lead(c)
  /\ since' = [since EXCEPT ![c] = version[SiteOf[client[c].key]]]
  /\ UNCHANGED <<announced, shown>>

AnsweredFinish(c) ==
  /\ Finish(c)
  /\ shown' = IF client[c].step = "rendered"
              THEN [shown EXCEPT ![client[c].key] = Drawn(client[c].item)] ELSE shown
  /\ since' = [since EXCEPT ![c] = 0]
  /\ UNCHANGED announced

AnsweredDelete(h) ==
  /\ DeleteSite(h)
  /\ announced' = [announced EXCEPT ![handler[h]] = version[handler[h]]]
  /\ UNCHANGED <<shown, since>>

\* What answers nobody, begins no render and invalidates nothing.
Quiet(c) ==
  Arrive(c) \/ Join(c) \/ ReadTotals(c) \/ ReadPoints(c) \/ RenderFails(c) \/ Leave(c)

AnsweredNext ==
  \/ \E c \in Clients :
       \/ AnsweredHit(c) \/ AnsweredLead(c) \/ AnsweredFinish(c)
       \/ Quiet(c) /\ UNCHANGED history
  \/ \E h \in Handlers :
       \/ AnsweredDelete(h)
       \/ \E s \in Sites : Commit(h, s) /\ UNCHANGED history
  \/ Tick /\ UNCHANGED history

AnsweredSpec == AnsweredInit /\ [][AnsweredNext]_answeredVars

-----------------------------------------------------------------------------
(* Properties *)

Request(c) ==
  CASE client[c].step = "idle" -> [step |-> "idle"]
    [] client[c].step = "arrived" -> [step |-> "asking", key |-> client[c].key]
    [] client[c].step = "waiting" -> [step |-> "waiting", key |-> client[c].key]
    [] OTHER -> [step |-> "rendering", key |-> client[c].key, since |-> since[c]]

Service == INSTANCE MapService WITH request <- [c \in Clients |-> Request(c)]

\* Whatever is cached, evicted, expired, outdated, coalesced or given up: a hit is no older
\* than the last deleteSite of its Site, a render no older than its beginning, who waits
\* has the answer of a render that was under way, and no key's answers ever go back.
RefinesService == Service!ServiceSpec

-----------------------------------------------------------------------------
(* The inductive invariant of the refinement, on top of IInv *)

HistoryTypes ==
  /\ announced \in [Sites -> Nat]
  /\ shown \in [Keys -> [totals : Nat, points : Nat]]
  /\ since \in [Clients -> Nat]

\* A cached map is no older than the last deleteSite nor than what was answered last, and
\* there is none while its key is rendered.
EntriesServe ==
  \A k \in Cached :
    LET e == entries[k] IN
    /\ k \notin flights
    /\ announced[SiteOf[k]] <= e.totals /\ e.totals <= e.points /\ e.points <= version[SiteOf[k]]
    /\ shown[k].totals <= e.totals /\ shown[k].points <= e.points

\* A render shows nothing older than its beginning, which is not before the last deleteSite
\* if its generation is still that of the Site.
RenderServes(c) ==
  LET k == client[c].key
      s == SiteOf[k]
  IN  /\ shown[k].totals <= since[c] /\ shown[k].points <= since[c] /\ since[c] <= version[s]
      /\ client[c].generation = generations[s] => announced[s] <= since[c]
      /\ client[c].step = "halfway" =>
           since[c] <= client[c].totals /\ client[c].totals <= version[s]
      /\ client[c].step = "rendered" =>
           /\ since[c] <= client[c].item.totals
           /\ client[c].item.totals <= client[c].item.points
           /\ client[c].item.points <= version[s]

RendersServe ==
  \A c \in Clients :
    client[c].step \in {"leading", "halfway", "rendered", "failed"} => RenderServes(c)

ShownPast ==
  /\ \A k \in Keys : shown[k].totals <= shown[k].points /\ shown[k].points <= version[SiteOf[k]]
  /\ \A s \in Sites : announced[s] <= version[s]

AnsweredInv == HistoryTypes /\ EntriesServe /\ RendersServe /\ ShownPast

=============================================================================
