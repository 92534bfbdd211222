----------------------------- MODULE MapService -----------------------------
(***************************************************************************)
(* What the public maps of VisitorTrace promise to those who ask for them,  *)
(* with no cache in sight.  The data of a Site change, and a change is      *)
(* announced afterwards.  A map is drawn from the totals and the points of  *)
(* the data, read one after the other, so it may show two versions of them. *)
(*                                                                          *)
(* A request is served at once with a map that is no older than the last    *)
(* announcement, or has one rendered that is no older than the rendering,   *)
(* or waits for a rendering under way, which may have begun before the last *)
(* announcement.  Nobody is shown less than what was shown for the same key *)
(* before.                                                                  *)
(***************************************************************************)
EXTENDS Integers

CONSTANTS
  Sites, Keys, Clients,
  SiteOf               \* the Site of a map

VARIABLES
  version,     \* how often the data of each Site have been changed
  announced,   \* the version of each Site that was announced last
  shown,       \* for each key, the versions in the map that was answered last
  request

serviceVars == <<version, announced, shown, request>>

NoRequest == [step |-> "idle"]

NothingAsked ==
  /\ version = [s \in Sites |-> 0]
  /\ announced = [s \in Sites |-> 0]
  /\ shown = [k \in Keys |-> [totals |-> 0, points |-> 0]]
  /\ request = [c \in Clients |-> NoRequest]

Change(s) ==
  /\ version' = [version EXCEPT ![s] = @ + 1]
  /\ UNCHANGED <<announced, shown, request>>

Announce(s) ==
  /\ announced' = [announced EXCEPT ![s] = version[s]]
  /\ UNCHANGED <<version, shown, request>>

\* The answer is a map of versions from the oldest allowed to the present one.
Show(k, oldest) ==
  \E totals \in oldest .. version[SiteOf[k]] : \E points \in totals .. version[SiteOf[k]] :
    /\ shown[k].totals <= totals /\ shown[k].points <= points
    /\ shown' = [shown EXCEPT ![k] = [totals |-> totals, points |-> points]]

Ask(c, k) ==
  /\ request[c].step = "idle"
  /\ request' = [request EXCEPT ![c] = [step |-> "asking", key |-> k]]
  /\ UNCHANGED <<version, announced, shown>>

Serve(c) ==
  /\ request[c].step = "asking"
  /\ Show(request[c].key, announced[SiteOf[request[c].key]])
  /\ request' = [request EXCEPT ![c] = NoRequest]
  /\ UNCHANGED <<version, announced>>

Rendered(k) == \E c \in Clients : request[c].step = "rendering" /\ request[c].key = k

Begin(c) ==
  LET k == request[c].key IN
  /\ request[c].step = "asking" /\ ~ Rendered(k)
  /\ request' = [request EXCEPT ![c] =
       [step |-> "rendering", key |-> k, since |-> version[SiteOf[k]]]]
  /\ UNCHANGED <<version, announced, shown>>

Join(c) ==
  LET k == request[c].key IN
  /\ request[c].step = "asking" /\ Rendered(k)
  /\ request' = [request EXCEPT ![c] = [step |-> "waiting", key |-> k]]
  /\ UNCHANGED <<version, announced, shown>>

\* Everyone who waits has the answer of the one who rendered, or the same error.
End(c) ==
  LET k == request[c].key IN
  /\ request[c].step = "rendering"
  /\ Show(k, request[c].since) \/ UNCHANGED shown
  /\ request' = [d \in Clients |->
       IF d = c \/ (request[d].step = "waiting" /\ request[d].key = k)
       THEN NoRequest ELSE request[d]]
  /\ UNCHANGED <<version, announced>>

Leave(c) ==
  /\ request[c].step = "waiting"
  /\ request' = [request EXCEPT ![c] = NoRequest]
  /\ UNCHANGED <<version, announced, shown>>

ServiceNext ==
  \/ \E s \in Sites : Change(s) \/ Announce(s)
  \/ \E c \in Clients :
       \/ \E k \in Keys : Ask(c, k)
       \/ Serve(c) \/ Begin(c) \/ Join(c) \/ End(c) \/ Leave(c)

ServiceSpec == NothingAsked /\ [][ServiceNext]_serviceVars

=============================================================================
