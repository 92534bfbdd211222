------------------------- MODULE ConnectionsProofs -------------------------
(***************************************************************************)
(* Proofs about Connections for every number of connections, goroutines     *)
(* and Sites.                                                               *)
(***************************************************************************)
EXTENDS Connections, FiniteSetTheorems, TLAPS

-----------------------------------------------------------------------------
(* Sequences of connections *)

LEMMA Joined ==
  ASSUME NEW S, NEW s \in Seq(S), NEW t \in Seq(S)
  PROVE  /\ s \o t \in Seq(S) /\ ToSet(s \o t) = ToSet(s) \cup ToSet(t)
         /\ IsInjective(s) /\ IsInjective(t) /\ ToSet(s) \cap ToSet(t) = {} => IsInjective(s \o t)
<1> DEFINE u == s \o t
<1>1. /\ u \in Seq(S) /\ Len(u) = Len(s) + Len(t) /\ Len(s) \in Nat /\ Len(t) \in Nat
      /\ DOMAIN u = 1 .. Len(s) + Len(t) /\ DOMAIN s = 1 .. Len(s) /\ DOMAIN t = 1 .. Len(t)
      /\ \A i \in 1 .. Len(s) + Len(t) : u[i] = IF i <= Len(s) THEN s[i] ELSE t[i - Len(s)]
  OBVIOUS
<1> HIDE DEF u
<1>2. \A i \in DOMAIN u :
        \/ i \in DOMAIN s /\ u[i] = s[i]
        \/ i - Len(s) \in DOMAIN t /\ u[i] = t[i - Len(s)]
  BY <1>1
<1>3. ToSet(u) \subseteq ToSet(s) \cup ToSet(t)
  BY <1>2 DEF ToSet
<1>4. ToSet(s) \subseteq ToSet(u)
  BY <1>1 DEF ToSet
<1>5. ToSet(t) \subseteq ToSet(u)
  <2>1. \A j \in DOMAIN t : j + Len(s) \in DOMAIN u /\ u[j + Len(s)] = t[j]
    BY <1>1
  <2> QED BY <2>1 DEF ToSet
<1>6. ASSUME IsInjective(s), IsInjective(t), ToSet(s) \cap ToSet(t) = {},
             NEW i \in DOMAIN u, NEW j \in DOMAIN u, u[i] = u[j]
      PROVE  i = j
  <2>1. CASE i \in DOMAIN s /\ j \in DOMAIN s
    BY <1>1, <1>6, <2>1 DEF IsInjective
  <2>2. CASE i \notin DOMAIN s /\ j \notin DOMAIN s
    <3>1. i - Len(s) \in DOMAIN t /\ j - Len(s) \in DOMAIN t /\ t[i - Len(s)] = t[j - Len(s)]
      BY <1>1, <1>2, <1>6, <2>2
    <3>2. i - Len(s) = j - Len(s)
      BY <1>6, <3>1 DEF IsInjective
    <3> QED BY <1>1, <3>2
  <2>3. CASE (i \in DOMAIN s /\ j \notin DOMAIN s) \/ (i \notin DOMAIN s /\ j \in DOMAIN s)
    <3>1. u[i] \in ToSet(s) /\ u[i] \in ToSet(t)
      BY <1>2, <1>1, <1>6, <2>3 DEF ToSet
    <3> QED BY <1>6, <3>1
  <2> QED BY <2>1, <2>2, <2>3
<1>7. IsInjective(s) /\ IsInjective(t) /\ ToSet(s) \cap ToSet(t) = {} => IsInjective(u)
  BY <1>6 DEF IsInjective
<1> QED BY <1>1, <1>3, <1>4, <1>5, <1>7 DEF u

LEMMA Single ==
  ASSUME NEW S, NEW c \in S
  PROVE  <<c>> \in Seq(S) /\ ToSet(<<c>>) = {c} /\ IsInjective(<<c>>)
<1>1. <<c>> \in Seq(S) /\ DOMAIN <<c>> = {1} /\ <<c>>[1] = c
  OBVIOUS
<1> QED BY <1>1 DEF ToSet, IsInjective

LEMMA Pushed ==
  ASSUME NEW S, NEW s \in Seq(S), NEW c \in S
  PROVE  /\ Append(s, c) \in Seq(S) /\ Len(Append(s, c)) = Len(s) + 1
         /\ ToSet(Append(s, c)) = ToSet(s) \cup {c}
         /\ IsInjective(s) /\ c \notin ToSet(s) => IsInjective(Append(s, c))
<1>1. Append(s, c) = s \o <<c>> /\ Len(Append(s, c)) = Len(s) + 1
  OBVIOUS
<1>2. <<c>> \in Seq(S) /\ ToSet(<<c>>) = {c} /\ IsInjective(<<c>>)
  BY Single
<1>3. /\ s \o <<c>> \in Seq(S) /\ ToSet(s \o <<c>>) = ToSet(s) \cup ToSet(<<c>>)
      /\ IsInjective(s) /\ IsInjective(<<c>>) /\ ToSet(s) \cap ToSet(<<c>>) = {}
           => IsInjective(s \o <<c>>)
  BY <1>2, Joined
<1> QED BY <1>1, <1>2, <1>3, Zenon

LEMMA Split ==
  ASSUME NEW S, NEW s \in Seq(S), s # << >>
  PROVE  /\ Front(s) \in Seq(S) /\ Len(Front(s)) = Len(s) - 1 /\ Last(s) \in S
         /\ ToSet(s) = ToSet(Front(s)) \cup {Last(s)}
         /\ IsInjective(s) => IsInjective(Front(s)) /\ Last(s) \notin ToSet(Front(s))
<1>1. /\ Len(s) \in Nat /\ Len(s) >= 1 /\ DOMAIN s = 1 .. Len(s)
      /\ \A i \in DOMAIN s : s[i] \in S
  OBVIOUS
<1>2. /\ Front(s) \in Seq(S) /\ Len(Front(s)) = Len(s) - 1
      /\ DOMAIN Front(s) = 1 .. Len(s) - 1
      /\ \A i \in 1 .. Len(s) - 1 : Front(s)[i] = s[i]
  BY <1>1 DEF Front
<1>3. Last(s) \in S /\ Last(s) = s[Len(s)]
  BY <1>1 DEF Last
<1> DEFINE f == Front(s)
<1> HIDE DEF f
<1>4. ToSet(s) = ToSet(f) \cup {Last(s)}
  <2>1. \A i \in DOMAIN s : i = Len(s) \/ (i \in DOMAIN f /\ f[i] = s[i])
    BY <1>1, <1>2 DEF f
  <2>2. \A i \in DOMAIN f : i \in DOMAIN s /\ f[i] = s[i]
    BY <1>1, <1>2 DEF f
  <2>3. Len(s) \in DOMAIN s
    BY <1>1
  <2> QED BY <1>3, <2>1, <2>2, <2>3 DEF ToSet
<1>5. IsInjective(s) => IsInjective(f) /\ Last(s) \notin ToSet(f)
  <2>1. \A i \in DOMAIN f : i \in DOMAIN s /\ f[i] = s[i] /\ i # Len(s)
    BY <1>1, <1>2 DEF f
  <2>2. Len(s) \in DOMAIN s
    BY <1>1
  <2> QED BY <1>3, <2>1, <2>2 DEF IsInjective, ToSet
<1> QED BY <1>2, <1>3, <1>4, <1>5 DEF f

LEMMA Nothing == ToSet(<< >>) = {} /\ IsInjective(<< >>)
BY DEF ToSet, IsInjective

-----------------------------------------------------------------------------
(* A call moves *)

\* The connections of the pool and of one call are exchanged, new ones are opened, and
\* all other calls keep theirs.
LEMMA CallMoves ==
  ASSUME IInv, NEW p \in Procs, NEW call \in Calls, proc' = [proc EXCEPT ![p] = call],
         Holding(call), enforcing' = enforcing, rows' \in [site : BOOLEAN, others : BOOLEAN],
         free' \in Seq(Conns), IsInjective(free'),
         NEW new \in SUBSET Conns, new \cap opened = {}, opened' = opened \cup new,
         ToSet(free') \cup ToSet(call.held) = ToSet(free) \cup ToSet(proc[p].held) \cup new,
         ToSet(free') \cap ToSet(call.held) = {},
         writeMu' \in {writeMu, p, Nobody}, writeMu' = p => call.step \in {"acquire", "using"}
  PROVE  IInv'
<1>1. /\ proc' \in [Procs -> Calls] /\ proc'[p] = call
      /\ \A q \in Procs \ {p} : proc'[q] = proc[q]
  BY DEF IInv, TypeOK
<1>2. TypeOK'
  BY <1>1 DEF IInv, TypeOK, Calls
<1>3. \A q \in Procs : Holding(proc[q])'
  <2>1. \A q \in Procs : Holding(proc'[q])
    BY <1>1 DEF IInv
  <2> QED BY <2>1 DEF Holding, IsInjective
<1> DEFINE held == [q \in Procs |-> ToSet(proc[q].held)]
           next == [q \in Procs |-> ToSet(proc'[q].held)]
<1>4. /\ \A q \in Procs : Held(q) = held[q] /\ Held(q)' = next[q]
      /\ \A q \in Procs \ {p} : next[q] = held[q]
      /\ next[p] = ToSet(call.held) /\ held[p] = ToSet(proc[p].held)
  BY <1>1 DEF Held, ToSet
<1> HIDE DEF held, next
<1>5. /\ opened = ToSet(free) \cup UNION {held[q] : q \in Procs}
      /\ \A q, r \in Procs : q # r => held[q] \cap held[r] = {}
      /\ \A q \in Procs : held[q] \cap ToSet(free) = {}
  BY <1>4 DEF IInv, ConnectionsAccounted
<1>6. ToSet(free') \cup next[p] = ToSet(free) \cup held[p] \cup new
      /\ ToSet(free') \cap next[p] = {}
  BY <1>4
<1>7. opened' = ToSet(free') \cup UNION {next[q] : q \in Procs}
  <2>1. ASSUME NEW c \in opened' PROVE c \in ToSet(free') \/ \E q \in Procs : c \in next[q]
    BY <1>4, <1>5, <1>6, <2>1
  <2>2. ASSUME NEW c \in ToSet(free') PROVE c \in opened'
    BY <1>5, <1>6, <2>2
  <2>3. ASSUME NEW q \in Procs, NEW c \in next[q] PROVE c \in opened'
    BY <1>4, <1>5, <1>6, <2>3
  <2> QED BY <2>1, <2>2, <2>3
<1>8. \A q \in Procs : next[q] \cap ToSet(free') = {}
  <2> SUFFICES ASSUME NEW q \in Procs, NEW c \in next[q], c \in ToSet(free') PROVE FALSE
    OBVIOUS
  <2>1. CASE q = p
    BY <1>6, <2>1
  <2>2. CASE q # p
    <3>1. c \in held[q] /\ c \in opened
      BY <1>4, <1>5, <2>2
    <3>2. c \in ToSet(free) \/ c \in held[p]
      BY <1>6, <3>1
    <3> QED BY <1>5, <2>2, <3>1, <3>2
  <2> QED BY <2>1, <2>2
<1>9. \A q, r \in Procs : q # r => next[q] \cap next[r] = {}
  <2> SUFFICES ASSUME NEW q \in Procs \ {p}, NEW r \in Procs, q # r,
                      NEW c \in next[q], c \in next[r]
               PROVE FALSE
    OBVIOUS
  <2>1. c \in held[q] /\ c \in opened
    BY <1>4, <1>5
  <2>2. CASE r = p
    <3>1. c \in ToSet(free) \/ c \in held[p]
      BY <1>6, <2>1, <2>2
    <3> QED BY <1>5, <2>1, <2>2, <3>1
  <2>3. CASE r # p
    BY <1>4, <1>5, <2>1, <2>3
  <2> QED BY <2>2, <2>3
<1>10. writeMu' # Nobody => proc'[writeMu'].step \in {"acquire", "using"}
  BY <1>1 DEF IInv, TypeOK, ConnectionsAccounted
<1>11. ConnectionsAccounted'
  <2>1. ToSet(free)' = ToSet(free') /\ IsInjective(free)'
    BY DEF ToSet, IsInjective
  <2>2. (UNION {Held(q) : q \in Procs})' = UNION {next[q] : q \in Procs}
    BY <1>4
  <2> QED BY <1>4, <1>7, <1>8, <1>9, <1>10, <2>1, <2>2 DEF ConnectionsAccounted
<1> QED BY <1>2, <1>3, <1>11 DEF IInv

LEMMA Facts ==
  ASSUME IInv, NEW p \in Procs
  PROVE  /\ proc[p] \in Calls /\ Holding(proc[p]) /\ proc[p].held \in Seq(Conns)
         /\ IsInjective(proc[p].held) /\ free \in Seq(Conns) /\ IsInjective(free)
         /\ ToSet(free) \cap ToSet(proc[p].held) = {}
         /\ ToSet(free) \subseteq opened /\ ToSet(proc[p].held) \subseteq opened
         /\ rows \in [site : BOOLEAN, others : BOOLEAN]
         /\ writeMu = p => proc[p].step \in {"acquire", "using"}
<1>1. proc[p] \in Calls /\ Holding(proc[p]) /\ free \in Seq(Conns)
      /\ rows \in [site : BOOLEAN, others : BOOLEAN]
  BY DEF IInv, TypeOK
<1>2. proc[p].held \in Seq(Conns) /\ IsInjective(proc[p].held)
  BY <1>1 DEF Calls, Holding
<1>3. Held(p) = ToSet(proc[p].held)
  BY DEF Held
<1> QED BY <1>1, <1>2, <1>3, NobodyAssumption DEF IInv, ConnectionsAccounted

\* What a call gives back, and what it keeps.
LEMMA GivesBack ==
  ASSUME IInv, NEW p \in Procs, NEW call \in Calls, proc' = [proc EXCEPT ![p] = call],
         Holding(call), rows' \in [site : BOOLEAN, others : BOOLEAN],
         NEW back \in Seq(Conns), IsInjective(back), Give(back),
         ToSet(proc[p].held) = ToSet(back) \cup ToSet(call.held),
         ToSet(back) \cap ToSet(call.held) = {},
         writeMu' \in {writeMu, Nobody}, writeMu' = p => call.step \in {"acquire", "using"}
  PROVE  IInv'
<1>1. free' = free \o back /\ enforcing' = enforcing /\ opened' = opened \cup {}
  BY DEF Give
<1>2. ToSet(free) \cap ToSet(proc[p].held) = {} /\ free \in Seq(Conns) /\ IsInjective(free)
  BY Facts
<1>3. /\ free \o back \in Seq(Conns) /\ ToSet(free \o back) = ToSet(free) \cup ToSet(back)
      /\ IsInjective(free \o back)
  BY <1>2, Joined
<1>4. /\ free' \in Seq(Conns) /\ IsInjective(free')
      /\ ToSet(free') = ToSet(free) \cup ToSet(back)
  BY <1>1, <1>3
<1>5. /\ ToSet(free') \cup ToSet(call.held) = ToSet(free) \cup ToSet(proc[p].held) \cup {}
      /\ ToSet(free') \cap ToSet(call.held) = {}
  BY <1>2, <1>4
<1>6. {} \in SUBSET Conns /\ {} \cap opened = {} /\ writeMu' \in {writeMu, p, Nobody}
  OBVIOUS
<1> QED BY <1>1, <1>4, <1>5, <1>6, CallMoves

LEMMA ReleaseStep ==
  ASSUME IInv, NEW p \in Procs, Release(p), rows' \in [site : BOOLEAN, others : BOOLEAN]
  PROVE  IInv'
<1>1. idle \in Calls /\ Holding(idle) /\ ToSet(idle.held) = {}
  BY Nothing DEF idle, Calls, Holding
<1>2. proc[p].held \in Seq(Conns) /\ IsInjective(proc[p].held)
  BY Facts
<1>3. writeMu' \in {writeMu, Nobody} /\ writeMu' # p
  BY NobodyAssumption DEF Release
<1> QED BY <1>1, <1>2, <1>3, GivesBack DEF Release

\* No connection changes hands.
LEMMA KeepsAll ==
  ASSUME IInv, NEW p \in Procs, NEW call \in Calls, proc' = [proc EXCEPT ![p] = call],
         Holding(call), UNCHANGED <<pool, rows>>, call.held = proc[p].held,
         writeMu' \in {writeMu, p}, writeMu' = p => call.step \in {"acquire", "using"}
  PROVE  IInv'
<1>1. free' = free /\ enforcing' = enforcing /\ opened' = opened \cup {}
      /\ rows' \in [site : BOOLEAN, others : BOOLEAN]
  BY Facts DEF pool
<1>2. free \in Seq(Conns) /\ IsInjective(free) /\ ToSet(free) \cap ToSet(proc[p].held) = {}
  BY Facts
<1>3. /\ free' \in Seq(Conns) /\ IsInjective(free')
      /\ ToSet(free') \cup ToSet(call.held) = ToSet(free) \cup ToSet(proc[p].held) \cup {}
      /\ ToSet(free') \cap ToSet(call.held) = {}
  BY <1>1, <1>2
<1>4. {} \in SUBSET Conns /\ {} \cap opened = {} /\ writeMu' \in {writeMu, p, Nobody}
  OBVIOUS
<1> QED BY <1>1, <1>3, <1>4, CallMoves

-----------------------------------------------------------------------------
(* The actions *)

LEMMA BeginStep ==
  ASSUME IInv, NEW p \in Procs, NEW op \in Readers \cup Writers, Begin(p, op)
  PROVE  IInv'
<1> DEFINE call == [op |-> op, step |-> IF op \in Writers THEN "lock" ELSE "acquire",
                    held |-> << >>, left |-> IF op = "list" THEN SiteCount ELSE 0]
<1>1. call \in Calls
  BY PoolAssumption DEF Calls, Readers, Writers
<1>2. Holding(call) /\ call.held = proc[p].held /\ proc[p].step = "idle"
  BY Nothing DEF Holding, Begin, idle
<1>3. writeMu' = writeMu /\ writeMu # p
  BY <1>2, Facts DEF Begin
<1> QED BY <1>1, <1>2, <1>3, KeepsAll DEF Begin

LEMMA LockStep == ASSUME IInv, NEW p \in Procs, Lock(p) PROVE IInv'
<1> DEFINE call == [proc[p] EXCEPT !.step = "acquire"]
<1>1. proc[p] \in Calls /\ Holding(proc[p]) /\ proc[p].step = "lock"
  BY Facts DEF Lock
<1>2. call \in Calls /\ call.held = proc[p].held /\ call.step = "acquire"
  BY <1>1 DEF Calls
<1>3. Holding(call)
  BY <1>1, <1>2 DEF Holding
<1>4. proc' = [proc EXCEPT ![p] = call] /\ writeMu' = p /\ UNCHANGED <<pool, rows>>
  BY DEF Lock, IInv, TypeOK
<1> HIDE DEF call
<1> QED BY <1>2, <1>3, <1>4, KeepsAll

LEMMA AcquireStep == ASSUME IInv, NEW p \in Procs, Acquire(p) PROVE IInv'
<1>1. PICK c \in Conns :
        Take(c) /\ proc' = [proc EXCEPT ![p].step = "using", ![p].held = Append(@, c)]
  BY DEF Acquire
<1> DEFINE call == [proc[p] EXCEPT !.step = "using", !.held = Append(@, c)]
<1>2. /\ proc[p] \in Calls /\ Holding(proc[p]) /\ proc[p].step = "acquire"
      /\ proc[p].held \in Seq(Conns) /\ IsInjective(proc[p].held)
      /\ free \in Seq(Conns) /\ IsInjective(free)
      /\ ToSet(free) \cap ToSet(proc[p].held) = {}
      /\ ToSet(free) \subseteq opened /\ ToSet(proc[p].held) \subseteq opened
      /\ rows' \in [site : BOOLEAN, others : BOOLEAN] /\ writeMu' = writeMu
  BY Facts DEF Acquire
<1>3. proc' = [proc EXCEPT ![p] = call]
  BY <1>1 DEF IInv, TypeOK
<1>4. /\ Append(proc[p].held, c) \in Seq(Conns)
      /\ Len(Append(proc[p].held, c)) = Len(proc[p].held) + 1
      /\ ToSet(Append(proc[p].held, c)) = ToSet(proc[p].held) \cup {c}
      /\ c \notin ToSet(proc[p].held) => IsInjective(Append(proc[p].held, c))
  BY <1>2, Pushed
<1>5. /\ call \in Calls /\ call.step = "using" /\ call.op = proc[p].op
      /\ call.held = Append(proc[p].held, c) /\ call.left = proc[p].left
  BY <1>2, <1>4 DEF Calls
<1> HIDE DEF call
<1>6. c \notin ToSet(proc[p].held) => Holding(call)
  <2>1. Len(<< >>) = 0
    OBVIOUS
  <2> QED BY <1>2, <1>4, <1>5, <2>1 DEF Holding
<1>7. CASE free # << >> /\ c = Last(free) /\ free' = Front(free) /\ UNCHANGED <<enforcing, opened>>
  <2>1. /\ free' \in Seq(Conns) /\ IsInjective(free') /\ c \notin ToSet(free')
        /\ ToSet(free) = ToSet(free') \cup {c}
    BY <1>2, <1>7, Split
  <2>2. opened' = opened \cup {} /\ enforcing' = enforcing
    BY <1>7
  <2>3. c \notin ToSet(proc[p].held)
    BY <1>2, <2>1
  <2>4. /\ ToSet(free') \cup ToSet(call.held) = ToSet(free) \cup ToSet(proc[p].held) \cup {}
        /\ ToSet(free') \cap ToSet(call.held) = {}
    BY <1>2, <1>4, <1>5, <2>1
  <2>5. {} \in SUBSET Conns /\ {} \cap opened = {}
    OBVIOUS
  <2> QED BY <1>2, <1>3, <1>5, <1>6, <2>1, <2>2, <2>3, <2>4, <2>5, CallMoves
<1>8. CASE c \in Conns \ opened /\ opened' = opened \cup {c} /\ UNCHANGED <<enforcing, free>>
  <2>1. c \notin ToSet(proc[p].held) /\ c \notin ToSet(free)
    BY <1>2, <1>8
  <2>2. free' \in Seq(Conns) /\ IsInjective(free') /\ {c} \in SUBSET Conns
        /\ {c} \cap opened = {} /\ enforcing' = enforcing
    BY <1>2, <1>8
  <2>3. /\ ToSet(free') \cup ToSet(call.held) = ToSet(free) \cup ToSet(proc[p].held) \cup {c}
        /\ ToSet(free') \cap ToSet(call.held) = {}
    BY <1>2, <1>4, <1>5, <1>8, <2>1
  <2> QED BY <1>2, <1>3, <1>5, <1>6, <1>8, <2>1, <2>2, <2>3, CallMoves
<1> QED BY <1>1, <1>7, <1>8 DEF Take

LEMMA NextSiteStep == ASSUME IInv, NEW p \in Procs, NextSite(p) PROVE IInv'
<1> DEFINE call == [proc[p] EXCEPT !.step = "acquire", !.left = @ - 1]
<1>1. /\ proc[p] \in Calls /\ Holding(proc[p]) /\ proc[p].step = "using"
      /\ Len(proc[p].held) = 1 /\ proc[p].left > 0
  BY Facts DEF NextSite
<1>2. /\ call \in Calls /\ call.held = proc[p].held /\ call.step = "acquire"
      /\ call.op = proc[p].op /\ call.op = "list"
  <2>1. proc[p].left - 1 \in Nat /\ proc[p].op = "list"
    BY <1>1 DEF Calls, Holding
  <2> QED BY <1>1, <2>1 DEF Calls
<1>3. Holding(call)
  BY <1>1, <1>2 DEF Holding
<1>4. proc' = [proc EXCEPT ![p] = call] /\ writeMu' = writeMu /\ UNCHANGED <<pool, rows>>
  BY DEF NextSite, IInv, TypeOK
<1> HIDE DEF call
<1> QED BY <1>2, <1>3, <1>4, KeepsAll

LEMMA EndGetSiteStep == ASSUME IInv, NEW p \in Procs, EndGetSite(p) PROVE IInv'
<1> DEFINE call == [proc[p] EXCEPT !.held = Front(@)]
           last == Last(proc[p].held)
<1>1. /\ proc[p] \in Calls /\ Holding(proc[p]) /\ proc[p].step = "using"
      /\ Len(proc[p].held) = 2 /\ proc[p].held \in Seq(Conns) /\ IsInjective(proc[p].held)
      /\ rows' \in [site : BOOLEAN, others : BOOLEAN] /\ writeMu' = writeMu
  BY Facts DEF EndGetSite
<1>2. proc[p].held # << >>
  BY <1>1
<1>3. /\ Front(proc[p].held) \in Seq(Conns) /\ Len(Front(proc[p].held)) = 1 /\ last \in Conns
      /\ ToSet(proc[p].held) = ToSet(Front(proc[p].held)) \cup {last}
      /\ IsInjective(Front(proc[p].held)) /\ last \notin ToSet(Front(proc[p].held))
  <2> DEFINE held == proc[p].held
  <2>1. held \in Seq(Conns) /\ held # << >> /\ IsInjective(held) /\ Len(held) = 2
    BY <1>1, <1>2
  <2> HIDE DEF held
  <2>2. /\ Front(held) \in Seq(Conns) /\ Len(Front(held)) = Len(held) - 1
        /\ Last(held) \in Conns /\ ToSet(held) = ToSet(Front(held)) \cup {Last(held)}
        /\ IsInjective(Front(held)) /\ Last(held) \notin ToSet(Front(held))
    BY <2>1, Split, Zenon
  <2>3. Len(Front(held)) = 1
    BY <2>1, <2>2
  <2> QED BY <2>2, <2>3 DEF held
<1>4. /\ call \in Calls /\ call.held = Front(proc[p].held) /\ call.step = "using"
      /\ call.op = proc[p].op /\ call.left = proc[p].left
  BY <1>1, <1>3 DEF Calls
<1>5. proc' = [proc EXCEPT ![p] = call] /\ Give(<<last>>)
  BY DEF EndGetSite, IInv, TypeOK
<1> HIDE DEF call, last
<1>6. Holding(call)
  BY <1>1, <1>3, <1>4 DEF Holding
<1>7. <<last>> \in Seq(Conns) /\ ToSet(<<last>>) = {last} /\ IsInjective(<<last>>)
  BY <1>3, Single
<1>8. /\ ToSet(proc[p].held) = ToSet(<<last>>) \cup ToSet(call.held)
      /\ ToSet(<<last>>) \cap ToSet(call.held) = {}
  BY <1>3, <1>4, <1>7
<1>9. writeMu' \in {writeMu, Nobody} /\ (writeMu' = p => call.step \in {"acquire", "using"})
  BY <1>1, <1>4
<1> DEFINE back == <<last>>
<1> HIDE DEF back
<1>10. back \in Seq(Conns) /\ IsInjective(back) /\ Give(back)
       /\ ToSet(proc[p].held) = ToSet(back) \cup ToSet(call.held)
       /\ ToSet(back) \cap ToSet(call.held) = {}
  BY <1>5, <1>7, <1>8 DEF back
<1> QED BY <1>1, <1>4, <1>5, <1>6, <1>9, <1>10, GivesBack

LEMMA CommitUpdateStep == ASSUME IInv, NEW p \in Procs, CommitUpdate(p) PROVE IInv'
<1> DEFINE call == [proc[p] EXCEPT !.op = "readback", !.step = "acquire", !.held = << >>]
<1>1. /\ proc[p] \in Calls /\ proc[p].held \in Seq(Conns) /\ IsInjective(proc[p].held)
      /\ rows' \in [site : BOOLEAN, others : BOOLEAN] /\ writeMu' = writeMu
  BY Facts DEF CommitUpdate
<1>2. call \in Calls /\ call.held = << >> /\ call.step = "acquire" /\ ~ (call.left > 0)
  <2>1. << >> \in Seq(Conns) /\ ~ (proc[p].left > 0)
    BY <1>1, Facts DEF Holding, CommitUpdate
  <2> QED BY <1>1, <2>1 DEF Calls
<1>3. proc' = [proc EXCEPT ![p] = call] /\ Give(proc[p].held)
  BY DEF CommitUpdate, IInv, TypeOK
<1> HIDE DEF call
<1>4. Holding(call) /\ ToSet(call.held) = {}
  BY <1>2, Nothing DEF Holding
<1> QED BY <1>1, <1>2, <1>3, <1>4, GivesBack

LEMMA ReleasingSteps ==
  ASSUME IInv, NEW p \in Procs,
         EndQuery(p) \/ CommitWrite(p) \/ CommitDelete(p) \/ Cancel(p)
  PROVE  IInv'
<1>1. Release(p)
  BY DEF EndQuery, CommitWrite, CommitDelete, Cancel
<1>2. rows \in [site : BOOLEAN, others : BOOLEAN]
  BY Facts
<1>3. rows' \in [site : BOOLEAN, others : BOOLEAN]
  <2>1. CASE EndQuery(p) \/ Cancel(p)
    BY <1>2, <2>1 DEF EndQuery, Cancel
  <2>2. CASE CommitWrite(p)
    <3>1. rows' = [rows EXCEPT !.others = rows.others \/ rows.site]
      BY <2>2 DEF CommitWrite
    <3>2. (rows.others \/ rows.site) \in BOOLEAN
      OBVIOUS
    <3> QED BY <1>2, <3>1, <3>2, Zenon
  <2>3. CASE CommitDelete(p)
    <3>1. rows' = [site |-> FALSE, others |-> rows.others /\ Head(proc[p].held) \notin enforcing]
      BY <2>3 DEF CommitDelete
    <3>2. (rows.others /\ Head(proc[p].held) \notin enforcing) \in BOOLEAN
      OBVIOUS
    <3> QED BY <3>1, <3>2, Zenon
  <2> QED BY <2>1, <2>2, <2>3
<1> QED BY <1>1, <1>3, ReleaseStep

-----------------------------------------------------------------------------
(* The theorems *)

LEMMA Initially == Init => IInv
<1> SUFFICES ASSUME Init PROVE IInv
  OBVIOUS
<1>1. FirstConn \in Conns
  BY PoolAssumption DEF FirstConn
<1>2. <<FirstConn>> \in Seq(Conns) /\ ToSet(<<FirstConn>>) = {FirstConn}
      /\ IsInjective(<<FirstConn>>)
  BY <1>1, Single
<1>3. idle \in Calls /\ Holding(idle) /\ ToSet(idle.held) = {}
  BY Nothing DEF idle, Calls, Holding
<1>4. \A p \in Procs : proc[p] = idle
  BY DEF Init
<1>5. TypeOK
  BY <1>1, <1>2, <1>3 DEF Init, TypeOK
<1>6. \A p \in Procs : Held(p) = {}
  BY <1>3, <1>4 DEF Held
<1>7. ConnectionsAccounted
  BY <1>2, <1>6 DEF Init, ConnectionsAccounted
<1> QED BY <1>3, <1>4, <1>5, <1>7 DEF IInv

LEMMA Stutters == IInv /\ UNCHANGED vars => IInv'
<1> SUFFICES ASSUME IInv, UNCHANGED vars PROVE IInv'
  OBVIOUS
<1> USE DEF vars, pool
<1>1. TypeOK'
  BY DEF IInv, TypeOK, Calls
<1>2. \A p \in Procs : Held(p)' = Held(p)
  BY DEF Held, ToSet
<1>3. ToSet(free)' = ToSet(free) /\ IsInjective(free)' = IsInjective(free)
  BY DEF ToSet, IsInjective
<1>4. ConnectionsAccounted'
  BY <1>2, <1>3 DEF IInv, ConnectionsAccounted, ToSet, IsInjective
<1>5. \A p \in Procs : Holding(proc[p])'
  BY DEF IInv, Holding, IsInjective
<1> QED BY <1>1, <1>4, <1>5 DEF IInv

LEMMA Step == IInv /\ [Next]_vars => IInv'
<1> SUFFICES ASSUME IInv, Next PROVE IInv'
  BY Stutters
<1>1. PICK p \in Procs :
        \/ \E op \in Readers \cup Writers : Begin(p, op)
        \/ Lock(p) \/ Acquire(p) \/ NextSite(p) \/ Finish(p) \/ Cancel(p)
  BY DEF Next
<1> QED BY <1>1, BeginStep, LockStep, AcquireStep, NextSiteStep, EndGetSiteStep,
        CommitUpdateStep, ReleasingSteps DEF Finish

LEMMA Invariant == Spec => []IInv
BY Initially, Step, PTL DEF Spec

LEMMA WaitersAreLists == IInv => OnlyListsBlock
<1> SUFFICES ASSUME IInv, NEW p \in Procs, proc[p].held # << >>, proc[p].step = "acquire"
             PROVE  proc[p].op = "list"
  BY DEF OnlyListsBlock
<1> QED BY DEF IInv, Holding

-----------------------------------------------------------------------------
(* Nobody waits for ever on the others *)

\* If nobody can go on, the pool is exhausted and everyone waits for a connection or
\* for the mutex, whose holder waits for a connection.
LEMMA StuckExhausts ==
  ASSUME IInv, NEW p \in Procs, proc[p] # idle, \A q \in Procs : ~ CanGoOn(q)
  PROVE  /\ free = << >> /\ opened = Conns
         /\ \A q \in Procs : proc[q].step \in {"idle", "lock", "acquire"}
<1>1. \A q \in Procs : proc[q].step \in {"idle", "lock", "acquire"}
  BY DEF CanGoOn, IInv, TypeOK, Calls
<1>2. proc[p].step # "idle"
  BY DEF IInv, Holding
<1>3. \E q \in Procs : proc[q].step = "acquire"
  <2>1. CASE proc[p].step = "acquire"
    BY <2>1
  <2>2. CASE proc[p].step = "lock"
    <3>1. writeMu \in Procs /\ proc[writeMu].step \in {"acquire", "using"}
      BY <2>2 DEF CanGoOn, IInv, TypeOK, ConnectionsAccounted
    <3> QED BY <1>1, <3>1
  <2> QED BY <1>1, <1>2, <2>1, <2>2
<1> QED BY <1>1, <1>3 DEF CanGoOn

\* Then every connection is held by a list that waits for another, and by one that
\* holds no other.
LEMMA ListsHoldAll ==
  ASSUME IInv, free = << >>, opened = Conns,
         \A q \in Procs : proc[q].step \in {"idle", "lock", "acquire"}
  PROVE  /\ \A c \in Conns : \E q \in Procs : c \in Held(q)
         /\ \A q \in Procs : proc[q].held # << >> =>
              proc[q].op = "list" /\ \E c \in Conns : Held(q) = {c}
<1>1. ASSUME NEW c \in Conns PROVE \E q \in Procs : c \in Held(q)
  BY Nothing DEF IInv, ConnectionsAccounted
<1>2. ASSUME NEW q \in Procs, proc[q].held # << >>
      PROVE  proc[q].op = "list" /\ \E c \in Conns : Held(q) = {c}
  <2>1. proc[q].op = "list" /\ proc[q].held \in Seq(Conns) /\ Len(proc[q].held) = 1
    BY <1>2, Facts DEF Holding
  <2> DEFINE held == proc[q].held
  <2> HIDE DEF held
  <2>2. held \in Seq(Conns) /\ Len(held) = 1
    BY <2>1 DEF held
  <2>3. held = <<held[1]>> /\ held[1] \in Conns
    BY <2>2
  <2>4. ToSet(held) = {held[1]}
    BY <2>3, Single
  <2> QED BY <2>1, <2>3, <2>4 DEF Held, held
<1> QED BY <1>1, <1>2

LEMMA StuckLeavesNoRoom ==
  ASSUME IInv, NEW p \in Procs, proc[p] # idle, \A q \in Procs : ~ CanGoOn(q)
  PROVE  ~ RoomLeft
<1> DEFINE lists == {q \in Procs : proc[q].op = "list" /\ proc[q].held # << >>}
           holder == [c \in Conns |-> CHOOSE q \in Procs : c \in Held(q)]
<1>1. /\ \A c \in Conns : \E q \in Procs : c \in Held(q)
      /\ \A q \in Procs : proc[q].held # << >> =>
           proc[q].op = "list" /\ \E c \in Conns : Held(q) = {c}
  BY StuckExhausts, ListsHoldAll
<1>2. \A c \in Conns : holder[c] \in Procs /\ c \in Held(holder[c])
  BY <1>1
<1> HIDE DEF holder
<1>3. \A c \in Conns : holder[c] \in lists /\ Held(holder[c]) = {c}
  <2>1. \A q \in Procs : Held(q) # {} => proc[q].held # << >>
    BY Nothing DEF Held
  <2> QED BY <1>1, <1>2, <2>1
<1>4. \A q \in lists : \E c \in Conns : holder[c] = q
  BY <1>1, <1>2 DEF IInv, ConnectionsAccounted
<1>5. holder \in [Conns -> lists]
  BY <1>3 DEF holder
<1> HIDE DEF lists
<1>6. holder \in Injection(Conns, lists) /\ holder \in Surjection(Conns, lists)
  <2>1. \A c, d \in Conns : holder[c] = holder[d] => c = d
    BY <1>3
  <2> QED BY <1>4, <1>5, <2>1 DEF Injection, Surjection, IsInjective
<1>7. IsFiniteSet(lists) /\ Cardinality(lists) = Cardinality(Conns)
  BY <1>6, FS_Surjection, PoolAssumption
<1>8. Cardinality(Conns) \in Nat
  BY PoolAssumption, FS_CardinalityType
<1> QED BY <1>7, <1>8 DEF RoomLeft, lists

\* No path through the store loses or shares a connection, or leaves the mutex locked,
\* for every size of the pool and every number of goroutines.
THEOREM PoolIsAccounted == Spec => []ConnectionsAccounted
<1>1. IInv => ConnectionsAccounted
  BY DEF IInv
<1> QED BY <1>1, Invariant, PTL

\* Whoever holds a connection while it waits for another is in ListSites.
THEOREM HoldAndWaitIsListing == Spec => []OnlyListsBlock
BY Invariant, WaitersAreLists, PTL

\* While fewer lists hold a connection than the pool has, some operation under way can go
\* on: no deadlock over the pool and writeMu but by ListSites, for every number of
\* connections, even a single one, and of goroutines (store.go: SetMaxOpenConns).
THEOREM NoDeadlockWithRoom == Spec => []SomebodyGoesOn
<1>1. IInv => SomebodyGoesOn
  BY StuckLeavesNoRoom DEF SomebodyGoesOn
<1> QED BY <1>1, Invariant, PTL

=============================================================================
