----------------------------- MODULE MCMapCache -----------------------------
(***************************************************************************)
(* A small instance of MapAnswers for TLC: a Site with two map variants,    *)
(* whose data change, beside one that takes its share of the bytes.         *)
(***************************************************************************)
EXTENDS MapAnswers, TLC

CONSTANTS s1, s2, k1, k2, k3

MCSiteOf == (k1 :> s1) @@ (k2 :> s1) @@ (k3 :> s2)
MCMaxVersion == (s1 :> 2) @@ (s2 :> 0)
MCSymmetry == Permutations(Clients) \cup Permutations(Handlers) \cup Permutations({k1, k2})

=============================================================================
