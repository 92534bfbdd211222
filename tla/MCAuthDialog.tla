---------------------------- MODULE MCAuthDialog ----------------------------
(***************************************************************************)
(* A small instance of AuthDialog for TLC.                                  *)
(***************************************************************************)
EXTENDS AuthDialog, TLC

MCSymmetry == Permutations(Sessions)

=============================================================================
