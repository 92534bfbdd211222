----------------------------- MODULE MCLifecycle -----------------------------
(***************************************************************************)
(* Small instances of Lifecycle for TLC.  Every release brings a new        *)
(* schema.                                                                  *)
(***************************************************************************)
EXTENDS Lifecycle, TLC

MCSchemaOf == [r \in Releases |-> r]

=============================================================================
