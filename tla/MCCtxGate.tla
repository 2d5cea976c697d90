----------------------------- MODULE MCCtxGate -----------------------------
(***************************************************************************)
(* Instances of CtxGate for TLC.                                           *)
(***************************************************************************)
EXTENDS CtxGate, TLC

Symmetry ==
  Permutations(Session) \cup Permutations(Ctx) \cup Permutations(Name)
    \cup Permutations(Key \ Reserved)

=============================================================================
