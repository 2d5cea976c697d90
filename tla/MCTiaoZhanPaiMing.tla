------------------------- MODULE MCTiaoZhanPaiMing -------------------------
(***************************************************************************)
(* Instances of TiaoZhanPaiMing for TLC.                                   *)
(***************************************************************************)
EXTENDS TiaoZhanPaiMing, TLC

CONSTANTS k1, k2, f1

(* Each fight has a player of its own, or k1 has all of them. *)
OneFightEach == [f \in Fight |-> IF f = f1 THEN k1 ELSE k2]
AllFightsOfOne == [f \in Fight |-> k1]

=============================================================================
