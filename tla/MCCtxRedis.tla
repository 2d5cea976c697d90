----------------------------- MODULE MCCtxRedis -----------------------------
(***************************************************************************)
(* Instances of CtxRedis for TLC.                                          *)
(***************************************************************************)
EXTENDS CtxRedis, TLC

CONSTANTS r1, r2

(* r1 chains two commands, the others send one. *)
OneChained == [r \in Req |-> IF r = r1 THEN 2 ELSE 1]

=============================================================================
