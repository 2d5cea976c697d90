--------------------------- MODULE MCCtxScheduler ---------------------------
(***************************************************************************)
(* Instances of CtxScheduler for TLC.                                      *)
(***************************************************************************)
EXTENDS CtxScheduler, TLC

CONSTANTS c1, c2, i1, i2

(* Every queue in the global manager. *)
AllGlobal == [c \in Ctx |-> Global]

(* Both ctxs exist from the start, or c2 is created while the system runs. *)
BothBooted == [c \in Ctx |-> IF c = c1 THEN i1 ELSE i2]
OneBooted  == [c \in Ctx |-> IF c = c1 THEN i1 ELSE None]

Symmetry == Permutations(Client) \cup Permutations(Msg) \cup Permutations(Worker)

=============================================================================
