------------------------------ MODULE CtxInbox ------------------------------
(***************************************************************************)
(* The queue of a ctx, for the ctxs to which the order of their messages   *)
(* matters: a sequence, in the order in which the messages were pushed.    *)
(* The queue does not keep it.  MQPush pushes each message with a          *)
(* ProducerToken of its own and MQPop looks for one with a ConsumerToken   *)
(* of its own, and the order is that of one token only: whichever message  *)
(* is in the queue may be the next.                                        *)
(***************************************************************************)
EXTENDS Naturals, Sequences

(* The k-th message is taken, the others stay in order. *)
Without(q, k) == [i \in 1 .. Len(q) - 1 |-> IF i < k THEN q[i] ELSE q[i + 1]]

=============================================================================
