----------------------------- MODULE RemoteCall -----------------------------
(***************************************************************************)
(* What Ctx_ExeCoroutine promises about a ctx of another server: the call  *)
(* is carried out at most once, the caller is given its result only after  *)
(* that, and otherwise is told of a failure, which says nothing about      *)
(* whether the call was, or will be, carried out.                          *)
(***************************************************************************)
CONSTANT Call

VARIABLES
  state,    \* of a call, as its caller sees it
  served    \* how often it was carried out

vars == <<state, served>>

Init ==
  /\ state = [c \in Call |-> "idle"]
  /\ served = [c \in Call |-> 0]

Begin(c) ==
  /\ state[c] = "idle"
  /\ state' = [state EXCEPT ![c] = "open"]
  /\ UNCHANGED served

Serve(c) ==
  /\ state[c] # "idle"
  /\ served[c] = 0
  /\ served' = [served EXCEPT ![c] = 1]
  /\ UNCHANGED state

Succeed(c) ==
  /\ state[c] = "open"
  /\ served[c] = 1
  /\ state' = [state EXCEPT ![c] = "done"]
  /\ UNCHANGED served

(* Any set of open calls, since a connection takes all its calls with it. *)
Fail ==
  \E failed \in (SUBSET Call) \ {{}} :
    /\ \A c \in failed : state[c] \in {"idle", "open"}
    /\ state' = [c \in Call |-> IF c \in failed THEN "failed" ELSE state[c]]
    /\ UNCHANGED served

Next ==
  \/ \E c \in Call : Begin(c) \/ Serve(c) \/ Succeed(c)
  \/ Fail

Spec == Init /\ [][Next]_vars

=============================================================================
