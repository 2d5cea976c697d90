----------------------------- MODULE CtxMailbox -----------------------------
(***************************************************************************)
(* What a ctx promises to those who send it messages: a mailbox, of which  *)
(* one message at a time is handled, each at most once, until the ctx is   *)
(* closed and what is left may be discarded.  Threads, counters and        *)
(* managers do not appear: CtxScheduler implements this.                   *)
(***************************************************************************)
CONSTANTS Ctx, Msg

VARIABLES
  mailbox,   \* the messages waiting
  handling,  \* the message being handled, an empty set or a singleton
  closed     \* ReleaseCtx was called

vars == <<mailbox, handling, closed>>

Init ==
  /\ mailbox = [c \in Ctx |-> {}]
  /\ handling = [c \in Ctx |-> {}]
  /\ closed = [c \in Ctx |-> FALSE]

(* A message is in one place only. *)
Fresh(m) == \A c \in Ctx : m \notin mailbox[c] \cup handling[c]

Post(c, m) ==
  /\ Fresh(m)
  /\ mailbox' = [mailbox EXCEPT ![c] = @ \cup {m}]
  /\ UNCHANGED <<handling, closed>>

Begin(c, m) ==
  /\ handling[c] = {}
  /\ m \in mailbox[c]
  /\ mailbox' = [mailbox EXCEPT ![c] = @ \ {m}]
  /\ handling' = [handling EXCEPT ![c] = {m}]
  /\ UNCHANGED closed

End(c, m) ==
  /\ handling[c] = {m}
  /\ handling' = [handling EXCEPT ![c] = {}]
  /\ UNCHANGED <<mailbox, closed>>

Close(c) ==
  /\ closed' = [closed EXCEPT ![c] = TRUE]
  /\ UNCHANGED <<mailbox, handling>>

Discard(c, m) ==
  /\ closed[c]
  /\ m \in mailbox[c]
  /\ mailbox' = [mailbox EXCEPT ![c] = @ \ {m}]
  /\ UNCHANGED <<handling, closed>>

Next ==
  \E c \in Ctx :
    \/ Close(c)
    \/ \E m \in Msg : Post(c, m) \/ Begin(c, m) \/ End(c, m) \/ Discard(c, m)

Spec == Init /\ [][Next]_vars

=============================================================================
