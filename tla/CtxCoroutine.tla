---------------------------- MODULE CtxCoroutine ----------------------------
(***************************************************************************)
(* The coroutines of the frame (coroutine_ctx.cpp).  A coroutine runs in   *)
(* the handlers of ctxs: to go to another ctx it yields, and whoever       *)
(* resumed it puts it, as a message, into the queue of that ctx, whose     *)
(* worker resumes it.  To wait for a reply it puts itself into a list of   *)
(* the ctx it is in and yields to nobody; a handler of that ctx resumes it *)
(* from the list, with success or failure, inside itself.                  *)
(*                                                                         *)
(* Handlers of a ctx run one at a time (CtxScheduler), so what runs in one *)
(* is a stack: a message or a timer at the bottom, above it the coroutines *)
(* that were created or resumed by what is below.                          *)
(***************************************************************************)
EXTENDS Naturals, Sequences, FiniteSets

CONSTANTS
  Ctx,
  Outside,   \* a thread that runs no handlers, of the network or at start-up
  Corutine,
  MaxYield,  \* bound: how often a coroutine yields
  None       \* the ctx id 0, and a null pointer

ASSUME CoroutineAssumption ==
  /\ Outside \notin Ctx
  /\ None \notin Ctx \cup Corutine
  /\ MaxYield \in Nat

VARIABLES
  life,      \* of a ctx
  queue,     \* messages with a coroutine in the queue of a ctx
  waiting,   \* the coroutines in the lists of a ctx
  stack,     \* what runs in the handlers of a ctx, and in the thread outside
  current,   \* m_pCurrentCtx
  yields,
  begun,
  done,
  \* auxiliary
  lost,      \* coroutines that nobody will resume any more
  lastWord   \* how a coroutine was resumed last

vars == <<life, queue, waiting, stack, current, yields, begun, done, lost, lastWord>>

Thread == Ctx \cup {Outside}

(* A coroutine runs, or it has yielded to the ctx next and Resume returned, *)
(* or it is to be dispatched to next, or the reference to next was found.  *)
(* A frame without a coroutine is the message or timer of a handler.       *)
Frame == [co : Corutine \cup {None}, at : {"run", "suspend", "dispatch", "push"},
          next : Ctx \cup {None}]

TypeOK ==
  /\ life \in [Ctx -> {"live", "released", "gone"}]
  /\ queue \in [Ctx -> SUBSET Corutine]
  /\ waiting \in [Ctx -> SUBSET Corutine]
  /\ stack \in [Thread -> Seq(Frame)]
  /\ current \in [Corutine -> Ctx \cup {None}]
  /\ yields \in [Corutine -> 0..MaxYield]
  /\ begun \subseteq Corutine /\ done \subseteq begun /\ lost \subseteq begun
  /\ lastWord \in [Corutine -> {"create", "success", "fail"}]

Init ==
  /\ life = [c \in Ctx |-> "live"]
  /\ queue = [c \in Ctx |-> {}]
  /\ waiting = [c \in Ctx |-> {}]
  /\ stack = [t \in Thread |-> <<>>]
  /\ current = [r \in Corutine |-> None]
  /\ yields = [r \in Corutine |-> 0]
  /\ begun = {} /\ done = {} /\ lost = {}
  /\ lastWord = [r \in Corutine |-> "create"]

(***************************************************************************)
(* The stack of a thread.                                                  *)
(***************************************************************************)
Top(t) == stack[t][Len(stack[t])]
Runs(t, at) == stack[t] # <<>> /\ Top(t).at = at

Running(r) == [co |-> r, at |-> "run", next |-> None]

Enter(t, r) == stack' = [stack EXCEPT ![t] = Append(@, Running(r))]
Leave(t)    == stack' = [stack EXCEPT ![t] = SubSeq(@, 1, Len(@) - 1)]
Become(t, frame) == stack' = [stack EXCEPT ![t] = [@ EXCEPT ![Len(stack[t])] = frame]]

(***************************************************************************)
(* What begins and ends.                                                   *)
(***************************************************************************)
(* Ctx_CreateCoroutine runs the coroutine at once, wherever it is called,  *)
(* and in no ctx, unless the coroutine begins with saying that it is in    *)
(* the one it was created in (ctx_redis.cpp:623).                          *)
CreateCoroutine(t, r) ==
  /\ r \notin begun
  /\ IF t = Outside THEN stack[t] = <<>> ELSE Runs(t, "run")
  /\ begun' = begun \cup {r}
  /\ \E c \in {None} \cup ({t} \cap Ctx) : current' = [current EXCEPT ![r] = c]
  /\ Enter(t, r)
  /\ UNCHANGED <<life, queue, waiting, yields, done, lost, lastWord>>

(* DispatchMsg of a message with a coroutine: Ctx_ResumeCoroutine. *)
DispatchMsg(c, r) ==
  /\ life[c] # "gone"
  /\ stack[c] = <<>>
  /\ r \in queue[c]
  /\ queue' = [queue EXCEPT ![c] = @ \ {r}]
  /\ current' = [current EXCEPT ![r] = c]
  /\ lastWord' = [lastWord EXCEPT ![r] = "success"]
  /\ Enter(c, r)
  /\ UNCHANGED <<life, waiting, yields, begun, done, lost>>

(* A timer, or another message, as long as somebody waits who may be       *)
(* resumed.                                                                *)
DispatchOther(c) ==
  /\ life[c] # "gone"
  /\ stack[c] = <<>>
  /\ waiting[c] # {}
  /\ Enter(c, None)
  /\ UNCHANGED <<life, queue, waiting, current, yields, begun, done, lost, lastWord>>

OtherEnds(c) ==
  /\ Runs(c, "run") /\ Top(c).co = None
  /\ Leave(c)
  /\ UNCHANGED <<life, queue, waiting, current, yields, begun, done, lost, lastWord>>

(* What runs in the ctx resumes one that waits there: Ctx_ResumeCoroutine, *)
(* Ctx_ResumeCoroutineNormal.                                              *)
ResumeCoroutine(c, r) ==
  /\ Runs(c, "run")
  /\ r \in waiting[c]
  /\ waiting' = [waiting EXCEPT ![c] = @ \ {r}]
  /\ current' = [current EXCEPT ![r] = c]
  /\ lastWord' = [lastWord EXCEPT ![r] = "success"]
  /\ Enter(c, r)
  /\ UNCHANGED <<life, queue, yields, begun, done, lost>>

(* Ctx_ResumeCoroutine_Fail: it runs on in no ctx. *)
ResumeCoroutineFail(c, r) ==
  /\ Runs(c, "run")
  /\ r \in waiting[c]
  /\ waiting' = [waiting EXCEPT ![c] = @ \ {r}]
  /\ lastWord' = [lastWord EXCEPT ![r] = "fail"]
  /\ Enter(c, r)
  /\ UNCHANGED <<life, queue, current, yields, begun, done, lost>>

FinishFunc(t) ==
  /\ Runs(t, "run") /\ Top(t).co # None
  /\ done' = done \cup {Top(t).co}
  /\ Leave(t)
  /\ UNCHANGED <<life, queue, waiting, current, yields, begun, lost, lastWord>>

(***************************************************************************)
(* Yield.                                                                  *)
(***************************************************************************)
Yields(t) ==
  /\ Runs(t, "run") /\ Top(t).co # None
  /\ yields[Top(t).co] < MaxYield
  /\ yields' = [yields EXCEPT ![Top(t).co] = @ + 1]

(* Ctx_YieldCoroutine to another ctx than the one it is in, which is       *)
(* nothing to do.  Ctx_ResumeCoroutine_Fail does not look at what Resume   *)
(* returned: who yields after a failure stays where it is.                 *)
YieldCoroutine(t, c) ==
  LET r == Top(t).co IN
  /\ Yields(t)
  /\ c # current[r]
  /\ IF lastWord[r] = "fail"
     THEN lost' = lost \cup {r} /\ Leave(t)
     ELSE Become(t, [co |-> r, at |-> "suspend", next |-> c]) /\ UNCHANGED lost
  /\ UNCHANGED <<life, queue, waiting, current, begun, done, lastWord>>

(* A request puts the coroutine into a list of the ctx it was told it is   *)
(* in, and yields to nobody.                                               *)
YieldToNobody(c) ==
  LET r == Top(c).co IN
  /\ Yields(c)
  /\ current[r] = c
  /\ waiting' = [waiting EXCEPT ![c] = @ \cup {r}]
  /\ Become(c, [co |-> r, at |-> "suspend", next |-> None])
  /\ UNCHANGED <<life, queue, current, begun, done, lost, lastWord>>

(* Mutated: the coroutine is pushed before the ctx it leaves is cleared. *)
ResumeReturnsLate(t) ==
  LET r == Top(t).co  c == Top(t).next IN
  /\ Runs(t, "suspend")
  /\ IF c # None /\ life[c] # "gone"
     THEN /\ queue' = [queue EXCEPT ![c] = @ \cup {r}]
          /\ Become(t, [co |-> r, at |-> "suspend", next |-> None])
          /\ UNCHANGED current
     ELSE /\ IF lastWord[r] = "create" THEN UNCHANGED current
                                       ELSE current' = [current EXCEPT ![r] = None]
          /\ IF c = None THEN Leave(t) ELSE Become(t, [Top(t) EXCEPT !.at = "dispatch"])
          /\ UNCHANGED queue
  /\ UNCHANGED <<life, waiting, yields, begun, done, lost, lastWord>>

(* Resume has returned CoroutineState_Suspend.  Ctx_CreateCoroutine, whose *)
(* coroutine was not resumed yet, leaves the ctx as it is.                 *)
ResumeReturns(t) ==
  LET r == Top(t).co IN
  /\ Runs(t, "suspend")
  /\ IF lastWord[r] = "create" THEN UNCHANGED current
                              ELSE current' = [current EXCEPT ![r] = None]
  /\ IF Top(t).next = None THEN Leave(t)
                           ELSE Become(t, [Top(t) EXCEPT !.at = "dispatch"])
  /\ UNCHANGED <<life, queue, waiting, yields, begun, done, lost, lastWord>>

(* Mutated: when the ctx is not there the coroutine is left alone. *)
DispathCoroutineSilent(t) ==
  /\ Runs(t, "dispatch")
  /\ IF life[Top(t).next] = "gone" THEN Leave(t)
                                   ELSE Become(t, [Top(t) EXCEPT !.at = "push"])
  /\ UNCHANGED <<life, queue, waiting, current, yields, begun, done, lost, lastWord>>

(* Ctx_DispathCoroutine looks the ctx up.  When it is not there the        *)
(* coroutine fails, in the thread that it meant to leave.                  *)
DispathCoroutine(t) ==
  LET r == Top(t).co IN
  /\ Runs(t, "dispatch")
  /\ IF life[Top(t).next] = "gone"
     THEN Become(t, Running(r)) /\ lastWord' = [lastWord EXCEPT ![r] = "fail"]
     ELSE Become(t, [Top(t) EXCEPT !.at = "push"]) /\ UNCHANGED lastWord
  /\ UNCHANGED <<life, queue, waiting, current, yields, begun, done, lost>>

(* Mutated: after the push the coroutine is resumed with a failure too. *)
PushMessageFail(t) ==
  LET r == Top(t).co  c == Top(t).next IN
  /\ Runs(t, "push")
  /\ queue' = [queue EXCEPT ![c] = @ \cup {r}]
  /\ lastWord' = [lastWord EXCEPT ![r] = "fail"]
  /\ Become(t, Running(r))
  /\ UNCHANGED <<life, waiting, current, yields, begun, done, lost>>

(* The reference keeps the ctx alive, but not registered: then nobody      *)
(* takes the message.                                                      *)
PushMessage(t) ==
  LET r == Top(t).co  c == Top(t).next IN
  /\ Runs(t, "push")
  /\ IF life[c] = "gone"
     THEN lost' = lost \cup {r} /\ UNCHANGED queue
     ELSE queue' = [queue EXCEPT ![c] = @ \cup {r}] /\ UNCHANGED lost
  /\ Leave(t)
  /\ UNCHANGED <<life, waiting, current, yields, begun, done, lastWord>>

(***************************************************************************)
(* The end of a ctx.                                                       *)
(***************************************************************************)
ReleaseCtx(c) ==
  /\ life[c] = "live"
  /\ life' = [life EXCEPT ![c] = "released"]
  /\ UNCHANGED <<queue, waiting, stack, current, yields, begun, done, lost, lastWord>>

(* DispathCtxMsg finds the flag, gives the coroutines in the queue back to *)
(* the pool and unregisters the ctx; those in its lists go with it.        *)
UnRegister(c) ==
  /\ life[c] = "released"
  /\ stack[c] = <<>>
  /\ life' = [life EXCEPT ![c] = "gone"]
  /\ lost' = lost \cup queue[c] \cup waiting[c]
  /\ queue' = [queue EXCEPT ![c] = {}]
  /\ waiting' = [waiting EXCEPT ![c] = {}]
  /\ UNCHANGED <<stack, current, yields, begun, done, lastWord>>

(***************************************************************************)
(* The specification.                                                      *)
(***************************************************************************)
Resumes(c) == \E r \in Corutine : ResumeCoroutine(c, r) \/ ResumeCoroutineFail(c, r)

Dispatches(c) == (\E r \in Corutine : DispatchMsg(c, r)) \/ UnRegister(c)

(* What runs in a thread goes on. *)
ThreadStep(t) ==
  \/ FinishFunc(t) \/ ResumeReturns(t) \/ DispathCoroutine(t) \/ PushMessage(t)
  \/ \E c \in Ctx : YieldCoroutine(t, c)
  \/ t \in Ctx /\ (OtherEnds(t) \/ YieldToNobody(t))

Next ==
  \/ \E t \in Thread : ThreadStep(t) \/ \E r \in Corutine : CreateCoroutine(t, r)
  \/ \E c \in Ctx : Dispatches(c) \/ DispatchOther(c) \/ Resumes(c) \/ ReleaseCtx(c)

Spec == Init /\ [][Next]_vars

(* A thread goes on with what it runs, the messages of a ctx are           *)
(* dispatched (Delivered of CtxScheduler), and timers keep coming, by      *)
(* which the clients resume everyone in their lists in the end.  Since     *)
(* coroutines yield so often and no more, it is enough to say this of some *)
(* thread or ctx, which is weaker than to say it of each.                  *)
Fairness ==
  /\ WF_vars(\E t \in Thread : ThreadStep(t))
  /\ SF_vars(\E c \in Ctx : Dispatches(c))
  /\ SF_vars(\E c \in Ctx : DispatchOther(c))
  /\ SF_vars(\E c \in Ctx : Resumes(c))

FairSpec == Spec /\ Fairness

(***************************************************************************)
(* Properties.                                                             *)
(***************************************************************************)
(* Where somebody may come from to resume a coroutine: the queue or a list *)
(* of a ctx, or a frame of a thread, unless it has just gone to a list.    *)
Slots(t) == {<<t, i>> : i \in DOMAIN stack[t]}
Held(r, f) ==
  LET frame == stack[f[1]][f[2]] IN
  frame.co = r /\ ~(frame.at = "suspend" /\ frame.next = None)

Places(r) ==
  Cardinality({c \in Ctx : r \in queue[c]}) + Cardinality({c \in Ctx : r \in waiting[c]})
    + Cardinality({f \in UNION {Slots(t) : t \in Thread} : Held(r, f)})

(* A coroutine that was begun is in one place only, so nobody resumes what *)
(* runs, and nobody twice, and until it has ended it is in one, so that    *)
(* somebody will resume it.  The exceptions are those the comment of       *)
(* Ctx_ExeCoroutine warns of (coroutine_ctx.h:233), who yield after a      *)
(* failure, and those a released ctx takes with it.                        *)
InOnePlace ==
  \A r \in Corutine :
    /\ Places(r) = IF r \in begun \ (done \cup lost) THEN 1 ELSE 0
    /\ r \in lost => lastWord[r] = "fail" \/ \E c \in Ctx : life[c] = "gone"

(* After a yield that succeeded the code takes GetCurrentCtx() for the ctx *)
(* it asked for and uses it without a lock (coroutine_ctx.cpp:197): it is  *)
(* not null, and what runs there runs in a handler of that ctx.  After a   *)
(* failure, or at the beginning, it is that ctx or null, and never one the *)
(* coroutine has left.                                                     *)
InCurrentCtx ==
  \A t \in Thread : \A i \in DOMAIN stack[t] :
    LET frame == stack[t][i] IN
    frame.co # None /\ frame.at = "run" =>
      \/ current[frame.co] = t
      \/ current[frame.co] = None /\ lastWord[frame.co] # "success"

(* Every coroutine ends, or is one of those that were lost.  Each begins   *)
(* once, so at some time none is under way any more.                       *)
NoneUnderWay  == begun = done \cup lost
CoroutinesEnd == <>[]NoneUnderWay

=============================================================================
