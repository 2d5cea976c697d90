------------------------------- MODULE MCFrame -------------------------------
(***************************************************************************)
(* The frame under its own load, for TLC: a behaviour is one of            *)
(* CtxScheduler, which brings messages to ctxs, of CtxCoroutine, which is  *)
(* what the messages do, or of FrameFilter, through which comes what       *)
(* begins them, and part says which.  Coroutines and filter stay at their  *)
(* beginning in the other parts, so their properties are those of their    *)
(* modules; the scheduler has no state there.                              *)
(***************************************************************************)
EXTENDS CtxCoroutine, FrameFilter

(* The scheduler has one ctx, two workers, two clients and two messages. *)
CONSTANTS q1, w1, w2, p1, p2, m1, m2, i1, Global

VARIABLES
  part,
  owner, id, inited, released, msgs, addTimes, inMgr, event, cpc, target, cmsg,
  wpc, servicing, hand, pctx, draining, seen, packet, wmsg, nextQ

queuesOnly ==
  <<owner, id, inited, released, msgs, addTimes, inMgr, event, cpc, target, cmsg,
    wpc, servicing, hand, pctx, draining, seen, packet, wmsg, nextQ>>
all == <<part, vars, queuesOnly, filterVars>>

Scheduler == INSTANCE CtxScheduler WITH
  Ctx <- {q1}, Worker <- {w1, w2}, Client <- {p1, p2}, Msg <- {m1, m2}, Id <- {i1},
  Ops <- {"push"}, Home <- [q \in {q1} |-> Global], BootId <- [q \in {q1} |-> i1],
  NoState <- {}, PacketNumber <- 1, MaxAddTimes <- 2

Queues == part = "queues"
Frames == part = "coroutines"
Packets == part = "bytes"

NoQueues ==
  /\ owner = 0 /\ id = 0 /\ inited = 0 /\ released = 0
  /\ msgs = 0 /\ addTimes = 0 /\ inMgr = 0 /\ event = 0
  /\ cpc = 0 /\ target = 0 /\ cmsg = 0
  /\ wpc = 0 /\ servicing = 0 /\ hand = 0 /\ pctx = 0 /\ draining = 0
  /\ seen = 0 /\ packet = 0 /\ wmsg = 0 /\ nextQ = 0
FrameInit ==
  /\ Init /\ FilterInit
  /\ \/ Frames /\ NoQueues
     \/ Queues /\ Scheduler!Init
     \/ Packets /\ NoQueues

InFrames(A)  == Frames /\ A /\ UNCHANGED <<part, queuesOnly, filterVars>>
InQueues(A)  == Queues /\ A /\ UNCHANGED <<part, vars, filterVars>>
InPackets(A) == Packets /\ A /\ UNCHANGED <<part, vars, queuesOnly>>

FrameNext == InFrames(Next) \/ InQueues(Scheduler!Next) \/ InPackets(FilterNext)

Threads  == \E t \in Thread : ThreadStep(t)
Messages == \E c \in Ctx : Dispatches(c)

(* The fairness of the first two: a behaviour stays in its part.           *)
FrameFairness ==
  /\ WF_all(InFrames(Threads) \/ InQueues(Scheduler!InitQueue(q1)))
  /\ \A p \in {p1, p2} : WF_all(InQueues(Scheduler!ClientStep(p)))
  /\ \A w \in {w1, w2} : WF_all(InQueues(Scheduler!WorkerStep(w)))
  /\ SF_all(\/ InFrames(Messages)
            \/ InQueues(\E w \in {w1, w2} : Scheduler!PopQueue(w, q1)))
  /\ \A m \in {m1, m2} :
       SF_all(InQueues(\E w \in {w1, w2} : Scheduler!MQPopMessage(w, m)))
  /\ SF_all(InFrames(\E c \in Ctx : DispatchOther(c)))
  /\ SF_all(InFrames(\E c \in Ctx : Resumes(c)))

FrameSpec == FrameInit /\ [][FrameNext]_all /\ FrameFairness

(* The types of the three modules. *)
FrameTypeOK ==
  /\ TypeOK /\ FilterTypeOK
  /\ Queues => Scheduler!TypeOK

(* Delivered of CtxScheduler, for its behaviours: a message that was       *)
(* accepted leaves the queue of a ctx that stays registered.               *)
FrameDelivered ==
  \A m \in {m1, m2} :
    (Queues /\ m \in msgs[q1])
      ~> (Queues => m \notin msgs[q1] \/ ~Scheduler!Registered(q1))

=============================================================================
