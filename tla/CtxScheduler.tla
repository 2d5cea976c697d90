---------------------------- MODULE CtxScheduler ----------------------------
(***************************************************************************)
(* The scheduler of the actor frame: the message queue each ctx owns       *)
(* (ctx_msgqueue.cpp), the managers that hold the queues waiting for a     *)
(* worker (CMQMgr), the worker loop (DispathCtxMsg and ExecThreadOnWork of *)
(* ctx_threadpool.cpp) and the life of a ctx (InitCtx, ReleaseCtx,         *)
(* UnRegister).                                                            *)
(*                                                                         *)
(* One action is one access to shared memory, so every interleaving of the *)
(* atomic operations of the code is a behaviour.  A ctx object and the     *)
(* queue it contains are one value c of Ctx.                               *)
(*                                                                         *)
(* The two lock-free queues come from a library (moodycamel) outside this  *)
(* repository.  Every push of the code uses a fresh ProducerToken and the  *)
(* library orders elements of one token only, so a queue is a set of       *)
(* messages and a manager a bag of queues, and a pop takes any element.    *)
(***************************************************************************)
EXTENDS Naturals

CONSTANTS
  Ctx,           \* ctx objects, the ones created later included
  Worker,        \* threads that run ExecThreadOnWork
  Client,        \* threads inside PushMessageByID, ReleaseCtxByID, FinishFunc
  Msg,           \* messages; one that was handled may be sent again
  Id,            \* handles, values of m_ctxID
  Ops,           \* what clients do: a subset of {"push", "release", "kick"}
  Home,          \* [Ctx -> Manager], the CMQMgr given to InitCtx
  BootId,        \* [Ctx -> Id or None], the ctxs created at start-up
  NoState,       \* ctxs with PacketDealType_NoState
  PacketNumber,  \* threadworkpacketnumber
  MaxAddTimes,   \* bound of m_nAddTimes, 2^32 - 1 in the code
  Global,        \* the manager m_globalMQMgrModule
  None           \* the null pointer, and the handle 0

(* Each worker has a manager of its own beside the global one. *)
Manager == Worker \cup {Global}

ASSUME ConstantsAssumption ==
  /\ Global \notin Worker
  /\ None \notin Ctx \cup Msg \cup Id
  /\ Ops \subseteq {"push", "release", "kick"}
  /\ Home \in [Ctx -> Manager]
  /\ BootId \in [Ctx -> Id \cup {None}]
  /\ \A c, d \in Ctx : BootId[c] = BootId[d] /\ c # d => BootId[c] = None
  /\ NoState \subseteq Ctx
  /\ PacketNumber \in Nat \ {0}
  /\ MaxAddTimes \in Nat \ {0}

VARIABLES
  \* the registry and the ctx objects
  owner,      \* m_mapIDToCtx: the ctx a handle leads to, or None
  id,         \* m_ctxID of a ctx
  inited,     \* whether InitCtxMsgQueue has set m_pMgr
  released,   \* m_bRelease
  \* the queues
  msgs,       \* the messages in the queue of a ctx
  addTimes,   \* m_nAddTimes
  inMgr,      \* how many times the queue is in its manager
  event,      \* m_pEvent of the global manager, an auto-reset event
  \* the clients
  cpc, target, cmsg,
  \* the workers
  wpc,
  servicing,  \* the manager of the current call of DispathCtxMsg
  hand,       \* pQ and pThreadQ: hand[w][m] for the managers Global and w
  pctx,       \* pCtx, the ctx the handle of the queue led to
  draining,   \* in the release branch of DispathCtxMsg
  seen,       \* nDequeueAddTimes of MQPop
  packet,     \* i, the packets dispatched in this turn
  wmsg,       \* the message being dispatched
  nextQ       \* pNextQ

registryVars == <<owner, id, inited, released>>
queueVars    == <<msgs, addTimes, inMgr, event>>
clientVars   == <<cpc, target, cmsg>>
workerVars   == <<wpc, servicing, hand, pctx, draining, seen, packet, wmsg, nextQ>>
vars == <<registryVars, queueVars, clientVars, workerVars>>

ClientPC == {"idle", "enqueue", "release", "kick", "add", "mgr", "signal", "dead"}
WorkerPC == {"take", "find", "read", "dequeue", "cas", "dispatch", "rotate",
             "requeue", "signal", "unregister", "next", "wait", "waiting", "awake",
             "dead"}

TypeOK ==
  /\ owner \in [Id -> Ctx \cup {None}]
  /\ id \in [Ctx -> Id \cup {None}]
  /\ inited \in [Ctx -> BOOLEAN]
  /\ released \in [Ctx -> BOOLEAN]
  /\ msgs \in [Ctx -> SUBSET Msg]
  /\ addTimes \in [Ctx -> 0..MaxAddTimes]
  /\ inMgr \in [Ctx -> Nat]
  /\ event \in BOOLEAN
  /\ cpc \in [Client -> ClientPC]
  /\ target \in [Client -> Ctx \cup {None}]
  /\ cmsg \in [Client -> Msg \cup {None}]
  /\ wpc \in [Worker -> WorkerPC]
  /\ servicing \in [Worker -> Manager]
  /\ hand \in [Worker -> [Manager -> Ctx \cup {None}]]
  /\ pctx \in [Worker -> Ctx \cup {None}]
  /\ draining \in [Worker -> BOOLEAN]
  /\ seen \in [Worker -> 0..MaxAddTimes]
  /\ packet \in [Worker -> 0..PacketNumber - 1]
  /\ wmsg \in [Worker -> Msg \cup {None}]
  /\ nextQ \in [Worker -> Ctx \cup {None}]

Init ==
  /\ owner = [i \in Id |-> IF \E c \in Ctx : BootId[c] = i
                           THEN CHOOSE c \in Ctx : BootId[c] = i
                           ELSE None]
  /\ id = BootId
  /\ inited = [c \in Ctx |-> BootId[c] # None]
  /\ released = [c \in Ctx |-> FALSE]
  /\ msgs = [c \in Ctx |-> {}]
  /\ addTimes = [c \in Ctx |-> 0]
  /\ inMgr = [c \in Ctx |-> 0]
  /\ event = FALSE
  /\ cpc = [p \in Client |-> "idle"]
  /\ target = [p \in Client |-> None]
  /\ cmsg = [p \in Client |-> None]
  /\ wpc = [w \in Worker |-> "take"]
  /\ servicing = [w \in Worker |-> Global]
  /\ hand = [w \in Worker |-> [m \in Manager |-> None]]
  /\ pctx = [w \in Worker |-> None]
  /\ draining = [w \in Worker |-> FALSE]
  /\ seen = [w \in Worker |-> 0]
  /\ packet = [w \in Worker |-> 0]
  /\ wmsg = [w \in Worker |-> None]
  /\ nextQ = [w \in Worker |-> None]

(***************************************************************************)
(* The registry.                                                           *)
(***************************************************************************)
Registered(c) == id[c] # None /\ owner[id[c]] = c

(* The last reference is gone: the map's, the callers' and the workers'.   *)
(* A queue pointer in a manager or in pQ does not count.                   *)
Destroyed(c) ==
  /\ id[c] # None
  /\ ~Registered(c)
  /\ \A p \in Client : target[p] # c
  /\ \A w \in Worker : pctx[w] # c

(* InitCtx publishes the ctx in the map first ...  GetNewHandleID prefers  *)
(* released handles; here it returns any handle that is not in use.        *)
Register(c) ==
  /\ id[c] = None
  /\ \E i \in Id :
       /\ owner[i] = None
       /\ owner' = [owner EXCEPT ![i] = c]
       /\ id' = [id EXCEPT ![c] = i]
  /\ UNCHANGED <<inited, released, queueVars, clientVars, workerVars>>

(* ... and gives its queue the handle and the manager afterwards. *)
InitQueue(c) ==
  /\ id[c] # None
  /\ ~inited[c]
  /\ inited' = [inited EXCEPT ![c] = TRUE]
  /\ UNCHANGED <<owner, id, released, queueVars, clientVars, workerVars>>

(***************************************************************************)
(* The clients.  A worker that pushes from inside a handler is a client    *)
(* whose steps fall between the begin and the end of a dispatch.           *)
(***************************************************************************)
FreeMsg ==
  {m \in Msg : /\ \A c \in Ctx : m \notin msgs[c]
               /\ \A p \in Client : cmsg[p] # m
               /\ \A w \in Worker : wmsg[w] # m}

Goto(p, where) == cpc' = [cpc EXCEPT ![p] = where]

Forget(p) ==
  /\ Goto(p, "idle")
  /\ target' = [target EXCEPT ![p] = None]

(* GetContextByHandleID under the registry's lock; the caller keeps a      *)
(* counted reference until it is done.  A handle without ctx is refused    *)
(* and changes nothing.                                                    *)
Lookup(p, i, where) ==
  /\ cpc[p] = "idle"
  /\ owner[i] # None
  /\ target' = [target EXCEPT ![p] = owner[i]]
  /\ Goto(p, where)

PushMessageByID(p, i, m) ==
  /\ "push" \in Ops
  /\ m \in FreeMsg
  /\ Lookup(p, i, "enqueue")
  /\ cmsg' = [cmsg EXCEPT ![p] = m]
  /\ UNCHANGED <<registryVars, queueVars, workerVars>>

ReleaseCtxByID(p, i) ==
  /\ "release" \in Ops
  /\ Lookup(p, i, "release")
  /\ UNCHANGED <<registryVars, queueVars, cmsg, workerVars>>

(* A finished coroutine wakes the ctxs it kept in m_vtStoreCtx. *)
FinishFunc(p, i) ==
  /\ "kick" \in Ops
  /\ Lookup(p, i, "kick")
  /\ UNCHANGED <<registryVars, queueVars, cmsg, workerVars>>

(* MQPush: the message is visible before it is counted. *)
MQPushEnqueue(p) ==
  /\ cpc[p] = "enqueue"
  /\ msgs' = [msgs EXCEPT ![target[p]] = @ \cup {cmsg[p]}]
  /\ Goto(p, "add")
  /\ UNCHANGED <<registryVars, addTimes, inMgr, event, target, cmsg, workerVars>>

ReleaseCtxMark(p) ==
  /\ cpc[p] = "release"
  /\ released' = [released EXCEPT ![target[p]] = TRUE]
  /\ Goto(p, "add")
  /\ UNCHANGED <<owner, id, inited, queueVars, target, cmsg, workerVars>>

(* Mutated: the queue is forced into the manager without being counted. *)
PushGlobalQueueUncounted(p) ==
  /\ cpc[p] = "kick"
  /\ IF released[target[p]] THEN Forget(p)
                            ELSE Goto(p, "mgr") /\ UNCHANGED target
  /\ UNCHANGED <<registryVars, queueVars, cmsg, workerVars>>

PushGlobalQueue(p) ==
  /\ cpc[p] = "kick"
  /\ IF released[target[p]] THEN Forget(p)
                            ELSE Goto(p, "add") /\ UNCHANGED target
  /\ UNCHANGED <<registryVars, queueVars, cmsg, workerVars>>

(* Mutated: every push hands the queue over, whatever it counted from. *)
FetchAddAlways(p) ==
  /\ cpc[p] = "add"
  /\ addTimes[target[p]] < MaxAddTimes
  /\ addTimes' = [addTimes EXCEPT ![target[p]] = @ + 1]
  /\ cmsg' = [cmsg EXCEPT ![p] = None]
  /\ Goto(p, "mgr")
  /\ UNCHANGED <<registryVars, msgs, inMgr, event, target, workerVars>>

(* fetch_add of MQPush and PushToMQMgr: whoever counts from zero has the   *)
(* duty to hand the queue to its manager.                                  *)
FetchAdd(p) ==
  /\ cpc[p] = "add"
  /\ addTimes[target[p]] < MaxAddTimes
  /\ addTimes' = [addTimes EXCEPT ![target[p]] = @ + 1]
  /\ cmsg' = [cmsg EXCEPT ![p] = None]
  /\ IF addTimes[target[p]] = 0 THEN Goto(p, "mgr") /\ UNCHANGED target
                                ELSE Forget(p)
  /\ UNCHANGED <<registryVars, msgs, inMgr, event, workerVars>>

(* GlobalMQPush; m_pMgr is null while InitQueue has not run. *)
GlobalMQPush(p) ==
  /\ cpc[p] = "mgr"
  /\ inited[target[p]]
  /\ inMgr' = [inMgr EXCEPT ![target[p]] = @ + 1]
  /\ Goto(p, "signal")
  /\ UNCHANGED <<registryVars, msgs, addTimes, event, target, cmsg, workerVars>>

(* m_nWaitThread counts these workers; only the global manager is waited on. *)
Waiters == {w \in Worker : wpc[w] \in {"waiting", "awake"}}

SetEventIfWaited(m) == event' = (event \/ (m = Global /\ Waiters # {}))

Signal(p) ==
  /\ cpc[p] = "signal"
  /\ SetEventIfWaited(Home[target[p]])
  /\ Forget(p)
  /\ UNCHANGED <<registryVars, msgs, addTimes, inMgr, cmsg, workerVars>>

(***************************************************************************)
(* The workers.                                                            *)
(***************************************************************************)
Held(w) == hand[w][servicing[w]]

WGoto(w, where) == wpc' = [wpc EXCEPT ![w] = where]

(* DispathCtxMsg returns q: the worker loop keeps it as pQ or pThreadQ,    *)
(* turns to its own manager when the global one gave nothing, and sleeps   *)
(* when neither did.                                                       *)
Return(w, q) ==
  /\ hand' = [hand EXCEPT ![w][servicing[w]] = q]
  /\ pctx' = [pctx EXCEPT ![w] = None]
  /\ \/ /\ servicing[w] = Global /\ q # None
        /\ WGoto(w, "find")
        /\ UNCHANGED servicing
     \/ /\ servicing[w] = Global /\ q = None
        /\ servicing' = [servicing EXCEPT ![w] = w]
        /\ WGoto(w, IF hand[w][w] = None THEN "take" ELSE "find")
     \/ /\ servicing[w] # Global
        /\ servicing' = [servicing EXCEPT ![w] = Global]
        /\ WGoto(w, IF q = None THEN "wait" ELSE "take")

(* Mutated: the result of try_dequeue is not checked. *)
CanPopUnchecked(m, q) == Home[q] = m

(* GlobalMQPop: any queue of the manager, or nothing when there is none. *)
CanPop(m, q) == inMgr[q] > 0 /\ Home[q] = m
Empty(m) == \A q \in Ctx : ~CanPop(m, q)

(* The pop at the entry of DispathCtxMsg, when pQ is null. *)
TakeQueue(w, q) ==
  /\ wpc[w] = "take"
  /\ CanPop(servicing[w], q)
  /\ inMgr' = [inMgr EXCEPT ![q] = @ - 1]
  /\ hand' = [hand EXCEPT ![w][servicing[w]] = q]
  /\ WGoto(w, "find")
  /\ UNCHANGED <<registryVars, msgs, addTimes, event, clientVars, servicing,
                 pctx, draining, seen, packet, wmsg, nextQ>>

TakeNothing(w) ==
  /\ wpc[w] = "take"
  /\ Empty(servicing[w])
  /\ Return(w, None)
  /\ UNCHANGED <<registryVars, queueVars, clientVars, draining, seen, packet,
                 wmsg, nextQ>>

(* No ctx has the handle of the queue: the queue is dropped as it is. *)
FindNothing(w) ==
  /\ wpc[w] = "find"
  /\ owner[id[Held(w)]] = None
  /\ hand' = [hand EXCEPT ![w][servicing[w]] = None]
  /\ WGoto(w, "next")
  /\ UNCHANGED <<registryVars, queueVars, clientVars, servicing, pctx,
                 draining, seen, packet, wmsg, nextQ>>

(* The ctx is found, and asked once whether it was released. *)
FindCtx(w) ==
  LET c == owner[id[Held(w)]] IN
  /\ wpc[w] = "find"
  /\ c # None
  /\ pctx' = [pctx EXCEPT ![w] = c]
  /\ draining' = [draining EXCEPT ![w] = released[c]]
  /\ WGoto(w, "read")
  /\ UNCHANGED <<registryVars, queueVars, clientVars, servicing, hand, seen,
                 packet, wmsg, nextQ>>

(* MQPop reads the counter, then the queue, then gives the queue up if the *)
(* counter still has the value it read.                                    *)
MQPopRead(w) ==
  /\ wpc[w] = "read"
  /\ seen' = [seen EXCEPT ![w] = addTimes[Held(w)]]
  /\ WGoto(w, "dequeue")
  /\ UNCHANGED <<registryVars, queueVars, clientVars, servicing, hand, pctx,
                 draining, packet, wmsg, nextQ>>

(* Mutated: the message is read and stays in the queue. *)
MQPopMessagePeek(w, m) ==
  /\ wpc[w] = "dequeue"
  /\ m \in msgs[Held(w)]
  /\ IF draining[w]
     THEN WGoto(w, "read") /\ UNCHANGED wmsg
     ELSE WGoto(w, "dispatch") /\ wmsg' = [wmsg EXCEPT ![w] = m]
  /\ seen' = [seen EXCEPT ![w] = 0]
  /\ UNCHANGED <<registryVars, queueVars, clientVars, servicing, hand, pctx,
                 draining, packet, nextQ>>

(* A drained message is logged and freed, a coroutine goes to the pool. *)
MQPopMessage(w, m) ==
  /\ wpc[w] = "dequeue"
  /\ m \in msgs[Held(w)]
  /\ msgs' = [msgs EXCEPT ![Held(w)] = @ \ {m}]
  /\ IF draining[w]
     THEN WGoto(w, "read") /\ UNCHANGED wmsg
     ELSE WGoto(w, "dispatch") /\ wmsg' = [wmsg EXCEPT ![w] = m]
  /\ seen' = [seen EXCEPT ![w] = 0]
  /\ UNCHANGED <<registryVars, addTimes, inMgr, event, clientVars, servicing,
                 hand, pctx, draining, packet, nextQ>>

MQPopEmpty(w) ==
  /\ wpc[w] = "dequeue"
  /\ msgs[Held(w)] = {}
  /\ WGoto(w, "cas")
  /\ UNCHANGED <<registryVars, queueVars, clientVars, servicing, hand, pctx,
                 draining, seen, packet, wmsg, nextQ>>

(* Mutated: the counter is reset by a plain store. *)
MQPopGiveUpBlind(w) ==
  /\ wpc[w] = "cas"
  /\ addTimes' = [addTimes EXCEPT ![Held(w)] = 0]
  /\ hand' = [hand EXCEPT ![w][servicing[w]] = None]
  /\ WGoto(w, IF draining[w] THEN "unregister" ELSE "next")
  /\ seen' = [seen EXCEPT ![w] = 0]
  /\ packet' = [packet EXCEPT ![w] = 0]
  /\ UNCHANGED <<registryVars, msgs, inMgr, event, clientVars, servicing, pctx,
                 draining, wmsg, nextQ>>

(* Mutated: the counter is compared, and not reset. *)
MQPopGiveUpKeepCount(w) ==
  /\ wpc[w] = "cas"
  /\ addTimes[Held(w)] = seen[w]
  /\ hand' = [hand EXCEPT ![w][servicing[w]] = None]
  /\ WGoto(w, IF draining[w] THEN "unregister" ELSE "next")
  /\ seen' = [seen EXCEPT ![w] = 0]
  /\ packet' = [packet EXCEPT ![w] = 0]
  /\ UNCHANGED <<registryVars, queueVars, clientVars, servicing, pctx,
                 draining, wmsg, nextQ>>

(* compare_exchange; it does not fail spuriously on the x86 targets. *)
MQPopGiveUp(w) ==
  /\ wpc[w] = "cas"
  /\ addTimes[Held(w)] = seen[w]
  /\ addTimes' = [addTimes EXCEPT ![Held(w)] = 0]
  /\ hand' = [hand EXCEPT ![w][servicing[w]] = None]
  /\ WGoto(w, IF draining[w] THEN "unregister" ELSE "next")
  /\ seen' = [seen EXCEPT ![w] = 0]
  /\ packet' = [packet EXCEPT ![w] = 0]
  /\ UNCHANGED <<registryVars, msgs, inMgr, event, clientVars, servicing, pctx,
                 draining, wmsg, nextQ>>

MQPopRetry(w) ==
  /\ wpc[w] = "cas"
  /\ addTimes[Held(w)] # seen[w]
  /\ WGoto(w, "read")
  /\ seen' = [seen EXCEPT ![w] = 0]
  /\ UNCHANGED <<registryVars, queueVars, clientVars, servicing, hand, pctx,
                 draining, packet, wmsg, nextQ>>

(* The handler is over; a ctx without state goes on until its queue is     *)
(* empty, the others for PacketNumber messages.                            *)
DispatchMsg(w) ==
  LET again == pctx[w] \in NoState \/ packet[w] + 1 < PacketNumber IN
  /\ wpc[w] = "dispatch"
  /\ wmsg' = [wmsg EXCEPT ![w] = None]
  /\ packet' = [packet EXCEPT ![w] = IF again /\ pctx[w] \notin NoState
                                     THEN @ + 1 ELSE 0]
  /\ WGoto(w, IF again THEN "read" ELSE "rotate")
  /\ UNCHANGED <<registryVars, queueVars, clientVars, servicing, hand, pctx,
                 draining, seen, nextQ>>

(* Packets used up: make room for another queue, or keep this one. *)
RotateTo(w, q) ==
  /\ wpc[w] = "rotate"
  /\ CanPop(servicing[w], q)
  /\ inMgr' = [inMgr EXCEPT ![q] = @ - 1]
  /\ nextQ' = [nextQ EXCEPT ![w] = q]
  /\ WGoto(w, "requeue")
  /\ UNCHANGED <<registryVars, msgs, addTimes, event, clientVars, servicing,
                 hand, pctx, draining, seen, packet, wmsg>>

(* Mutated: the queue is pushed back even when there is no other. *)
RotateKeepPush(w) ==
  /\ wpc[w] = "rotate"
  /\ Empty(servicing[w])
  /\ inMgr' = [inMgr EXCEPT ![Held(w)] = @ + 1]
  /\ Return(w, Held(w))
  /\ UNCHANGED <<registryVars, msgs, addTimes, event, clientVars, draining,
                 seen, packet, wmsg, nextQ>>

RotateKeep(w) ==
  /\ wpc[w] = "rotate"
  /\ Empty(servicing[w])
  /\ Return(w, Held(w))
  /\ UNCHANGED <<registryVars, queueVars, clientVars, draining, seen, packet,
                 wmsg, nextQ>>

Requeue(w) ==
  /\ wpc[w] = "requeue"
  /\ inMgr' = [inMgr EXCEPT ![Held(w)] = @ + 1]
  /\ hand' = [hand EXCEPT ![w][servicing[w]] = nextQ[w]]
  /\ nextQ' = [nextQ EXCEPT ![w] = None]
  /\ WGoto(w, "signal")
  /\ UNCHANGED <<registryVars, msgs, addTimes, event, clientVars, servicing,
                 pctx, draining, seen, packet, wmsg>>

RequeueSignal(w) ==
  /\ wpc[w] = "signal"
  /\ SetEventIfWaited(servicing[w])
  /\ Return(w, Held(w))
  /\ UNCHANGED <<registryVars, msgs, addTimes, inMgr, clientVars, draining,
                 seen, packet, wmsg, nextQ>>

(* The release branch ends by taking the ctx out of the registry. *)
UnRegister(w) ==
  LET i == id[pctx[w]] IN
  /\ wpc[w] = "unregister"
  /\ owner' = [owner EXCEPT ![i] = None]
  /\ draining' = [draining EXCEPT ![w] = FALSE]
  /\ WGoto(w, "next")
  /\ UNCHANGED <<id, inited, released, queueVars, clientVars, servicing, hand,
                 pctx, seen, packet, wmsg, nextQ>>

(* The pop of the early returns of DispathCtxMsg. *)
NextQueue(w, q) ==
  /\ wpc[w] = "next"
  /\ CanPop(servicing[w], q)
  /\ inMgr' = [inMgr EXCEPT ![q] = @ - 1]
  /\ Return(w, q)
  /\ UNCHANGED <<registryVars, msgs, addTimes, event, clientVars, draining,
                 seen, packet, wmsg, nextQ>>

NextNothing(w) ==
  /\ wpc[w] = "next"
  /\ Empty(servicing[w])
  /\ Return(w, None)
  /\ UNCHANGED <<registryVars, queueVars, clientVars, draining, seen, packet,
                 wmsg, nextQ>>

(* WaitForGlobalMQ announces the worker, sleeps until the event or for     *)
(* 1000 ms, and takes the announcement back.                               *)
WaitAnnounce(w) ==
  /\ wpc[w] = "wait"
  /\ WGoto(w, "waiting")
  /\ UNCHANGED <<registryVars, queueVars, clientVars, servicing, hand, pctx,
                 draining, seen, packet, wmsg, nextQ>>

WaitSignalled(w) ==
  /\ wpc[w] = "waiting"
  /\ event
  /\ event' = FALSE
  /\ WGoto(w, "awake")
  /\ UNCHANGED <<registryVars, msgs, addTimes, inMgr, clientVars, servicing,
                 hand, pctx, draining, seen, packet, wmsg, nextQ>>

(* Mutated: the wait has no timeout. *)
WaitTimeoutNever(w) ==
  /\ wpc[w] = "waiting"
  /\ FALSE
  /\ UNCHANGED vars

WaitTimeout(w) ==
  /\ wpc[w] = "waiting"
  /\ WGoto(w, "awake")
  /\ UNCHANGED <<registryVars, queueVars, clientVars, servicing, hand, pctx,
                 draining, seen, packet, wmsg, nextQ>>

WaitLeave(w) ==
  /\ wpc[w] = "awake"
  /\ WGoto(w, "take")
  /\ UNCHANGED <<registryVars, queueVars, clientVars, servicing, hand, pctx,
                 draining, seen, packet, wmsg, nextQ>>

(***************************************************************************)
(* Undefined behaviour: a null manager is called through, or a worker      *)
(* touches the queue of a ctx that is gone.  The process dies, or, for the *)
(* second, the other actions go on with what the memory held last.  Death  *)
(* stops the one thread here; that the others go on only adds behaviours.  *)
(***************************************************************************)
CrashNullMgr(p) ==
  /\ cpc[p] = "mgr"
  /\ ~inited[target[p]]
  /\ Goto(p, "dead")
  /\ UNCHANGED <<registryVars, queueVars, target, cmsg, workerVars>>

CrashDangling(w) ==
  /\ wpc[w] \in {"find", "read", "dequeue", "cas", "requeue"}
  /\ Destroyed(Held(w))
  /\ WGoto(w, "dead")
  /\ UNCHANGED <<registryVars, queueVars, clientVars, servicing, hand, pctx,
                 draining, seen, packet, wmsg, nextQ>>

(***************************************************************************)
(* The specification.                                                      *)
(***************************************************************************)
CtxStep(c) == Register(c) \/ InitQueue(c)

ClientRequest(p) ==
  \E i \in Id :
    \/ \E m \in Msg : PushMessageByID(p, i, m)
    \/ ReleaseCtxByID(p, i)
    \/ FinishFunc(p, i)

ClientStep(p) ==
  \/ MQPushEnqueue(p) \/ ReleaseCtxMark(p) \/ PushGlobalQueue(p)
  \/ FetchAdd(p) \/ GlobalMQPush(p) \/ Signal(p) \/ CrashNullMgr(p)

PopQueue(w, q) == TakeQueue(w, q) \/ RotateTo(w, q) \/ NextQueue(w, q)

WorkerStep(w) ==
  \/ \E q \in Ctx : PopQueue(w, q)
  \/ \E m \in Msg : MQPopMessage(w, m)
  \/ TakeNothing(w) \/ FindNothing(w) \/ FindCtx(w)
  \/ MQPopRead(w) \/ MQPopEmpty(w) \/ MQPopGiveUp(w) \/ MQPopRetry(w)
  \/ DispatchMsg(w) \/ RotateKeep(w) \/ Requeue(w) \/ RequeueSignal(w)
  \/ UnRegister(w) \/ NextNothing(w)
  \/ WaitAnnounce(w) \/ WaitSignalled(w) \/ WaitTimeout(w) \/ WaitLeave(w)
  \/ CrashDangling(w)

Next ==
  \/ \E c \in Ctx : CtxStep(c)
  \/ \E p \in Client : ClientRequest(p) \/ ClientStep(p)
  \/ \E w \in Worker : WorkerStep(w)

Spec == Init /\ [][Next]_vars

(* No thread stops inside an operation.  The library serves every element  *)
(* of a queue that is popped again and again: a consumer rotates over the  *)
(* producers, whose elements come out in order.                            *)
Fairness ==
  /\ \A c \in Ctx : WF_vars(InitQueue(c))
  /\ \A p \in Client : WF_vars(ClientStep(p))
  /\ \A w \in Worker : WF_vars(WorkerStep(w))
  /\ \A q \in Ctx : SF_vars(\E w \in Worker : PopQueue(w, q))
  /\ \A m \in Msg : SF_vars(\E w \in Worker : MQPopMessage(w, m))

FairSpec == Spec /\ Fairness

(***************************************************************************)
(* Properties.                                                             *)
(***************************************************************************)
WorkerHas(w, c) == nextQ[w] = c \/ \E m \in Manager : hand[w][m] = c
ClientHas(p, c) == cpc[p] \in {"mgr", "dead"} /\ target[p] = c

Scheduled(c) ==
  \/ inMgr[c] > 0
  \/ \E w \in Worker : WorkerHas(w, c)
  \/ \E p \in Client : ClientHas(p, c)

(* MQPop has a single consumer (ctx_msgqueue.h:114): a queue is in its     *)
(* manager once, or in one slot of one worker, or with one client that is  *)
(* about to hand it over, and never in two of these places.                *)
SingleConsumer ==
  \A c \in Ctx :
    /\ inMgr[c] <= 1
    /\ \A w \in Worker : WorkerHas(w, c) =>
         /\ inMgr[c] = 0
         /\ \A v \in Worker : WorkerHas(v, c) => v = w
         /\ \A m, n \in Manager : hand[w][m] = c /\ hand[w][n] = c => m = n
         /\ \A m \in Manager : ~(hand[w][m] = c /\ nextQ[w] = c)
    /\ \A p \in Client : ClientHas(p, c) =>
         /\ inMgr[c] = 0
         /\ \A w \in Worker : ~WorkerHas(w, c)
         /\ \A r \in Client : ClientHas(r, c) => r = p

(* No lost wake-up: while a registered ctx has a message, its queue is     *)
(* scheduled, or a client still has to count what it enqueued.             *)
NoMessageStranded ==
  \A c \in Ctx : Registered(c) /\ msgs[c] # {} =>
    \/ Scheduled(c)
    \/ \E p \in Client : cpc[p] = "add" /\ target[p] = c

(* "Code as single thread, no lock" (README.md:4): two workers never run   *)
(* handlers of one ctx at once.                                            *)
OneThreadPerCtx ==
  \A v, w \in Worker :
    wpc[v] = "dispatch" /\ wpc[w] = "dispatch" /\ pctx[v] = pctx[w] => v = w

(* A handler runs in a ctx that is registered, so what it stores there and *)
(* the handle it gives away are still good when it ends.                   *)
DispatchRegistered ==
  \A w \in Worker : wpc[w] = "dispatch" => Registered(pctx[w])

(* A message that was accepted leaves the queue of a ctx that stays        *)
(* registered: it is dispatched, or drained when the ctx is released.      *)
Delivered ==
  \A c \in Ctx, m \in Msg :
    m \in msgs[c] ~> m \notin msgs[c] \/ ~Registered(c)

(* "No need to delete it yourself, just call release" (coroutine_ctx.h:94):*)
(* a released ctx leaves the registry.                                     *)
ReleaseTakesEffect ==
  \A c \in Ctx : released[c] ~> ~Registered(c)

(***************************************************************************)
(* The inductive invariant behind these properties.                        *)
(***************************************************************************)
HoldsQueue == {"find", "read", "dequeue", "cas", "dispatch", "rotate", "requeue",
               "signal"}
HoldsNothing == {"take", "next", "unregister", "wait", "waiting", "awake"}

(* What the program counters say of the variables of their thread. *)
ControlInv ==
  /\ \A p \in Client : cpc[p] # "idle" => target[p] \in Ctx
  /\ \A p \in Client : cpc[p] = "enqueue" => cmsg[p] \in Msg
  /\ \A w \in Worker :
       /\ servicing[w] \in {Global, w}
       /\ wpc[w] \in HoldsQueue => Held(w) \in Ctx
       /\ wpc[w] \in HoldsNothing => Held(w) = None
       /\ wpc[w] \in {"wait", "waiting", "awake"} => servicing[w] = Global
       /\ servicing[w] # Global => hand[w][Global] = None
       /\ wpc[w] \notin {"requeue", "dead"} => nextQ[w] = None
       /\ wpc[w] = "requeue" => nextQ[w] \in Ctx
       /\ nextQ[w] # None => Home[nextQ[w]] = servicing[w]
       /\ \A m \in Manager : hand[w][m] # None => Home[hand[w][m]] = m

(* Handles lead to their ctx, and nobody reaches a ctx without a handle. *)
HandleInv ==
  /\ \A i \in Id : owner[i] # None => id[owner[i]] = i
  /\ \A c \in Ctx : id[c] = None =>
       /\ addTimes[c] = 0
       /\ msgs[c] = {}
       /\ \A p \in Client : target[p] # c

(* The counter is zero when nobody has the queue, and as long as the ctx   *)
(* is registered only then.                                                *)
CountInv ==
  \A c \in Ctx :
    /\ Scheduled(c) => addTimes[c] > 0
    /\ Registered(c) /\ addTimes[c] > 0 => Scheduled(c)

(* A worker that found the queue empty cannot give it up while a message   *)
(* is in it that was counted: the counter has moved past what it read.     *)
GiveUpInv ==
  /\ \A w \in Worker : wpc[w] \in {"dequeue", "cas"} =>
       seen[w] > 0 /\ seen[w] <= addTimes[Held(w)]
  /\ \A c \in Ctx, m \in Msg :
       /\ m \in msgs[c]
       /\ \/ addTimes[c] = 0
          \/ \E w \in Worker : /\ wpc[w] = "cas"
                               /\ Held(w) = c
                               /\ seen[w] = addTimes[c]
       => \E p \in Client : cpc[p] = "add" /\ target[p] = c /\ cmsg[p] = m

(* A message that is about to be sent is nowhere else. *)
MessageInv ==
  \A p \in Client : cpc[p] = "enqueue" =>
    /\ \A c \in Ctx : cmsg[p] \notin msgs[c]
    /\ \A w \in Worker : wmsg[w] # cmsg[p]
    /\ \A r \in Client : cmsg[r] = cmsg[p] => r = p

Working == {"read", "dequeue", "cas", "dispatch", "rotate", "requeue"}
Popping == {"read", "dequeue", "cas", "dispatch"}

(* No two ctxs have had the same handle. *)
HandlesDiffer == \A c, d \in Ctx : id[c] = id[d] /\ c # d => id[c] = None

(* As long as that is so the ctx that is found is the one of the queue, and *)
(* once it may be unregistered its messages are drained, not dispatched.    *)
DispatchOK(w) ==
  /\ wpc[w] \in Working => pctx[w] = Held(w)
  /\ wpc[w] = "unregister" => pctx[w] \in Ctx /\ draining[w]
  /\ wpc[w] \in Popping \cup {"unregister"} /\ draining[w] => released[pctx[w]]
  /\ wpc[w] \in {"dispatch", "rotate", "requeue"} => ~draining[w]
  /\ wpc[w] = "dispatch" => wmsg[w] \in Msg
  /\ wpc[w] \in Popping /\ ~draining[w] =>
       /\ Registered(pctx[w])
       /\ \A v \in Worker : wpc[v] = "unregister" => pctx[v] # pctx[w]

DispatchInv == \A w \in Worker : DispatchOK(w)

IInv ==
  /\ TypeOK /\ ControlInv /\ HandleInv /\ SingleConsumer /\ CountInv /\ GiveUpInv
  /\ MessageInv
  /\ HandlesDiffer => DispatchInv

(***************************************************************************)
(* What a ctx promises is a mailbox whose messages are handled one by one. *)
(***************************************************************************)
Mailbox == INSTANCE CtxMailbox WITH
  mailbox  <- msgs,
  handling <- [c \in Ctx |-> {wmsg[w] : w \in
                 {v \in Worker : wpc[v] = "dispatch" /\ Held(v) = c}}],
  closed   <- released

ImplementsMailbox == Mailbox!Spec

(* As long as no handle is given to a second ctx, the handlers of a ctx    *)
(* run one at a time (README.md:4), and in a ctx that is registered, ...   *)
OneThreadUnlessReused == HandlesDiffer => OneThreadPerCtx /\ DispatchRegistered

(* ... and every step of the scheduler is one of mailboxes, or none.       *)
MailboxUnlessReused ==
  Mailbox!Init /\ [][HandlesDiffer => Mailbox!Next]_(Mailbox!vars)

=============================================================================
