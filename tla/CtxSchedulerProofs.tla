------------------------- MODULE CtxSchedulerProofs -------------------------
(***************************************************************************)
(* Proofs about CtxScheduler for every set of ctxs, workers, clients,      *)
(* messages and handles and every bound of the counter.  IInv is shown     *)
(* inductive conjunct by conjunct, one step per action; the theorems at    *)
(* the end follow from it.                                                 *)
(***************************************************************************)
EXTENDS CtxScheduler, TLAPS

(* The two bounds are positive. *)
LEMMA Bounds == MaxAddTimes \in Nat \ {0} /\ PacketNumber \in Nat \ {0}
BY ConstantsAssumption

(* The managers: one for each worker, and the global one apart from them. *)
LEMMA ManagerFacts == Global \in Manager /\ \A w \in Worker : w \in Manager /\ w # Global
BY ConstantsAssumption DEF Manager

(* None is no ctx, no message and no handle. *)
LEMMA NoneFacts == None \notin Ctx /\ None \notin Msg /\ None \notin Id
BY ConstantsAssumption

(* In the states in which DispathCtxMsg works on a queue it holds one. *)
LEMMA HeldIsCtx ==
  ASSUME ControlInv, NEW w \in Worker,
         wpc[w] \in {"find", "read", "dequeue", "cas", "dispatch", "rotate", "requeue", "signal"}
  PROVE  hand[w][servicing[w]] \in Ctx
BY DEF ControlInv, HoldsQueue, Held

(* A client in the middle of an operation keeps its reference to a ctx. *)
LEMMA TargetIsCtx ==
  ASSUME ControlInv, NEW p \in Client, cpc[p] # "idle"
  PROVE  target[p] \in Ctx
BY DEF ControlInv

(* A queue a worker works on belongs to a ctx that got a handle. *)
LEMMA HeldHasId ==
  ASSUME TypeOK, ControlInv, HandleInv, CountInv, NEW w \in Worker,
         wpc[w] \in {"find", "read", "dequeue", "cas", "dispatch", "rotate", "requeue", "signal"}
  PROVE  id[hand[w][servicing[w]]] \in Id
<1>1. hand[w][servicing[w]] \in Ctx
  BY HeldIsCtx
<1>2. Scheduled(hand[w][servicing[w]])
  BY <1>1 DEF TypeOK, Scheduled, WorkerHas
<1>3. addTimes[hand[w][servicing[w]]] # 0
  BY <1>1, <1>2 DEF CountInv, TypeOK
<1> QED
  BY <1>1, <1>3 DEF HandleInv, TypeOK

(* The return of DispathCtxMsg and the loop around it keep the types. *)
LEMMA ReturnType ==
  ASSUME TypeOK, NEW w \in Worker, NEW q \in Ctx \cup {None}, Return(w, q)
  PROVE  /\ hand' \in [Worker -> [Manager -> Ctx \cup {None}]]
         /\ pctx' \in [Worker -> Ctx \cup {None}]
         /\ wpc' \in [Worker -> WorkerPC]
         /\ servicing' \in [Worker -> Manager]
<1>1. /\ hand' \in [Worker -> [Manager -> Ctx \cup {None}]]
      /\ pctx' \in [Worker -> Ctx \cup {None}]
  BY DEF TypeOK, Return
<1>2. servicing' \in [Worker -> Manager]
  BY ManagerFacts DEF TypeOK, Return
<1>3. wpc' \in [Worker -> WorkerPC]
  BY DEF TypeOK, Return, WGoto, WorkerPC
<1> QED
  BY <1>1, <1>2, <1>3

(* The types: only the values an action computes need a thought, and the     *)
(* handle of a held queue, which exists because the queue was counted.       *)
LEMMA TypeStep ==
  ASSUME TypeOK, ControlInv, HandleInv, SingleConsumer, CountInv, GiveUpInv, [Next]_vars
  PROVE  TypeOK'
<1> USE Bounds, ManagerFacts DEF TypeOK, Held, ClientPC, WorkerPC, registryVars, queueVars, clientVars, workerVars
<1>1. ASSUME NEW c \in Ctx, Register(c)
      PROVE  TypeOK'
  BY <1>1 DEF Register
<1>2. ASSUME NEW c \in Ctx, InitQueue(c)
      PROVE  TypeOK'
  BY <1>2 DEF InitQueue
<1>3. ASSUME NEW p \in Client, NEW i \in Id, NEW m \in Msg, PushMessageByID(p, i, m)
      PROVE  TypeOK'
  BY <1>3 DEF PushMessageByID, Lookup, Goto
<1>4. ASSUME NEW p \in Client, NEW i \in Id, ReleaseCtxByID(p, i)
      PROVE  TypeOK'
  BY <1>4 DEF ReleaseCtxByID, Lookup, Goto
<1>5. ASSUME NEW p \in Client, NEW i \in Id, FinishFunc(p, i)
      PROVE  TypeOK'
  BY <1>5 DEF FinishFunc, Lookup, Goto
<1>6. ASSUME NEW p \in Client, MQPushEnqueue(p)
      PROVE  TypeOK'
  <2>1. cmsg[p] \in Msg
    BY <1>6 DEF MQPushEnqueue, ControlInv
  <2> QED
    BY <2>1, <1>6, TargetIsCtx DEF MQPushEnqueue, Goto
<1>7. ASSUME NEW p \in Client, ReleaseCtxMark(p)
      PROVE  TypeOK'
  BY <1>7, TargetIsCtx DEF ReleaseCtxMark, Goto
<1>8. ASSUME NEW p \in Client, PushGlobalQueue(p)
      PROVE  TypeOK'
  BY <1>8, TargetIsCtx DEF PushGlobalQueue, Forget, Goto
<1>9. ASSUME NEW p \in Client, FetchAdd(p)
      PROVE  TypeOK'
  <2>1. addTimes[target[p]] + 1 \in 0..MaxAddTimes
    BY <1>9, TargetIsCtx DEF FetchAdd
  <2>2. addTimes' \in [Ctx -> 0..MaxAddTimes]
    BY <2>1, <1>9 DEF FetchAdd
  <2>3. target' \in [Client -> Ctx \cup {None}] /\ cpc' \in [Client -> ClientPC]
    BY <1>9 DEF FetchAdd, Forget, Goto
  <2> QED
    BY <2>2, <2>3, <1>9 DEF FetchAdd
<1>10. ASSUME NEW p \in Client, GlobalMQPush(p)
      PROVE  TypeOK'
  BY <1>10, TargetIsCtx DEF GlobalMQPush, Goto
<1>11. ASSUME NEW p \in Client, Signal(p)
      PROVE  TypeOK'
  BY <1>11, TargetIsCtx DEF Signal, Forget, Goto, SetEventIfWaited
<1>12. ASSUME NEW p \in Client, CrashNullMgr(p)
      PROVE  TypeOK'
  BY <1>12, TargetIsCtx DEF CrashNullMgr, Goto
<1>13. ASSUME NEW w \in Worker, NEW q \in Ctx, TakeQueue(w, q)
      PROVE  TypeOK'
  BY <1>13 DEF TakeQueue, CanPop, WGoto
<1>14. ASSUME NEW w \in Worker, NEW q \in Ctx, RotateTo(w, q)
      PROVE  TypeOK'
  BY <1>14, HeldIsCtx DEF RotateTo, CanPop, WGoto
<1>15. ASSUME NEW w \in Worker, NEW q \in Ctx, NextQueue(w, q)
      PROVE  TypeOK'
  <2>1. inMgr' \in [Ctx -> Nat]
    BY <1>15 DEF NextQueue, CanPop
  <2> QED
    BY <2>1, <1>15, ReturnType DEF NextQueue
<1>16. ASSUME NEW w \in Worker, NEW m \in Msg, MQPopMessage(w, m)
      PROVE  TypeOK'
  <2>1. msgs' \in [Ctx -> SUBSET Msg]
    BY <1>16 DEF MQPopMessage
  <2>2. wmsg' \in [Worker -> Msg \cup {None}] /\ wpc' \in [Worker -> WorkerPC]
    BY <1>16 DEF MQPopMessage, WGoto
  <2> QED
    BY <2>1, <2>2, <1>16 DEF MQPopMessage
<1>17. ASSUME NEW w \in Worker, TakeNothing(w)
      PROVE  TypeOK'
  BY <1>17, ReturnType DEF TakeNothing, Return, WGoto
<1>18. ASSUME NEW w \in Worker, FindNothing(w)
      PROVE  TypeOK'
  BY <1>18, HeldIsCtx DEF FindNothing, WGoto
<1>19. ASSUME NEW w \in Worker, FindCtx(w)
      PROVE  TypeOK'
  BY <1>19, HeldIsCtx, HeldHasId DEF FindCtx, WGoto
<1>20. ASSUME NEW w \in Worker, MQPopRead(w)
      PROVE  TypeOK'
  BY <1>20, HeldIsCtx DEF MQPopRead, WGoto
<1>21. ASSUME NEW w \in Worker, MQPopEmpty(w)
      PROVE  TypeOK'
  BY <1>21, HeldIsCtx DEF MQPopEmpty, WGoto
<1>22. ASSUME NEW w \in Worker, MQPopGiveUp(w)
      PROVE  TypeOK'
  BY <1>22, HeldIsCtx DEF MQPopGiveUp, WGoto
<1>23. ASSUME NEW w \in Worker, MQPopRetry(w)
      PROVE  TypeOK'
  BY <1>23, HeldIsCtx DEF MQPopRetry, WGoto
<1>24. ASSUME NEW w \in Worker, DispatchMsg(w)
      PROVE  TypeOK'
  BY <1>24, HeldIsCtx DEF DispatchMsg, WGoto
<1>25. ASSUME NEW w \in Worker, RotateKeep(w)
      PROVE  TypeOK'
  BY <1>25, HeldIsCtx, ReturnType DEF RotateKeep, Return, WGoto
<1>26. ASSUME NEW w \in Worker, Requeue(w)
      PROVE  TypeOK'
  BY <1>26, HeldIsCtx DEF Requeue, WGoto
<1>27. ASSUME NEW w \in Worker, RequeueSignal(w)
      PROVE  TypeOK'
  BY <1>27, HeldIsCtx, ReturnType DEF RequeueSignal, Return, WGoto, SetEventIfWaited
<1>28. ASSUME NEW w \in Worker, UnRegister(w)
      PROVE  TypeOK'
  BY <1>28 DEF UnRegister, WGoto
<1>29. ASSUME NEW w \in Worker, NextNothing(w)
      PROVE  TypeOK'
  BY <1>29, ReturnType DEF NextNothing, Return, WGoto
<1>30. ASSUME NEW w \in Worker, WaitAnnounce(w)
      PROVE  TypeOK'
  BY <1>30 DEF WaitAnnounce, WGoto
<1>31. ASSUME NEW w \in Worker, WaitSignalled(w)
      PROVE  TypeOK'
  BY <1>31 DEF WaitSignalled, WGoto
<1>32. ASSUME NEW w \in Worker, WaitTimeout(w)
      PROVE  TypeOK'
  BY <1>32 DEF WaitTimeout, WGoto
<1>33. ASSUME NEW w \in Worker, WaitLeave(w)
      PROVE  TypeOK'
  BY <1>33 DEF WaitLeave, WGoto
<1>34. ASSUME NEW w \in Worker, CrashDangling(w)
      PROVE  TypeOK'
  BY <1>34, HeldIsCtx DEF CrashDangling, WGoto
<1>35. CASE UNCHANGED vars
  BY <1>35 DEF vars
<1> QED
  BY <1>1, <1>2, <1>3, <1>4, <1>5, <1>6, <1>7, <1>8, <1>9, <1>10, <1>11, <1>12, <1>13, <1>14, <1>15, <1>16, <1>17, <1>18, <1>19, <1>20, <1>21, <1>22, <1>23, <1>24, <1>25, <1>26, <1>27, <1>28, <1>29, <1>30, <1>31, <1>32, <1>33, <1>34, <1>35
  DEF Next, CtxStep, ClientRequest, ClientStep, WorkerStep, PopQueue

(* The program counters keep telling which variables of a thread hold a value. *)
LEMMA ControlStep ==
  ASSUME TypeOK, ControlInv, HandleInv, SingleConsumer, CountInv, GiveUpInv, [Next]_vars
  PROVE  ControlInv'
<1> USE ManagerFacts, NoneFacts DEF TypeOK, ControlInv, Held, HoldsQueue, HoldsNothing, registryVars, queueVars, clientVars, workerVars
<1>1. ASSUME NEW c \in Ctx, Register(c)
      PROVE  ControlInv'
  BY <1>1 DEF Register
<1>2. ASSUME NEW c \in Ctx, InitQueue(c)
      PROVE  ControlInv'
  BY <1>2 DEF InitQueue
<1>3. ASSUME NEW p \in Client, NEW i \in Id, NEW m \in Msg, PushMessageByID(p, i, m)
      PROVE  ControlInv'
  BY <1>3 DEF PushMessageByID, Lookup, Goto
<1>4. ASSUME NEW p \in Client, NEW i \in Id, ReleaseCtxByID(p, i)
      PROVE  ControlInv'
  BY <1>4 DEF ReleaseCtxByID, Lookup, Goto
<1>5. ASSUME NEW p \in Client, NEW i \in Id, FinishFunc(p, i)
      PROVE  ControlInv'
  BY <1>5 DEF FinishFunc, Lookup, Goto
<1>6. ASSUME NEW p \in Client, MQPushEnqueue(p)
      PROVE  ControlInv'
  BY <1>6, TargetIsCtx DEF MQPushEnqueue, Goto
<1>7. ASSUME NEW p \in Client, ReleaseCtxMark(p)
      PROVE  ControlInv'
  BY <1>7, TargetIsCtx DEF ReleaseCtxMark, Goto
<1>8. ASSUME NEW p \in Client, PushGlobalQueue(p)
      PROVE  ControlInv'
  <2>1. /\ \A q \in Client \ {p} : cpc'[q] = cpc[q] /\ target'[q] = target[q]
        /\ cpc'[p] = "idle" \/ (cpc'[p] = "add" /\ target'[p] = target[p])
        /\ UNCHANGED <<cmsg, servicing, wpc, hand, nextQ>> /\ cpc[p] = "kick"
    BY <1>8 DEF PushGlobalQueue, Forget, Goto
  <2> QED
    BY <2>1, TargetIsCtx
<1>9. ASSUME NEW p \in Client, FetchAdd(p)
      PROVE  ControlInv'
  BY <1>9, TargetIsCtx DEF FetchAdd, Forget, Goto
<1>10. ASSUME NEW p \in Client, GlobalMQPush(p)
      PROVE  ControlInv'
  BY <1>10, TargetIsCtx DEF GlobalMQPush, Goto
<1>11. ASSUME NEW p \in Client, Signal(p)
      PROVE  ControlInv'
  BY <1>11, TargetIsCtx DEF Signal, Forget, Goto, SetEventIfWaited
<1>12. ASSUME NEW p \in Client, CrashNullMgr(p)
      PROVE  ControlInv'
  BY <1>12, TargetIsCtx DEF CrashNullMgr, Goto
<1>13. ASSUME NEW w \in Worker, NEW q \in Ctx, TakeQueue(w, q)
      PROVE  ControlInv'
  BY <1>13 DEF TakeQueue, CanPop, WGoto
<1>14. ASSUME NEW w \in Worker, NEW q \in Ctx, RotateTo(w, q)
      PROVE  ControlInv'
  BY <1>14, HeldIsCtx DEF RotateTo, CanPop, WGoto
<1>15. ASSUME NEW w \in Worker, NEW q \in Ctx, NextQueue(w, q)
      PROVE  ControlInv'
  BY <1>15 DEF NextQueue, Return, WGoto, CanPop
<1>16. ASSUME NEW w \in Worker, NEW m \in Msg, MQPopMessage(w, m)
      PROVE  ControlInv'
  BY <1>16, HeldIsCtx DEF MQPopMessage, WGoto
<1>17. ASSUME NEW w \in Worker, TakeNothing(w)
      PROVE  ControlInv'
  BY <1>17 DEF TakeNothing, Return, WGoto
<1>18. ASSUME NEW w \in Worker, FindNothing(w)
      PROVE  ControlInv'
  BY <1>18, HeldIsCtx DEF FindNothing, WGoto
<1>19. ASSUME NEW w \in Worker, FindCtx(w)
      PROVE  ControlInv'
  BY <1>19, HeldIsCtx DEF FindCtx, WGoto
<1>20. ASSUME NEW w \in Worker, MQPopRead(w)
      PROVE  ControlInv'
  BY <1>20, HeldIsCtx DEF MQPopRead, WGoto
<1>21. ASSUME NEW w \in Worker, MQPopEmpty(w)
      PROVE  ControlInv'
  BY <1>21, HeldIsCtx DEF MQPopEmpty, WGoto
<1>22. ASSUME NEW w \in Worker, MQPopGiveUp(w)
      PROVE  ControlInv'
  BY <1>22, HeldIsCtx DEF MQPopGiveUp, WGoto
<1>23. ASSUME NEW w \in Worker, MQPopRetry(w)
      PROVE  ControlInv'
  BY <1>23, HeldIsCtx DEF MQPopRetry, WGoto
<1>24. ASSUME NEW w \in Worker, DispatchMsg(w)
      PROVE  ControlInv'
  BY <1>24, HeldIsCtx DEF DispatchMsg, WGoto
<1>25. ASSUME NEW w \in Worker, RotateKeep(w)
      PROVE  ControlInv'
  BY <1>25, HeldIsCtx DEF RotateKeep, Return, WGoto
<1>26. ASSUME NEW w \in Worker, Requeue(w)
      PROVE  ControlInv'
  BY <1>26, HeldIsCtx DEF Requeue, WGoto
<1>27. ASSUME NEW w \in Worker, RequeueSignal(w)
      PROVE  ControlInv'
  BY <1>27, HeldIsCtx DEF RequeueSignal, Return, WGoto, SetEventIfWaited
<1>28. ASSUME NEW w \in Worker, UnRegister(w)
      PROVE  ControlInv'
  BY <1>28 DEF UnRegister, WGoto
<1>29. ASSUME NEW w \in Worker, NextNothing(w)
      PROVE  ControlInv'
  BY <1>29 DEF NextNothing, Return, WGoto
<1>30. ASSUME NEW w \in Worker, WaitAnnounce(w)
      PROVE  ControlInv'
  BY <1>30 DEF WaitAnnounce, WGoto
<1>31. ASSUME NEW w \in Worker, WaitSignalled(w)
      PROVE  ControlInv'
  BY <1>31 DEF WaitSignalled, WGoto
<1>32. ASSUME NEW w \in Worker, WaitTimeout(w)
      PROVE  ControlInv'
  BY <1>32 DEF WaitTimeout, WGoto
<1>33. ASSUME NEW w \in Worker, WaitLeave(w)
      PROVE  ControlInv'
  BY <1>33 DEF WaitLeave, WGoto
<1>34. ASSUME NEW w \in Worker, CrashDangling(w)
      PROVE  ControlInv'
  BY <1>34, HeldIsCtx DEF CrashDangling, WGoto
<1>35. CASE UNCHANGED vars
  BY <1>35 DEF vars
<1> QED
  BY <1>1, <1>2, <1>3, <1>4, <1>5, <1>6, <1>7, <1>8, <1>9, <1>10, <1>11, <1>12, <1>13, <1>14, <1>15, <1>16, <1>17, <1>18, <1>19, <1>20, <1>21, <1>22, <1>23, <1>24, <1>25, <1>26, <1>27, <1>28, <1>29, <1>30, <1>31, <1>32, <1>33, <1>34, <1>35
  DEF Next, CtxStep, ClientRequest, ClientStep, WorkerStep, PopQueue

(* Handles lead to their ctx: Register writes both sides at once, UnRegister  *)
(* removes the way there and never the handle itself.                         *)
LEMMA HandleStep ==
  ASSUME TypeOK, ControlInv, HandleInv, SingleConsumer, CountInv, GiveUpInv, [Next]_vars
  PROVE  HandleInv'
<1> USE NoneFacts DEF TypeOK, HandleInv, registryVars, queueVars, clientVars, workerVars
<1>1. ASSUME NEW c \in Ctx, Register(c)
      PROVE  HandleInv'
  BY <1>1 DEF Register
<1>2. ASSUME NEW c \in Ctx, InitQueue(c)
      PROVE  HandleInv'
  BY <1>2 DEF InitQueue
<1>3. ASSUME NEW p \in Client, NEW i \in Id, NEW m \in Msg, PushMessageByID(p, i, m)
      PROVE  HandleInv'
  BY <1>3 DEF PushMessageByID, Lookup, Goto
<1>4. ASSUME NEW p \in Client, NEW i \in Id, ReleaseCtxByID(p, i)
      PROVE  HandleInv'
  BY <1>4 DEF ReleaseCtxByID, Lookup, Goto
<1>5. ASSUME NEW p \in Client, NEW i \in Id, FinishFunc(p, i)
      PROVE  HandleInv'
  BY <1>5 DEF FinishFunc, Lookup, Goto
<1>6. ASSUME NEW p \in Client, MQPushEnqueue(p)
      PROVE  HandleInv'
  BY <1>6, TargetIsCtx DEF MQPushEnqueue, Goto
<1>7. ASSUME NEW p \in Client, ReleaseCtxMark(p)
      PROVE  HandleInv'
  BY <1>7, TargetIsCtx DEF ReleaseCtxMark, Goto
<1>8. ASSUME NEW p \in Client, PushGlobalQueue(p)
      PROVE  HandleInv'
  BY <1>8, TargetIsCtx DEF PushGlobalQueue, Forget, Goto
<1>9. ASSUME NEW p \in Client, FetchAdd(p)
      PROVE  HandleInv'
  BY <1>9, TargetIsCtx DEF FetchAdd, Forget, Goto
<1>10. ASSUME NEW p \in Client, GlobalMQPush(p)
      PROVE  HandleInv'
  BY <1>10, TargetIsCtx DEF GlobalMQPush, Goto
<1>11. ASSUME NEW p \in Client, Signal(p)
      PROVE  HandleInv'
  BY <1>11, TargetIsCtx DEF Signal, Forget, Goto, SetEventIfWaited
<1>12. ASSUME NEW p \in Client, CrashNullMgr(p)
      PROVE  HandleInv'
  BY <1>12, TargetIsCtx DEF CrashNullMgr, Goto
<1>13. ASSUME NEW w \in Worker, NEW q \in Ctx, TakeQueue(w, q)
      PROVE  HandleInv'
  BY <1>13 DEF TakeQueue, CanPop, WGoto
<1>14. ASSUME NEW w \in Worker, NEW q \in Ctx, RotateTo(w, q)
      PROVE  HandleInv'
  BY <1>14, HeldIsCtx DEF RotateTo, CanPop, WGoto
<1>15. ASSUME NEW w \in Worker, NEW q \in Ctx, NextQueue(w, q)
      PROVE  HandleInv'
  BY <1>15 DEF NextQueue, Return, WGoto, CanPop
<1>16. ASSUME NEW w \in Worker, NEW m \in Msg, MQPopMessage(w, m)
      PROVE  HandleInv'
  BY <1>16, HeldIsCtx DEF MQPopMessage, WGoto
<1>17. ASSUME NEW w \in Worker, TakeNothing(w)
      PROVE  HandleInv'
  BY <1>17 DEF TakeNothing, Return, WGoto
<1>18. ASSUME NEW w \in Worker, FindNothing(w)
      PROVE  HandleInv'
  BY <1>18, HeldIsCtx DEF FindNothing, WGoto
<1>19. ASSUME NEW w \in Worker, FindCtx(w)
      PROVE  HandleInv'
  BY <1>19, HeldIsCtx DEF FindCtx, WGoto
<1>20. ASSUME NEW w \in Worker, MQPopRead(w)
      PROVE  HandleInv'
  BY <1>20, HeldIsCtx DEF MQPopRead, WGoto
<1>21. ASSUME NEW w \in Worker, MQPopEmpty(w)
      PROVE  HandleInv'
  BY <1>21, HeldIsCtx DEF MQPopEmpty, WGoto
<1>22. ASSUME NEW w \in Worker, MQPopGiveUp(w)
      PROVE  HandleInv'
  BY <1>22, HeldIsCtx DEF MQPopGiveUp, WGoto
<1>23. ASSUME NEW w \in Worker, MQPopRetry(w)
      PROVE  HandleInv'
  BY <1>23, HeldIsCtx DEF MQPopRetry, WGoto
<1>24. ASSUME NEW w \in Worker, DispatchMsg(w)
      PROVE  HandleInv'
  BY <1>24, HeldIsCtx DEF DispatchMsg, WGoto
<1>25. ASSUME NEW w \in Worker, RotateKeep(w)
      PROVE  HandleInv'
  BY <1>25, HeldIsCtx DEF RotateKeep, Return, WGoto
<1>26. ASSUME NEW w \in Worker, Requeue(w)
      PROVE  HandleInv'
  BY <1>26, HeldIsCtx DEF Requeue, WGoto
<1>27. ASSUME NEW w \in Worker, RequeueSignal(w)
      PROVE  HandleInv'
  BY <1>27, HeldIsCtx DEF RequeueSignal, Return, WGoto, SetEventIfWaited
<1>28. ASSUME NEW w \in Worker, UnRegister(w)
      PROVE  HandleInv'
  BY <1>28 DEF UnRegister, WGoto
<1>29. ASSUME NEW w \in Worker, NextNothing(w)
      PROVE  HandleInv'
  BY <1>29 DEF NextNothing, Return, WGoto
<1>30. ASSUME NEW w \in Worker, WaitAnnounce(w)
      PROVE  HandleInv'
  BY <1>30 DEF WaitAnnounce, WGoto
<1>31. ASSUME NEW w \in Worker, WaitSignalled(w)
      PROVE  HandleInv'
  BY <1>31 DEF WaitSignalled, WGoto
<1>32. ASSUME NEW w \in Worker, WaitTimeout(w)
      PROVE  HandleInv'
  BY <1>32 DEF WaitTimeout, WGoto
<1>33. ASSUME NEW w \in Worker, WaitLeave(w)
      PROVE  HandleInv'
  BY <1>33 DEF WaitLeave, WGoto
<1>34. ASSUME NEW w \in Worker, CrashDangling(w)
      PROVE  HandleInv'
  BY <1>34, HeldIsCtx DEF CrashDangling, WGoto
<1>35. CASE UNCHANGED vars
  BY <1>35 DEF vars
<1> QED
  BY <1>1, <1>2, <1>3, <1>4, <1>5, <1>6, <1>7, <1>8, <1>9, <1>10, <1>11, <1>12, <1>13, <1>14, <1>15, <1>16, <1>17, <1>18, <1>19, <1>20, <1>21, <1>22, <1>23, <1>24, <1>25, <1>26, <1>27, <1>28, <1>29, <1>30, <1>31, <1>32, <1>33, <1>34, <1>35
  DEF Next, CtxStep, ClientRequest, ClientStep, WorkerStep, PopQueue

(* A queue moves from place to place and is never copied.  The one action      *)
(* that creates a place is FetchAdd from zero, and zero means no place.        *)
LEMMA ConsumerStep ==
  ASSUME TypeOK, ControlInv, HandleInv, SingleConsumer, CountInv, GiveUpInv, [Next]_vars
  PROVE  SingleConsumer'
<1> USE NoneFacts DEF TypeOK, SingleConsumer, Held, WorkerHas, ClientHas, registryVars, queueVars, clientVars, workerVars
<1>1. ASSUME NEW c \in Ctx, Register(c)
      PROVE  SingleConsumer'
  BY <1>1 DEF Register
<1>2. ASSUME NEW c \in Ctx, InitQueue(c)
      PROVE  SingleConsumer'
  BY <1>2 DEF InitQueue
<1>3. ASSUME NEW p \in Client, NEW i \in Id, NEW m \in Msg, PushMessageByID(p, i, m)
      PROVE  SingleConsumer'
  BY <1>3 DEF PushMessageByID, Lookup, Goto
<1>4. ASSUME NEW p \in Client, NEW i \in Id, ReleaseCtxByID(p, i)
      PROVE  SingleConsumer'
  BY <1>4 DEF ReleaseCtxByID, Lookup, Goto
<1>5. ASSUME NEW p \in Client, NEW i \in Id, FinishFunc(p, i)
      PROVE  SingleConsumer'
  BY <1>5 DEF FinishFunc, Lookup, Goto
<1>6. ASSUME NEW p \in Client, MQPushEnqueue(p)
      PROVE  SingleConsumer'
  BY <1>6, TargetIsCtx DEF MQPushEnqueue, Goto
<1>7. ASSUME NEW p \in Client, ReleaseCtxMark(p)
      PROVE  SingleConsumer'
  BY <1>7, TargetIsCtx DEF ReleaseCtxMark, Goto
<1>8. ASSUME NEW p \in Client, PushGlobalQueue(p)
      PROVE  SingleConsumer'
  BY <1>8, TargetIsCtx DEF PushGlobalQueue, Forget, Goto
<1>9. ASSUME NEW p \in Client, FetchAdd(p)
      PROVE  SingleConsumer'
  <2>1. CASE addTimes[target[p]] = 0
    <3>1. ~Scheduled(target[p])
      BY <2>1, <1>9, TargetIsCtx DEF CountInv, FetchAdd
    <3>2. /\ target' = target /\ cpc' = [cpc EXCEPT ![p] = "mgr"]
          /\ inMgr' = inMgr /\ hand' = hand /\ nextQ' = nextQ
      BY <2>1, <1>9 DEF FetchAdd, Goto
    <3>3. inMgr[target[p]] = 0 /\ \A w \in Worker : ~WorkerHas(w, target[p])
      BY <3>1, <1>9, TargetIsCtx DEF Scheduled, FetchAdd
    <3>4. \A r \in Client : ~ClientHas(r, target[p])
      BY <3>1 DEF Scheduled
    <3> QED
      BY <3>2, <3>3, <3>4
  <2>2. CASE addTimes[target[p]] # 0
    BY <2>2, <1>9 DEF FetchAdd, Forget, Goto
  <2> QED
    BY <2>1, <2>2
<1>10. ASSUME NEW p \in Client, GlobalMQPush(p)
      PROVE  SingleConsumer'
  BY <1>10, TargetIsCtx DEF GlobalMQPush, Goto
<1>11. ASSUME NEW p \in Client, Signal(p)
      PROVE  SingleConsumer'
  BY <1>11, TargetIsCtx DEF Signal, Forget, Goto, SetEventIfWaited
<1>12. ASSUME NEW p \in Client, CrashNullMgr(p)
      PROVE  SingleConsumer'
  BY <1>12, TargetIsCtx DEF CrashNullMgr, Goto
<1>13. ASSUME NEW w \in Worker, NEW q \in Ctx, TakeQueue(w, q)
      PROVE  SingleConsumer'
  BY <1>13 DEF TakeQueue, CanPop, WGoto
<1>14. ASSUME NEW w \in Worker, NEW q \in Ctx, RotateTo(w, q)
      PROVE  SingleConsumer'
  BY <1>14, HeldIsCtx DEF RotateTo, CanPop, WGoto
<1>15. ASSUME NEW w \in Worker, NEW q \in Ctx, NextQueue(w, q)
      PROVE  SingleConsumer'
  BY <1>15 DEF NextQueue, Return, WGoto, CanPop
<1>16. ASSUME NEW w \in Worker, NEW m \in Msg, MQPopMessage(w, m)
      PROVE  SingleConsumer'
  BY <1>16, HeldIsCtx DEF MQPopMessage, WGoto
<1>17. ASSUME NEW w \in Worker, TakeNothing(w)
      PROVE  SingleConsumer'
  BY <1>17 DEF TakeNothing, Return, WGoto
<1>18. ASSUME NEW w \in Worker, FindNothing(w)
      PROVE  SingleConsumer'
  <2>1. \A v \in Worker, m \in Manager : hand'[v][m] \in {hand[v][m], None}
    BY <1>18 DEF FindNothing
  <2>2. inMgr' = inMgr /\ nextQ' = nextQ /\ cpc' = cpc /\ target' = target
    BY <1>18 DEF FindNothing
  <2> QED
    BY <2>1, <2>2
<1>19. ASSUME NEW w \in Worker, FindCtx(w)
      PROVE  SingleConsumer'
  BY <1>19, HeldIsCtx DEF FindCtx, WGoto
<1>20. ASSUME NEW w \in Worker, MQPopRead(w)
      PROVE  SingleConsumer'
  BY <1>20, HeldIsCtx DEF MQPopRead, WGoto
<1>21. ASSUME NEW w \in Worker, MQPopEmpty(w)
      PROVE  SingleConsumer'
  BY <1>21, HeldIsCtx DEF MQPopEmpty, WGoto
<1>22. ASSUME NEW w \in Worker, MQPopGiveUp(w)
      PROVE  SingleConsumer'
  BY <1>22, HeldIsCtx DEF MQPopGiveUp, WGoto
<1>23. ASSUME NEW w \in Worker, MQPopRetry(w)
      PROVE  SingleConsumer'
  BY <1>23, HeldIsCtx DEF MQPopRetry, WGoto
<1>24. ASSUME NEW w \in Worker, DispatchMsg(w)
      PROVE  SingleConsumer'
  BY <1>24, HeldIsCtx DEF DispatchMsg, WGoto
<1>25. ASSUME NEW w \in Worker, RotateKeep(w)
      PROVE  SingleConsumer'
  BY <1>25, HeldIsCtx DEF RotateKeep, Return, WGoto
<1>26. ASSUME NEW w \in Worker, Requeue(w)
      PROVE  SingleConsumer'
  BY <1>26, HeldIsCtx DEF Requeue, WGoto
<1>27. ASSUME NEW w \in Worker, RequeueSignal(w)
      PROVE  SingleConsumer'
  BY <1>27, HeldIsCtx DEF RequeueSignal, Return, WGoto, SetEventIfWaited
<1>28. ASSUME NEW w \in Worker, UnRegister(w)
      PROVE  SingleConsumer'
  BY <1>28 DEF UnRegister, WGoto
<1>29. ASSUME NEW w \in Worker, NextNothing(w)
      PROVE  SingleConsumer'
  BY <1>29 DEF NextNothing, Return, WGoto
<1>30. ASSUME NEW w \in Worker, WaitAnnounce(w)
      PROVE  SingleConsumer'
  BY <1>30 DEF WaitAnnounce, WGoto
<1>31. ASSUME NEW w \in Worker, WaitSignalled(w)
      PROVE  SingleConsumer'
  BY <1>31 DEF WaitSignalled, WGoto
<1>32. ASSUME NEW w \in Worker, WaitTimeout(w)
      PROVE  SingleConsumer'
  BY <1>32 DEF WaitTimeout, WGoto
<1>33. ASSUME NEW w \in Worker, WaitLeave(w)
      PROVE  SingleConsumer'
  BY <1>33 DEF WaitLeave, WGoto
<1>34. ASSUME NEW w \in Worker, CrashDangling(w)
      PROVE  SingleConsumer'
  BY <1>34, HeldIsCtx DEF CrashDangling, WGoto
<1>35. CASE UNCHANGED vars
  BY <1>35 DEF vars
<1> QED
  BY <1>1, <1>2, <1>3, <1>4, <1>5, <1>6, <1>7, <1>8, <1>9, <1>10, <1>11, <1>12, <1>13, <1>14, <1>15, <1>16, <1>17, <1>18, <1>19, <1>20, <1>21, <1>22, <1>23, <1>24, <1>25, <1>26, <1>27, <1>28, <1>29, <1>30, <1>31, <1>32, <1>33, <1>34, <1>35
  DEF Next, CtxStep, ClientRequest, ClientStep, WorkerStep, PopQueue

(* Whoever has a queue has it still after a step that moves no queue. *)
LEMMA ScheduledSame ==
  ASSUME UNCHANGED <<inMgr, hand, nextQ>>, NEW c \in Ctx,
         \A p \in Client : ClientHas(p, c)' <=> ClientHas(p, c)
  PROVE  Scheduled(c)' <=> Scheduled(c)
BY DEF Scheduled, WorkerHas

(* A worker that moves queues between its manager and its slots neither      *)
(* loses a queue nor makes one up.                                           *)
LEMMA ScheduledMoves ==
  ASSUME TypeOK, ControlInv, CountInv, NEW w \in Worker,
         \/ \E q \in Ctx : PopQueue(w, q)
         \/ TakeNothing(w) \/ RotateKeep(w) \/ Requeue(w) \/ RequeueSignal(w)
         \/ NextNothing(w)
  PROVE  \A c \in Ctx : Scheduled(c)' <=> Scheduled(c)
<1> USE NoneFacts, ManagerFacts DEF TypeOK, queueVars, clientVars
<1>1. \A c \in Ctx, p \in Client : ClientHas(p, c)' <=> ClientHas(p, c)
  BY DEF ClientHas, PopQueue, TakeQueue, RotateTo, NextQueue, TakeNothing,
         RotateKeep, Requeue, RequeueSignal, NextNothing
<1>2. \A v \in Worker, c \in Ctx : v # w => (WorkerHas(v, c)' <=> WorkerHas(v, c))
  BY DEF WorkerHas, PopQueue, TakeQueue, RotateTo, NextQueue, TakeNothing,
         RotateKeep, Requeue, RequeueSignal, NextNothing, Return
<1>3. ASSUME UNCHANGED <<inMgr, nextQ>>, hand' = [hand EXCEPT ![w][servicing[w]] = Held(w)]
      PROVE  \A c \in Ctx : Scheduled(c)' <=> Scheduled(c)
  <2>1. hand' = hand
    BY <1>3 DEF Held
  <2> QED
    BY <2>1, <1>3, <1>1, ScheduledSame
<1>4. ASSUME NEW q \in Ctx, inMgr[q] > 0, inMgr' = [inMgr EXCEPT ![q] = @ - 1],
             \A c \in Ctx : WorkerHas(w, c)' <=> WorkerHas(w, c) \/ c = q
      PROVE  \A c \in Ctx : Scheduled(c)' <=> Scheduled(c)
  <2>1. Scheduled(q) /\ Scheduled(q)'
    BY <1>4 DEF Scheduled
  <2>2. \A c \in Ctx : c # q => (Scheduled(c)' <=> Scheduled(c))
    BY <1>1, <1>2, <1>4 DEF Scheduled
  <2> QED
    BY <2>1, <2>2
<1>5. ASSUME NEW q \in Ctx, TakeQueue(w, q) \/ NextQueue(w, q)
      PROVE  \A c \in Ctx : Scheduled(c)' <=> Scheduled(c)
  <2>1. Held(w) = None /\ servicing[w] \in Manager
    BY <1>5 DEF TakeQueue, NextQueue, ControlInv, HoldsNothing
  <2>2. hand' = [hand EXCEPT ![w][servicing[w]] = q] /\ nextQ' = nextQ
    BY <1>5 DEF TakeQueue, NextQueue, Return
  <2>3. \A c \in Ctx : WorkerHas(w, c)' <=> WorkerHas(w, c) \/ c = q
    BY <2>1, <2>2 DEF WorkerHas, Held
  <2> QED
    BY <2>3, <1>4, <1>5 DEF TakeQueue, NextQueue, CanPop
<1>6. ASSUME NEW q \in Ctx, RotateTo(w, q)
      PROVE  \A c \in Ctx : Scheduled(c)' <=> Scheduled(c)
  <2>1. nextQ[w] = None /\ nextQ' = [nextQ EXCEPT ![w] = q] /\ hand' = hand
    BY <1>6 DEF RotateTo, ControlInv
  <2>2. \A c \in Ctx : WorkerHas(w, c)' <=> WorkerHas(w, c) \/ c = q
    BY <2>1 DEF WorkerHas
  <2> QED
    BY <2>2, <1>4, <1>6 DEF RotateTo, CanPop
<1>7. CASE TakeNothing(w) \/ NextNothing(w)
  <2>1. Held(w) = None
    BY <1>7 DEF TakeNothing, NextNothing, ControlInv, HoldsNothing
  <2> QED
    BY <2>1, <1>3, <1>7 DEF TakeNothing, NextNothing, Return
<1>8. CASE RotateKeep(w) \/ RequeueSignal(w)
  BY <1>3, <1>8 DEF RotateKeep, RequeueSignal, Return
<1>9. CASE Requeue(w)
  <2>1. PICK h \in Ctx : h = Held(w)
    BY <1>9 DEF Requeue, ControlInv, HoldsQueue
  <2>2. PICK n \in Ctx : n = nextQ[w]
    BY <1>9 DEF Requeue, ControlInv
  <2>3. servicing[w] \in Manager
    BY DEF Held
  <2>4. /\ hand' = [hand EXCEPT ![w][servicing[w]] = n]
        /\ nextQ' = [nextQ EXCEPT ![w] = None]
        /\ inMgr' = [inMgr EXCEPT ![h] = @ + 1]
    BY <1>9, <2>1, <2>2 DEF Requeue
  <2>5. WorkerHas(w, h) /\ WorkerHas(w, n) /\ WorkerHas(w, n)'
    BY <2>1, <2>2, <2>3, <2>4 DEF WorkerHas, Held
  <2>6. \A c \in Ctx : c # h /\ c # n => (WorkerHas(w, c)' <=> WorkerHas(w, c))
    BY <2>1, <2>2, <2>3, <2>4 DEF WorkerHas, Held
  <2>7. Scheduled(h) /\ Scheduled(h)'
    BY <2>4, <2>5 DEF Scheduled
  <2>8. \A c \in Ctx : c # h => (Scheduled(c)' <=> Scheduled(c))
    BY <1>1, <1>2, <2>4, <2>5, <2>6 DEF Scheduled
  <2> QED
    BY <2>7, <2>8
<1> QED
  BY <1>5, <1>6, <1>7, <1>8, <1>9 DEF PopQueue

(* The counter is zero exactly while nobody has the queue: FetchAdd from zero *)
(* schedules it, MQPopGiveUp gives up both at once, FindNothing drops a queue *)
(* whose ctx is no longer registered.                                         *)
LEMMA CountStep ==
  ASSUME TypeOK, ControlInv, HandleInv, SingleConsumer, CountInv, GiveUpInv, [Next]_vars
  PROVE  CountInv'
<1> USE NoneFacts DEF TypeOK, registryVars, queueVars, clientVars, workerVars
<1>1. ASSUME UNCHANGED <<owner, id, addTimes>>,
             \A c \in Ctx : Scheduled(c)' <=> Scheduled(c)
      PROVE  CountInv'
  BY <1>1 DEF CountInv, Registered
<1>2. ASSUME UNCHANGED <<owner, id, addTimes, inMgr, hand, nextQ, cpc, target>>
      PROVE  CountInv'
  BY <1>1, <1>2, ScheduledSame DEF ClientHas
<1>3. ASSUME UNCHANGED <<owner, id, addTimes, inMgr, hand, nextQ>>,
             \A c \in Ctx, p \in Client : ClientHas(p, c)' <=> ClientHas(p, c)
      PROVE  CountInv'
  BY <1>1, <1>3, ScheduledSame
<1>4. ASSUME NEW c \in Ctx, Register(c)
      PROVE  CountInv'
  <2>1. \A d \in Ctx : Scheduled(d)' <=> Scheduled(d)
    BY <1>4, ScheduledSame DEF Register, ClientHas
  <2>2. addTimes[c] = 0 /\ addTimes' = addTimes
    BY <1>4 DEF Register, HandleInv
  <2>3. \A d \in Ctx : d # c => (Registered(d)' <=> Registered(d))
    BY <1>4 DEF Register, Registered
  <2> QED
    BY <2>1, <2>2, <2>3 DEF CountInv
<1>5. ASSUME NEW c \in Ctx, InitQueue(c)
      PROVE  CountInv'
  BY <1>5, <1>2 DEF InitQueue
<1>6. ASSUME NEW p \in Client, NEW i \in Id, NEW m \in Msg, PushMessageByID(p, i, m)
      PROVE  CountInv'
  <2>1. \A c \in Ctx, r \in Client : ClientHas(r, c)' <=> ClientHas(r, c)
    BY <1>6 DEF PushMessageByID, Lookup, Goto, ClientHas
  <2> QED
    BY <2>1, <1>3, <1>6 DEF PushMessageByID
<1>7. ASSUME NEW p \in Client, NEW i \in Id, ReleaseCtxByID(p, i)
      PROVE  CountInv'
  <2>1. \A c \in Ctx, r \in Client : ClientHas(r, c)' <=> ClientHas(r, c)
    BY <1>7 DEF ReleaseCtxByID, Lookup, Goto, ClientHas
  <2> QED
    BY <2>1, <1>3, <1>7 DEF ReleaseCtxByID
<1>8. ASSUME NEW p \in Client, NEW i \in Id, FinishFunc(p, i)
      PROVE  CountInv'
  <2>1. \A c \in Ctx, r \in Client : ClientHas(r, c)' <=> ClientHas(r, c)
    BY <1>8 DEF FinishFunc, Lookup, Goto, ClientHas
  <2> QED
    BY <2>1, <1>3, <1>8 DEF FinishFunc
<1>9. ASSUME NEW p \in Client, MQPushEnqueue(p)
      PROVE  CountInv'
  <2>1. \A c \in Ctx, r \in Client : ClientHas(r, c)' <=> ClientHas(r, c)
    BY <1>9 DEF MQPushEnqueue, Goto, ClientHas
  <2> QED
    BY <2>1, <1>3, <1>9 DEF MQPushEnqueue
<1>10. ASSUME NEW p \in Client, ReleaseCtxMark(p)
      PROVE  CountInv'
  <2>1. \A c \in Ctx, r \in Client : ClientHas(r, c)' <=> ClientHas(r, c)
    BY <1>10 DEF ReleaseCtxMark, Goto, ClientHas
  <2> QED
    BY <2>1, <1>3, <1>10 DEF ReleaseCtxMark
<1>11. ASSUME NEW p \in Client, PushGlobalQueue(p)
      PROVE  CountInv'
  <2>1. \A c \in Ctx, r \in Client : ClientHas(r, c)' <=> ClientHas(r, c)
    BY <1>11 DEF PushGlobalQueue, Forget, Goto, ClientHas
  <2> QED
    BY <2>1, <1>3, <1>11 DEF PushGlobalQueue
<1>12. ASSUME NEW p \in Client, FetchAdd(p)
      PROVE  CountInv'
  <2>0. PICK t \in Ctx : t = target[p]
    BY <1>12, TargetIsCtx DEF FetchAdd, GlobalMQPush
  <2>1. UNCHANGED <<owner, id, inMgr, hand, nextQ>>
    BY <2>0, <1>12 DEF FetchAdd
  <2>2. addTimes'[t] = addTimes[t] + 1 /\ \A c \in Ctx : c # t => addTimes'[c] = addTimes[c]
    BY <2>0, <1>12 DEF FetchAdd
  <2>3. \A c \in Ctx, r \in Client : c # t => (ClientHas(r, c)' <=> ClientHas(r, c))
    BY <2>0, <1>12 DEF FetchAdd, Forget, Goto, ClientHas
  <2>4. \A c \in Ctx : c # t => (Scheduled(c)' <=> Scheduled(c))
    BY <2>1, <2>3, ScheduledSame
  <2>5. CASE addTimes[t] = 0
    <3>1. ClientHas(p, t)'
      BY <2>0, <2>5, <1>12 DEF FetchAdd, Goto, ClientHas
    <3> QED
      BY <2>1, <2>2, <2>4, <3>1 DEF CountInv, Scheduled, Registered
  <2>6. CASE addTimes[t] # 0
    <3>1. \A c \in Ctx, r \in Client : ClientHas(r, c)' <=> ClientHas(r, c)
      BY <2>0, <2>6, <1>12 DEF FetchAdd, Forget, Goto, ClientHas
    <3>2. Scheduled(t)' <=> Scheduled(t)
      BY <2>1, <3>1, ScheduledSame
    <3> QED
      BY <2>1, <2>2, <2>4, <2>6, <3>2 DEF CountInv, Registered
  <2> QED
    BY <2>5, <2>6
<1>13. ASSUME NEW p \in Client, GlobalMQPush(p)
      PROVE  CountInv'
  <2>0. PICK t \in Ctx : t = target[p]
    BY <1>13, TargetIsCtx DEF FetchAdd, GlobalMQPush
  <2>1. UNCHANGED <<owner, id, addTimes, hand, nextQ>>
    BY <2>0, <1>13 DEF GlobalMQPush
  <2>2. inMgr' = [inMgr EXCEPT ![t] = @ + 1]
    BY <2>0, <1>13 DEF GlobalMQPush
  <2>3. Scheduled(t) /\ Scheduled(t)'
    BY <2>0, <1>13, <2>1, <2>2 DEF GlobalMQPush, Scheduled, ClientHas
  <2>4. \A c \in Ctx, r \in Client : c # t => (ClientHas(r, c)' <=> ClientHas(r, c))
    BY <2>0, <1>13 DEF GlobalMQPush, Goto, ClientHas
  <2>5. \A c \in Ctx : c # t => (Scheduled(c)' <=> Scheduled(c))
    BY <2>1, <2>2, <2>4 DEF Scheduled, WorkerHas
  <2> QED
    BY <1>1, <2>1, <2>3, <2>5
<1>14. ASSUME NEW p \in Client, Signal(p)
      PROVE  CountInv'
  <2>1. \A c \in Ctx, r \in Client : ClientHas(r, c)' <=> ClientHas(r, c)
    BY <1>14 DEF Signal, Forget, Goto, ClientHas
  <2> QED
    BY <2>1, <1>3, <1>14 DEF Signal
<1>15. ASSUME NEW p \in Client, CrashNullMgr(p)
      PROVE  CountInv'
  <2>1. \A c \in Ctx, r \in Client : ClientHas(r, c)' <=> ClientHas(r, c)
    BY <1>15 DEF CrashNullMgr, Goto, ClientHas
  <2> QED
    BY <2>1, <1>3, <1>15 DEF CrashNullMgr
<1>16. ASSUME NEW w \in Worker, NEW q \in Ctx, TakeQueue(w, q)
      PROVE  CountInv'
  BY <1>16, <1>1, ScheduledMoves DEF TakeQueue, PopQueue
<1>17. ASSUME NEW w \in Worker, NEW q \in Ctx, RotateTo(w, q)
      PROVE  CountInv'
  BY <1>17, <1>1, ScheduledMoves DEF RotateTo, PopQueue
<1>18. ASSUME NEW w \in Worker, NEW q \in Ctx, NextQueue(w, q)
      PROVE  CountInv'
  BY <1>18, <1>1, ScheduledMoves DEF NextQueue, PopQueue
<1>19. ASSUME NEW w \in Worker, NEW m \in Msg, MQPopMessage(w, m)
      PROVE  CountInv'
  BY <1>19, <1>2 DEF MQPopMessage
<1>20. ASSUME NEW w \in Worker, TakeNothing(w)
      PROVE  CountInv'
  BY <1>20, <1>1, ScheduledMoves DEF TakeNothing
<1>21. ASSUME NEW w \in Worker, FindNothing(w)
      PROVE  CountInv'
  <2>0. PICK h \in Ctx : h = Held(w)
    BY <1>21, HeldIsCtx DEF Held, FindNothing
  <2>1. UNCHANGED <<owner, id, addTimes, inMgr, nextQ, cpc, target>>
    BY <2>0, <1>21 DEF FindNothing
  <2>2. ~Registered(h)
    BY <2>0, <1>21, <2>1 DEF FindNothing, Registered
  <2>3. \A c \in Ctx, v \in Worker : WorkerHas(v, c)' => WorkerHas(v, c)
    BY <2>0, <1>21 DEF FindNothing, WorkerHas
  <2>4. \A c \in Ctx, v \in Worker : c # h /\ WorkerHas(v, c) => WorkerHas(v, c)'
    BY <2>0, <1>21 DEF FindNothing, WorkerHas, Held
  <2>5. \A c \in Ctx : /\ Scheduled(c)' => Scheduled(c)
                       /\ c # h /\ Scheduled(c) => Scheduled(c)'
    BY <2>1, <2>3, <2>4 DEF Scheduled, ClientHas
  <2> QED
    <3>1. \A c \in Ctx : Registered(c)' <=> Registered(c)
      BY <2>1 DEF Registered
    <3>2. addTimes' = addTimes
      BY <2>1
    <3>3. \A c \in Ctx : Scheduled(c)' => addTimes'[c] > 0
      BY <2>5, <3>2 DEF CountInv
    <3>4. \A c \in Ctx : Registered(c)' /\ addTimes'[c] > 0 => Scheduled(c)'
      BY <2>2, <2>5, <3>1, <3>2 DEF CountInv
    <3> QED
      BY <3>3, <3>4 DEF CountInv
<1>22. ASSUME NEW w \in Worker, FindCtx(w)
      PROVE  CountInv'
  BY <1>22, <1>2 DEF FindCtx
<1>23. ASSUME NEW w \in Worker, MQPopRead(w)
      PROVE  CountInv'
  BY <1>23, <1>2 DEF MQPopRead
<1>24. ASSUME NEW w \in Worker, MQPopEmpty(w)
      PROVE  CountInv'
  BY <1>24, <1>2 DEF MQPopEmpty
<1>25. ASSUME NEW w \in Worker, MQPopGiveUp(w)
      PROVE  CountInv'
  <2>0. PICK h \in Ctx : h = Held(w)
    BY <1>25, HeldIsCtx DEF Held, MQPopGiveUp
  <2>1. servicing[w] \in Manager
    BY <2>0, <1>25 DEF MQPopGiveUp, Held
  <2>2. /\ UNCHANGED <<owner, id, inMgr, nextQ, cpc, target>>
        /\ hand' = [hand EXCEPT ![w][servicing[w]] = None]
        /\ addTimes' = [addTimes EXCEPT ![h] = 0]
    BY <2>0, <1>25 DEF MQPopGiveUp
  <2>3. WorkerHas(w, h)
    BY <2>0, <2>1 DEF WorkerHas, Held
  <2>4. /\ inMgr[h] = 0
        /\ \A v \in Worker : v # w => ~WorkerHas(v, h)
        /\ \A r \in Client : ~ClientHas(r, h)
    BY <2>1, <2>3 DEF SingleConsumer
  <2>5. nextQ[w] # h /\ \A m \in Manager : m # servicing[w] => hand[w][m] # h
    BY <2>0, <2>1, <2>3 DEF SingleConsumer, Held
  <2>6. ~Scheduled(h)'
    BY <2>1, <2>2, <2>4, <2>5 DEF Scheduled, WorkerHas, ClientHas
  <2>7. \A c \in Ctx, v \in Worker : c # h => (WorkerHas(v, c)' <=> WorkerHas(v, c))
    BY <2>0, <2>1, <2>2 DEF WorkerHas, Held
  <2>8. \A c \in Ctx : c # h => (Scheduled(c)' <=> Scheduled(c))
    BY <2>2, <2>7 DEF Scheduled, ClientHas
  <2> QED
    BY <2>1, <2>2, <2>6, <2>8 DEF CountInv, Registered
<1>26. ASSUME NEW w \in Worker, MQPopRetry(w)
      PROVE  CountInv'
  BY <1>26, <1>2 DEF MQPopRetry
<1>27. ASSUME NEW w \in Worker, DispatchMsg(w)
      PROVE  CountInv'
  BY <1>27, <1>2 DEF DispatchMsg
<1>28. ASSUME NEW w \in Worker, RotateKeep(w)
      PROVE  CountInv'
  BY <1>28, <1>1, ScheduledMoves DEF RotateKeep
<1>29. ASSUME NEW w \in Worker, Requeue(w)
      PROVE  CountInv'
  BY <1>29, <1>1, ScheduledMoves DEF Requeue
<1>30. ASSUME NEW w \in Worker, RequeueSignal(w)
      PROVE  CountInv'
  BY <1>30, <1>1, ScheduledMoves DEF RequeueSignal
<1>31. ASSUME NEW w \in Worker, UnRegister(w)
      PROVE  CountInv'
  <2>1. \A c \in Ctx : Scheduled(c)' <=> Scheduled(c)
    BY <1>31, ScheduledSame DEF UnRegister, ClientHas
  <2>2. \A c \in Ctx : Registered(c)' => Registered(c)
    BY <1>31 DEF UnRegister, Registered
  <2> QED
    BY <2>1, <2>2, <1>31 DEF CountInv, UnRegister
<1>32. ASSUME NEW w \in Worker, NextNothing(w)
      PROVE  CountInv'
  BY <1>32, <1>1, ScheduledMoves DEF NextNothing
<1>33. ASSUME NEW w \in Worker, WaitAnnounce(w)
      PROVE  CountInv'
  BY <1>33, <1>2 DEF WaitAnnounce
<1>34. ASSUME NEW w \in Worker, WaitSignalled(w)
      PROVE  CountInv'
  BY <1>34, <1>2 DEF WaitSignalled
<1>35. ASSUME NEW w \in Worker, WaitTimeout(w)
      PROVE  CountInv'
  BY <1>35, <1>2 DEF WaitTimeout
<1>36. ASSUME NEW w \in Worker, WaitLeave(w)
      PROVE  CountInv'
  BY <1>36, <1>2 DEF WaitLeave
<1>37. ASSUME NEW w \in Worker, CrashDangling(w)
      PROVE  CountInv'
  BY <1>37, <1>2 DEF CrashDangling
<1>38. CASE UNCHANGED vars
  BY <1>38, <1>2 DEF vars
<1> QED
  BY <1>4, <1>5, <1>6, <1>7, <1>8, <1>9, <1>10, <1>11, <1>12, <1>13, <1>14, <1>15, <1>16, <1>17, <1>18, <1>19, <1>20, <1>21, <1>22, <1>23, <1>24, <1>25, <1>26, <1>27, <1>28, <1>29, <1>30, <1>31, <1>32, <1>33, <1>34, <1>35, <1>36, <1>37, <1>38
  DEF Next, CtxStep, ClientRequest, ClientStep, WorkerStep, PopQueue

(* MQPop: a message that was counted keeps the counter away from the value    *)
(* the worker read before it looked into the queue.                            *)
LEMMA GiveUpStep ==
  ASSUME TypeOK, ControlInv, HandleInv, SingleConsumer, CountInv, GiveUpInv, [Next]_vars
  PROVE  GiveUpInv'
<1> USE NoneFacts DEF TypeOK, GiveUpInv, Held, registryVars, queueVars, clientVars, workerVars
<1>1. ASSUME NEW c \in Ctx, Register(c)
      PROVE  GiveUpInv'
  BY <1>1 DEF Register
<1>2. ASSUME NEW c \in Ctx, InitQueue(c)
      PROVE  GiveUpInv'
  BY <1>2 DEF InitQueue
<1>3. ASSUME NEW p \in Client, NEW i \in Id, NEW m \in Msg, PushMessageByID(p, i, m)
      PROVE  GiveUpInv'
  BY <1>3 DEF PushMessageByID, Lookup, Goto
<1>4. ASSUME NEW p \in Client, NEW i \in Id, ReleaseCtxByID(p, i)
      PROVE  GiveUpInv'
  BY <1>4 DEF ReleaseCtxByID, Lookup, Goto
<1>5. ASSUME NEW p \in Client, NEW i \in Id, FinishFunc(p, i)
      PROVE  GiveUpInv'
  BY <1>5 DEF FinishFunc, Lookup, Goto
<1>6. ASSUME NEW p \in Client, MQPushEnqueue(p)
      PROVE  GiveUpInv'
  BY <1>6, TargetIsCtx DEF MQPushEnqueue, Goto
<1>7. ASSUME NEW p \in Client, ReleaseCtxMark(p)
      PROVE  GiveUpInv'
  BY <1>7, TargetIsCtx DEF ReleaseCtxMark, Goto
<1>8. ASSUME NEW p \in Client, PushGlobalQueue(p)
      PROVE  GiveUpInv'
  BY <1>8, TargetIsCtx DEF PushGlobalQueue, Forget, Goto
<1>9. ASSUME NEW p \in Client, FetchAdd(p)
      PROVE  GiveUpInv'
  BY <1>9, TargetIsCtx DEF FetchAdd, Forget, Goto
<1>10. ASSUME NEW p \in Client, GlobalMQPush(p)
      PROVE  GiveUpInv'
  BY <1>10, TargetIsCtx DEF GlobalMQPush, Goto
<1>11. ASSUME NEW p \in Client, Signal(p)
      PROVE  GiveUpInv'
  BY <1>11, TargetIsCtx DEF Signal, Forget, Goto, SetEventIfWaited
<1>12. ASSUME NEW p \in Client, CrashNullMgr(p)
      PROVE  GiveUpInv'
  BY <1>12, TargetIsCtx DEF CrashNullMgr, Goto
<1>13. ASSUME NEW w \in Worker, NEW q \in Ctx, TakeQueue(w, q)
      PROVE  GiveUpInv'
  BY <1>13 DEF TakeQueue, CanPop, WGoto
<1>14. ASSUME NEW w \in Worker, NEW q \in Ctx, RotateTo(w, q)
      PROVE  GiveUpInv'
  BY <1>14, HeldIsCtx DEF RotateTo, CanPop, WGoto
<1>15. ASSUME NEW w \in Worker, NEW q \in Ctx, NextQueue(w, q)
      PROVE  GiveUpInv'
  BY <1>15 DEF NextQueue, Return, WGoto, CanPop
<1>16. ASSUME NEW w \in Worker, NEW m \in Msg, MQPopMessage(w, m)
      PROVE  GiveUpInv'
  BY <1>16, HeldIsCtx DEF MQPopMessage, WGoto
<1>17. ASSUME NEW w \in Worker, TakeNothing(w)
      PROVE  GiveUpInv'
  BY <1>17 DEF TakeNothing, Return, WGoto
<1>18. ASSUME NEW w \in Worker, FindNothing(w)
      PROVE  GiveUpInv'
  BY <1>18, HeldIsCtx DEF FindNothing, WGoto
<1>19. ASSUME NEW w \in Worker, FindCtx(w)
      PROVE  GiveUpInv'
  <2>1. \A v \in Worker : wpc'[v] = wpc[v] \/ wpc'[v] \notin {"dequeue", "cas"}
    BY <1>19 DEF FindCtx, WGoto
  <2>2. \A v \in Worker : wpc'[v] = wpc[v] => hand'[v] = hand[v] /\ servicing'[v] = servicing[v]
    BY <1>19 DEF FindCtx, WGoto
  <2> QED
    BY <2>1, <2>2, <1>19 DEF FindCtx
<1>20. ASSUME NEW w \in Worker, MQPopRead(w)
      PROVE  GiveUpInv'
  <2>0. PICK h \in Ctx : h = hand[w][servicing[w]]
    BY <1>20, HeldIsCtx DEF MQPopRead
  <2>1. addTimes[h] > 0
    BY <2>0, <1>20 DEF MQPopRead, CountInv, Scheduled, WorkerHas
  <2>2. seen' = [seen EXCEPT ![w] = addTimes[h]] /\ wpc' = [wpc EXCEPT ![w] = "dequeue"]
    BY <2>0, <1>20 DEF MQPopRead, WGoto
  <2>3. UNCHANGED <<msgs, addTimes, hand, servicing, cpc, target, cmsg>>
    BY <1>20 DEF MQPopRead
  <2> QED
    BY <2>0, <2>1, <2>2, <2>3
<1>21. ASSUME NEW w \in Worker, MQPopEmpty(w)
      PROVE  GiveUpInv'
  BY <1>21, HeldIsCtx DEF MQPopEmpty, WGoto
<1>22. ASSUME NEW w \in Worker, MQPopGiveUp(w)
      PROVE  GiveUpInv'
  <2>0. PICK h \in Ctx : h = hand[w][servicing[w]]
    BY <1>22, HeldIsCtx DEF MQPopGiveUp
  <2>1. /\ addTimes' = [addTimes EXCEPT ![h] = 0]
        /\ seen' = [seen EXCEPT ![w] = 0]
        /\ hand' = [hand EXCEPT ![w][servicing[w]] = None]
        /\ UNCHANGED <<msgs, servicing, cpc, target, cmsg>>
    BY <2>0, <1>22 DEF MQPopGiveUp
  <2>2. wpc[w] = "cas" /\ seen[w] = addTimes[h]
    BY <2>0, <1>22 DEF MQPopGiveUp
  <2>3. wpc'[w] \notin {"dequeue", "cas"} /\ \A v \in Worker : v # w => wpc'[v] = wpc[v]
    BY <1>22 DEF MQPopGiveUp, WGoto
  <2>4. WorkerHas(w, h)
    BY <2>0 DEF WorkerHas
  <2>5. \A v \in Worker : v # w /\ wpc[v] \in {"dequeue", "cas"} => hand[v][servicing[v]] # h
    BY <2>0, <2>4 DEF SingleConsumer, WorkerHas
  <2>6. (\A v \in Worker : wpc[v] \in {"dequeue", "cas"} =>
           seen[v] > 0 /\ seen[v] <= addTimes[Held(v)])'
    <3> SUFFICES ASSUME NEW v \in Worker, wpc'[v] \in {"dequeue", "cas"}
                 PROVE  seen'[v] > 0 /\ seen'[v] <= addTimes'[Held(v)']
      OBVIOUS
    <3>1. v # w /\ wpc[v] = wpc'[v] /\ hand'[v][servicing'[v]] = hand[v][servicing[v]]
      BY <2>1, <2>3
    <3>2. hand[v][servicing[v]] \in Ctx
      BY <3>1, HeldIsCtx
    <3> QED
      BY <2>1, <2>5, <3>1, <3>2
  <2>7. (\A c \in Ctx, m \in Msg :
           /\ m \in msgs[c]
           /\ \/ addTimes[c] = 0
              \/ \E v \in Worker : wpc[v] = "cas" /\ Held(v) = c /\ seen[v] = addTimes[c]
           => \E p \in Client : cpc[p] = "add" /\ target[p] = c /\ cmsg[p] = m)'
    <3> SUFFICES ASSUME NEW d \in Ctx, NEW m \in Msg,
                        m \in msgs'[d],
                        \/ addTimes'[d] = 0
                        \/ \E v \in Worker : wpc'[v] = "cas" /\ Held(v)' = d /\ seen'[v] = addTimes'[d]
                 PROVE  \E p \in Client : cpc'[p] = "add" /\ target'[p] = d /\ cmsg'[p] = m
      OBVIOUS
    <3>1. CASE d = h
      <4>1. m \in msgs[h] /\ wpc[w] = "cas" /\ Held(w) = h /\ seen[w] = addTimes[h]
        BY <2>0, <2>1, <2>2, <3>1
      <4>2. \E p \in Client : cpc[p] = "add" /\ target[p] = h /\ cmsg[p] = m
        BY <4>1
      <4> QED
        BY <2>1, <3>1, <4>2
    <3>2. CASE d # h
      BY <2>1, <2>3, <3>2
    <3> QED
      BY <3>1, <3>2
  <2> QED
    BY ONLY <2>6, <2>7 DEF GiveUpInv, Held
<1>23. ASSUME NEW w \in Worker, MQPopRetry(w)
      PROVE  GiveUpInv'
  BY <1>23, HeldIsCtx DEF MQPopRetry, WGoto
<1>24. ASSUME NEW w \in Worker, DispatchMsg(w)
      PROVE  GiveUpInv'
  BY <1>24, HeldIsCtx DEF DispatchMsg, WGoto
<1>25. ASSUME NEW w \in Worker, RotateKeep(w)
      PROVE  GiveUpInv'
  BY <1>25, HeldIsCtx DEF RotateKeep, Return, WGoto
<1>26. ASSUME NEW w \in Worker, Requeue(w)
      PROVE  GiveUpInv'
  BY <1>26, HeldIsCtx DEF Requeue, WGoto
<1>27. ASSUME NEW w \in Worker, RequeueSignal(w)
      PROVE  GiveUpInv'
  BY <1>27, HeldIsCtx DEF RequeueSignal, Return, WGoto, SetEventIfWaited
<1>28. ASSUME NEW w \in Worker, UnRegister(w)
      PROVE  GiveUpInv'
  <2>1. \A v \in Worker : wpc'[v] = wpc[v] \/ wpc'[v] \notin {"dequeue", "cas"}
    BY <1>28 DEF UnRegister, WGoto
  <2>2. \A v \in Worker : wpc'[v] = wpc[v] => hand'[v] = hand[v] /\ servicing'[v] = servicing[v]
    BY <1>28 DEF UnRegister, WGoto
  <2> QED
    BY <2>1, <2>2, <1>28 DEF UnRegister
<1>29. ASSUME NEW w \in Worker, NextNothing(w)
      PROVE  GiveUpInv'
  BY <1>29 DEF NextNothing, Return, WGoto
<1>30. ASSUME NEW w \in Worker, WaitAnnounce(w)
      PROVE  GiveUpInv'
  <2>1. \A v \in Worker : wpc'[v] = wpc[v] \/ wpc'[v] \notin {"dequeue", "cas"}
    BY <1>30 DEF WaitAnnounce, WGoto
  <2>2. \A v \in Worker : wpc'[v] = wpc[v] => hand'[v] = hand[v] /\ servicing'[v] = servicing[v]
    BY <1>30 DEF WaitAnnounce, WGoto
  <2> QED
    BY <2>1, <2>2, <1>30 DEF WaitAnnounce
<1>31. ASSUME NEW w \in Worker, WaitSignalled(w)
      PROVE  GiveUpInv'
  <2>1. \A v \in Worker : wpc'[v] = wpc[v] \/ wpc'[v] \notin {"dequeue", "cas"}
    BY <1>31 DEF WaitSignalled, WGoto
  <2>2. \A v \in Worker : wpc'[v] = wpc[v] => hand'[v] = hand[v] /\ servicing'[v] = servicing[v]
    BY <1>31 DEF WaitSignalled, WGoto
  <2> QED
    BY <2>1, <2>2, <1>31 DEF WaitSignalled
<1>32. ASSUME NEW w \in Worker, WaitTimeout(w)
      PROVE  GiveUpInv'
  <2>1. \A v \in Worker : wpc'[v] = wpc[v] \/ wpc'[v] \notin {"dequeue", "cas"}
    BY <1>32 DEF WaitTimeout, WGoto
  <2>2. \A v \in Worker : wpc'[v] = wpc[v] => hand'[v] = hand[v] /\ servicing'[v] = servicing[v]
    BY <1>32 DEF WaitTimeout, WGoto
  <2> QED
    BY <2>1, <2>2, <1>32 DEF WaitTimeout
<1>33. ASSUME NEW w \in Worker, WaitLeave(w)
      PROVE  GiveUpInv'
  <2>1. \A v \in Worker : wpc'[v] = wpc[v] \/ wpc'[v] \notin {"dequeue", "cas"}
    BY <1>33 DEF WaitLeave, WGoto
  <2>2. \A v \in Worker : wpc'[v] = wpc[v] => hand'[v] = hand[v] /\ servicing'[v] = servicing[v]
    BY <1>33 DEF WaitLeave, WGoto
  <2> QED
    BY <2>1, <2>2, <1>33 DEF WaitLeave
<1>34. ASSUME NEW w \in Worker, CrashDangling(w)
      PROVE  GiveUpInv'
  BY <1>34, HeldIsCtx DEF CrashDangling, WGoto
<1>35. CASE UNCHANGED vars
  BY <1>35 DEF vars
<1> QED
  BY <1>1, <1>2, <1>3, <1>4, <1>5, <1>6, <1>7, <1>8, <1>9, <1>10, <1>11, <1>12, <1>13, <1>14, <1>15, <1>16, <1>17, <1>18, <1>19, <1>20, <1>21, <1>22, <1>23, <1>24, <1>25, <1>26, <1>27, <1>28, <1>29, <1>30, <1>31, <1>32, <1>33, <1>34, <1>35
  DEF Next, CtxStep, ClientRequest, ClientStep, WorkerStep, PopQueue

(* A message that is not under way is in no queue when it is taken to be    *)
(* sent, and nobody else takes it then.                                     *)
LEMMA MessageStep ==
  ASSUME TypeOK, ControlInv, HandleInv, SingleConsumer, CountInv, GiveUpInv, MessageInv, [Next]_vars
  PROVE  MessageInv'
<1> USE NoneFacts DEF TypeOK, MessageInv, Held, registryVars, queueVars, clientVars, workerVars
<1>1. ASSUME NEW c \in Ctx, Register(c)
      PROVE  MessageInv'
  BY <1>1 DEF Register
<1>2. ASSUME NEW c \in Ctx, InitQueue(c)
      PROVE  MessageInv'
  BY <1>2 DEF InitQueue
<1>3. ASSUME NEW p \in Client, NEW i \in Id, NEW m \in Msg, PushMessageByID(p, i, m)
      PROVE  MessageInv'
  <2>1. /\ cmsg' = [cmsg EXCEPT ![p] = m] /\ cpc' = [cpc EXCEPT ![p] = "enqueue"]
        /\ msgs' = msgs /\ wmsg' = wmsg
    BY <1>3 DEF PushMessageByID, Lookup, Goto
  <2>2. /\ \A c \in Ctx : m \notin msgs[c]
        /\ \A r \in Client : cmsg[r] # m
        /\ \A w \in Worker : wmsg[w] # m
    <3>1. m \in FreeMsg
      BY <1>3 DEF PushMessageByID
    <3> QED
      BY ONLY <3>1 DEF FreeMsg
  <2> QED
    BY <2>1, <2>2
<1>4. ASSUME NEW p \in Client, NEW i \in Id, ReleaseCtxByID(p, i)
      PROVE  MessageInv'
  BY <1>4 DEF ReleaseCtxByID, Lookup, Goto
<1>5. ASSUME NEW p \in Client, NEW i \in Id, FinishFunc(p, i)
      PROVE  MessageInv'
  BY <1>5 DEF FinishFunc, Lookup, Goto
<1>6. ASSUME NEW p \in Client, MQPushEnqueue(p)
      PROVE  MessageInv'
  BY <1>6, TargetIsCtx DEF MQPushEnqueue, Goto
<1>7. ASSUME NEW p \in Client, ReleaseCtxMark(p)
      PROVE  MessageInv'
  BY <1>7, TargetIsCtx DEF ReleaseCtxMark, Goto
<1>8. ASSUME NEW p \in Client, PushGlobalQueue(p)
      PROVE  MessageInv'
  BY <1>8, TargetIsCtx DEF PushGlobalQueue, Forget, Goto
<1>9. ASSUME NEW p \in Client, FetchAdd(p)
      PROVE  MessageInv'
  BY <1>9, TargetIsCtx DEF FetchAdd, Forget, Goto, ControlInv
<1>10. ASSUME NEW p \in Client, GlobalMQPush(p)
      PROVE  MessageInv'
  BY <1>10, TargetIsCtx DEF GlobalMQPush, Goto
<1>11. ASSUME NEW p \in Client, Signal(p)
      PROVE  MessageInv'
  BY <1>11, TargetIsCtx DEF Signal, Forget, Goto, SetEventIfWaited
<1>12. ASSUME NEW p \in Client, CrashNullMgr(p)
      PROVE  MessageInv'
  BY <1>12, TargetIsCtx DEF CrashNullMgr, Goto
<1>13. ASSUME NEW w \in Worker, NEW q \in Ctx, TakeQueue(w, q)
      PROVE  MessageInv'
  BY <1>13 DEF TakeQueue, CanPop, WGoto
<1>14. ASSUME NEW w \in Worker, NEW q \in Ctx, RotateTo(w, q)
      PROVE  MessageInv'
  BY <1>14, HeldIsCtx DEF RotateTo, CanPop, WGoto
<1>15. ASSUME NEW w \in Worker, NEW q \in Ctx, NextQueue(w, q)
      PROVE  MessageInv'
  BY <1>15 DEF NextQueue, Return, WGoto, CanPop
<1>16. ASSUME NEW w \in Worker, NEW m \in Msg, MQPopMessage(w, m)
      PROVE  MessageInv'
  BY <1>16, HeldIsCtx DEF MQPopMessage, WGoto
<1>17. ASSUME NEW w \in Worker, TakeNothing(w)
      PROVE  MessageInv'
  BY <1>17 DEF TakeNothing, Return, WGoto
<1>18. ASSUME NEW w \in Worker, FindNothing(w)
      PROVE  MessageInv'
  BY <1>18, HeldIsCtx DEF FindNothing, WGoto
<1>19. ASSUME NEW w \in Worker, FindCtx(w)
      PROVE  MessageInv'
  BY <1>19, HeldIsCtx DEF FindCtx, WGoto
<1>20. ASSUME NEW w \in Worker, MQPopRead(w)
      PROVE  MessageInv'
  BY <1>20, HeldIsCtx DEF MQPopRead, WGoto
<1>21. ASSUME NEW w \in Worker, MQPopEmpty(w)
      PROVE  MessageInv'
  BY <1>21, HeldIsCtx DEF MQPopEmpty, WGoto
<1>22. ASSUME NEW w \in Worker, MQPopGiveUp(w)
      PROVE  MessageInv'
  BY <1>22, HeldIsCtx DEF MQPopGiveUp, WGoto
<1>23. ASSUME NEW w \in Worker, MQPopRetry(w)
      PROVE  MessageInv'
  BY <1>23, HeldIsCtx DEF MQPopRetry, WGoto
<1>24. ASSUME NEW w \in Worker, DispatchMsg(w)
      PROVE  MessageInv'
  BY <1>24 DEF DispatchMsg, WGoto, ControlInv
<1>25. ASSUME NEW w \in Worker, RotateKeep(w)
      PROVE  MessageInv'
  BY <1>25, HeldIsCtx DEF RotateKeep, Return, WGoto
<1>26. ASSUME NEW w \in Worker, Requeue(w)
      PROVE  MessageInv'
  BY <1>26, HeldIsCtx DEF Requeue, WGoto
<1>27. ASSUME NEW w \in Worker, RequeueSignal(w)
      PROVE  MessageInv'
  BY <1>27, HeldIsCtx DEF RequeueSignal, Return, WGoto, SetEventIfWaited
<1>28. ASSUME NEW w \in Worker, UnRegister(w)
      PROVE  MessageInv'
  BY <1>28 DEF UnRegister, WGoto
<1>29. ASSUME NEW w \in Worker, NextNothing(w)
      PROVE  MessageInv'
  BY <1>29 DEF NextNothing, Return, WGoto
<1>30. ASSUME NEW w \in Worker, WaitAnnounce(w)
      PROVE  MessageInv'
  BY <1>30 DEF WaitAnnounce, WGoto
<1>31. ASSUME NEW w \in Worker, WaitSignalled(w)
      PROVE  MessageInv'
  BY <1>31 DEF WaitSignalled, WGoto
<1>32. ASSUME NEW w \in Worker, WaitTimeout(w)
      PROVE  MessageInv'
  BY <1>32 DEF WaitTimeout, WGoto
<1>33. ASSUME NEW w \in Worker, WaitLeave(w)
      PROVE  MessageInv'
  BY <1>33 DEF WaitLeave, WGoto
<1>34. ASSUME NEW w \in Worker, CrashDangling(w)
      PROVE  MessageInv'
  BY <1>34, HeldIsCtx DEF CrashDangling, WGoto
<1>35. CASE UNCHANGED vars
  BY <1>35 DEF vars
<1> QED
  BY <1>1, <1>2, <1>3, <1>4, <1>5, <1>6, <1>7, <1>8, <1>9, <1>10, <1>11, <1>12, <1>13, <1>14, <1>15, <1>16, <1>17, <1>18, <1>19, <1>20, <1>21, <1>22, <1>23, <1>24, <1>25, <1>26, <1>27, <1>28, <1>29, <1>30, <1>31, <1>32, <1>33, <1>34, <1>35
  DEF Next, CtxStep, ClientRequest, ClientStep, WorkerStep, PopQueue

(* Handles lead to their ctx: Register writes both sides at once, UnRegister  *)
(* removes the way there and never the handle itself.                         *)

(* A handle that was given out stays given out. *)
LEMMA IdsStay ==
  ASSUME TypeOK, [Next]_vars
  PROVE  \A c \in Ctx : id[c] # None => id'[c] = id[c]
<1>1. ASSUME NEW c \in Ctx, Register(c)
      PROVE  \A d \in Ctx : id[d] # None => id'[d] = id[d]
  BY <1>1 DEF Register, TypeOK
<1>2. CASE UNCHANGED id
  BY <1>2
<1>3. (\E c \in Ctx : Register(c)) \/ UNCHANGED id
  BY DEF Next, vars, registryVars, CtxStep, InitQueue,
         ClientRequest, PushMessageByID, ReleaseCtxByID, FinishFunc,
         ClientStep, MQPushEnqueue, ReleaseCtxMark, PushGlobalQueue, FetchAdd,
         GlobalMQPush, Signal, CrashNullMgr,
         WorkerStep, PopQueue, TakeQueue, RotateTo, NextQueue, MQPopMessage,
         TakeNothing, FindNothing, FindCtx, MQPopRead, MQPopEmpty, MQPopGiveUp,
         MQPopRetry, DispatchMsg, RotateKeep, Requeue, RequeueSignal, UnRegister,
         NextNothing, WaitAnnounce, WaitSignalled, WaitTimeout, WaitLeave, CrashDangling
<1> QED
  BY <1>1, <1>2, <1>3

(* Handles that differ have differed before. *)
LEMMA DifferBefore ==
  ASSUME TypeOK, [Next]_vars, HandlesDiffer'
  PROVE  HandlesDiffer
BY IdsStay, NoneFacts DEF HandlesDiffer, TypeOK

(* A worker is not disturbed as long as its ctx stays registered, and no    *)
(* other worker begins to unregister it.                                    *)
LEMMA DispatchSame ==
  ASSUME TypeOK, DispatchInv, NEW v \in Worker,
         wpc'[v] = wpc[v], servicing'[v] = servicing[v], hand'[v] = hand[v],
         pctx'[v] = pctx[v], draining'[v] = draining[v], wmsg'[v] = wmsg[v],
         \A c \in Ctx : released[c] => released'[c],
         wpc[v] \in Popping => pctx[v] \in Ctx,
         wpc[v] \in Popping /\ ~draining[v] => Registered(pctx[v])',
         \A u \in Worker : wpc'[u] = "unregister" =>
           \/ wpc[u] = "unregister" /\ pctx'[u] = pctx[u]
           \/ pctx'[u] # pctx[v]
  PROVE  DispatchOK(v)'
BY DEF DispatchInv, DispatchOK, Working, Popping, Held, Registered

(* Nor by what other workers do with other ctxs.                            *)
LEMMA DispatchOthers ==
  ASSUME TypeOK, ControlInv, DispatchInv, NEW w \in Worker,
         UNCHANGED <<owner, id, released>>,
         \A v \in Worker : v # w =>
           /\ wpc'[v] = wpc[v] /\ servicing'[v] = servicing[v] /\ hand'[v] = hand[v]
           /\ pctx'[v] = pctx[v] /\ draining'[v] = draining[v] /\ wmsg'[v] = wmsg[v],
         wpc'[w] # "unregister",
         DispatchOK(w)'
  PROVE  DispatchInv'
<1> SUFFICES ASSUME NEW v \in Worker, v # w PROVE DispatchOK(v)'
  BY DEF DispatchInv
<1>1. /\ wpc'[v] = wpc[v] /\ servicing'[v] = servicing[v] /\ hand'[v] = hand[v]
      /\ pctx'[v] = pctx[v] /\ draining'[v] = draining[v] /\ wmsg'[v] = wmsg[v]
  OBVIOUS
<1>2. wpc[v] \in Popping => pctx[v] \in Ctx
  BY HeldIsCtx DEF DispatchInv, DispatchOK, Popping, Working, Held
<1>3. wpc[v] \in Popping /\ ~draining[v] => Registered(pctx[v])'
  BY DEF DispatchInv, DispatchOK, Registered
<1>4. \A u \in Worker : wpc'[u] = "unregister" => wpc[u] = "unregister" /\ pctx'[u] = pctx[u]
  OBVIOUS
<1> QED
  BY <1>1, <1>2, <1>3, <1>4, DispatchSame

(* Who has found a ctx by the handle of its queue has found the right one,  *)
(* and a ctx that was drained is not dispatched to again.                   *)
LEMMA DispatchStep ==
  ASSUME TypeOK, ControlInv, HandleInv, SingleConsumer, CountInv, HandlesDiffer, DispatchInv,
         [Next]_vars
  PROVE  DispatchInv'
<1> USE NoneFacts DEF registryVars, queueVars, clientVars, workerVars
<1>0. \A w \in Worker : wpc[w] \in Popping => pctx[w] \in Ctx
  BY HeldIsCtx DEF DispatchInv, DispatchOK, Popping, Working, Held
<1>100. ASSUME UNCHANGED workerVars, \A c \in Ctx : released[c] => released'[c],
               \A c \in Ctx : Registered(c) => Registered(c)'
        PROVE  DispatchInv'
  <2> SUFFICES ASSUME NEW v \in Worker PROVE DispatchOK(v)'
    BY DEF DispatchInv
  <2>1. wpc[v] \in Popping /\ ~draining[v] => Registered(pctx[v])'
    <3>1. wpc[v] \in Popping /\ ~draining[v] => Registered(pctx[v]) /\ pctx[v] \in Ctx
      BY <1>0 DEF DispatchInv, DispatchOK
    <3>2. pctx'[v] = pctx[v]
      BY <1>100
    <3> QED
      BY <1>100, <3>1, <3>2 DEF Registered
  <2> QED
    BY <1>0, <1>100, <2>1, DispatchSame
<1>1. ASSUME NEW c \in Ctx, Register(c)
      PROVE  DispatchInv'
  <2>1. \A d \in Ctx : Registered(d) => Registered(d)'
    BY <1>1 DEF Register, Registered, TypeOK
  <2> QED
    BY <1>1, <1>100, <2>1 DEF Register
<1>2. ASSUME NEW c \in Ctx, InitQueue(c)
      PROVE  DispatchInv'
  BY <1>2, <1>100, TargetIsCtx DEF InitQueue, Registered, TypeOK
<1>3. ASSUME NEW p \in Client, NEW i \in Id, NEW m \in Msg, PushMessageByID(p, i, m)
      PROVE  DispatchInv'
  BY <1>3, <1>100, TargetIsCtx DEF PushMessageByID, Registered, TypeOK
<1>4. ASSUME NEW p \in Client, NEW i \in Id, ReleaseCtxByID(p, i)
      PROVE  DispatchInv'
  BY <1>4, <1>100, TargetIsCtx DEF ReleaseCtxByID, Registered, TypeOK
<1>5. ASSUME NEW p \in Client, NEW i \in Id, FinishFunc(p, i)
      PROVE  DispatchInv'
  BY <1>5, <1>100, TargetIsCtx DEF FinishFunc, Registered, TypeOK
<1>6. ASSUME NEW p \in Client, MQPushEnqueue(p)
      PROVE  DispatchInv'
  BY <1>6, <1>100, TargetIsCtx DEF MQPushEnqueue, Registered, TypeOK
<1>7. ASSUME NEW p \in Client, ReleaseCtxMark(p)
      PROVE  DispatchInv'
  BY <1>7, <1>100, TargetIsCtx DEF ReleaseCtxMark, Registered, TypeOK
<1>8. ASSUME NEW p \in Client, PushGlobalQueue(p)
      PROVE  DispatchInv'
  BY <1>8, <1>100, TargetIsCtx DEF PushGlobalQueue, Registered, TypeOK
<1>9. ASSUME NEW p \in Client, FetchAdd(p)
      PROVE  DispatchInv'
  BY <1>9, <1>100, TargetIsCtx DEF FetchAdd, Registered, TypeOK
<1>10. ASSUME NEW p \in Client, GlobalMQPush(p)
      PROVE  DispatchInv'
  BY <1>10, <1>100, TargetIsCtx DEF GlobalMQPush, Registered, TypeOK
<1>11. ASSUME NEW p \in Client, Signal(p)
      PROVE  DispatchInv'
  BY <1>11, <1>100, TargetIsCtx DEF Signal, Registered, TypeOK
<1>12. ASSUME NEW p \in Client, CrashNullMgr(p)
      PROVE  DispatchInv'
  BY <1>12, <1>100, TargetIsCtx DEF CrashNullMgr, Registered, TypeOK
<1>13. ASSUME NEW w \in Worker, NEW q \in Ctx, TakeQueue(w, q)
      PROVE  DispatchInv'
  <2>1. DispatchOK(w)'
    BY <1>13, HeldIsCtx DEF TakeQueue, DispatchInv, DispatchOK, Working, Popping, Held, Registered, TypeOK, TakeQueue, CanPop, WGoto
  <2>2. /\ \A v \in Worker : v # w =>
             /\ wpc'[v] = wpc[v] /\ servicing'[v] = servicing[v] /\ hand'[v] = hand[v]
             /\ pctx'[v] = pctx[v] /\ draining'[v] = draining[v] /\ wmsg'[v] = wmsg[v]
        /\ wpc'[w] # "unregister" /\ UNCHANGED <<owner, id, released>>
    BY <1>13 DEF TakeQueue, TypeOK, TakeQueue, CanPop, WGoto
  <2> QED
    BY <2>1, <2>2, DispatchOthers
<1>14. ASSUME NEW w \in Worker, NEW q \in Ctx, RotateTo(w, q)
      PROVE  DispatchInv'
  <2>1. DispatchOK(w)'
    BY <1>14, HeldIsCtx DEF RotateTo, DispatchInv, DispatchOK, Working, Popping, Held, Registered, TypeOK, RotateTo, CanPop, WGoto
  <2>2. /\ \A v \in Worker : v # w =>
             /\ wpc'[v] = wpc[v] /\ servicing'[v] = servicing[v] /\ hand'[v] = hand[v]
             /\ pctx'[v] = pctx[v] /\ draining'[v] = draining[v] /\ wmsg'[v] = wmsg[v]
        /\ wpc'[w] # "unregister" /\ UNCHANGED <<owner, id, released>>
    BY <1>14 DEF RotateTo, TypeOK, RotateTo, CanPop, WGoto
  <2> QED
    BY <2>1, <2>2, DispatchOthers
<1>15. ASSUME NEW w \in Worker, NEW q \in Ctx, NextQueue(w, q)
      PROVE  DispatchInv'
  <2>1. DispatchOK(w)'
    BY <1>15, HeldIsCtx DEF NextQueue, DispatchInv, DispatchOK, Working, Popping, Held, Registered, TypeOK, NextQueue, Return, WGoto, CanPop
  <2>2. /\ \A v \in Worker : v # w =>
             /\ wpc'[v] = wpc[v] /\ servicing'[v] = servicing[v] /\ hand'[v] = hand[v]
             /\ pctx'[v] = pctx[v] /\ draining'[v] = draining[v] /\ wmsg'[v] = wmsg[v]
        /\ wpc'[w] # "unregister" /\ UNCHANGED <<owner, id, released>>
    BY <1>15 DEF NextQueue, TypeOK, NextQueue, Return, WGoto, CanPop
  <2> QED
    BY <2>1, <2>2, DispatchOthers
<1>16. ASSUME NEW w \in Worker, NEW m \in Msg, MQPopMessage(w, m)
      PROVE  DispatchInv'
  <2>1. DispatchOK(w)'
    BY <1>16, HeldIsCtx DEF MQPopMessage, DispatchInv, DispatchOK, Working, Popping, Held, Registered, TypeOK, MQPopMessage, WGoto
  <2>2. /\ \A v \in Worker : v # w =>
             /\ wpc'[v] = wpc[v] /\ servicing'[v] = servicing[v] /\ hand'[v] = hand[v]
             /\ pctx'[v] = pctx[v] /\ draining'[v] = draining[v] /\ wmsg'[v] = wmsg[v]
        /\ wpc'[w] # "unregister" /\ UNCHANGED <<owner, id, released>>
    BY <1>16 DEF MQPopMessage, TypeOK, MQPopMessage, WGoto
  <2> QED
    BY <2>1, <2>2, DispatchOthers
<1>17. ASSUME NEW w \in Worker, TakeNothing(w)
      PROVE  DispatchInv'
  <2>1. DispatchOK(w)'
    BY <1>17, HeldIsCtx DEF TakeNothing, DispatchInv, DispatchOK, Working, Popping, Held, Registered, TypeOK, TakeNothing, Return, WGoto
  <2>2. /\ \A v \in Worker : v # w =>
             /\ wpc'[v] = wpc[v] /\ servicing'[v] = servicing[v] /\ hand'[v] = hand[v]
             /\ pctx'[v] = pctx[v] /\ draining'[v] = draining[v] /\ wmsg'[v] = wmsg[v]
        /\ wpc'[w] # "unregister" /\ UNCHANGED <<owner, id, released>>
    BY <1>17 DEF TakeNothing, TypeOK, TakeNothing, Return, WGoto
  <2> QED
    BY <2>1, <2>2, DispatchOthers
<1>18. ASSUME NEW w \in Worker, FindNothing(w)
      PROVE  DispatchInv'
  <2>1. DispatchOK(w)'
    BY <1>18, HeldIsCtx DEF FindNothing, DispatchInv, DispatchOK, Working, Popping, Held, Registered, TypeOK, FindNothing, WGoto
  <2>2. /\ \A v \in Worker : v # w =>
             /\ wpc'[v] = wpc[v] /\ servicing'[v] = servicing[v] /\ hand'[v] = hand[v]
             /\ pctx'[v] = pctx[v] /\ draining'[v] = draining[v] /\ wmsg'[v] = wmsg[v]
        /\ wpc'[w] # "unregister" /\ UNCHANGED <<owner, id, released>>
    BY <1>18 DEF FindNothing, TypeOK, FindNothing, WGoto
  <2> QED
    BY <2>1, <2>2, DispatchOthers
<1>19. ASSUME NEW w \in Worker, FindCtx(w)
      PROVE  DispatchInv'
  <2>3. PICK c \in Ctx : c = owner[id[Held(w)]] /\ c = Held(w) /\ id[c] \in Id
    <3>1. Held(w) \in Ctx /\ id[Held(w)] \in Id
      BY <1>19, HeldIsCtx, HeldHasId DEF FindCtx, Held
    <3>2. owner[id[Held(w)]] \in Ctx
      BY <1>19, <3>1 DEF FindCtx, TypeOK
    <3>3. id[owner[id[Held(w)]]] = id[Held(w)]
      BY <3>1, <3>2 DEF HandleInv
    <3> QED
      BY <3>1, <3>2, <3>3 DEF HandlesDiffer
  <2>4. /\ wpc[w] = "find" /\ wpc' = [wpc EXCEPT ![w] = "read"]
        /\ pctx' = [pctx EXCEPT ![w] = c] /\ draining' = [draining EXCEPT ![w] = released[c]]
        /\ UNCHANGED <<owner, id, released, hand, servicing>>
    BY <1>19, <2>3 DEF FindCtx, WGoto
  <2>5. ~released[c] => \A v \in Worker : wpc[v] = "unregister" => pctx[v] # c
    BY DEF DispatchInv, DispatchOK
  <2>1. DispatchOK(w)'
    BY <2>3, <2>4, <2>5 DEF DispatchOK, Working, Popping, Held, Registered, TypeOK
  <2>2. /\ \A v \in Worker : v # w =>
             /\ wpc'[v] = wpc[v] /\ servicing'[v] = servicing[v] /\ hand'[v] = hand[v]
             /\ pctx'[v] = pctx[v] /\ draining'[v] = draining[v] /\ wmsg'[v] = wmsg[v]
        /\ wpc'[w] # "unregister" /\ UNCHANGED <<owner, id, released>>
    BY <1>19 DEF FindCtx, TypeOK, FindCtx, WGoto
  <2> QED
    BY <2>1, <2>2, DispatchOthers
<1>20. ASSUME NEW w \in Worker, MQPopRead(w)
      PROVE  DispatchInv'
  <2>1. DispatchOK(w)'
    BY <1>20, HeldIsCtx DEF MQPopRead, DispatchInv, DispatchOK, Working, Popping, Held, Registered, TypeOK, MQPopRead, WGoto
  <2>2. /\ \A v \in Worker : v # w =>
             /\ wpc'[v] = wpc[v] /\ servicing'[v] = servicing[v] /\ hand'[v] = hand[v]
             /\ pctx'[v] = pctx[v] /\ draining'[v] = draining[v] /\ wmsg'[v] = wmsg[v]
        /\ wpc'[w] # "unregister" /\ UNCHANGED <<owner, id, released>>
    BY <1>20 DEF MQPopRead, TypeOK, MQPopRead, WGoto
  <2> QED
    BY <2>1, <2>2, DispatchOthers
<1>21. ASSUME NEW w \in Worker, MQPopEmpty(w)
      PROVE  DispatchInv'
  <2>1. DispatchOK(w)'
    BY <1>21, HeldIsCtx DEF MQPopEmpty, DispatchInv, DispatchOK, Working, Popping, Held, Registered, TypeOK, MQPopEmpty, WGoto
  <2>2. /\ \A v \in Worker : v # w =>
             /\ wpc'[v] = wpc[v] /\ servicing'[v] = servicing[v] /\ hand'[v] = hand[v]
             /\ pctx'[v] = pctx[v] /\ draining'[v] = draining[v] /\ wmsg'[v] = wmsg[v]
        /\ wpc'[w] # "unregister" /\ UNCHANGED <<owner, id, released>>
    BY <1>21 DEF MQPopEmpty, TypeOK, MQPopEmpty, WGoto
  <2> QED
    BY <2>1, <2>2, DispatchOthers
<1>22. ASSUME NEW w \in Worker, MQPopGiveUp(w)
      PROVE  DispatchInv'
  <2>1. DispatchOK(w)'
    BY <1>22, <1>0 DEF MQPopGiveUp, DispatchInv, DispatchOK, Working, Popping, Held, TypeOK, WGoto
  <2>2. ASSUME NEW v \in Worker, v # w
        PROVE  DispatchOK(v)'
    <3>1. /\ wpc'[v] = wpc[v] /\ servicing'[v] = servicing[v] /\ hand'[v] = hand[v]
          /\ pctx' = pctx /\ draining'[v] = draining[v] /\ wmsg'[v] = wmsg[v]
          /\ UNCHANGED <<owner, id, released>> /\ wpc[w] = "cas"
          /\ \A u \in Worker : u # w => wpc'[u] = wpc[u]
      BY <1>22, <2>2 DEF MQPopGiveUp, TypeOK, WGoto
    <3>2. wpc[v] \in Popping => pctx[v] # pctx[w]
      <4>1. wpc[v] \in Popping => pctx[v] = Held(v) /\ pctx[v] \in Ctx
        BY <1>0 DEF DispatchInv, DispatchOK, Popping, Working
      <4>2. pctx[w] = Held(w) /\ pctx[w] \in Ctx
        BY <1>0, <3>1 DEF DispatchInv, DispatchOK, Popping, Working
      <4>3. servicing[v] \in Manager /\ servicing[w] \in Manager
        BY DEF TypeOK
      <4> QED
        BY <2>2, <4>1, <4>2, <4>3 DEF SingleConsumer, WorkerHas, Held
    <3>3. wpc[v] \in Popping /\ ~draining[v] => Registered(pctx[v])'
      BY <3>1 DEF DispatchInv, DispatchOK, Registered
    <3> QED
      BY <3>1, <3>2, <3>3 DEF DispatchInv, DispatchOK, Popping, Working, Held, Registered
  <2> QED
    BY <2>1, <2>2 DEF DispatchInv
<1>23. ASSUME NEW w \in Worker, MQPopRetry(w)
      PROVE  DispatchInv'
  <2>1. DispatchOK(w)'
    BY <1>23, HeldIsCtx DEF MQPopRetry, DispatchInv, DispatchOK, Working, Popping, Held, Registered, TypeOK, MQPopRetry, WGoto
  <2>2. /\ \A v \in Worker : v # w =>
             /\ wpc'[v] = wpc[v] /\ servicing'[v] = servicing[v] /\ hand'[v] = hand[v]
             /\ pctx'[v] = pctx[v] /\ draining'[v] = draining[v] /\ wmsg'[v] = wmsg[v]
        /\ wpc'[w] # "unregister" /\ UNCHANGED <<owner, id, released>>
    BY <1>23 DEF MQPopRetry, TypeOK, MQPopRetry, WGoto
  <2> QED
    BY <2>1, <2>2, DispatchOthers
<1>24. ASSUME NEW w \in Worker, DispatchMsg(w)
      PROVE  DispatchInv'
  <2>1. DispatchOK(w)'
    BY <1>24, HeldIsCtx DEF DispatchMsg, DispatchInv, DispatchOK, Working, Popping, Held, Registered, TypeOK, DispatchMsg, WGoto
  <2>2. /\ \A v \in Worker : v # w =>
             /\ wpc'[v] = wpc[v] /\ servicing'[v] = servicing[v] /\ hand'[v] = hand[v]
             /\ pctx'[v] = pctx[v] /\ draining'[v] = draining[v] /\ wmsg'[v] = wmsg[v]
        /\ wpc'[w] # "unregister" /\ UNCHANGED <<owner, id, released>>
    BY <1>24 DEF DispatchMsg, TypeOK, DispatchMsg, WGoto
  <2> QED
    BY <2>1, <2>2, DispatchOthers
<1>25. ASSUME NEW w \in Worker, RotateKeep(w)
      PROVE  DispatchInv'
  <2>1. DispatchOK(w)'
    BY <1>25, HeldIsCtx DEF RotateKeep, DispatchInv, DispatchOK, Working, Popping, Held, Registered, TypeOK, RotateKeep, Return, WGoto
  <2>2. /\ \A v \in Worker : v # w =>
             /\ wpc'[v] = wpc[v] /\ servicing'[v] = servicing[v] /\ hand'[v] = hand[v]
             /\ pctx'[v] = pctx[v] /\ draining'[v] = draining[v] /\ wmsg'[v] = wmsg[v]
        /\ wpc'[w] # "unregister" /\ UNCHANGED <<owner, id, released>>
    BY <1>25 DEF RotateKeep, TypeOK, RotateKeep, Return, WGoto
  <2> QED
    BY <2>1, <2>2, DispatchOthers
<1>26. ASSUME NEW w \in Worker, Requeue(w)
      PROVE  DispatchInv'
  <2>1. DispatchOK(w)'
    BY <1>26, HeldIsCtx DEF Requeue, DispatchInv, DispatchOK, Working, Popping, Held, Registered, TypeOK, Requeue, WGoto
  <2>2. /\ \A v \in Worker : v # w =>
             /\ wpc'[v] = wpc[v] /\ servicing'[v] = servicing[v] /\ hand'[v] = hand[v]
             /\ pctx'[v] = pctx[v] /\ draining'[v] = draining[v] /\ wmsg'[v] = wmsg[v]
        /\ wpc'[w] # "unregister" /\ UNCHANGED <<owner, id, released>>
    BY <1>26 DEF Requeue, TypeOK, Requeue, WGoto
  <2> QED
    BY <2>1, <2>2, DispatchOthers
<1>27. ASSUME NEW w \in Worker, RequeueSignal(w)
      PROVE  DispatchInv'
  <2>1. DispatchOK(w)'
    BY <1>27, HeldIsCtx DEF RequeueSignal, DispatchInv, DispatchOK, Working, Popping, Held, Registered, TypeOK, RequeueSignal, Return, WGoto, SetEventIfWaited
  <2>2. /\ \A v \in Worker : v # w =>
             /\ wpc'[v] = wpc[v] /\ servicing'[v] = servicing[v] /\ hand'[v] = hand[v]
             /\ pctx'[v] = pctx[v] /\ draining'[v] = draining[v] /\ wmsg'[v] = wmsg[v]
        /\ wpc'[w] # "unregister" /\ UNCHANGED <<owner, id, released>>
    BY <1>27 DEF RequeueSignal, TypeOK, RequeueSignal, Return, WGoto, SetEventIfWaited
  <2> QED
    BY <2>1, <2>2, DispatchOthers
<1>28. ASSUME NEW w \in Worker, UnRegister(w)
      PROVE  DispatchInv'
  <2>1. DispatchOK(w)'
    BY <1>28 DEF UnRegister, DispatchOK, Working, Popping, TypeOK, WGoto
  <2>2. ASSUME NEW v \in Worker, v # w
        PROVE  DispatchOK(v)'
    <3>1. /\ wpc'[v] = wpc[v] /\ servicing'[v] = servicing[v] /\ hand'[v] = hand[v]
          /\ pctx' = pctx /\ draining'[v] = draining[v] /\ wmsg'[v] = wmsg[v]
          /\ UNCHANGED <<id, released>> /\ wpc[w] = "unregister" /\ wpc'[w] = "next"
          /\ owner' = [owner EXCEPT ![id[pctx[w]]] = None]
          /\ \A u \in Worker : u # w => wpc'[u] = wpc[u]
      BY <1>28, <2>2 DEF UnRegister, TypeOK, WGoto
    <3>2. wpc[v] \in Popping /\ ~draining[v] => Registered(pctx[v])'
      <4> SUFFICES ASSUME wpc[v] \in Popping, ~draining[v] PROVE Registered(pctx[v])'
        OBVIOUS
      <4>1. /\ pctx[v] \in Ctx /\ pctx[w] \in Ctx /\ pctx[v] # pctx[w]
            /\ Registered(pctx[v])
        BY <1>0, <3>1 DEF DispatchInv, DispatchOK
      <4>2. id[pctx[v]] # id[pctx[w]] /\ id[pctx[v]] \in Id
        BY <4>1 DEF HandlesDiffer, Registered, TypeOK
      <4> QED
        BY <3>1, <4>1, <4>2 DEF Registered, TypeOK
    <3> QED
      BY <1>0, <3>1, <3>2, DispatchSame
  <2> QED
    BY <2>1, <2>2 DEF DispatchInv
<1>29. ASSUME NEW w \in Worker, NextNothing(w)
      PROVE  DispatchInv'
  <2>1. DispatchOK(w)'
    BY <1>29, HeldIsCtx DEF NextNothing, DispatchInv, DispatchOK, Working, Popping, Held, Registered, TypeOK, NextNothing, Return, WGoto
  <2>2. /\ \A v \in Worker : v # w =>
             /\ wpc'[v] = wpc[v] /\ servicing'[v] = servicing[v] /\ hand'[v] = hand[v]
             /\ pctx'[v] = pctx[v] /\ draining'[v] = draining[v] /\ wmsg'[v] = wmsg[v]
        /\ wpc'[w] # "unregister" /\ UNCHANGED <<owner, id, released>>
    BY <1>29 DEF NextNothing, TypeOK, NextNothing, Return, WGoto
  <2> QED
    BY <2>1, <2>2, DispatchOthers
<1>30. ASSUME NEW w \in Worker, WaitAnnounce(w)
      PROVE  DispatchInv'
  <2>1. DispatchOK(w)'
    BY <1>30, HeldIsCtx DEF WaitAnnounce, DispatchInv, DispatchOK, Working, Popping, Held, Registered, TypeOK, WaitAnnounce, WGoto
  <2>2. /\ \A v \in Worker : v # w =>
             /\ wpc'[v] = wpc[v] /\ servicing'[v] = servicing[v] /\ hand'[v] = hand[v]
             /\ pctx'[v] = pctx[v] /\ draining'[v] = draining[v] /\ wmsg'[v] = wmsg[v]
        /\ wpc'[w] # "unregister" /\ UNCHANGED <<owner, id, released>>
    BY <1>30 DEF WaitAnnounce, TypeOK, WaitAnnounce, WGoto
  <2> QED
    BY <2>1, <2>2, DispatchOthers
<1>31. ASSUME NEW w \in Worker, WaitSignalled(w)
      PROVE  DispatchInv'
  <2>1. DispatchOK(w)'
    BY <1>31, HeldIsCtx DEF WaitSignalled, DispatchInv, DispatchOK, Working, Popping, Held, Registered, TypeOK, WaitSignalled, WGoto
  <2>2. /\ \A v \in Worker : v # w =>
             /\ wpc'[v] = wpc[v] /\ servicing'[v] = servicing[v] /\ hand'[v] = hand[v]
             /\ pctx'[v] = pctx[v] /\ draining'[v] = draining[v] /\ wmsg'[v] = wmsg[v]
        /\ wpc'[w] # "unregister" /\ UNCHANGED <<owner, id, released>>
    BY <1>31 DEF WaitSignalled, TypeOK, WaitSignalled, WGoto
  <2> QED
    BY <2>1, <2>2, DispatchOthers
<1>32. ASSUME NEW w \in Worker, WaitTimeout(w)
      PROVE  DispatchInv'
  <2>1. DispatchOK(w)'
    BY <1>32, HeldIsCtx DEF WaitTimeout, DispatchInv, DispatchOK, Working, Popping, Held, Registered, TypeOK, WaitTimeout, WGoto
  <2>2. /\ \A v \in Worker : v # w =>
             /\ wpc'[v] = wpc[v] /\ servicing'[v] = servicing[v] /\ hand'[v] = hand[v]
             /\ pctx'[v] = pctx[v] /\ draining'[v] = draining[v] /\ wmsg'[v] = wmsg[v]
        /\ wpc'[w] # "unregister" /\ UNCHANGED <<owner, id, released>>
    BY <1>32 DEF WaitTimeout, TypeOK, WaitTimeout, WGoto
  <2> QED
    BY <2>1, <2>2, DispatchOthers
<1>33. ASSUME NEW w \in Worker, WaitLeave(w)
      PROVE  DispatchInv'
  <2>1. DispatchOK(w)'
    BY <1>33, HeldIsCtx DEF WaitLeave, DispatchInv, DispatchOK, Working, Popping, Held, Registered, TypeOK, WaitLeave, WGoto
  <2>2. /\ \A v \in Worker : v # w =>
             /\ wpc'[v] = wpc[v] /\ servicing'[v] = servicing[v] /\ hand'[v] = hand[v]
             /\ pctx'[v] = pctx[v] /\ draining'[v] = draining[v] /\ wmsg'[v] = wmsg[v]
        /\ wpc'[w] # "unregister" /\ UNCHANGED <<owner, id, released>>
    BY <1>33 DEF WaitLeave, TypeOK, WaitLeave, WGoto
  <2> QED
    BY <2>1, <2>2, DispatchOthers
<1>34. ASSUME NEW w \in Worker, CrashDangling(w)
      PROVE  DispatchInv'
  <2>1. DispatchOK(w)'
    BY <1>34, HeldIsCtx DEF CrashDangling, DispatchInv, DispatchOK, Working, Popping, Held, Registered, TypeOK, CrashDangling, WGoto
  <2>2. /\ \A v \in Worker : v # w =>
             /\ wpc'[v] = wpc[v] /\ servicing'[v] = servicing[v] /\ hand'[v] = hand[v]
             /\ pctx'[v] = pctx[v] /\ draining'[v] = draining[v] /\ wmsg'[v] = wmsg[v]
        /\ wpc'[w] # "unregister" /\ UNCHANGED <<owner, id, released>>
    BY <1>34 DEF CrashDangling, TypeOK, CrashDangling, WGoto
  <2> QED
    BY <2>1, <2>2, DispatchOthers
<1>35. CASE UNCHANGED vars
  BY <1>35, <1>100 DEF vars, Registered
<1> QED
  BY <1>1, <1>2, <1>3, <1>4, <1>5, <1>6, <1>7, <1>8, <1>9, <1>10, <1>11, <1>12, <1>13, <1>14, <1>15, <1>16, <1>17, <1>18, <1>19, <1>20, <1>21, <1>22, <1>23, <1>24, <1>25, <1>26, <1>27, <1>28, <1>29, <1>30, <1>31, <1>32, <1>33, <1>34, <1>35
  DEF Next, CtxStep, ClientRequest, ClientStep, WorkerStep, PopQueue

(* Handles lead to their ctx: Register writes both sides at once, UnRegister  *)
(* removes the way there and never the handle itself.                         *)

(* Init puts no queue anywhere and leads the boot handles to their ctxs. *)
LEMMA InitIInv == Init => IInv
<1> SUFFICES ASSUME Init PROVE IInv
  OBVIOUS
<1> USE DEF Init
<1>1. \A i \in Id : /\ owner[i] \in Ctx \cup {None}
                    /\ owner[i] # None => id[owner[i]] = i
  BY ConstantsAssumption
<1>2. TypeOK
  <2>1. /\ owner \in [Id -> Ctx \cup {None}]
        /\ id \in [Ctx -> Id \cup {None}]
    BY <1>1, ConstantsAssumption
  <2>2. /\ addTimes \in [Ctx -> 0..MaxAddTimes]
        /\ seen \in [Worker -> 0..MaxAddTimes]
        /\ packet \in [Worker -> 0..PacketNumber - 1]
        /\ inMgr \in [Ctx -> Nat]
    BY Bounds
  <2>3. /\ cpc \in [Client -> ClientPC] /\ wpc \in [Worker -> WorkerPC]
        /\ servicing \in [Worker -> Manager]
    BY ManagerFacts DEF ClientPC, WorkerPC
  <2> QED
    BY <2>1, <2>2, <2>3 DEF TypeOK
<1>3. ControlInv
  BY ConstantsAssumption DEF ControlInv, HoldsQueue, HoldsNothing, Held, Manager
<1>4. HandleInv
  BY <1>1, ConstantsAssumption DEF HandleInv
<1>5. SingleConsumer /\ CountInv /\ GiveUpInv
  BY ConstantsAssumption
  DEF SingleConsumer, CountInv, GiveUpInv, Scheduled, WorkerHas, ClientHas, Manager
<1>6. MessageInv /\ DispatchInv
  BY DEF MessageInv, DispatchInv, DispatchOK, Working, Popping
<1> QED
  BY <1>2, <1>3, <1>4, <1>5, <1>6 DEF IInv

(* The invariant holds in every state of the scheduler: handles and ctxs,    *)
(* counters and queues, and the threads' places in the code stay consistent  *)
(* through every interleaving.                                               *)
THEOREM Invariance == Spec => []IInv
<1>1. Init => IInv
  BY InitIInv
<1>2. IInv /\ [Next]_vars => IInv'
  BY TypeStep, ControlStep, HandleStep, ConsumerStep, CountStep, GiveUpStep,
     MessageStep, DifferBefore, DispatchStep DEF IInv
<1> QED
  BY <1>1, <1>2, PTL DEF Spec

(* Type correctness of the registry, the queues, the clients and the workers. *)
THEOREM TypeCorrect == Spec => []TypeOK
<1>1. IInv => TypeOK
  BY DEF IInv
<1> QED
  BY <1>1, Invariance, PTL

(* MQPop never has two callers for one queue: whatever pushes, releases and   *)
(* kicks run at once, a queue is in one place only.                           *)
THEOREM ConsumerIsSingle == Spec => []SingleConsumer
<1>1. IInv => SingleConsumer
  BY DEF IInv
<1> QED
  BY <1>1, Invariance, PTL

(* The counter and the compare-exchange of MQPop lose no wake-up: a message   *)
(* of a registered ctx always has somebody on the way to it.                  *)
THEOREM NothingStranded == Spec => []NoMessageStranded
<1>1. IInv => NoMessageStranded
  <2> SUFFICES ASSUME IInv, NEW c \in Ctx, Registered(c), NEW m \in msgs[c]
               PROVE  \/ Scheduled(c)
                      \/ \E p \in Client : cpc[p] = "add" /\ target[p] = c
    BY DEF NoMessageStranded
  <2>1. m \in Msg /\ addTimes[c] \in Nat
    BY DEF IInv, TypeOK
  <2>2. CASE addTimes[c] = 0
    BY <2>1, <2>2 DEF IInv, GiveUpInv
  <2>3. CASE addTimes[c] > 0
    BY <2>3 DEF IInv, CountInv
  <2> QED
    BY <2>1, <2>2, <2>3
<1> QED
  BY <1>1, Invariance, PTL

(***************************************************************************)
(* One thread for each ctx, and its mailbox.                               *)
(***************************************************************************)
(* "Code as single thread, no lock" (README.md:4): as long as no handle    *)
(* was given to a second ctx the handle of a queue leads to its own ctx,   *)
(* and a queue is with one worker.                                         *)
LEMMA OneHandler ==
  ASSUME IInv, HandlesDiffer
  PROVE  OneThreadPerCtx
<1>1. ASSUME NEW v \in Worker, NEW w \in Worker,
             wpc[v] = "dispatch", wpc[w] = "dispatch", pctx[v] = pctx[w]
      PROVE  v = w
  <2>1. Held(v) = Held(w) /\ Held(v) \in Ctx
    BY <1>1, HeldIsCtx DEF IInv, DispatchInv, DispatchOK, Working, Held
  <2>2. servicing[v] \in Manager /\ servicing[w] \in Manager
    BY DEF IInv, TypeOK
  <2> QED
    BY <1>1, <2>1, <2>2 DEF IInv, SingleConsumer, WorkerHas, Held
<1> QED
  BY <1>1 DEF OneThreadPerCtx

(* And a ctx is unregistered behind its last message: who dispatches has   *)
(* read that it was not released, and has kept its queue since.            *)
LEMMA HandlerRegistered ==
  ASSUME IInv, HandlesDiffer
  PROVE  DispatchRegistered
BY DEF IInv, DispatchRegistered, DispatchInv, DispatchOK, Popping

(* The handlers of a ctx run one at a time and in a registered ctx, until  *)
(* a handle is given to a second ctx.                                      *)
THEOREM OneThread == Spec => []OneThreadUnlessReused
<1>1. IInv => OneThreadUnlessReused
  BY OneHandler, HandlerRegistered DEF OneThreadUnlessReused
<1> QED
  BY <1>1, Invariance, PTL

(* What the mailbox of CtxMailbox handles. *)
Handling == [c \in Ctx |-> {wmsg[w] : w \in {v \in Worker : wpc[v] = "dispatch" /\ Held(v) = c}}]

HandledIn(c, m) == \E w \in Worker : wpc[w] = "dispatch" /\ Held(w) = c /\ wmsg[w] = m

(* Whether a message is handled in c. *)
LEMMA HandlingFacts ==
  ASSUME NEW c \in Ctx, NEW m
  PROVE  m \in Handling[c] <=> HandledIn(c, m)
BY DEF Handling, HandledIn

(* What is handled changes when a handler begins or ends. *)
LEMMA HandlingSame ==
  ASSUME \A v \in Worker :
           /\ wpc'[v] = "dispatch" <=> wpc[v] = "dispatch"
           /\ wpc[v] = "dispatch" =>
                /\ hand'[v] = hand[v] /\ servicing'[v] = servicing[v] /\ wmsg'[v] = wmsg[v]
  PROVE  Handling' = Handling
<1>1. ASSUME NEW c \in Ctx
      PROVE  Handling'[c] = Handling[c]
  <2>1. ASSUME NEW m PROVE HandledIn(c, m)' <=> HandledIn(c, m)
    BY DEF HandledIn, Held
  <2> QED
    BY <2>1 DEF Handling, HandledIn
<1> QED
  BY <1>1 DEF Handling

(* The actions of the mailbox, of what is handled here. *)
LEMMA MailboxActions ==
  ASSUME NEW c \in Ctx, NEW m \in Msg
  PROVE  /\ /\ \A d \in Ctx : m \notin msgs[d] \cup Handling[d]
            /\ msgs' = [msgs EXCEPT ![c] = @ \cup {m}]
            /\ Handling' = Handling /\ released' = released
            => Mailbox!Post(c, m)
         /\ /\ Handling[c] = {} /\ m \in msgs[c]
            /\ msgs' = [msgs EXCEPT ![c] = @ \ {m}]
            /\ Handling' = [Handling EXCEPT ![c] = {m}] /\ released' = released
            => Mailbox!Begin(c, m)
         /\ /\ Handling[c] = {m}
            /\ Handling' = [Handling EXCEPT ![c] = {}]
            /\ msgs' = msgs /\ released' = released
            => Mailbox!End(c, m)
         /\ /\ released[c] /\ m \in msgs[c]
            /\ msgs' = [msgs EXCEPT ![c] = @ \ {m}]
            /\ Handling' = Handling /\ released' = released
            => Mailbox!Discard(c, m)
BY DEF Mailbox!Post, Mailbox!Fresh, Mailbox!Begin, Mailbox!End, Mailbox!Discard, Handling

(* The mailboxes do not change when none of their parts does. *)
LEMMA MailboxStutters ==
  ASSUME msgs' = msgs, Handling' = Handling, released' = released
  PROVE  UNCHANGED Mailbox!vars
BY DEF Mailbox!vars, Handling

(* A mailbox is closed by the mark alone. *)
LEMMA MailboxClose ==
  ASSUME NEW c \in Ctx, released' = [released EXCEPT ![c] = TRUE],
         msgs' = msgs, Handling' = Handling
  PROVE  Mailbox!Close(c)
BY DEF Mailbox!Close, Handling

(* A worker that neither begins nor ends a handler. *)
LEMMA HandlingOthers ==
  ASSUME NEW w \in Worker, wpc[w] # "dispatch", wpc'[w] # "dispatch",
         \A v \in Worker : v # w =>
           /\ wpc'[v] = wpc[v] /\ servicing'[v] = servicing[v] /\ hand'[v] = hand[v]
           /\ wmsg'[v] = wmsg[v]
  PROVE  Handling' = Handling
<1>1. ASSUME NEW v \in Worker
      PROVE  /\ wpc'[v] = "dispatch" <=> wpc[v] = "dispatch"
             /\ wpc[v] = "dispatch" =>
                  /\ hand'[v] = hand[v] /\ servicing'[v] = servicing[v] /\ wmsg'[v] = wmsg[v]
  OBVIOUS
<1> QED
  BY <1>1, HandlingSame

(* A step of the scheduler is one of the mailboxes, or none. *)
LEMMA MailboxStep ==
  ASSUME IInv, HandlesDiffer, [Next]_vars
  PROVE  [Mailbox!Next]_(Mailbox!vars)
<1> USE NoneFacts DEF registryVars, queueVars, clientVars, workerVars
<1>0. /\ TypeOK /\ ControlInv /\ SingleConsumer /\ MessageInv /\ DispatchInv
  BY DEF IInv
<1>100. ASSUME UNCHANGED <<msgs, released, workerVars>>
        PROVE  UNCHANGED Mailbox!vars
  <2>1. Handling' = Handling
    BY <1>100, HandlingSame
  <2> QED
    BY <1>100, <2>1, MailboxStutters
<1>1. ASSUME NEW c \in Ctx, Register(c)
      PROVE  [Mailbox!Next]_(Mailbox!vars)
  BY <1>1, <1>100 DEF Register
<1>2. ASSUME NEW c \in Ctx, InitQueue(c)
      PROVE  [Mailbox!Next]_(Mailbox!vars)
  BY <1>2, <1>100 DEF InitQueue
<1>3. ASSUME NEW p \in Client, NEW i \in Id, NEW m \in Msg, PushMessageByID(p, i, m)
      PROVE  [Mailbox!Next]_(Mailbox!vars)
  BY <1>3, <1>100 DEF PushMessageByID
<1>4. ASSUME NEW p \in Client, NEW i \in Id, ReleaseCtxByID(p, i)
      PROVE  [Mailbox!Next]_(Mailbox!vars)
  BY <1>4, <1>100 DEF ReleaseCtxByID
<1>5. ASSUME NEW p \in Client, NEW i \in Id, FinishFunc(p, i)
      PROVE  [Mailbox!Next]_(Mailbox!vars)
  BY <1>5, <1>100 DEF FinishFunc
<1>6. ASSUME NEW p \in Client, MQPushEnqueue(p)
      PROVE  [Mailbox!Next]_(Mailbox!vars)
  <2> DEFINE c == target[p]
             m == cmsg[p]
  <2>1. /\ c \in Ctx /\ m \in Msg /\ cpc[p] = "enqueue"
        /\ msgs' = [msgs EXCEPT ![c] = @ \cup {m}] /\ released' = released
        /\ UNCHANGED workerVars
    BY <1>0, <1>6, TargetIsCtx DEF MQPushEnqueue, ControlInv
  <2>2. Handling' = Handling
    BY <2>1, HandlingSame
  <2>3. ASSUME NEW d \in Ctx
        PROVE  m \notin msgs[d] \cup Handling[d]
    <3>1. m \notin msgs[d] /\ \A w \in Worker : wmsg[w] # m
      BY <1>0, <2>1 DEF MessageInv
    <3> HIDE DEF m
    <3> QED
      BY <3>1, HandlingFacts DEF HandledIn
  <2> HIDE DEF c, m
  <2> QED
    BY <2>1, <2>2, <2>3, MailboxActions DEF Mailbox!Next
<1>7. ASSUME NEW p \in Client, ReleaseCtxMark(p)
      PROVE  [Mailbox!Next]_(Mailbox!vars)
  <2>1. /\ target[p] \in Ctx
        /\ released' = [released EXCEPT ![target[p]] = TRUE] /\ msgs' = msgs
        /\ UNCHANGED workerVars
    BY <1>0, <1>7, TargetIsCtx DEF ReleaseCtxMark
  <2>2. Handling' = Handling
    BY <2>1, HandlingSame
  <2> QED
    BY <2>1, <2>2, MailboxClose DEF Mailbox!Next
<1>8. ASSUME NEW p \in Client, PushGlobalQueue(p)
      PROVE  [Mailbox!Next]_(Mailbox!vars)
  BY <1>8, <1>100 DEF PushGlobalQueue
<1>9. ASSUME NEW p \in Client, FetchAdd(p)
      PROVE  [Mailbox!Next]_(Mailbox!vars)
  BY <1>9, <1>100 DEF FetchAdd
<1>10. ASSUME NEW p \in Client, GlobalMQPush(p)
      PROVE  [Mailbox!Next]_(Mailbox!vars)
  BY <1>10, <1>100 DEF GlobalMQPush
<1>11. ASSUME NEW p \in Client, Signal(p)
      PROVE  [Mailbox!Next]_(Mailbox!vars)
  BY <1>11, <1>100 DEF Signal
<1>12. ASSUME NEW p \in Client, CrashNullMgr(p)
      PROVE  [Mailbox!Next]_(Mailbox!vars)
  BY <1>12, <1>100 DEF CrashNullMgr
<1>13. ASSUME NEW w \in Worker, NEW q \in Ctx, TakeQueue(w, q)
      PROVE  [Mailbox!Next]_(Mailbox!vars)
  <2>1. /\ wpc[w] # "dispatch" /\ wpc'[w] # "dispatch"
        /\ \A v \in Worker : v # w =>
             /\ wpc'[v] = wpc[v] /\ servicing'[v] = servicing[v] /\ hand'[v] = hand[v]
             /\ wmsg'[v] = wmsg[v]
        /\ UNCHANGED <<msgs, released>>
    BY <1>0, <1>13 DEF TakeQueue, TypeOK, TakeQueue, CanPop, WGoto
  <2> QED
    BY <2>1, HandlingOthers, MailboxStutters
<1>14. ASSUME NEW w \in Worker, NEW q \in Ctx, RotateTo(w, q)
      PROVE  [Mailbox!Next]_(Mailbox!vars)
  <2>1. /\ wpc[w] # "dispatch" /\ wpc'[w] # "dispatch"
        /\ \A v \in Worker : v # w =>
             /\ wpc'[v] = wpc[v] /\ servicing'[v] = servicing[v] /\ hand'[v] = hand[v]
             /\ wmsg'[v] = wmsg[v]
        /\ UNCHANGED <<msgs, released>>
    BY <1>0, <1>14 DEF RotateTo, TypeOK, RotateTo, CanPop, WGoto
  <2> QED
    BY <2>1, HandlingOthers, MailboxStutters
<1>15. ASSUME NEW w \in Worker, NEW q \in Ctx, NextQueue(w, q)
      PROVE  [Mailbox!Next]_(Mailbox!vars)
  <2>1. /\ wpc[w] # "dispatch" /\ wpc'[w] # "dispatch"
        /\ \A v \in Worker : v # w =>
             /\ wpc'[v] = wpc[v] /\ servicing'[v] = servicing[v] /\ hand'[v] = hand[v]
             /\ wmsg'[v] = wmsg[v]
        /\ UNCHANGED <<msgs, released>>
    BY <1>0, <1>15 DEF NextQueue, TypeOK, NextQueue, Return, WGoto, CanPop
  <2> QED
    BY <2>1, HandlingOthers, MailboxStutters
<1>16. ASSUME NEW w \in Worker, NEW m \in Msg, MQPopMessage(w, m)
      PROVE  [Mailbox!Next]_(Mailbox!vars)
  <2> DEFINE c == Held(w)
  <2>1. /\ wpc[w] = "dequeue" /\ c \in Ctx /\ m \in msgs[c] /\ released' = released
        /\ msgs' = [msgs EXCEPT ![c] = @ \ {m}]
        /\ hand' = hand /\ servicing' = servicing
        /\ \/ /\ draining[w] /\ wpc' = [wpc EXCEPT ![w] = "read"] /\ wmsg' = wmsg
           \/ /\ ~draining[w] /\ wpc' = [wpc EXCEPT ![w] = "dispatch"]
              /\ wmsg' = [wmsg EXCEPT ![w] = m]
    BY <1>0, <1>16, HeldIsCtx DEF MQPopMessage, WGoto, Held
  <2>2. pctx[w] = c /\ (draining[w] => released[c])
    BY <1>0, <2>1 DEF DispatchInv, DispatchOK, Working, Popping
  <2>3. \A v \in Worker : v # w => Held(v) # c \/ wpc[v] # "dispatch"
    <3>1. servicing[w] \in Manager /\ \A v \in Worker : servicing[v] \in Manager
      BY <1>0 DEF TypeOK
    <3> QED
      BY <1>0, <2>1, <3>1 DEF SingleConsumer, WorkerHas, Held
  <2>4. CASE draining[w]
    <3>1. Handling' = Handling
      BY <1>0, <2>1, <2>4, HandlingOthers DEF TypeOK
    <3> QED
      BY <2>1, <2>2, <2>4, <3>1, MailboxActions DEF Mailbox!Next
  <2>5. CASE ~draining[w]
    <3>0. Handling[c] = {}
      <4>1. ASSUME NEW x PROVE x \notin Handling[c]
        BY <2>1, <2>3, HandlingFacts DEF HandledIn
      <4> QED
        BY <4>1
    <3>1. Handling' = [Handling EXCEPT ![c] = {m}]
      <4>1. ASSUME NEW d \in Ctx, NEW x
            PROVE  HandledIn(d, x)' <=> IF d = c THEN x = m ELSE HandledIn(d, x)
        BY <1>0, <2>1, <2>3, <2>5 DEF HandledIn, Held, TypeOK
      <4>2. ASSUME NEW d \in Ctx
            PROVE  Handling'[d] = IF d = c THEN {m} ELSE Handling[d]
        <5>1. \A x : x \in Handling'[d] <=> HandledIn(d, x)'
          BY DEF Handling, HandledIn
        <5> QED
          BY <4>1, <5>1, HandlingFacts
      <4> QED
        BY <2>1, <4>2 DEF Handling
    <3> HIDE DEF c
    <3> QED
      BY <2>1, <3>0, <3>1, MailboxActions DEF Mailbox!Next
  <2> QED
    BY <2>4, <2>5
<1>17. ASSUME NEW w \in Worker, TakeNothing(w)
      PROVE  [Mailbox!Next]_(Mailbox!vars)
  <2>1. /\ wpc[w] # "dispatch" /\ wpc'[w] # "dispatch"
        /\ \A v \in Worker : v # w =>
             /\ wpc'[v] = wpc[v] /\ servicing'[v] = servicing[v] /\ hand'[v] = hand[v]
             /\ wmsg'[v] = wmsg[v]
        /\ UNCHANGED <<msgs, released>>
    BY <1>0, <1>17 DEF TakeNothing, TypeOK, TakeNothing, Return, WGoto
  <2> QED
    BY <2>1, HandlingOthers, MailboxStutters
<1>18. ASSUME NEW w \in Worker, FindNothing(w)
      PROVE  [Mailbox!Next]_(Mailbox!vars)
  <2>1. /\ wpc[w] # "dispatch" /\ wpc'[w] # "dispatch"
        /\ \A v \in Worker : v # w =>
             /\ wpc'[v] = wpc[v] /\ servicing'[v] = servicing[v] /\ hand'[v] = hand[v]
             /\ wmsg'[v] = wmsg[v]
        /\ UNCHANGED <<msgs, released>>
    BY <1>0, <1>18 DEF FindNothing, TypeOK, FindNothing, WGoto
  <2> QED
    BY <2>1, HandlingOthers, MailboxStutters
<1>19. ASSUME NEW w \in Worker, FindCtx(w)
      PROVE  [Mailbox!Next]_(Mailbox!vars)
  <2>1. /\ wpc[w] # "dispatch" /\ wpc'[w] # "dispatch"
        /\ \A v \in Worker : v # w =>
             /\ wpc'[v] = wpc[v] /\ servicing'[v] = servicing[v] /\ hand'[v] = hand[v]
             /\ wmsg'[v] = wmsg[v]
        /\ UNCHANGED <<msgs, released>>
    BY <1>0, <1>19 DEF FindCtx, TypeOK, FindCtx, WGoto
  <2> QED
    BY <2>1, HandlingOthers, MailboxStutters
<1>20. ASSUME NEW w \in Worker, MQPopRead(w)
      PROVE  [Mailbox!Next]_(Mailbox!vars)
  <2>1. /\ wpc[w] # "dispatch" /\ wpc'[w] # "dispatch"
        /\ \A v \in Worker : v # w =>
             /\ wpc'[v] = wpc[v] /\ servicing'[v] = servicing[v] /\ hand'[v] = hand[v]
             /\ wmsg'[v] = wmsg[v]
        /\ UNCHANGED <<msgs, released>>
    BY <1>0, <1>20 DEF MQPopRead, TypeOK, MQPopRead, WGoto
  <2> QED
    BY <2>1, HandlingOthers, MailboxStutters
<1>21. ASSUME NEW w \in Worker, MQPopEmpty(w)
      PROVE  [Mailbox!Next]_(Mailbox!vars)
  <2>1. /\ wpc[w] # "dispatch" /\ wpc'[w] # "dispatch"
        /\ \A v \in Worker : v # w =>
             /\ wpc'[v] = wpc[v] /\ servicing'[v] = servicing[v] /\ hand'[v] = hand[v]
             /\ wmsg'[v] = wmsg[v]
        /\ UNCHANGED <<msgs, released>>
    BY <1>0, <1>21 DEF MQPopEmpty, TypeOK, MQPopEmpty, WGoto
  <2> QED
    BY <2>1, HandlingOthers, MailboxStutters
<1>22. ASSUME NEW w \in Worker, MQPopGiveUp(w)
      PROVE  [Mailbox!Next]_(Mailbox!vars)
  <2>1. /\ wpc[w] # "dispatch" /\ wpc'[w] # "dispatch"
        /\ \A v \in Worker : v # w =>
             /\ wpc'[v] = wpc[v] /\ servicing'[v] = servicing[v] /\ hand'[v] = hand[v]
             /\ wmsg'[v] = wmsg[v]
        /\ UNCHANGED <<msgs, released>>
    BY <1>0, <1>22 DEF MQPopGiveUp, TypeOK, MQPopGiveUp, WGoto
  <2> QED
    BY <2>1, HandlingOthers, MailboxStutters
<1>23. ASSUME NEW w \in Worker, MQPopRetry(w)
      PROVE  [Mailbox!Next]_(Mailbox!vars)
  <2>1. /\ wpc[w] # "dispatch" /\ wpc'[w] # "dispatch"
        /\ \A v \in Worker : v # w =>
             /\ wpc'[v] = wpc[v] /\ servicing'[v] = servicing[v] /\ hand'[v] = hand[v]
             /\ wmsg'[v] = wmsg[v]
        /\ UNCHANGED <<msgs, released>>
    BY <1>0, <1>23 DEF MQPopRetry, TypeOK, MQPopRetry, WGoto
  <2> QED
    BY <2>1, HandlingOthers, MailboxStutters
<1>24. ASSUME NEW w \in Worker, DispatchMsg(w)
      PROVE  [Mailbox!Next]_(Mailbox!vars)
  <2> DEFINE m == wmsg[w]
  <2>0. PICK c \in Ctx : c = Held(w)
    BY <1>0, <1>24, HeldIsCtx DEF DispatchMsg, Held
  <2>1. /\ wpc[w] = "dispatch" /\ c \in Ctx /\ m \in Msg
        /\ released' = released /\ msgs' = msgs /\ hand' = hand /\ servicing' = servicing
        /\ wpc'[w] # "dispatch"
        /\ \A v \in Worker : v # w => wpc'[v] = wpc[v] /\ wmsg'[v] = wmsg[v]
    BY <1>0, <1>24 DEF DispatchMsg, WGoto, DispatchInv, DispatchOK, TypeOK
  <2>3. \A v \in Worker : v # w => Held(v) # c \/ wpc[v] # "dispatch"
    <3>1. servicing[w] \in Manager /\ \A v \in Worker : servicing[v] \in Manager
      BY <1>0 DEF TypeOK
    <3> QED
      BY <1>0, <2>0, <2>1, <3>1 DEF SingleConsumer, WorkerHas, Held
  <2>4. \A x : HandledIn(c, x) <=> x = m
    BY <2>0, <2>1, <2>3 DEF HandledIn
  <2>5. \A x : ~HandledIn(c, x)'
    BY <2>0, <2>1, <2>3 DEF HandledIn, Held
  <2>6. ASSUME NEW d \in Ctx, NEW x, d # c
        PROVE  HandledIn(d, x)' <=> HandledIn(d, x)
    BY <2>0, <2>1, <2>6 DEF HandledIn, Held
  <2>7. \A d \in Ctx : \A x : x \in Handling'[d] <=> HandledIn(d, x)'
    BY DEF Handling, HandledIn
  <2>8. Handling[c] = {m}
    <3> HIDE DEF m
    <3> QED
      BY <2>1, <2>4, HandlingFacts
  <2>9. \A d \in Ctx : Handling'[d] = IF d = c THEN {} ELSE Handling[d]
    <3> HIDE DEF m
    <3>1. ASSUME NEW d \in Ctx, d # c PROVE Handling'[d] = Handling[d]
      <4>1. \A x : x \in Handling'[d] <=> x \in Handling[d]
        BY <2>6, <2>7, <3>1, HandlingFacts
      <4> QED
        BY ONLY <4>1
    <3>2. Handling'[c] = {}
      <4>1. \A x : x \notin Handling'[c]
        BY <2>1, <2>5, <2>7
      <4> QED
        BY ONLY <4>1
    <3> QED
      BY <3>1, <3>2
  <2> HIDE DEF m
  <2>10. Handling' = [Handling EXCEPT ![c] = {}]
    BY <2>1, <2>9 DEF Handling
  <2> QED
    BY <2>1, <2>8, <2>10, MailboxActions DEF Mailbox!Next
<1>25. ASSUME NEW w \in Worker, RotateKeep(w)
      PROVE  [Mailbox!Next]_(Mailbox!vars)
  <2>1. /\ wpc[w] # "dispatch" /\ wpc'[w] # "dispatch"
        /\ \A v \in Worker : v # w =>
             /\ wpc'[v] = wpc[v] /\ servicing'[v] = servicing[v] /\ hand'[v] = hand[v]
             /\ wmsg'[v] = wmsg[v]
        /\ UNCHANGED <<msgs, released>>
    BY <1>0, <1>25 DEF RotateKeep, TypeOK, RotateKeep, Return, WGoto
  <2> QED
    BY <2>1, HandlingOthers, MailboxStutters
<1>26. ASSUME NEW w \in Worker, Requeue(w)
      PROVE  [Mailbox!Next]_(Mailbox!vars)
  <2>1. /\ wpc[w] # "dispatch" /\ wpc'[w] # "dispatch"
        /\ \A v \in Worker : v # w =>
             /\ wpc'[v] = wpc[v] /\ servicing'[v] = servicing[v] /\ hand'[v] = hand[v]
             /\ wmsg'[v] = wmsg[v]
        /\ UNCHANGED <<msgs, released>>
    BY <1>0, <1>26 DEF Requeue, TypeOK, Requeue, WGoto
  <2> QED
    BY <2>1, HandlingOthers, MailboxStutters
<1>27. ASSUME NEW w \in Worker, RequeueSignal(w)
      PROVE  [Mailbox!Next]_(Mailbox!vars)
  <2>1. /\ wpc[w] # "dispatch" /\ wpc'[w] # "dispatch"
        /\ \A v \in Worker : v # w =>
             /\ wpc'[v] = wpc[v] /\ servicing'[v] = servicing[v] /\ hand'[v] = hand[v]
             /\ wmsg'[v] = wmsg[v]
        /\ UNCHANGED <<msgs, released>>
    BY <1>0, <1>27 DEF RequeueSignal, TypeOK, RequeueSignal, Return, WGoto, SetEventIfWaited
  <2> QED
    BY <2>1, HandlingOthers, MailboxStutters
<1>28. ASSUME NEW w \in Worker, UnRegister(w)
      PROVE  [Mailbox!Next]_(Mailbox!vars)
  <2>1. /\ wpc[w] # "dispatch" /\ wpc'[w] # "dispatch"
        /\ \A v \in Worker : v # w =>
             /\ wpc'[v] = wpc[v] /\ servicing'[v] = servicing[v] /\ hand'[v] = hand[v]
             /\ wmsg'[v] = wmsg[v]
        /\ UNCHANGED <<msgs, released>>
    BY <1>0, <1>28 DEF UnRegister, TypeOK, UnRegister, WGoto
  <2> QED
    BY <2>1, HandlingOthers, MailboxStutters
<1>29. ASSUME NEW w \in Worker, NextNothing(w)
      PROVE  [Mailbox!Next]_(Mailbox!vars)
  <2>1. /\ wpc[w] # "dispatch" /\ wpc'[w] # "dispatch"
        /\ \A v \in Worker : v # w =>
             /\ wpc'[v] = wpc[v] /\ servicing'[v] = servicing[v] /\ hand'[v] = hand[v]
             /\ wmsg'[v] = wmsg[v]
        /\ UNCHANGED <<msgs, released>>
    BY <1>0, <1>29 DEF NextNothing, TypeOK, NextNothing, Return, WGoto
  <2> QED
    BY <2>1, HandlingOthers, MailboxStutters
<1>30. ASSUME NEW w \in Worker, WaitAnnounce(w)
      PROVE  [Mailbox!Next]_(Mailbox!vars)
  <2>1. /\ wpc[w] # "dispatch" /\ wpc'[w] # "dispatch"
        /\ \A v \in Worker : v # w =>
             /\ wpc'[v] = wpc[v] /\ servicing'[v] = servicing[v] /\ hand'[v] = hand[v]
             /\ wmsg'[v] = wmsg[v]
        /\ UNCHANGED <<msgs, released>>
    BY <1>0, <1>30 DEF WaitAnnounce, TypeOK, WaitAnnounce, WGoto
  <2> QED
    BY <2>1, HandlingOthers, MailboxStutters
<1>31. ASSUME NEW w \in Worker, WaitSignalled(w)
      PROVE  [Mailbox!Next]_(Mailbox!vars)
  <2>1. /\ wpc[w] # "dispatch" /\ wpc'[w] # "dispatch"
        /\ \A v \in Worker : v # w =>
             /\ wpc'[v] = wpc[v] /\ servicing'[v] = servicing[v] /\ hand'[v] = hand[v]
             /\ wmsg'[v] = wmsg[v]
        /\ UNCHANGED <<msgs, released>>
    BY <1>0, <1>31 DEF WaitSignalled, TypeOK, WaitSignalled, WGoto
  <2> QED
    BY <2>1, HandlingOthers, MailboxStutters
<1>32. ASSUME NEW w \in Worker, WaitTimeout(w)
      PROVE  [Mailbox!Next]_(Mailbox!vars)
  <2>1. /\ wpc[w] # "dispatch" /\ wpc'[w] # "dispatch"
        /\ \A v \in Worker : v # w =>
             /\ wpc'[v] = wpc[v] /\ servicing'[v] = servicing[v] /\ hand'[v] = hand[v]
             /\ wmsg'[v] = wmsg[v]
        /\ UNCHANGED <<msgs, released>>
    BY <1>0, <1>32 DEF WaitTimeout, TypeOK, WaitTimeout, WGoto
  <2> QED
    BY <2>1, HandlingOthers, MailboxStutters
<1>33. ASSUME NEW w \in Worker, WaitLeave(w)
      PROVE  [Mailbox!Next]_(Mailbox!vars)
  <2>1. /\ wpc[w] # "dispatch" /\ wpc'[w] # "dispatch"
        /\ \A v \in Worker : v # w =>
             /\ wpc'[v] = wpc[v] /\ servicing'[v] = servicing[v] /\ hand'[v] = hand[v]
             /\ wmsg'[v] = wmsg[v]
        /\ UNCHANGED <<msgs, released>>
    BY <1>0, <1>33 DEF WaitLeave, TypeOK, WaitLeave, WGoto
  <2> QED
    BY <2>1, HandlingOthers, MailboxStutters
<1>34. ASSUME NEW w \in Worker, CrashDangling(w)
      PROVE  [Mailbox!Next]_(Mailbox!vars)
  <2>1. /\ wpc[w] # "dispatch" /\ wpc'[w] # "dispatch"
        /\ \A v \in Worker : v # w =>
             /\ wpc'[v] = wpc[v] /\ servicing'[v] = servicing[v] /\ hand'[v] = hand[v]
             /\ wmsg'[v] = wmsg[v]
        /\ UNCHANGED <<msgs, released>>
    BY <1>0, <1>34 DEF CrashDangling, TypeOK, CrashDangling, WGoto
  <2> QED
    BY <2>1, HandlingOthers, MailboxStutters
<1>35. CASE UNCHANGED vars
  BY <1>35, <1>100 DEF vars
<1> QED
  BY <1>1, <1>2, <1>3, <1>4, <1>5, <1>6, <1>7, <1>8, <1>9, <1>10, <1>11, <1>12, <1>13, <1>14, <1>15, <1>16, <1>17, <1>18, <1>19, <1>20, <1>21, <1>22, <1>23, <1>24, <1>25, <1>26, <1>27, <1>28, <1>29, <1>30, <1>31, <1>32, <1>33, <1>34, <1>35
  DEF Next, CtxStep, ClientRequest, ClientStep, WorkerStep, PopQueue

(* Handles lead to their ctx: Register writes both sides at once, UnRegister  *)
(* removes the way there and never the handle itself.                         *)

(* The mailboxes are empty at first. *)
LEMMA MailboxInit == Init => Mailbox!Init
<1> SUFFICES ASSUME Init PROVE Mailbox!Init
  OBVIOUS
<1>1. \A w \in Worker : wpc[w] # "dispatch"
  BY DEF Init
<1>2. ASSUME NEW c \in Ctx
      PROVE  Handling[c] = {}
  <2>1. \A x : x \notin Handling[c]
    BY <1>1, HandlingFacts DEF HandledIn
  <2> QED
    BY ONLY <2>1
<1>3. Handling = [c \in Ctx |-> {}]
  BY <1>2 DEF Handling
<1>4. msgs = [c \in Ctx |-> {}] /\ released = [c \in Ctx |-> FALSE]
  BY DEF Init
<1> QED
  BY <1>3, <1>4 DEF Mailbox!Init, Handling

(* The scheduler implements the mailboxes: a message is taken once, by one *)
(* handler at a time, and thrown away only after a release.                *)
THEOREM RefinesMailbox == Spec => MailboxUnlessReused
<1>1. Init => Mailbox!Init
  BY MailboxInit
<1>2. IInv /\ [Next]_vars => [HandlesDiffer => Mailbox!Next]_(Mailbox!vars)
  BY MailboxStep
<1> QED
  BY <1>1, <1>2, Invariance, PTL DEF Spec, MailboxUnlessReused

(* In a system whose ctxs all exist from the start no handle is given to a *)
(* second ctx, so its ctxs are mailboxes whatever happens.                 *)
THEOREM BootedIsMailbox ==
  ASSUME \A c \in Ctx : BootId[c] # None
  PROVE  Spec => ImplementsMailbox
<1> DEFINE Booted == TypeOK /\ (\A c \in Ctx : id[c] # None) /\ HandlesDiffer
<1>1. Init => (\A c \in Ctx : id[c] # None) /\ HandlesDiffer
  BY ConstantsAssumption DEF Init, HandlesDiffer
<1>2. Booted /\ [Next]_vars => ((\A c \in Ctx : id[c] # None) /\ HandlesDiffer)'
  BY IdsStay DEF HandlesDiffer
<1>3. IInv /\ HandlesDiffer /\ [Next]_vars => [Mailbox!Next]_(Mailbox!vars)
  BY MailboxStep
<1>4. Init => Mailbox!Init
  BY MailboxInit
<1>5. Spec => []Booted
  BY <1>1, <1>2, TypeCorrect, PTL DEF Spec
<1>6. Booted => HandlesDiffer
  OBVIOUS
<1> HIDE DEF Booted
<1> QED
  BY <1>3, <1>4, <1>5, <1>6, Invariance, PTL DEF Spec, ImplementsMailbox, Mailbox!Spec

=============================================================================
