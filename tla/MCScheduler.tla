----------------------------- MODULE MCScheduler -----------------------------
(***************************************************************************)
(* Two instances of CtxScheduler for TLC: in one, ctxs are created and     *)
(* released while the system runs; in the other, booted, all ctxs are      *)
(* there from the start, one of them without a state of its own and bound  *)
(* to a worker.  A behaviour is of one of them, and part says which; the   *)
(* other stays at its beginning.                                           *)
(***************************************************************************)
EXTENDS MCCtxScheduler

CONSTANTS b1, b2, j1, j2, v1, v2, q1

VARIABLES
  part,
  bOwner, bId, bInited, bReleased, bMsgs, bAddTimes, bInMgr, bEvent,
  bCpc, bTarget, bCmsg,
  bWpc, bServicing, bHand, bPctx, bDraining, bSeen, bPacket, bWmsg, bNextQ

bootVars ==
  <<bOwner, bId, bInited, bReleased, bMsgs, bAddTimes, bInMgr, bEvent,
    bCpc, bTarget, bCmsg,
    bWpc, bServicing, bHand, bPctx, bDraining, bSeen, bPacket, bWmsg, bNextQ>>

(* The two messages of the booted instance are called as the clients of    *)
(* the other: both may be swapped, and never do both matter.               *)
BootCtx    == {b1, b2}
BootIds    == {j1, j2}
BootWorker == {v1, v2}
BootClient == {q1}
BootMsg    == Client
BootOps    == {"push", "release", "kick"}
OneBound   == (b1 :> Global) @@ (b2 :> v1)
BootedAs   == (b1 :> j1) @@ (b2 :> j2)
OneNoState == {b2}

Boot == INSTANCE CtxScheduler WITH
  Ctx <- BootCtx, Id <- BootIds, Worker <- BootWorker, Client <- BootClient, Msg <- BootMsg,
  Ops <- BootOps, Home <- OneBound, BootId <- BootedAs, NoState <- OneNoState,
  PacketNumber <- 2, MaxAddTimes <- 2,
  owner <- bOwner, id <- bId, inited <- bInited, released <- bReleased,
  msgs <- bMsgs, addTimes <- bAddTimes, inMgr <- bInMgr, event <- bEvent,
  cpc <- bCpc, target <- bTarget, cmsg <- bCmsg,
  wpc <- bWpc, servicing <- bServicing, hand <- bHand, pctx <- bPctx,
  draining <- bDraining, seen <- bSeen, packet <- bPacket, wmsg <- bWmsg, nextQ <- bNextQ

SchedulerInit == Init /\ Boot!Init /\ part \in {"life", "booted"}

SchedulerNext ==
  \/ part = "life" /\ Next /\ UNCHANGED <<part, bootVars>>
  \/ part = "booted" /\ Boot!Next /\ UNCHANGED <<part, vars>>

SchedulerSpec == SchedulerInit /\ [][SchedulerNext]_<<part, vars, bootVars>>

(* In the booted instance no handle is ever given to a second ctx, so      *)
(* nothing is excepted: handlers of a ctx run one at a time in a           *)
(* registered ctx, and the ctxs are mailboxes.                             *)
BootImplementsMailbox ==
  /\ [](part = "booted" => Boot!OneThreadPerCtx /\ Boot!DispatchRegistered)
  /\ Boot!Mailbox!Init /\ [][part = "booted" => Boot!Mailbox!Next]_(Boot!Mailbox!vars)

=============================================================================
