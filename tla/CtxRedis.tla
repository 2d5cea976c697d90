------------------------------ MODULE CtxRedis ------------------------------
(***************************************************************************)
(* CCoroutineCtx_CRedis: many coroutines share one connection to a Redis   *)
(* server, which answers in the order it was asked.  A coroutine puts      *)
(* itself at the end of m_vtRequest, sends, and yields; each reply resumes *)
(* the front.  While there is no connection coroutines wait in             *)
(* m_vtWaitRequest.                                                        *)
(*                                                                         *)
(* The handlers run in the ctx, one at a time (CtxScheduler); the network  *)
(* threads change the connection at any time, between the rounds of a      *)
(* handler's loop too.  Any message in the queue of the ctx may be the     *)
(* next (CtxInbox), so a reply or a disconnect can pass those before it.   *)
(***************************************************************************)
EXTENDS CtxInbox

CONSTANTS
  Req,        \* coroutines, each with one request
  Ping,       \* those of Corutine_OnIdleSendPing
  Packets,    \* [Req -> how many commands the request chains]
  Handshake,  \* configured steps of the handshake, a subset of {"auth", "select"}
  MaxConn     \* bound: connections that are started

ASSUME RedisAssumption ==
  /\ Ping \subseteq Req
  /\ Packets \in [Req -> Nat \ {0}]
  /\ Handshake \subseteq {"auth", "select"}
  /\ MaxConn \in Nat \ {0}

VARIABLES
  conn,             \* state of m_pClient
  gen,              \* the number of the connection
  doomed,           \* Close(0) was called on it
  server,           \* commands sent on it that are not answered
  inbox,            \* messages of its network thread in the queue of the ctx
  overtaken,        \* auxiliary: a reply or a disconnect passed an earlier one
  handler,          \* the loop the ctx is in, or "none"
  snapshot,         \* vtDeleteRequest of ReceiveRedisDisconnect
  m_vtRequest,      \* entries [req, gen]: the connection it was sent on, or 0
  m_vtWaitRequest,
  pc,               \* where the coroutine of a request is
  left,             \* commands it has still to get answers for
  ret,              \* what the request returned
  overlap           \* auxiliary: a disconnect took requests of a later connection

netVars     == <<conn, gen, doomed, server>>
requestVars == <<pc, left, ret>>
listVars    == <<m_vtRequest, m_vtWaitRequest>>
loopVars    == <<handler, snapshot, overlap>>
queueVars   == <<inbox, overtaken>>
vars == <<netVars, queueVars, loopVars, listVars, requestVars>>

Message == [kind : {"reply"}, req : Req, gen : 1..MaxConn, ok : BOOLEAN]
           \cup [kind : {"disconnect", "verified"}, gen : 1..MaxConn]
Entry == [req : Req, gen : 0..MaxConn]

TypeOK ==
  /\ conn \in {"closed", "connecting", "auth", "select", "verified", "up"}
  /\ gen \in 0..MaxConn
  /\ doomed \in BOOLEAN
  /\ server \in Seq(Req)
  /\ inbox \in Seq(Message)
  /\ overtaken \in BOOLEAN
  /\ handler \in {"none", "verified", "disconnect", "timer"}
  /\ snapshot \in Seq(Entry)
  /\ m_vtRequest \in Seq(Entry)
  /\ m_vtWaitRequest \in Seq(Req)
  /\ pc \in [Req -> {"idle", "queued", "waiting", "sent", "done"}]
  /\ \A r \in Req : left[r] \in 0..Packets[r]
  /\ ret \in [Req -> {"none", "own", "foreign", "error", "fail", "nonet"}]
  /\ overlap \in BOOLEAN

Init ==
  /\ conn = "connecting" /\ gen = 1 /\ doomed = FALSE
  /\ server = <<>> /\ inbox = <<>> /\ overtaken = FALSE
  /\ handler = "none" /\ snapshot = <<>>
  /\ m_vtRequest = <<>> /\ m_vtWaitRequest = <<>>
  /\ pc = [r \in Req |-> "idle"]
  /\ left = Packets
  /\ ret = [r \in Req |-> "none"]
  /\ overlap = FALSE

IsTransmit == conn = "up"

(***************************************************************************)
(* The coroutines.                                                         *)
(***************************************************************************)
(* Push the entry, send the command, yield.  A chained command does not ask *)
(* IsTransmit again: without a session it is lost.                         *)
SendRequest(r, queue) ==
  /\ m_vtRequest' = Append(queue, [req |-> r, gen |-> IF IsTransmit THEN gen ELSE 0])
  /\ server' = IF IsTransmit THEN Append(server, r) ELSE server
  /\ pc' = [pc EXCEPT ![r] = "sent"]

Finish(r, result) ==
  /\ pc' = [pc EXCEPT ![r] = "done"]
  /\ ret' = [ret EXCEPT ![r] = result]

ErrorClose == doomed' = (doomed \/ conn # "closed")

(* CCFrameRedisRequest from another ctx: the coroutine is a message. *)
Request(r) ==
  /\ pc[r] = "idle"
  /\ pc' = [pc EXCEPT ![r] = "queued"]
  /\ UNCHANGED <<netVars, queueVars, loopVars, listVars, left, ret>>

DispathBussinessMsg(r) ==
  /\ handler = "none"
  /\ pc[r] = "queued"
  /\ IF IsTransmit
     THEN SendRequest(r, m_vtRequest) /\ UNCHANGED m_vtWaitRequest
     ELSE /\ m_vtWaitRequest' = Append(m_vtWaitRequest, r)
          /\ pc' = [pc EXCEPT ![r] = "waiting"]
          /\ UNCHANGED <<server, m_vtRequest>>
  /\ UNCHANGED <<conn, gen, doomed, queueVars, loopVars, left, ret>>

(* The front of the wait queue is resumed: it sends, or there is no net.   *)
ResumeWaiter ==
  LET r == Head(m_vtWaitRequest) IN
  /\ m_vtWaitRequest' = Tail(m_vtWaitRequest)
  /\ IF IsTransmit
     THEN SendRequest(r, m_vtRequest) /\ UNCHANGED ret
     ELSE Finish(r, "nonet") /\ UNCHANGED <<server, m_vtRequest>>
  /\ UNCHANGED <<conn, gen, doomed, queueVars, loopVars, left>>

(***************************************************************************)
(* The messages of the network thread, handled in the ctx.                 *)
(***************************************************************************)
(* The k-th message passes one that was pushed earlier, where that matters: *)
(* the news of a connection may come when it likes.                        *)
Passes(k) ==
  /\ inbox[k].kind # "verified"
  /\ \E i \in 1 .. k - 1 : inbox[i].kind # "verified"

NextMessage(kind, k) ==
  /\ handler = "none"
  /\ inbox[k].kind = kind
  /\ inbox' = Without(inbox, k)
  /\ overtaken' = (overtaken \/ Passes(k))

(* No request waits for this reply: the connection is given up. *)
ReceiveRedisReplyNoRequest(k) ==
  /\ NextMessage("reply", k)
  /\ m_vtRequest = <<>>
  /\ ErrorClose
  /\ UNCHANGED <<conn, gen, server, loopVars, listVars, requestVars>>

(* Mutated: the newest request gets the reply. *)
FrontDataNewest(queue) == queue[Len(queue)]

(* The destructor of CKernelMsgQueueRequestMgr pops the front, whoever runs *)
(* it; the resumed coroutine is chosen by the front as well.               *)
FrontData(queue) == Head(queue)

(* Mutated: the loop goes round once too often. *)
NextSendPacketOneMore(r) == left[r] > 0

(* There is another command to send. *)
NextSendPacket(r) == left[r] > 1

(* What the coroutine has to say once it saw the reply. *)
Verdict(r, reply) ==
  IF ret[r] = "foreign" \/ reply.req # r THEN "foreign"
  ELSE IF ~reply.ok THEN "error" ELSE IF NextSendPacket(r) THEN "none" ELSE "own"

(* The front is resumed.  It takes its entry away and, when the request    *)
(* has more commands, pushes a new one.  A ping that gets something else   *)
(* than PONG closes the connection.                                        *)
ReceiveRedisReply(k) ==
  LET reply == inbox[k]
      r     == FrontData(m_vtRequest).req IN
  /\ NextMessage("reply", k)
  /\ m_vtRequest # <<>>
  /\ left' = [left EXCEPT ![r] = @ - 1]
  /\ IF reply.ok /\ NextSendPacket(r)
     THEN /\ SendRequest(r, Tail(m_vtRequest))
          /\ ret' = [ret EXCEPT ![r] = Verdict(r, reply)]
          /\ UNCHANGED doomed
     ELSE /\ Finish(r, Verdict(r, reply))
          /\ IF r \in Ping /\ reply.ok /\ reply.req \notin Ping
             THEN ErrorClose ELSE UNCHANGED doomed
          /\ m_vtRequest' = Tail(m_vtRequest)
          /\ UNCHANGED server
  /\ UNCHANGED <<conn, gen, loopVars, m_vtWaitRequest>>

(* ReceiveRedisDisconnect copies the requests, then fails each of them.    *)
ReceiveRedisDisconnect(k) ==
  /\ NextMessage("disconnect", k)
  /\ handler' = "disconnect"
  /\ snapshot' = m_vtRequest
  /\ overlap' = (overlap \/ \E i \in DOMAIN m_vtRequest :
                                m_vtRequest[i].gen \notin {0, inbox[k].gen})
  /\ UNCHANGED <<netVars, listVars, requestVars>>

(* Mutated: the failed coroutine sends its request again. *)
FailRequestRetry ==
  LET r == Head(snapshot).req IN
  /\ handler = "disconnect"
  /\ snapshot # <<>>
  /\ snapshot' = Tail(snapshot)
  /\ SendRequest(r, Tail(m_vtRequest))
  /\ UNCHANGED <<conn, gen, doomed, queueVars, handler, overlap, m_vtWaitRequest, left, ret>>

FailRequest ==
  LET r == Head(snapshot).req IN
  /\ handler = "disconnect"
  /\ snapshot # <<>>
  /\ snapshot' = Tail(snapshot)
  /\ m_vtRequest' = Tail(m_vtRequest)
  /\ Finish(r, IF ret[r] = "foreign" THEN "foreign" ELSE "fail")
  /\ UNCHANGED <<netVars, queueVars, handler, overlap, m_vtWaitRequest, left>>

(* What is left over is dropped. *)
DisconnectEnd ==
  /\ handler = "disconnect"
  /\ snapshot = <<>>
  /\ m_vtRequest' = <<>>
  /\ handler' = "none"
  /\ UNCHANGED <<netVars, queueVars, snapshot, overlap, m_vtWaitRequest, requestVars>>

(* The message of OnNetVerifySuccess resumes waiters until there are none. *)
NetVerifySuccess(k) ==
  /\ NextMessage("verified", k)
  /\ handler' = "verified"
  /\ UNCHANGED <<netVars, snapshot, overlap, listVars, requestVars>>

VerifiedResume ==
  /\ handler = "verified"
  /\ m_vtWaitRequest # <<>>
  /\ ResumeWaiter

VerifiedEnd ==
  /\ handler = "verified"
  /\ m_vtWaitRequest = <<>>
  /\ handler' = "none"
  /\ UNCHANGED <<netVars, queueVars, snapshot, overlap, listVars, requestVars>>

(***************************************************************************)
(* The timer, once a second.  A request times out by                       *)
(* m_nDefaultTimeoutRequest, and how long one has been in its list is left *)
(* open.                                                                   *)
(***************************************************************************)
(* The oldest request has no answer for too long: close, and nothing else. *)
OnTimerClose ==
  /\ handler = "none"
  /\ m_vtRequest # <<>>
  /\ ErrorClose
  /\ UNCHANGED <<conn, gen, server, queueVars, loopVars, listVars, requestVars>>

(* Otherwise connect when there is no connection, and look at the waiters. *)
OnTimer ==
  /\ handler = "none"
  /\ conn = "closed" \/ m_vtWaitRequest # <<>>
  /\ IF conn = "closed" /\ gen < MaxConn
     THEN conn' = "connecting" /\ gen' = gen + 1
     ELSE UNCHANGED <<conn, gen>>
  /\ handler' = "timer"
  /\ UNCHANGED <<doomed, server, queueVars, snapshot, overlap, listVars, requestVars>>

OnTimerResume ==
  /\ handler = "timer"
  /\ m_vtWaitRequest # <<>>
  /\ ResumeWaiter

OnTimerEnd ==
  /\ handler = "timer"
  /\ handler' = "none"
  /\ UNCHANGED <<netVars, queueVars, snapshot, overlap, listVars, requestVars>>

(***************************************************************************)
(* The session, in the network threads.                                    *)
(***************************************************************************)
NetMessage(message) == inbox' = Append(inbox, message) /\ UNCHANGED overtaken

NextStep(done) ==
  IF "auth" \in Handshake \ done THEN "auth"
  ELSE IF "select" \in Handshake \ done THEN "select" ELSE "verified"

(* OnConnect, OnReceiveVerify and OnReceiveVerifyDB send AUTH and SELECT as *)
(* configured; the last of them calls OnNetSuccessVerify, which tells the  *)
(* ctx before the callback has returned and the session carries data.      *)
Advance(from, done) ==
  /\ conn = from
  /\ conn' = NextStep(done)
  /\ IF conn' = "verified" THEN NetMessage([kind |-> "verified", gen |-> gen])
                           ELSE UNCHANGED queueVars
  /\ UNCHANGED <<gen, doomed, server, loopVars, listVars, requestVars>>

OnConnect         == Advance("connecting", {})
OnReceiveVerify   == Advance("auth", {"auth"})
OnReceiveVerifyDB == Advance("select", {"auth", "select"})

Transmit ==
  /\ conn = "verified"
  /\ conn' = "up"
  /\ UNCHANGED <<gen, doomed, server, queueVars, loopVars, listVars, requestVars>>

(* The server answers in order; OnReceive turns every reply of a packet    *)
(* into a message.                                                         *)
OnReceive(ok) ==
  /\ conn = "up"
  /\ server # <<>>
  /\ server' = Tail(server)
  /\ NetMessage([kind |-> "reply", req |-> Head(server), gen |-> gen, ok |-> ok])
  /\ UNCHANGED <<conn, gen, doomed, loopVars, listVars, requestVars>>

(* Closed by the peer, by a refused handshake or by ErrorClose. *)
OnDisconnect ==
  /\ conn \notin {"closed", "connecting"}
  /\ conn' = "closed"
  /\ doomed' = FALSE
  /\ server' = <<>>
  /\ NetMessage([kind |-> "disconnect", gen |-> gen])
  /\ UNCHANGED <<gen, loopVars, listVars, requestVars>>

(* Nobody answers the connect, and no callback is made. *)
ConnectFails ==
  /\ conn = "connecting"
  /\ conn' = "closed"
  /\ doomed' = FALSE
  /\ UNCHANGED <<gen, server, queueVars, loopVars, listVars, requestVars>>

(***************************************************************************)
(* The specification.                                                      *)
(***************************************************************************)
CtxMessage ==
  \E k \in DOMAIN inbox :
    \/ ReceiveRedisReplyNoRequest(k) \/ ReceiveRedisReply(k)
    \/ ReceiveRedisDisconnect(k) \/ NetVerifySuccess(k)

HandlerStep ==
  \/ FailRequest \/ DisconnectEnd \/ VerifiedResume \/ VerifiedEnd
  \/ OnTimerResume \/ OnTimerEnd

Next ==
  \/ \E r \in Req : Request(r) \/ DispathBussinessMsg(r)
  \/ CtxMessage \/ HandlerStep
  \/ OnTimerClose \/ OnTimer
  \/ OnConnect \/ OnReceiveVerify \/ OnReceiveVerifyDB \/ Transmit
  \/ \E ok \in BOOLEAN : OnReceive(ok)
  \/ OnDisconnect \/ ConnectFails

Spec == Init /\ [][Next]_vars

(* Every message of the ctx is dispatched (Delivered of CtxScheduler), the *)
(* timer keeps coming, who stays in a list times out, and a closed session *)
(* reports it.                                                             *)
(* Nothing is assumed of the server.                                       *)
Fairness ==
  /\ SF_vars(\E r \in Req : DispathBussinessMsg(r))
  /\ SF_vars(CtxMessage)
  /\ WF_vars(HandlerStep)
  /\ SF_vars(OnTimerClose) /\ SF_vars(OnTimer) /\ SF_vars(OnTimerResume)
  /\ WF_vars(doomed /\ OnDisconnect)

FairSpec == Spec /\ Fairness

(***************************************************************************)
(* Properties.                                                             *)
(***************************************************************************)
(* The assertions of ~CKernelMsgQueueRequestMgr and ReceiveRedisDisconnect *)
(* (kernelrequeststoredata.cpp:24, ctx_redis.cpp:381): each coroutine that *)
(* fails pops its own entry, and when all have failed none is left.        *)
DisconnectClears == handler = "disconnect" => m_vtRequest = snapshot

(* A request that was sent is never stuck in the list: there is a session  *)
(* that can answer it or end, or a disconnect on its way to fail it.       *)
NoOrphan ==
  m_vtRequest # <<>> =>
    \/ conn = "up"
    \/ handler = "disconnect"
    \/ \E i \in DOMAIN inbox : inbox[i].kind = "disconnect"

(* "A globally safe function that wraps the use of redis" (ctx_redis.h:183):*)
(* a caller is never handed the reply to somebody else's command, at least *)
(* as long as no reply or disconnect has passed another in the queue.      *)
OwnReply == ~overtaken => \A r \in Req : ret[r] # "foreign"

(* As long as no disconnect takes requests of a later connection and none  *)
(* of them has passed another, the list ends in the commands that were     *)
(* sent on this connection, the queue of the ctx in the replies to the     *)
(* first of them, and the server has the others; and nobody gets another's *)
(* reply.                                                                  *)
ReplyOf(g, i) == inbox[i].kind = "reply" /\ inbox[i].gen = g

SentInStep ==
  \E a \in 0..Len(m_vtRequest), b \in 0..Len(inbox) :
    /\ \A i \in 1..Len(m_vtRequest) : m_vtRequest[i].gen = gen <=> i > a
    /\ \A i \in 1..Len(inbox) : ReplyOf(gen, i) <=> i > b
    /\ Len(m_vtRequest) - a = Len(inbox) - b + Len(server)
    /\ \A i \in 1..Len(inbox) - b : m_vtRequest[a + i].req = inbox[b + i].req
    /\ \A i \in 1..Len(server) : m_vtRequest[a + (Len(inbox) - b) + i].req = server[i]

InStep == ~overlap /\ ~overtaken => (conn = "up" => SentInStep) /\ OwnReply

(* No request is stuck, in whatever order the messages are handled, and    *)
(* none is mistaken for another while they keep theirs.                    *)
RequestsInStep == NoOrphan /\ InStep

(* Every request ends: with its reply, an error, or the news that there is *)
(* no connection.  Each is made once, so at some time none is under way    *)
(* any more.                                                               *)
NoneUnderWay == \A r \in Req : pc[r] \in {"idle", "done"}
RequestEnds  == <>[]NoneUnderWay

=============================================================================
