---------------------------- MODULE CtxRedisWatch ----------------------------
(***************************************************************************)
(* CCoroutineCtx_CRedisWatch: subscriptions of channels and patterns on    *)
(* one connection to a Redis server.  A coroutine that subscribes puts an  *)
(* entry into m_mapSub (m_mapPSub for a pattern), sends and returns; the   *)
(* reply makes the entry ready, and that of an unsubscription erases it.   *)
(* A disconnect changes nothing in the ctx.                                *)
(*                                                                         *)
(* The connection and its handshake are those of CtxRedis, and so are the  *)
(* rules for the messages of the ctx: any of them may be the next.         *)
(***************************************************************************)
EXTENDS CtxInbox

CONSTANTS
  Channel,
  Pattern,     \* the channels that are patterns
  Req,         \* coroutines, each with one request
  Op,          \* [Req -> {"subscribe", "unsubscribe"}]
  Of,          \* [Req -> the channel it is about]
  MaxConn,     \* bound: connections that are started
  MaxMessages  \* bound: messages that are published

VARIABLES
  conn,             \* state of the connection
  gen,              \* its number
  doomed,           \* Close(0) was called on it
  server,           \* requests the server has still to answer
  subscribed,       \* channels the server sends the messages of
  published,
  inbox,            \* messages of the connection in the queue of the ctx
  handler,          \* the loop the ctx is in, or "none"
  m_mapSub,         \* the entry of a channel: none, new, or m_bInitSuccess
  m_vtWaitRequest,
  pc,               \* where the coroutine of a request is
  ret,              \* what it returned
  crashed,          \* a message was for a channel without entry
  \* auxiliary
  since,            \* the connection on which the entry of a channel was made
  doubled,          \* a channel was unsubscribed twice at a time
  overtaken         \* the reply to an unsubscription passed what came before it

netVars     == <<conn, gen, doomed, server, subscribed, published>>
requestVars == <<pc, ret>>
mapVars     == <<m_mapSub, since, doubled, overtaken>>
vars == <<netVars, inbox, handler, mapVars, m_vtWaitRequest, requestVars, crashed>>

Message ==
  [kind : {"verified", "error"}]
    \cup [kind : {"subscribe", "unsubscribe", "message"}, of : Channel]

TypeOK ==
  /\ conn \in {"closed", "connecting", "verified", "up"}
  /\ gen \in 1..MaxConn
  /\ doomed \in BOOLEAN
  /\ server \in Seq(Req)
  /\ subscribed \subseteq Channel
  /\ published \in 0..MaxMessages
  /\ inbox \in Seq(Message)
  /\ handler \in {"none", "verified", "timer"}
  /\ m_mapSub \in [Channel -> {"none", "new", "init"}]
  /\ m_vtWaitRequest \in Seq(Req)
  /\ pc \in [Req -> {"idle", "waiting", "done"}]
  /\ ret \in [Req -> {"none", "success", "exists", "nonet"}]
  /\ crashed \in BOOLEAN
  /\ since \in [Channel -> 0..MaxConn]
  /\ doubled \in BOOLEAN
  /\ overtaken \in BOOLEAN

Init ==
  /\ conn = "connecting" /\ gen = 1 /\ doomed = FALSE
  /\ server = <<>> /\ subscribed = {} /\ published = 0
  /\ inbox = <<>>
  /\ handler = "none"
  /\ m_mapSub = [c \in Channel |-> "none"]
  /\ m_vtWaitRequest = <<>>
  /\ pc = [r \in Req |-> "idle"]
  /\ ret = [r \in Req |-> "none"]
  /\ crashed = FALSE
  /\ since = [c \in Channel |-> 0]
  /\ doubled = FALSE
  /\ overtaken = FALSE

IsTransmit == conn = "up"

ErrorClose == doomed' = (doomed \/ conn # "closed")

Finish(r, result) ==
  /\ pc' = [pc EXCEPT ![r] = "done"]
  /\ ret' = [ret EXCEPT ![r] = result]

(***************************************************************************)
(* The requests.                                                           *)
(***************************************************************************)
(* An entry that is there is refused for a channel; for a pattern that is  *)
(* a success.                                                              *)
Subscribe(r) ==
  LET c == Of[r] IN
  IF m_mapSub[c] # "none"
  THEN /\ Finish(r, IF c \in Pattern THEN "success" ELSE "exists")
       /\ UNCHANGED <<server, mapVars>>
  ELSE /\ m_mapSub' = [m_mapSub EXCEPT ![c] = "new"]
       /\ since' = [since EXCEPT ![c] = gen]
       /\ server' = Append(server, r)
       /\ Finish(r, "success")
       /\ UNCHANGED <<doubled, overtaken>>

Unsubscribing(c) ==
  \/ \E i \in DOMAIN server : Op[server[i]] = "unsubscribe" /\ Of[server[i]] = c
  \/ \E i \in DOMAIN inbox : inbox[i] = [kind |-> "unsubscribe", of |-> c]

(* Mutated: the entry is erased at once. *)
UnsubscribeAtOnce(r) ==
  LET c == Of[r] IN
  /\ Finish(r, "success")
  /\ server' = IF m_mapSub[c] # "none" THEN Append(server, r) ELSE server
  /\ m_mapSub' = [m_mapSub EXCEPT ![c] = "none"]
  /\ UNCHANGED <<since, doubled, overtaken>>

(* The entry stays until the reply comes. *)
Unsubscribe(r) ==
  LET c == Of[r] IN
  /\ Finish(r, "success")
  /\ server' = IF m_mapSub[c] # "none" THEN Append(server, r) ELSE server
  /\ doubled' = (doubled \/ Unsubscribing(c))
  /\ UNCHANGED <<m_mapSub, since, overtaken>>

Send(r) == IF Op[r] = "subscribe" THEN Subscribe(r) ELSE Unsubscribe(r)

DispathBussinessMsg(r) ==
  /\ handler = "none"
  /\ pc[r] = "idle"
  /\ IF IsTransmit
     THEN Send(r) /\ UNCHANGED m_vtWaitRequest
     ELSE /\ m_vtWaitRequest' = Append(m_vtWaitRequest, r)
          /\ pc' = [pc EXCEPT ![r] = "waiting"]
          /\ UNCHANGED <<server, mapVars, ret>>
  /\ UNCHANGED <<conn, gen, doomed, subscribed, published, inbox, handler, crashed>>

(* The front of the wait queue is resumed: it sends, or there is no net. *)
ResumeWaiter ==
  LET r == Head(m_vtWaitRequest) IN
  /\ m_vtWaitRequest' = Tail(m_vtWaitRequest)
  /\ IF IsTransmit THEN Send(r) ELSE Finish(r, "nonet") /\ UNCHANGED <<server, mapVars>>
  /\ UNCHANGED <<conn, gen, doomed, subscribed, published, inbox, handler, crashed>>

(***************************************************************************)
(* The messages of the connection, in the ctx.                             *)
(***************************************************************************)
NextMessage(kind, k) ==
  /\ handler = "none"
  /\ inbox[k].kind = kind
  /\ inbox' = Without(inbox, k)

ReceiveSubscribe(k) ==
  /\ NextMessage("subscribe", k)
  /\ m_mapSub' = [m_mapSub EXCEPT ![inbox[k].of] = IF @ = "none" THEN @ ELSE "init"]
  /\ UNCHANGED <<netVars, handler, since, doubled, overtaken, m_vtWaitRequest, requestVars,
                 crashed>>

(* A message is of channel c. *)
About(message, c) ==
  message.kind \in {"subscribe", "unsubscribe", "message"} /\ message.of = c

(* Mutated: the entry stays. *)
ReceiveUnsubscribeNot(k) ==
  /\ NextMessage("unsubscribe", k)
  /\ UNCHANGED <<netVars, handler, mapVars, m_vtWaitRequest, requestVars, crashed>>

(* Whichever subscription the entry is of now, and whatever of the channel *)
(* was pushed before the reply and is still in the queue.                  *)
ReceiveUnsubscribe(k) ==
  LET c == inbox[k].of IN
  /\ NextMessage("unsubscribe", k)
  /\ m_mapSub' = [m_mapSub EXCEPT ![c] = "none"]
  /\ overtaken' = (overtaken \/ \E i \in 1 .. k - 1 : About(inbox[i], c))
  /\ UNCHANGED <<netVars, handler, since, doubled, m_vtWaitRequest, requestVars, crashed>>

(* What find() returns is used without a look at end(): without an entry   *)
(* the behaviour is undefined, and this model ends.  The coroutine that    *)
(* hands the message of a ready entry to the ctx that subscribed           *)
(* (Corutine_Message) is not modelled.                                     *)
ReceiveMessage(k) ==
  /\ NextMessage("message", k)
  /\ crashed' = (m_mapSub[inbox[k].of] = "none")
  /\ UNCHANGED <<netVars, handler, mapVars, m_vtWaitRequest, requestVars>>

(* A reply of another kind. *)
ReceiveError(k) ==
  /\ NextMessage("error", k)
  /\ ErrorClose
  /\ UNCHANGED <<conn, gen, server, subscribed, published, handler, mapVars,
                 m_vtWaitRequest, requestVars, crashed>>

NetVerifySuccess(k) ==
  /\ NextMessage("verified", k)
  /\ handler' = "verified"
  /\ UNCHANGED <<netVars, mapVars, m_vtWaitRequest, requestVars, crashed>>

VerifiedResume ==
  /\ handler = "verified"
  /\ m_vtWaitRequest # <<>>
  /\ ResumeWaiter

VerifiedEnd ==
  /\ handler = "verified"
  /\ m_vtWaitRequest = <<>>
  /\ handler' = "none"
  /\ UNCHANGED <<netVars, inbox, mapVars, m_vtWaitRequest, requestVars, crashed>>

(***************************************************************************)
(* The timer.  Who waits times out by m_nDefaultTimeoutRequest, and how    *)
(* long one has waited is left open.                                       *)
(***************************************************************************)
OnTimer ==
  /\ handler = "none"
  /\ conn = "closed" \/ m_vtWaitRequest # <<>>
  /\ IF conn = "closed" /\ gen < MaxConn
     THEN conn' = "connecting" /\ gen' = gen + 1
     ELSE UNCHANGED <<conn, gen>>
  /\ handler' = "timer"
  /\ UNCHANGED <<doomed, server, subscribed, published, inbox, mapVars, m_vtWaitRequest,
                 requestVars, crashed>>

OnTimerResume ==
  /\ handler = "timer"
  /\ m_vtWaitRequest # <<>>
  /\ ResumeWaiter

OnTimerEnd ==
  /\ handler = "timer"
  /\ handler' = "none"
  /\ UNCHANGED <<netVars, inbox, mapVars, m_vtWaitRequest, requestVars, crashed>>

(***************************************************************************)
(* The connection and the server.                                          *)
(***************************************************************************)
NetMessage(message) == inbox' = Append(inbox, message)

(* OnNetVerifySuccess tells the ctx before the session carries data. *)
OnNetVerifySuccess ==
  /\ conn = "connecting"
  /\ conn' = "verified"
  /\ NetMessage([kind |-> "verified"])
  /\ UNCHANGED <<gen, doomed, server, subscribed, published, handler, mapVars,
                 m_vtWaitRequest, requestVars, crashed>>

Transmit ==
  /\ conn = "verified"
  /\ conn' = "up"
  /\ UNCHANGED <<gen, doomed, server, subscribed, published, inbox, handler, mapVars,
                 m_vtWaitRequest, requestVars, crashed>>

(* The server answers in order. *)
OnReceive(ok) ==
  LET r == Head(server) IN
  /\ IsTransmit
  /\ server # <<>>
  /\ server' = Tail(server)
  /\ IF ok
     THEN /\ subscribed' = IF Op[r] = "subscribe" THEN subscribed \cup {Of[r]}
                                                  ELSE subscribed \ {Of[r]}
          /\ NetMessage([kind |-> Op[r], of |-> Of[r]])
     ELSE NetMessage([kind |-> "error"]) /\ UNCHANGED subscribed
  /\ UNCHANGED <<conn, gen, doomed, published, handler, mapVars, m_vtWaitRequest,
                 requestVars, crashed>>

OnReceiveMessage(c) ==
  /\ IsTransmit
  /\ c \in subscribed
  /\ published < MaxMessages
  /\ published' = published + 1
  /\ NetMessage([kind |-> "message", of |-> c])
  /\ UNCHANGED <<conn, gen, doomed, server, subscribed, handler, mapVars, m_vtWaitRequest,
                 requestVars, crashed>>

(* ReceiveRedisDisconnect does nothing: no entry is erased, nothing is     *)
(* subscribed again.                                                       *)
OnDisconnect ==
  /\ conn # "closed"
  /\ conn' = "closed"
  /\ doomed' = FALSE
  /\ server' = <<>>
  /\ subscribed' = {}
  /\ UNCHANGED <<gen, published, inbox, handler, mapVars, m_vtWaitRequest, requestVars,
                 crashed>>

(***************************************************************************)
(* The specification.                                                      *)
(***************************************************************************)
CtxMessage ==
  \E k \in DOMAIN inbox :
    \/ ReceiveSubscribe(k) \/ ReceiveUnsubscribe(k) \/ ReceiveMessage(k)
    \/ ReceiveError(k) \/ NetVerifySuccess(k)

HandlerStep == VerifiedResume \/ VerifiedEnd \/ OnTimerResume \/ OnTimerEnd

Next ==
  /\ ~crashed
  /\ \/ \E r \in Req : DispathBussinessMsg(r)
     \/ CtxMessage \/ HandlerStep \/ OnTimer
     \/ OnNetVerifySuccess \/ Transmit \/ OnDisconnect
     \/ \E ok \in BOOLEAN : OnReceive(ok)
     \/ \E c \in Channel : OnReceiveMessage(c)

Spec == Init /\ [][Next]_vars

(* Every message of the ctx is dispatched, the timer keeps coming, and who *)
(* stays in the list times out.                                            *)
Fairness ==
  /\ SF_vars(~crashed /\ CtxMessage)
  /\ WF_vars(~crashed /\ HandlerStep)
  /\ SF_vars(~crashed /\ OnTimer) /\ SF_vars(~crashed /\ OnTimerResume)

FairSpec == Spec /\ Fairness

(***************************************************************************)
(* Properties.                                                             *)
(***************************************************************************)
(* A message finds the entry of its channel (ctx_redis.cpp:645 uses it     *)
(* without a look), in whatever order the messages are handled, but for    *)
(* two cases.  Somebody unsubscribes what is being unsubscribed: the       *)
(* second reply takes the entry of the next subscriber.  Or the reply to   *)
(* an unsubscription passes something of its channel in the queue.         *)
MessageFindsEntry == crashed => doubled \/ overtaken

(* When every answer has come, in any order but for the same two cases,    *)
(* the entries made on this connection are ready and are what the server   *)
(* sends the messages of (ctx_redis.cpp:662 and 680).  Of the entries of   *)
(* earlier connections nothing can be said.                                *)
SubscribedInStep ==
  (IsTransmit /\ ~doomed /\ server = <<>> /\ inbox = <<>> /\ ~doubled /\ ~overtaken) =>
    \A c \in Channel :
      /\ c \in subscribed => m_mapSub[c] = "init"
      /\ m_mapSub[c] # "none" /\ since[c] = gen => c \in subscribed

(* Who waits for a connection is told, at the latest after its timeout. *)
NoneWaits  == crashed \/ \A r \in Req : pc[r] # "waiting"
WaitersEnd == <>[]NoneWaits

=============================================================================
