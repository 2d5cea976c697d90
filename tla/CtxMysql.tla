------------------------------ MODULE CtxMysql ------------------------------
(***************************************************************************)
(* CCoroutineCtx_Mysql: many coroutines share one connection to a MySQL    *)
(* server, which answers in the order it was asked.  An answer is one or   *)
(* more packets: what arrives is put into m_smRecvData, and the front of   *)
(* m_vtRequest is resumed and takes packets until its answer is complete   *)
(* or the buffer is empty.                                                 *)
(*                                                                         *)
(* The connection, the wait queue and the rules for the messages of the    *)
(* ctx are those of CtxRedis.  The messages of the ctx may pass each other *)
(* in its queue (CtxInbox), those with the pieces of the stream too.       *)
(***************************************************************************)
EXTENDS CtxInbox

CONSTANTS
  Req,      \* coroutines, each with one request
  Calls,    \* [Req -> its statements: a sequence of "exec" and "query", or a ping]
  Answers,  \* what the server may answer to a statement, sequences of packets
  MaxConn,  \* bound: connections that are started
  MaxData,      \* bound: messages with data in the queue of the ctx
  MaxOvertaken, \* bound: times a message is taken before an earlier one
  MaxGarbage    \* bound: packets that bytes out of place are read as

VARIABLES
  conn,             \* state of m_pClient
  gen,              \* the number of the connection
  doomed,           \* Close(0) was called on it
  wire,             \* packets of the answers to come, the server's or on their way
  inbox,            \* messages of its network thread in the queue of the ctx
  handler,          \* the loop the ctx is in, or "none"
  snapshot,         \* vtDeleteRequest of ReceiveMysqlDisconnect
  m_smRecvData,     \* received packets; the last one may be a part
  m_vtRequest,      \* entries [req, gen]: the connection it was sent on
  m_vtWaitRequest,
  pc,               \* where the coroutine of a request is
  call,             \* the number of its statement
  step,             \* the packet the statement waits for
  ret,              \* what the request returned
  \* auxiliary
  overtaken,        \* times a message was taken before one pushed earlier
  overlap,          \* a disconnect took requests of a later connection
  unfit             \* an answer was not what the call was made for

netVars     == <<conn, gen, doomed, wire>>
requestVars == <<pc, call, step, ret>>
listVars    == <<m_vtRequest, m_vtWaitRequest>>
loopVars    == <<handler, snapshot>>
queueVars   == <<inbox, overtaken>>
ghostVars   == <<overlap, unfit>>
vars == <<netVars, queueVars, loopVars, m_smRecvData, listVars, requestVars, ghostVars>>

(* The first byte tells packets apart: 0x00, 0xff, 0xfe, up to 250, and the *)
(* others, with which a row begins whose first column is NULL or long.     *)
(* "part" is one that has not arrived completely, and cut one of which a   *)
(* part did.  "garbage" is what bytes out of place are read as.  todo is   *)
(* auxiliary: the packets of its answer from this one on.                  *)
AnswerKind == {"ok", "okmore", "error", "head", "field", "eof", "eofmore", "row", "nullrow"}
PacketKind == AnswerKind \cup {"part", "garbage"}
Statement == [req : Req, n : Nat]
Packet    == [of : Statement, kind : PacketKind, todo : Seq(PacketKind), cut : BOOLEAN]
Message   == [kind : {"data"}, gen : 1..MaxConn, packets : Seq(Packet) \ {<<>>}]
             \cup [kind : {"connect", "disconnect", "verified"}, gen : 1..MaxConn]
Entry     == [req : Req, gen : 1..MaxConn]

TypeOK ==
  /\ conn \in {"closed", "connecting", "verify", "result", "verified", "up"}
  /\ gen \in 1..MaxConn
  /\ doomed \in BOOLEAN
  /\ wire \in Seq(Packet)
  /\ inbox \in Seq(Message)
  /\ handler \in {"none", "data", "verified", "disconnect", "timer"}
  /\ snapshot \in Seq(Entry)
  /\ m_smRecvData \in Seq(Packet)
  /\ m_vtRequest \in Seq(Entry)
  /\ m_vtWaitRequest \in Seq(Req)
  /\ pc \in [Req -> {"idle", "waiting", "sent", "done"}]
  /\ call \in [Req -> Nat] /\ \A r \in Req : call[r] \in DOMAIN Calls[r]
  /\ step \in [Req -> {"exec", "head", "field", "eof", "row"}]
  /\ ret \in [Req -> {"none", "own", "foreign", "error", "fail", "nonet"}]
  /\ overtaken \in 0..MaxOvertaken /\ overlap \in BOOLEAN /\ unfit \in BOOLEAN

Init ==
  /\ conn = "connecting" /\ gen = 1 /\ doomed = FALSE
  /\ wire = <<>> /\ inbox = <<>>
  /\ handler = "none" /\ snapshot = <<>>
  /\ m_smRecvData = <<>>
  /\ m_vtRequest = <<>> /\ m_vtWaitRequest = <<>>
  /\ pc = [r \in Req |-> "idle"]
  /\ call = [r \in Req |-> 1]
  /\ step = [r \in Req |-> "exec"]
  /\ ret = [r \in Req |-> "none"]
  /\ overtaken = 0 /\ overlap = FALSE /\ unfit = FALSE

IsTransmit == conn = "up"
IsPing(r)  == Calls[r][1] = "ping"
ErrorClose == doomed' = (doomed \/ conn # "closed")

(***************************************************************************)
(* The coroutines.                                                         *)
(***************************************************************************)
(* What a call was made for: exec for a statement without rows, query for  *)
(* one with rows, and none of these begins with NULL or a long column.     *)
Fits(via, answer) ==
  /\ answer[1] \in (IF via = "query" THEN {"head"} ELSE {"ok", "okmore"}) \cup {"error"}
  /\ \A i \in DOMAIN answer : answer[i] # "nullrow"

FirstStep(via) == IF via = "query" THEN "head" ELSE "exec"

(* Push the entry, send statement n, yield.  The server answers in order,  *)
(* with what and how late is open: so the answer is chosen here, and       *)
(* OnReceive takes its time.                                               *)
SendRequest(r, n, queue) ==
  LET via == Calls[r][n]
      of  == [req |-> r, n |-> n] IN
  /\ m_vtRequest' = Append(queue, [req |-> r, gen |-> gen])
  /\ \E answer \in Answers :
       /\ via = "ping" => Len(answer) = 1
       /\ wire' = wire \o [i \in DOMAIN answer |->
                             [of |-> of, kind |-> answer[i], cut |-> FALSE,
                              todo |-> SubSeq(answer, i, Len(answer))]]
       /\ unfit' = (unfit \/ ~Fits(via, answer))
  /\ pc' = [pc EXCEPT ![r] = "sent"]
  /\ call' = [call EXCEPT ![r] = n]
  /\ step' = [step EXCEPT ![r] = FirstStep(via)]

Wait(r, n) ==
  /\ m_vtWaitRequest' = Append(m_vtWaitRequest, r)
  /\ pc' = [pc EXCEPT ![r] = "waiting"]
  /\ call' = [call EXCEPT ![r] = n]

Finish(r, result) ==
  /\ pc' = [pc EXCEPT ![r] = "done"]
  /\ ret' = [ret EXCEPT ![r] = IF @ = "foreign" THEN @ ELSE result]

(* Without a connection a statement waits and a ping does not. *)
DispathBussinessMsg(r) ==
  /\ handler = "none"
  /\ pc[r] = "idle"
  /\ IF IsTransmit
     THEN SendRequest(r, 1, m_vtRequest) /\ UNCHANGED <<m_vtWaitRequest, ret>>
     ELSE IF IsPing(r)
     THEN Finish(r, "nonet") /\ UNCHANGED <<wire, unfit, listVars, call, step>>
     ELSE Wait(r, 1) /\ UNCHANGED <<wire, unfit, m_vtRequest, step, ret>>
  /\ UNCHANGED <<conn, gen, doomed, queueVars, loopVars, m_smRecvData, overlap>>

(* The front of the wait queue is resumed: it sends, or there is no net.   *)
ResumeWaiter ==
  LET r == Head(m_vtWaitRequest) IN
  /\ m_vtWaitRequest' = Tail(m_vtWaitRequest)
  /\ IF IsTransmit
     THEN SendRequest(r, call[r], m_vtRequest) /\ UNCHANGED ret
     ELSE Finish(r, "nonet") /\ UNCHANGED <<wire, unfit, m_vtRequest, call, step>>
  /\ UNCHANGED <<conn, gen, doomed, queueVars, loopVars, m_smRecvData, overlap>>

(* What ExecReply and QueryReply do with a packet: the packets they can    *)
(* wait for next, or how the statement ends.  A header from another answer *)
(* gives some number of fields; a packet that is no field counts as one.   *)
NextStep(at, kind) ==
  CASE at = "exec"  -> IF kind = "okmore" THEN {"exec"}
                       ELSE IF kind = "ok" THEN {"own"} ELSE {"error"}
    [] at = "head"  -> IF kind = "error" THEN {"error"}
                       ELSE IF kind = "head" THEN {"field"}
                       ELSE IF kind \in {"field", "row"} THEN {"field", "eof"} ELSE {"eof"}
    [] at = "field" -> IF kind \in {"error", "eof", "eofmore", "nullrow"}
                       THEN {"fail"} ELSE {"eof"}
    [] at = "eof"   -> IF kind \in {"eof", "eofmore"} THEN {"row"} ELSE {"fail"}
    [] at = "row"   -> IF kind \in {"error", "nullrow"} THEN {"fail"}
                       ELSE IF kind = "eof" THEN {"own"}
                       ELSE IF kind = "eofmore" THEN {"head"} ELSE {"row"}

Steps == {"exec", "head", "field", "eof", "row"}

(* The reply of a query that failed ends the chain of DispathBussinessMsg_3 *)
(* _Multi, and so does a packet that cannot be; an error that ExecReply     *)
(* read does not.                                                          *)
Chains(r, end) ==
  /\ call[r] < Len(Calls[r])
  /\ end = "own" \/ (Calls[r][call[r]] = "exec" /\ end = "error")

(* Statement r is at ends as end.  Its entry goes; the next one of the     *)
(* chain is sent, or waits when there is no connection.  A ping that got   *)
(* something else than OK closes the connection.                           *)
StatementEnds(r, end) ==
  IF Chains(r, end)
  THEN /\ IF IsTransmit
          THEN SendRequest(r, call[r] + 1, Tail(m_vtRequest)) /\ UNCHANGED m_vtWaitRequest
          ELSE /\ Wait(r, call[r] + 1)
               /\ m_vtRequest' = Tail(m_vtRequest)
               /\ UNCHANGED <<wire, unfit, step>>
       /\ UNCHANGED doomed
  ELSE /\ pc' = [pc EXCEPT ![r] = "done"]
       /\ m_vtRequest' = Tail(m_vtRequest)
       /\ IF IsPing(r) /\ end = "error" THEN ErrorClose ELSE UNCHANGED doomed
       /\ UNCHANGED <<wire, unfit, m_vtWaitRequest, call, step>>

Verdict(r, of, end) ==
  IF ret[r] = "foreign" \/ of # [req |-> r, n |-> call[r]] THEN "foreign"
  ELSE IF ret[r] # "none" \/ end \in Steps \/ (end = "own" /\ Chains(r, end))
  THEN ret[r] ELSE end

(***************************************************************************)
(* The messages of the network thread, handled in the ctx.                 *)
(***************************************************************************)
NextMessage(kind, k) ==
  /\ handler = "none"
  /\ inbox[k].kind = kind
  /\ inbox' = Without(inbox, k)
  /\ k # 1 => overtaken < MaxOvertaken
  /\ overtaken' = overtaken + (IF k = 1 THEN 0 ELSE 1)

(* Mutated: what an earlier connection left is kept. *)
ReceiveMysqlConnectKeep(k) ==
  /\ NextMessage("connect", k)
  /\ UNCHANGED <<netVars, loopVars, m_smRecvData, listVars, requestVars, ghostVars>>

ReceiveMysqlConnect(k) ==
  /\ NextMessage("connect", k)
  /\ m_smRecvData' = <<>>
  /\ UNCHANGED <<netVars, loopVars, listVars, requestVars, ghostVars>>

EndsInPart(data) == Len(data) # 0 /\ data[Len(data)].kind = "part"
Whole(data) == IF EndsInPart(data) THEN SubSeq(data, 1, Len(data) - 1) ELSE data

(* The bytes are put behind those in the buffer, and are read as packets   *)
(* from there.  They are what the server sent when they go on where those  *)
(* in the buffer end.                                                      *)
Continues(data, packets) ==
  /\ packets[1].cut = EndsInPart(data)
  /\ EndsInPart(data) => /\ packets[1].of = data[Len(data)].of
                         /\ packets[1].todo = data[Len(data)].todo

(* When they do not, the length of a packet is read somewhere in the       *)
(* middle of one.                                                          *)
Garbage(packets) ==
  {[i \in 1..n |-> [of   |-> [packets[1].of EXCEPT !.n = 0],
                    kind |-> IF i = n /\ more THEN "part" ELSE "garbage",
                    todo |-> <<"garbage">>, cut |-> FALSE]] :
     n \in 1..MaxGarbage, more \in BOOLEAN}

AppendData(data, packets) ==
  {Whole(data) \o read : read \in IF Continues(data, packets) THEN {packets}
                                                             ELSE Garbage(packets)}

(* The coroutine of OnReceive.  When no request waits for the data the     *)
(* connection is given up.                                                 *)
ReceiveData(k) ==
  /\ NextMessage("data", k)
  /\ m_smRecvData' \in AppendData(m_smRecvData, inbox[k].packets)
  /\ IF m_vtRequest = <<>>
     THEN ErrorClose /\ UNCHANGED handler
     ELSE handler' = "data" /\ UNCHANGED doomed
  /\ UNCHANGED <<conn, gen, wire, snapshot, listVars, requestVars, ghostVars>>

IsPacketFull == m_smRecvData # <<>> /\ Head(m_smRecvData).kind # "part"

FrontData(queue) == Head(queue)

(* The front has taken a packet of statement of: it waits for the next one *)
(* or its statement ends, and then the next in the list is the front.      *)
Takes(r, of, next) ==
  /\ ret' = [ret EXCEPT ![r] = Verdict(r, of, next)]
  /\ IF next \in Steps
     THEN /\ step' = [step EXCEPT ![r] = next]
          /\ UNCHANGED <<doomed, wire, unfit, listVars, pc, call>>
     ELSE StatementEnds(r, next)

GetPacketYield ==
  LET r == FrontData(m_vtRequest).req
      packet == Head(m_smRecvData) IN
  /\ handler = "data"
  /\ m_vtRequest # <<>> /\ IsPacketFull
  /\ packet.kind # "garbage"
  /\ m_smRecvData' = Tail(m_smRecvData)
  /\ \E next \in NextStep(step[r], packet.kind) : Takes(r, packet.of, next)
  /\ UNCHANGED <<conn, gen, queueVars, loopVars, overlap>>

(* Garbage is taken for any packet, or its length is none that is allowed: *)
(* then the statement fails, and the bytes stay.  That the connection is   *)
(* closed over some of it is left to OnDisconnect.                         *)
GetGarbageYield ==
  LET r == FrontData(m_vtRequest).req
      packet == Head(m_smRecvData) IN
  /\ handler = "data"
  /\ m_vtRequest # <<>> /\ IsPacketFull
  /\ packet.kind = "garbage"
  /\ \/ /\ m_smRecvData' = Tail(m_smRecvData)
        /\ \E kind \in AnswerKind, next \in Steps \cup {"own", "error", "fail"} :
             next \in NextStep(step[r], kind) /\ Takes(r, packet.of, next)
     \/ UNCHANGED m_smRecvData /\ Takes(r, packet.of, "fail")
  /\ UNCHANGED <<conn, gen, queueVars, loopVars, overlap>>

(* What is left over when nobody waits any more stays in the buffer. *)
ReceiveDataEnd ==
  /\ handler = "data"
  /\ m_vtRequest = <<>> \/ ~IsPacketFull
  /\ handler' = "none"
  /\ UNCHANGED <<netVars, queueVars, snapshot, m_smRecvData, listVars, requestVars, ghostVars>>

(* ReceiveMysqlDisconnect copies the requests, then fails each of them. *)
ReceiveMysqlDisconnect(k) ==
  /\ NextMessage("disconnect", k)
  /\ handler' = "disconnect"
  /\ snapshot' = m_vtRequest
  /\ overlap' = (overlap \/ \E i \in DOMAIN m_vtRequest :
                                m_vtRequest[i].gen # inbox[k].gen)
  /\ UNCHANGED <<netVars, m_smRecvData, listVars, requestVars, unfit>>

FailRequest ==
  /\ handler = "disconnect"
  /\ snapshot # <<>>
  /\ snapshot' = Tail(snapshot)
  /\ m_vtRequest' = Tail(m_vtRequest)
  /\ Finish(Head(snapshot).req, "fail")
  /\ UNCHANGED <<netVars, queueVars, handler, m_smRecvData, m_vtWaitRequest, call, step,
                 ghostVars>>

(* What is left over is dropped. *)
DisconnectEnd ==
  /\ handler = "disconnect"
  /\ snapshot = <<>>
  /\ m_vtRequest' = <<>>
  /\ handler' = "none"
  /\ UNCHANGED <<netVars, queueVars, snapshot, m_smRecvData, m_vtWaitRequest, requestVars,
                 ghostVars>>

(* The message of OnReceiveVerifyResult resumes waiters until there are    *)
(* none.                                                                   *)
VerifySuccess(k) ==
  /\ NextMessage("verified", k)
  /\ handler' = "verified"
  /\ UNCHANGED <<netVars, snapshot, m_smRecvData, listVars, requestVars, ghostVars>>

VerifiedResume ==
  /\ handler = "verified"
  /\ m_vtWaitRequest # <<>>
  /\ ResumeWaiter

VerifiedEnd ==
  /\ handler = "verified"
  /\ m_vtWaitRequest = <<>>
  /\ handler' = "none"
  /\ UNCHANGED <<netVars, queueVars, snapshot, m_smRecvData, listVars, requestVars, ghostVars>>

(***************************************************************************)
(* The timer.  A request times out by m_nDefaultTimeoutRequest, and how    *)
(* long one has been in its list is left open.                             *)
(***************************************************************************)
(* Mutated: the request is left where it is. *)
OnTimerCloseNever ==
  /\ FALSE
  /\ UNCHANGED vars

(* The oldest request has no answer for too long: close, and nothing else. *)
OnTimerClose ==
  /\ handler = "none"
  /\ m_vtRequest # <<>>
  /\ ErrorClose
  /\ UNCHANGED <<conn, gen, wire, queueVars, loopVars, m_smRecvData, listVars,
                 requestVars, ghostVars>>

(* Otherwise connect when there is no connection, and look at the waiters. *)
OnTimer ==
  /\ handler = "none"
  /\ conn = "closed" \/ m_vtWaitRequest # <<>>
  /\ IF conn = "closed" /\ gen < MaxConn
     THEN conn' = "connecting" /\ gen' = gen + 1
     ELSE UNCHANGED <<conn, gen>>
  /\ handler' = "timer"
  /\ UNCHANGED <<doomed, wire, queueVars, snapshot, m_smRecvData, listVars,
                 requestVars, ghostVars>>

OnTimerResume ==
  /\ handler = "timer"
  /\ m_vtWaitRequest # <<>>
  /\ ResumeWaiter

OnTimerEnd ==
  /\ handler = "timer"
  /\ handler' = "none"
  /\ UNCHANGED <<netVars, queueVars, snapshot, m_smRecvData, listVars, requestVars, ghostVars>>

(***************************************************************************)
(* The session, in the network threads.                                    *)
(***************************************************************************)
ctxVars == <<loopVars, m_smRecvData, listVars, requestVars>>

NetMessage(kind) ==
  inbox' = Append(inbox, [kind |-> kind, gen |-> gen]) /\ UNCHANGED overtaken

OnConnect ==
  /\ conn = "connecting"
  /\ conn' = "verify"
  /\ NetMessage("connect")
  /\ UNCHANGED <<gen, doomed, wire, ctxVars, ghostVars>>

(* The greeting is answered; one that is too short closes the connection.  *)
OnReceiveVerify(ok) ==
  /\ conn = "verify"
  /\ IF ok THEN conn' = "result" /\ UNCHANGED doomed ELSE ErrorClose /\ UNCHANGED conn
  /\ UNCHANGED <<gen, wire, queueVars, ctxVars, ghostVars>>

(* OK: the ctx is told before the session carries data.  An error is only  *)
(* logged, and the session waits; what is neither closes the connection.   *)
OnReceiveVerifyResult(ok) ==
  /\ conn = "result"
  /\ IF ok
     THEN conn' = "verified" /\ NetMessage("verified") /\ UNCHANGED doomed
     ELSE ErrorClose /\ UNCHANGED <<conn, queueVars>>
  /\ UNCHANGED <<gen, wire, ctxVars, ghostVars>>

Transmit ==
  /\ conn = "verified"
  /\ conn' = "up"
  /\ UNCHANGED <<gen, doomed, wire, queueVars, ctxVars, ghostVars>>

(* Some packets arrive, and perhaps a part of the next one. *)
OnReceive(n, cut) ==
  /\ IsTransmit
  /\ Len(SelectSeq(inbox, LAMBDA m : m.kind = "data")) < MaxData
  /\ n <= Len(wire) /\ n + cut > 0
  /\ cut = 1 => n < Len(wire) /\ ~wire[n + 1].cut
  /\ LET rest == SubSeq(wire, n + 1, Len(wire)) IN
     /\ wire' = IF cut = 1 THEN [rest EXCEPT ![1].cut = TRUE] ELSE rest
     /\ inbox' = Append(inbox,
          [kind |-> "data", gen |-> gen,
           packets |-> SubSeq(wire, 1, n) \o
             IF cut = 1 THEN <<[wire[n + 1] EXCEPT !.kind = "part"]>> ELSE <<>>])
  /\ UNCHANGED <<conn, gen, doomed, overtaken, ctxVars, ghostVars>>

(* Closed by the peer or by ErrorClose. *)
OnDisconnect ==
  /\ conn \notin {"closed", "connecting"}
  /\ conn' = "closed"
  /\ doomed' = FALSE
  /\ wire' = <<>>
  /\ NetMessage("disconnect")
  /\ UNCHANGED <<gen, ctxVars, ghostVars>>

(* Nobody answers the connect, and no callback is made. *)
ConnectFails ==
  /\ conn = "connecting"
  /\ conn' = "closed"
  /\ doomed' = FALSE
  /\ UNCHANGED <<gen, wire, queueVars, ctxVars, ghostVars>>

(***************************************************************************)
(* The specification.                                                      *)
(***************************************************************************)
CtxMessage ==
  \E k \in DOMAIN inbox :
    ReceiveMysqlConnect(k) \/ ReceiveData(k) \/ ReceiveMysqlDisconnect(k) \/ VerifySuccess(k)

HandlerStep ==
  \/ GetPacketYield \/ GetGarbageYield \/ ReceiveDataEnd \/ FailRequest \/ DisconnectEnd
  \/ VerifiedResume \/ VerifiedEnd \/ OnTimerResume \/ OnTimerEnd

Next ==
  \/ \E r \in Req : DispathBussinessMsg(r)
  \/ CtxMessage \/ HandlerStep
  \/ OnTimerClose \/ OnTimer
  \/ OnConnect \/ Transmit \/ OnDisconnect \/ ConnectFails
  \/ \E ok \in BOOLEAN : OnReceiveVerify(ok) \/ OnReceiveVerifyResult(ok)
  \/ \E n \in 0..Len(wire), cut \in 0..1 : OnReceive(n, cut)

Spec == Init /\ [][Next]_vars

(* As for CtxRedis: messages are dispatched, the timer keeps coming, who   *)
(* stays in a list times out, and a closed session reports it.             *)
Fairness ==
  /\ SF_vars(CtxMessage)
  /\ WF_vars(HandlerStep)
  /\ SF_vars(OnTimerClose) /\ SF_vars(OnTimer) /\ SF_vars(OnTimerResume)
  /\ WF_vars(doomed /\ OnDisconnect)

FairSpec == Spec /\ Fairness

(***************************************************************************)
(* What the proofs take of the constants.  An answer is what the protocol  *)
(* says one is: when the call was made for it, reading it packet by packet *)
(* comes to an end with the last one and not before.                       *)
(***************************************************************************)
Reads(at, kinds) ==
  \E f \in [DOMAIN kinds -> Steps] :
    /\ f[1] = at
    /\ \A i \in 1..Len(kinds) - 1 : NextStep(f[i], kinds[i]) = {f[i + 1]}
    /\ NextStep(f[Len(kinds)], kinds[Len(kinds)]) \cap Steps = {}

MysqlConstants ==
  /\ MaxConn \in Nat \ {0} /\ MaxOvertaken \in Nat /\ MaxGarbage \in Nat
  /\ \A r \in Req : Calls[r] \in Seq({"exec", "query", "ping"}) \ {<<>>}
  /\ Answers \subseteq Seq(AnswerKind) \ {<<>>}
  /\ \A answer \in Answers, via \in {"exec", "query", "ping"} :
       (via = "ping" => Len(answer) = 1) /\ Fits(via, answer)
         => Reads(FirstStep(via), answer)

(***************************************************************************)
(* Properties.                                                             *)
(***************************************************************************)
(* The packets of this connection that nobody has taken, in the order of   *)
(* the stream: received, in a message, or to come.                         *)
Untaken(k) ==
  IF k = 0
  THEN IF \E i \in DOMAIN inbox : inbox[i].kind = "connect" THEN <<>> ELSE m_smRecvData
  ELSE IF k > Len(inbox) THEN wire
  ELSE IF inbox[k].kind = "data" /\ inbox[k].gen = gen THEN inbox[k].packets ELSE <<>>

Places == UNION {{<<k, i>> : i \in DOMAIN Untaken(k)} : k \in 0..Len(inbox) + 1}
Of(p)  == Untaken(p[1])[p[2]].of
NotAfter(p, q) == p[1] < q[1] \/ (p[1] = q[1] /\ p[2] <= q[2])

(* The entries of this connection. *)
Asked == {i \in DOMAIN m_vtRequest : m_vtRequest[i].gen = gen}
StatementOf(i) == [req |-> m_vtRequest[i].req, n |-> call[m_vtRequest[i].req]]

(* GetPacketYield takes whatever packet is next (ctx_mysql.cpp:793), so the *)
(* list and the stream must be in step: whoever is in the list has packets *)
(* coming, in the order of the list, however answers are cut up and joined *)
(* on the way, and nobody takes another's.  It holds as long as no         *)
(* disconnect takes requests of a later connection, every answer is one    *)
(* the call can read to its end, and no message of the session was taken   *)
(* before one that was pushed earlier.                                     *)
StreamInStep ==
  overtaken = 0 /\ ~overlap /\ ~unfit =>
    /\ conn = "up" =>
         /\ \A i \in Asked : \E p \in Places : Of(p) = StatementOf(i)
         /\ \A p, q \in Places : NotAfter(p, q) =>
              \E i, j \in Asked : i <= j /\ Of(p) = StatementOf(i) /\ Of(q) = StatementOf(j)
    /\ \A r \in Req : ret[r] # "foreign"

(* Every request ends.  Each is made once, so at some time none is under   *)
(* way any more.                                                           *)
NoneUnderWay  == \A r \in Req : pc[r] \in {"idle", "done"}
StatementsEnd == <>[]NoneUnderWay

=============================================================================
