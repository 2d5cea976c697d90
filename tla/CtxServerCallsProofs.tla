------------------------ MODULE CtxServerCallsProofs ------------------------
(***************************************************************************)
(* Proofs about CtxServerCalls for every set of servers and calls, every   *)
(* number of connections and of processes.  Numbers are the hard part: a   *)
(* call is found again by one, in the process of its caller and in the ctx *)
(* of its session, and a later process draws the same ones.                *)
(***************************************************************************)
EXTENDS CtxServerCalls, FiniteSetTheorems, TLAPS

(* What the parts of the invariant say of a call, in the order of its way. *)
Requested(c) == pc[c] # "idle"

RequestAt(s, p) == p \in toCenter[s] /\ p.kind = "request"
TransferAt(s, m) == m \in inbox[s] /\ m.kind = "transfer"
ResponseAt(s, m) == m \in inbox[s] /\ m.kind = "response"
AnswerAt(s, p) == p \in toCenter[s] /\ p.kind = "answer"

(* It is about to be carried out by a link. *)
AtLink(c) ==
  \/ \E e \in executing : e.call = c
  \/ \E s \in Server : \E m \in inbox[s] : TransferAt(s, m) /\ m.call = c

(* What its caller knows of a call. *)
CallerInv ==
  \A c \in Call :
    /\ pc[c] \in {"idle", "sent", "dead"} => ret[c] = "none"
    /\ pc[c] = "idle" => stage[c] = "none" /\ c \notin old
    /\ pc[c] = "sent" => c \notin old
    /\ Requested(c) => num[c] \in Number /\ sentOn[c] <= gen[From[c]]

(* The numbers of a process that lives are different, and drawn already;   *)
(* and no answer reaches one that has ended on its connection.             *)
NumberInv ==
  /\ \A c \in Call :
       /\ Requested(c) /\ c \notin old => num[c] <= index[From[c]]
       /\ c \in old => sentOn[c] < gen[From[c]] \/ conn[From[c]] = "closed"
  /\ \A c, d \in Call :
       /\ Requested(c) /\ c \notin old /\ Requested(d) /\ d \notin old
       /\ From[c] = From[d] /\ num[c] = num[d]
       => c = d

(* As many numbers are enough as there are calls. *)
CalledBy(s) == {c \in Call : From[c] = s /\ Requested(c)}
IndexInv == \A s \in Server : index[s] <= Cardinality(CalledBy(s))

(* A request is on its way to the center before its coroutine begins. *)
RequestInv ==
  \A s \in Server : \A p \in toCenter[s] :
    RequestAt(s, p) =>
      /\ From[p.call] = s /\ p.on = sentOn[p.call]
      /\ stage[p.call] = "none" /\ Requested(p.call)

(* A call is about to be carried out in one place, and was not yet. *)
OnceInv ==
  /\ \A c \in Call :
       /\ stage[c] \in {"none", "queued"} => ~AtLink(c) /\ served[c] = 0
       /\ AtLink(c) => served[c] = 0
       /\ served[c] \in {0, 1}
  /\ \A e, f \in executing : e.call = f.call => e = f
  /\ \A s, t \in Server : \A m \in inbox[s], n \in inbox[t] :
       TransferAt(s, m) /\ TransferAt(t, n) /\ m.call = n.call => s = t /\ m = n
  /\ \A e \in executing : \A s \in Server : \A m \in inbox[s] :
       TransferAt(s, m) => m.call # e.call

(* An answer is to a call that was made, and a success to one that was     *)
(* carried out.                                                            *)
Truthful(a) == Requested(a.of) /\ (a.ok => served[a.of] = 1)
AnswerInv ==
  /\ \A s \in Server : \A p \in toCenter[s] : AnswerAt(s, p) => Truthful(p.answer)
  /\ \A a \in wakeups : Truthful(a)
  /\ \A s \in Server : \A m \in inbox[s] : ResponseAt(s, m) => Truthful(m.answer)

(* A response has the number of the call it answers; of a call of the      *)
(* process that gets it, as long as no number was used again.              *)
ResponseInv ==
  \A s \in Server : \A m \in inbox[s] :
    ResponseAt(s, m) =>
      /\ From[m.answer.of] = s /\ num[m.answer.of] = m.num
      /\ ~reused => m.answer.of \notin old

(* Of two calls with one number at most one is still on its way. *)
ApartInv ==
  ~reused =>
    \A c, d \in Call :
      /\ Requested(c) /\ Requested(d)
      /\ From[c] = From[d] /\ num[c] = num[d]
      /\ InFlight(c) /\ InFlight(d)
      => c = d

IInv ==
  /\ TypeOK /\ CallerInv /\ NumberInv /\ IndexInv /\ RequestInv /\ OnceInv
  /\ AnswerInv /\ ResponseInv /\ ApartInv /\ MapInStep /\ OwnAnswer

(***************************************************************************)
(* The sets the types are built from.                                      *)
(***************************************************************************)
(* Numbers and connections are counted from one. *)
LEMMA CountFacts ==
  /\ Cardinality(Call) \in Nat
  /\ \A n \in Number : n \in Nat /\ n # 0 /\ n <= Cardinality(Call)
  /\ \A n \in Nat \ {0} : n <= Cardinality(Call) => n \in Number
  /\ \A g \in Connection : g \in Nat /\ g # 0
  /\ \A s \in Server : \A g \in Nat \ {0} : g <= MaxConn[s] => g \in Connection
<1>1. Cardinality(Call) \in Nat
  BY FS_CardinalityType, ServerCallsAssumption
<1>2. \A s \in Server : MaxConn[s] \in Nat
  BY ServerCallsAssumption
<1>3. \A g \in Connection : g \in Nat /\ g # 0
  BY <1>2 DEF Connection
<1>4. \A s \in Server : \A g \in Nat \ {0} : g <= MaxConn[s] => g \in Connection
  BY <1>2 DEF Connection
<1> QED
  BY <1>1, <1>3, <1>4 DEF Number

(* What a packet carries, by its kind. *)
LEMMA PacketFacts ==
  /\ \A p \in Packet :
       /\ p.kind = "request" => p.call \in Call
       /\ p.kind = "answer" => p.answer \in Answer /\ p.answer.of \in Call
       /\ p.on \in Connection
  /\ \A p, q \in Packet :
       p.kind = "request" /\ q.kind = "request" /\ p.call = q.call /\ p.on = q.on => p = q
  /\ \A g \in Connection : [kind |-> "register", on |-> g] \in Packet
  /\ \A g \in Connection : \A c \in Call : [kind |-> "request", call |-> c, on |-> g] \in Packet
  /\ \A g \in Connection : \A a \in Answer : [kind |-> "answer", answer |-> a, on |-> g] \in Packet
BY DEF Packet, Answer

(* And a message. *)
LEMMA MessageFacts ==
  /\ \A m \in Message :
       /\ m.kind = "transfer" => m.call \in Call
       /\ m.kind = "response" => m.num \in Number /\ m.answer \in Answer /\ m.answer.of \in Call
  /\ \A g \in Connection : [kind |-> "disconnect", on |-> g] \in Message
  /\ \A g \in Connection : \A c \in Call : [kind |-> "transfer", call |-> c, on |-> g] \in Message
  /\ \A g \in Connection : \A n \in Number : \A a \in Answer :
       [kind |-> "response", num |-> n, answer |-> a, on |-> g] \in Message
BY DEF Message, Answer

(* An answer has the call it is to, and what came of it. *)
LEMMA AnswerFacts ==
  /\ \A a \in Answer : a.of \in Call /\ a.ok \in BOOLEAN
  /\ \A c \in Call : \A ok \in BOOLEAN : [of |-> c, ok |-> ok] \in Answer
BY DEF Answer

(* The calls of a server are finitely many. *)
LEMMA CalledFinite ==
  ASSUME NEW s \in Server
  PROVE  IsFiniteSet(CalledBy(s)) /\ Cardinality(CalledBy(s)) \in Nat
         /\ Cardinality(CalledBy(s)) <= Cardinality(Call)
<1>1. CalledBy(s) \subseteq Call
  BY DEF CalledBy
<1> QED
  BY <1>1, FS_Subset, FS_CardinalityType, ServerCallsAssumption

(* Who calls takes a number that there is. *)
LEMMA NewNumber ==
  ASSUME TypeOK, IndexInv, NEW c \in Call, pc[c] = "idle"
  PROVE  GetNewSessionID(From[c]) \in Number
<1> DEFINE s == From[c]
<1>1. s \in Server
  BY ServerCallsAssumption
<1>2. CalledBy(s) \subseteq Call /\ c \in Call /\ c \notin CalledBy(s)
  BY DEF CalledBy, Requested
<1>3. Cardinality(CalledBy(s)) < Cardinality(Call)
  BY <1>2, FS_Subset, FS_CardinalityType, ServerCallsAssumption
<1>4. index[s] \in Nat /\ index[s] <= Cardinality(CalledBy(s))
  BY <1>1, CountFacts DEF TypeOK, IndexInv
<1> QED
  BY <1>1, <1>3, <1>4, CalledFinite, CountFacts DEF GetNewSessionID

(* What has come to the center was sent, with a number. *)
LEMMA BegunHasNumber ==
  ASSUME CallerInv, NEW c \in Call, stage[c] # "none"
  PROVE  Requested(c) /\ num[c] \in Number
BY DEF CallerInv, Requested

(* A response is a message. *)
LEMMA RespondType ==
  ASSUME TypeOK, CallerInv, NEW c \in Call, stage[c] # "none", NEW answer \in Answer,
         Respond(c, answer)
  PROVE  inbox' \in [Server -> SUBSET Message]
<1>1. num[c] \in Number /\ From[c] \in Server /\ gen[From[c]] \in Connection
  BY BegunHasNumber, ServerCallsAssumption DEF TypeOK
<1>2. [kind |-> "response", num |-> num[c], answer |-> answer, on |-> gen[From[c]]] \in Message
  BY <1>1, MessageFacts
<1> QED
  BY <1>1, <1>2 DEF TypeOK, Respond

(* A call that is carried out is answered, or the answer is lost. *)
Carried(e, p) ==
  /\ e.call \in Call /\ e.at \in Server
  /\ p.kind = "answer" /\ p.answer.of = e.call
  /\ executing' = executing \ {e}
  /\ served' = [served EXCEPT ![e.call] = IF p.answer.ok THEN @ + 1 ELSE @]
  /\ toCenter' \in {toCenter, [toCenter EXCEPT ![e.at] = @ \cup {p}]}
  /\ UNCHANGED <<linkVars, callVars, inbox, centerVars, restarts, old, reused>>

(* The two outcomes of Exec, with the packet that answers. *)
LEMMA ExecCase ==
  ASSUME TypeOK, NEW e \in executing, NEW ok \in BOOLEAN, Exec(e, ok)
  PROVE  \E p \in Packet : Carried(e, p)
<1> DEFINE a == [of |-> e.call, ok |-> ok]
           p == [kind |-> "answer", answer |-> a, on |-> gen[e.at]]
<1>1. e.call \in Call /\ e.at \in Server
  BY DEF TypeOK
<1>2. a \in Answer /\ gen[e.at] \in Connection
  BY <1>1, AnswerFacts DEF TypeOK
<1>3. p \in Packet
  BY <1>2, PacketFacts
<1>4. toCenter' = toCenter \/ toCenter' = [toCenter EXCEPT ![e.at] = @ \cup {p}]
  BY DEF Exec, Send
<1>5. /\ executing' = executing \ {e}
      /\ served' = [served EXCEPT ![e.call] = IF ok THEN @ + 1 ELSE @]
      /\ UNCHANGED <<linkVars, callVars, inbox, centerVars, restarts, old, reused>>
  BY DEF Exec
<1>6. p.kind = "answer" /\ p.answer.of = e.call /\ p.answer.ok = ok
  OBVIOUS
<1>7. Carried(e, p)
  BY <1>1, <1>4, <1>5, <1>6 DEF Carried
<1> QED
  BY <1>3, <1>7

(* What that does to the packets. *)
LEMMA CarriedPackets ==
  ASSUME TypeOK, NEW e \in executing, NEW p \in Packet, Carried(e, p)
  PROVE  /\ toCenter' \in [Server -> SUBSET Packet]
         /\ \A t \in Server : \A q \in toCenter'[t] : q \in toCenter[t] \/ q = p
<1>1. toCenter \in [Server -> SUBSET Packet]
  BY DEF TypeOK
<1>2. e.at \in Server
  BY DEF Carried
<1>3. toCenter' = toCenter \/ toCenter' = [toCenter EXCEPT ![e.at] = @ \cup {p}]
  BY DEF Carried
<1> QED
  BY <1>1, <1>2, <1>3

(***************************************************************************)
(* The end of a coroutine at the center: what the timer and the answers    *)
(* find in the map has waited for them.                                    *)
(***************************************************************************)
TimerEnds(c) ==
  /\ stage[c] = "waiting"
  /\ EndOfCoroutine(c)
  /\ Respond(c, [of |-> c, ok |-> FALSE])
  /\ UNCHANGED <<linkVars, callVars, executing, toCenter, bound, wakeups, auxVars>>

WakeupNobody(a) ==
  /\ a \in wakeups
  /\ wakeups' = wakeups \ {a}
  /\ UNCHANGED <<linkVars, callVars, inbox, executing, toCenter, bound, stage, m_mapRequest,
                 auxVars>>

WakeupEnds(a, c) ==
  /\ a \in wakeups
  /\ wakeups' = wakeups \ {a}
  /\ stage[a.of] # "dropped" /\ stage[c] = "waiting"
  /\ From[c] = From[a.of] /\ num[c] = num[a.of]
  /\ EndOfCoroutine(c)
  /\ Respond(c, a)
  /\ UNCHANGED <<linkVars, callVars, executing, toCenter, bound, auxVars>>

(* The timer fails the one that waits under a number. *)
LEMMA TimerCase ==
  ASSUME TypeOK, EntriesWait, NEW s \in Server, NEW n \in Number, OnTimer(s, n)
  PROVE  \E c \in Call : TimerEnds(c)
<1> DEFINE c == m_mapRequest[s][n]
<1>1. c \in Call
  BY DEF OnTimer, TypeOK
<1>2. stage[c] = "waiting"
  BY DEF OnTimer, EntriesWait
<1> QED
  BY <1>1, <1>2 DEF OnTimer, TimerEnds, auxVars

(* An answer finds nobody, or the one under the number of its call. *)
LEMMA WakeupCase ==
  ASSUME TypeOK, CallerInv, AnswerInv, EntriesWait, NEW a \in wakeups, Wakeup(a)
  PROVE  WakeupNobody(a) \/ \E c \in Call : WakeupEnds(a, c)
<1>1. a.of \in Call
  BY AnswerFacts DEF TypeOK
<1>2. num[a.of] \in Number /\ From[a.of] \in Server
  BY <1>1, ServerCallsAssumption DEF AnswerInv, Truthful, CallerInv
<1>3. CASE WaitsFor(a) = {}
  BY <1>3 DEF Wakeup, WakeupNobody
<1>4. CASE WaitsFor(a) # {}
  <2>1. PICK c \in WaitsFor(a) : EndOfCoroutine(c) /\ Respond(c, a)
    BY <1>4 DEF Wakeup
  <2>2. stage[a.of] # "dropped" /\ c = m_mapRequest[From[a.of]][num[a.of]] /\ c # None
    BY <2>1 DEF WaitsFor
  <2>3. c \in Call
    BY <1>2, <2>2 DEF TypeOK
  <2>4. From[c] = From[a.of] /\ num[c] = num[a.of] /\ stage[c] = "waiting"
    BY <1>2, <2>2 DEF EntriesWait
  <2> QED
    BY <2>1, <2>2, <2>3, <2>4 DEF Wakeup, WakeupEnds
<1> QED
  BY <1>3, <1>4

(* What a caller knows changes with its own steps only. *)
LEMMA CallerStep ==
   ASSUME TypeOK, CallerInv, RequestInv, OnceInv, AnswerInv, EntriesWait, IndexInv,
         [Next]_vars
  PROVE  CallerInv'
<1> USE ServerCallsAssumption DEF TypeOK, CallerInv, Requested, linkVars, callVars,
     centerVars, auxVars
<1>1. ASSUME NEW c \in Call, Request(c)
      PROVE  CallerInv'
  BY <1>1, NewNumber, CountFacts DEF Request, Send, IsTransmit
<1>2. ASSUME NEW c \in Call, OnTimerCheckTimeout(c)
      PROVE  CallerInv'
  BY <1>2 DEF OnTimerCheckTimeout, Close
<1>3. ASSUME NEW s \in Server, NEW m \in inbox[s], ReceiveResponse(s, m)
      PROVE  CallerInv'
  BY <1>3 DEF ReceiveResponse, Take, Told, Open
<1>4. ASSUME NEW s \in Server, NEW m \in inbox[s], ReceiveDisconnect(s, m)
      PROVE  CallerInv'
  BY <1>4 DEF ReceiveDisconnect, Take, Finish, Open
<1>5. ASSUME NEW s \in Server, NEW m \in inbox[s], ReceiveTransfer(s, m)
      PROVE  CallerInv'
  BY <1>5 DEF ReceiveTransfer, Take
<1>6. ASSUME NEW s \in Server, CheckConnect(s)
      PROVE  CallerInv'
  <2>1. \A t \in Server : gen[t] \in Nat /\ gen'[t] \in Nat /\ gen[t] <= gen'[t]
    BY <1>6, CountFacts DEF CheckConnect
  <2>2. \A c \in Call : sentOn[c] \in Nat /\ From[c] \in Server
    BY CountFacts
  <2> QED
    BY <2>1, <2>2, <1>6 DEF CheckConnect
<1>7. ASSUME NEW e \in executing, NEW p \in Packet, Carried(e, p)
      PROVE  CallerInv'
  BY <1>7 DEF Carried
<1>8. ASSUME NEW s \in Server, OnConnect(s)
      PROVE  CallerInv'
  BY <1>8 DEF OnConnect, Send
<1>9. ASSUME NEW s \in Server, OnDisconnect(s)
      PROVE  CallerInv'
  BY <1>9 DEF OnDisconnect, Lose
<1>10. ASSUME NEW s \in Server, ConnectFails(s)
      PROVE  CallerInv'
  BY <1>10 DEF ConnectFails, Lose
<1>11. ASSUME NEW s \in Server, Restart(s)
      PROVE  CallerInv'
  BY <1>11 DEF Restart, Lose, Open
<1>12. ASSUME NEW s \in Server, SessionRelease(s)
      PROVE  CallerInv'
  BY <1>12 DEF SessionRelease
<1>13. ASSUME NEW s \in Server, NEW p \in toCenter[s], GateRegister(s, p)
      PROVE  CallerInv'
  BY <1>13 DEF GateRegister, Read
<1>14. ASSUME NEW s \in Server, NEW p \in toCenter[s], OnReceiveUnbound(s, p)
      PROVE  CallerInv'
  BY <1>14 DEF OnReceiveUnbound, Read, Close
<1>15. ASSUME NEW s \in Server, NEW p \in toCenter[s], OnReceiveRequest(s, p)
      PROVE  CallerInv'
  BY <1>15 DEF OnReceiveRequest, Read, RequestInv, RequestAt
<1>16. ASSUME NEW s \in Server, NEW p \in toCenter[s], OnReceiveAnswer(s, p)
      PROVE  CallerInv'
  BY <1>16 DEF OnReceiveAnswer, Read
<1>17. ASSUME NEW c \in Call, TimerEnds(c)
      PROVE  CallerInv'
  BY <1>17 DEF TimerEnds, EndOfCoroutine, Respond
<1>18. ASSUME NEW c \in Call, NEW ok \in BOOLEAN, ReceiveDataLocal(c, ok)
      PROVE  CallerInv'
  BY <1>18 DEF ReceiveDataLocal, Respond
<1>19. ASSUME NEW c \in Call, NEW s \in Server, ReceiveDataNoServer(c, s)
      PROVE  CallerInv'
  BY <1>19 DEF ReceiveDataNoServer, Respond
<1>20. ASSUME NEW c \in Call, NEW s \in Server, ReceiveDataTransfer(c, s)
      PROVE  CallerInv'
  BY <1>20 DEF ReceiveDataTransfer
<1>21. ASSUME NEW a \in wakeups, WakeupNobody(a)
      PROVE  CallerInv'
  BY <1>21 DEF WakeupNobody
<1>22. ASSUME NEW a \in wakeups, NEW c \in Call, WakeupEnds(a, c)
      PROVE  CallerInv'
  BY <1>22 DEF WakeupEnds, EndOfCoroutine, Respond
<1>23. CASE UNCHANGED vars
  BY <1>23 DEF vars
<1> QED
   BY ExecCase, TimerCase, WakeupCase, <1>1, <1>2, <1>3, <1>4, <1>5, <1>6, <1>7, <1>8,
     <1>9, <1>10, <1>11, <1>12, <1>13, <1>14, <1>15, <1>16, <1>17, <1>18, <1>19,
     <1>20, <1>21, <1>22, <1>23
  DEF Next, LinkStep, Receive, NetworkStep, CenterStep

(* A request has left its link, and begins its coroutine only once. *)
LEMMA RequestStep ==
  ASSUME TypeOK, CallerInv, RequestInv, OnceInv, AnswerInv, EntriesWait, [Next]_vars
  PROVE  RequestInv'
<1> USE ServerCallsAssumption DEF TypeOK, CallerInv, RequestInv, RequestAt, Requested,
     linkVars, callVars, centerVars, auxVars
<1>1. ASSUME NEW c \in Call, Request(c)
      PROVE  RequestInv'
  BY <1>1 DEF Request, Send, IsTransmit
<1>2. ASSUME NEW c \in Call, OnTimerCheckTimeout(c)
      PROVE  RequestInv'
  BY <1>2 DEF OnTimerCheckTimeout, Close
<1>3. ASSUME NEW s \in Server, NEW m \in inbox[s], ReceiveResponse(s, m)
      PROVE  RequestInv'
  BY <1>3, PacketFacts DEF ReceiveResponse, Take, Told, Open
<1>4. ASSUME NEW s \in Server, NEW m \in inbox[s], ReceiveDisconnect(s, m)
      PROVE  RequestInv'
  BY <1>4, PacketFacts DEF ReceiveDisconnect, Take, Finish, Open
<1>5. ASSUME NEW s \in Server, NEW m \in inbox[s], ReceiveTransfer(s, m)
      PROVE  RequestInv'
  BY <1>5 DEF ReceiveTransfer, Take
<1>6. ASSUME NEW s \in Server, CheckConnect(s)
      PROVE  RequestInv'
  BY <1>6 DEF CheckConnect
<1>7. ASSUME NEW e \in executing, NEW p \in Packet, Carried(e, p)
      PROVE  RequestInv'
  <2>0. p.kind = "answer"
    BY <1>7 DEF Carried
  <2>1. \A t \in Server : \A q \in toCenter'[t] : q.kind = "request" => q \in toCenter[t]
    <3> HIDE DEF TypeOK, CallerInv, RequestInv
    <3> QED
      BY <2>0, <1>7, CarriedPackets
  <2> QED
    BY <2>1, <1>7 DEF Carried
<1>8. ASSUME NEW s \in Server, OnConnect(s)
      PROVE  RequestInv'
  BY <1>8 DEF OnConnect, Send
<1>9. ASSUME NEW s \in Server, OnDisconnect(s)
      PROVE  RequestInv'
  BY <1>9 DEF OnDisconnect, Lose
<1>10. ASSUME NEW s \in Server, ConnectFails(s)
      PROVE  RequestInv'
  BY <1>10 DEF ConnectFails, Lose
<1>11. ASSUME NEW s \in Server, Restart(s)
      PROVE  RequestInv'
  BY <1>11, PacketFacts DEF Restart, Lose, Open
<1>12. ASSUME NEW s \in Server, SessionRelease(s)
      PROVE  RequestInv'
  BY <1>12, PacketFacts DEF SessionRelease
<1>13. ASSUME NEW s \in Server, NEW p \in toCenter[s], GateRegister(s, p)
      PROVE  RequestInv'
  BY <1>13 DEF GateRegister, Read
<1>14. ASSUME NEW s \in Server, NEW p \in toCenter[s], OnReceiveUnbound(s, p)
      PROVE  RequestInv'
  BY <1>14 DEF OnReceiveUnbound, Read, Close
<1>15. ASSUME NEW s \in Server, NEW p \in toCenter[s], OnReceiveRequest(s, p)
      PROVE  RequestInv'
  BY <1>15, PacketFacts DEF OnReceiveRequest, Read
<1>16. ASSUME NEW s \in Server, NEW p \in toCenter[s], OnReceiveAnswer(s, p)
      PROVE  RequestInv'
  BY <1>16 DEF OnReceiveAnswer, Read
<1>17. ASSUME NEW c \in Call, TimerEnds(c)
      PROVE  RequestInv'
  BY <1>17 DEF TimerEnds, EndOfCoroutine, Respond
<1>18. ASSUME NEW c \in Call, NEW ok \in BOOLEAN, ReceiveDataLocal(c, ok)
      PROVE  RequestInv'
  BY <1>18 DEF ReceiveDataLocal, Respond
<1>19. ASSUME NEW c \in Call, NEW s \in Server, ReceiveDataNoServer(c, s)
      PROVE  RequestInv'
  BY <1>19 DEF ReceiveDataNoServer, Respond
<1>20. ASSUME NEW c \in Call, NEW s \in Server, ReceiveDataTransfer(c, s)
      PROVE  RequestInv'
  BY <1>20 DEF ReceiveDataTransfer
<1>21. ASSUME NEW a \in wakeups, WakeupNobody(a)
      PROVE  RequestInv'
  BY <1>21 DEF WakeupNobody
<1>22. ASSUME NEW a \in wakeups, NEW c \in Call, WakeupEnds(a, c)
      PROVE  RequestInv'
  BY <1>22 DEF WakeupEnds, EndOfCoroutine, Respond
<1>23. CASE UNCHANGED vars
  BY <1>23 DEF vars
<1> QED
   BY ExecCase, TimerCase, WakeupCase, <1>1, <1>2, <1>3, <1>4, <1>5, <1>6, <1>7, <1>8,
     <1>9, <1>10, <1>11, <1>12, <1>13, <1>14, <1>15, <1>16, <1>17, <1>18, <1>19,
     <1>20, <1>21, <1>22, <1>23
  DEF Next, LinkStep, Receive, NetworkStep, CenterStep

(* The types are kept: no process draws more numbers than there are calls. *)
LEMMA TypeStep ==
   ASSUME TypeOK, CallerInv, RequestInv, OnceInv, AnswerInv, EntriesWait, IndexInv,
         [Next]_vars
  PROVE  TypeOK'
<1> USE ServerCallsAssumption DEF TypeOK, linkVars, callVars, centerVars, auxVars
<1>1. ASSUME NEW c \in Call, Request(c)
      PROVE  TypeOK'
  <2>1. num' \in [Call -> Number \cup {0}] /\ index' \in [Server -> 0..Cardinality(Call)]
    BY <1>1, NewNumber, CountFacts DEF Request
  <2>2. toCenter' \in [Server -> SUBSET Packet]
    BY <1>1, PacketFacts DEF Request, Send
  <2> QED
    BY <2>1, <2>2, <1>1 DEF Request
<1>2. ASSUME NEW c \in Call, OnTimerCheckTimeout(c)
      PROVE  TypeOK'
  BY <1>2 DEF OnTimerCheckTimeout, Close
<1>3. ASSUME NEW s \in Server, NEW m \in inbox[s], ReceiveResponse(s, m)
      PROVE  TypeOK'
  BY <1>3, MessageFacts DEF ReceiveResponse, Take, Told, Open
<1>4. ASSUME NEW s \in Server, NEW m \in inbox[s], ReceiveDisconnect(s, m)
      PROVE  TypeOK'
  BY <1>4 DEF ReceiveDisconnect, Take, Finish, Open
<1>5. ASSUME NEW s \in Server, NEW m \in inbox[s], ReceiveTransfer(s, m)
      PROVE  TypeOK'
  BY <1>5, MessageFacts DEF ReceiveTransfer, Take
<1>6. ASSUME NEW s \in Server, CheckConnect(s)
      PROVE  TypeOK'
  BY <1>6, CountFacts DEF CheckConnect
<1>7. ASSUME NEW e \in executing, NEW p \in Packet, Carried(e, p)
      PROVE  TypeOK'
  <2>1. toCenter' \in [Server -> SUBSET Packet]
    BY <1>7, CarriedPackets
  <2>2. served' \in [Call -> Nat]
    BY <1>7 DEF Carried
  <2> QED
    BY <2>1, <2>2, <1>7 DEF Carried
<1>8. ASSUME NEW s \in Server, OnConnect(s)
      PROVE  TypeOK'
  BY <1>8, PacketFacts, AnswerFacts DEF OnConnect, Send
<1>9. ASSUME NEW s \in Server, OnDisconnect(s)
      PROVE  TypeOK'
  BY <1>9, MessageFacts DEF OnDisconnect, Lose
<1>10. ASSUME NEW s \in Server, ConnectFails(s)
      PROVE  TypeOK'
  BY <1>10 DEF ConnectFails, Lose
<1>11. ASSUME NEW s \in Server, Restart(s)
      PROVE  TypeOK'
  <2>1. index' \in [Server -> 0..Cardinality(Call)]
    BY <1>11, CountFacts DEF Restart
  <2>2. restarts' \in [Server -> Nat] /\ \A t \in Server : restarts'[t] <= MaxRestart[t]
    BY <1>11 DEF Restart
  <2> QED
    BY <2>1, <2>2, <1>11 DEF Restart, Lose, Open
<1>12. ASSUME NEW s \in Server, SessionRelease(s)
      PROVE  TypeOK'
  BY <1>12 DEF SessionRelease
<1>13. ASSUME NEW s \in Server, NEW p \in toCenter[s], GateRegister(s, p)
      PROVE  TypeOK'
  BY <1>13, PacketFacts, AnswerFacts DEF GateRegister, Read
<1>14. ASSUME NEW s \in Server, NEW p \in toCenter[s], OnReceiveUnbound(s, p)
      PROVE  TypeOK'
  BY <1>14 DEF OnReceiveUnbound, Read, Close
<1>15. ASSUME NEW s \in Server, NEW p \in toCenter[s], OnReceiveRequest(s, p)
      PROVE  TypeOK'
  BY <1>15 DEF OnReceiveRequest, Read
<1>16. ASSUME NEW s \in Server, NEW p \in toCenter[s], OnReceiveAnswer(s, p)
      PROVE  TypeOK'
  BY <1>16, PacketFacts, AnswerFacts DEF OnReceiveAnswer, Read
<1>17. ASSUME NEW c \in Call, TimerEnds(c)
      PROVE  TypeOK'
  <2>1. [of |-> c, ok |-> FALSE] \in Answer /\ stage[c] # "none" /\ Respond(c, [of |-> c, ok |-> FALSE])
    BY <1>17, AnswerFacts DEF TimerEnds
  <2>2. inbox' \in [Server -> SUBSET Message]
    BY <2>1, RespondType
  <2>3. num[c] \in Number
    BY <2>1, BegunHasNumber
  <2> QED
    BY <2>2, <2>3, <1>17 DEF TimerEnds, EndOfCoroutine
<1>18. ASSUME NEW c \in Call, NEW ok \in BOOLEAN, ReceiveDataLocal(c, ok)
      PROVE  TypeOK'
  <2>1. [of |-> c, ok |-> ok] \in Answer /\ stage[c] # "none" /\ Respond(c, [of |-> c, ok |-> ok])
    BY <1>18, AnswerFacts DEF ReceiveDataLocal
  <2>2. inbox' \in [Server -> SUBSET Message]
    BY <2>1, RespondType
  <2>3. num[c] \in Number
    BY <2>1, BegunHasNumber
  <2> QED
    BY <2>2, <2>3, <1>18 DEF ReceiveDataLocal, EndOfCoroutine
<1>19. ASSUME NEW c \in Call, NEW s \in Server, ReceiveDataNoServer(c, s)
      PROVE  TypeOK'
  <2>1. [of |-> c, ok |-> FALSE] \in Answer /\ stage[c] # "none" /\ Respond(c, [of |-> c, ok |-> FALSE])
    BY <1>19, AnswerFacts DEF ReceiveDataNoServer
  <2>2. inbox' \in [Server -> SUBSET Message]
    BY <2>1, RespondType
  <2>3. num[c] \in Number
    BY <2>1, BegunHasNumber
  <2> QED
    BY <2>2, <2>3, <1>19 DEF ReceiveDataNoServer, EndOfCoroutine
<1>20. ASSUME NEW c \in Call, NEW s \in Server, ReceiveDataTransfer(c, s)
      PROVE  TypeOK'
  <2>1. num[c] \in Number
    BY <1>20, BegunHasNumber DEF ReceiveDataTransfer
  <2>2. inbox' \in [Server -> SUBSET Message]
    BY <1>20, MessageFacts DEF ReceiveDataTransfer
  <2> QED
    BY <2>1, <2>2, <1>20 DEF ReceiveDataTransfer
<1>21. ASSUME NEW a \in wakeups, WakeupNobody(a)
      PROVE  TypeOK'
  BY <1>21 DEF WakeupNobody
<1>22. ASSUME NEW a \in wakeups, NEW c \in Call, WakeupEnds(a, c)
      PROVE  TypeOK'
  <2>1. a \in Answer /\ stage[c] # "none" /\ Respond(c, a)
    BY <1>22, AnswerFacts DEF WakeupEnds
  <2>2. inbox' \in [Server -> SUBSET Message]
    BY <2>1, RespondType
  <2>3. num[c] \in Number
    BY <2>1, BegunHasNumber
  <2> QED
    BY <2>2, <2>3, <1>22 DEF WakeupEnds, EndOfCoroutine
<1>23. CASE UNCHANGED vars
  BY <1>23 DEF vars
<1> QED
   BY ExecCase, TimerCase, WakeupCase, <1>1, <1>2, <1>3, <1>4, <1>5, <1>6, <1>7, <1>8,
     <1>9, <1>10, <1>11, <1>12, <1>13, <1>14, <1>15, <1>16, <1>17, <1>18, <1>19,
     <1>20, <1>21, <1>22, <1>23
  DEF Next, LinkStep, Receive, NetworkStep, CenterStep

(* The map is changed where a coroutine begins to wait and where it ends. *)
LEMMA EntriesStep ==
  ASSUME TypeOK, CallerInv, RequestInv, OnceInv, AnswerInv, EntriesWait, [Next]_vars
  PROVE  EntriesWait'
<1> USE ServerCallsAssumption DEF TypeOK, CallerInv, Requested, EntriesWait, linkVars,
     callVars, centerVars, auxVars
<1>1. ASSUME NEW c \in Call, Request(c)
      PROVE  EntriesWait'
  BY <1>1 DEF Request, Send, IsTransmit
<1>2. ASSUME NEW c \in Call, OnTimerCheckTimeout(c)
      PROVE  EntriesWait'
  BY <1>2 DEF OnTimerCheckTimeout, Close
<1>3. ASSUME NEW s \in Server, NEW m \in inbox[s], ReceiveResponse(s, m)
      PROVE  EntriesWait'
  BY <1>3 DEF ReceiveResponse, Take, Told, Open
<1>4. ASSUME NEW s \in Server, NEW m \in inbox[s], ReceiveDisconnect(s, m)
      PROVE  EntriesWait'
  BY <1>4 DEF ReceiveDisconnect, Take, Finish, Open
<1>5. ASSUME NEW s \in Server, NEW m \in inbox[s], ReceiveTransfer(s, m)
      PROVE  EntriesWait'
  BY <1>5 DEF ReceiveTransfer, Take
<1>6. ASSUME NEW s \in Server, CheckConnect(s)
      PROVE  EntriesWait'
  BY <1>6 DEF CheckConnect
<1>7. ASSUME NEW e \in executing, NEW p \in Packet, Carried(e, p)
      PROVE  EntriesWait'
  BY <1>7 DEF Carried
<1>8. ASSUME NEW s \in Server, OnConnect(s)
      PROVE  EntriesWait'
  BY <1>8 DEF OnConnect, Send
<1>9. ASSUME NEW s \in Server, OnDisconnect(s)
      PROVE  EntriesWait'
  BY <1>9 DEF OnDisconnect, Lose
<1>10. ASSUME NEW s \in Server, ConnectFails(s)
      PROVE  EntriesWait'
  BY <1>10 DEF ConnectFails, Lose
<1>11. ASSUME NEW s \in Server, Restart(s)
      PROVE  EntriesWait'
  BY <1>11 DEF Restart, Lose, Open
<1>12. ASSUME NEW s \in Server, SessionRelease(s)
      PROVE  EntriesWait'
  BY <1>12 DEF SessionRelease
<1>13. ASSUME NEW s \in Server, NEW p \in toCenter[s], GateRegister(s, p)
      PROVE  EntriesWait'
  BY <1>13 DEF GateRegister, Read
<1>14. ASSUME NEW s \in Server, NEW p \in toCenter[s], OnReceiveUnbound(s, p)
      PROVE  EntriesWait'
  BY <1>14 DEF OnReceiveUnbound, Read, Close
<1>15. ASSUME NEW s \in Server, NEW p \in toCenter[s], OnReceiveRequest(s, p)
      PROVE  EntriesWait'
  <2>1. p.call \in Call /\ stage[p.call] = "none"
    BY <1>15, PacketFacts DEF OnReceiveRequest, RequestInv, RequestAt
  <2> QED
    BY <2>1, <1>15 DEF OnReceiveRequest
<1>16. ASSUME NEW s \in Server, NEW p \in toCenter[s], OnReceiveAnswer(s, p)
      PROVE  EntriesWait'
  BY <1>16 DEF OnReceiveAnswer, Read
<1>17. ASSUME NEW c \in Call, TimerEnds(c)
      PROVE  EntriesWait'
  BY <1>17 DEF TimerEnds, EndOfCoroutine, Respond
<1>18. ASSUME NEW c \in Call, NEW ok \in BOOLEAN, ReceiveDataLocal(c, ok)
      PROVE  EntriesWait'
  BY <1>18 DEF ReceiveDataLocal, Respond
<1>19. ASSUME NEW c \in Call, NEW s \in Server, ReceiveDataNoServer(c, s)
      PROVE  EntriesWait'
  BY <1>19 DEF ReceiveDataNoServer, Respond
<1>20. ASSUME NEW c \in Call, NEW s \in Server, ReceiveDataTransfer(c, s)
      PROVE  EntriesWait'
  BY <1>20 DEF ReceiveDataTransfer
<1>21. ASSUME NEW a \in wakeups, WakeupNobody(a)
      PROVE  EntriesWait'
  BY <1>21 DEF WakeupNobody
<1>22. ASSUME NEW a \in wakeups, NEW c \in Call, WakeupEnds(a, c)
      PROVE  EntriesWait'
  BY <1>22 DEF WakeupEnds, EndOfCoroutine, Respond
<1>23. CASE UNCHANGED vars
  BY <1>23 DEF vars
<1> QED
   BY ExecCase, TimerCase, WakeupCase, <1>1, <1>2, <1>3, <1>4, <1>5, <1>6, <1>7, <1>8,
     <1>9, <1>10, <1>11, <1>12, <1>13, <1>14, <1>15, <1>16, <1>17, <1>18, <1>19,
     <1>20, <1>21, <1>22, <1>23
  DEF Next, LinkStep, Receive, NetworkStep, CenterStep

(* A number that was drawn is greater than those before it; a process that *)
(* ends takes its connection with it.                                      *)
LEMMA NumberStep ==
   ASSUME TypeOK, CallerInv, RequestInv, OnceInv, AnswerInv, EntriesWait, NumberInv,
         IndexInv, [Next]_vars
  PROVE  NumberInv'
<1> USE ServerCallsAssumption DEF TypeOK, CallerInv, Requested, NumberInv, linkVars,
     callVars, centerVars, auxVars
<1>1. ASSUME NEW c \in Call, Request(c)
      PROVE  NumberInv'
  <2>1. \A d \in Call : num[d] \in Nat /\ index[From[d]] \in Nat
    BY CountFacts
  <2>2. /\ num' = [num EXCEPT ![c] = index[From[c]] + 1]
        /\ index' = [index EXCEPT ![From[c]] = index[From[c]] + 1]
        /\ pc' = [pc EXCEPT ![c] = "sent"]
        /\ sentOn' = [sentOn EXCEPT ![c] = gen[From[c]]]
        /\ c \notin old /\ UNCHANGED <<old, gen, conn>>
    BY <1>1 DEF Request, GetNewSessionID
  <2>3. \A d \in Call : Requested(d) /\ d \notin old => num[d] <= index[From[d]]
    OBVIOUS
  <2>4. \A d \in Call : Requested(d)' /\ d \notin old' => num'[d] <= index'[From[d]]
    BY <2>1, <2>2, <2>3
  <2>5. \A d \in Call : d \in old' => sentOn'[d] < gen'[From[d]] \/ conn'[From[d]] = "closed"
    BY <2>2
  <2>6. \A d, f \in Call :
          /\ Requested(d)' /\ d \notin old' /\ Requested(f)' /\ f \notin old'
          /\ From[d] = From[f] /\ num'[d] = num'[f]
          => d = f
    BY <2>1, <2>2, <2>3
  <2> QED
    BY <2>4, <2>5, <2>6
<1>2. ASSUME NEW c \in Call, OnTimerCheckTimeout(c)
      PROVE  NumberInv'
  BY <1>2 DEF OnTimerCheckTimeout, Close
<1>3. ASSUME NEW s \in Server, NEW m \in inbox[s], ReceiveResponse(s, m)
      PROVE  NumberInv'
  BY <1>3 DEF ReceiveResponse, Take, Told, Open
<1>4. ASSUME NEW s \in Server, NEW m \in inbox[s], ReceiveDisconnect(s, m)
      PROVE  NumberInv'
  BY <1>4 DEF ReceiveDisconnect, Take, Finish, Open
<1>5. ASSUME NEW s \in Server, NEW m \in inbox[s], ReceiveTransfer(s, m)
      PROVE  NumberInv'
  BY <1>5 DEF ReceiveTransfer, Take
<1>6. ASSUME NEW s \in Server, CheckConnect(s)
      PROVE  NumberInv'
  <2>1. \A t \in Server : gen[t] \in Nat /\ gen'[t] \in Nat /\ gen[t] <= gen'[t]
    BY <1>6, CountFacts DEF CheckConnect
  <2>2. \A c \in old : sentOn[c] \in Nat /\ sentOn[c] <= gen[From[c]] /\ From[c] \in Server
                        /\ c \in Call
    BY CountFacts
  <2>3. \A c \in old : sentOn[c] < gen'[From[c]] \/ conn'[From[c]] = "closed"
    BY <2>1, <2>2, <1>6 DEF CheckConnect
  <2> QED
    BY <2>3, <1>6 DEF CheckConnect
<1>7. ASSUME NEW e \in executing, NEW p \in Packet, Carried(e, p)
      PROVE  NumberInv'
  BY <1>7 DEF Carried
<1>8. ASSUME NEW s \in Server, OnConnect(s)
      PROVE  NumberInv'
  BY <1>8 DEF OnConnect, Send
<1>9. ASSUME NEW s \in Server, OnDisconnect(s)
      PROVE  NumberInv'
  BY <1>9 DEF OnDisconnect, Lose
<1>10. ASSUME NEW s \in Server, ConnectFails(s)
      PROVE  NumberInv'
  BY <1>10 DEF ConnectFails, Lose
<1>11. ASSUME NEW s \in Server, Restart(s)
      PROVE  NumberInv'
  BY <1>11 DEF Restart, Lose, Open
<1>12. ASSUME NEW s \in Server, SessionRelease(s)
      PROVE  NumberInv'
  BY <1>12 DEF SessionRelease
<1>13. ASSUME NEW s \in Server, NEW p \in toCenter[s], GateRegister(s, p)
      PROVE  NumberInv'
  BY <1>13 DEF GateRegister, Read
<1>14. ASSUME NEW s \in Server, NEW p \in toCenter[s], OnReceiveUnbound(s, p)
      PROVE  NumberInv'
  BY <1>14 DEF OnReceiveUnbound, Read, Close
<1>15. ASSUME NEW s \in Server, NEW p \in toCenter[s], OnReceiveRequest(s, p)
      PROVE  NumberInv'
  BY <1>15 DEF OnReceiveRequest, Read
<1>16. ASSUME NEW s \in Server, NEW p \in toCenter[s], OnReceiveAnswer(s, p)
      PROVE  NumberInv'
  BY <1>16 DEF OnReceiveAnswer, Read
<1>17. ASSUME NEW c \in Call, TimerEnds(c)
      PROVE  NumberInv'
  BY <1>17 DEF TimerEnds, EndOfCoroutine, Respond
<1>18. ASSUME NEW c \in Call, NEW ok \in BOOLEAN, ReceiveDataLocal(c, ok)
      PROVE  NumberInv'
  BY <1>18 DEF ReceiveDataLocal, Respond
<1>19. ASSUME NEW c \in Call, NEW s \in Server, ReceiveDataNoServer(c, s)
      PROVE  NumberInv'
  BY <1>19 DEF ReceiveDataNoServer, Respond
<1>20. ASSUME NEW c \in Call, NEW s \in Server, ReceiveDataTransfer(c, s)
      PROVE  NumberInv'
  BY <1>20 DEF ReceiveDataTransfer
<1>21. ASSUME NEW a \in wakeups, WakeupNobody(a)
      PROVE  NumberInv'
  BY <1>21 DEF WakeupNobody
<1>22. ASSUME NEW a \in wakeups, NEW c \in Call, WakeupEnds(a, c)
      PROVE  NumberInv'
  BY <1>22 DEF WakeupEnds, EndOfCoroutine, Respond
<1>23. CASE UNCHANGED vars
  BY <1>23 DEF vars
<1> QED
   BY ExecCase, TimerCase, WakeupCase, <1>1, <1>2, <1>3, <1>4, <1>5, <1>6, <1>7, <1>8,
     <1>9, <1>10, <1>11, <1>12, <1>13, <1>14, <1>15, <1>16, <1>17, <1>18, <1>19,
     <1>20, <1>21, <1>22, <1>23
  DEF Next, LinkStep, Receive, NetworkStep, CenterStep

(* A call goes on from one place to the next, and stays in none. *)
LEMMA OnceStep ==
  ASSUME TypeOK, CallerInv, RequestInv, OnceInv, AnswerInv, EntriesWait, [Next]_vars
  PROVE  OnceInv'
<1> USE ServerCallsAssumption DEF TypeOK, CallerInv, Requested, OnceInv, AtLink,
     TransferAt, linkVars, callVars, centerVars, auxVars
<1>1. ASSUME NEW c \in Call, Request(c)
      PROVE  OnceInv'
  BY <1>1 DEF Request, Send, IsTransmit
<1>2. ASSUME NEW c \in Call, OnTimerCheckTimeout(c)
      PROVE  OnceInv'
  BY <1>2 DEF OnTimerCheckTimeout, Close
<1>3. ASSUME NEW s \in Server, NEW m \in inbox[s], ReceiveResponse(s, m)
      PROVE  OnceInv'
  BY <1>3 DEF ReceiveResponse, Take, Told, Open
<1>4. ASSUME NEW s \in Server, NEW m \in inbox[s], ReceiveDisconnect(s, m)
      PROVE  OnceInv'
  BY <1>4 DEF ReceiveDisconnect, Take, Finish, Open
<1>5. ASSUME NEW s \in Server, NEW m \in inbox[s], ReceiveTransfer(s, m)
      PROVE  OnceInv'
  BY <1>5 DEF ReceiveTransfer, Take
<1>6. ASSUME NEW s \in Server, CheckConnect(s)
      PROVE  OnceInv'
  BY <1>6 DEF CheckConnect
<1>7. ASSUME NEW e \in executing, NEW p \in Packet, Carried(e, p)
      PROVE  OnceInv'
  BY <1>7 DEF Carried
<1>8. ASSUME NEW s \in Server, OnConnect(s)
      PROVE  OnceInv'
  BY <1>8 DEF OnConnect, Send
<1>9. ASSUME NEW s \in Server, OnDisconnect(s)
      PROVE  OnceInv'
  BY <1>9 DEF OnDisconnect, Lose
<1>10. ASSUME NEW s \in Server, ConnectFails(s)
      PROVE  OnceInv'
  BY <1>10 DEF ConnectFails, Lose
<1>11. ASSUME NEW s \in Server, Restart(s)
      PROVE  OnceInv'
  BY <1>11 DEF Restart, Lose, Open
<1>12. ASSUME NEW s \in Server, SessionRelease(s)
      PROVE  OnceInv'
  BY <1>12 DEF SessionRelease
<1>13. ASSUME NEW s \in Server, NEW p \in toCenter[s], GateRegister(s, p)
      PROVE  OnceInv'
  BY <1>13 DEF GateRegister, Read
<1>14. ASSUME NEW s \in Server, NEW p \in toCenter[s], OnReceiveUnbound(s, p)
      PROVE  OnceInv'
  BY <1>14 DEF OnReceiveUnbound, Read, Close
<1>15. ASSUME NEW s \in Server, NEW p \in toCenter[s], OnReceiveRequest(s, p)
      PROVE  OnceInv'
  <2>1. p.call \in Call /\ stage[p.call] = "none"
    BY <1>15, PacketFacts DEF OnReceiveRequest, RequestInv, RequestAt
  <2> QED
    BY <2>1, <1>15 DEF OnReceiveRequest
<1>16. ASSUME NEW s \in Server, NEW p \in toCenter[s], OnReceiveAnswer(s, p)
      PROVE  OnceInv'
  BY <1>16 DEF OnReceiveAnswer, Read
<1>17. ASSUME NEW c \in Call, TimerEnds(c)
      PROVE  OnceInv'
  BY <1>17 DEF TimerEnds, EndOfCoroutine, Respond
<1>18. ASSUME NEW c \in Call, NEW ok \in BOOLEAN, ReceiveDataLocal(c, ok)
      PROVE  OnceInv'
  BY <1>18 DEF ReceiveDataLocal, Respond
<1>19. ASSUME NEW c \in Call, NEW s \in Server, ReceiveDataNoServer(c, s)
      PROVE  OnceInv'
  BY <1>19 DEF ReceiveDataNoServer, Respond
<1>20. ASSUME NEW c \in Call, NEW s \in Server, ReceiveDataTransfer(c, s)
      PROVE  OnceInv'
  BY <1>20 DEF ReceiveDataTransfer
<1>21. ASSUME NEW a \in wakeups, WakeupNobody(a)
      PROVE  OnceInv'
  BY <1>21 DEF WakeupNobody
<1>22. ASSUME NEW a \in wakeups, NEW c \in Call, WakeupEnds(a, c)
      PROVE  OnceInv'
  BY <1>22 DEF WakeupEnds, EndOfCoroutine, Respond
<1>23. CASE UNCHANGED vars
  BY <1>23 DEF vars
<1> QED
   BY ExecCase, TimerCase, WakeupCase, <1>1, <1>2, <1>3, <1>4, <1>5, <1>6, <1>7, <1>8,
     <1>9, <1>10, <1>11, <1>12, <1>13, <1>14, <1>15, <1>16, <1>17, <1>18, <1>19,
     <1>20, <1>21, <1>22, <1>23
  DEF Next, LinkStep, Receive, NetworkStep, CenterStep

(* What was asked for stays asked for, what was carried out stays so. *)
Keeps ==
  \A r \in Call : /\ Requested(r) => Requested(r)'
                  /\ served[r] = 1 => served'[r] = 1

(* Every step keeps them. *)
LEMMA KeptStep ==
  ASSUME TypeOK, CallerInv, RequestInv, OnceInv, AnswerInv, EntriesWait, [Next]_vars
  PROVE  Keeps
<1> USE ServerCallsAssumption DEF TypeOK, CallerInv, Requested, Keeps, linkVars,
     callVars, centerVars, auxVars
<1>1. ASSUME NEW c \in Call, Request(c)
      PROVE  Keeps
  BY <1>1 DEF Request, Send, IsTransmit
<1>2. ASSUME NEW s \in Server, NEW m \in inbox[s], ReceiveResponse(s, m)
      PROVE  Keeps
  BY <1>2 DEF ReceiveResponse, Take, Told, Open
<1>3. ASSUME NEW s \in Server, NEW m \in inbox[s], ReceiveDisconnect(s, m)
      PROVE  Keeps
  BY <1>3 DEF ReceiveDisconnect, Take, Finish, Open
<1>4. ASSUME NEW e \in executing, NEW p \in Packet, Carried(e, p)
      PROVE  Keeps
  <2>1. served[e.call] = 0 /\ e.call \in Call
    BY <1>4 DEF Carried, OnceInv, AtLink
  <2>2. \A r \in Call : r # e.call => served'[r] = served[r]
    BY <1>4 DEF Carried
  <2> QED
    BY <2>1, <2>2, <1>4 DEF Carried
<1>5. ASSUME NEW s \in Server, Restart(s)
      PROVE  Keeps
  BY <1>5 DEF Restart, Lose, Open
<1>6. ASSUME NEW c \in Call, NEW ok \in BOOLEAN, ReceiveDataLocal(c, ok)
      PROVE  Keeps
  BY <1>6 DEF ReceiveDataLocal, OnceInv
<1>7. ASSUME UNCHANGED <<pc, served>>
      PROVE  Keeps
  BY <1>7
<1>8. \/ UNCHANGED <<pc, served>>
      \/ \E c \in Call : Request(c)
      \/ \E s \in Server : \E m \in inbox[s] : ReceiveResponse(s, m)
      \/ \E s \in Server : \E m \in inbox[s] : ReceiveDisconnect(s, m)
      \/ \E e \in executing : \E ok \in BOOLEAN : Exec(e, ok)
      \/ \E s \in Server : Restart(s)
      \/ \E c \in Call : \E ok \in BOOLEAN : ReceiveDataLocal(c, ok)
  BY DEF Next, LinkStep, Receive, NetworkStep, CenterStep, vars, callVars, auxVars,
         OnTimerCheckTimeout, ReceiveTransfer, CheckConnect, OnConnect, OnDisconnect,
         ConnectFails, SessionRelease, GateRegister, OnReceiveUnbound,
         OnReceiveRequest, OnReceiveAnswer, OnTimer, ReceiveDataNoServer,
         ReceiveDataTransfer, Wakeup
<1> HIDE DEF TypeOK, CallerInv, Keeps, linkVars, callVars, centerVars, auxVars
<1> QED
  BY ExecCase, <1>1, <1>2, <1>3, <1>4, <1>5, <1>6, <1>7, <1>8

(* Truths stay, so only answers that are new have to be looked at. *)
LEMMA TruthKept ==
  ASSUME TypeOK, AnswerInv,
         Keeps,
         \A t \in Server : \A q \in toCenter'[t] :
           q \in toCenter[t] \/ q.kind # "answer" \/ Truthful(q.answer)',
         \A a \in wakeups' :
           a \in wakeups \/ \E t \in Server : \E q \in toCenter[t] : AnswerAt(t, q) /\ a = q.answer,
         \A t \in Server : \A n \in inbox'[t] :
           n \in inbox[t] \/ n.kind # "response" \/ Truthful(n.answer)'
  PROVE  AnswerInv'
<1>1. \A t \in Server : \A q \in toCenter[t] : AnswerAt(t, q) => q.answer.of \in Call
  BY PacketFacts DEF TypeOK, AnswerAt
<1>2. \A t \in Server : \A n \in inbox[t] : ResponseAt(t, n) => n.answer.of \in Call
  BY MessageFacts DEF TypeOK, ResponseAt
<1>3. \A a \in wakeups : a.of \in Call
  BY AnswerFacts DEF TypeOK
<1> QED
  BY <1>1, <1>2, <1>3 DEF Keeps, AnswerInv, AnswerAt, ResponseAt, Truthful

(* Answers are made where a call was carried out or refused, and copied. *)
LEMMA AnswerStep ==
  ASSUME TypeOK, CallerInv, RequestInv, OnceInv, AnswerInv, EntriesWait, [Next]_vars
  PROVE  AnswerInv'
<1>0. Keeps
  BY KeptStep
<1> USE ServerCallsAssumption DEF linkVars, callVars, centerVars, auxVars
<1>1. ASSUME NEW c \in Call, Request(c)
      PROVE  AnswerInv'
  <2>1. /\ \A t \in Server : \A q \in toCenter'[t] : q \in toCenter[t] \/ q.kind # "answer"
        /\ \A a1 \in wakeups' : a1 \in wakeups
        /\ \A t \in Server : \A n \in inbox'[t] : n \in inbox[t]
    BY <1>1 DEF TypeOK, Request, Send, IsTransmit
  <2> QED
    BY <1>0, <2>1, TruthKept
<1>2. ASSUME NEW c \in Call, OnTimerCheckTimeout(c)
      PROVE  AnswerInv'
  <2>1. /\ \A t \in Server : \A q \in toCenter'[t] : q \in toCenter[t]
        /\ \A a1 \in wakeups' : a1 \in wakeups
        /\ \A t \in Server : \A n \in inbox'[t] : n \in inbox[t]
    BY <1>2 DEF TypeOK, OnTimerCheckTimeout, Close
  <2> QED
    BY <1>0, <2>1, TruthKept
<1>3. ASSUME NEW s \in Server, NEW m \in inbox[s], ReceiveResponse(s, m)
      PROVE  AnswerInv'
  <2>1. /\ \A t \in Server : \A q \in toCenter'[t] : q \in toCenter[t]
        /\ \A a1 \in wakeups' : a1 \in wakeups
        /\ \A t \in Server : \A n \in inbox'[t] : n \in inbox[t]
    BY <1>3 DEF TypeOK, ReceiveResponse, Take, Told, Open
  <2> QED
    BY <1>0, <2>1, TruthKept
<1>4. ASSUME NEW s \in Server, NEW m \in inbox[s], ReceiveDisconnect(s, m)
      PROVE  AnswerInv'
  <2>1. /\ \A t \in Server : \A q \in toCenter'[t] : q \in toCenter[t]
        /\ \A a1 \in wakeups' : a1 \in wakeups
        /\ \A t \in Server : \A n \in inbox'[t] : n \in inbox[t]
    BY <1>4 DEF TypeOK, ReceiveDisconnect, Take, Finish, Open
  <2> QED
    BY <1>0, <2>1, TruthKept
<1>5. ASSUME NEW s \in Server, NEW m \in inbox[s], ReceiveTransfer(s, m)
      PROVE  AnswerInv'
  <2>1. /\ \A t \in Server : \A q \in toCenter'[t] : q \in toCenter[t]
        /\ \A a1 \in wakeups' : a1 \in wakeups
        /\ \A t \in Server : \A n \in inbox'[t] : n \in inbox[t]
    BY <1>5 DEF TypeOK, ReceiveTransfer, Take
  <2> QED
    BY <1>0, <2>1, TruthKept
<1>6. ASSUME NEW s \in Server, CheckConnect(s)
      PROVE  AnswerInv'
  <2>1. /\ \A t \in Server : \A q \in toCenter'[t] : q \in toCenter[t]
        /\ \A a1 \in wakeups' : a1 \in wakeups
        /\ \A t \in Server : \A n \in inbox'[t] : n \in inbox[t]
    BY <1>6 DEF TypeOK, CheckConnect
  <2> QED
    BY <1>0, <2>1, TruthKept
<1>7. ASSUME NEW e \in executing, NEW p \in Packet, Carried(e, p)
      PROVE  AnswerInv'
  <2>1. e.call \in Call /\ Requested(e.call) /\ served[e.call] = 0
    BY <1>7 DEF TypeOK, Carried, OnceInv, AtLink, CallerInv, Requested
  <2>2. Truthful(p.answer)'
    BY <2>1, <1>7 DEF TypeOK, Carried, Truthful, Requested, callVars
  <2>3. \A t \in Server : \A q \in toCenter'[t] : q \in toCenter[t] \/ Truthful(q.answer)'
    BY <2>2, <1>7, CarriedPackets
  <2>4. UNCHANGED <<wakeups, inbox>>
    BY <1>7 DEF Carried, centerVars
  <2> QED
    BY <1>0, <2>3, <2>4, TruthKept
<1>8. ASSUME NEW s \in Server, OnConnect(s)
      PROVE  AnswerInv'
  <2>1. /\ \A t \in Server : \A q \in toCenter'[t] : q \in toCenter[t] \/ q.kind # "answer"
        /\ \A a1 \in wakeups' : a1 \in wakeups
        /\ \A t \in Server : \A n \in inbox'[t] : n \in inbox[t]
    BY <1>8 DEF TypeOK, OnConnect, Send
  <2> QED
    BY <1>0, <2>1, TruthKept
<1>9. ASSUME NEW s \in Server, OnDisconnect(s)
      PROVE  AnswerInv'
  <2>1. /\ \A t \in Server : \A q \in toCenter'[t] : q \in toCenter[t]
        /\ \A a1 \in wakeups' : a1 \in wakeups
        /\ \A t \in Server : \A n \in inbox'[t] : n \in inbox[t] \/ n.kind # "response"
    BY <1>9 DEF TypeOK, OnDisconnect, Lose
  <2> QED
    BY <1>0, <2>1, TruthKept
<1>10. ASSUME NEW s \in Server, ConnectFails(s)
      PROVE  AnswerInv'
  <2>1. /\ \A t \in Server : \A q \in toCenter'[t] : q \in toCenter[t]
        /\ \A a1 \in wakeups' : a1 \in wakeups
        /\ \A t \in Server : \A n \in inbox'[t] : n \in inbox[t]
    BY <1>10 DEF TypeOK, ConnectFails, Lose
  <2> QED
    BY <1>0, <2>1, TruthKept
<1>11. ASSUME NEW s \in Server, Restart(s)
      PROVE  AnswerInv'
  <2>1. /\ \A t \in Server : \A q \in toCenter'[t] : q \in toCenter[t]
        /\ \A a1 \in wakeups' : a1 \in wakeups
        /\ \A t \in Server : \A n \in inbox'[t] : n \in inbox[t]
    BY <1>11 DEF TypeOK, Restart, Lose, Open
  <2> QED
    BY <1>0, <2>1, TruthKept
<1>12. ASSUME NEW s \in Server, SessionRelease(s)
      PROVE  AnswerInv'
  <2>1. /\ \A t \in Server : \A q \in toCenter'[t] : q \in toCenter[t]
        /\ \A a1 \in wakeups' : a1 \in wakeups
        /\ \A t \in Server : \A n \in inbox'[t] : n \in inbox[t]
    BY <1>12 DEF TypeOK, SessionRelease
  <2> QED
    BY <1>0, <2>1, TruthKept
<1>13. ASSUME NEW s \in Server, NEW p \in toCenter[s], GateRegister(s, p)
      PROVE  AnswerInv'
  <2>1. /\ \A t \in Server : \A q \in toCenter'[t] : q \in toCenter[t]
        /\ \A a1 \in wakeups' : a1 \in wakeups
        /\ \A t \in Server : \A n \in inbox'[t] : n \in inbox[t]
    BY <1>13 DEF TypeOK, GateRegister, Read
  <2> QED
    BY <1>0, <2>1, TruthKept
<1>14. ASSUME NEW s \in Server, NEW p \in toCenter[s], OnReceiveUnbound(s, p)
      PROVE  AnswerInv'
  <2>1. /\ \A t \in Server : \A q \in toCenter'[t] : q \in toCenter[t]
        /\ \A a1 \in wakeups' : a1 \in wakeups
        /\ \A t \in Server : \A n \in inbox'[t] : n \in inbox[t]
    BY <1>14 DEF TypeOK, OnReceiveUnbound, Read, Close
  <2> QED
    BY <1>0, <2>1, TruthKept
<1>15. ASSUME NEW s \in Server, NEW p \in toCenter[s], OnReceiveRequest(s, p)
      PROVE  AnswerInv'
  <2>1. /\ \A t \in Server : \A q \in toCenter'[t] : q \in toCenter[t]
        /\ \A a1 \in wakeups' : a1 \in wakeups
        /\ \A t \in Server : \A n \in inbox'[t] : n \in inbox[t]
    BY <1>15 DEF TypeOK, OnReceiveRequest, Read
  <2> QED
    BY <1>0, <2>1, TruthKept
<1>16. ASSUME NEW s \in Server, NEW p \in toCenter[s], OnReceiveAnswer(s, p)
      PROVE  AnswerInv'
  <2>1. /\ \A t \in Server : \A q \in toCenter'[t] : q \in toCenter[t]
        /\ \A a1 \in wakeups' : a1 \in wakeups \/ \E t \in Server : \E q \in toCenter[t] : AnswerAt(t, q) /\ a1 = q.answer
        /\ \A t \in Server : \A n \in inbox'[t] : n \in inbox[t]
    BY <1>16 DEF TypeOK, OnReceiveAnswer, Read, AnswerAt
  <2> QED
    BY <1>0, <2>1, TruthKept
<1>17. ASSUME NEW c \in Call, TimerEnds(c)
      PROVE  AnswerInv'
  <2>1. Truthful([of |-> c, ok |-> FALSE])'
    BY <1>17, BegunHasNumber DEF TimerEnds, Truthful, Requested
  <2>2. UNCHANGED toCenter /\ \A b \in wakeups' : b \in wakeups
    BY <1>17 DEF TimerEnds
  <2>3. Respond(c, [of |-> c, ok |-> FALSE])
    BY <1>17 DEF TimerEnds
  <2>4. \A t \in Server : \A n \in inbox'[t] : n \in inbox[t] \/ Truthful(n.answer)'
    BY <2>1, <2>3 DEF TypeOK, Respond, Truthful
  <2> QED
    BY <1>0, <2>2, <2>4, TruthKept
<1>18. ASSUME NEW c \in Call, NEW ok \in BOOLEAN, ReceiveDataLocal(c, ok)
      PROVE  AnswerInv'
  <2>1. Truthful([of |-> c, ok |-> ok])'
    BY <1>18, BegunHasNumber DEF TypeOK, ReceiveDataLocal, OnceInv, Truthful, Requested
  <2>2. UNCHANGED toCenter /\ \A b \in wakeups' : b \in wakeups
    BY <1>18 DEF ReceiveDataLocal
  <2>3. Respond(c, [of |-> c, ok |-> ok])
    BY <1>18 DEF ReceiveDataLocal
  <2>4. \A t \in Server : \A n \in inbox'[t] : n \in inbox[t] \/ Truthful(n.answer)'
    BY <2>1, <2>3 DEF TypeOK, Respond, Truthful
  <2> QED
    BY <1>0, <2>2, <2>4, TruthKept
<1>19. ASSUME NEW c \in Call, NEW s \in Server, ReceiveDataNoServer(c, s)
      PROVE  AnswerInv'
  <2>1. Truthful([of |-> c, ok |-> FALSE])'
    BY <1>19, BegunHasNumber DEF ReceiveDataNoServer, Truthful, Requested
  <2>2. UNCHANGED toCenter /\ \A b \in wakeups' : b \in wakeups
    BY <1>19 DEF ReceiveDataNoServer
  <2>3. Respond(c, [of |-> c, ok |-> FALSE])
    BY <1>19 DEF ReceiveDataNoServer
  <2>4. \A t \in Server : \A n \in inbox'[t] : n \in inbox[t] \/ Truthful(n.answer)'
    BY <2>1, <2>3 DEF TypeOK, Respond, Truthful
  <2> QED
    BY <1>0, <2>2, <2>4, TruthKept
<1>20. ASSUME NEW c \in Call, NEW s \in Server, ReceiveDataTransfer(c, s)
      PROVE  AnswerInv'
  <2>1. UNCHANGED <<toCenter, wakeups>>
    BY <1>20 DEF ReceiveDataTransfer
  <2>2. \A t \in Server : \A n \in inbox'[t] : n \in inbox[t] \/ n.kind # "response"
    BY <1>20 DEF TypeOK, ReceiveDataTransfer
  <2> QED
    BY <1>0, <2>1, <2>2, TruthKept
<1>21. ASSUME NEW a \in wakeups, WakeupNobody(a)
      PROVE  AnswerInv'
  <2>1. /\ \A t \in Server : \A q \in toCenter'[t] : q \in toCenter[t]
        /\ \A a1 \in wakeups' : a1 \in wakeups
        /\ \A t \in Server : \A n \in inbox'[t] : n \in inbox[t]
    BY <1>21 DEF TypeOK, WakeupNobody
  <2> QED
    BY <1>0, <2>1, TruthKept
<1>22. ASSUME NEW a \in wakeups, NEW c \in Call, WakeupEnds(a, c)
      PROVE  AnswerInv'
  <2>1. Truthful(a)'
    <3>1. Truthful(a)
      BY DEF AnswerInv
    <3> QED
      BY <3>1, <1>22 DEF WakeupEnds, Truthful, Requested
  <2>2. UNCHANGED toCenter /\ \A b \in wakeups' : b \in wakeups
    BY <1>22 DEF WakeupEnds
  <2>3. Respond(c, a)
    BY <1>22 DEF WakeupEnds
  <2>4. \A t \in Server : \A n \in inbox'[t] : n \in inbox[t] \/ Truthful(n.answer)'
    BY <2>1, <2>3 DEF TypeOK, Respond, Truthful
  <2> QED
    BY <1>0, <2>2, <2>4, TruthKept
<1>23. CASE UNCHANGED vars
  BY <1>0, <1>23, TruthKept DEF vars
<1> QED
   BY ExecCase, TimerCase, WakeupCase, <1>1, <1>2, <1>3, <1>4, <1>5, <1>6, <1>7, <1>8,
     <1>9, <1>10, <1>11, <1>12, <1>13, <1>14, <1>15, <1>16, <1>17, <1>18, <1>19,
     <1>20, <1>21, <1>22, <1>23
  DEF Next, LinkStep, Receive, NetworkStep, CenterStep

(* A call that came on the connection there is now is of the process there *)
(* is now.                                                                 *)
LEMMA AnsweredIsNew ==
   ASSUME TypeOK, NumberInv, NEW c \in Call, conn[From[c]] = "up", gen[From[c]] =
         sentOn[c]
  PROVE  c \notin old
<1>1. gen[From[c]] \in Nat
  BY CountFacts, ServerCallsAssumption DEF TypeOK
<1>2. ~(sentOn[c] < gen[From[c]])
  BY <1>1
<1> QED
  BY <1>2 DEF NumberInv

(* A response is made for the coroutine that waits under the number; its   *)
(* call is the one that was answered, as long as the two cannot be mixed.  *)
LEMMA ResponseStep ==
   ASSUME TypeOK, CallerInv, RequestInv, OnceInv, AnswerInv, EntriesWait, NumberInv,
         ResponseInv, ApartInv, [Next]_vars
  PROVE  ResponseInv'
<1> USE ServerCallsAssumption DEF TypeOK, CallerInv, Requested, ResponseInv,
     ResponseAt, linkVars, callVars, centerVars, auxVars
<1>1. ASSUME NEW c \in Call, Request(c)
      PROVE  ResponseInv'
  <2>1. \A t \in Server : \A n \in inbox[t] : ResponseAt(t, n) => n.answer.of \in Call /\ n.answer.of # c
    BY <1>1, MessageFacts DEF AnswerInv, Truthful, Request
  <2> QED
    BY <2>1, <1>1 DEF Request
<1>2. ASSUME NEW c \in Call, OnTimerCheckTimeout(c)
      PROVE  ResponseInv'
  BY <1>2 DEF OnTimerCheckTimeout, Close
<1>3. ASSUME NEW s \in Server, NEW m \in inbox[s], ReceiveResponse(s, m)
      PROVE  ResponseInv'
  BY <1>3 DEF ReceiveResponse, Take, Told, Open
<1>4. ASSUME NEW s \in Server, NEW m \in inbox[s], ReceiveDisconnect(s, m)
      PROVE  ResponseInv'
  BY <1>4 DEF ReceiveDisconnect, Take, Finish, Open
<1>5. ASSUME NEW s \in Server, NEW m \in inbox[s], ReceiveTransfer(s, m)
      PROVE  ResponseInv'
  BY <1>5 DEF ReceiveTransfer, Take
<1>6. ASSUME NEW s \in Server, CheckConnect(s)
      PROVE  ResponseInv'
  BY <1>6 DEF CheckConnect
<1>7. ASSUME NEW e \in executing, NEW p \in Packet, Carried(e, p)
      PROVE  ResponseInv'
  BY <1>7 DEF Carried
<1>8. ASSUME NEW s \in Server, OnConnect(s)
      PROVE  ResponseInv'
  BY <1>8 DEF OnConnect, Send
<1>9. ASSUME NEW s \in Server, OnDisconnect(s)
      PROVE  ResponseInv'
  BY <1>9 DEF OnDisconnect, Lose
<1>10. ASSUME NEW s \in Server, ConnectFails(s)
      PROVE  ResponseInv'
  BY <1>10 DEF ConnectFails, Lose
<1>11. ASSUME NEW s \in Server, Restart(s)
      PROVE  ResponseInv'
  BY <1>11 DEF Restart, Lose, Open
<1>12. ASSUME NEW s \in Server, SessionRelease(s)
      PROVE  ResponseInv'
  BY <1>12 DEF SessionRelease
<1>13. ASSUME NEW s \in Server, NEW p \in toCenter[s], GateRegister(s, p)
      PROVE  ResponseInv'
  BY <1>13 DEF GateRegister, Read
<1>14. ASSUME NEW s \in Server, NEW p \in toCenter[s], OnReceiveUnbound(s, p)
      PROVE  ResponseInv'
  BY <1>14 DEF OnReceiveUnbound, Read, Close
<1>15. ASSUME NEW s \in Server, NEW p \in toCenter[s], OnReceiveRequest(s, p)
      PROVE  ResponseInv'
  BY <1>15 DEF OnReceiveRequest, Read
<1>16. ASSUME NEW s \in Server, NEW p \in toCenter[s], OnReceiveAnswer(s, p)
      PROVE  ResponseInv'
  BY <1>16 DEF OnReceiveAnswer, Read
<1>17. ASSUME NEW c \in Call, TimerEnds(c)
      PROVE  ResponseInv'
  <2>1. /\ From[c] = From[c] /\ num[c] = num[c]
        /\ ~reused => c = c
    OBVIOUS
  <2>2. conn[From[c]] = "up" /\ gen[From[c]] = sentOn[c] => c \notin old
    BY AnsweredIsNew
  <2>3. Respond(c, [of |-> c, ok |-> FALSE]) /\ UNCHANGED <<num, old, reused>>
    BY <1>17 DEF TimerEnds
  <2> QED
    BY <2>1, <2>2, <2>3 DEF Respond
<1>18. ASSUME NEW c \in Call, NEW ok \in BOOLEAN, ReceiveDataLocal(c, ok)
      PROVE  ResponseInv'
  <2>1. /\ From[c] = From[c] /\ num[c] = num[c]
        /\ ~reused => c = c
    OBVIOUS
  <2>2. conn[From[c]] = "up" /\ gen[From[c]] = sentOn[c] => c \notin old
    BY AnsweredIsNew
  <2>3. Respond(c, [of |-> c, ok |-> ok]) /\ UNCHANGED <<num, old, reused>>
    BY <1>18 DEF ReceiveDataLocal
  <2> QED
    BY <2>1, <2>2, <2>3 DEF Respond
<1>19. ASSUME NEW c \in Call, NEW s \in Server, ReceiveDataNoServer(c, s)
      PROVE  ResponseInv'
  <2>1. /\ From[c] = From[c] /\ num[c] = num[c]
        /\ ~reused => c = c
    OBVIOUS
  <2>2. conn[From[c]] = "up" /\ gen[From[c]] = sentOn[c] => c \notin old
    BY AnsweredIsNew
  <2>3. Respond(c, [of |-> c, ok |-> FALSE]) /\ UNCHANGED <<num, old, reused>>
    BY <1>19 DEF ReceiveDataNoServer
  <2> QED
    BY <2>1, <2>2, <2>3 DEF Respond
<1>20. ASSUME NEW c \in Call, NEW s \in Server, ReceiveDataTransfer(c, s)
      PROVE  ResponseInv'
  BY <1>20 DEF ReceiveDataTransfer
<1>21. ASSUME NEW a \in wakeups, WakeupNobody(a)
      PROVE  ResponseInv'
  BY <1>21 DEF WakeupNobody
<1>22. ASSUME NEW a \in wakeups, NEW c \in Call, WakeupEnds(a, c)
      PROVE  ResponseInv'
  <2>1. /\ From[a.of] = From[c] /\ num[a.of] = num[c]
        /\ ~reused => a.of = c
    <3>1. a.of \in Call
      BY AnswerFacts
    <3>2. InFlight(a.of) /\ InFlight(c)
      BY <1>22, <3>1 DEF WakeupEnds, InFlight
    <3> QED
      BY <1>22, <3>1, <3>2, BegunHasNumber DEF WakeupEnds, ApartInv, AnswerInv, Truthful
  <2>2. conn[From[c]] = "up" /\ gen[From[c]] = sentOn[c] => c \notin old
    BY AnsweredIsNew
  <2>3. Respond(c, a) /\ UNCHANGED <<num, old, reused>>
    BY <1>22 DEF WakeupEnds
  <2> QED
    BY <2>1, <2>2, <2>3 DEF Respond
<1>23. CASE UNCHANGED vars
  BY <1>23 DEF vars
<1> QED
   BY ExecCase, TimerCase, WakeupCase, <1>1, <1>2, <1>3, <1>4, <1>5, <1>6, <1>7, <1>8,
     <1>9, <1>10, <1>11, <1>12, <1>13, <1>14, <1>15, <1>16, <1>17, <1>18, <1>19,
     <1>20, <1>21, <1>22, <1>23
  DEF Next, LinkStep, Receive, NetworkStep, CenterStep

(* Who begins to wait displaces nobody, as long as no other coroutine with *)
(* its number is on its way.                                               *)
LEMMA FoundStep ==
   ASSUME TypeOK, CallerInv, RequestInv, OnceInv, AnswerInv, EntriesWait, NumberInv,
         ApartInv, WaitersFound, [Next]_vars
  PROVE  WaitersFound'
<1> USE ServerCallsAssumption DEF TypeOK, CallerInv, Requested, WaitersFound,
     linkVars, callVars, centerVars, auxVars
<1>1. ASSUME NEW c \in Call, Request(c)
      PROVE  WaitersFound'
  BY <1>1 DEF Request, Send, IsTransmit
<1>2. ASSUME NEW c \in Call, OnTimerCheckTimeout(c)
      PROVE  WaitersFound'
  BY <1>2 DEF OnTimerCheckTimeout, Close
<1>3. ASSUME NEW s \in Server, NEW m \in inbox[s], ReceiveResponse(s, m)
      PROVE  WaitersFound'
  BY <1>3 DEF ReceiveResponse, Take, Told, Open
<1>4. ASSUME NEW s \in Server, NEW m \in inbox[s], ReceiveDisconnect(s, m)
      PROVE  WaitersFound'
  BY <1>4 DEF ReceiveDisconnect, Take, Finish, Open
<1>5. ASSUME NEW s \in Server, NEW m \in inbox[s], ReceiveTransfer(s, m)
      PROVE  WaitersFound'
  BY <1>5 DEF ReceiveTransfer, Take
<1>6. ASSUME NEW s \in Server, CheckConnect(s)
      PROVE  WaitersFound'
  BY <1>6 DEF CheckConnect
<1>7. ASSUME NEW e \in executing, NEW p \in Packet, Carried(e, p)
      PROVE  WaitersFound'
  BY <1>7 DEF Carried
<1>8. ASSUME NEW s \in Server, OnConnect(s)
      PROVE  WaitersFound'
  BY <1>8 DEF OnConnect, Send
<1>9. ASSUME NEW s \in Server, OnDisconnect(s)
      PROVE  WaitersFound'
  BY <1>9 DEF OnDisconnect, Lose
<1>10. ASSUME NEW s \in Server, ConnectFails(s)
      PROVE  WaitersFound'
  BY <1>10 DEF ConnectFails, Lose
<1>11. ASSUME NEW s \in Server, Restart(s)
      PROVE  WaitersFound'
  BY <1>11 DEF Restart, Lose, Open
<1>12. ASSUME NEW s \in Server, SessionRelease(s)
      PROVE  WaitersFound'
  BY <1>12 DEF SessionRelease
<1>13. ASSUME NEW s \in Server, NEW p \in toCenter[s], GateRegister(s, p)
      PROVE  WaitersFound'
  BY <1>13 DEF GateRegister, Read
<1>14. ASSUME NEW s \in Server, NEW p \in toCenter[s], OnReceiveUnbound(s, p)
      PROVE  WaitersFound'
  BY <1>14 DEF OnReceiveUnbound, Read, Close
<1>15. ASSUME NEW s \in Server, NEW p \in toCenter[s], OnReceiveRequest(s, p)
      PROVE  WaitersFound'
  BY <1>15 DEF OnReceiveRequest, Read
<1>16. ASSUME NEW s \in Server, NEW p \in toCenter[s], OnReceiveAnswer(s, p)
      PROVE  WaitersFound'
  BY <1>16 DEF OnReceiveAnswer, Read
<1>17. ASSUME NEW c \in Call, TimerEnds(c)
      PROVE  WaitersFound'
  BY <1>17 DEF TimerEnds, EndOfCoroutine, Respond
<1>18. ASSUME NEW c \in Call, NEW ok \in BOOLEAN, ReceiveDataLocal(c, ok)
      PROVE  WaitersFound'
  BY <1>18 DEF ReceiveDataLocal, Respond
<1>19. ASSUME NEW c \in Call, NEW s \in Server, ReceiveDataNoServer(c, s)
      PROVE  WaitersFound'
  BY <1>19 DEF ReceiveDataNoServer, Respond
<1>20. ASSUME NEW c \in Call, NEW s \in Server, ReceiveDataTransfer(c, s)
      PROVE  WaitersFound'
  <2>1. c \in Call /\ num[c] \in Number /\ From[c] \in Server /\ InFlight(c)
    BY <1>20, BegunHasNumber DEF ReceiveDataTransfer, InFlight
  <2>2. \A d \in Call : stage[d] = "waiting" => num[d] \in Number /\ Requested(d) /\ InFlight(d)
    BY BegunHasNumber DEF InFlight
  <2>3. ~reused =>
          \A d \in Call : stage[d] = "waiting" /\ From[d] = From[c] /\ num[d] = num[c] => d = c
    BY <2>1, <2>2, <1>20, BegunHasNumber DEF ApartInv, ReceiveDataTransfer
  <2>4. /\ stage' = [stage EXCEPT ![c] = "waiting"]
        /\ m_mapRequest' = [m_mapRequest EXCEPT ![From[c]][num[c]] = c]
        /\ UNCHANGED <<reused, num>>
    BY <1>20 DEF ReceiveDataTransfer
  <2> QED
    BY <2>1, <2>2, <2>3, <2>4
<1>21. ASSUME NEW a \in wakeups, WakeupNobody(a)
      PROVE  WaitersFound'
  BY <1>21 DEF WakeupNobody
<1>22. ASSUME NEW a \in wakeups, NEW c \in Call, WakeupEnds(a, c)
      PROVE  WaitersFound'
  BY <1>22 DEF WakeupEnds, EndOfCoroutine, Respond
<1>23. CASE UNCHANGED vars
  BY <1>23 DEF vars
<1> QED
   BY ExecCase, TimerCase, WakeupCase, <1>1, <1>2, <1>3, <1>4, <1>5, <1>6, <1>7, <1>8,
     <1>9, <1>10, <1>11, <1>12, <1>13, <1>14, <1>15, <1>16, <1>17, <1>18, <1>19,
     <1>20, <1>21, <1>22, <1>23
  DEF Next, LinkStep, Receive, NetworkStep, CenterStep

(* The number of a response leads to one open call at most, its own. *)
LEMMA OwnStep ==
   ASSUME TypeOK, CallerInv, RequestInv, OnceInv, AnswerInv, EntriesWait, NumberInv,
         ResponseInv, OwnAnswer, [Next]_vars
  PROVE  OwnAnswer'
<1> USE ServerCallsAssumption DEF TypeOK, CallerInv, Requested, OwnAnswer, linkVars,
     callVars, centerVars, auxVars
<1>1. ASSUME NEW c \in Call, Request(c)
      PROVE  OwnAnswer'
  BY <1>1 DEF Request, Send, IsTransmit
<1>2. ASSUME NEW s \in Server, NEW m \in inbox[s], ReceiveResponse(s, m)
      PROVE  OwnAnswer'
  <2>1. m.answer.of \in Call /\ From[m.answer.of] = s /\ num[m.answer.of] = m.num
        /\ Requested(m.answer.of) /\ (~reused => m.answer.of \notin old)
     BY <1>2, MessageFacts DEF ReceiveResponse, ResponseInv, ResponseAt, AnswerInv,
       Truthful
  <2>2. ~reused => \A d \in Open(s) : num[d] = m.num => d = m.answer.of
    BY <2>1 DEF Open, NumberInv
  <2> QED
    BY <2>1, <2>2, <1>2 DEF ReceiveResponse, Told, Open
<1>3. ASSUME NEW s \in Server, NEW m \in inbox[s], ReceiveDisconnect(s, m)
      PROVE  OwnAnswer'
  BY <1>3 DEF ReceiveDisconnect, Take, Finish, Open
<1>4. ASSUME UNCHANGED <<ret, reused>>
      PROVE  OwnAnswer'
  BY <1>4
<1>5. \/ UNCHANGED <<ret, reused>>
      \/ \E c \in Call : Request(c)
      \/ \E s \in Server : \E m \in inbox[s] : ReceiveResponse(s, m)
      \/ \E s \in Server : \E m \in inbox[s] : ReceiveDisconnect(s, m)
  BY DEF Next, LinkStep, Receive, NetworkStep, CenterStep, vars, callVars, auxVars,
         OnTimerCheckTimeout, ReceiveTransfer, CheckConnect, Exec, OnConnect,
         OnDisconnect, ConnectFails, Restart, SessionRelease, GateRegister,
         OnReceiveUnbound, OnReceiveRequest, OnReceiveAnswer, OnTimer,
         ReceiveDataLocal, ReceiveDataNoServer, ReceiveDataTransfer, Wakeup
<1> HIDE DEF TypeOK, CallerInv, OwnAnswer, linkVars, callVars, centerVars, auxVars
<1> QED
  BY <1>1, <1>2, <1>3, <1>4, <1>5

(* A number is only drawn for a call, so there are never more of them.     *)
LEMMA IndexStep ==
  ASSUME TypeOK, IndexInv, Keeps, [Next]_vars
  PROVE  IndexInv'
<1>1. ASSUME NEW s \in Server
      PROVE  /\ CalledBy(s) \subseteq CalledBy(s)'
             /\ IsFiniteSet(CalledBy(s)) /\ IsFiniteSet(CalledBy(s)')
             /\ Cardinality(CalledBy(s)) \in Nat /\ Cardinality(CalledBy(s)') \in Nat
             /\ Cardinality(CalledBy(s)) <= Cardinality(CalledBy(s)')
  <2>1. CalledBy(s) \subseteq CalledBy(s)' /\ CalledBy(s)' \subseteq Call
    BY DEF CalledBy, Keeps
  <2>2. IsFiniteSet(CalledBy(s)')
    BY <2>1, FS_Subset, ServerCallsAssumption
  <2> QED
    BY <2>1, <2>2, FS_Subset, FS_CardinalityType
<1>2. \A s \in Server : index[s] \in Nat
  BY CountFacts DEF TypeOK
<1>3. ASSUME NEW c \in Call, Request(c)
      PROVE  IndexInv'
  <2>1. From[c] \in Server
    BY ServerCallsAssumption
  <2>2. index'[From[c]] = index[From[c]] + 1
        /\ \A s \in Server : s # From[c] => index'[s] = index[s]
    BY <1>3, <2>1 DEF Request, GetNewSessionID, TypeOK
  <2>3. c \in CalledBy(From[c])' /\ c \notin CalledBy(From[c])
    BY <1>3 DEF Request, CalledBy, Requested, TypeOK
  <2>4. Cardinality(CalledBy(From[c])) < Cardinality(CalledBy(From[c])')
    <3>1. CalledBy(From[c]) # CalledBy(From[c])'
      BY <2>3
    <3> QED
      BY <1>1, <2>1, <3>1, FS_Subset
  <2> QED
    BY <1>1, <1>2, <2>1, <2>2, <2>4 DEF IndexInv
<1>4. ASSUME \A s \in Server : index'[s] \in {index[s], 0}
      PROVE  IndexInv'
  BY <1>1, <1>2, <1>4 DEF IndexInv
<1>5. (\E c \in Call : Request(c)) \/ UNCHANGED index
      \/ \E t \in Server : index' = [index EXCEPT ![t] = 0]
   BY DEF Next, LinkStep, Receive, NetworkStep, CenterStep, vars, linkVars,
     OnTimerCheckTimeout,
         ReceiveResponse, ReceiveDisconnect, ReceiveTransfer, CheckConnect, Exec, OnConnect,
         OnDisconnect, ConnectFails, Restart, SessionRelease, GateRegister, OnReceiveUnbound,
         OnReceiveRequest, OnReceiveAnswer, OnTimer, ReceiveDataLocal, ReceiveDataNoServer,
         ReceiveDataTransfer, Wakeup
<1>6. \A t \in Server : index' = [index EXCEPT ![t] = 0]
        => \A s \in Server : index'[s] \in {index[s], 0}
  BY DEF TypeOK
<1> QED
  BY <1>3, <1>4, <1>5, <1>6

(* Nothing of a call is on its way again, once nothing of it is.           *)
LEMMA FlightStep ==
  ASSUME TypeOK, CallerInv, RequestInv, EntriesWait, AnswerInv, [Next]_vars
  PROVE  \A d \in Call : InFlight(d)' => InFlight(d) \/ Request(d)
<1> USE ServerCallsAssumption DEF TypeOK, InFlight, linkVars, callVars, centerVars,
     auxVars
<1>1. ASSUME NEW c \in Call, Request(c)
      PROVE  \A d \in Call : InFlight(d)' => InFlight(d) \/ Request(d)
  <2> DEFINE q == [kind |-> "request", call |-> c, on |-> gen[From[c]]]
  <2>1. /\ \A s \in Server : \A p \in toCenter'[s] : p \in toCenter[s] \/ p = q
        /\ UNCHANGED <<stage, executing, inbox, wakeups>>
    BY <1>1 DEF Request, Send
  <2>2. q.kind = "request" /\ q.call = c
    OBVIOUS
  <2> HIDE DEF TypeOK, q
  <2> QED
    BY <1>1, <2>1, <2>2 DEF InFlight
<1>2. ASSUME NEW c \in Call, OnTimerCheckTimeout(c)
      PROVE  \A d \in Call : InFlight(d)' => InFlight(d) \/ Request(d)
  BY <1>2 DEF OnTimerCheckTimeout, Close
<1>3. ASSUME NEW s \in Server, NEW m \in inbox[s], ReceiveResponse(s, m)
      PROVE  \A d \in Call : InFlight(d)' => InFlight(d) \/ Request(d)
  BY <1>3 DEF ReceiveResponse, Take, Told, Open
<1>4. ASSUME NEW s \in Server, NEW m \in inbox[s], ReceiveDisconnect(s, m)
      PROVE  \A d \in Call : InFlight(d)' => InFlight(d) \/ Request(d)
  BY <1>4 DEF ReceiveDisconnect, Take, Finish, Open
<1>5. ASSUME NEW s \in Server, NEW m \in inbox[s], ReceiveTransfer(s, m)
      PROVE  \A d \in Call : InFlight(d)' => InFlight(d) \/ Request(d)
  BY <1>5, MessageFacts DEF ReceiveTransfer, Take
<1>6. ASSUME NEW s \in Server, CheckConnect(s)
      PROVE  \A d \in Call : InFlight(d)' => InFlight(d) \/ Request(d)
  BY <1>6 DEF CheckConnect
<1>7. ASSUME NEW e \in executing, NEW p \in Packet, Carried(e, p)
      PROVE  \A d \in Call : InFlight(d)' => InFlight(d) \/ Request(d)
  <2>1. /\ \A s \in Server : \A q \in toCenter'[s] : q \in toCenter[s] \/ q = p
        /\ p.kind = "answer" /\ p.answer.of = e.call /\ e.call \in Call /\ e.at \in Server
        /\ executing' = executing \ {e} /\ UNCHANGED <<stage, inbox, wakeups>>
    <3>1. \A s \in Server : \A q \in toCenter'[s] : q \in toCenter[s] \/ q = p
      <4> HIDE DEF TypeOK
      <4> QED
        BY <1>7, CarriedPackets
    <3> QED
      BY <1>7, <3>1 DEF Carried
  <2>2. [call |-> e.call, at |-> e.at] \in executing
    OBVIOUS
  <2> HIDE DEF TypeOK
  <2> QED
    BY <2>1, <2>2 DEF InFlight
<1>8. ASSUME NEW s \in Server, OnConnect(s)
      PROVE  \A d \in Call : InFlight(d)' => InFlight(d) \/ Request(d)
  <2>1. /\ \A u \in Server : \A q \in toCenter'[u] : q \in toCenter[u] \/ q.kind = "register"
        /\ UNCHANGED <<stage, executing, inbox, wakeups>>
    BY <1>8 DEF OnConnect, Send
  <2> HIDE DEF TypeOK
  <2> QED
    BY <2>1 DEF InFlight
<1>9. ASSUME NEW s \in Server, OnDisconnect(s)
      PROVE  \A d \in Call : InFlight(d)' => InFlight(d) \/ Request(d)
  <2>1. /\ \A u \in Server : \A q \in toCenter'[u] : q \in toCenter[u]
        /\ \A u \in Server : \A m \in inbox'[u] : m \in inbox[u] \/ m.kind = "disconnect"
        /\ UNCHANGED <<stage, executing, wakeups>>
    BY <1>9 DEF OnDisconnect, Lose
  <2> HIDE DEF TypeOK
  <2> QED
    BY <2>1 DEF InFlight
<1>10. ASSUME NEW s \in Server, ConnectFails(s)
      PROVE  \A d \in Call : InFlight(d)' => InFlight(d) \/ Request(d)
  BY <1>10 DEF ConnectFails, Lose
<1>11. ASSUME NEW s \in Server, Restart(s)
      PROVE  \A d \in Call : InFlight(d)' => InFlight(d) \/ Request(d)
  BY <1>11 DEF Restart, Lose, Open
<1>12. ASSUME NEW s \in Server, SessionRelease(s)
      PROVE  \A d \in Call : InFlight(d)' => InFlight(d) \/ Request(d)
  BY <1>12 DEF SessionRelease
<1>13. ASSUME NEW s \in Server, NEW p \in toCenter[s], GateRegister(s, p)
      PROVE  \A d \in Call : InFlight(d)' => InFlight(d) \/ Request(d)
  BY <1>13 DEF GateRegister, Read
<1>14. ASSUME NEW s \in Server, NEW p \in toCenter[s], OnReceiveUnbound(s, p)
      PROVE  \A d \in Call : InFlight(d)' => InFlight(d) \/ Request(d)
  BY <1>14 DEF OnReceiveUnbound, Read, Close
<1>15. ASSUME NEW s \in Server, NEW p \in toCenter[s], OnReceiveRequest(s, p)
      PROVE  \A d \in Call : InFlight(d)' => InFlight(d) \/ Request(d)
  <2>1. /\ p.kind = "request" /\ p.call \in Call /\ stage[p.call] = "none"
        /\ stage' = [stage EXCEPT ![p.call] = "queued"]
        /\ \A u \in Server : \A q \in toCenter'[u] : q \in toCenter[u]
        /\ UNCHANGED <<executing, inbox, wakeups>>
    BY <1>15, PacketFacts DEF OnReceiveRequest, Read, RequestInv, RequestAt
  <2>2. stage \in [Call -> {"none", "queued", "waiting", "ended", "dropped"}]
    OBVIOUS
  <2> HIDE DEF TypeOK
  <2> QED
    BY <2>1, <2>2 DEF InFlight
<1>16. ASSUME NEW s \in Server, NEW p \in toCenter[s], OnReceiveAnswer(s, p)
      PROVE  \A d \in Call : InFlight(d)' => InFlight(d) \/ Request(d)
  BY <1>16, PacketFacts DEF OnReceiveAnswer, Read
<1>17. ASSUME NEW c \in Call, TimerEnds(c)
      PROVE  \A d \in Call : InFlight(d)' => InFlight(d) \/ Request(d)
  <2>1. /\ stage[c] = "waiting" /\ stage' = [stage EXCEPT ![c] = "ended"]
        /\ \A u \in Server : \A m \in inbox'[u] : m \in inbox[u] \/ m.kind = "response"
        /\ executing' = executing /\ toCenter' = toCenter /\ wakeups' \subseteq wakeups
    BY <1>17 DEF TimerEnds, EndOfCoroutine, Respond
  <2>2. stage \in [Call -> {"none", "queued", "waiting", "ended", "dropped"}]
    OBVIOUS
  <2> HIDE DEF TypeOK
  <2> QED
    BY <2>1, <2>2 DEF InFlight
<1>18. ASSUME NEW c \in Call, NEW ok \in BOOLEAN, ReceiveDataLocal(c, ok)
      PROVE  \A d \in Call : InFlight(d)' => InFlight(d) \/ Request(d)
  <2>1. /\ stage[c] = "queued" /\ stage' = [stage EXCEPT ![c] = "ended"]
        /\ \A u \in Server : \A m \in inbox'[u] : m \in inbox[u] \/ m.kind = "response"
        /\ executing' = executing /\ toCenter' = toCenter /\ wakeups' \subseteq wakeups
    BY <1>18 DEF ReceiveDataLocal, Respond
  <2>2. stage \in [Call -> {"none", "queued", "waiting", "ended", "dropped"}]
    OBVIOUS
  <2> HIDE DEF TypeOK
  <2> QED
    BY <2>1, <2>2 DEF InFlight
<1>19. ASSUME NEW c \in Call, NEW s \in Server, ReceiveDataNoServer(c, s)
      PROVE  \A d \in Call : InFlight(d)' => InFlight(d) \/ Request(d)
  <2>1. /\ stage[c] = "queued" /\ stage' = [stage EXCEPT ![c] = "ended"]
        /\ \A u \in Server : \A m \in inbox'[u] : m \in inbox[u] \/ m.kind = "response"
        /\ executing' = executing /\ toCenter' = toCenter /\ wakeups' \subseteq wakeups
    BY <1>19 DEF ReceiveDataNoServer, Respond
  <2>2. stage \in [Call -> {"none", "queued", "waiting", "ended", "dropped"}]
    OBVIOUS
  <2> HIDE DEF TypeOK
  <2> QED
    BY <2>1, <2>2 DEF InFlight
<1>20. ASSUME NEW c \in Call, NEW s \in Server, ReceiveDataTransfer(c, s)
      PROVE  \A d \in Call : InFlight(d)' => InFlight(d) \/ Request(d)
  <2> DEFINE n == [kind |-> "transfer", call |-> c, on |-> gen[s]]
  <2>1. /\ stage[c] = "queued" /\ stage' = [stage EXCEPT ![c] = "waiting"]
        /\ \A u \in Server : \A m \in inbox'[u] :
             m \in inbox[u] \/ m = n
        /\ executing' = executing /\ toCenter' = toCenter /\ wakeups' = wakeups
    BY <1>20 DEF ReceiveDataTransfer
  <2>2. stage \in [Call -> {"none", "queued", "waiting", "ended", "dropped"}]
    OBVIOUS
  <2>3. n.kind = "transfer" /\ n.call = c
    OBVIOUS
  <2> HIDE DEF TypeOK, n
  <2> QED
    BY <2>1, <2>2, <2>3 DEF InFlight
<1>21. ASSUME NEW a \in wakeups, WakeupNobody(a)
      PROVE  \A d \in Call : InFlight(d)' => InFlight(d) \/ Request(d)
  BY <1>21 DEF WakeupNobody
<1>22. ASSUME NEW a \in wakeups, NEW c \in Call, WakeupEnds(a, c)
      PROVE  \A d \in Call : InFlight(d)' => InFlight(d) \/ Request(d)
  <2>1. /\ stage[c] = "waiting" /\ stage' = [stage EXCEPT ![c] = "ended"]
        /\ \A u \in Server : \A m \in inbox'[u] : m \in inbox[u] \/ m.kind = "response"
        /\ executing' = executing /\ toCenter' = toCenter /\ wakeups' \subseteq wakeups
    BY <1>22 DEF WakeupEnds, EndOfCoroutine, Respond
  <2>2. stage \in [Call -> {"none", "queued", "waiting", "ended", "dropped"}]
    OBVIOUS
  <2> HIDE DEF TypeOK
  <2> QED
    BY <2>1, <2>2 DEF InFlight
<1>23. CASE UNCHANGED vars
  BY <1>23 DEF vars
<1> QED
   BY ExecCase, TimerCase, WakeupCase, <1>1, <1>2, <1>3, <1>4, <1>5, <1>6, <1>7, <1>8,
     <1>9, <1>10, <1>11, <1>12, <1>13, <1>14, <1>15, <1>16, <1>17, <1>18, <1>19,
     <1>20, <1>21, <1>22, <1>23
  DEF Next, LinkStep, Receive, NetworkStep, CenterStep

(* Who calls while nothing of its predecessor's calls is on its way takes  *)
(* a number that nothing on its way has.                                   *)
LEMMA ApartStep ==
   ASSUME TypeOK, CallerInv, RequestInv, EntriesWait, AnswerInv, NumberInv, ApartInv,
         [Next]_vars
  PROVE  ApartInv'
<1>1. \A d \in Call : InFlight(d)' => InFlight(d) \/ Request(d)
  BY FlightStep
<1>2. ASSUME NEW c \in Call, Request(c)
      PROVE  ApartInv'
  <2> DEFINE s == From[c]
  <2>1. /\ s \in Server /\ index[s] \in Nat
        /\ pc[c] = "idle" /\ num'[c] = index[s] + 1
    <3>1. s \in Server /\ index[s] \in Nat
      BY ServerCallsAssumption, CountFacts DEF TypeOK
    <3>2. pc[c] = "idle" /\ num' = [num EXCEPT ![c] = index[s] + 1]
      BY <1>2 DEF Request, GetNewSessionID
    <3> QED
      BY <3>1, <3>2 DEF TypeOK
  <2>2. \A d \in Call : d # c => num'[d] = num[d] /\ pc'[d] = pc[d] /\ ~Request(d)
    <3>1. /\ pc' = [pc EXCEPT ![c] = "sent"] /\ num' = [num EXCEPT ![c] = index[s] + 1]
          /\ \A d \in Call : Request(d) => pc[d] = "idle" /\ pc'[d] = "sent"
      BY <1>2 DEF Request, GetNewSessionID, TypeOK
    <3> QED
      BY <3>1 DEF TypeOK
  <2>3. reused' = (reused \/ \E d \in old : From[d] = s /\ InFlight(d))
    BY <1>2 DEF Request
  <2>4. ASSUME ~reused', NEW d \in Call, Requested(d)', d # c, From[d] = s,
               num'[d] = num'[c], InFlight(d)'
        PROVE  FALSE
    <3>1. InFlight(d) /\ Requested(d) /\ num[d] = index[s] + 1
      BY <1>1, <2>1, <2>2, <2>4 DEF Requested
    <3>2. d \notin old
      BY <2>3, <2>4, <3>1
    <3>3. num[d] <= index[s]
      BY <2>4, <3>1, <3>2 DEF NumberInv
    <3> QED
      BY <2>1, <3>1, <3>3
  <2>5. ASSUME ~reused', NEW d \in Call, NEW e \in Call, d # c, e # c,
               Requested(d)', Requested(e)', From[d] = From[e], num'[d] = num'[e],
               InFlight(d)', InFlight(e)'
        PROVE  d = e
    <3>1. /\ InFlight(d) /\ InFlight(e) /\ Requested(d) /\ Requested(e)
          /\ num[d] = num[e] /\ ~reused
      BY <1>1, <2>2, <2>3, <2>5 DEF Requested
    <3> QED
      BY <2>5, <3>1 DEF ApartInv
  <2> QED
    BY <2>4, <2>5 DEF ApartInv
<1>3. ASSUME ~\E c \in Call : Request(c)
      PROVE  ApartInv'
  <2>1. UNCHANGED <<num, reused>> /\ \A c \in Call : Requested(c)' => Requested(c)
     BY <1>3 DEF Next, LinkStep, Receive, NetworkStep, CenterStep, vars, linkVars,
       callVars,
         auxVars, Requested, OnTimerCheckTimeout,
         ReceiveResponse, ReceiveDisconnect, Finish, Open, ReceiveTransfer, CheckConnect, Exec,
         OnConnect, OnDisconnect, ConnectFails, Restart, SessionRelease, GateRegister,
         OnReceiveUnbound, OnReceiveRequest, OnReceiveAnswer, OnTimer, ReceiveDataLocal,
         ReceiveDataNoServer, ReceiveDataTransfer, Wakeup
  <2>2. \A c \in Call : InFlight(c)' => InFlight(c)
    BY <1>1, <1>3
  <2> QED
    BY <2>1, <2>2 DEF ApartInv
<1> QED
  BY <1>2, <1>3

(***************************************************************************)
(* The invariant.                                                          *)
(***************************************************************************)
(* Nothing was called yet. *)
LEMMA InitIInv == Init => IInv
<1> SUFFICES ASSUME Init PROVE IInv
  OBVIOUS
<1>1. TypeOK
  <2>1. \A s \in Server : 1 \in Connection
    BY CountFacts, ServerCallsAssumption
  <2>2. 0 \in 0 .. Cardinality(Call)
    BY CountFacts
  <2>3. /\ conn \in [Server -> {"closed", "connecting", "up"}]
        /\ gen \in [Server -> Connection]
        /\ doomed \in [Server -> BOOLEAN] /\ \A s \in Server : ~doomed[s]
        /\ index \in [Server -> 0 .. Cardinality(Call)]
        /\ bound \in [Server -> SUBSET Connection]
    BY <2>1, <2>2 DEF Init
  <2>4. /\ pc \in [Call -> {"idle", "sent", "done", "dead"}]
        /\ num \in [Call -> Number \cup {0}] /\ sentOn \in [Call -> Connection \cup {0}]
        /\ ret \in [Call -> {"none", "own", "foreign", "error", "fail"}]
        /\ stage \in [Call -> {"none", "queued", "waiting", "ended", "dropped"}]
        /\ served \in [Call -> Nat] /\ reused \in BOOLEAN
    BY DEF Init
  <2>5. m_mapRequest \in [Server -> [Number -> Call \cup {None}]]
    BY DEF Init
  <2>6. /\ inbox \in [Server -> SUBSET Message] /\ toCenter \in [Server -> SUBSET Packet]
        /\ executing = {} /\ wakeups = {} /\ old = {}
    BY DEF Init
  <2>7. restarts \in [Server -> Nat] /\ \A s \in Server : restarts[s] <= MaxRestart[s]
    BY ServerCallsAssumption DEF Init
  <2> QED
    BY <2>3, <2>4, <2>5, <2>6, <2>7 DEF TypeOK
<1>2. CallerInv /\ NumberInv
  BY DEF Init, CallerInv, NumberInv, Requested
<1>3. IndexInv
  BY CalledFinite DEF Init, IndexInv
<1>4. RequestInv /\ AnswerInv /\ ResponseInv
  BY DEF Init, RequestInv, AnswerInv, ResponseInv, RequestAt, AnswerAt, ResponseAt
<1>5. OnceInv
  BY DEF Init, OnceInv, AtLink, TransferAt
<1>6. ApartInv /\ MapInStep /\ OwnAnswer
  BY ServerCallsAssumption
  DEF Init, ApartInv, Requested, MapInStep, EntriesWait, WaitersFound, OwnAnswer
<1> QED
  BY <1>1, <1>2, <1>3, <1>4, <1>5, <1>6 DEF IInv

(* The parts hold each other up. *)
LEMMA InductiveStep == IInv /\ [Next]_vars => IInv'
<1> SUFFICES ASSUME IInv, [Next]_vars PROVE IInv'
  OBVIOUS
<1>1. /\ TypeOK /\ CallerInv /\ NumberInv /\ IndexInv /\ RequestInv /\ OnceInv /\ AnswerInv
      /\ ResponseInv /\ ApartInv /\ EntriesWait /\ WaitersFound /\ OwnAnswer
  BY DEF IInv, MapInStep
<1>2. Keeps
  BY <1>1, KeptStep
<1>3. TypeOK' /\ CallerInv' /\ RequestInv' /\ EntriesWait'
  BY <1>1, TypeStep, CallerStep, RequestStep, EntriesStep
<1>4. NumberInv' /\ IndexInv' /\ OnceInv' /\ AnswerInv'
  BY <1>1, <1>2, NumberStep, IndexStep, OnceStep, AnswerStep
<1>5. ResponseInv' /\ ApartInv' /\ WaitersFound' /\ OwnAnswer'
  BY <1>1, ResponseStep, ApartStep, FoundStep, OwnStep
<1> QED
  BY <1>3, <1>4, <1>5 DEF IInv, MapInStep

(* The invariant, for all servers, calls, connections and processes. *)
THEOREM Invariance == Spec => []IInv
BY InitIInv, InductiveStep, PTL DEF Spec

(* Numbers stay those there are, however often a process ends and another  *)
(* counts from the start.                                                  *)
THEOREM TypeCorrect == Spec => []TypeOK
<1>1. IInv => TypeOK
  BY DEF IInv
<1> QED
  BY <1>1, Invariance, PTL

(* Nobody is given the answer to another's call, while no process calls    *)
(* when calls of its predecessor are on their way.                         *)
THEOREM AnswersAreOwn == Spec => []OwnAnswer
<1>1. IInv => OwnAnswer
  BY DEF IInv
<1> QED
  BY <1>1, Invariance, PTL

(* The map in the ctx of a session only leads to coroutines that wait, and *)
(* to each of them under the same condition.                               *)
THEOREM MapKept == Spec => []MapInStep
<1>1. IInv => MapInStep
  BY DEF IInv
<1> QED
  BY <1>1, Invariance, PTL

(***************************************************************************)
(* The refinement of RemoteCall.                                           *)
(***************************************************************************)
(* What the caller sees of a call is in its pc and in what it was told. *)
LEMMA SeenFacts ==
  ASSUME TypeOK
  PROVE  \A c \in Call :
           /\ CallState[c] = "idle" <=> pc[c] = "idle"
           /\ CallState[c] = "open" <=> pc[c] = "sent"
           /\ pc'[c] = pc[c] /\ ret'[c] = ret[c] => CallState'[c] = CallState[c]
           /\ pc'[c] = "sent" => CallState'[c] = "open"
           /\ pc'[c] \in {"done", "dead"} /\ ret'[c] \in {"own", "foreign"}
                => CallState'[c] = "done"
           /\ pc'[c] \in {"done", "dead"} /\ ret'[c] \notin {"own", "foreign"}
                => CallState'[c] = "failed"
BY DEF CallState, TypeOK

(* Only one caller sees it. *)
LEMMA SeenByOne ==
  ASSUME NEW d \in Call, NEW v,
         \A c \in Call : CallState'[c] = IF c = d THEN v ELSE CallState[c]
  PROVE  CallState' = [CallState EXCEPT ![d] = v]
<1>1. CallState' = [c \in Call |-> CallState'[c]]
  BY DEF CallState
<1>2. CallState = [c \in Call |-> CallState[c]]
  BY DEF CallState
<1> HIDE DEF CallState
<1> QED
  BY <1>1, <1>2

(* A step that the caller does not see. *)
LEMMA Unseen ==
  ASSUME UNCHANGED <<pc, ret>>
  PROVE  UNCHANGED CallState
BY DEF CallState

(* It is told of a failure, with others of its process. *)
LEMMA SeenFailure ==
  ASSUME TypeOK, CallerInv, NEW who \in SUBSET Call, UNCHANGED served,
         \A c \in who : pc[c] = "sent" /\ CallState'[c] = "failed",
         \A c \in Call \ who : pc'[c] = pc[c] /\ ret'[c] = ret[c]
  PROVE  ServesStep \/ UNCHANGED CallOf!vars
<1>1. \A c \in Call : CallState'[c] = IF c \in who THEN "failed" ELSE CallState[c]
  BY SeenFacts
<1>2. CallState' = [c \in Call |-> IF c \in who THEN "failed" ELSE CallState[c]]
  BY <1>1 DEF CallState
<1>3. CASE who = {}
  <2>1. CallState' = CallState
    BY <1>2, <1>3 DEF CallState
  <2> QED
    BY <2>1 DEF CallOf!vars
<1>4. CASE who # {}
  <2>1. \A c \in who : CallState[c] = "open"
    BY SeenFacts
  <2>2. CallOf!Fail
    <3>1. who \in (SUBSET Call) \ {{}}
      BY <1>4
    <3>2. \A c \in who : CallState[c] \in {"idle", "open"}
      BY <2>1
    <3> HIDE DEF CallState
    <3> QED
      BY <1>2, <3>1, <3>2 DEF CallOf!Fail
  <2> QED
    BY <2>2 DEF ServesStep, CallOf!Next
<1> QED
  BY <1>3, <1>4

(* A call is carried out for the first time, or was refused. *)
LEMMA ServedOnce ==
  ASSUME TypeOK, NEW c \in Call, NEW ok \in BOOLEAN, pc[c] # "idle", served[c] = 0,
         served' = [served EXCEPT ![c] = IF ok THEN @ + 1 ELSE @],
         UNCHANGED <<pc, ret>>
  PROVE  ServesStep \/ UNCHANGED CallOf!vars
<1>1. UNCHANGED CallState
  BY Unseen
<1>2. CASE ok
  <2>1. CallOf!Serve(c)
    BY <1>1, <1>2, SeenFacts DEF CallOf!Serve, TypeOK
  <2> QED
    BY <2>1 DEF ServesStep, CallOf!Next
<1>3. CASE ~ok
  <2>1. served' = served
    BY <1>3 DEF TypeOK
  <2> QED
    BY <1>1, <2>1 DEF CallOf!vars
<1> QED
  BY <1>2, <1>3

(* The number of a response leads to the call it answers, and to no other. *)
LEMMA ResponseServes ==
  ASSUME IInv, NEW s \in Server, NEW m \in inbox[s], ReceiveResponse(s, m)
  PROVE  ServesStep \/ UNCHANGED CallOf!vars
<1> DEFINE who == {d \in Open(s) : num[d] = m.num}
           a == m.answer
<1>1. /\ TypeOK /\ CallerInv /\ NumberInv /\ AnswerInv /\ ResponseInv
  BY DEF IInv
<1>2. /\ \A d \in Call \ who : pc'[d] = pc[d] /\ ret'[d] = ret[d]
      /\ \A d \in who : pc[d] = "sent" /\ pc'[d] = "done" /\ ret'[d] = Told(d, a)
      /\ who \subseteq Call
      /\ UNCHANGED <<served, reused>>
  BY DEF ReceiveResponse, Open, auxVars
<1>3. CASE reused
  BY <1>2, <1>3 DEF ServesStep
<1>4. ASSUME ~reused, NEW d \in who
      PROVE  who = {d} /\ a.of = d /\ Truthful(a)
  <2>1. /\ a.of \in Call /\ From[a.of] = s /\ num[a.of] = m.num
        /\ a.of \notin old /\ Truthful(a)
    BY <1>1, <1>4, MessageFacts
    DEF ReceiveResponse, ResponseInv, ResponseAt, AnswerInv, TypeOK
  <2>2. \A e \in who : e = a.of
    BY <1>1, <2>1 DEF NumberInv, CallerInv, Open, Requested, Truthful
  <2> QED
    BY <2>1, <2>2
<1>5. CASE ~reused /\ who # {}
  <2>1. PICK d \in who : who = {d} /\ a.of = d /\ Truthful(a)
    BY <1>4, <1>5
  <2>2. d \in Call /\ pc[d] = "sent" /\ CallState[d] = "open"
    BY <1>1, <1>2, SeenFacts
  <2>3. CASE a.ok
    <3>1. ret'[d] = "own" /\ served[d] = 1
      BY <1>2, <2>1, <2>3 DEF Told, Truthful
    <3>2. \A c \in Call : CallState'[c] = IF c = d THEN "done" ELSE CallState[c]
      BY <1>1, <1>2, <2>1, <3>1, SeenFacts
    <3>3. CallState' = [CallState EXCEPT ![d] = "done"]
      BY <2>2, <3>2, SeenByOne
    <3>4. CallOf!Succeed(d)
      BY <1>2, <2>2, <3>1, <3>3 DEF CallOf!Succeed
    <3> QED
      BY <2>2, <3>4 DEF ServesStep, CallOf!Next
  <2>4. CASE ~a.ok
    <3>1. ret'[d] = "error"
      BY <1>2, <2>1, <2>4 DEF Told
    <3>2. CallState'[d] = "failed"
      BY <1>1, <1>2, <2>2, <3>1, SeenFacts
    <3> QED
      BY <1>1, <1>2, <2>1, <3>2, SeenFailure
  <2> QED
    BY <2>3, <2>4
<1>6. CASE who = {}
  BY <1>1, <1>2, <1>6, SeenFailure
<1> QED
  BY <1>3, <1>5, <1>6

(* Every step is one of RemoteCall, or is not seen there. *)
LEMMA ServesCallsStep ==
  ASSUME IInv, [Next]_vars
  PROVE  ServesStep \/ UNCHANGED CallOf!vars
<1>0. TypeOK /\ CallerInv /\ OnceInv /\ AnswerInv /\ EntriesWait
  BY DEF IInv, MapInStep
<1>1. ASSUME NEW c \in Call, Request(c)
      PROVE  ServesStep
  <2>1. pc[c] = "idle" /\ pc' = [pc EXCEPT ![c] = "sent"] /\ UNCHANGED <<ret, served>>
    BY <1>1 DEF Request
  <2>2. \A d \in Call : CallState'[d] = IF d = c THEN "open" ELSE CallState[d]
    BY <1>0, <2>1, SeenFacts DEF TypeOK
  <2>3. CallState' = [CallState EXCEPT ![c] = "open"]
    BY <2>2, SeenByOne
  <2>4. CallOf!Begin(c)
    BY <1>0, <2>1, <2>3, SeenFacts DEF CallOf!Begin
  <2> QED
    BY <2>4 DEF ServesStep, CallOf!Next
<1>2. ASSUME NEW s \in Server, NEW m \in inbox[s], ReceiveDisconnect(s, m)
      PROVE  ServesStep \/ UNCHANGED CallOf!vars
  <2>1. /\ \A c \in Call \ Open(s) : pc'[c] = pc[c] /\ ret'[c] = ret[c]
        /\ \A c \in Open(s) : pc[c] = "sent" /\ pc'[c] = "done" /\ ret'[c] = "fail"
        /\ Open(s) \subseteq Call /\ UNCHANGED served
    BY <1>2 DEF ReceiveDisconnect, Finish, Open, auxVars
  <2>2. \A c \in Open(s) : CallState'[c] = "failed"
    BY <1>0, <2>1, SeenFacts
  <2> QED
    BY <1>0, <2>1, <2>2, SeenFailure
<1>3. ASSUME NEW s \in Server, Restart(s)
      PROVE  ServesStep \/ UNCHANGED CallOf!vars
  <2>1. /\ \A c \in Call \ Open(s) : pc'[c] = pc[c] /\ ret'[c] = ret[c]
        /\ \A c \in Open(s) : pc[c] = "sent" /\ pc'[c] = "dead" /\ ret'[c] = ret[c]
        /\ Open(s) \subseteq Call /\ UNCHANGED served
    BY <1>3 DEF Restart, Open
  <2>2. \A c \in Open(s) : CallState'[c] = "failed"
    BY <1>0, <2>1, SeenFacts DEF CallerInv
  <2> QED
    BY <1>0, <2>1, <2>2, SeenFailure
<1>4. ASSUME NEW e \in executing, NEW p \in Packet, Carried(e, p)
      PROVE  ServesStep \/ UNCHANGED CallOf!vars
  <2>1. /\ e.call \in Call /\ UNCHANGED <<pc, ret>> /\ p.answer.ok \in BOOLEAN
        /\ served' = [served EXCEPT ![e.call] = IF p.answer.ok THEN @ + 1 ELSE @]
    BY <1>4, PacketFacts, AnswerFacts DEF Carried, callVars
  <2>2. AtLink(e.call)
    BY DEF AtLink
  <2>3. served[e.call] = 0 /\ pc[e.call] # "idle"
    BY <1>0, <2>1, <2>2 DEF OnceInv, CallerInv
  <2> QED
    BY <1>0, <2>1, <2>3, ServedOnce
<1>5. ASSUME NEW c \in Call, NEW ok \in BOOLEAN, ReceiveDataLocal(c, ok)
      PROVE  ServesStep \/ UNCHANGED CallOf!vars
  <2>1. /\ stage[c] = "queued" /\ UNCHANGED <<pc, ret>>
        /\ served' = [served EXCEPT ![c] = IF ok THEN @ + 1 ELSE @]
    BY <1>5 DEF ReceiveDataLocal, callVars
  <2>2. served[c] = 0 /\ pc[c] # "idle"
    BY <1>0, <2>1 DEF OnceInv, CallerInv
  <2> QED
    BY <1>0, <2>1, <2>2, ServedOnce
<1>6. ASSUME UNCHANGED <<pc, ret, served>>
      PROVE  UNCHANGED CallOf!vars
  BY <1>6, Unseen DEF CallOf!vars
<1>7. \/ UNCHANGED <<pc, ret, served>>
      \/ \E c \in Call : Request(c) \/ \E ok \in BOOLEAN : ReceiveDataLocal(c, ok)
      \/ \E s \in Server : Restart(s) \/ \E m \in inbox[s] : ReceiveResponse(s, m)
                                                            \/ ReceiveDisconnect(s, m)
      \/ \E e \in executing : \E ok \in BOOLEAN : Exec(e, ok)
  BY DEF Next, LinkStep, Receive, NetworkStep, CenterStep, vars, callVars, auxVars,
         OnTimerCheckTimeout, ReceiveTransfer, CheckConnect, OnConnect,
         OnDisconnect, ConnectFails, SessionRelease, GateRegister, OnReceiveUnbound,
         OnReceiveRequest, OnReceiveAnswer, OnTimer, ReceiveDataNoServer,
         ReceiveDataTransfer, Wakeup
<1> QED
  BY <1>0, <1>1, <1>2, <1>3, <1>4, <1>5, <1>6, <1>7, ExecCase, ResponseServes

(* Remote calls are what Ctx_ExeCoroutine promises: carried out at most    *)
(* once, a success told only of a call that was carried out, and each told *)
(* of once, whatever is lost, late or restarted on the way; the condition  *)
(* on the numbers is part of the step.                                     *)
THEOREM CallsServed == Spec => ServesCalls
<1>1. Init => CallOf!Init
  BY DEF Init, CallOf!Init, CallState
<1>2. IInv /\ [Next]_vars => [ServesStep]_CallOf!vars
  BY ServesCallsStep
<1> QED
  BY <1>1, <1>2, Invariance, PTL DEF Spec, ServesCalls

=============================================================================
