--------------------------- MODULE CtxServerCalls ---------------------------
(***************************************************************************)
(* Calls of ctxs of other servers.  The caller's coroutine goes to the     *)
(* link of its server, CCoroutineCtx_NetClientServerCommu, which sends a   *)
(* numbered request to the center.  There a coroutine of the ctx of the    *)
(* session, CInterationCenterServerSessionCtx, sends it on to the server   *)
(* it is for, whose link carries it out.  The answer goes back the same    *)
(* way.  Both the link and the ctx of the session keep the coroutines that *)
(* wait in a map from the number of the request to the coroutine.          *)
(*                                                                         *)
(* A number is new in the process that drew it.  The ctx of a session      *)
(* belongs to the server, and outlives a process of it that comes back in  *)
(* time (CtxGate).  Packets and messages are taken in any order.           *)
(***************************************************************************)
EXTENDS Naturals, FiniteSets

CONSTANTS
  Server,
  Center,      \* index 0xFF: a ctx of the center itself
  Call,        \* coroutines, each with one call
  From,        \* [Call -> the server of the caller]
  To,          \* [Call -> where the called ctx may be, servers or the center]
  MaxConn,     \* bound: [Server -> connections of its processes]
  MaxRestart,  \* bound: [Server -> processes that end]
  None

ASSUME ServerCallsAssumption ==
  /\ Center \notin Server
  /\ From \in [Call -> Server]
  /\ To \in [Call -> SUBSET (Server \cup {Center})]
  /\ IsFiniteSet(Call)
  /\ MaxConn \in [Server -> Nat \ {0}] /\ MaxRestart \in [Server -> Nat]
  /\ None \notin Call

VARIABLES
  \* the links
  conn,      \* state of m_pClient
  gen,       \* the number of its connection
  doomed,    \* Close(0) was called on it
  index,     \* m_sessionID_Index, since the process began
  pc,        \* where the coroutine of the caller is
  num,       \* the number of the call's request
  sentOn,    \* the connection it was sent on
  ret,       \* what the caller was told
  inbox,     \* messages for the ctx of the link, and what is on its way there
  executing, \* calls a link has begun to carry out: [call, at]
  \* the center
  toCenter,     \* packets of the sessions of a server that were not read yet
  bound,        \* the connections whose sessions lead to the ctx of the server
  stage,        \* of the coroutine of a request
  m_mapRequest, \* of the ctx of a session: the coroutine of a number
  wakeups,      \* answers on their way to the ctx of the session of the caller
  \* auxiliary
  restarts,
  old,       \* calls of processes that have ended
  served,    \* how often a call was carried out
  reused     \* a process called while calls of its predecessor were on their way

linkVars   == <<conn, gen, doomed, index>>
callVars   == <<pc, num, sentOn, ret>>
centerVars == <<bound, stage, m_mapRequest, wakeups>>
auxVars    == <<restarts, old, served, reused>>
vars == <<linkVars, callVars, inbox, executing, toCenter, centerVars, auxVars>>

Connection == UNION {1..MaxConn[s] : s \in Server}
Number == 1 .. Cardinality(Call)

Answer == [of : Call, ok : BOOLEAN]
Message ==
  [kind : {"transfer"}, call : Call, on : Connection]
    \cup [kind : {"response"}, num : Number, answer : Answer, on : Connection]
    \cup [kind : {"disconnect"}, on : Connection]
Packet ==
  [kind : {"register"}, on : Connection]
    \cup [kind : {"request"}, call : Call, on : Connection]
    \cup [kind : {"answer"}, answer : Answer, on : Connection]

TypeOK ==
  /\ conn \in [Server -> {"closed", "connecting", "up"}]
  /\ gen \in [Server -> Connection]
  /\ doomed \in [Server -> BOOLEAN]
  /\ \A s \in Server : doomed[s] => conn[s] # "closed"
  /\ index \in [Server -> 0 .. Cardinality(Call)]
  /\ pc \in [Call -> {"idle", "sent", "done", "dead"}]
  /\ num \in [Call -> Number \cup {0}]
  /\ sentOn \in [Call -> Connection \cup {0}]
  /\ ret \in [Call -> {"none", "own", "foreign", "error", "fail"}]
  /\ inbox \in [Server -> SUBSET Message]
  /\ executing \subseteq [call : Call, at : Server]
  /\ toCenter \in [Server -> SUBSET Packet]
  /\ bound \in [Server -> SUBSET Connection]
  /\ stage \in [Call -> {"none", "queued", "waiting", "ended", "dropped"}]
  /\ m_mapRequest \in [Server -> [Number -> Call \cup {None}]]
  /\ wakeups \subseteq Answer
  /\ restarts \in [Server -> Nat] /\ \A s \in Server : restarts[s] <= MaxRestart[s]
  /\ old \subseteq Call
  /\ served \in [Call -> Nat]
  /\ reused \in BOOLEAN

(* Every server has registered on its first connection. *)
Init ==
  /\ conn = [s \in Server |-> "up"]
  /\ gen = [s \in Server |-> 1]
  /\ doomed = [s \in Server |-> FALSE]
  /\ index = [s \in Server |-> 0]
  /\ pc = [c \in Call |-> "idle"]
  /\ num = [c \in Call |-> 0]
  /\ sentOn = [c \in Call |-> 0]
  /\ ret = [c \in Call |-> "none"]
  /\ inbox = [s \in Server |-> {}]
  /\ executing = {}
  /\ toCenter = [s \in Server |-> {}]
  /\ bound = [s \in Server |-> {1}]
  /\ stage = [c \in Call |-> "none"]
  /\ m_mapRequest = [s \in Server |-> [n \in Number |-> None]]
  /\ wakeups = {}
  /\ restarts = [s \in Server |-> 0]
  /\ old = {}
  /\ served = [c \in Call |-> 0]
  /\ reused = FALSE

IsTransmit(s) == conn[s] = "up"

(* The coroutines in m_mapRequest of a link, by their numbers. *)
Open(s) == {c \in Call : From[c] = s /\ pc[c] = "sent"}

(* Something of the call is still on its way, and may come to the ctx of   *)
(* the session of its caller.                                              *)
InFlight(c) ==
  /\ stage[c] # "dropped"
  /\ \/ stage[c] \in {"queued", "waiting"}
     \/ \E s \in Server :
          \/ [call |-> c, at |-> s] \in executing
          \/ \E m \in inbox[s] : m.kind = "transfer" /\ m.call = c
          \/ \E p \in toCenter[s] :
               \/ p.kind = "request" /\ p.call = c
               \/ p.kind = "answer" /\ p.answer.of = c
     \/ \E a \in wakeups : a.of = c

(***************************************************************************)
(* The caller's side of a link.                                            *)
(***************************************************************************)
Finish(who, result) ==
  /\ pc' = [c \in Call |-> IF c \in who THEN "done" ELSE pc[c]]
  /\ ret' = [c \in Call |-> IF c \in who THEN result ELSE ret[c]]

Send(s, packet) == toCenter' = [toCenter EXCEPT ![s] = @ \cup {packet}]

(* Mutated: the number of a request that has ended is taken again. *)
GetNewSessionIDFree(s) == Cardinality(Open(s)) + 1

GetNewSessionID(s) == index[s] + 1

(* Without a connection, or without functions registered for the ctx, the  *)
(* call is refused at once and nothing changes.                            *)
Request(c) ==
  LET s == From[c]  n == GetNewSessionID(s) IN
  /\ pc[c] = "idle"
  /\ IsTransmit(s)
  /\ index' = [index EXCEPT ![s] = n]
  /\ num' = [num EXCEPT ![c] = n]
  /\ sentOn' = [sentOn EXCEPT ![c] = gen[s]]
  /\ pc' = [pc EXCEPT ![c] = "sent"]
  /\ Send(s, [kind |-> "request", call |-> c, on |-> gen[s]])
  /\ reused' = (reused \/ \E d \in old : From[d] = s /\ InFlight(d))
  /\ UNCHANGED <<conn, gen, doomed, ret, inbox, executing, centerVars, restarts, old, served>>

(* Mutated: a session that has ended is closed again, and so is the next. *)
CloseAny(s) == doomed' = [doomed EXCEPT ![s] = TRUE]

Close(s) == doomed' = [doomed EXCEPT ![s] = @ \/ conn[s] # "closed"]

Take(s, m) ==
  /\ m \in inbox[s]
  /\ inbox' = [inbox EXCEPT ![s] = @ \ {m}]

Told(c, answer) ==
  IF answer.of # c THEN "foreign" ELSE IF answer.ok THEN "own" ELSE "error"

(* The coroutine of the number is resumed; without one it is only logged.  *)
ReceiveResponse(s, m) ==
  /\ m.kind = "response"
  /\ Take(s, m)
  /\ LET c == {d \in Open(s) : num[d] = m.num} IN
     /\ pc' = [d \in Call |-> IF d \in c THEN "done" ELSE pc[d]]
     /\ ret' = [d \in Call |-> IF d \in c THEN Told(d, m.answer) ELSE ret[d]]
  /\ UNCHANGED <<linkVars, num, sentOn, executing, toCenter, centerVars, auxVars>>

(* Every request that waits is failed, those of a later connection too.    *)
ReceiveDisconnect(s, m) ==
  /\ m.kind = "disconnect"
  /\ Take(s, m)
  /\ Finish(Open(s), "fail")
  /\ UNCHANGED <<linkVars, num, sentOn, executing, toCenter, centerVars, auxVars>>

(* Mutated: only the requests of the list are looked at, not the map. *)
OnTimerCheckTimeoutList(c) ==
  /\ pc[c] = "sent"
  /\ FALSE
  /\ UNCHANGED vars

(* A request has waited for m_nDefaultTimeoutRequest: the whole connection *)
(* is given up.                                                            *)
OnTimerCheckTimeout(c) ==
  /\ pc[c] = "sent"
  /\ Close(From[c])
  /\ UNCHANGED <<conn, gen, index, callVars, inbox, executing, toCenter, centerVars,
                 auxVars>>

(***************************************************************************)
(* The side of a link that carries calls out.                              *)
(***************************************************************************)
(* The coroutine of the packet goes to the called ctx. *)
ReceiveTransfer(s, m) ==
  /\ m.kind = "transfer"
  /\ Take(s, m)
  /\ executing' = executing \cup {[call |-> m.call, at |-> s]}
  /\ UNCHANGED <<linkVars, callVars, toCenter, centerVars, auxVars>>

(* What follows runs in the called ctx.  The answer is sent on the         *)
(* connection there is now, or lost when there is none.  Errors: nobody is *)
(* registered, the ctx is not there, it said no.                           *)
Exec(e, ok) ==
  LET s == e.at IN
  /\ e \in executing
  /\ executing' = executing \ {e}
  /\ served' = [served EXCEPT ![e.call] = IF ok THEN @ + 1 ELSE @]
  /\ IF IsTransmit(s)
     THEN Send(s, [kind |-> "answer", answer |-> [of |-> e.call, ok |-> ok],
                  on |-> gen[s]])
     ELSE UNCHANGED toCenter
  /\ UNCHANGED <<linkVars, callVars, inbox, centerVars, restarts, old, reused>>

(***************************************************************************)
(* The connection of a link, and the processes.                            *)
(***************************************************************************)
CheckConnect(s) ==
  /\ conn[s] = "closed"
  /\ gen[s] < MaxConn[s]
  /\ conn' = [conn EXCEPT ![s] = "connecting"]
  /\ gen' = [gen EXCEPT ![s] = @ + 1]
  /\ UNCHANGED <<doomed, index, callVars, inbox, executing, toCenter, centerVars, auxVars>>

OnConnect(s) ==
  /\ conn[s] = "connecting"
  /\ conn' = [conn EXCEPT ![s] = "up"]
  /\ Send(s, [kind |-> "register", on |-> gen[s]])
  /\ UNCHANGED <<gen, doomed, index, callVars, inbox, executing, centerVars, auxVars>>

(* A connection ends.  What was sent on it and received may be handled     *)
(* later; what is not handled any more was lost.                           *)
Lose(s) ==
  /\ conn' = [conn EXCEPT ![s] = "closed"]
  /\ doomed' = [doomed EXCEPT ![s] = FALSE]
  /\ toCenter' = [toCenter EXCEPT ![s] = {p \in @ : p.kind # "register"}]

(* The message is only for those who call from s. *)
OnDisconnect(s) ==
  /\ conn[s] = "up"
  /\ Lose(s)
  /\ inbox' = IF \E c \in Call : From[c] = s
              THEN [inbox EXCEPT ![s] = @ \cup {[kind |-> "disconnect", on |-> gen[s]]}]
              ELSE inbox
  /\ UNCHANGED <<gen, index, callVars, executing, centerVars, auxVars>>

ConnectFails(s) ==
  /\ conn[s] = "connecting"
  /\ Lose(s)
  /\ UNCHANGED <<gen, index, callVars, inbox, executing, centerVars, auxVars>>

(* The process ends; another begins with the numbers from the start.       *)
Restart(s) ==
  /\ restarts[s] < MaxRestart[s]
  /\ restarts' = [restarts EXCEPT ![s] = @ + 1]
  /\ Lose(s)
  /\ inbox' = [inbox EXCEPT ![s] = {}]
  /\ index' = [index EXCEPT ![s] = 0]
  /\ executing' = {e \in executing : e.at # s}
  /\ pc' = [c \in Call |-> IF c \in Open(s) THEN "dead" ELSE pc[c]]
  /\ old' = old \cup {c \in Call : From[c] = s /\ pc[c] # "idle"}
  /\ UNCHANGED <<gen, num, sentOn, ret, centerVars, served, reused>>

(***************************************************************************)
(* The center.                                                             *)
(***************************************************************************)
(* The gate has bound the session of the connection to the ctx. *)
IsBound(s) == conn[s] = "up" /\ gen[s] \in bound[s]

Read(s, p) ==
  /\ p \in toCenter[s]
  /\ toCenter' = [toCenter EXCEPT ![s] = @ \ {p}]

(* Register, as CtxGate has it: the ctx of an earlier session is kept. *)
GateRegister(s, p) ==
  /\ p.kind = "register"
  /\ Read(s, p)
  /\ bound' = [bound EXCEPT ![s] = @ \cup {p.on}]
  /\ UNCHANGED <<linkVars, callVars, inbox, executing, stage, m_mapRequest, wakeups,
                 auxVars>>

(* The session has gone and nobody came back: the ctx is released, and     *)
(* with it its map.  Its coroutines are never resumed.                     *)
SessionRelease(s) ==
  /\ bound[s] # {} /\ ~IsBound(s)
  /\ bound' = [bound EXCEPT ![s] = {}]
  /\ m_mapRequest' = [m_mapRequest EXCEPT ![s] = [n \in Number |-> None]]
  /\ stage' = [c \in Call |-> IF From[c] = s /\ stage[c] # "none" THEN "dropped"
                                                                 ELSE stage[c]]
  /\ UNCHANGED <<linkVars, callVars, inbox, executing, toCenter, wakeups, auxVars>>

(* A packet that overtakes the registration costs the connection. *)
OnReceiveUnbound(s, p) ==
  /\ p.kind # "register"
  /\ p.on \notin bound[s]
  /\ Read(s, p)
  /\ IF p.on = gen[s] THEN Close(s) ELSE UNCHANGED doomed
  /\ UNCHANGED <<conn, gen, index, callVars, inbox, executing, centerVars, auxVars>>

(* The coroutine of a request begins in the ctx of the session, and goes   *)
(* to the gate to look the server up.                                      *)
OnReceiveRequest(s, p) ==
  /\ p.kind = "request"
  /\ p.on \in bound[s]
  /\ Read(s, p)
  /\ stage' = [stage EXCEPT ![p.call] = "queued"]
  /\ UNCHANGED <<linkVars, callVars, inbox, executing, bound, m_mapRequest, wakeups,
                 auxVars>>

(* The last line of ReceiveData: the answer goes to the session on which   *)
(* the request came, and is lost when that has ended.                      *)
Respond(c, answer) ==
  LET s == From[c] IN
  inbox' = IF conn[s] = "up" /\ gen[s] = sentOn[c]
           THEN [inbox EXCEPT ![s] = @ \cup {[kind |-> "response", num |-> num[c],
                                              answer |-> answer, on |-> gen[s]]}]
           ELSE inbox

(* Index 0xFF: the call is carried out at the center. *)
ReceiveDataLocal(c, ok) ==
  /\ stage[c] = "queued"
  /\ Center \in To[c]
  /\ stage' = [stage EXCEPT ![c] = "ended"]
  /\ served' = [served EXCEPT ![c] = IF ok THEN @ + 1 ELSE @]
  /\ Respond(c, [of |-> c, ok |-> ok])
  /\ UNCHANGED <<linkVars, callVars, executing, toCenter, bound, m_mapRequest, wakeups,
                 restarts, old, reused>>

(* The gate knows no session of the server. *)
ReceiveDataNoServer(c, s) ==
  /\ stage[c] = "queued"
  /\ s \in To[c] \cap Server
  /\ ~IsBound(s)
  /\ stage' = [stage EXCEPT ![c] = "ended"]
  /\ Respond(c, [of |-> c, ok |-> FALSE])
  /\ UNCHANGED <<linkVars, callVars, executing, toCenter, bound, m_mapRequest, wakeups,
                 auxVars>>

(* CKernelMapRequestMgr puts the coroutine under the number, in the place  *)
(* of another that had it; the request is sent on, and the coroutine       *)
(* waits.                                                                  *)
ReceiveDataTransfer(c, s) ==
  /\ stage[c] = "queued"
  /\ s \in To[c] \cap Server
  /\ IsBound(s)
  /\ stage' = [stage EXCEPT ![c] = "waiting"]
  /\ m_mapRequest' = [m_mapRequest EXCEPT ![From[c]][num[c]] = c]
  /\ inbox' = [inbox EXCEPT ![s] = @ \cup {[kind |-> "transfer", call |-> c,
                                            on |-> gen[s]]}]
  /\ UNCHANGED <<linkVars, callVars, executing, toCenter, bound, wakeups, auxVars>>

(* An answer names the ctx of the session of the caller, and goes there.   *)
OnReceiveAnswer(s, p) ==
  /\ p.kind = "answer"
  /\ p.on \in bound[s]
  /\ Read(s, p)
  /\ wakeups' = wakeups \cup {p.answer}
  /\ UNCHANGED <<linkVars, callVars, inbox, executing, bound, stage, m_mapRequest, auxVars>>

(* Mutated: the entry outlives the coroutine. *)
EndOfCoroutineKept(c) ==
  /\ stage' = [stage EXCEPT ![c] = "ended"]
  /\ UNCHANGED m_mapRequest

(* The coroutine ends, and ~CKernelMapRequestMgr erases the number. *)
EndOfCoroutine(c) ==
  /\ stage' = [stage EXCEPT ![c] = "ended"]
  /\ m_mapRequest' = [m_mapRequest EXCEPT ![From[c]][num[c]] = None]

(* The coroutine that waits for an answer: the one its number leads to, if *)
(* the ctx is there.                                                       *)
WaitsFor(a) ==
  IF stage[a.of] = "dropped" THEN {}
  ELSE {m_mapRequest[From[a.of]][num[a.of]]} \ {None}

Wakeup(a) ==
  /\ a \in wakeups
  /\ wakeups' = wakeups \ {a}
  /\ IF WaitsFor(a) = {}
     THEN UNCHANGED <<stage, m_mapRequest, inbox>>
     ELSE \E c \in WaitsFor(a) : EndOfCoroutine(c) /\ Respond(c, a)
  /\ UNCHANGED <<linkVars, callVars, executing, toCenter, bound, auxVars>>

(* Mutated: an answer that is late is taken for a success. *)
OnTimerOptimistic(s, n) ==
  LET c == m_mapRequest[s][n] IN
  /\ c # None
  /\ EndOfCoroutine(c)
  /\ Respond(c, [of |-> c, ok |-> TRUE])
  /\ UNCHANGED <<linkVars, callVars, executing, toCenter, bound, wakeups, auxVars>>

(* A request has waited for too long.  Only the map is looked at. *)
OnTimer(s, n) ==
  LET c == m_mapRequest[s][n] IN
  /\ c # None
  /\ EndOfCoroutine(c)
  /\ Respond(c, [of |-> c, ok |-> FALSE])
  /\ UNCHANGED <<linkVars, callVars, executing, toCenter, bound, wakeups, auxVars>>

(***************************************************************************)
(* The specification.                                                      *)
(***************************************************************************)
Receive(s) ==
  \E m \in inbox[s] :
    ReceiveResponse(s, m) \/ ReceiveDisconnect(s, m) \/ ReceiveTransfer(s, m)

LinkStep ==
  \/ \E c \in Call : Request(c) \/ OnTimerCheckTimeout(c)
  \/ \E s \in Server : Receive(s) \/ CheckConnect(s)
  \/ \E e \in executing : \E ok \in BOOLEAN : Exec(e, ok)

NetworkStep ==
  \E s \in Server : OnConnect(s) \/ OnDisconnect(s) \/ ConnectFails(s) \/ Restart(s)

CenterStep ==
  \/ \E s \in Server :
       \/ SessionRelease(s)
       \/ \E p \in toCenter[s] :
            \/ GateRegister(s, p) \/ OnReceiveUnbound(s, p)
            \/ OnReceiveRequest(s, p) \/ OnReceiveAnswer(s, p)
       \/ \E n \in Number : OnTimer(s, n)
  \/ \E c \in Call :
       \/ \E ok \in BOOLEAN : ReceiveDataLocal(c, ok)
       \/ \E s \in Server : ReceiveDataNoServer(c, s) \/ ReceiveDataTransfer(c, s)
  \/ \E a \in wakeups : Wakeup(a)

Next == LinkStep \/ NetworkStep \/ CenterStep

Spec == Init /\ [][Next]_vars

(* The link is told of a disconnect (Delivered of CtxScheduler), its timer *)
(* keeps coming, and a closed session reports it.  Nothing is assumed of   *)
(* the center, nor of the other server.                                    *)
Fairness ==
  \A s \in {From[c] : c \in Call} :
    /\ WF_vars(\E m \in inbox[s] : ReceiveDisconnect(s, m))
    /\ WF_vars(\E c \in Open(s) : OnTimerCheckTimeout(c))
    /\ WF_vars(doomed[s] /\ OnDisconnect(s))

FairSpec == Spec /\ Fairness

(***************************************************************************)
(* Properties.                                                             *)
(***************************************************************************)
(* "Ready to wake the coroutine that sent" (interationcenterserversession- *)
(* ctx.cpp:183): nobody is given the answer to another call, as long as no *)
(* process calls while the calls of its predecessor are on their way.      *)
(* Otherwise the numbers meet in the ctx of the session.                   *)
OwnAnswer == ~reused => \A c \in Call : ret[c] # "foreign"

(* Nothing in the map of the center leads to a coroutine that has ended:   *)
(* the timer and the answers that come late resume what they find there    *)
(* (interationcenterserversessionctx.cpp:48 and 189).                      *)
EntriesWait ==
  \A s \in Server : \A n \in Number :
    LET c == m_mapRequest[s][n] IN
    c # None => From[c] = s /\ num[c] = n /\ stage[c] = "waiting"

(* A coroutine that waits at the center can be found, by an answer or by   *)
(* the timer; else it would stay for ever (coroutine_ctx.h:233).           *)
WaitersFound ==
  ~reused => \A c \in Call : stage[c] = "waiting" => m_mapRequest[From[c]][num[c]] = c

(* The map of the center and the coroutines that wait are in step.         *)
MapInStep == EntriesWait /\ WaitersFound

(* The link, the center and the link of the other server together carry a  *)
(* call out at most once, and the caller is told once, of a success only   *)
(* when there was one; but who calls while calls of its predecessor are on *)
(* their way may be given their answer, which it takes for its own.        *)
CallState ==
  [c \in Call |->
    IF pc[c] = "idle" THEN "idle" ELSE IF pc[c] = "sent" THEN "open"
    ELSE IF ret[c] \in {"own", "foreign"} THEN "done" ELSE "failed"]
CallOf == INSTANCE RemoteCall WITH state <- CallState
ServesStep  == CallOf!Next \/ (reused /\ UNCHANGED served)
ServesCalls == CallOf!Init /\ [][ServesStep]_CallOf!vars

(* Every call that was sent ends, with the answer, after its timeout or    *)
(* with the connection (ctx_netclientsevercommu.cpp:79 and 106).  A        *)
(* coroutine has one call, so at some time no call is open any more.       *)
NoneOpen == \A c \in Call : pc[c] # "sent"
CallsEnd == <>[]NoneOpen

=============================================================================
