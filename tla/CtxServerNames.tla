--------------------------- MODULE CtxServerNames ---------------------------
(***************************************************************************)
(* Names of ctxs.  A server tells the center the names of its ctxs, and    *)
(* asks it for names it does not know, through the link                    *)
(* CCoroutineCtx_NetClientServerCommu; the gate of the center keeps them   *)
(* in m_mapNameToCtxID.  The link keeps its own in m_map, to send them     *)
(* again when it has registered on a new connection.  Lookups wait in      *)
(* m_vtRequest, in the order they were sent, without a number: the calls,  *)
(* which have one, are in CtxServerCalls.                                  *)
(*                                                                         *)
(* The center may still read what was sent on a connection after the link  *)
(* has a new one, until it has seen the end of the old session.  The gate  *)
(* and the link may take any of what is in their queues.                   *)
(***************************************************************************)
EXTENDS CtxInbox

CONSTANTS
  Server,
  Center,     \* the owner of the names that the center gives its own ctxs
  Name,
  Lookup,     \* coroutines, each with one GetCtxIDByName
  Asker,      \* [Lookup -> the server that asks]
  Wanted,     \* [Lookup -> the name it asks for]
  MaxConn,    \* bound: connections of a server
  MaxChange,  \* bound: times that a name begins or ceases to be used
  None

VARIABLES
  \* a server
  named,        \* m_mapNameToCtx: names of its ctxs, of the ones for all servers
  ops,          \* coroutines on their way to the link: [op, name]
  m_map,        \* of the link
  m_vtRequest,  \* of the link: [look, on], on the connection it was sent on
  conn,         \* state of m_pClient
  gen,          \* the number of its connection
  doomed,       \* Close(0) was called on it
  inbox,        \* messages of the connections in the queue of the link
  pc,           \* where the coroutine of a lookup is
  ret,          \* what it was told
  \* the center
  session,      \* of a connection
  packets,      \* of a connection, that the gate did not handle yet
  known,        \* m_mapNameToCtxID, the owner of the ctx of a name, or None
  \* auxiliary
  changes,
  overtaken,    \* a lookup, its reply or a disconnect was, by a later one
  disturbed     \* [owner, name] whose news may have got lost or passed each other

serverVars == <<named, ops, m_map>>
lookVars   == <<m_vtRequest, pc, ret>>
netVars    == <<conn, gen, doomed>>
centerVars == <<session, packets, known>>
vars == <<serverVars, lookVars, netVars, inbox, centerVars, changes, overtaken, disturbed>>

Connection == 1..MaxConn

Packet ==
  [kind : {"register"}] \cup [kind : {"create"}, names : SUBSET Name]
    \cup [kind : {"delete"}, name : Name] \cup [kind : {"get"}, look : Lookup]
(* The connection of a reply is auxiliary: nobody looks at it. *)
Message ==
  [kind : {"registered"}, ok : BOOLEAN] \cup [kind : {"error"}]
    \cup [kind : {"reply"}, look : Lookup, on : Connection]
    \cup [kind : {"disconnect"}, on : Connection]

TypeOK ==
  /\ named \in [Server -> SUBSET Name]
  /\ ops \in [Server -> SUBSET [op : {"create", "delete"}, name : Name]]
  /\ m_map \in [Server -> SUBSET Name]
  /\ m_vtRequest \in [Server -> Seq([look : Lookup, on : Connection])]
  /\ conn \in [Server -> {"closed", "connecting", "up"}]
  /\ gen \in [Server -> Connection]
  /\ doomed \in [Server -> BOOLEAN]
  /\ \A s \in Server : doomed[s] => conn[s] # "closed"
  /\ inbox \in [Server -> Seq(Message)]
  /\ pc \in [Lookup -> {"idle", "sent", "done"}]
  /\ ret \in [Lookup -> {"none", "own", "foreign", "fail"}]
  /\ session \in [Server -> [Connection -> {"none", "new", "bound", "refused", "ended"}]]
  /\ packets \in [Server -> [Connection -> Seq(Packet)]]
  /\ known \in [Name -> Server \cup {Center, None}]
  /\ changes \in 0..MaxChange
  /\ overtaken \in BOOLEAN
  /\ disturbed \subseteq (Server \cup {Center}) \X Name

Init ==
  /\ named = [s \in Server |-> {}]
  /\ ops = [s \in Server |-> {}]
  /\ m_map = [s \in Server |-> {}]
  /\ m_vtRequest = [s \in Server |-> <<>>]
  /\ conn = [s \in Server |-> "connecting"]
  /\ gen = [s \in Server |-> 1]
  /\ doomed = [s \in Server |-> FALSE]
  /\ inbox = [s \in Server |-> <<>>]
  /\ pc = [l \in Lookup |-> "idle"]
  /\ ret = [l \in Lookup |-> "none"]
  /\ session = [s \in Server |-> [g \in Connection |-> "none"]]
  /\ packets = [s \in Server |-> [g \in Connection |-> <<>>]]
  /\ known = [n \in Name |-> None]
  /\ changes = 0
  /\ overtaken = FALSE
  /\ disturbed = {}

IsTransmit(s) == conn[s] = "up"

(* A packet on the present connection, if there is one.  The center has no *)
(* use for it when it has refused the server.                              *)
Reaches(s) == IsTransmit(s) /\ session[s][gen[s]] # "refused"

Send(s, packet) ==
  packets' = IF Reaches(s)
             THEN [packets EXCEPT ![s][gen[s]] = Append(@, packet)]
             ELSE packets

ErrorClose(s) == doomed' = [doomed EXCEPT ![s] = @ \/ conn[s] # "closed"]

(***************************************************************************)
(* The names of a server.                                                  *)
(***************************************************************************)
Change == changes < MaxChange /\ changes' = changes + 1

Others(s, n) == {<<o, n>> : o \in (Server \cup {Center}) \ {s}}

(* CCoroutineCtxHandle::Register and UnRegister run in any thread, and     *)
(* start a coroutine for the link; two of them may pass each other.        *)
(* (Bound: not the same one for a name twice at a time.)                   *)
Tell(s, n, op, opposite) ==
  /\ Change
  /\ [op |-> op, name |-> n] \notin ops[s]
  /\ ops' = [ops EXCEPT ![s] = @ \cup {[op |-> op, name |-> n]}]
  /\ disturbed' =
       disturbed \cup (IF [op |-> opposite, name |-> n] \in ops[s] THEN {<<s, n>>} ELSE {})
                 \cup (IF op = "create" THEN Others(s, n) ELSE {})
  /\ UNCHANGED <<m_map, lookVars, netVars, inbox, centerVars, overtaken>>

Register(s, n) ==
  /\ n \notin named[s]
  /\ named' = [named EXCEPT ![s] = @ \cup {n}]
  /\ Tell(s, n, "create", "delete")

UnRegister(s, n) ==
  /\ n \in named[s]
  /\ named' = [named EXCEPT ![s] = @ \ {n}]
  /\ Tell(s, n, "delete", "create")

TakeOp(s, op, n) ==
  /\ [op |-> op, name |-> n] \in ops[s]
  /\ ops' = [ops EXCEPT ![s] = @ \ {[op |-> op, name |-> n]}]

CreateMap(s, n) ==
  /\ TakeOp(s, "create", n)
  /\ m_map' = [m_map EXCEPT ![s] = @ \cup {n}]
  /\ Send(s, [kind |-> "create", names |-> {n}])
  /\ UNCHANGED <<named, lookVars, netVars, inbox, session, known, changes, overtaken,
                 disturbed>>

(* A name that is not there is only logged.  Without a connection nobody   *)
(* is told, then or later.                                                 *)
DelMap(s, n) ==
  /\ TakeOp(s, "delete", n)
  /\ m_map' = [m_map EXCEPT ![s] = @ \ {n}]
  /\ IF n \in m_map[s] THEN Send(s, [kind |-> "delete", name |-> n])
                       ELSE UNCHANGED packets
  /\ disturbed' = disturbed \cup (IF Reaches(s) THEN {} ELSE {<<s, n>>})
  /\ UNCHANGED <<named, lookVars, netVars, inbox, session, known, changes, overtaken>>

(* GetCtxIDByName for a name that is not the server's own.  Without a      *)
(* connection it returns NoNet at once, and nothing changes.               *)
GetMap(l) ==
  LET s == Asker[l] IN
  /\ pc[l] = "idle"
  /\ Wanted[l] \notin named[s]
  /\ IsTransmit(s)
  /\ pc' = [pc EXCEPT ![l] = "sent"]
  /\ m_vtRequest' = [m_vtRequest EXCEPT ![s] = Append(@, [look |-> l, on |-> gen[s]])]
  /\ Send(s, [kind |-> "get", look |-> l])
  /\ UNCHANGED <<serverVars, ret, netVars, inbox, session, known, changes, overtaken,
                 disturbed>>

(***************************************************************************)
(* The messages of the connection, in the link.                            *)
(***************************************************************************)
NextMessage(s, kind, k) ==
  /\ k \in DOMAIN inbox[s]
  /\ inbox[s][k].kind = kind
  /\ inbox' = [inbox EXCEPT ![s] = Without(@, k)]

(* It passes a reply or a disconnect. *)
Passes(s, k) ==
  \E i \in DOMAIN inbox[s] : i < k /\ inbox[s][i].kind \in {"reply", "disconnect"}

(* Mutated: only what is new is sent. *)
SendNamesNot(s) == UNCHANGED packets

(* All names are registered again. *)
SendNames(s) ==
  IF m_map[s] = {} THEN UNCHANGED packets
  ELSE Send(s, [kind |-> "create", names |-> m_map[s]])

ReceiveRegister(s, k) ==
  /\ NextMessage(s, "registered", k)
  /\ IF inbox[s][k].ok
     THEN SendNames(s) /\ UNCHANGED doomed
     ELSE ErrorClose(s) /\ UNCHANGED packets
  /\ UNCHANGED <<serverVars, lookVars, conn, gen, session, known, changes, overtaken,
                 disturbed>>

(* The answer to a creation or a deletion that the center did not accept. *)
ReceiveError(s, k) ==
  /\ NextMessage(s, "error", k)
  /\ ErrorClose(s)
  /\ UNCHANGED <<serverVars, lookVars, conn, gen, centerVars, changes, overtaken, disturbed>>

(* Mutated: the newest lookup gets the reply. *)
FrontDataNewest(queue) == queue[Len(queue)]

FrontData(queue) == Head(queue)

(* Nobody waits for the reply: the connection is given up. *)
ReceiveReplyNoRequest(s, k) ==
  /\ NextMessage(s, "reply", k)
  /\ m_vtRequest[s] = <<>>
  /\ ErrorClose(s)
  /\ overtaken' = (overtaken \/ Passes(s, k))
  /\ UNCHANGED <<serverVars, lookVars, conn, gen, centerVars, changes, disturbed>>

(* The front is resumed, and pops the front when it ends. *)
ReceiveReply(s, k) ==
  /\ NextMessage(s, "reply", k)
  /\ m_vtRequest[s] # <<>>
  /\ LET l == FrontData(m_vtRequest[s]).look IN
     /\ pc' = [pc EXCEPT ![l] = "done"]
     /\ ret' = [ret EXCEPT ![l] = IF inbox[s][k].look = l THEN "own" ELSE "foreign"]
  /\ m_vtRequest' = [m_vtRequest EXCEPT ![s] = Tail(@)]
  /\ overtaken' = (overtaken \/ Passes(s, k))
  /\ UNCHANGED <<serverVars, netVars, centerVars, changes, disturbed>>

(* All lookups that wait are failed, those of a later connection too. *)
ReceiveDisconnect(s, k) ==
  LET waiting == {m_vtRequest[s][i] : i \in DOMAIN m_vtRequest[s]}
      looks   == {e.look : e \in waiting} IN
  /\ NextMessage(s, "disconnect", k)
  /\ overtaken' = (overtaken \/ Passes(s, k) \/ \E e \in waiting : e.on # inbox[s][k].on)
  /\ pc' = [l \in Lookup |-> IF l \in looks THEN "done" ELSE pc[l]]
  /\ ret' = [l \in Lookup |-> IF l \in looks THEN "fail" ELSE ret[l]]
  /\ m_vtRequest' = [m_vtRequest EXCEPT ![s] = <<>>]
  /\ UNCHANGED <<serverVars, netVars, centerVars, changes, disturbed>>

(* The oldest lookup has waited for too long. *)
OnTimerCheckTimeout(s) ==
  /\ m_vtRequest[s] # <<>>
  /\ ErrorClose(s)
  /\ UNCHANGED <<serverVars, lookVars, conn, gen, inbox, centerVars, changes, overtaken,
                 disturbed>>

(***************************************************************************)
(* The connection.                                                         *)
(***************************************************************************)
CheckConnect(s) ==
  /\ conn[s] = "closed"
  /\ gen[s] < MaxConn
  /\ conn' = [conn EXCEPT ![s] = "connecting"]
  /\ gen' = [gen EXCEPT ![s] = @ + 1]
  /\ UNCHANGED <<serverVars, lookVars, doomed, inbox, centerVars, changes, overtaken,
                 disturbed>>

(* The session at the center begins, and Register is sent first. *)
OnConnect(s) ==
  /\ conn[s] = "connecting"
  /\ conn' = [conn EXCEPT ![s] = "up"]
  /\ session' = [session EXCEPT ![s][gen[s]] = "new"]
  /\ packets' = [packets EXCEPT ![s][gen[s]] = <<[kind |-> "register"]>>]
  /\ UNCHANGED <<serverVars, lookVars, gen, doomed, inbox, known, changes, overtaken,
                 disturbed>>

(* Mutated: the ctx is not told. *)
OnDisconnectSilent(s) ==
  /\ conn[s] = "up"
  /\ conn' = [conn EXCEPT ![s] = "closed"]
  /\ doomed' = [doomed EXCEPT ![s] = FALSE]
  /\ UNCHANGED <<serverVars, lookVars, gen, inbox, centerVars, changes, overtaken, disturbed>>

OnDisconnect(s) ==
  /\ conn[s] = "up"
  /\ conn' = [conn EXCEPT ![s] = "closed"]
  /\ doomed' = [doomed EXCEPT ![s] = FALSE]
  /\ inbox' = [inbox EXCEPT ![s] = Append(@, [kind |-> "disconnect", on |-> gen[s]])]
  /\ UNCHANGED <<serverVars, lookVars, gen, centerVars, changes, overtaken, disturbed>>

ConnectFails(s) ==
  /\ conn[s] = "connecting"
  /\ conn' = [conn EXCEPT ![s] = "closed"]
  /\ doomed' = [doomed EXCEPT ![s] = FALSE]
  /\ UNCHANGED <<serverVars, lookVars, gen, inbox, centerVars, changes, overtaken, disturbed>>

(***************************************************************************)
(* The gate of the center.                                                 *)
(***************************************************************************)
Serving(s, g) == session[s][g] \in {"new", "bound"}

NextPacket(s, g, kind, k) ==
  /\ Serving(s, g)
  /\ k \in DOMAIN packets[s][g]
  /\ packets[s][g][k].kind = kind
  /\ packets' = [packets EXCEPT ![s][g] = Without(@, k)]

(* An answer on a session arrives if the link still has the connection. *)
Respond(s, g, message) ==
  inbox' = IF conn[s] = "up" /\ gen[s] = g
           THEN [inbox EXCEPT ![s] = Append(@, message)] ELSE inbox

GateRegister(s, g, k) ==
  /\ NextPacket(s, g, "register", k)
  /\ session' = [session EXCEPT ![s][g] = "bound"]
  /\ Respond(s, g, [kind |-> "registered", ok |-> TRUE])
  /\ UNCHANGED <<serverVars, lookVars, netVars, known, changes, overtaken, disturbed>>

(* The names whose end the center will not hear of. *)
Unread(s, g) ==
  {<<s, n>> : n \in {m \in Name : \E i \in DOMAIN packets[s][g] :
                       packets[s][g][i] = [kind |-> "delete", name |-> m]}}

(* For the reasons CtxGate has.  The gate closes the session, and what     *)
(* else came on it has no effect.                                          *)
GateRegisterRefused(s, g, k) ==
  /\ Serving(s, g)
  /\ k \in DOMAIN packets[s][g] /\ packets[s][g][k].kind = "register"
  /\ packets' = [packets EXCEPT ![s][g] = <<>>]
  /\ session' = [session EXCEPT ![s][g] = "refused"]
  /\ Respond(s, g, [kind |-> "registered", ok |-> FALSE])
  /\ doomed' = [doomed EXCEPT ![s] = @ \/ (conn[s] = "up" /\ gen[s] = g)]
  /\ disturbed' = disturbed \cup Unread(s, g)
  /\ UNCHANGED <<serverVars, lookVars, conn, gen, known, changes, overtaken>>

(* A newer connection of the server has registered already. *)
Superseded(s, g) == \E h \in Connection : h > g /\ session[s][h] \notin {"none", "new"}

IsCreate(p, n) == p.kind = "create" /\ n \in p.names
IsDelete(p, n) == p.kind = "delete" /\ p.name = n

(* The owner of a name is not asked.  Nobody looks at the answer. *)
GateCreate(s, g, k) ==
  LET names  == packets[s][g][k].names
      passed == {n \in names : \E i \in 1 .. k - 1 : IsDelete(packets[s][g][i], n)} IN
  /\ session[s][g] = "bound"
  /\ NextPacket(s, g, "create", k)
  /\ known' = [n \in Name |-> IF n \in names THEN s ELSE known[n]]
  /\ disturbed' = disturbed \cup {s} \X (IF Superseded(s, g) THEN names ELSE passed)
  /\ UNCHANGED <<serverVars, lookVars, netVars, inbox, session, changes, overtaken>>

GateDelete(s, g, k) ==
  LET n == packets[s][g][k].name IN
  /\ session[s][g] = "bound"
  /\ NextPacket(s, g, "delete", k)
  /\ known' = [known EXCEPT ![n] = None]
  /\ disturbed' =
       disturbed \cup (IF \/ Superseded(s, g)
                         \/ \E i \in 1 .. k - 1 : IsCreate(packets[s][g][i], n)
                      THEN {<<s, n>>} ELSE {})
  /\ UNCHANGED <<serverVars, lookVars, netVars, inbox, session, changes, overtaken>>

(* It was taken before the registration: Global_NoRegister. *)
GateNoRegister(s, g, k) ==
  /\ session[s][g] = "new"
  /\ \E kind \in {"create", "delete"} : NextPacket(s, g, kind, k)
  /\ Respond(s, g, [kind |-> "error"])
  /\ disturbed' =
       disturbed \cup {<<s, n>> : n \in {m \in Name : IsDelete(packets[s][g][k], m)}}
  /\ UNCHANGED <<serverVars, lookVars, netVars, session, known, changes, overtaken>>

(* Registered or not, known or not, there is a reply. *)
GateGetCtxIDByName(s, g, k) ==
  /\ NextPacket(s, g, "get", k)
  /\ Respond(s, g, [kind |-> "reply", look |-> packets[s][g][k].look, on |-> g])
  /\ overtaken' = (overtaken \/ \E i \in 1 .. k - 1 : packets[s][g][i].kind = "get")
  /\ UNCHANGED <<serverVars, lookVars, netVars, session, known, changes, disturbed>>

(* The center has seen the end of the session: what is left finds no ctx   *)
(* id, or was not received.  Nobody forgets the names of the server.       *)
SessionEnds(s, g) ==
  /\ session[s][g] \notin {"none", "ended"}
  /\ ~(conn[s] = "up" /\ gen[s] = g)
  /\ session' = [session EXCEPT ![s][g] = "ended"]
  /\ packets' = [packets EXCEPT ![s][g] = <<>>]
  /\ disturbed' = disturbed \cup Unread(s, g)
  /\ UNCHANGED <<serverVars, lookVars, netVars, inbox, known, changes, overtaken>>

(* Names of ctxs of the center itself. *)
SelfCtxRegister(n) ==
  /\ Change
  /\ known' = [known EXCEPT ![n] = Center]
  /\ disturbed' = disturbed \cup Others(Center, n)
  /\ UNCHANGED <<serverVars, lookVars, netVars, inbox, session, packets, overtaken>>

SelfCtxDelete(n) ==
  /\ Change
  /\ known[n] # None
  /\ known' = [known EXCEPT ![n] = None]
  /\ disturbed' = disturbed \cup Others(Center, n)
  /\ UNCHANGED <<serverVars, lookVars, netVars, inbox, session, packets, overtaken>>

(***************************************************************************)
(* The specification.                                                      *)
(***************************************************************************)
CtxMessage(s) ==
  \E k \in DOMAIN inbox[s] :
    \/ ReceiveRegister(s, k) \/ ReceiveError(s, k)
    \/ ReceiveReplyNoRequest(s, k) \/ ReceiveReply(s, k) \/ ReceiveDisconnect(s, k)

ServerStep ==
  \/ \E s \in Server, n \in Name :
       Register(s, n) \/ UnRegister(s, n) \/ CreateMap(s, n) \/ DelMap(s, n)
  \/ \E l \in Lookup : GetMap(l)
  \/ \E s \in Server :
       \/ CtxMessage(s) \/ OnTimerCheckTimeout(s)
       \/ CheckConnect(s) \/ OnConnect(s) \/ OnDisconnect(s) \/ ConnectFails(s)

CenterStep ==
  \/ \E s \in Server, g \in Connection :
       \/ \E k \in DOMAIN packets[s][g] :
            \/ GateRegister(s, g, k) \/ GateRegisterRefused(s, g, k)
            \/ GateNoRegister(s, g, k) \/ GateCreate(s, g, k) \/ GateDelete(s, g, k)
            \/ GateGetCtxIDByName(s, g, k)
       \/ SessionEnds(s, g)
  \/ \E n \in Name : SelfCtxRegister(n) \/ SelfCtxDelete(n)

Next == ServerStep \/ CenterStep

Spec == Init /\ [][Next]_vars

(* The link handles its messages, its timer keeps coming, and a session    *)
(* that was closed reports it.  Nothing is assumed of the center.          *)
Fairness ==
  \A s \in Server :
    /\ WF_vars(CtxMessage(s))
    /\ WF_vars(OnTimerCheckTimeout(s))
    /\ WF_vars(doomed[s] /\ OnDisconnect(s))

FairSpec == Spec /\ Fairness

(***************************************************************************)
(* Properties.                                                             *)
(***************************************************************************)
(* Nothing of the server is on its way, and it has registered. *)
Quiet(s) ==
  /\ ops[s] = {} /\ inbox[s] = <<>>
  /\ conn[s] = "up" /\ session[s][gen[s]] = "bound"
  /\ \A g \in Connection : packets[s][g] = <<>>

(* "Send all the registrations again" (ctx_netclientsevercommu.cpp:161):   *)
(* whatever happened to the connections, when nothing is on its way the    *)
(* center knows exactly the names the server has, but for those that were  *)
(* disturbed.                                                              *)
NamesInStep ==
  \A s \in Server : Quiet(s) =>
    \A n \in Name : <<s, n>> \in disturbed \/ (n \in named[s] <=> known[n] = s)

(* The reply at the front is for the lookup at the front                   *)
(* (ctx_netclientsevercommu.cpp:195), as long as no lookup, no reply and   *)
(* no disconnect is overtaken: by a later one of them in the queue of the  *)
(* gate or of the link, or the disconnect by lookups of a later connection.*)
LookupInStep == ~overtaken => \A l \in Lookup : ret[l] # "foreign"

(* No lookup waits for ever.  Each is made once, so at some time none is   *)
(* under way any more.                                                     *)
NoneSent   == \A l \in Lookup : pc[l] # "sent"
LookupsEnd == <>[]NoneSent

=============================================================================
