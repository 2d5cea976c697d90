------------------------------ MODULE CtxGate ------------------------------
(***************************************************************************)
(* The gate of the center: CCoroutineCtx_CCFrameServerGate (ctx_gate.cpp)  *)
(* and what CCoroutineCtx_GateInteration adds to it.  A server connects, a *)
(* session, and registers under an index, the key.  The gate gives each    *)
(* key a ctx of its own, keeps it when the server comes back with another  *)
(* session, and releases it after the session has gone.                    *)
(*                                                                         *)
(* A handler of the gate that calls Ctx_ExeCoroutine goes on in the ctx of *)
(* the session, not in the gate (Ctx_ExeCoroutine returns before its       *)
(* yield back): what follows the call is an action of its own, ...Tail,    *)
(* and may fall between any two steps of the gate.  The network thread of  *)
(* a session is a third party.                                             *)
(*                                                                         *)
(* A ctx takes the messages that wait for it in any order, as in           *)
(* CtxScheduler.  Handles of ctxs are not used twice here.                 *)
(***************************************************************************)
EXTENDS Naturals

CONSTANTS
  Session,   \* connections, each of which lives once
  Key,       \* values of m_cIndex
  Reserved,  \* the keys 0 and 0xFF
  Name,      \* values of m_strKeyName
  Ctx,       \* the ctxs of sessions the gate may create
  None

Server == [key : Key, name : Name]
Entry  == [ctx : Ctx, session : Session]

ASSUME GateAssumption ==
  /\ Reserved \subseteq Key
  /\ None \notin Ctx \cup Server \cup Entry

VARIABLES
  \* the sessions
  net,         \* whether the connection is there
  peer,        \* [key, name] of the server at the other end
  asked,       \* it has sent its Register
  ctxID,       \* m_ctxID of a session
  answers,     \* RegisterResponses that were sent on it
  \* the ctxs
  gateMsgs,    \* coroutines on their way to the gate
  ctxMsgs,     \* coroutines on their way to the ctx of a session
  life,        \* of the ctx of a session
  erasing,     \* the ctx has called ReleaseObjectCtxByCtxID, erase(iter) comes next
  \* the gate
  byKey,       \* m_mapKeyToCtxID, the ctx and the session of a key
  global,      \* m_mapGlobalKeyToSelfCtxID, ctx, session and name of a key
  delayQueue,  \* m_vtQueue; a key twice is the same as once
  delayed,     \* m_nDelayDeleteTime # 0, from the configuration
  \* auxiliary
  early,       \* a server came before the gate had done with its last session
  crashed      \* an iterator was used after its entry was erased

netVars  == <<net, peer, asked, ctxID>>
ctxVars  == <<ctxMsgs, life, erasing>>
gateVars == <<byKey, global, delayQueue, delayed>>
vars == <<netVars, answers, gateMsgs, ctxVars, gateVars, early, crashed>>

TypeOK ==
  /\ net \in [Session -> {"none", "open", "closing", "closed"}]
  /\ peer \in [Session -> Server \cup {None}]
  /\ asked \in [Session -> BOOLEAN]
  /\ ctxID \in [Session -> Ctx \cup {None}]
  /\ answers \in [Session -> 0..2]
  /\ gateMsgs \subseteq {"register", "release"} \X Session
  /\ ctxMsgs \in [Ctx -> SUBSET ({"init", "release", "data"} \X Session)]
  /\ life \in [Ctx -> {"none", "live", "released", "gone"}]
  /\ erasing \in [Ctx -> BOOLEAN]
  /\ byKey \in [Key -> Entry \cup {None}]
  /\ global \in [Key -> [ctx : Ctx \cup {None}, session : Session, name : Name]
                        \cup {None}]
  /\ delayQueue \subseteq Key
  /\ delayed \in BOOLEAN
  /\ early \in BOOLEAN
  /\ crashed \in BOOLEAN

Init ==
  /\ net = [s \in Session |-> "none"]
  /\ peer = [s \in Session |-> None]
  /\ asked = [s \in Session |-> FALSE]
  /\ ctxID = [s \in Session |-> None]
  /\ answers = [s \in Session |-> 0]
  /\ gateMsgs = {}
  /\ ctxMsgs = [c \in Ctx |-> {}]
  /\ life = [c \in Ctx |-> "none"]
  /\ erasing = [c \in Ctx |-> FALSE]
  /\ byKey = [k \in Key |-> None]
  /\ global = [k \in Key |-> None]
  /\ delayQueue = {}
  /\ delayed \in BOOLEAN
  /\ early = FALSE
  /\ crashed = FALSE

(* The key has an entry, of this ctx. *)
Leads(k, c) == byKey[k] # None /\ byKey[k].ctx = c

(***************************************************************************)
(* The network threads.                                                    *)
(***************************************************************************)
HasPeer(s, k) == peer[s] # None /\ peer[s].key = k

(* Nothing of an earlier session of the key is left to be done. *)
Settled(k) ==
  /\ k \notin delayQueue
  /\ \A s \in Session : HasPeer(s, k) =>
       /\ net[s] = "closed"
       /\ \A op \in {"register", "release"} : <<op, s>> \notin gateMsgs
       /\ \A c \in Ctx : ~erasing[c] /\ \A op \in {"init", "release", "data"} :
                                          <<op, s>> \notin ctxMsgs[c]

Connect(s, p) ==
  /\ net[s] = "none"
  /\ net' = [net EXCEPT ![s] = "open"]
  /\ peer' = [peer EXCEPT ![s] = p]
  /\ early' = (early \/ ~Settled(p.key))
  /\ UNCHANGED <<asked, ctxID, answers, gateMsgs, ctxVars, gateVars, crashed>>

(* A method of the center becomes a coroutine for the gate.  The server    *)
(* sends Register once, when it has connected.                             *)
ReceiveRegister(s) ==
  /\ net[s] = "open"
  /\ ~asked[s]
  /\ asked' = [asked EXCEPT ![s] = TRUE]
  /\ gateMsgs' = gateMsgs \cup {<<"register", s>>}
  /\ UNCHANGED <<net, peer, ctxID, answers, ctxVars, gateVars, early, crashed>>

(* PushMessageByID finds the ctx as long as it is in the registry. *)
Accepts(c) == life[c] \in {"live", "released"}

Push(c, m) == ctxMsgs' = [ctxMsgs EXCEPT ![c] = @ \cup {m}]

(* Any other method goes to the ctx the session is bound to, and is lost   *)
(* when that has left the registry.  A session without ctx is closed.      *)
ReceiveData(s) ==
  /\ net[s] = "open"
  /\ \/ /\ ctxID[s] # None
        /\ IF Accepts(ctxID[s]) THEN Push(ctxID[s], <<"data", s>>)
                                ELSE UNCHANGED ctxMsgs
        /\ UNCHANGED net
     \/ /\ ctxID[s] = None
        /\ net' = [net EXCEPT ![s] = "closing"]
        /\ UNCHANGED ctxMsgs
  /\ UNCHANGED <<peer, asked, ctxID, answers, gateMsgs, life, erasing, gateVars, early,
                 crashed>>

(* The gate is told only if the session is bound at this moment. *)
OnDisconnect(s) ==
  /\ net[s] \in {"open", "closing"}
  /\ net' = [net EXCEPT ![s] = "closed"]
  /\ ctxID' = [ctxID EXCEPT ![s] = None]
  /\ gateMsgs' = IF ctxID[s] = None THEN gateMsgs
                 ELSE gateMsgs \cup {<<"release", s>>}
  /\ UNCHANGED <<peer, asked, answers, ctxVars, gateVars, early, crashed>>

(***************************************************************************)
(* The handlers of the gate.                                               *)
(***************************************************************************)
TakenByOther(s) ==
  LET k == peer[s].key IN global[k] # None /\ global[k].name # peer[s].name

Refused(s) == peer[s].key \in Reserved \/ TakenByOther(s)

(* pSession->Close() asks for the end of the connection. *)
Closing(s) == [net EXCEPT ![s] = IF @ = "open" THEN "closing" ELSE @]

(* Mutated: the coroutine of a refused Register is dispatched again. *)
RegisterRefusedAgain(s) ==
  /\ <<"register", s>> \in gateMsgs
  /\ Refused(s)
  /\ answers' = [answers EXCEPT ![s] = @ + 1]
  /\ net' = Closing(s)
  /\ UNCHANGED <<peer, asked, ctxID, gateMsgs, ctxVars, gateVars, early, crashed>>

RegisterRefused(s) ==
  /\ <<"register", s>> \in gateMsgs
  /\ Refused(s)
  /\ gateMsgs' = gateMsgs \ {<<"register", s>>}
  /\ answers' = [answers EXCEPT ![s] = @ + 1]
  /\ net' = Closing(s)
  /\ UNCHANGED <<peer, asked, ctxID, ctxVars, gateVars, early, crashed>>

(* The ctx of the key, or a new one. *)
CtxFor(k) ==
  IF byKey[k] = None THEN {c \in Ctx : life[c] = "none"} ELSE {byKey[k].ctx}

(* Create binds the session, answers, and goes to the ctx for its Init.    *)
(* When the ctx is not found there is a second answer, and Close.          *)
Create(s, c) ==
  LET new == life[c] = "none"
      found == new \/ Accepts(c)
  IN /\ life' = [life EXCEPT ![c] = IF new THEN "live" ELSE @]
     /\ ctxID' = [ctxID EXCEPT ![s] = c]
     /\ byKey' = [byKey EXCEPT ![peer[s].key] = [ctx |-> c, session |-> s]]
     /\ answers' = [answers EXCEPT ![s] = @ + (IF found THEN 1 ELSE 2)]
     /\ net' = IF found THEN net ELSE Closing(s)
     /\ IF found THEN Push(c, <<"init", s>>) ELSE UNCHANGED ctxMsgs

Register(s) ==
  /\ <<"register", s>> \in gateMsgs
  /\ ~Refused(s)
  /\ gateMsgs' = gateMsgs \ {<<"register", s>>}
  /\ \E c \in CtxFor(peer[s].key) : Create(s, c)
  /\ UNCHANGED <<peer, asked, erasing, global, delayQueue, delayed, early, crashed>>

(* GateInteration forgets the key, whose session it is not asked; the base *)
(* goes to the ctx only when the key is still of this session.             *)
SessionRelease(s) ==
  LET k == peer[s].key
      mine == byKey[k] # None /\ byKey[k].session = s
  IN /\ <<"release", s>> \in gateMsgs
     /\ gateMsgs' = gateMsgs \ {<<"release", s>>}
     /\ global' = [global EXCEPT ![k] = None]
     /\ IF global[k] # None /\ mine /\ Accepts(byKey[k].ctx)
        THEN Push(byKey[k].ctx, <<"release", s>>)
        ELSE UNCHANGED ctxMsgs
     /\ UNCHANGED <<netVars, answers, life, erasing, byKey, delayQueue, delayed, early,
                    crashed>>

(* ReleaseObjectCtxByCtxID does nothing to a ctx that has left. *)
Released(c) == IF life[c] = "live" THEN "released" ELSE life[c]

(* Mutated: the timer releases the ctx and keeps the entry. *)
OnTimerKeep ==
  LET due == {k \in delayQueue : byKey[k] # None} IN
  /\ delayQueue # {}
  /\ delayQueue' = {}
  /\ life' = [c \in Ctx |-> IF \E k \in due : Leads(k, c)
                            THEN Released(c) ELSE life[c]]
  /\ UNCHANGED <<netVars, answers, gateMsgs, ctxMsgs, erasing, byKey, global, delayed,
                 early, crashed>>

(* The release time of an entry is never set, and IsHaveReleaseTime asks   *)
(* whether it is 0: the timer takes every key of the queue at once.        *)
OnTimer ==
  LET due == {k \in delayQueue : byKey[k] # None} IN
  /\ delayQueue # {}
  /\ delayQueue' = {}
  /\ life' = [c \in Ctx |-> IF \E k \in due : Leads(k, c)
                            THEN Released(c) ELSE life[c]]
  /\ byKey' = [k \in Key |-> IF k \in due THEN None ELSE byKey[k]]
  /\ UNCHANGED <<netVars, answers, gateMsgs, ctxMsgs, erasing, global, delayed, early,
                 crashed>>

(***************************************************************************)
(* The ctx of a session.                                                   *)
(***************************************************************************)
(* A worker takes a message; m_bRelease is asked once in a turn, so the    *)
(* messages of a released ctx may still be handled.                        *)
Take(c, m) ==
  /\ m \in ctxMsgs[c]
  /\ Accepts(c)
  /\ ~erasing[c]
  /\ ctxMsgs' = [ctxMsgs EXCEPT ![c] = @ \ {m}]

(* Mutated: the key is published only when it is not there yet. *)
RegisterTailOnce(c, s) ==
  /\ Take(c, <<"init", s>>)
  /\ LET k == peer[s].key IN
     global' = IF global[k] # None THEN global
               ELSE [global EXCEPT ![k] = [ctx |-> ctxID[s], session |-> s,
                                           name |-> peer[s].name]]
  /\ UNCHANGED <<netVars, answers, gateMsgs, life, erasing, byKey, delayQueue, delayed,
                 early, crashed>>

(* After Init the key is published with what the session is bound to now.  *)
RegisterTail(c, s) ==
  /\ Take(c, <<"init", s>>)
  /\ global' = [global EXCEPT ![peer[s].key] =
                  [ctx |-> ctxID[s], session |-> s, name |-> peer[s].name]]
  /\ UNCHANGED <<netVars, answers, gateMsgs, life, erasing, byKey, delayQueue, delayed,
                 early, crashed>>

ReleaseTail(c, s) ==
  /\ Take(c, <<"release", s>>)
  /\ IF delayed
     THEN /\ delayQueue' = delayQueue \cup {peer[s].key}
          /\ UNCHANGED <<life, erasing>>
     ELSE /\ life' = [life EXCEPT ![c] = Released(c)]
          /\ erasing' = [erasing EXCEPT ![c] = TRUE]
          /\ UNCHANGED delayQueue
  /\ UNCHANGED <<netVars, answers, gateMsgs, byKey, global, delayed, early, crashed>>

(* erase(iter), with the iterator that was found before the call: it is of *)
(* the entry that led to c, whichever session that has meanwhile.          *)
EraseEntry(c) ==
  /\ erasing[c]
  /\ \E k \in Key :
       /\ Leads(k, c)
       /\ byKey' = [byKey EXCEPT ![k] = None]
  /\ erasing' = [erasing EXCEPT ![c] = FALSE]
  /\ UNCHANGED <<netVars, answers, gateMsgs, ctxMsgs, life, global, delayQueue, delayed,
                 early, crashed>>

(* The entry is gone: undefined behaviour, and the end of this model. *)
EraseTwice(c) ==
  /\ erasing[c]
  /\ ~\E k \in Key : Leads(k, c)
  /\ crashed' = TRUE
  /\ UNCHANGED <<netVars, answers, gateMsgs, ctxVars, gateVars, early>>

HandleData(c, s) ==
  /\ Take(c, <<"data", s>>)
  /\ UNCHANGED <<netVars, answers, gateMsgs, life, erasing, gateVars, early, crashed>>

(* Mutated: the ctx leaves the registry inside ReleaseObjectCtxByCtxID. *)
UnRegisterAtOnce(c) ==
  /\ life[c] = "released"
  /\ life' = [life EXCEPT ![c] = "gone"]
  /\ ctxMsgs' = [ctxMsgs EXCEPT ![c] = {}]
  /\ UNCHANGED <<netVars, answers, gateMsgs, erasing, gateVars, early, crashed>>

(* The worker finds the ctx released, drops what is left with the          *)
(* coroutines in it, and takes the ctx out of the registry.                *)
UnRegister(c) ==
  /\ life[c] = "released"
  /\ ~erasing[c]
  /\ life' = [life EXCEPT ![c] = "gone"]
  /\ ctxMsgs' = [ctxMsgs EXCEPT ![c] = {}]
  /\ UNCHANGED <<netVars, answers, gateMsgs, erasing, gateVars, early, crashed>>

NetworkStep ==
  \E s \in Session :
    \/ \E p \in Server : Connect(s, p)
    \/ ReceiveRegister(s) \/ ReceiveData(s) \/ OnDisconnect(s)

GateStep ==
  \/ OnTimer
  \/ \E s \in Session : RegisterRefused(s) \/ Register(s) \/ SessionRelease(s)

CtxStep ==
  \E c \in Ctx :
    \/ EraseEntry(c) \/ EraseTwice(c) \/ UnRegister(c)
    \/ \E s \in Session : RegisterTail(c, s) \/ ReleaseTail(c, s) \/ HandleData(c, s)

Next == ~crashed /\ (NetworkStep \/ GateStep \/ CtxStep)

Spec == Init /\ [][Next]_vars

(***************************************************************************)
(* Properties.                                                             *)
(***************************************************************************)
(* The map of the gate and the registry are in step, whatever the gate and *)
(* the ctxs of sessions do to them from different threads: the ctx of a    *)
(* key is in the registry and not released, but for the moment between the *)
(* release and the erase, and a ctx that is not released has a key.        *)
CtxInStep ==
  /\ \A k \in Key : byKey[k] # None =>
       LET c == byKey[k].ctx IN life[c] = "live" \/ (life[c] = "released" /\ erasing[c])
  /\ \A c \in Ctx : life[c] = "live" => \E k \in Key : Leads(k, c)

(* A Register is answered once: the answer sent before Init is never       *)
(* followed by that of a failure, because the ctx is always found          *)
(* (ctx_gateinteration.cpp:125).                                           *)
AnsweredOnce ==
  \A s \in Session :
    answers[s] = IF asked[s] /\ <<"register", s>> \notin gateMsgs THEN 1 ELSE 0

Pending(s) ==
  \/ <<"register", s>> \in gateMsgs
  \/ \E c \in Ctx : <<"init", s>> \in ctxMsgs[c]

(* As long as no server came before the gate had done with its previous    *)
(* session, a server that has registered and is connected is found under   *)
(* its key, with its own session and a ctx that is not released.           *)
Reachable ==
  early \/ \A s \in Session :
    net[s] = "open" /\ ctxID[s] # None /\ ~Pending(s) =>
      LET k == peer[s].key IN
      /\ global[k] = [ctx |-> ctxID[s], session |-> s, name |-> peer[s].name]
      /\ byKey[k] = [ctx |-> ctxID[s], session |-> s]
      /\ life[ctxID[s]] = "live"

(* The inductive invariant of CtxGateProofs: keys have ctxs of their own,  *)
(* a ctx whose entry is about to be erased was released, and a session     *)
(* that has not connected has done nothing.                                *)
KeysApart == \A k, l \in Key : \A c \in Ctx : Leads(k, c) /\ Leads(l, c) => k = l

ErasingReleased == \A c \in Ctx : erasing[c] => life[c] = "released"

Known ==
  /\ \A s \in Session :
       /\ net[s] # "none" <=> peer[s] # None
       /\ asked[s] => net[s] # "none"
       /\ <<"register", s>> \in gateMsgs => asked[s]
       /\ <<"release", s>> \in gateMsgs => net[s] # "none"
       /\ ctxID[s] # None => net[s] # "none"
  /\ \A c \in Ctx : \A m \in ctxMsgs[c] : net[m[2]] # "none"

(* Who is bound has registered; who was released has gone, and will not    *)
(* register any more.                                                      *)
Leaves(s) == <<"release", s>> \in gateMsgs \/ \E c \in Ctx : <<"release", s>> \in ctxMsgs[c]

BoundOnce ==
  \A s \in Session :
    /\ ctxID[s] # None => asked[s] /\ <<"register", s>> \notin gateMsgs
    /\ Leaves(s) => net[s] = "closed" /\ asked[s] /\ <<"register", s>> \notin gateMsgs

(* A ctx is of one key as long as it is not released, so what comes to it  *)
(* is of that key, and an entry is of a session of its key.                *)
OfItsKey ==
  /\ \A c \in Ctx : \A s \in Session :
       (\E op \in {"init", "release"} : <<op, s>> \in ctxMsgs[c]) =>
         life[c] # "none" /\ (life[c] = "live" => Leads(peer[s].key, c))
  /\ \A k \in Key : byKey[k] # None => HasPeer(byKey[k].session, k)

(* Something of the session is left to be done. *)
Active(s) ==
  \/ net[s] \in {"open", "closing"}
  \/ \E op \in {"register", "release"} : <<op, s>> \in gateMsgs
  \/ \E c \in Ctx : \E op \in {"init", "release", "data"} : <<op, s>> \in ctxMsgs[c]

(* When no server came early, a key has one session that is active; until  *)
(* that is released nothing is left of those before, and when it is bound  *)
(* the key is its own.                                                     *)
OneActive ==
  \A s, t \in Session :
    Active(s) /\ Active(t) /\ peer[s].key = peer[t].key => s = t

Staying(s) == net[s] \in {"open", "closing"} \/ <<"register", s>> \in gateMsgs

NothingLeft ==
  \A s \in Session : Staying(s) =>
    /\ peer[s].key \notin delayQueue
    /\ \A c \in Ctx : Leads(peer[s].key, c) => life[c] = "live"

KeyIsOwn ==
  \A s \in Session :
    net[s] = "open" /\ ctxID[s] # None =>
      LET k == peer[s].key IN
      /\ byKey[k] = [ctx |-> ctxID[s], session |-> s]
      /\ \/ <<"init", s>> \in ctxMsgs[ctxID[s]]
         \/ global[k] = [ctx |-> ctxID[s], session |-> s, name |-> peer[s].name]

IInv ==
  /\ TypeOK /\ CtxInStep /\ AnsweredOnce /\ KeysApart /\ ErasingReleased /\ Known
  /\ BoundOnce /\ OfItsKey
  /\ ~early => OneActive /\ NothingLeft /\ KeyIsOwn

(* "If it no longer belongs to this session, do not destruct"              *)
(* (ctx_gate.cpp:154): the ctx of a connected session is not released.     *)
BoundIsLive ==
  \A s \in Session : net[s] # "closed" /\ ctxID[s] # None => life[ctxID[s]] = "live"

=============================================================================
