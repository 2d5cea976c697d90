--------------------------- MODULE CtxGateProofs ---------------------------
(***************************************************************************)
(* Proofs about CtxGate for every set of sessions, keys, names and ctxs,   *)
(* and for deletion with and without delay.  IInv is shown inductive       *)
(* conjunct by conjunct, one step per action.                              *)
(***************************************************************************)
EXTENDS CtxGate, TLAPS

(* None is no ctx, no server and no entry of the map. *)
LEMMA NoneFacts == None \notin Ctx /\ None \notin Server /\ None \notin Entry
BY GateAssumption

(* Sessions that have connected know the server at the other end. *)
LEMMA PeerKnown ==
  ASSUME TypeOK, Known, NEW s \in Session, net[s] # "none"
  PROVE  peer[s] \in Server /\ peer[s].key \in Key /\ peer[s].name \in Name
BY NoneFacts DEF TypeOK, Known, Server

(* Whoever has a coroutine under way has connected. *)
LEMMA PendingKnown ==
  ASSUME TypeOK, Known, NEW s \in Session
  PROVE  /\ <<"register", s>> \in gateMsgs => net[s] # "none"
         /\ <<"release", s>> \in gateMsgs => net[s] # "none"
         /\ \A c \in Ctx, op \in {"init", "release", "data"} :
              <<op, s>> \in ctxMsgs[c] => net[s] # "none"
BY DEF Known

(* The ctx a key leads to is a ctx. *)
LEMMA EntryFacts ==
  ASSUME TypeOK, NEW k \in Key, byKey[k] # None
  PROVE  byKey[k] \in Entry /\ byKey[k].ctx \in Ctx /\ byKey[k].session \in Session
BY DEF TypeOK, Entry

(* The ctx for a Register is a new one, or that of the key.                *)
LEMMA CtxForFacts ==
  ASSUME TypeOK, CtxInStep, NEW k \in Key, NEW c \in CtxFor(k)
  PROVE  /\ c \in Ctx
         /\ \/ byKey[k] = None /\ life[c] = "none"
            \/ Leads(k, c) /\ life[c] \in {"live", "released"}
BY EntryFacts DEF CtxFor, CtxInStep, Leads

(* A ctx with a key is in the registry: PushMessageByID finds it. *)
LEMMA CtxIsFound ==
  ASSUME TypeOK, CtxInStep, NEW k \in Key, NEW c \in CtxFor(k)
  PROVE  life[c] = "none" \/ Accepts(c)
BY CtxForFacts DEF Accepts

(***************************************************************************)
(* The types.                                                              *)
(***************************************************************************)
(* Every step keeps the types. *)
LEMMA TypeStep == IInv /\ [Next]_vars => TypeOK'
<1> SUFFICES ASSUME TypeOK, CtxInStep, AnsweredOnce, Known, [Next]_vars
             PROVE  TypeOK'
  BY DEF IInv
<1>1. ASSUME NEW s \in Session, NEW p \in Server, Connect(s, p)
      PROVE  TypeOK'
  BY <1>1 DEF TypeOK, Connect, ctxVars, gateVars
<1>2. ASSUME NEW s \in Session, ReceiveRegister(s)
      PROVE  TypeOK'
  BY <1>2 DEF TypeOK, ReceiveRegister, ctxVars, gateVars
<1>3. ASSUME NEW s \in Session, ReceiveData(s)
      PROVE  TypeOK'
  <2>1. ctxMsgs' \in [Ctx -> SUBSET ({"init", "release", "data"} \X Session)]
    BY <1>3 DEF TypeOK, ReceiveData, Push
  <2> QED
    BY <1>3, <2>1 DEF TypeOK, ReceiveData, gateVars
<1>4. ASSUME NEW s \in Session, OnDisconnect(s)
      PROVE  TypeOK'
  BY <1>4 DEF TypeOK, OnDisconnect, ctxVars, gateVars
<1>5. ASSUME NEW s \in Session, RegisterRefused(s)
      PROVE  TypeOK'
  <2>1. answers[s] = 0
    BY <1>5 DEF RegisterRefused, AnsweredOnce
  <2>2. answers' \in [Session -> 0..2]
    BY <1>5, <2>1 DEF TypeOK, RegisterRefused
  <2> QED
    BY <1>5, <2>2 DEF TypeOK, RegisterRefused, Closing, ctxVars, gateVars
<1>6. ASSUME NEW s \in Session, Register(s)
      PROVE  TypeOK'
  <2>1. peer[s].key \in Key /\ answers[s] = 0
    BY <1>6, PeerKnown, PendingKnown DEF Register, AnsweredOnce
  <2>2. PICK c \in CtxFor(peer[s].key) : Create(s, c)
    BY <1>6 DEF Register
  <2>3. c \in Ctx
    BY <2>1, CtxForFacts
  <2>4. [ctx |-> c, session |-> s] \in Entry
    BY <2>3 DEF Entry
  <2>5. /\ life' \in [Ctx -> {"none", "live", "released", "gone"}]
        /\ ctxID' \in [Session -> Ctx \cup {None}]
        /\ byKey' \in [Key -> Entry \cup {None}]
    BY <2>1, <2>2, <2>3, <2>4 DEF TypeOK, Create
  <2>6. answers' \in [Session -> 0..2] /\ net' \in [Session -> {"none", "open", "closing", "closed"}]
    BY <2>1, <2>2 DEF TypeOK, Create, Closing
  <2>7. ctxMsgs' \in [Ctx -> SUBSET ({"init", "release", "data"} \X Session)]
    BY <2>2, <2>3 DEF TypeOK, Create, Push
  <2> QED
    BY <1>6, <2>5, <2>6, <2>7 DEF TypeOK, Register
<1>7. ASSUME NEW s \in Session, SessionRelease(s)
      PROVE  TypeOK'
  <2>1. peer[s].key \in Key
    BY <1>7, PeerKnown, PendingKnown DEF SessionRelease
  <2>2. ctxMsgs' \in [Ctx -> SUBSET ({"init", "release", "data"} \X Session)]
    BY <1>7 DEF TypeOK, SessionRelease, Push
  <2> QED
    BY <1>7, <2>1, <2>2 DEF TypeOK, SessionRelease, netVars
<1>8. ASSUME OnTimer
      PROVE  TypeOK'
  BY <1>8 DEF TypeOK, OnTimer, Released, netVars
<1>9. ASSUME NEW c \in Ctx, NEW s \in Session, RegisterTail(c, s)
      PROVE  TypeOK'
  <2>1. /\ <<"init", s>> \in ctxMsgs[c]
        /\ ctxMsgs' = [ctxMsgs EXCEPT ![c] = @ \ {<<"init", s>>}]
    BY <1>9 DEF RegisterTail, Take
  <2>2. peer[s].key \in Key /\ peer[s].name \in Name
    BY <2>1, PeerKnown, PendingKnown
  <2> QED
    BY <1>9, <2>1, <2>2 DEF TypeOK, RegisterTail, netVars
<1>10. ASSUME NEW c \in Ctx, NEW s \in Session, ReleaseTail(c, s)
       PROVE  TypeOK'
  <2>1. /\ <<"release", s>> \in ctxMsgs[c]
        /\ ctxMsgs' = [ctxMsgs EXCEPT ![c] = @ \ {<<"release", s>>}]
    BY <1>10 DEF ReleaseTail, Take
  <2>2. peer[s].key \in Key
    BY <2>1, PeerKnown, PendingKnown
  <2> QED
    BY <1>10, <2>1, <2>2 DEF TypeOK, ReleaseTail, Released, netVars
<1>11. ASSUME NEW c \in Ctx, EraseEntry(c)
       PROVE  TypeOK'
  BY <1>11 DEF TypeOK, EraseEntry, netVars
<1>12. ASSUME NEW c \in Ctx, EraseTwice(c)
       PROVE  TypeOK'
  BY <1>12 DEF TypeOK, EraseTwice, netVars, ctxVars, gateVars
<1>13. ASSUME NEW c \in Ctx, NEW s \in Session, HandleData(c, s)
       PROVE  TypeOK'
  BY <1>13 DEF TypeOK, HandleData, Take, netVars, gateVars
<1>14. ASSUME NEW c \in Ctx, UnRegister(c)
       PROVE  TypeOK'
  BY <1>14 DEF TypeOK, UnRegister, netVars, gateVars
<1>15. CASE UNCHANGED vars
  BY <1>15 DEF TypeOK, vars, netVars, ctxVars, gateVars
<1> QED
  BY <1>1, <1>2, <1>3, <1>4, <1>5, <1>6, <1>7, <1>8, <1>9, <1>10, <1>11, <1>12, <1>13,
     <1>14, <1>15
  DEF Next, NetworkStep, GateStep, CtxStep

(***************************************************************************)
(* The map of the gate and the registry.                                   *)
(***************************************************************************)
(* Every step keeps the ctxs of the keys apart: a new entry has a new ctx. *)
LEMMA ApartStep == IInv /\ [Next]_vars => KeysApart'
<1> SUFFICES ASSUME IInv, [Next]_vars PROVE KeysApart'
  OBVIOUS
<1> USE DEF IInv
<1>1. ASSUME NEW s \in Session, Register(s)
      PROVE  KeysApart'
  <2>1. peer[s].key \in Key
    BY <1>1, PeerKnown, PendingKnown DEF Register
  <2>2. PICK c \in CtxFor(peer[s].key) : Create(s, c)
    BY <1>1 DEF Register
  <2>3. /\ c \in Ctx
        /\ \/ byKey[peer[s].key] = None /\ life[c] = "none"
           \/ Leads(peer[s].key, c)
    BY <2>1, CtxForFacts
  <2>4. \A k \in Key : Leads(k, c) => k = peer[s].key
    BY <2>1, <2>3 DEF CtxInStep, KeysApart, Leads
  <2>5. \A k \in Key, d \in Ctx : Leads(k, d)' => Leads(k, d) \/ (k = peer[s].key /\ d = c)
    BY <2>1, <2>2, <2>3 DEF Create, Leads, TypeOK
  <2>6. byKey'[peer[s].key].ctx = c
    BY <2>1, <2>2, <2>3 DEF Create, TypeOK
  <2> QED
    BY <2>1, <2>4, <2>5, <2>6 DEF KeysApart, Leads
<1>2. CASE OnTimer
  <2>1. \A k \in Key : byKey'[k] = byKey[k] \/ byKey'[k] = None
    BY <1>2 DEF OnTimer
  <2> QED
    BY <2>1 DEF KeysApart, Leads
<1>3. ASSUME NEW c \in Ctx, EraseEntry(c)
      PROVE  KeysApart'
  <2>1. \A k \in Key : byKey'[k] = byKey[k] \/ byKey'[k] = None
    BY <1>3 DEF EraseEntry, TypeOK
  <2> QED
    BY <2>1 DEF KeysApart, Leads
<1>4. CASE UNCHANGED byKey
  BY <1>4 DEF KeysApart, Leads
<1> QED
  BY <1>1, <1>2, <1>3, <1>4
  DEF Next, NetworkStep, GateStep, CtxStep, vars, gateVars, Connect, ReceiveRegister,
      ReceiveData, OnDisconnect, RegisterRefused, SessionRelease, RegisterTail, ReleaseTail,
      EraseTwice, HandleData, UnRegister

(* Every step keeps the map and the registry in step. *)
LEMMA InStepStep == IInv /\ [Next]_vars => CtxInStep'
<1> SUFFICES ASSUME IInv, [Next]_vars PROVE CtxInStep'
  OBVIOUS
<1> USE DEF IInv
<1>1. ASSUME NEW s \in Session, Register(s)
      PROVE  CtxInStep'
  <2>1. peer[s].key \in Key
    BY <1>1, PeerKnown, PendingKnown DEF Register
  <2>2. PICK c \in CtxFor(peer[s].key) : Create(s, c)
    BY <1>1 DEF Register
  <2>3. /\ c \in Ctx
        /\ \/ byKey[peer[s].key] = None /\ life[c] = "none"
           \/ Leads(peer[s].key, c)
    BY <2>1, CtxForFacts
  <2>4. [ctx |-> c, session |-> s] # None
    BY <2>3, NoneFacts DEF Entry
  <2>5. byKey'[peer[s].key] # None /\ byKey'[peer[s].key].ctx = c
    BY <2>1, <2>2, <2>3, <2>4 DEF Create, TypeOK
  <2>6. \A k \in Key \ {peer[s].key} : byKey'[k] = byKey[k]
    BY <2>2 DEF Create, TypeOK
  <2>7. \A d \in Ctx \ {c} : life'[d] = life[d]
    BY <2>2 DEF Create, TypeOK
  <2>8. erasing' = erasing
    BY <1>1 DEF Register
  <2>9. life'[c] = "live" \/ (life'[c] = "released" /\ erasing'[c])
    BY <2>1, <2>2, <2>3, <2>8 DEF Create, CtxInStep, Leads, TypeOK
  <2>10. ASSUME NEW k \in Key, byKey'[k] # None
         PROVE  LET d == byKey'[k].ctx
                IN  life'[d] = "live" \/ (life'[d] = "released" /\ erasing'[d])
    <3>1. CASE k = peer[s].key
      BY <3>1, <2>5, <2>9
    <3>2. CASE k # peer[s].key
      <4>1. byKey[k] # None /\ byKey'[k].ctx = byKey[k].ctx /\ byKey[k].ctx \in Ctx
        BY <3>2, <2>6, <2>10, EntryFacts
      <4> QED
        BY <4>1, <2>7, <2>8, <2>9 DEF CtxInStep
    <3> QED
      BY <3>1, <3>2
  <2>11. ASSUME NEW d \in Ctx, life'[d] = "live"
         PROVE  \E k \in Key : Leads(k, d)'
    <3>1. CASE d = c
      BY <3>1, <2>1, <2>5 DEF Leads
    <3>2. CASE d # c
      <4>1. PICK k \in Key : Leads(k, d)
        BY <3>2, <2>7, <2>11 DEF CtxInStep
      <4>2. k # peer[s].key
        BY <3>2, <4>1, <2>3 DEF Leads
      <4> QED
        BY <4>1, <4>2, <2>6 DEF Leads
    <3> QED
      BY <3>1, <3>2
  <2> QED
    BY <2>10, <2>11 DEF CtxInStep, Leads
<1>2. CASE OnTimer
  <2> DEFINE due == {k \in delayQueue : byKey[k] # None}
  <2>1. /\ byKey' = [k \in Key |-> IF k \in due THEN None ELSE byKey[k]]
        /\ life' = [c \in Ctx |-> IF \E k \in due : Leads(k, c) THEN Released(c) ELSE life[c]]
        /\ erasing' = erasing
    BY <1>2 DEF OnTimer
  <2>2. due \subseteq Key
    BY DEF TypeOK
  <2> HIDE DEF due
  <2>3. ASSUME NEW k \in Key, byKey'[k] # None
        PROVE  LET d == byKey'[k].ctx
               IN  life'[d] = "live" \/ (life'[d] = "released" /\ erasing'[d])
    <3>1. k \notin due /\ byKey'[k] = byKey[k] /\ byKey[k].ctx \in Ctx /\ Leads(k, byKey[k].ctx)
      BY <2>1, <2>3, EntryFacts DEF Leads
    <3>2. ~\E l \in due : Leads(l, byKey[k].ctx)
      BY <3>1, <2>2 DEF KeysApart
    <3>3. life'[byKey[k].ctx] = life[byKey[k].ctx]
      BY <2>1, <3>1, <3>2
    <3> QED
      BY <2>1, <3>1, <3>3 DEF CtxInStep, Leads
  <2>4. ASSUME NEW d \in Ctx, life'[d] = "live"
        PROVE  \E k \in Key : Leads(k, d)'
    <3>1. life[d] = "live" /\ ~\E k \in due : Leads(k, d)
      BY <2>1, <2>4 DEF Released
    <3>2. PICK k \in Key : Leads(k, d)
      BY <3>1 DEF CtxInStep
    <3> QED
      BY <2>1, <3>1, <3>2 DEF Leads
  <2> QED
    BY <2>3, <2>4 DEF CtxInStep, Leads
<1>3. ASSUME NEW c \in Ctx, NEW s \in Session, ReleaseTail(c, s)
      PROVE  CtxInStep'
  <2>1. byKey' = byKey
    BY <1>3 DEF ReleaseTail
  <2>2. \A d \in Ctx \ {c} : life'[d] = life[d] /\ erasing'[d] = erasing[d]
    BY <1>3 DEF ReleaseTail, TypeOK
  <2>3. \/ life'[c] = life[c] /\ erasing'[c] = erasing[c]
        \/ life'[c] = "released" /\ erasing'[c]
    BY <1>3 DEF ReleaseTail, Take, Accepts, Released, TypeOK
  <2>4. \A d \in Ctx : /\ life'[d] = "live" => life[d] = "live"
                       /\ (life[d] = "live" \/ (life[d] = "released" /\ erasing[d]))
                          => (life'[d] = "live" \/ (life'[d] = "released" /\ erasing'[d]))
    BY <2>2, <2>3
  <2> QED
    BY <2>1, <2>4, EntryFacts DEF CtxInStep, Leads
<1>4. ASSUME NEW c \in Ctx, EraseEntry(c)
      PROVE  CtxInStep'
  <2>1. PICK k \in Key : Leads(k, c) /\ byKey' = [byKey EXCEPT ![k] = None]
    BY <1>4 DEF EraseEntry
  <2>2. life' = life /\ erasing' = [erasing EXCEPT ![c] = FALSE] /\ erasing[c]
    BY <1>4 DEF EraseEntry
  <2>3. \A l \in Key : byKey'[l] # None =>
          byKey'[l] = byKey[l] /\ byKey[l].ctx # c /\ byKey[l].ctx \in Ctx
    BY <2>1, EntryFacts DEF KeysApart, Leads, TypeOK
  <2>4. ASSUME NEW d \in Ctx, life[d] = "live", d # c
        PROVE  \E l \in Key : Leads(l, d)'
    <3>1. PICK l \in Key : Leads(l, d)
      BY <2>4 DEF CtxInStep
    <3> QED
      BY <3>1, <2>1, <2>4 DEF Leads, TypeOK
  <2>5. life[c] # "live"
    BY <1>4 DEF ErasingReleased, EraseEntry
  <2> QED
    BY <2>2, <2>3, <2>4, <2>5 DEF CtxInStep, Leads, TypeOK
<1>5. ASSUME NEW c \in Ctx, UnRegister(c)
      PROVE  CtxInStep'
  <2>1. /\ byKey' = byKey /\ erasing' = erasing
        /\ life' = [life EXCEPT ![c] = "gone"] /\ life[c] = "released" /\ ~erasing[c]
    BY <1>5 DEF UnRegister, gateVars
  <2>2. \A k \in Key : byKey[k] # None => byKey[k].ctx # c /\ byKey[k].ctx \in Ctx
    BY <2>1, EntryFacts DEF CtxInStep
  <2> QED
    BY <2>1, <2>2 DEF CtxInStep, Leads, TypeOK
<1>6. CASE UNCHANGED <<byKey, life, erasing>>
  BY <1>6 DEF CtxInStep, Leads
<1> QED
  BY <1>1, <1>2, <1>3, <1>4, <1>5, <1>6
  DEF Next, NetworkStep, GateStep, CtxStep, vars, ctxVars, gateVars, Connect,
      ReceiveRegister, ReceiveData, OnDisconnect, RegisterRefused, SessionRelease,
      RegisterTail, EraseTwice, HandleData

(* Only a ctx that was released is about to lose its entry. *)
LEMMA ErasingStep == IInv /\ [Next]_vars => ErasingReleased'
<1> SUFFICES ASSUME IInv, [Next]_vars PROVE ErasingReleased'
  OBVIOUS
<1> USE DEF IInv
<1>1. ASSUME NEW s \in Session, Register(s)
      PROVE  ErasingReleased'
  <2>1. PICK c \in CtxFor(peer[s].key) : Create(s, c)
    BY <1>1 DEF Register
  <2>2. erasing' = erasing
    BY <1>1 DEF Register
  <2> QED
    BY <2>1, <2>2 DEF Create, ErasingReleased, TypeOK
<1>2. CASE OnTimer
  BY <1>2 DEF OnTimer, Released, ErasingReleased
<1>3. ASSUME NEW c \in Ctx, NEW s \in Session, ReleaseTail(c, s)
      PROVE  ErasingReleased'
  BY <1>3 DEF ReleaseTail, Take, Accepts, Released, ErasingReleased, TypeOK
<1>4. ASSUME NEW c \in Ctx, EraseEntry(c)
      PROVE  ErasingReleased'
  BY <1>4 DEF EraseEntry, ErasingReleased, TypeOK
<1>5. ASSUME NEW c \in Ctx, UnRegister(c)
      PROVE  ErasingReleased'
  BY <1>5 DEF UnRegister, ErasingReleased, TypeOK
<1>6. CASE UNCHANGED <<life, erasing>>
  BY <1>6 DEF ErasingReleased
<1> QED
  BY <1>1, <1>2, <1>3, <1>4, <1>5, <1>6
  DEF Next, NetworkStep, GateStep, CtxStep, vars, ctxVars, Connect, ReceiveRegister,
      ReceiveData, OnDisconnect, RegisterRefused, SessionRelease, RegisterTail, EraseTwice,
      HandleData

(***************************************************************************)
(* The answers.                                                            *)
(***************************************************************************)
(* To take the Register of one session is not to take that of another. *)
LEMMA OnlyOne ==
  ASSUME NEW M, NEW s \in Session, NEW t \in Session
  PROVE  <<"register", t>> \in M \ {<<"register", s>>} <=> <<"register", t>> \in M /\ t # s
<1>1. <<"register", t>> = <<"register", s>> <=> t = s
  OBVIOUS
<1> QED
  BY <1>1

(* Every step answers a Register once, and only then. *)
LEMMA AnswerStep == IInv /\ [Next]_vars => AnsweredOnce'
<1> SUFFICES ASSUME IInv, [Next]_vars PROVE AnsweredOnce'
  OBVIOUS
<1> USE DEF IInv
<1>1. ASSUME NEW s \in Session, ReceiveRegister(s)
      PROVE  AnsweredOnce'
  <2>1. <<"register", s>> \notin gateMsgs
    BY <1>1 DEF ReceiveRegister, Known
  <2> QED
    BY <1>1, <2>1 DEF ReceiveRegister, AnsweredOnce, TypeOK
<1>2. ASSUME NEW s \in Session, RegisterRefused(s)
      PROVE  AnsweredOnce'
  <2>1. asked[s] /\ answers[s] = 0
    BY <1>2 DEF RegisterRefused, Known, AnsweredOnce
  <2>2. \A t \in Session : answers'[t] = IF t = s THEN 1 ELSE answers[t]
    BY <1>2, <2>1 DEF RegisterRefused, TypeOK
  <2>3. asked' = asked /\ gateMsgs' = gateMsgs \ {<<"register", s>>}
    BY <1>2 DEF RegisterRefused
  <2> QED
    BY <2>1, <2>2, <2>3, OnlyOne DEF AnsweredOnce
<1>3. ASSUME NEW s \in Session, Register(s)
      PROVE  AnsweredOnce'
  <2>1. asked[s] /\ answers[s] = 0 /\ peer[s].key \in Key
    BY <1>3, PeerKnown, PendingKnown DEF Register, Known, AnsweredOnce
  <2>2. PICK c \in CtxFor(peer[s].key) : Create(s, c)
    BY <1>3 DEF Register
  <2>3. life[c] = "none" \/ Accepts(c)
    BY <2>1, CtxIsFound
  <2>4. \A t \in Session : answers'[t] = IF t = s THEN 1 ELSE answers[t]
    BY <2>1, <2>2, <2>3 DEF Create, TypeOK
  <2>5. asked' = asked /\ gateMsgs' = gateMsgs \ {<<"register", s>>}
    BY <1>3 DEF Register
  <2> QED
    BY <2>1, <2>4, <2>5, OnlyOne DEF AnsweredOnce
<1>4. CASE /\ UNCHANGED <<answers, asked>>
           /\ \A s \in Session : (<<"register", s>> \in gateMsgs') = (<<"register", s>> \in gateMsgs)
  BY <1>4 DEF AnsweredOnce
<1>5. ASSUME NEW s \in Session, OnDisconnect(s) \/ SessionRelease(s)
      PROVE  AnsweredOnce'
  BY <1>4, <1>5 DEF OnDisconnect, SessionRelease, netVars
<1>6. CASE UNCHANGED <<answers, asked, gateMsgs>>
  BY <1>6 DEF AnsweredOnce
<1> QED
  BY <1>1, <1>2, <1>3, <1>5, <1>6
  DEF Next, NetworkStep, GateStep, CtxStep, vars, netVars, Connect, ReceiveData, OnTimer,
      RegisterTail, ReleaseTail, EraseEntry, EraseTwice, HandleData, UnRegister

(***************************************************************************)
(* The sessions.                                                           *)
(***************************************************************************)
(* Every step leaves the sessions alone that have not connected. *)
LEMMA KnownStep == IInv /\ [Next]_vars => Known'
<1> SUFFICES ASSUME IInv, [Next]_vars PROVE Known'
  OBVIOUS
<1> USE DEF IInv
<1>1. ASSUME NEW s \in Session, NEW p \in Server, Connect(s, p)
      PROVE  Known'
  BY <1>1, NoneFacts DEF Connect, ctxVars, Known, TypeOK
<1>2. ASSUME NEW s \in Session, ReceiveRegister(s)
      PROVE  Known'
  BY <1>2 DEF ReceiveRegister, ctxVars, Known, TypeOK
<1>3. ASSUME NEW s \in Session, ReceiveData(s)
      PROVE  Known'
  <2>1. \A t \in Session : net'[t] = "none" <=> net[t] = "none"
    BY <1>3 DEF ReceiveData, TypeOK
  <2>2. \A c \in Ctx : ctxMsgs'[c] \subseteq ctxMsgs[c] \cup {<<"data", s>>}
    BY <1>3 DEF ReceiveData, Push, TypeOK
  <2>3. net[s] # "none" /\ UNCHANGED <<peer, asked, ctxID, gateMsgs>>
    BY <1>3 DEF ReceiveData
  <2>4. \A c \in Ctx : \A m \in ctxMsgs[c] : m[2] \in Session
    BY DEF TypeOK
  <2> QED
    BY <2>1, <2>2, <2>3, <2>4 DEF Known
<1>4. ASSUME NEW s \in Session, OnDisconnect(s)
      PROVE  Known'
  BY <1>4 DEF OnDisconnect, ctxVars, Known, TypeOK
<1>5. ASSUME NEW s \in Session, RegisterRefused(s)
      PROVE  Known'
  BY <1>5 DEF RegisterRefused, Closing, ctxVars, Known, TypeOK
<1>6. ASSUME NEW s \in Session, Register(s)
      PROVE  Known'
  <2>1. PICK c \in CtxFor(peer[s].key) : Create(s, c)
    BY <1>6 DEF Register
  <2>2. net[s] # "none"
    BY <1>6, PendingKnown DEF Register
  <2>3. \A t \in Session : net'[t] = "none" <=> net[t] = "none"
    BY <2>1 DEF Create, Closing, TypeOK
  <2>4. \A d \in Ctx : ctxMsgs'[d] \subseteq ctxMsgs[d] \cup {<<"init", s>>}
    BY <2>1 DEF Create, Push, TypeOK
  <2>5. \A t \in Session \ {s} : ctxID'[t] = ctxID[t]
    BY <2>1 DEF Create, TypeOK
  <2>6. UNCHANGED <<peer, asked>> /\ gateMsgs' \subseteq gateMsgs
    BY <1>6 DEF Register
  <2>7. \A d \in Ctx : \A m \in ctxMsgs[d] : m[2] \in Session
    BY DEF TypeOK
  <2> QED
    BY <2>2, <2>3, <2>4, <2>5, <2>6, <2>7 DEF Known
<1>7. ASSUME NEW s \in Session, SessionRelease(s)
      PROVE  Known'
  <2>1. net[s] # "none"
    BY <1>7, PendingKnown DEF SessionRelease
  <2>2. \A d \in Ctx : ctxMsgs'[d] \subseteq ctxMsgs[d] \cup {<<"release", s>>}
    BY <1>7 DEF SessionRelease, Push, TypeOK
  <2>3. UNCHANGED netVars /\ gateMsgs' \subseteq gateMsgs
    BY <1>7 DEF SessionRelease
  <2> QED
    BY <2>1, <2>2, <2>3 DEF Known, netVars
<1>8. ASSUME UNCHANGED <<netVars, gateMsgs>>,
             \A c \in Ctx : ctxMsgs'[c] \subseteq ctxMsgs[c]
      PROVE  Known'
  BY <1>8 DEF Known, netVars
<1>9. ASSUME NEW c \in Ctx, NEW s \in Session,
             RegisterTail(c, s) \/ ReleaseTail(c, s) \/ HandleData(c, s)
      PROVE  Known'
  <2>1. \A d \in Ctx : ctxMsgs'[d] \subseteq ctxMsgs[d]
    BY <1>9 DEF RegisterTail, ReleaseTail, HandleData, Take, TypeOK
  <2> QED
    BY <1>8, <1>9, <2>1 DEF RegisterTail, ReleaseTail, HandleData
<1>10. ASSUME NEW c \in Ctx, UnRegister(c)
       PROVE  Known'
  <2>1. \A d \in Ctx : ctxMsgs'[d] \subseteq ctxMsgs[d]
    BY <1>10 DEF UnRegister, TypeOK
  <2> QED
    BY <1>8, <1>10, <2>1 DEF UnRegister
<1>11. CASE UNCHANGED <<netVars, gateMsgs, ctxMsgs>>
  BY <1>8, <1>11
<1> QED
  BY <1>1, <1>2, <1>3, <1>4, <1>5, <1>6, <1>7, <1>9, <1>10, <1>11
  DEF Next, NetworkStep, GateStep, CtxStep, vars, ctxVars, OnTimer, EraseEntry, EraseTwice

(***************************************************************************)
(* Whose messages a step moves.                                            *)
(***************************************************************************)
(* The kinds of the coroutines for a ctx. *)
Kind == {"init", "release", "data"}

(* A coroutine pushed to a ctx is the only one there that is new. *)
LEMMA PushFacts ==
  ASSUME TypeOK, NEW c \in Ctx, NEW op \in Kind, NEW s \in Session, Push(c, <<op, s>>)
  PROVE  \A d \in Ctx, oq \in Kind, t \in Session :
           <<oq, t>> \in ctxMsgs'[d] <=>
             <<oq, t>> \in ctxMsgs[d] \/ (d = c /\ oq = op /\ t = s)
<1>1. ASSUME NEW d \in Ctx, NEW oq \in Kind, NEW t \in Session
      PROVE  <<oq, t>> \in ctxMsgs'[d] <=>
               <<oq, t>> \in ctxMsgs[d] \/ (d = c /\ oq = op /\ t = s)
  <2>1. ctxMsgs'[d] = IF d = c THEN ctxMsgs[d] \cup {<<op, s>>} ELSE ctxMsgs[d]
    BY DEF Push, TypeOK
  <2>2. <<oq, t>> = <<op, s>> <=> oq = op /\ t = s
    OBVIOUS
  <2> QED
    BY <2>1, <2>2
<1> QED
  BY <1>1

(* Only that ctx and that session have a new coroutine. *)
LEMMA PushNew ==
  ASSUME TypeOK, NEW c \in Ctx, NEW op \in Kind, NEW s \in Session, Push(c, <<op, s>>),
         NEW t \in Session, NEW d \in Ctx, NEW oq \in Kind, <<oq, t>> \in ctxMsgs'[d]
  PROVE  <<oq, t>> \in ctxMsgs[d] \/ (d = c /\ t = s)
<1>1. ctxMsgs'[d] = IF d = c THEN ctxMsgs[d] \cup {<<op, s>>} ELSE ctxMsgs[d]
  BY DEF Push, TypeOK
<1>2. <<oq, t>> = <<op, s>> => t = s
  OBVIOUS
<1> QED
  BY <1>1, <1>2

(* A coroutine taken by a ctx is the only one there that is gone. *)
LEMMA TakeFacts ==
  ASSUME TypeOK, NEW c \in Ctx, NEW op \in Kind, NEW s \in Session, Take(c, <<op, s>>)
  PROVE  /\ <<op, s>> \in ctxMsgs[c]
         /\ \A d \in Ctx, oq \in Kind, t \in Session :
              <<oq, t>> \in ctxMsgs'[d] <=>
                <<oq, t>> \in ctxMsgs[d] /\ ~(d = c /\ oq = op /\ t = s)
<1>1. <<op, s>> \in ctxMsgs[c]
  BY DEF Take
<1>2. ASSUME NEW d \in Ctx, NEW oq \in Kind, NEW t \in Session
      PROVE  <<oq, t>> \in ctxMsgs'[d] <=>
               <<oq, t>> \in ctxMsgs[d] /\ ~(d = c /\ oq = op /\ t = s)
  <2>1. ctxMsgs'[d] = IF d = c THEN ctxMsgs[d] \ {<<op, s>>} ELSE ctxMsgs[d]
    BY DEF Take, TypeOK
  <2>2. <<oq, t>> = <<op, s>> <=> oq = op /\ t = s
    OBVIOUS
  <2> QED
    BY <2>1, <2>2
<1> QED
  BY <1>1, <1>2

(* The same of the messages of the gate. *)
LEMMA GateMsgFacts ==
  ASSUME NEW M, NEW op \in {"register", "release"}, NEW s \in Session
  PROVE  \A oq \in {"register", "release"}, t \in Session :
           /\ <<oq, t>> \in M \cup {<<op, s>>} <=> <<oq, t>> \in M \/ (oq = op /\ t = s)
           /\ <<oq, t>> \in M \ {<<op, s>>} <=> <<oq, t>> \in M /\ ~(oq = op /\ t = s)
<1> TAKE oq \in {"register", "release"}, t \in Session
<1>1. <<oq, t>> = <<op, s>> <=> oq = op /\ t = s
  OBVIOUS
<1> QED
  BY <1>1

(* Whoever is active has connected. *)
LEMMA ActiveKnown ==
  ASSUME TypeOK, Known, NEW s \in Session, Active(s)
  PROVE  net[s] # "none" /\ peer[s] # None /\ peer[s] \in Server /\ peer[s].key \in Key
<1>1. net[s] # "none"
  BY PendingKnown DEF Active
<1> QED
  BY <1>1, PeerKnown DEF Known

(* A Register is of a session that has connected, and the gate takes a     *)
(* ctx for it that has no other key.                                       *)
LEMMA RegisterFacts ==
  ASSUME IInv, NEW s \in Session, Register(s)
  PROVE  /\ net[s] # "none" /\ peer[s].key \in Key
         /\ \E c \in Ctx :
              /\ Create(s, c)
              /\ \/ byKey[peer[s].key] = None /\ life[c] = "none"
                 \/ Leads(peer[s].key, c) /\ life[c] \in {"live", "released"}
              /\ Push(c, <<"init", s>>)
              /\ net' = net
<1>1. net[s] # "none" /\ peer[s].key \in Key
  BY PeerKnown, PendingKnown DEF Register, IInv
<1>2. PICK c \in CtxFor(peer[s].key) : Create(s, c)
  BY DEF Register
<1>3. c \in Ctx /\ (\/ byKey[peer[s].key] = None /\ life[c] = "none"
                    \/ Leads(peer[s].key, c) /\ life[c] \in {"live", "released"})
  BY <1>1, CtxForFacts DEF IInv
<1>4. Push(c, <<"init", s>>) /\ net' = net
  BY <1>2, <1>3 DEF Create, Accepts
<1> QED
  BY <1>1, <1>2, <1>3, <1>4

(***************************************************************************)
(* Sessions: bound once, released last.                                    *)
(***************************************************************************)
(* Every step binds only who has registered, and tells the gate or a ctx   *)
(* of the release of a session only when that has gone for good.           *)
LEMMA BoundOnceStep == IInv /\ [Next]_vars => BoundOnce'
<1> SUFFICES ASSUME IInv, [Next]_vars PROVE BoundOnce'
  OBVIOUS
<1> SUFFICES ASSUME NEW t \in Session
             PROVE  (/\ ctxID[t] # None => asked[t] /\ <<"register", t>> \notin gateMsgs
                     /\ Leaves(t) =>
                          net[t] = "closed" /\ asked[t] /\ <<"register", t>> \notin gateMsgs)'
  BY DEF BoundOnce
<1> DEFINE P == /\ ctxID[t] # None => asked[t] /\ <<"register", t>> \notin gateMsgs
                /\ Leaves(t) =>
                     net[t] = "closed" /\ asked[t] /\ <<"register", t>> \notin gateMsgs
<1>0. P /\ TypeOK /\ Known
  BY DEF BoundOnce, IInv
<1>1. ASSUME NEW s \in Session, NEW p \in Server, Connect(s, p)
      PROVE  P'
  <2>1. Leaves(t)' <=> Leaves(t)
    BY <1>1 DEF Connect, Leaves, ctxVars
  <2>2. net'[t] = net[t] \/ net[t] = "none"
    BY <1>0, <1>1 DEF Connect, TypeOK
  <2> QED
    BY <1>0, <1>1, <2>1, <2>2 DEF Connect
<1>2. ASSUME NEW s \in Session, ReceiveRegister(s)
      PROVE  P'
  <2>1. Leaves(t)' <=> Leaves(t)
    BY <1>2, GateMsgFacts DEF ReceiveRegister, Leaves, ctxVars
  <2>2. asked'[t] = (asked[t] \/ t = s) /\ ~asked[s]
    BY <1>0, <1>2 DEF ReceiveRegister, TypeOK
  <2>3. <<"register", t>> \in gateMsgs' <=> <<"register", t>> \in gateMsgs \/ t = s
    BY <1>2, GateMsgFacts DEF ReceiveRegister
  <2> QED
    BY <1>0, <1>2, <2>1, <2>2, <2>3 DEF ReceiveRegister
<1>3. ASSUME NEW s \in Session, ReceiveData(s)
      PROVE  P'
  <2>1. ASSUME NEW d \in Ctx
        PROVE  <<"release", t>> \in ctxMsgs'[d] <=> <<"release", t>> \in ctxMsgs[d]
    <3>1. CASE Push(ctxID[s], <<"data", s>>) /\ ctxID[s] \in Ctx
      BY <1>0, <3>1, PushFacts DEF Kind
    <3>2. CASE UNCHANGED ctxMsgs
      BY <3>2
    <3> QED
      BY <1>0, <1>3, <3>1, <3>2 DEF ReceiveData, TypeOK
  <2>2. Leaves(t)' <=> Leaves(t)
    BY <1>3, <2>1 DEF ReceiveData, Leaves
  <2>3. net'[t] = net[t] \/ net[t] = "open"
    BY <1>0, <1>3 DEF ReceiveData, TypeOK
  <2> QED
    BY <1>0, <1>3, <2>2, <2>3 DEF ReceiveData
<1>4. ASSUME NEW s \in Session, OnDisconnect(s)
      PROVE  P'
  <2>1. /\ net'[t] = IF t = s THEN "closed" ELSE net[t]
        /\ ctxID'[t] = IF t = s THEN None ELSE ctxID[t]
        /\ asked' = asked /\ ctxMsgs' = ctxMsgs
    BY <1>0, <1>4 DEF OnDisconnect, TypeOK, ctxVars
  <2>2. <<"register", t>> \in gateMsgs' <=> <<"register", t>> \in gateMsgs
    BY <1>4, GateMsgFacts DEF OnDisconnect
  <2>3. <<"release", t>> \in gateMsgs' =>
          <<"release", t>> \in gateMsgs \/ (t = s /\ ctxID[t] # None)
    BY <1>4, GateMsgFacts DEF OnDisconnect
  <2> QED
    BY <1>0, <2>1, <2>2, <2>3 DEF Leaves
<1>5. ASSUME NEW s \in Session, RegisterRefused(s)
      PROVE  P'
  <2>1. /\ net'[t] = net[t] \/ net[t] = "open"
        /\ asked' = asked /\ ctxID' = ctxID /\ ctxMsgs' = ctxMsgs
    BY <1>0, <1>5 DEF RegisterRefused, Closing, TypeOK, ctxVars
  <2>2. \A op \in {"register", "release"} : <<op, t>> \in gateMsgs' => <<op, t>> \in gateMsgs
    BY <1>5 DEF RegisterRefused
  <2> QED
    BY <1>0, <2>1, <2>2 DEF Leaves
<1>6. ASSUME NEW s \in Session, Register(s)
      PROVE  P'
  <2>1. PICK c \in Ctx : Create(s, c) /\ Push(c, <<"init", s>>) /\ net' = net
    BY <1>6, RegisterFacts
  <2>2. \A d \in Ctx : <<"release", t>> \in ctxMsgs'[d] <=> <<"release", t>> \in ctxMsgs[d]
    BY <1>0, <2>1, PushFacts DEF Kind
  <2>3. \A op \in {"register", "release"} : <<op, t>> \in gateMsgs' <=>
                  <<op, t>> \in gateMsgs /\ ~(op = "register" /\ t = s)
    BY <1>6, GateMsgFacts DEF Register
  <2>4. asked' = asked /\ (ctxID'[t] = ctxID[t] \/ t = s) /\ <<"register", s>> \in gateMsgs
    BY <1>0, <1>6, <2>1 DEF Create, Register, TypeOK
  <2>5. asked[s]
    BY <1>0, <2>4 DEF Known
  <2> QED
    BY <1>0, <2>1, <2>2, <2>3, <2>4, <2>5 DEF Leaves
<1>7. ASSUME NEW s \in Session, SessionRelease(s)
      PROVE  P'
  <2>1. ASSUME NEW d \in Ctx, <<"release", t>> \in ctxMsgs'[d]
        PROVE  <<"release", t>> \in ctxMsgs[d] \/ t = s
    <3>1. CASE UNCHANGED ctxMsgs
      BY <2>1, <3>1
    <3>2. ASSUME NEW c \in Ctx, Push(c, <<"release", s>>)
          PROVE  <<"release", t>> \in ctxMsgs[d] \/ t = s
      BY <1>0, <2>1, <3>2, PushFacts DEF Kind
    <3> QED
      BY <1>0, <1>7, <3>1, <3>2, EntryFacts, PeerKnown, PendingKnown DEF SessionRelease
  <2>2. /\ <<"release", s>> \in gateMsgs /\ UNCHANGED netVars
        /\ \A op \in {"register", "release"} : <<op, t>> \in gateMsgs' => <<op, t>> \in gateMsgs
    BY <1>7 DEF SessionRelease
  <2> QED
    BY <1>0, <2>1, <2>2 DEF Leaves, netVars
<1>8. ASSUME UNCHANGED <<netVars, gateMsgs>>,
             \A d \in Ctx : <<"release", t>> \in ctxMsgs'[d] => <<"release", t>> \in ctxMsgs[d]
      PROVE  P'
  BY <1>0, <1>8 DEF Leaves, netVars
<1>9. ASSUME NEW c \in Ctx, NEW s \in Session,
             RegisterTail(c, s) \/ ReleaseTail(c, s) \/ HandleData(c, s)
      PROVE  P'
  <2>1. \A d \in Ctx : <<"release", t>> \in ctxMsgs'[d] => <<"release", t>> \in ctxMsgs[d]
    BY <1>0, <1>9, TakeFacts DEF Kind, RegisterTail, ReleaseTail, HandleData
  <2> QED
    BY <1>8, <1>9, <2>1 DEF RegisterTail, ReleaseTail, HandleData
<1>10. ASSUME NEW c \in Ctx, UnRegister(c)
       PROVE  P'
  <2>1. \A d \in Ctx : ctxMsgs'[d] \subseteq ctxMsgs[d]
    BY <1>0, <1>10 DEF UnRegister, TypeOK
  <2> QED
    BY <1>8, <1>10, <2>1 DEF UnRegister
<1>11. CASE UNCHANGED <<netVars, gateMsgs, ctxMsgs>>
  BY <1>8, <1>11
<1> QED
  BY <1>1, <1>2, <1>3, <1>4, <1>5, <1>6, <1>7, <1>9, <1>10, <1>11
  DEF Next, NetworkStep, GateStep, CtxStep, vars, ctxVars, OnTimer, EraseEntry, EraseTwice

(***************************************************************************)
(* The ctx of a key gets what is of its key.                               *)
(***************************************************************************)
(* Every step sends what is of a key to the ctx of the key, and takes the  *)
(* key from a ctx only when that is released.                              *)
LEMMA OfItsKeyStep == IInv /\ [Next]_vars => OfItsKey'
<1> SUFFICES ASSUME IInv, [Next]_vars PROVE OfItsKey'
  OBVIOUS
<1> DEFINE Has(c, t) == <<"init", t>> \in ctxMsgs[c] \/ <<"release", t>> \in ctxMsgs[c]
<1> DEFINE Fits(c, t) == life[c] # "none" /\ (life[c] = "live" => Leads(peer[t].key, c))
<1>0. /\ TypeOK /\ Known /\ CtxInStep /\ KeysApart /\ ErasingReleased
      /\ \A c \in Ctx, t \in Session : Has(c, t) => Fits(c, t) /\ net[t] # "none"
      /\ \A k \in Key : byKey[k] # None => HasPeer(byKey[k].session, k)
  <2>1. TypeOK /\ Known /\ CtxInStep /\ KeysApart /\ ErasingReleased
    BY DEF IInv
  <2>2. \A c \in Ctx, t \in Session : Has(c, t) => net[t] # "none"
    BY <2>1, PendingKnown
  <2> QED
    BY <2>1, <2>2 DEF IInv, OfItsKey
<1>1. ASSUME \A c \in Ctx, t \in Session : Has(c, t)' => Fits(c, t)',
             \A k \in Key : byKey'[k] # None => HasPeer(byKey[k].session, k)'
      PROVE  OfItsKey'
  BY <1>1 DEF OfItsKey
<1>2. ASSUME UNCHANGED <<peer, byKey, life>>,
             \A c \in Ctx, t \in Session : Has(c, t)' => Has(c, t)
      PROVE  OfItsKey'
  BY <1>0, <1>1, <1>2 DEF Leads, HasPeer
<1>3. ASSUME NEW s \in Session, NEW p \in Server, Connect(s, p)
      PROVE  OfItsKey'
  <2>1. /\ \A t \in Session : t # s => peer'[t] = peer[t]
        /\ net[s] = "none" /\ peer[s] = None
        /\ UNCHANGED <<ctxMsgs, life, byKey>>
    BY <1>0, <1>3 DEF Connect, ctxVars, gateVars, TypeOK, Known
  <2>2. ASSUME NEW c \in Ctx, NEW t \in Session, Has(c, t)'
        PROVE  Fits(c, t)'
    <3>1. Has(c, t)
      BY <2>1, <2>2
    <3>2. t # s
      BY <1>0, <2>1, <3>1
    <3> QED
      BY <1>0, <2>1, <3>1, <3>2 DEF Leads
  <2>3. ASSUME NEW k \in Key, byKey'[k] # None
        PROVE  HasPeer(byKey[k].session, k)'
    <3>1. byKey[k] # None /\ HasPeer(byKey[k].session, k) /\ byKey[k].session \in Session
      BY <1>0, <2>1, <2>3, EntryFacts
    <3>2. byKey[k].session # s
      BY <2>1, <3>1 DEF HasPeer
    <3> QED
      BY <2>1, <3>1, <3>2 DEF HasPeer
  <2> QED
    BY <1>1, <2>2, <2>3
<1>4. ASSUME NEW s \in Session, ReceiveData(s)
      PROVE  OfItsKey'
  <2>1. ASSUME NEW d \in Ctx, NEW t \in Session, NEW op \in {"init", "release"}
        PROVE  <<op, t>> \in ctxMsgs'[d] <=> <<op, t>> \in ctxMsgs[d]
    <3>1. CASE Push(ctxID[s], <<"data", s>>) /\ ctxID[s] \in Ctx
      BY <1>0, <3>1, PushFacts DEF Kind
    <3>2. CASE UNCHANGED ctxMsgs
      BY <3>2
    <3> QED
      BY <1>0, <1>4, <3>1, <3>2 DEF ReceiveData, TypeOK
  <2> QED
    BY <1>2, <1>4, <2>1 DEF ReceiveData, gateVars
<1>5. ASSUME NEW s \in Session, Register(s)
      PROVE  OfItsKey'
  <2>1. net[s] # "none" /\ peer[s].key \in Key
    BY <1>5, RegisterFacts
  <2>2. PICK c \in Ctx :
              /\ Create(s, c)
              /\ \/ byKey[peer[s].key] = None /\ life[c] = "none"
                 \/ Leads(peer[s].key, c) /\ life[c] \in {"live", "released"}
              /\ Push(c, <<"init", s>>)
    BY <1>5, RegisterFacts
  <2> DEFINE key == peer[s].key
  <2>3. [ctx |-> c, session |-> s] # None
    BY NoneFacts DEF Entry
  <2>4. /\ byKey'[key] = [ctx |-> c, session |-> s]
        /\ \A k \in Key : k # key => byKey'[k] = byKey[k]
        /\ \A d \in Ctx : d # c => life'[d] = life[d]
        /\ life'[c] = IF life[c] = "none" THEN "live" ELSE life[c]
        /\ peer' = peer
    BY <1>0, <1>5, <2>1, <2>2 DEF Create, Register, TypeOK
  <2>5. Leads(key, c)'
    BY <2>3, <2>4 DEF Leads
  <2>6. ASSUME NEW d \in Ctx, NEW t \in Session, Has(d, t)'
        PROVE  Has(d, t) \/ (d = c /\ t = s)
    BY <1>0, <2>2, <2>6, PushNew DEF Kind
  <2>7. ASSUME NEW d \in Ctx, NEW t \in Session, Has(d, t)'
        PROVE  Fits(d, t)'
    <3>1. CASE d = c /\ t = s
      BY <2>4, <2>5, <3>1
    <3>2. CASE Has(d, t)
      <4>1. Fits(d, t) /\ peer[t].key \in Key
        BY <1>0, <3>2, PeerKnown
      <4>2. CASE d = c
        <5>1. Leads(key, c) /\ life'[c] = life[c]
          BY <2>2, <2>4, <4>1, <4>2
        <5>2. life[c] = "live" => peer[t].key = key
          BY <1>0, <2>1, <4>1, <4>2, <5>1 DEF KeysApart
        <5> QED
          BY <2>4, <2>5, <4>1, <4>2, <5>1, <5>2
      <4>3. CASE d # c
        <5>1. Leads(peer[t].key, d) => peer[t].key # key
          BY <2>2, <4>3 DEF Leads
        <5> QED
          BY <2>4, <4>1, <4>3, <5>1 DEF Leads
      <4> QED
        BY <4>2, <4>3
    <3> QED
      BY <2>6, <2>7, <3>1, <3>2
  <2>8. ASSUME NEW k \in Key, byKey'[k] # None
        PROVE  HasPeer(byKey[k].session, k)'
    <3>1. CASE k = key
      <4>1. peer[s] # None
        BY <1>0, <2>1 DEF Known
      <4> QED
        BY <2>1, <2>4, <3>1, <4>1 DEF HasPeer
    <3>2. CASE k # key
      BY <1>0, <2>4, <2>8, <3>2 DEF HasPeer
    <3> QED
      BY <3>1, <3>2
  <2> QED
    BY <1>1, <2>7, <2>8
<1>6. ASSUME NEW s \in Session, SessionRelease(s)
      PROVE  OfItsKey'
  <2>1. peer[s].key \in Key /\ UNCHANGED <<peer, byKey, life>>
    BY <1>0, <1>6, PeerKnown, PendingKnown DEF SessionRelease, netVars
  <2>2. CASE UNCHANGED ctxMsgs
    BY <1>2, <2>1, <2>2
  <2>3. ASSUME byKey[peer[s].key] # None, Accepts(byKey[peer[s].key].ctx),
               Push(byKey[peer[s].key].ctx, <<"release", s>>)
        PROVE  OfItsKey'
    <3>1. PICK c \in Ctx : c = byKey[peer[s].key].ctx
      BY <1>0, <2>1, <2>3, EntryFacts
    <3>2. Leads(peer[s].key, c) /\ life[c] # "none" /\ Push(c, <<"release", s>>)
      BY <2>3, <3>1 DEF Leads, Accepts
    <3>3. ASSUME NEW d \in Ctx, NEW t \in Session, Has(d, t)'
          PROVE  Has(d, t) \/ (d = c /\ t = s)
      BY <1>0, <3>2, <3>3, PushNew DEF Kind
    <3>4. ASSUME NEW d \in Ctx, NEW t \in Session, Has(d, t)'
          PROVE  Fits(d, t)'
      BY <1>0, <2>1, <3>2, <3>3, <3>4 DEF Leads
    <3> QED
      BY <1>0, <1>1, <2>1, <3>4 DEF HasPeer
  <2> QED
    BY <1>6, <2>2, <2>3 DEF SessionRelease
<1>7. CASE OnTimer
  <2> DEFINE due == {k \in delayQueue : byKey[k] # None}
  <2>1. /\ byKey' = [k \in Key |-> IF k \in due THEN None ELSE byKey[k]]
        /\ life' = [c \in Ctx |-> IF \E k \in due : Leads(k, c) THEN Released(c) ELSE life[c]]
        /\ UNCHANGED <<peer, ctxMsgs>>
    BY <1>7 DEF OnTimer, netVars
  <2> HIDE DEF due
  <2>2. ASSUME NEW c \in Ctx, NEW t \in Session, Has(c, t)'
        PROVE  Fits(c, t)'
    <3>1. Has(c, t)
      BY <2>1, <2>2
    <3>2. Fits(c, t) /\ peer[t].key \in Key
      BY <1>0, <3>1, PeerKnown
    <3>3. life'[c] # "none"
      BY <2>1, <3>2 DEF Released
    <3>4. ASSUME life'[c] = "live"
          PROVE  Leads(peer[t].key, c)'
      <4>1. life[c] = "live" /\ ~\E k \in due : Leads(k, c)
        BY <2>1, <3>4 DEF Released
      <4> QED
        BY <2>1, <3>2, <4>1 DEF Leads
    <3> QED
      BY <3>3, <3>4
  <2>3. \A k \in Key : byKey'[k] # None => HasPeer(byKey[k].session, k)'
    BY <1>0, <2>1 DEF HasPeer
  <2> QED
    BY <1>1, <2>2, <2>3
<1>8. ASSUME NEW c \in Ctx, NEW s \in Session, ReleaseTail(c, s)
      PROVE  OfItsKey'
  <2>1. \A d \in Ctx, t \in Session : Has(d, t)' => Has(d, t)
    BY <1>0, <1>8, TakeFacts DEF Kind, ReleaseTail
  <2>2. /\ UNCHANGED <<peer, byKey>>
        /\ \A d \in Ctx : life'[d] = life[d] \/ life'[d] = "released"
    BY <1>0, <1>8 DEF ReleaseTail, Take, Accepts, Released, TypeOK, netVars
  <2> QED
    BY <1>0, <1>1, <2>1, <2>2 DEF Leads, HasPeer
<1>9. ASSUME NEW c \in Ctx, NEW s \in Session, RegisterTail(c, s) \/ HandleData(c, s)
      PROVE  OfItsKey'
  <2>1. \A d \in Ctx, t \in Session : Has(d, t)' => Has(d, t)
    BY <1>0, <1>9, TakeFacts DEF Kind, RegisterTail, HandleData
  <2> QED
    BY <1>2, <1>9, <2>1 DEF RegisterTail, HandleData, netVars, gateVars
<1>10. ASSUME NEW c \in Ctx, EraseEntry(c)
       PROVE  OfItsKey'
  <2>1. PICK k \in Key : Leads(k, c) /\ byKey' = [byKey EXCEPT ![k] = None]
    BY <1>10 DEF EraseEntry
  <2>2. UNCHANGED <<peer, ctxMsgs, life>> /\ life[c] = "released"
    BY <1>0, <1>10 DEF EraseEntry, netVars, ErasingReleased
  <2>3. \A l \in Key : byKey'[l] = IF l = k THEN None ELSE byKey[l]
    BY <1>0, <2>1 DEF TypeOK
  <2>4. ASSUME NEW d \in Ctx, NEW t \in Session, Has(d, t)'
        PROVE  Fits(d, t)'
    <3>1. Has(d, t)
      BY <2>2, <2>4
    <3>2. Fits(d, t) /\ peer[t].key \in Key
      BY <1>0, <3>1, PeerKnown
    <3>3. ASSUME life[d] = "live", peer[t].key = k
          PROVE  FALSE
      BY <2>1, <2>2, <3>2, <3>3 DEF Leads
    <3> QED
      BY <2>2, <2>3, <3>2, <3>3 DEF Leads
  <2>5. \A l \in Key : byKey'[l] # None => HasPeer(byKey[l].session, l)'
    BY <1>0, <2>2, <2>3 DEF HasPeer
  <2> QED
    BY <1>1, <2>4, <2>5
<1>11. ASSUME NEW c \in Ctx, UnRegister(c)
       PROVE  OfItsKey'
  <2>1. /\ UNCHANGED <<peer, byKey>>
        /\ \A d \in Ctx : life'[d] = life[d] \/ life'[d] = "gone"
        /\ \A d \in Ctx : ctxMsgs'[d] \subseteq ctxMsgs[d]
    BY <1>0, <1>11 DEF UnRegister, TypeOK, netVars, gateVars
  <2> QED
    BY <1>0, <1>1, <2>1 DEF Leads, HasPeer
<1>12. CASE UNCHANGED <<peer, byKey, life, ctxMsgs>>
  BY <1>2, <1>12
<1> QED
  BY <1>3, <1>4, <1>5, <1>6, <1>7, <1>8, <1>9, <1>10, <1>11, <1>12
  DEF Next, NetworkStep, GateStep, CtxStep, vars, netVars, ctxVars, gateVars,
      ReceiveRegister, OnDisconnect, RegisterRefused, EraseTwice

(***************************************************************************)
(* One active session of a key.                                            *)
(***************************************************************************)
(* Only Connect makes a session active. *)
LEMMA ActiveStep ==
  ASSUME IInv, [Next]_vars, NEW t \in Session, Active(t)',
         ~\E s \in Session, p \in Server : Connect(s, p)
  PROVE  Active(t) /\ peer' = peer /\ early' = early
<1> DEFINE At(c) == \E op \in Kind : <<op, t>> \in ctxMsgs[c]
<1> DEFINE Gate == <<"register", t>> \in gateMsgs \/ <<"release", t>> \in gateMsgs
<1>0. /\ TypeOK
      /\ Active(t) <=> net[t] \in {"open", "closing"} \/ Gate \/ \E c \in Ctx : At(c)
      /\ Active(t)' <=> net'[t] \in {"open", "closing"} \/ Gate' \/ \E c \in Ctx : At(c)'
  <2>1. TypeOK
    BY DEF IInv
  <2>2. Active(t) <=> net[t] \in {"open", "closing"} \/ Gate \/ \E c \in Ctx : At(c)
    BY DEF Active, Kind
  <2>3. Active(t)' <=> net'[t] \in {"open", "closing"} \/ Gate' \/ \E c \in Ctx : At(c)'
    BY DEF Active, Kind
  <2> QED
    BY <2>1, <2>2, <2>3
<1> DEFINE Less == /\ net'[t] \in {"open", "closing"} => net[t] \in {"open", "closing"}
                   /\ Gate' => Gate
                   /\ \A c \in Ctx : At(c)' => At(c)
<1>1. ASSUME Less \/ Active(t), peer' = peer, early' = early
      PROVE  Active(t) /\ peer' = peer /\ early' = early
  BY <1>0, <1>1
<1> HIDE DEF Gate, At
<1>2. ASSUME NEW s \in Session, ReceiveRegister(s)
      PROVE  (Less \/ Active(t)) /\ peer' = peer /\ early' = early
  <2>1. CASE t = s
    BY <1>0, <1>2, <2>1 DEF ReceiveRegister
  <2>2. CASE t # s
    <3>1. Gate' => Gate
      BY <1>2, <2>2, GateMsgFacts DEF ReceiveRegister, Gate
    <3> QED
      BY <1>2, <3>1 DEF ReceiveRegister, ctxVars, At
  <2> QED
    BY <1>2, <2>1, <2>2 DEF ReceiveRegister
<1>3. ASSUME NEW s \in Session, ReceiveData(s)
      PROVE  (Less \/ Active(t)) /\ peer' = peer /\ early' = early
  <2>1. CASE t = s
    BY <1>0, <1>3, <2>1 DEF ReceiveData
  <2>2. CASE t # s
    <3>1. ASSUME NEW c \in Ctx, At(c)'
          PROVE  At(c)
      <4>1. CASE Push(ctxID[s], <<"data", s>>) /\ ctxID[s] \in Ctx
        BY <1>0, <2>2, <3>1, <4>1, PushNew DEF Kind, At
      <4>2. CASE UNCHANGED ctxMsgs
        BY <3>1, <4>2 DEF At
      <4> QED
        BY <1>0, <1>3, <4>1, <4>2 DEF ReceiveData, TypeOK
    <3>2. net'[t] = net[t]
      BY <1>0, <1>3, <2>2 DEF ReceiveData, TypeOK
    <3> QED
      BY <1>3, <3>1, <3>2 DEF ReceiveData, Gate
  <2> QED
    BY <1>3, <2>1, <2>2 DEF ReceiveData
<1>4. ASSUME NEW s \in Session, OnDisconnect(s)
      PROVE  (Less \/ Active(t)) /\ peer' = peer /\ early' = early
  <2>1. CASE t = s
    BY <1>0, <1>4, <2>1 DEF OnDisconnect
  <2>2. CASE t # s
    <3>1. Gate' => Gate
      BY <1>4, <2>2, GateMsgFacts DEF OnDisconnect, Gate
    <3>2. net'[t] = net[t]
      BY <1>0, <1>4, <2>2 DEF OnDisconnect, TypeOK
    <3> QED
      BY <1>4, <3>1, <3>2 DEF OnDisconnect, ctxVars, At
  <2> QED
    BY <1>4, <2>1, <2>2 DEF OnDisconnect
<1>5. ASSUME NEW s \in Session, RegisterRefused(s)
      PROVE  (Less \/ Active(t)) /\ peer' = peer /\ early' = early
  <2>1. net'[t] \in {"open", "closing"} => net[t] \in {"open", "closing"}
    BY <1>0, <1>5 DEF RegisterRefused, Closing, TypeOK
  <2>2. Gate' => Gate
    BY <1>5 DEF RegisterRefused, Gate
  <2> QED
    BY <1>5, <2>1, <2>2 DEF RegisterRefused, ctxVars, At
<1>6. ASSUME NEW s \in Session, Register(s)
      PROVE  (Less \/ Active(t)) /\ peer' = peer /\ early' = early
  <2>1. PICK c \in Ctx : Push(c, <<"init", s>>) /\ net' = net
    BY <1>6, RegisterFacts
  <2>2. CASE t = s
    BY <1>0, <1>6, <2>2 DEF Register, Gate
  <2>3. CASE t # s
    <3>1. \A d \in Ctx : At(d)' => At(d)
      BY <1>0, <2>1, <2>3, PushNew DEF Kind, At
    <3>2. Gate' => Gate
      BY <1>6 DEF Register, Gate
    <3> QED
      BY <1>6, <2>1, <3>1, <3>2 DEF Register
  <2> QED
    BY <1>6, <2>2, <2>3 DEF Register
<1>7. ASSUME NEW s \in Session, SessionRelease(s)
      PROVE  (Less \/ Active(t)) /\ peer' = peer /\ early' = early
  <2>1. CASE t = s
    BY <1>0, <1>7, <2>1 DEF SessionRelease, Gate, netVars
  <2>2. CASE t # s
    <3>1. ASSUME NEW d \in Ctx, At(d)'
          PROVE  At(d)
      <4>1. CASE UNCHANGED ctxMsgs
        BY <3>1, <4>1 DEF At
      <4>2. ASSUME NEW c \in Ctx, Push(c, <<"release", s>>)
            PROVE  At(d)
        BY <1>0, <2>2, <3>1, <4>2, PushNew DEF Kind, At
      <4>3. peer[s].key \in Key
        BY <1>0, <1>7, PeerKnown, PendingKnown DEF SessionRelease, IInv
      <4> QED
        BY <1>0, <1>7, <4>1, <4>2, <4>3, EntryFacts DEF SessionRelease
    <3>2. Gate' => Gate
      BY <1>7 DEF SessionRelease, Gate
    <3> QED
      BY <1>7, <3>1, <3>2 DEF SessionRelease, netVars
  <2> QED
    BY <1>7, <2>1, <2>2 DEF SessionRelease, netVars
<1>8. ASSUME NEW c \in Ctx, NEW s \in Session,
             RegisterTail(c, s) \/ ReleaseTail(c, s) \/ HandleData(c, s)
      PROVE  (Less \/ Active(t)) /\ peer' = peer /\ early' = early
  <2>1. \A d \in Ctx : ctxMsgs'[d] \subseteq ctxMsgs[d]
    BY <1>0, <1>8 DEF RegisterTail, ReleaseTail, HandleData, Take, TypeOK
  <2>2. \A d \in Ctx : At(d)' => At(d)
    BY <2>1 DEF At
  <2> QED
    BY <1>8, <2>2 DEF RegisterTail, ReleaseTail, HandleData, netVars, Gate
<1>9. ASSUME NEW c \in Ctx, UnRegister(c)
      PROVE  (Less \/ Active(t)) /\ peer' = peer /\ early' = early
  <2>1. \A d \in Ctx : ctxMsgs'[d] \subseteq ctxMsgs[d]
    BY <1>0, <1>9 DEF UnRegister, TypeOK
  <2>2. \A d \in Ctx : At(d)' => At(d)
    BY <2>1 DEF At
  <2> QED
    BY <1>9, <2>2 DEF UnRegister, netVars, Gate
<1>10. CASE UNCHANGED <<netVars, gateMsgs, ctxMsgs, early>>
  BY <1>1, <1>10 DEF netVars, Gate, At
<1> QED
  BY <1>1, <1>2, <1>3, <1>4, <1>5, <1>6, <1>7, <1>8, <1>9, <1>10
  DEF Next, NetworkStep, GateStep, CtxStep, vars, ctxVars, OnTimer, EraseEntry, EraseTwice

(* A server that comes when the gate has done with those before finds      *)
(* nobody active under its key.                                            *)
LEMMA ConnectFacts ==
  ASSUME IInv, NEW s \in Session, NEW p \in Server, Connect(s, p), ~early'
  PROVE  /\ ~early /\ p.key \in Key /\ net[s] = "none"
         /\ \A t \in Session : Active(t) => t # s /\ peer[t].key # p.key
         /\ p.key \notin delayQueue
         /\ \A c \in Ctx : Leads(p.key, c) => life[c] = "live"
<1>1. TypeOK /\ Known /\ CtxInStep /\ OfItsKey
  BY DEF IInv
<1>2. ~early /\ Settled(p.key) /\ net[s] = "none"
  BY <1>1 DEF Connect, TypeOK
<1>3. p.key \in Key
  BY DEF Server
<1>4. ASSUME NEW t \in Session, Active(t), peer[t].key = p.key
      PROVE  FALSE
  <2>1. HasPeer(t, p.key)
    BY <1>1, <1>4, ActiveKnown DEF HasPeer
  <2>2. net[t] = "closed" /\ <<"register", t>> \notin gateMsgs /\ <<"release", t>> \notin gateMsgs
    BY <1>2, <2>1 DEF Settled
  <2>3. \A c \in Ctx : \A op \in {"init", "release", "data"} : <<op, t>> \notin ctxMsgs[c]
    BY <1>2, <2>1 DEF Settled
  <2> QED
    BY <1>4, <2>2, <2>3 DEF Active
<1>5. \A t \in Session : Active(t) => t # s
  BY <1>1, <1>2, ActiveKnown
<1>6. ASSUME NEW c \in Ctx, Leads(p.key, c)
      PROVE  life[c] = "live"
  <2>1. byKey[p.key].session \in Session /\ HasPeer(byKey[p.key].session, p.key)
    BY <1>1, <1>3, <1>6, EntryFacts DEF OfItsKey, Leads
  <2>2. ~erasing[c]
    BY <1>2, <2>1 DEF Settled
  <2> QED
    BY <1>1, <1>3, <1>6, <2>2 DEF CtxInStep, Leads
<1> QED
  BY <1>2, <1>3, <1>4, <1>5, <1>6 DEF Settled

(* Every step leaves a key one active session. *)
LEMMA OneActiveStep == IInv /\ [Next]_vars => (~early => OneActive)'
<1> SUFFICES ASSUME IInv, [Next]_vars, ~early' PROVE OneActive'
  OBVIOUS
<1> SUFFICES ASSUME NEW s \in Session, NEW t \in Session,
                    Active(s)', Active(t)', peer'[s].key = peer'[t].key
             PROVE  s = t
  BY DEF OneActive
<1>1. CASE ~\E r \in Session, p \in Server : Connect(r, p)
  <2>1. Active(s) /\ Active(t) /\ peer' = peer /\ early' = early
    BY <1>1, ActiveStep
  <2> QED
    BY <2>1 DEF IInv, OneActive
<1>2. ASSUME NEW r \in Session, NEW p \in Server, Connect(r, p)
      PROVE  s = t
  <2>1. /\ ~early
        /\ \A u \in Session : Active(u) => u # r /\ peer[u].key # p.key
    BY <1>2, ConnectFacts
  <2>2. /\ peer'[r] = p
        /\ \A u \in Session : u # r => peer'[u] = peer[u] /\ net'[u] = net[u]
        /\ UNCHANGED <<gateMsgs, ctxMsgs>>
    BY <1>2 DEF Connect, ctxVars, IInv, TypeOK
  <2>3. \A u \in Session : Active(u)' /\ u # r => Active(u)
    BY <2>2 DEF Active
  <2> QED
    BY <2>1, <2>2, <2>3 DEF IInv, OneActive
<1> QED
  BY <1>1, <1>2

(* A session that stays is active, and not one that was released. *)
LEMMA StayingFacts ==
  ASSUME IInv, NEW s \in Session, Staying(s)
  PROVE  Active(s) /\ ~Leaves(s) /\ peer[s].key \in Key
<1>1. Active(s)
  BY DEF Staying, Active
<1>2. ~Leaves(s)
  BY DEF Staying, BoundOnce, IInv
<1> QED
  BY <1>1, <1>2, ActiveKnown DEF IInv

(* Only Connect makes a session stay. *)
LEMMA StayingStep ==
  ASSUME IInv, [Next]_vars, NEW t \in Session, Staying(t)',
         ~\E s \in Session, p \in Server : Connect(s, p)
  PROVE  Staying(t) /\ peer' = peer /\ early' = early
<1>1. Active(t)'
  BY DEF Staying, Active
<1>2. peer' = peer /\ early' = early
  BY <1>1, ActiveStep
<1> SUFFICES Staying(t)
  BY <1>2
<1> DEFINE Reg == <<"register", t>> \in gateMsgs
<1>0. /\ TypeOK
      /\ Staying(t) <=> net[t] \in {"open", "closing"} \/ Reg
      /\ Staying(t)' <=> net'[t] \in {"open", "closing"} \/ Reg'
  BY DEF Staying, IInv
<1> HIDE DEF Reg
<1>3. ASSUME NEW s \in Session, ReceiveRegister(s)
      PROVE  Staying(t)
  <2>1. CASE t = s
    BY <1>0, <1>3, <2>1 DEF ReceiveRegister
  <2>2. CASE t # s
    BY <1>0, <1>3, <2>2, GateMsgFacts DEF ReceiveRegister, Reg
  <2> QED
    BY <2>1, <2>2
<1>4. ASSUME NEW s \in Session, ReceiveData(s)
      PROVE  Staying(t)
  BY <1>0, <1>4 DEF ReceiveData, Reg, TypeOK
<1>5. ASSUME NEW s \in Session, OnDisconnect(s)
      PROVE  Staying(t)
  <2>1. Reg' => Reg
    BY <1>5, GateMsgFacts DEF OnDisconnect, Reg
  <2>2. net'[t] \in {"open", "closing"} => net[t] \in {"open", "closing"}
    BY <1>0, <1>5 DEF OnDisconnect, TypeOK
  <2> QED
    BY <1>0, <2>1, <2>2
<1>6. ASSUME NEW s \in Session, RegisterRefused(s)
      PROVE  Staying(t)
  <2>1. Reg' => Reg
    BY <1>6 DEF RegisterRefused, Reg
  <2>2. net'[t] \in {"open", "closing"} => net[t] \in {"open", "closing"}
    BY <1>0, <1>6 DEF RegisterRefused, Closing, TypeOK
  <2> QED
    BY <1>0, <2>1, <2>2
<1>7. ASSUME NEW s \in Session, Register(s)
      PROVE  Staying(t)
  BY <1>0, <1>7, RegisterFacts DEF Register, Reg
<1>8. ASSUME NEW s \in Session, SessionRelease(s)
      PROVE  Staying(t)
  BY <1>0, <1>8 DEF SessionRelease, Reg, netVars
<1>9. CASE UNCHANGED <<net, gateMsgs>>
  BY <1>0, <1>9 DEF Reg
<1> QED
  BY <1>3, <1>4, <1>5, <1>6, <1>7, <1>8, <1>9
  DEF Next, NetworkStep, GateStep, CtxStep, vars, netVars, ctxVars, OnTimer, RegisterTail,
      ReleaseTail, EraseEntry, EraseTwice, HandleData, UnRegister

(* No step releases the ctx of a key whose session stays. *)
LEMMA NothingLeftStep == IInv /\ [Next]_vars => (~early => NothingLeft)'
<1> SUFFICES ASSUME IInv, [Next]_vars, ~early' PROVE NothingLeft'
  OBVIOUS
<1> SUFFICES ASSUME NEW t \in Session, Staying(t)'
             PROVE  (/\ peer[t].key \notin delayQueue
                     /\ \A d \in Ctx : Leads(peer[t].key, d) => life[d] = "live")'
  BY DEF NothingLeft
<1> DEFINE Q == /\ peer[t].key \notin delayQueue
                /\ \A d \in Ctx : Leads(peer[t].key, d) => life[d] = "live"
<1>1. ASSUME NEW s \in Session, NEW p \in Server, Connect(s, p)
      PROVE  Q'
  <2>1. /\ ~early /\ p.key \notin delayQueue
        /\ \A c \in Ctx : Leads(p.key, c) => life[c] = "live"
    BY <1>1, ConnectFacts
  <2>2. /\ peer'[t] = IF t = s THEN p ELSE peer[t]
        /\ UNCHANGED <<delayQueue, byKey, life>>
        /\ t # s => net'[t] = net[t] /\ UNCHANGED gateMsgs
    BY <1>1 DEF Connect, ctxVars, gateVars, IInv, TypeOK
  <2>3. CASE t = s
    BY <2>1, <2>2, <2>3 DEF Leads
  <2>4. CASE t # s
    <3>1. Staying(t)
      BY <2>2, <2>4 DEF Staying
    <3>2. Q
      BY <2>1, <3>1 DEF IInv, NothingLeft
    <3> QED
      BY <2>2, <2>4, <3>2 DEF Leads
  <2> QED
    BY <2>3, <2>4
<1>2. CASE ~\E s \in Session, p \in Server : Connect(s, p)
  <2>0. /\ Staying(t) /\ peer' = peer /\ ~early
        /\ Active(t) /\ ~Leaves(t) /\ peer[t].key \in Key
    BY <1>2, StayingStep, StayingFacts
  <2> DEFINE key == peer[t].key
  <2>1. /\ key \notin delayQueue
        /\ \A d \in Ctx : Leads(key, d) => life[d] = "live"
        /\ \A s \in Session : Active(s) /\ peer[s].key = key => s = t
        /\ TypeOK /\ KeysApart /\ OfItsKey /\ CtxInStep
    BY <2>0 DEF IInv, NothingLeft, OneActive
  <2>2. ASSUME key \notin delayQueue',
               \A d \in Ctx : Leads(key, d)' => life'[d] = "live"
        PROVE  Q'
    BY <2>0, <2>2
  <2> HIDE DEF Q
  <2>3. ASSUME NEW s \in Session, Register(s)
        PROVE  Q'
    <3>1. peer[s].key \in Key /\ delayQueue' = delayQueue
      BY <2>3, RegisterFacts DEF Register
    <3>2. PICK c \in Ctx :
              /\ Create(s, c)
              /\ \/ byKey[peer[s].key] = None /\ life[c] = "none"
                 \/ Leads(peer[s].key, c) /\ life[c] \in {"live", "released"}
      BY <2>3, RegisterFacts
    <3>3. /\ \A k \in Key : byKey'[k] = IF k = peer[s].key THEN [ctx |-> c, session |-> s]
                                                          ELSE byKey[k]
          /\ \A d \in Ctx : life'[d] = IF d = c /\ life[c] = "none" THEN "live" ELSE life[d]
      BY <2>1, <3>1, <3>2 DEF Create, TypeOK
    <3>4. ASSUME NEW d \in Ctx, Leads(key, d)'
          PROVE  life'[d] = "live"
      <4>1. CASE key = peer[s].key
        <5>1. d = c
          BY <2>0, <3>3, <3>4, <4>1 DEF Leads
        <5> QED
          BY <2>1, <3>2, <3>3, <4>1, <5>1
      <4>2. CASE key # peer[s].key
        <5>1. Leads(key, d)
          BY <2>0, <3>3, <3>4, <4>2 DEF Leads
        <5> QED
          BY <2>1, <3>3, <5>1
      <4> QED
        BY <4>1, <4>2
    <3> QED
      BY <2>1, <2>2, <3>1, <3>4
  <2>4. CASE OnTimer
    <3> DEFINE due == {k \in delayQueue : byKey[k] # None}
    <3>1. /\ byKey' = [k \in Key |-> IF k \in due THEN None ELSE byKey[k]]
          /\ life' = [c \in Ctx |-> IF \E k \in due : Leads(k, c) THEN Released(c) ELSE life[c]]
          /\ delayQueue' = {}
      BY <2>4 DEF OnTimer
    <3>2. due \subseteq Key /\ key \notin due
      BY <2>1 DEF TypeOK
    <3> HIDE DEF due
    <3>3. ASSUME NEW d \in Ctx, Leads(key, d)'
          PROVE  life'[d] = "live"
      <4>1. Leads(key, d)
        BY <2>0, <3>1, <3>2, <3>3 DEF Leads
      <4>2. ~\E k \in due : Leads(k, d)
        BY <2>0, <2>1, <3>2, <4>1 DEF KeysApart
      <4> QED
        BY <2>1, <3>1, <4>1, <4>2
    <3> QED
      BY <2>2, <3>1, <3>3
  <2>5. ASSUME NEW c \in Ctx, NEW s \in Session, ReleaseTail(c, s)
        PROVE  Q'
    <3>1. <<"release", s>> \in ctxMsgs[c]
      BY <2>5 DEF ReleaseTail, Take
    <3>2. Leaves(s) /\ Active(s)
      BY <3>1 DEF Leaves, Active
    <3>3. peer[s].key # key /\ peer[s].key \in Key
      BY <2>0, <2>1, <3>2, ActiveKnown DEF IInv
    <3>4. life[c] = "live" => Leads(peer[s].key, c)
      BY <2>1, <3>1 DEF OfItsKey
    <3>5. ~Leads(key, c)
      BY <2>0, <2>1, <3>3, <3>4 DEF KeysApart
    <3>6. /\ delayQueue' \subseteq delayQueue \cup {peer[s].key} /\ byKey' = byKey
          /\ \A d \in Ctx : d # c => life'[d] = life[d]
      BY <2>1, <2>5 DEF ReleaseTail, TypeOK
    <3> QED
      BY <2>0, <2>1, <2>2, <3>3, <3>5, <3>6 DEF Leads
  <2>6. ASSUME NEW c \in Ctx, EraseEntry(c)
        PROVE  Q'
    <3>1. /\ UNCHANGED <<delayQueue, life>>
          /\ \A k \in Key : byKey'[k] = byKey[k] \/ byKey'[k] = None
      BY <2>1, <2>6 DEF EraseEntry, TypeOK
    <3>2. ASSUME NEW d \in Ctx, Leads(key, d)'
          PROVE  life'[d] = "live"
      <4>1. Leads(key, d)
        BY <2>0, <3>1, <3>2 DEF Leads
      <4> QED
        BY <2>1, <3>1, <4>1
    <3>3. key \notin delayQueue'
      BY <2>1, <3>1
    <3> QED
      BY <2>2, <3>2, <3>3
  <2>7. ASSUME NEW c \in Ctx, UnRegister(c)
        PROVE  Q'
    <3>1. /\ UNCHANGED <<delayQueue, byKey>> /\ life[c] = "released"
          /\ \A d \in Ctx : d # c => life'[d] = life[d]
      BY <2>1, <2>7 DEF UnRegister, TypeOK, gateVars
    <3> QED
      BY <2>0, <2>1, <2>2, <3>1 DEF Leads
  <2>8. CASE UNCHANGED <<delayQueue, byKey, life>>
    BY <2>0, <2>1, <2>2, <2>8 DEF Leads
  <2> QED
    BY <1>2, <2>3, <2>4, <2>5, <2>6, <2>7, <2>8
    DEF Next, NetworkStep, GateStep, CtxStep, vars, ctxVars, gateVars, ReceiveRegister,
        ReceiveData, OnDisconnect, RegisterRefused, SessionRelease, RegisterTail, EraseTwice,
        HandleData, Q
<1> QED
  BY <1>1, <1>2

(* No step takes its key from a session that is connected and bound. *)
LEMMA KeyIsOwnStep == IInv /\ [Next]_vars => (~early => KeyIsOwn)'
<1> SUFFICES ASSUME IInv, [Next]_vars, ~early' PROVE KeyIsOwn'
  OBVIOUS
<1> DEFINE Entered(t) ==
      /\ byKey[peer[t].key] = [ctx |-> ctxID[t], session |-> t]
      /\ \/ <<"init", t>> \in ctxMsgs[ctxID[t]]
         \/ global[peer[t].key] = [ctx |-> ctxID[t], session |-> t, name |-> peer[t].name]
<1> SUFFICES ASSUME NEW t \in Session, net'[t] = "open", ctxID'[t] # None
             PROVE  Entered(t)'
  BY DEF KeyIsOwn
<1>0. TypeOK /\ Known /\ KeysApart /\ ErasingReleased
  BY DEF IInv
<1>1. ASSUME NEW s \in Session, NEW p \in Server, Connect(s, p)
      PROVE  Entered(t)'
  <2>1. ~early /\ net[s] = "none"
    BY <1>1, ConnectFacts
  <2>2. ctxID[s] = None /\ ctxID' = ctxID
    BY <1>0, <1>1, <2>1 DEF Connect, Known
  <2>3. t # s
    BY <2>2
  <2>4. net'[t] = net[t] /\ peer'[t] = peer[t] /\ UNCHANGED <<byKey, global, ctxMsgs>>
    BY <1>0, <1>1, <2>3 DEF Connect, TypeOK, ctxVars, gateVars
  <2>5. Entered(t)
    BY <2>1, <2>2, <2>4 DEF IInv, KeyIsOwn
  <2> QED
    BY <2>2, <2>4, <2>5
<1>2. CASE ~\E s \in Session, p \in Server : Connect(s, p)
  <2>0. /\ Staying(t) /\ peer' = peer /\ ~early
        /\ Active(t) /\ ~Leaves(t) /\ peer[t].key \in Key
    <3>1. Staying(t)'
      BY DEF Staying
    <3> QED
      BY <1>2, <3>1, StayingStep, StayingFacts
  <2> DEFINE key == peer[t].key
  <2>1. /\ key \notin delayQueue
        /\ \A d \in Ctx : Leads(key, d) => life[d] = "live"
        /\ \A s \in Session : Active(s) /\ peer[s].key = key => s = t
    BY <2>0 DEF IInv, NothingLeft, OneActive
  <2>2. ASSUME net[t] = "open", ctxID[t] # None
        PROVE  Entered(t) /\ ctxID[t] \in Ctx /\ Leads(key, ctxID[t])
               /\ life[ctxID[t]] = "live"
    <3>1. Entered(t) /\ ctxID[t] \in Ctx
      BY <1>0, <2>0, <2>2 DEF IInv, KeyIsOwn, TypeOK
    <3>2. [ctx |-> ctxID[t], session |-> t] # None
      BY <3>1, NoneFacts DEF Entry
    <3> QED
      BY <2>1, <3>1, <3>2 DEF Leads
  <2>3. ASSUME net[t] = "open", ctxID'[t] = ctxID[t], byKey'[key] = byKey[key],
               \/ global'[key] = global[key] /\
                  (<<"init", t>> \in ctxMsgs[ctxID[t]] => <<"init", t>> \in ctxMsgs'[ctxID[t]])
               \/ global'[key] = [ctx |-> ctxID[t], session |-> t, name |-> peer[t].name]
        PROVE  Entered(t)'
    BY <2>0, <2>2, <2>3
  <2> HIDE DEF Entered
  <2>4. ASSUME NEW s \in Session, ReceiveData(s)
        PROVE  Entered(t)'
    <3>1. net[t] = "open" /\ UNCHANGED <<ctxID, byKey, global>>
      BY <1>0, <2>4 DEF ReceiveData, TypeOK, gateVars
    <3>2. ctxMsgs[ctxID[t]] \subseteq ctxMsgs'[ctxID[t]]
      BY <1>0, <2>2, <2>4, <3>1 DEF ReceiveData, Push, TypeOK
    <3> QED
      BY <2>3, <3>1, <3>2
  <2>5. ASSUME NEW s \in Session, OnDisconnect(s)
        PROVE  Entered(t)'
    <3>1. net[t] = "open" /\ ctxID'[t] = ctxID[t] /\ UNCHANGED <<ctxMsgs, byKey, global>>
      BY <1>0, <2>5 DEF OnDisconnect, TypeOK, ctxVars, gateVars
    <3> QED
      BY <2>3, <3>1
  <2>6. ASSUME NEW s \in Session, RegisterRefused(s)
        PROVE  Entered(t)'
    <3>1. net[t] = "open" /\ UNCHANGED <<ctxID, ctxMsgs, byKey, global>>
      BY <1>0, <2>6 DEF RegisterRefused, Closing, TypeOK, ctxVars, gateVars
    <3> QED
      BY <2>3, <3>1
  <2>7. ASSUME NEW s \in Session, Register(s)
        PROVE  Entered(t)'
    <3>1. peer[s].key \in Key /\ global' = global
      BY <2>7, RegisterFacts DEF Register
    <3>2. PICK c \in Ctx : Create(s, c) /\ Push(c, <<"init", s>>) /\ net' = net
      BY <2>7, RegisterFacts
    <3>3. /\ \A k \in Key : byKey'[k] = IF k = peer[s].key THEN [ctx |-> c, session |-> s]
                                                          ELSE byKey[k]
          /\ ctxID'[t] = IF t = s THEN c ELSE ctxID[t]
      BY <1>0, <3>1, <3>2 DEF Create, TypeOK
    <3>4. CASE t = s
      <4>1. <<"init", t>> \in ctxMsgs'[c]
        BY <1>0, <3>2, <3>4 DEF Push, TypeOK
      <4> QED
        BY <2>0, <3>1, <3>3, <3>4, <4>1 DEF Entered
    <3>5. CASE t # s
      <4>1. Active(s)
        BY <2>7 DEF Register, Active
      <4>2. peer[s].key # key
        BY <2>1, <3>5, <4>1
      <4>3. ctxMsgs[ctxID[t]] \subseteq ctxMsgs'[ctxID[t]]
        BY <1>0, <2>2, <3>2, <3>3, <3>5 DEF Push, TypeOK
      <4> QED
        BY <2>0, <2>3, <3>1, <3>2, <3>3, <3>5, <4>2, <4>3
    <3> QED
      BY <3>4, <3>5
  <2>8. ASSUME NEW s \in Session, SessionRelease(s)
        PROVE  Entered(t)'
    <3>1. <<"release", s>> \in gateMsgs /\ UNCHANGED <<net, ctxID, byKey>>
      BY <2>8 DEF SessionRelease, netVars
    <3>2. Active(s) /\ Leaves(s)
      BY <3>1 DEF Active, Leaves
    <3>3. peer[s].key # key
      BY <2>0, <2>1, <3>2
    <3>4. global'[key] = global[key]
      BY <1>0, <2>0, <2>8, <3>3 DEF SessionRelease, TypeOK
    <3>5. ctxMsgs[ctxID[t]] \subseteq ctxMsgs'[ctxID[t]]
      BY <1>0, <2>2, <2>8, <3>1 DEF SessionRelease, Push, TypeOK
    <3> QED
      BY <2>3, <3>1, <3>4, <3>5
  <2>9. CASE OnTimer
    <3>1. byKey'[key] = byKey[key] /\ UNCHANGED <<net, ctxID, ctxMsgs, global>>
      BY <2>0, <2>1, <2>9 DEF OnTimer, netVars
    <3> QED
      BY <2>3, <3>1
  <2>10. ASSUME NEW c \in Ctx, NEW s \in Session, RegisterTail(c, s)
         PROVE  Entered(t)'
    <3>1. <<"init", s>> \in ctxMsgs[c] /\ UNCHANGED <<net, ctxID, byKey>>
      BY <2>10 DEF RegisterTail, Take, netVars
    <3>2. Active(s)
      BY <3>1 DEF Active
    <3>3. peer[s].key \in Key
      BY <1>0, <3>2, ActiveKnown
    <3>4. CASE t = s
      <4>1. global'[key] = [ctx |-> ctxID[t], session |-> t, name |-> peer[t].name]
        BY <1>0, <2>0, <2>10, <3>4 DEF RegisterTail, TypeOK
      <4> QED
        BY <2>3, <3>1, <4>1
    <3>5. CASE t # s
      <4>1. global'[key] = global[key]
        BY <1>0, <2>0, <2>1, <2>10, <3>2, <3>3, <3>5 DEF RegisterTail, TypeOK
      <4>2. Take(c, <<"init", s>>)
        BY <2>10 DEF RegisterTail
      <4>3. ASSUME <<"init", t>> \in ctxMsgs[ctxID[t]]
            PROVE  <<"init", t>> \in ctxMsgs'[ctxID[t]]
        BY <1>0, <2>2, <3>1, <3>5, <4>2, <4>3, TakeFacts DEF Kind
      <4> QED
        BY <2>3, <3>1, <4>1, <4>3
    <3> QED
      BY <3>4, <3>5
  <2>11. ASSUME NEW c \in Ctx, NEW s \in Session, NEW op \in {"release", "data"},
                Take(c, <<op, s>>), UNCHANGED <<net, ctxID, byKey, global>>
         PROVE  Entered(t)'
    <3>1. ASSUME <<"init", t>> \in ctxMsgs[ctxID[t]]
          PROVE  <<"init", t>> \in ctxMsgs'[ctxID[t]]
      BY <1>0, <2>2, <2>11, <3>1, TakeFacts DEF Kind
    <3> QED
      BY <2>3, <2>11, <3>1
  <2>12. ASSUME NEW c \in Ctx, NEW s \in Session, ReleaseTail(c, s)
         PROVE  Entered(t)'
    BY <2>11, <2>12 DEF ReleaseTail, netVars
  <2>13. ASSUME NEW c \in Ctx, NEW s \in Session, HandleData(c, s)
         PROVE  Entered(t)'
    BY <2>11, <2>13 DEF HandleData, netVars, gateVars
  <2>14. ASSUME NEW c \in Ctx, EraseEntry(c)
         PROVE  Entered(t)'
    <3>1. PICK k \in Key : Leads(k, c) /\ byKey' = [byKey EXCEPT ![k] = None]
      BY <2>14 DEF EraseEntry
    <3>2. UNCHANGED <<net, ctxID, ctxMsgs, global>> /\ life[c] = "released"
      BY <1>0, <2>14 DEF EraseEntry, netVars, ErasingReleased
    <3>3. k # key
      BY <2>1, <3>1, <3>2
    <3>4. byKey'[key] = byKey[key]
      BY <1>0, <2>0, <3>1, <3>3 DEF TypeOK
    <3> QED
      BY <2>3, <3>2, <3>4
  <2>15. ASSUME NEW c \in Ctx, UnRegister(c)
         PROVE  Entered(t)'
    <3>1. UNCHANGED <<net, ctxID, byKey, global>> /\ life[c] = "released"
      BY <2>15 DEF UnRegister, netVars, gateVars
    <3>2. ctxID[t] # c /\ ctxID[t] \in Ctx
      BY <2>2, <3>1
    <3>3. ctxMsgs'[ctxID[t]] = ctxMsgs[ctxID[t]]
      BY <1>0, <2>15, <3>2 DEF UnRegister, TypeOK
    <3> QED
      BY <2>3, <3>1, <3>3
  <2>16. CASE UNCHANGED <<net, ctxID, ctxMsgs, byKey, global>>
    BY <2>3, <2>16
  <2> QED
    BY <1>2, <2>4, <2>5, <2>6, <2>7, <2>8, <2>9, <2>10, <2>12, <2>13, <2>14, <2>15, <2>16
    DEF Next, NetworkStep, GateStep, CtxStep, vars, netVars, ctxVars, gateVars,
        ReceiveRegister, EraseTwice
<1> QED
  BY <1>1, <1>2

(***************************************************************************)
(* The theorems.                                                           *)
(***************************************************************************)
(* The inductive invariant holds in every reachable state. *)
THEOREM Invariance == Spec => []IInv
<1>1. Init => IInv
  <2> SUFFICES ASSUME Init PROVE IInv
    OBVIOUS
  <2>1. TypeOK
    <3>1. /\ net \in [Session -> {"none", "open", "closing", "closed"}]
          /\ peer \in [Session -> Server \cup {None}]
          /\ asked \in [Session -> BOOLEAN]
          /\ ctxID \in [Session -> Ctx \cup {None}]
          /\ answers \in [Session -> 0..2]
          /\ gateMsgs \subseteq {"register", "release"} \X Session
      BY DEF Init
    <3>2. ctxMsgs \in [Ctx -> SUBSET ({"init", "release", "data"} \X Session)]
      BY DEF Init
    <3>3. /\ life \in [Ctx -> {"none", "live", "released", "gone"}]
          /\ erasing \in [Ctx -> BOOLEAN]
          /\ byKey \in [Key -> Entry \cup {None}]
          /\ global \in [Key -> [ctx : Ctx \cup {None}, session : Session, name : Name]
                                \cup {None}]
          /\ delayQueue \subseteq Key
      BY DEF Init
    <3>4. delayed \in BOOLEAN /\ early \in BOOLEAN /\ crashed \in BOOLEAN
      BY Zenon DEF Init
    <3> QED
      BY <3>1, <3>2, <3>3, <3>4 DEF TypeOK
  <2>2. CtxInStep /\ KeysApart
    BY DEF Init, CtxInStep, KeysApart, Leads
  <2>3. AnsweredOnce /\ ErasingReleased /\ Known
    BY DEF Init, AnsweredOnce, ErasingReleased, Known
  <2>4. BoundOnce /\ OfItsKey
    BY DEF Init, BoundOnce, OfItsKey, Leaves
  <2>5. OneActive /\ NothingLeft /\ KeyIsOwn
    BY DEF Init, OneActive, NothingLeft, KeyIsOwn, Active, Staying
  <2> QED
    BY <2>1, <2>2, <2>3, <2>4, <2>5 DEF IInv
<1>2. IInv /\ [Next]_vars => IInv'
  BY TypeStep, InStepStep, AnswerStep, ApartStep, ErasingStep, KnownStep, BoundOnceStep,
     OfItsKeyStep, OneActiveStep, NothingLeftStep, KeyIsOwnStep DEF IInv
<1> QED
  BY <1>1, <1>2, PTL DEF Spec

(* Type correctness of the sessions, the ctxs and the gate. *)
THEOREM TypeCorrect == Spec => []TypeOK
<1>1. IInv => TypeOK
  BY DEF IInv
<1> QED
  BY <1>1, Invariance, PTL

(* The map of the gate and the registry of ctxs stay in step, however the     *)
(* handlers of the gate and what runs on in the ctxs of sessions interleave.  *)
THEOREM MapInStep == Spec => []CtxInStep
<1>1. IInv => CtxInStep
  BY DEF IInv
<1> QED
  BY <1>1, Invariance, PTL

(* A Register is answered exactly once. *)
THEOREM OneAnswer == Spec => []AnsweredOnce
<1>1. IInv => AnsweredOnce
  BY DEF IInv
<1> QED
  BY <1>1, Invariance, PTL

(* A server that has registered is found under its key, with its own session  *)
(* and a ctx that is not released, as long as none came early.                *)
THEOREM ServerFound == Spec => []Reachable
<1>1. IInv => Reachable
  <2> SUFFICES ASSUME IInv, ~early, NEW s \in Session,
                      net[s] = "open", ctxID[s] # None, ~Pending(s)
               PROVE  LET k == peer[s].key IN
                      /\ global[k] = [ctx |-> ctxID[s], session |-> s, name |-> peer[s].name]
                      /\ byKey[k] = [ctx |-> ctxID[s], session |-> s]
                      /\ life[ctxID[s]] = "live"
    BY DEF Reachable
  <2>1. ctxID[s] \in Ctx /\ Staying(s) /\ peer[s].key \in Key
    BY StayingFacts DEF IInv, TypeOK, Staying
  <2>2. [ctx |-> ctxID[s], session |-> s] # None
    BY <2>1, NoneFacts DEF Entry
  <2>3. byKey[peer[s].key] = [ctx |-> ctxID[s], session |-> s]
    BY DEF IInv, KeyIsOwn
  <2>4. <<"init", s>> \notin ctxMsgs[ctxID[s]]
    BY <2>1 DEF Pending
  <2>5. global[peer[s].key] = [ctx |-> ctxID[s], session |-> s, name |-> peer[s].name]
    BY <2>4 DEF IInv, KeyIsOwn
  <2>6. life[ctxID[s]] = "live"
    BY <2>1, <2>2, <2>3 DEF IInv, NothingLeft, Leads
  <2> QED
    BY <2>3, <2>5, <2>6
<1> QED
  BY <1>1, Invariance, PTL

=============================================================================
