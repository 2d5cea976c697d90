--------------------------- MODULE CtxRedisProofs ---------------------------
(***************************************************************************)
(* Proofs about CtxRedis for every set of requests, whatever they chain,   *)
(* every handshake and any number of connections.  The hard part is which  *)
(* reply the front of the list gets.  The queue of the ctx may hand over   *)
(* any message, so that is only known while no reply and no disconnect was *)
(* taken before one that was pushed earlier (overtaken): what was sent on  *)
(* one connection is together in the list, its replies are together in the *)
(* queue, and what a lost connection left in front of another's is gone    *)
(* before the replies to that come up, for the disconnect was pushed       *)
(* earlier.  All else holds in whatever order the messages are taken: Base *)
(* has no such condition.                                                  *)
(*                                                                         *)
(* The last part is about CtxRedisWatch, the other ctx that talks to such  *)
(* a server.                                                               *)
(***************************************************************************)
EXTENDS CtxRedis, TLAPS

(***************************************************************************)
(* Sequences.  Longer(t, q, e) is what Append makes of q, Rest(t, q) what  *)
(* Tail does, Cut(t, q, p) what is left without the element at p, as facts *)
(* about their elements.                                                   *)
(***************************************************************************)
Longer(t, q, e) ==
  /\ Len(t) = Len(q) + 1
  /\ \A i \in 1 .. Len(q) : t[i] = q[i]
  /\ t[Len(q) + 1] = e

Rest(t, q) ==
  /\ Len(q) = Len(t) + 1
  /\ \A i \in 1 .. Len(t) : t[i] = q[i + 1]

Cut(t, q, p) ==
  /\ Len(q) = Len(t) + 1 /\ p \in 1 .. Len(q)
  /\ \A i \in 1 .. Len(t) : t[i] = IF i < p THEN q[i] ELSE q[i + 1]

LEMMA AppendIsLonger ==
  ASSUME NEW S, NEW q \in Seq(S), NEW e \in S
  PROVE  /\ Append(q, e) \in Seq(S)
         /\ Longer(Append(q, e), q, e)
BY DEF Longer

LEMMA TailIsRest ==
  ASSUME NEW S, NEW q \in Seq(S), q # <<>>
  PROVE  /\ Tail(q) \in Seq(S)
         /\ Rest(Tail(q), q)
         /\ Head(q) = q[1]
         /\ Head(q) \in S
BY DEF Rest

LEMMA WithoutIsCut ==
  ASSUME NEW S, NEW q \in Seq(S), NEW p \in 1 .. Len(q)
  PROVE  /\ Without(q, p) \in Seq(S)
         /\ Cut(Without(q, p), q, p)
         /\ q[p] \in S
<1> DEFINE f == [i \in 1 .. Len(q) - 1 |-> IF i < p THEN q[i] ELSE q[i + 1]]
<1>1. Len(q) - 1 \in Nat /\ \A i \in 1 .. Len(q) : q[i] \in S
  OBVIOUS
<1>2. \A i \in 1 .. Len(q) - 1 : i \in 1 .. Len(q) /\ i + 1 \in 1 .. Len(q)
  BY <1>1
<1>3. f \in [1 .. Len(q) - 1 -> S]
  BY <1>1, <1>2
<1>4. f \in Seq(S) /\ Len(f) = Len(q) - 1
  BY <1>1, <1>3
<1> QED BY <1>1, <1>4 DEF Without, Cut

LEMMA CutCases ==
  ASSUME NEW q, NEW t, NEW p, Len(q) \in Nat, Len(t) \in Nat, Cut(t, q, p),
         NEW i \in 1 .. Len(t)
  PROVE  \/ i < p /\ i \in 1 .. Len(q) /\ t[i] = q[i]
         \/ ~(i < p) /\ i + 1 \in 1 .. Len(q) /\ i + 1 # p /\ t[i] = q[i + 1]
BY DEF Cut

(* Whatever is not cut out is still there. *)
LEMMA CutKeeps ==
  ASSUME NEW q, NEW t, NEW p, Len(q) \in Nat, Len(t) \in Nat, Cut(t, q, p),
         NEW j \in 1 .. Len(q), j # p
  PROVE  \/ j < p /\ j \in 1 .. Len(t) /\ t[j] = q[j]
         \/ p < j /\ j - 1 \in 1 .. Len(t) /\ t[j - 1] = q[j]
BY DEF Cut

LEMMA NoneIsEmpty ==
  ASSUME NEW S, NEW q \in Seq(S)
  PROVE  /\ Len(q) \in Nat
         /\ q = <<>> <=> Len(q) = 0
         /\ \A i \in 1 .. Len(q) : q[i] \in S
OBVIOUS

LEMMA LongerCases ==
  ASSUME NEW q, NEW t, NEW e, Len(q) \in Nat, Longer(t, q, e), NEW i \in 1 .. Len(t)
  PROVE  \/ i \in 1 .. Len(q) /\ t[i] = q[i]
         \/ i = Len(q) + 1 /\ i \notin 1 .. Len(q) /\ t[i] = e
BY DEF Longer

(***************************************************************************)
(* The list q of requests and the queue s of messages.                     *)
(***************************************************************************)
IsReply(m, g) == m.kind = "reply" /\ m.gen = g
IsEnd(m) == m.kind = "disconnect"

(* What was sent on connection g is at a + 1 .. a + n of the list, and the *)
(* replies to the first k of it are at b + 1 .. b + k of the queue.        *)
Block(q, s, g, a, n, b, k) ==
  /\ a + n <= Len(q) /\ b + k <= Len(s) /\ k <= n
  /\ \A i \in 1 .. Len(q) : q[i].gen = g <=> a < i /\ i <= a + n
  /\ \A i \in 1 .. Len(s) : IsReply(s[i], g) <=> b < i /\ i <= b + k
  /\ \A i \in 1 .. k : q[a + i].req = s[b + i].req

HasBlock(q, s, g) == \E a, n, b, k \in Nat : Block(q, s, g, a, n, b, k)

(* The list ends in what was sent on g, the queue in the replies to the    *)
(* first of it, and the server has the others.                             *)
StepAt(q, s, srv, g, a, b) ==
  /\ a <= Len(q) /\ b <= Len(s)
  /\ \A i \in 1 .. Len(q) : q[i].gen = g <=> i > a
  /\ \A i \in 1 .. Len(s) : IsReply(s[i], g) <=> i > b
  /\ Len(q) - a = Len(s) - b + Len(srv)
  /\ \A i \in 1 .. Len(s) - b : q[a + i].req = s[b + i].req
  /\ \A i \in 1 .. Len(srv) : q[a + (Len(s) - b) + i].req = srv[i]

InStepOn(q, s, srv, g) == \E a, b \in Nat : StepAt(q, s, srv, g, a, b)

(* A disconnect is before every reply of g.  *)
EndsBefore(s, g) ==
  \E k \in 1 .. Len(s) : IsEnd(s[k]) /\ \A j \in 1 .. Len(s) : IsReply(s[j], g) => k < j

HasReply(s, g) == \E j \in 1 .. Len(s) : IsReply(s[j], g)

(* When a reply of g may come up, or is still to come, the front of the    *)
(* list was sent on g, or is going to be failed before that.               *)
FrontOn(q, s, g, up) ==
  Len(q) # 0 /\ q[1].gen # g /\ (up \/ HasReply(s, g)) => EndsBefore(s, g)

(* Nothing was sent on g, or everything was answered. *)
NothingOn(q, s, g) ==
  /\ \A i \in 1 .. Len(q) : q[i].gen # g
  /\ \A i \in 1 .. Len(s) : ~IsReply(s[i], g)

-----------------------------------------------------------------------------
(* The list grows by an entry of another connection, or of none. *)
LEMMA BlockSendOther ==
  ASSUME NEW q, NEW t, NEW e, NEW s, NEW g, Len(q) \in Nat, Len(s) \in Nat,
         Longer(t, q, e), e.gen # g, HasBlock(q, s, g)
  PROVE  HasBlock(t, s, g)
<1>1. PICK a, n, b, k \in Nat : Block(q, s, g, a, n, b, k)
  BY DEF HasBlock
<1>2. a + n <= Len(t) /\ \A i \in 1 .. Len(t) : t[i].gen = g <=> a < i /\ i <= a + n
  <2>1. a + n <= Len(q) /\ a + n <= Len(t)
    BY <1>1 DEF Block, Longer
  <2>2. ASSUME NEW i \in 1 .. Len(t)
        PROVE  t[i].gen = g <=> a < i /\ i <= a + n
    <3>1. CASE i \in 1 .. Len(q) /\ t[i] = q[i]
      BY <1>1, <3>1 DEF Block
    <3>2. CASE i = Len(q) + 1 /\ t[i] = e
      BY <2>1, <3>2
    <3> QED BY <3>1, <3>2, LongerCases
  <2> QED BY <2>1, <2>2
<1>3. ASSUME NEW i \in 1 .. k
      PROVE  t[a + i].req = s[b + i].req
  <2>1. a + i \in 1 .. Len(q) /\ q[a + i].req = s[b + i].req
    BY <1>1 DEF Block
  <2> QED BY <2>1 DEF Longer
<1>4. Block(t, s, g, a, n, b, k)
  BY <1>1, <1>2, <1>3 DEF Block
<1> QED BY <1>4 DEF HasBlock

(* The list grows by an entry of g while it ends in those of g. *)
LEMMA BlockSend ==
  ASSUME NEW q, NEW t, NEW e, NEW s, NEW srv, NEW g,
         Len(q) \in Nat, Len(s) \in Nat, Len(srv) \in Nat,
         Longer(t, q, e), e.gen = g, InStepOn(q, s, srv, g)
  PROVE  HasBlock(t, s, g)
<1>1. PICK a, b \in Nat : StepAt(q, s, srv, g, a, b)
  BY DEF InStepOn
<1> DEFINE n == Len(t) - a  k == Len(s) - b
<1>2. n \in Nat /\ k \in Nat /\ a + n = Len(t) /\ b + k = Len(s) /\ k <= n
  BY <1>1 DEF StepAt, Longer
<1>3. ASSUME NEW i \in 1 .. Len(t)
      PROVE  t[i].gen = g <=> a < i
  <2>1. CASE i \in 1 .. Len(q) /\ t[i] = q[i]
    BY <1>1, <2>1 DEF StepAt
  <2>2. CASE i = Len(q) + 1 /\ t[i] = e
    BY <1>1, <2>2 DEF StepAt
  <2> QED BY <2>1, <2>2, LongerCases
<1>4. ASSUME NEW i \in 1 .. k
      PROVE  t[a + i].req = s[b + i].req
  <2>1. a + i \in 1 .. Len(q) /\ q[a + i].req = s[b + i].req
    BY <1>1 DEF StepAt
  <2> QED BY <2>1 DEF Longer
<1>5. \A i \in 1 .. Len(s) : IsReply(s[i], g) <=> b < i
  BY <1>1 DEF StepAt
<1> HIDE DEF n, k
<1>6. Block(t, s, g, a, n, b, k)
  BY <1>2, <1>3, <1>4, <1>5 DEF Block
<1> QED BY <1>2, <1>6 DEF HasBlock

(* The request goes to the end of the list and to the server. *)
LEMMA StepSend ==
  ASSUME NEW q, NEW t, NEW e, NEW s, NEW srv, NEW rest, NEW r, NEW g,
         Len(q) \in Nat, Len(s) \in Nat, Len(srv) \in Nat,
         Longer(t, q, e), e.gen = g, e.req = r, Longer(rest, srv, r),
         InStepOn(q, s, srv, g)
  PROVE  InStepOn(t, s, rest, g)
<1>1. PICK a, b \in Nat : StepAt(q, s, srv, g, a, b)
  BY DEF InStepOn
<1>2. StepAt(t, s, rest, g, a, b)
  <2>1. /\ a <= Len(t) /\ b <= Len(s)
        /\ \A i \in 1 .. Len(s) : IsReply(s[i], g) <=> i > b
        /\ Len(t) - a = Len(s) - b + Len(rest)
    <3>1. /\ a <= Len(q) /\ b <= Len(s)
          /\ \A i \in 1 .. Len(s) : IsReply(s[i], g) <=> i > b
          /\ Len(q) - a = Len(s) - b + Len(srv)
      BY <1>1 DEF StepAt
    <3>2. Len(t) = Len(q) + 1 /\ Len(rest) = Len(srv) + 1
      BY DEF Longer
    <3> QED BY <3>1, <3>2
  <2>4. ASSUME NEW i \in 1 .. Len(t)
        PROVE  t[i].gen = g <=> i > a
    <3>1. CASE i \in 1 .. Len(q) /\ t[i] = q[i]
      BY <1>1, <3>1 DEF StepAt
    <3>2. CASE i = Len(q) + 1 /\ t[i] = e
      BY <1>1, <3>2 DEF StepAt
    <3> QED BY <3>1, <3>2, LongerCases
  <2>2. ASSUME NEW i \in 1 .. Len(s) - b
        PROVE  t[a + i].req = s[b + i].req
    <3>1. a + i \in 1 .. Len(q) /\ q[a + i].req = s[b + i].req
      BY <1>1 DEF StepAt
    <3> QED BY <3>1 DEF Longer
  <2>3. ASSUME NEW i \in 1 .. Len(rest)
        PROVE  t[a + (Len(s) - b) + i].req = rest[i]
    <3>1. CASE i \in 1 .. Len(srv)
      BY <1>1, <3>1 DEF StepAt, Longer
    <3>2. CASE i = Len(srv) + 1
      <4>1. /\ Len(q) - a = Len(s) - b + Len(srv)
            /\ a <= Len(q) /\ b <= Len(s)
        BY <1>1 DEF StepAt
      <4>2. a + (Len(s) - b) + i = Len(q) + 1
        BY ONLY <4>1, <3>2, a \in Nat, b \in Nat, Len(q) \in Nat, Len(s) \in Nat,
                Len(srv) \in Nat
      <4> QED BY <4>2, <3>2 DEF Longer
    <3> QED BY <3>1, <3>2 DEF Longer
  <2> QED BY <2>1, <2>2, <2>3, <2>4 DEF StepAt
<1> QED BY <1>2 DEF InStepOn

(* The queue grows by a message that is no reply of g. *)
LEMMA BlockMessage ==
  ASSUME NEW q, NEW s, NEW t, NEW m, NEW g, Len(q) \in Nat, Len(s) \in Nat,
         Longer(t, s, m), ~IsReply(m, g), HasBlock(q, s, g)
  PROVE  HasBlock(q, t, g)
<1>1. PICK a, n, b, k \in Nat : Block(q, s, g, a, n, b, k)
  BY DEF HasBlock
<1>2. b + k <= Len(s) /\ b + k <= Len(t)
  BY <1>1 DEF Block, Longer
<1>3. ASSUME NEW i \in 1 .. Len(t)
      PROVE  IsReply(t[i], g) <=> b < i /\ i <= b + k
  <2>1. CASE i \in 1 .. Len(s) /\ t[i] = s[i]
    BY <1>1, <2>1 DEF Block
  <2>2. CASE i = Len(s) + 1 /\ t[i] = m
    BY <1>2, <2>2
  <2> QED BY <2>1, <2>2, LongerCases
<1>4. ASSUME NEW i \in 1 .. k
      PROVE  q[a + i].req = t[b + i].req
  <2>1. b + i \in 1 .. Len(s) /\ q[a + i].req = s[b + i].req
    BY <1>1 DEF Block
  <2> QED BY <2>1 DEF Longer
<1>5. Block(q, t, g, a, n, b, k)
  BY <1>1, <1>2, <1>3, <1>4 DEF Block
<1> QED BY <1>5 DEF HasBlock

(* The server answers. *)
LEMMA BlockReply ==
  ASSUME NEW q, NEW s, NEW t, NEW m, NEW srv, NEW g,
         Len(q) \in Nat, Len(s) \in Nat, Len(srv) \in Nat, Len(srv) # 0,
         Longer(t, s, m), IsReply(m, g), m.req = srv[1], InStepOn(q, s, srv, g)
  PROVE  HasBlock(q, t, g)
<1>1. PICK a, b \in Nat : StepAt(q, s, srv, g, a, b)
  BY DEF InStepOn
<1> DEFINE n == Len(q) - a  k == Len(t) - b
<1>2. n \in Nat /\ k \in Nat /\ a + n = Len(q) /\ b + k = Len(t) /\ k <= n
  BY <1>1 DEF StepAt, Longer
<1>3. /\ \A i \in 1 .. Len(q) : q[i].gen = g <=> a < i /\ i <= a + n
      /\ \A i \in 1 .. Len(t) : IsReply(t[i], g) <=> b < i /\ i <= b + k
  BY <1>1, <1>2 DEF StepAt, Longer
<1>4. ASSUME NEW i \in 1 .. k
      PROVE  q[a + i].req = t[b + i].req
  <2>1. CASE i \in 1 .. Len(s) - b
    <3>1. b + i \in 1 .. Len(s) /\ q[a + i].req = s[b + i].req
      BY <1>1, <2>1 DEF StepAt
    <3> QED BY <3>1 DEF Longer
  <2>2. CASE i = Len(s) - b + 1
    <3>1. b + i = Len(s) + 1 /\ 1 \in 1 .. Len(srv) /\ a + i = a + (Len(s) - b) + 1
      BY <1>1, <2>2
    <3>2. q[a + i].req = srv[1]
      BY <1>1, <3>1 DEF StepAt
    <3> QED BY <3>1, <3>2 DEF Longer
  <2> QED BY <2>1, <2>2, <1>1 DEF StepAt, Longer
<1> HIDE DEF n, k
<1>5. Block(q, t, g, a, n, b, k)
  BY <1>2, <1>3, <1>4 DEF Block
<1> QED BY <1>2, <1>5 DEF HasBlock

LEMMA StepReply ==
  ASSUME NEW q, NEW s, NEW t, NEW m, NEW srv, NEW rest, NEW g,
         Len(q) \in Nat, Len(s) \in Nat, Len(srv) \in Nat, Len(rest) \in Nat,
         Rest(rest, srv),
         Longer(t, s, m), IsReply(m, g), m.req = srv[1], InStepOn(q, s, srv, g)
  PROVE  InStepOn(q, t, rest, g)
<1>1. PICK a, b \in Nat : StepAt(q, s, srv, g, a, b)
  BY DEF InStepOn
<1>2. /\ a <= Len(q) /\ b <= Len(t)
      /\ \A i \in 1 .. Len(q) : q[i].gen = g <=> i > a
      /\ \A i \in 1 .. Len(t) : IsReply(t[i], g) <=> i > b
      /\ Len(q) - a = Len(t) - b + Len(rest)
  BY <1>1 DEF StepAt, Longer, Rest
<1>3. ASSUME NEW i \in 1 .. Len(t) - b
      PROVE  q[a + i].req = t[b + i].req
  <2>1. CASE i \in 1 .. Len(s) - b
    <3>1. b + i \in 1 .. Len(s) /\ q[a + i].req = s[b + i].req
      BY <1>1, <2>1 DEF StepAt
    <3> QED BY <3>1 DEF Longer
  <2>2. CASE i = Len(s) - b + 1
    <3>1. b + i = Len(s) + 1 /\ 1 \in 1 .. Len(srv) /\ a + i = a + (Len(s) - b) + 1
      BY <1>1, <2>2 DEF Rest
    <3>2. q[a + i].req = srv[1]
      BY <1>1, <3>1 DEF StepAt
    <3> QED BY <3>1, <3>2 DEF Longer
  <2>3. Len(t) = Len(s) + 1 /\ b <= Len(s)
    BY <1>1 DEF StepAt, Longer
  <2> QED BY <2>1, <2>2, <2>3
<1>4. ASSUME NEW i \in 1 .. Len(rest)
      PROVE  q[a + (Len(t) - b) + i].req = rest[i]
  <2>1. i + 1 \in 1 .. Len(srv) /\ rest[i] = srv[i + 1]
    BY DEF Rest
  <2>2. a + (Len(t) - b) + i = a + (Len(s) - b) + (i + 1)
    BY DEF Longer
  <2> QED BY <1>1, <2>1, <2>2 DEF StepAt
<1>5. StepAt(q, t, rest, g, a, b)
  BY <1>2, <1>3, <1>4 DEF StepAt
<1> QED BY <1>5 DEF InStepOn

(* A message that is no reply of g is taken out of the queue. *)
LEMMA BlockNextMessage ==
  ASSUME NEW q, NEW s, NEW t, NEW p, NEW g,
         Len(q) \in Nat, Len(s) \in Nat, Len(t) \in Nat,
         Cut(t, s, p), ~IsReply(s[p], g), HasBlock(q, s, g)
  PROVE  HasBlock(q, t, g)
<1>1. PICK a, n, b, k \in Nat : Block(q, s, g, a, n, b, k)
  BY DEF HasBlock
<1>2. p \in 1 .. Len(s) /\ ~(b < p /\ p <= b + k) /\ Len(s) = Len(t) + 1 /\ b + k <= Len(s)
  BY <1>1 DEF Block, Cut
<1>3. CASE p <= b
  <2>1. b - 1 \in Nat /\ (b - 1) + k <= Len(t)
    BY <1>2, <1>3
  <2>2. ASSUME NEW i \in 1 .. Len(t)
        PROVE  IsReply(t[i], g) <=> b - 1 < i /\ i <= (b - 1) + k
    <3>1. CASE i < p /\ i \in 1 .. Len(s) /\ t[i] = s[i]
      <4>1. ~(b < i) /\ ~(b - 1 < i)
        BY <1>2, <1>3, <3>1
      <4> QED BY <1>1, <3>1, <4>1 DEF Block
    <3>2. CASE i + 1 \in 1 .. Len(s) /\ t[i] = s[i + 1]
      BY <1>1, <3>2 DEF Block
    <3> QED BY <3>1, <3>2, CutCases
  <2>3. ASSUME NEW i \in 1 .. k
        PROVE  q[a + i].req = t[(b - 1) + i].req
    <3>1. /\ (b - 1) + i \in 1 .. Len(t) /\ ((b - 1) + i) + 1 = b + i
          /\ ~((b - 1) + i < p)
      BY <2>1, <1>2, <1>3
    <3>2. t[(b - 1) + i] = s[b + i]
      BY <3>1 DEF Cut
    <3> QED BY <1>1, <3>2 DEF Block
  <2>4. Block(q, t, g, a, n, b - 1, k)
    BY <1>1, <2>1, <2>2, <2>3 DEF Block
  <2> QED BY <2>1, <2>4 DEF HasBlock
<1>4. CASE ~(p <= b)
  <2>1. CASE k = 0
    <3>1. \A i \in 1 .. Len(s) : ~IsReply(s[i], g)
      BY <1>1, <2>1 DEF Block
    <3>2. \A i \in 1 .. Len(t) : ~IsReply(t[i], g)
      BY <3>1, CutCases
    <3>3. Block(q, t, g, a, n, 0, 0)
      BY <1>1, <3>2 DEF Block
    <3> QED BY <3>3 DEF HasBlock
  <2>2. CASE k # 0
    <3>1. b + k < p /\ b + k <= Len(t)
      BY <1>2, <1>4
    <3>2. ASSUME NEW i \in 1 .. Len(t)
          PROVE  IsReply(t[i], g) <=> b < i /\ i <= b + k
      <4>1. CASE i \in 1 .. Len(s) /\ t[i] = s[i]
        BY <1>1, <4>1 DEF Block
      <4>2. CASE ~(i < p) /\ i + 1 \in 1 .. Len(s) /\ t[i] = s[i + 1]
        <5>1. ~(i <= b + k) /\ ~(i + 1 <= b + k)
          BY <1>2, <3>1, <4>2
        <5> QED BY <1>1, <4>2, <5>1 DEF Block
      <4> QED BY <4>1, <4>2, CutCases
    <3>3. ASSUME NEW i \in 1 .. k
          PROVE  q[a + i].req = t[b + i].req
      <4>1. b + i \in 1 .. Len(t) /\ b + i < p
        <5>1. b + i <= b + k /\ b + i \in Nat /\ 1 <= b + i
          OBVIOUS
        <5> QED BY <5>1, <3>1, <1>2
      <4>2. t[b + i] = s[b + i]
        BY <4>1 DEF Cut
      <4> QED BY <1>1, <4>2 DEF Block
    <3>4. Block(q, t, g, a, n, b, k)
      BY <1>1, <3>1, <3>2, <3>3 DEF Block
    <3> QED BY <3>4 DEF HasBlock
  <2> QED BY <2>1, <2>2
<1> QED BY <1>3, <1>4

LEMMA StepNextMessage ==
  ASSUME NEW q, NEW s, NEW t, NEW p, NEW srv, NEW g,
         Len(q) \in Nat, Len(s) \in Nat, Len(t) \in Nat, Len(srv) \in Nat,
         Cut(t, s, p), ~IsReply(s[p], g), InStepOn(q, s, srv, g)
  PROVE  InStepOn(q, t, srv, g)
<1>1. PICK a, b \in Nat : StepAt(q, s, srv, g, a, b)
  BY DEF InStepOn
<1>2. /\ p \in 1 .. Len(s) /\ p <= b /\ Len(s) = Len(t) + 1
      /\ b - 1 \in Nat /\ b - 1 <= Len(t) /\ Len(t) - (b - 1) = Len(s) - b
  BY <1>1 DEF StepAt, Cut
<1>3. ASSUME NEW i \in 1 .. Len(t)
      PROVE  IsReply(t[i], g) <=> i > b - 1
  <2>1. CASE i < p /\ i \in 1 .. Len(s) /\ t[i] = s[i]
    <3>1. ~(i > b) /\ ~(i > b - 1)
      BY <1>2, <2>1
    <3> QED BY <1>1, <2>1, <3>1 DEF StepAt
  <2>2. CASE i + 1 \in 1 .. Len(s) /\ t[i] = s[i + 1]
    BY <1>1, <2>2 DEF StepAt
  <2> QED BY <2>1, <2>2, CutCases
<1>4. ASSUME NEW i \in 1 .. Len(t) - (b - 1)
      PROVE  q[a + i].req = t[(b - 1) + i].req
  <2>1. /\ (b - 1) + i \in 1 .. Len(t) /\ ((b - 1) + i) + 1 = b + i /\ i \in 1 .. Len(s) - b
        /\ ~((b - 1) + i < p)
    BY <1>2
  <2>2. t[(b - 1) + i] = s[b + i]
    BY <2>1 DEF Cut
  <2> QED BY <1>1, <2>1, <2>2 DEF StepAt
<1>5. StepAt(q, t, srv, g, a, b - 1)
  BY <1>1, <1>2, <1>3, <1>4 DEF StepAt
<1> QED BY <1>2, <1>5 DEF InStepOn

(* Nothing that counts is before the message at p. *)
IsFirst(s, p) == \A i \in 1 .. Len(s) : i < p => ~IsEnd(s[i]) /\ \A g : ~IsReply(s[i], g)

(* The front gets the reply of g that comes up: both are the first of g. *)
LEMMA FrontGetsOwn ==
  ASSUME NEW q, NEW s, NEW g, NEW up, Len(q) \in Nat, Len(s) \in Nat, NEW p \in 1 .. Len(s),
         IsFirst(s, p), IsReply(s[p], g), HasBlock(q, s, g), FrontOn(q, s, g, up)
  PROVE  Len(q) # 0 /\ q[1].gen = g /\ q[1].req = s[p].req
<1>1. PICK a, n, b, k \in Nat : Block(q, s, g, a, n, b, k)
  BY DEF HasBlock
<1>2. b < p /\ p <= b + k
  BY <1>1 DEF Block
<1>3. b = p - 1 /\ k # 0 /\ n # 0 /\ Len(q) # 0
  <2>1. k # 0 /\ n # 0 /\ Len(q) # 0
    BY <1>1, <1>2 DEF Block
  <2>2. b + 1 \in 1 .. Len(s) /\ b < b + 1 /\ b + 1 <= b + k
    BY <1>2, <2>1
  <2>3. IsReply(s[b + 1], g)
    BY <1>1, <2>2 DEF Block
  <2>4. ~(b + 1 < p)
    BY <2>2, <2>3 DEF IsFirst
  <2> QED BY <1>2, <2>1, <2>4
<1>4. ~EndsBefore(s, g)
  <2> SUFFICES ASSUME NEW j \in 1 .. Len(s), IsEnd(s[j]),
                      \A i \in 1 .. Len(s) : IsReply(s[i], g) => j < i
               PROVE  FALSE
    BY DEF EndsBefore
  <2>1. j < p
    OBVIOUS
  <2> QED BY <2>1 DEF IsFirst
<1>5. HasReply(s, g)
  BY DEF HasReply
<1>6. q[1].gen = g
  BY <1>3, <1>4, <1>5 DEF FrontOn
<1>7. a = 0
  BY <1>1, <1>3, <1>6 DEF Block
<1>8. 1 \in 1 .. k /\ a + 1 = 1 /\ b + 1 = p
  BY <1>3, <1>7
<1> QED BY <1>1, <1>3, <1>6, <1>8 DEF Block

(* The front leaves the list, while no reply of its connection waits.      *)
LEMMA BlockDrop ==
  ASSUME NEW q, NEW t, NEW s, NEW g, Len(q) \in Nat, Len(t) \in Nat, Len(s) \in Nat,
         Rest(t, q), q[1].gen # g \/ ~HasReply(s, g), HasBlock(q, s, g)
  PROVE  HasBlock(t, s, g)
<1>1. PICK a, n, b, k \in Nat : Block(q, s, g, a, n, b, k)
  BY DEF HasBlock
<1>2. CASE a # 0
  <2>1. a - 1 \in Nat /\ (a - 1) + n <= Len(t)
    BY <1>1, <1>2 DEF Block, Rest
  <2>2. ASSUME NEW i \in 1 .. Len(t)
        PROVE  t[i].gen = g <=> a - 1 < i /\ i <= (a - 1) + n
    <3>1. i + 1 \in 1 .. Len(q) /\ t[i] = q[i + 1]
      BY DEF Rest
    <3> QED BY <1>1, <3>1 DEF Block
  <2>3. ASSUME NEW i \in 1 .. k
        PROVE  t[(a - 1) + i].req = s[b + i].req
    <3>1. (a - 1) + i \in 1 .. Len(t) /\ ((a - 1) + i) + 1 = a + i
      BY <1>1, <1>2, <2>1 DEF Block
    <3> QED BY <1>1, <3>1 DEF Block, Rest
  <2>4. Block(t, s, g, a - 1, n, b, k)
    BY <1>1, <2>1, <2>2, <2>3 DEF Block
  <2> QED BY <2>1, <2>4 DEF HasBlock
<1>3. CASE a = 0 /\ n = 0
  <2>1. Block(t, s, g, 0, 0, b, k)
    BY <1>1, <1>3 DEF Block, Rest
  <2> QED BY <2>1 DEF HasBlock
<1>4. CASE a = 0 /\ n # 0
  <2>1. 1 \in 1 .. Len(q) /\ q[1].gen = g
    BY <1>1, <1>4 DEF Block, Rest
  <2>2. \A i \in 1 .. Len(s) : ~IsReply(s[i], g)
    BY <2>1 DEF HasReply
  <2>3. k = 0
    <3> SUFFICES ASSUME k # 0 PROVE FALSE
      OBVIOUS
    <3>1. b + 1 \in 1 .. Len(s) /\ b < b + 1 /\ b + 1 <= b + k
      BY <1>1 DEF Block
    <3> QED BY <1>1, <2>2, <3>1 DEF Block
  <2>4. n - 1 \in Nat /\ n - 1 <= Len(t)
    BY <1>1, <1>4 DEF Block, Rest
  <2>5. ASSUME NEW i \in 1 .. Len(t)
        PROVE  t[i].gen = g <=> 0 < i /\ i <= n - 1
    <3>1. i + 1 \in 1 .. Len(q) /\ t[i] = q[i + 1]
      BY DEF Rest
    <3> QED BY <1>1, <1>4, <3>1 DEF Block
  <2>6. Block(t, s, g, 0, n - 1, b, k)
    BY <1>1, <2>3, <2>4, <2>5 DEF Block
  <2> QED BY <2>4, <2>6 DEF HasBlock
<1> QED BY <1>2, <1>3, <1>4

LEMMA StepDrop ==
  ASSUME NEW q, NEW t, NEW s, NEW srv, NEW g,
         Len(q) \in Nat, Len(t) \in Nat, Len(s) \in Nat, Len(srv) \in Nat,
         Rest(t, q), q[1].gen # g, InStepOn(q, s, srv, g)
  PROVE  InStepOn(t, s, srv, g)
<1>1. PICK a, b \in Nat : StepAt(q, s, srv, g, a, b)
  BY DEF InStepOn
<1>2. 1 \in 1 .. Len(q)
  BY DEF Rest
<1>3. a # 0 /\ a - 1 \in Nat /\ a - 1 <= Len(t) /\ Len(t) - (a - 1) = Len(q) - a
  BY <1>1, <1>2 DEF StepAt, Rest
<1>4. ASSUME NEW i \in 1 .. Len(t)
      PROVE  t[i].gen = g <=> i > a - 1
  <2>1. i + 1 \in 1 .. Len(q) /\ t[i] = q[i + 1]
    BY DEF Rest
  <2> QED BY <1>1, <2>1 DEF StepAt
<1>5. /\ b <= Len(s)
      /\ \A i \in 1 .. Len(s) : IsReply(s[i], g) <=> i > b
      /\ Len(q) - a = Len(s) - b + Len(srv)
  BY <1>1 DEF StepAt
<1>6. ASSUME NEW i \in 1 .. Len(s) - b
      PROVE  t[(a - 1) + i].req = s[b + i].req
  <2>1. (a - 1) + i \in 1 .. Len(t) /\ ((a - 1) + i) + 1 = a + i
    BY <1>3, <1>5
  <2> QED BY <1>1, <2>1 DEF StepAt, Rest
<1>7. ASSUME NEW i \in 1 .. Len(srv)
      PROVE  t[(a - 1) + (Len(s) - b) + i].req = srv[i]
  <2>1. /\ (a - 1) + (Len(s) - b) + i \in 1 .. Len(t)
        /\ ((a - 1) + (Len(s) - b) + i) + 1 = a + (Len(s) - b) + i
    BY <1>3, <1>5
  <2> QED BY <1>1, <2>1 DEF StepAt, Rest
<1>8. StepAt(t, s, srv, g, a - 1, b)
  BY <1>3, <1>4, <1>5, <1>6, <1>7 DEF StepAt
<1> QED BY <1>1, <1>3, <1>8 DEF InStepOn

(* The front leaves with its reply. *)
LEMMA BlockPop ==
  ASSUME NEW q, NEW t, NEW s, NEW u, NEW p, NEW g,
         Len(q) \in Nat, Len(t) \in Nat, Len(s) \in Nat, Len(u) \in Nat,
         Rest(t, q), Cut(u, s, p), IsFirst(s, p),
         q[1].gen = g, IsReply(s[p], g), HasBlock(q, s, g)
  PROVE  HasBlock(t, u, g)
<1>1. PICK a, n, b, k \in Nat : Block(q, s, g, a, n, b, k)
  BY DEF HasBlock
<1>2. 1 \in 1 .. Len(q) /\ p \in 1 .. Len(s) /\ Len(s) = Len(u) + 1
  BY DEF Rest, Cut
<1>3. b < p /\ p <= b + k /\ b + k <= Len(s) /\ k <= n
  BY <1>1, <1>2 DEF Block
<1>4. b + 1 = p
  <2>1. b + 1 \in 1 .. Len(s) /\ b < b + 1 /\ b + 1 <= b + k
    BY <1>2, <1>3
  <2>2. IsReply(s[b + 1], g)
    BY <1>1, <2>1 DEF Block
  <2>3. ~(b + 1 < p)
    BY <2>1, <2>2 DEF IsFirst
  <2> QED BY <1>2, <1>3, <2>3
<1>5. a = 0 /\ n - 1 \in Nat /\ k - 1 \in Nat
  <2>1. n - 1 \in Nat /\ k - 1 \in Nat
    BY <1>3, <1>4
  <2>2. a < 1
    BY <1>1, <1>2 DEF Block
  <2> QED BY <2>1, <2>2
<1>6. n - 1 <= Len(t) /\ b + (k - 1) <= Len(u) /\ k - 1 <= n - 1
  <2>1. n <= Len(q) /\ Len(q) = Len(t) + 1
    BY <1>1, <1>5 DEF Block, Rest
  <2> QED BY <2>1, <1>2, <1>3, <1>5
<1>7. ASSUME NEW i \in 1 .. Len(t)
      PROVE  t[i].gen = g <=> 0 < i /\ i <= n - 1
  <2>1. i + 1 \in 1 .. Len(q) /\ t[i] = q[i + 1]
    BY DEF Rest
  <2> QED BY <1>1, <1>5, <2>1 DEF Block
<1>8. ASSUME NEW i \in 1 .. Len(u)
      PROVE  IsReply(u[i], g) <=> b < i /\ i <= b + (k - 1)
  <2>1. CASE i < p /\ i \in 1 .. Len(s) /\ u[i] = s[i]
    <3>1. ~(b < i)
      BY <1>4, <2>1
    <3> QED BY <1>1, <2>1, <3>1 DEF Block
  <2>2. CASE ~(i < p) /\ i + 1 \in 1 .. Len(s) /\ u[i] = s[i + 1]
    <3>1. IsReply(s[i + 1], g) <=> b < i + 1 /\ i + 1 <= b + k
      BY <1>1, <2>2 DEF Block
    <3>2. (b < i + 1 /\ i + 1 <= b + k) <=> (b < i /\ i <= b + (k - 1))
      BY <1>4, <1>5, <2>2
    <3> QED BY <2>2, <3>1, <3>2
  <2> QED BY <2>1, <2>2, <1>2, CutCases
<1>9. ASSUME NEW i \in 1 .. k - 1
      PROVE  t[0 + i].req = u[b + i].req
  <2>1. /\ i + 1 \in 1 .. k /\ i \in 1 .. Len(t) /\ b + i \in 1 .. Len(u) /\ 0 + i = i
        /\ 0 + (i + 1) = i + 1 /\ ~(b + i < p) /\ b + (i + 1) = (b + i) + 1
    BY <1>4, <1>5, <1>6
  <2>2. q[i + 1].req = s[b + (i + 1)].req
    BY <1>1, <1>5, <2>1 DEF Block
  <2>3. u[b + i] = s[(b + i) + 1]
    BY <2>1 DEF Cut
  <2>4. t[i] = q[i + 1]
    BY <2>1 DEF Rest
  <2> QED BY <2>1, <2>2, <2>3, <2>4
<1> DEFINE n1 == n - 1  k1 == k - 1
<1>10. /\ n1 \in Nat /\ k1 \in Nat
       /\ 0 + n1 <= Len(t) /\ b + k1 <= Len(u) /\ k1 <= n1
       /\ \A i \in 1 .. Len(t) : t[i].gen = g <=> 0 < i /\ i <= 0 + n1
       /\ \A i \in 1 .. Len(u) : IsReply(u[i], g) <=> b < i /\ i <= b + k1
       /\ \A i \in 1 .. k1 : t[0 + i].req = u[b + i].req
  <2>1. n1 \in Nat /\ k1 \in Nat /\ 0 + n1 = n1
    BY <1>5
  <2>2. 0 + n1 <= Len(t) /\ b + k1 <= Len(u) /\ k1 <= n1
    BY <1>6, <2>1
  <2>3. \A i \in 1 .. Len(t) : t[i].gen = g <=> 0 < i /\ i <= 0 + n1
    BY <1>7, <2>1
  <2>4. \A i \in 1 .. Len(u) : IsReply(u[i], g) <=> b < i /\ i <= b + k1
    BY <1>8
  <2>5. \A i \in 1 .. k1 : t[0 + i].req = u[b + i].req
    BY <1>9
  <2> QED BY <2>1, <2>2, <2>3, <2>4, <2>5
<1> HIDE DEF n1, k1
<1>11. Block(t, u, g, 0, n1, b, k1)
  BY <1>10 DEF Block
<1> QED BY <1>10, <1>11 DEF HasBlock

LEMMA StepPop ==
  ASSUME NEW q, NEW t, NEW s, NEW u, NEW p, NEW srv, NEW g,
         Len(q) \in Nat, Len(t) \in Nat, Len(s) \in Nat, Len(u) \in Nat, Len(srv) \in Nat,
         Rest(t, q), Cut(u, s, p), IsFirst(s, p),
         q[1].gen = g, IsReply(s[p], g), InStepOn(q, s, srv, g)
  PROVE  InStepOn(t, u, srv, g)
<1>1. PICK a, b \in Nat : StepAt(q, s, srv, g, a, b)
  BY DEF InStepOn
<1>2. /\ 1 \in 1 .. Len(q) /\ Len(q) = Len(t) + 1
      /\ p \in 1 .. Len(s) /\ Len(s) = Len(u) + 1
  BY DEF Rest, Cut
<1>3. a = 0 /\ b < p
  BY <1>1, <1>2 DEF StepAt
<1>4. b + 1 = p
  <2>1. b + 1 \in 1 .. Len(s) /\ b + 1 > b
    BY <1>2, <1>3
  <2>2. IsReply(s[b + 1], g)
    BY <1>1, <2>1 DEF StepAt
  <2>3. ~(b + 1 < p)
    BY <2>1, <2>2 DEF IsFirst
  <2> QED BY <1>2, <1>3, <2>3
<1>5. /\ Len(q) - 0 = Len(s) - b + Len(srv) /\ Len(t) - 0 = Len(u) - b + Len(srv)
      /\ b <= Len(u) /\ 0 <= Len(t)
  <2>1. Len(q) - a = Len(s) - b + Len(srv)
    BY <1>1 DEF StepAt
  <2> QED BY <2>1, <1>2, <1>3, <1>4
<1>6. ASSUME NEW i \in 1 .. Len(t)
      PROVE  t[i].gen = g
  <2>1. i + 1 \in 1 .. Len(q) /\ t[i] = q[i + 1]
    BY DEF Rest
  <2> QED BY <1>1, <1>3, <2>1 DEF StepAt
<1>7. ASSUME NEW i \in 1 .. Len(u)
      PROVE  IsReply(u[i], g) <=> i > b
  <2>1. CASE i < p /\ i \in 1 .. Len(s) /\ u[i] = s[i]
    <3>1. ~(i > b)
      BY <1>4, <2>1
    <3> QED BY <1>1, <2>1, <3>1 DEF StepAt
  <2>2. CASE ~(i < p) /\ i + 1 \in 1 .. Len(s) /\ u[i] = s[i + 1]
    <3>1. i > b /\ i + 1 > b
      BY <1>4, <2>2
    <3> QED BY <1>1, <2>2, <3>1 DEF StepAt
  <2> QED BY <2>1, <2>2, <1>2, CutCases
<1>8. ASSUME NEW i \in 1 .. Len(u) - b
      PROVE  t[0 + i].req = u[b + i].req
  <2>1. /\ i + 1 \in 1 .. Len(s) - b /\ i \in 1 .. Len(t) /\ 0 + i = i
        /\ b + i \in 1 .. Len(u) /\ ~(b + i < p)
        /\ 0 + (i + 1) = i + 1 /\ b + (i + 1) = (b + i) + 1
    BY <1>2, <1>4, <1>5
  <2>2. q[0 + (i + 1)].req = s[b + (i + 1)].req
    BY <1>1, <1>3, <2>1 DEF StepAt
  <2>3. u[b + i] = s[(b + i) + 1] /\ t[i] = q[i + 1]
    BY <2>1 DEF Cut, Rest
  <2> QED BY <2>1, <2>2, <2>3
<1>9. ASSUME NEW i \in 1 .. Len(srv)
      PROVE  t[0 + (Len(u) - b) + i].req = srv[i]
  <2>1. /\ 0 + (Len(u) - b) + i \in 1 .. Len(t)
        /\ (0 + (Len(u) - b) + i) + 1 = 0 + (Len(s) - b) + i
    BY <1>2, <1>5
  <2>2. q[0 + (Len(s) - b) + i].req = srv[i]
    BY <1>1, <1>3 DEF StepAt
  <2>3. t[0 + (Len(u) - b) + i] = q[(0 + (Len(u) - b) + i) + 1]
    BY <2>1 DEF Rest
  <2> QED BY <2>1, <2>2, <2>3
<1>10. StepAt(t, u, srv, g, 0, b)
  BY <1>5, <1>6, <1>7, <1>8, <1>9 DEF StepAt
<1> QED BY <1>10 DEF InStepOn

(* Where nothing is, everything is in step. *)
LEMMA NothingInStep ==
  ASSUME NEW q, NEW s, NEW srv, NEW g, Len(q) \in Nat, Len(s) \in Nat, Len(srv) = 0,
         NothingOn(q, s, g)
  PROVE  InStepOn(q, s, srv, g)
<1>1. StepAt(q, s, srv, g, Len(q), Len(s))
  BY DEF StepAt, NothingOn
<1> QED BY <1>1 DEF InStepOn

LEMMA NothingBlock ==
  ASSUME NEW q, NEW s, NEW g, Len(q) \in Nat, Len(s) \in Nat, NothingOn(q, s, g)
  PROVE  HasBlock(q, s, g)
<1>1. Block(q, s, g, 0, 0, 0, 0)
  BY DEF Block, NothingOn
<1> QED BY <1>1 DEF HasBlock

(***************************************************************************)
(* The front of the list.                                                  *)
(***************************************************************************)
LEMMA FrontSend ==
  ASSUME NEW q, NEW t, NEW e, NEW s, NEW g, NEW up \in BOOLEAN, Len(q) \in Nat, Len(s) \in Nat,
         Longer(t, q, e), up => e.gen = g, HasBlock(q, s, g), FrontOn(q, s, g, up)
  PROVE  FrontOn(t, s, g, up)
<1> SUFFICES ASSUME Len(t) # 0, t[1].gen # g, up \/ HasReply(s, g)
             PROVE  EndsBefore(s, g)
  BY DEF FrontOn
<1>1. CASE Len(q) # 0
  <2>1. t[1] = q[1]
    BY <1>1 DEF Longer
  <2> QED BY <1>1, <2>1 DEF FrontOn
<1>2. CASE Len(q) = 0
  <2>1. e.gen # g
    BY <1>2 DEF Longer
  <2>2. HasReply(s, g)
    BY <2>1
  <2>3. PICK a, n, b, k \in Nat : Block(q, s, g, a, n, b, k)
    BY DEF HasBlock
  <2>4. k = 0
    BY <2>3, <1>2 DEF Block
  <2>5. ~HasReply(s, g)
    BY <2>3, <2>4 DEF Block, HasReply
  <2> QED BY <2>2, <2>5
<1> QED BY <1>1, <1>2

LEMMA FrontMessage ==
  ASSUME NEW q, NEW s, NEW t, NEW m, NEW g, NEW up \in BOOLEAN, NEW now \in BOOLEAN,
         Len(q) \in Nat, Len(s) \in Nat,
         Longer(t, s, m), now => up, IsReply(m, g) => up, FrontOn(q, s, g, up)
  PROVE  FrontOn(q, t, g, now)
<1> SUFFICES ASSUME Len(q) # 0, q[1].gen # g, now \/ HasReply(t, g)
             PROVE  EndsBefore(t, g)
  BY DEF FrontOn
<1>1. up \/ HasReply(s, g)
  <2>1. CASE HasReply(t, g)
    <3>1. PICK j \in 1 .. Len(t) : IsReply(t[j], g)
      BY <2>1 DEF HasReply
    <3>2. CASE j \in 1 .. Len(s) /\ t[j] = s[j]
      BY <3>1, <3>2 DEF HasReply
    <3>3. CASE t[j] = m
      BY <3>1, <3>3
    <3> QED BY <3>2, <3>3, LongerCases
  <2> QED BY <2>1
<1>2. PICK k \in 1 .. Len(s) : IsEnd(s[k]) /\ \A j \in 1 .. Len(s) : IsReply(s[j], g) => k < j
  BY <1>1 DEF FrontOn, EndsBefore
<1>3. k \in 1 .. Len(t) /\ IsEnd(t[k])
  BY <1>2 DEF Longer
<1>4. ASSUME NEW j \in 1 .. Len(t), IsReply(t[j], g)
      PROVE  k < j
  <2>1. CASE j \in 1 .. Len(s) /\ t[j] = s[j]
    BY <1>2, <1>4, <2>1
  <2>2. CASE j = Len(s) + 1
    BY <2>2
  <2> QED BY <2>1, <2>2, LongerCases
<1> QED BY <1>3, <1>4 DEF EndsBefore

LEMMA FrontNextMessage ==
  ASSUME NEW q, NEW s, NEW t, NEW p, NEW g, NEW up \in BOOLEAN,
         Len(q) \in Nat, Len(s) \in Nat, Len(t) \in Nat,
         Cut(t, s, p), ~IsEnd(s[p]), FrontOn(q, s, g, up)
  PROVE  FrontOn(q, t, g, up)
<1> SUFFICES ASSUME Len(q) # 0, q[1].gen # g, up \/ HasReply(t, g)
             PROVE  EndsBefore(t, g)
  BY DEF FrontOn
<1>1. HasReply(t, g) => HasReply(s, g)
  BY CutCases DEF HasReply
<1>2. PICK k \in 1 .. Len(s) : IsEnd(s[k]) /\ \A j \in 1 .. Len(s) : IsReply(s[j], g) => k < j
  BY <1>1 DEF FrontOn, EndsBefore
<1>3. k # p
  BY <1>2
<1>4. PICK l \in 1 .. Len(t) :
        IsEnd(t[l]) /\ ((k < p /\ l = k) \/ (p < k /\ l = k - 1))
  BY <1>2, <1>3, CutKeeps
<1>5. p \in 1 .. Len(s)
  BY DEF Cut
<1>6. ASSUME NEW j \in 1 .. Len(t), IsReply(t[j], g)
      PROVE  l < j
  <2>1. CASE j < p /\ j \in 1 .. Len(s) /\ t[j] = s[j]
    <3>1. k < j
      BY <1>2, <1>6, <2>1
    <3> QED BY <3>1, <2>1, <1>4, <1>5
  <2>2. CASE ~(j < p) /\ j + 1 \in 1 .. Len(s) /\ t[j] = s[j + 1]
    <3>1. k < j + 1
      BY <1>2, <1>6, <2>2
    <3> QED BY <3>1, <2>2, <1>4, <1>5
  <2> QED BY <2>1, <2>2, CutCases
<1> QED BY <1>4, <1>6 DEF EndsBefore

(* The front leaves with its reply, of h: what is behind it was sent on h  *)
(* too, or nothing of h is still to come.                                  *)
LEMMA FrontPop ==
  ASSUME NEW q, NEW t, NEW s, NEW u, NEW p, NEW srv, NEW g, NEW h, NEW up \in BOOLEAN,
         Len(q) \in Nat, Len(t) \in Nat, Len(s) \in Nat, Len(u) \in Nat, Len(srv) \in Nat,
         Rest(t, q), Cut(u, s, p), IsFirst(s, p), q[1].gen = h, IsReply(s[p], h),
         up => InStepOn(q, s, srv, g), HasBlock(q, s, g), FrontOn(q, s, g, up)
  PROVE  FrontOn(t, u, g, up)
<1> SUFFICES ASSUME Len(t) # 0, t[1].gen # g, up \/ HasReply(u, g)
             PROVE  EndsBefore(u, g)
  BY DEF FrontOn
<1>1. t[1] = q[2] /\ 1 \in 1 .. Len(q) /\ 2 \in 1 .. Len(q) /\ p \in 1 .. Len(s)
  BY DEF Rest, Cut
<1>2. CASE g = h
  <2>1. ~up
    <3> SUFFICES ASSUME up PROVE FALSE
      OBVIOUS
    <3>1. PICK a, b \in Nat : StepAt(q, s, srv, g, a, b)
      BY DEF InStepOn
    <3>2. a < 1 /\ ~(a < 2)
      BY <3>1, <1>1, <1>2 DEF StepAt
    <3> QED BY <3>2
  <2>2. PICK l \in 1 .. Len(u) : IsReply(u[l], g)
    BY <2>1 DEF HasReply
  <2>3. PICK j \in 1 .. Len(s) : j # p /\ IsReply(s[j], g)
    <3>1. CASE l < p /\ l \in 1 .. Len(s) /\ u[l] = s[l]
      BY <2>2, <3>1
    <3>2. CASE l + 1 \in 1 .. Len(s) /\ l + 1 # p /\ u[l] = s[l + 1]
      BY <2>2, <3>2
    <3> QED BY <3>1, <3>2, CutCases
  <2>4. PICK a, n, b, k \in Nat : Block(q, s, g, a, n, b, k)
    BY DEF HasBlock
  <2>5. p < j
    <3>1. ~(j < p)
      BY <2>3 DEF IsFirst
    <3> QED BY <3>1, <2>3, <1>1
  <2>6. a < 1 /\ b < p /\ j <= b + k /\ k <= n
    BY <2>3, <2>4, <1>1, <1>2 DEF Block
  <2>7. 2 <= a + n
    BY <2>5, <2>6, <1>1
  <2>8. q[2].gen = g
    BY <2>4, <2>6, <2>7, <1>1 DEF Block
  <2> QED BY <2>8, <1>1
<1>3. CASE g # h
  <2>1. FrontOn(q, u, g, up)
    <3>1. ~IsEnd(s[p])
      BY DEF IsEnd, IsReply
    <3> QED BY <3>1, FrontNextMessage
  <2> QED BY <2>1, <1>1, <1>3 DEF FrontOn
<1> QED BY <1>2, <1>3

(***************************************************************************)
(* The inductive invariant.                                                *)
(***************************************************************************)
(* The requests of the list, or those that wait, are different and where   *)
(* the list says.                                                          *)
Listed(q, at) ==
  /\ \A i \in 1 .. Len(q) : at[q[i].req] = "sent"
  /\ \A i, j \in 1 .. Len(q) : q[i].req = q[j].req => i = j

Waits(w, at) ==
  /\ \A i \in 1 .. Len(w) : at[w[i]] = "waiting"
  /\ \A i, j \in 1 .. Len(w) : w[i] = w[j] => i = j

(* Who is not done has a command left. *)
HasLeft(n, at) == n \in [Req -> Nat] /\ \A r \in Req : at[r] # "done" => n[r] # 0

SentInv == Listed(m_vtRequest, pc) /\ Waits(m_vtWaitRequest, pc) /\ HasLeft(left, pc)

(* Connections are numbered.  Before one is up nothing was sent on it, and *)
(* nothing comes of it after its end.                                      *)
NetInv ==
  /\ gen # 0
  /\ \A i \in 1 .. Len(m_vtRequest) : m_vtRequest[i].gen <= gen
  /\ \A i \in 1 .. Len(inbox) : inbox[i].gen <= gen
  /\ conn # "up" => server = <<>>
  /\ conn \notin {"up", "closed"} => NothingOn(m_vtRequest, inbox, gen)
  /\ \A i \in 1 .. Len(inbox) : IsEnd(inbox[i]) => inbox[i].gen < gen \/ conn = "closed"
  /\ \A i, j \in 1 .. Len(inbox) :
       IsEnd(inbox[i]) /\ i < j => ~IsReply(inbox[j], inbox[i].gen)

Base == TypeOK /\ SentInv /\ NetInv /\ DisconnectClears /\ NoOrphan

(* What was sent on a connection and its replies are blocks that match,    *)
(* and the front of the list is in step with the head of the queue.        *)
Queues ==
  \A g \in 1 .. MaxConn :
    /\ HasBlock(m_vtRequest, inbox, g)
    /\ handler # "disconnect" => FrontOn(m_vtRequest, inbox, g, g = gen /\ conn = "up")

(* While requests are failed nothing is sent and no reply is there. *)
LoopInv ==
  handler = "disconnect" =>
    /\ server = <<>>
    /\ \A g \in 1 .. MaxConn : \A i \in 1 .. Len(inbox) : ~IsReply(inbox[i], g)
    /\ conn = "up" => \A i \in 1 .. Len(m_vtRequest) : m_vtRequest[i].gen # gen

NoForeign == \A r \in Req : ret[r] # "foreign"

Matched ==
  /\ Queues /\ LoopInv /\ NoForeign
  /\ conn = "up" => InStepOn(m_vtRequest, inbox, server, gen)

(* Matched as long as no disconnect took requests of a later connection    *)
(* and no reply or disconnect passed an earlier one in the queue.          *)
IInv == Base /\ (~overlap /\ ~overtaken => Matched)

-----------------------------------------------------------------------------
LEMMA ListedSend ==
  ASSUME NEW q, NEW t, NEW e, NEW at, NEW r \in DOMAIN at, Len(q) \in Nat, Longer(t, q, e),
         e.req = r, \A i \in 1 .. Len(q) : q[i].req # r, Listed(q, at)
  PROVE  Listed(t, [at EXCEPT ![r] = "sent"])
<1> DEFINE now == [at EXCEPT ![r] = "sent"]
<1>1. now[r] = "sent" /\ \A x : x # r => now[x] = at[x]
  OBVIOUS
<1> HIDE DEF now
<1>2. ASSUME NEW i \in 1 .. Len(t)
      PROVE  now[t[i].req] = "sent"
  <2>1. CASE i \in 1 .. Len(q) /\ t[i] = q[i]
    BY <1>1, <2>1 DEF Listed
  <2>2. CASE t[i] = e
    BY <1>1, <2>2
  <2> QED BY <2>1, <2>2, LongerCases
<1>3. ASSUME NEW i \in 1 .. Len(t), NEW j \in 1 .. Len(t), t[i].req = t[j].req
      PROVE  i = j
  <2>1. (i \in 1 .. Len(q) /\ t[i] = q[i]) \/ (i = Len(q) + 1 /\ t[i] = e)
    BY LongerCases
  <2>2. (j \in 1 .. Len(q) /\ t[j] = q[j]) \/ (j = Len(q) + 1 /\ t[j] = e)
    BY LongerCases
  <2> QED BY <2>1, <2>2, <1>3 DEF Listed
<1>4. Listed(t, now)
  BY <1>2, <1>3 DEF Listed
<1> QED BY <1>4 DEF now

LEMMA ListedOther ==
  ASSUME NEW q, NEW at, NEW r, NEW x, Len(q) \in Nat,
         \A i \in 1 .. Len(q) : q[i].req # r, Listed(q, at)
  PROVE  Listed(q, [at EXCEPT ![r] = x])
BY DEF Listed

LEMMA ListedRest ==
  ASSUME NEW q, NEW t, NEW at, Len(q) \in Nat, Len(t) \in Nat, Rest(t, q), Listed(q, at)
  PROVE  Listed(t, at) /\ \A i \in 1 .. Len(t) : t[i].req # q[1].req
<1>1. \A i \in 1 .. Len(t) : i + 1 \in 1 .. Len(q) /\ t[i] = q[i + 1] /\ i + 1 # 1
  BY DEF Rest
<1>2. 1 \in 1 .. Len(q)
  BY DEF Rest
<1>3. \A i \in 1 .. Len(t) : t[i].req # q[1].req
  BY <1>1, <1>2 DEF Listed
<1>4. \A i \in 1 .. Len(t) : at[t[i].req] = "sent"
  BY <1>1 DEF Listed
<1>5. ASSUME NEW i \in 1 .. Len(t), NEW j \in 1 .. Len(t), t[i].req = t[j].req
      PROVE  i = j
  <2>1. i + 1 = j + 1
    BY <1>1, <1>5 DEF Listed
  <2> QED BY <2>1
<1> QED BY <1>3, <1>4, <1>5 DEF Listed

LEMMA WaitsAppend ==
  ASSUME NEW w, NEW v, NEW at, NEW r \in DOMAIN at, Len(w) \in Nat, Longer(v, w, r),
         at[r] # "waiting", Waits(w, at)
  PROVE  Waits(v, [at EXCEPT ![r] = "waiting"])
<1> DEFINE now == [at EXCEPT ![r] = "waiting"]
<1>1. now[r] = "waiting" /\ \A x : x # r => now[x] = at[x]
  OBVIOUS
<1> HIDE DEF now
<1>2. \A i \in 1 .. Len(w) : w[i] # r
  BY DEF Waits
<1>3. ASSUME NEW i \in 1 .. Len(v)
      PROVE  now[v[i]] = "waiting"
  <2>1. CASE i \in 1 .. Len(w) /\ v[i] = w[i]
    BY <1>1, <2>1 DEF Waits
  <2>2. CASE v[i] = r
    BY <1>1, <2>2
  <2> QED BY <2>1, <2>2, LongerCases
<1>4. ASSUME NEW i \in 1 .. Len(v), NEW j \in 1 .. Len(v), v[i] = v[j]
      PROVE  i = j
  <2>1. (i \in 1 .. Len(w) /\ v[i] = w[i]) \/ (i = Len(w) + 1 /\ v[i] = r)
    BY LongerCases
  <2>2. (j \in 1 .. Len(w) /\ v[j] = w[j]) \/ (j = Len(w) + 1 /\ v[j] = r)
    BY LongerCases
  <2> QED BY <2>1, <2>2, <1>2, <1>4 DEF Waits
<1>5. Waits(v, now)
  BY <1>3, <1>4 DEF Waits
<1> QED BY <1>5 DEF now

LEMMA WaitsOther ==
  ASSUME NEW w, NEW at, NEW r, NEW x, Len(w) \in Nat, at[r] # "waiting", Waits(w, at)
  PROVE  Waits(w, [at EXCEPT ![r] = x])
BY DEF Waits

LEMMA WaitsRest ==
  ASSUME NEW w, NEW v, NEW at, NEW x, Len(w) \in Nat, Len(v) \in Nat, Rest(v, w), Waits(w, at)
  PROVE  Waits(v, [at EXCEPT ![w[1]] = x])
<1>1. \A i \in 1 .. Len(v) : i + 1 \in 1 .. Len(w) /\ v[i] = w[i + 1] /\ i + 1 # 1
  BY DEF Rest
<1>2. 1 \in 1 .. Len(w)
  BY DEF Rest
<1>3. \A i \in 1 .. Len(v) : v[i] # w[1] /\ at[v[i]] = "waiting"
  BY <1>1, <1>2 DEF Waits
<1>4. ASSUME NEW i \in 1 .. Len(v), NEW j \in 1 .. Len(v), v[i] = v[j]
      PROVE  i = j
  <2>1. i + 1 = j + 1
    BY <1>1, <1>4 DEF Waits
  <2> QED BY <2>1
<1> QED BY <1>3, <1>4 DEF Waits

-----------------------------------------------------------------------------
LEMMA InitIInv == Init => IInv
<1> SUFFICES ASSUME Init PROVE IInv
  OBVIOUS
<1> USE RedisAssumption DEF Init
<1>1. TypeOK
  <2>1. /\ gen \in 0 .. MaxConn
        /\ \A r \in Req : left[r] \in 0 .. Packets[r]
    OBVIOUS
  <2>2. /\ pc \in [Req -> {"idle", "queued", "waiting", "sent", "done"}]
        /\ ret \in [Req -> {"none", "own", "foreign", "error", "fail", "nonet"}]
    OBVIOUS
  <2>3. /\ server \in Seq(Req) /\ inbox \in Seq(Message) /\ snapshot \in Seq(Entry)
        /\ m_vtRequest \in Seq(Entry) /\ m_vtWaitRequest \in Seq(Req)
    OBVIOUS
  <2> QED BY <2>1, <2>2, <2>3 DEF TypeOK
<1>2. SentInv
  BY DEF SentInv, Listed, Waits, HasLeft
<1>3. NetInv
  BY DEF NetInv, NothingOn
<1>4. DisconnectClears /\ NoOrphan
  BY DEF DisconnectClears, NoOrphan
<1>5. ASSUME NEW g \in 1 .. MaxConn
      PROVE  HasBlock(m_vtRequest, inbox, g) /\ FrontOn(m_vtRequest, inbox, g, FALSE)
  <2>1. Len(m_vtRequest) = 0 /\ Len(inbox) = 0
    OBVIOUS
  <2>2. NothingOn(m_vtRequest, inbox, g)
    BY <2>1 DEF NothingOn
  <2> QED BY <2>1, <2>2, NothingBlock DEF FrontOn
<1>6. Matched
  BY <1>5 DEF Matched, Queues, LoopInv, NoForeign
<1> QED BY <1>1, <1>2, <1>3, <1>4, <1>6 DEF IInv, Base

USE DEF queueVars

(* What the lists hold. *)
LEMMA Elements ==
  ASSUME TypeOK
  PROVE  /\ Len(m_vtRequest) \in Nat /\ Len(inbox) \in Nat /\ Len(server) \in Nat
         /\ Len(m_vtWaitRequest) \in Nat
         /\ \A i \in 1 .. Len(m_vtRequest) : m_vtRequest[i] \in Entry
         /\ \A i \in 1 .. Len(inbox) : inbox[i] \in Message
         /\ \A i \in 1 .. Len(server) : server[i] \in Req
         /\ \A i \in 1 .. Len(m_vtWaitRequest) : m_vtWaitRequest[i] \in Req
BY DEF TypeOK

LEMMA MessageParts ==
  ASSUME NEW m \in Message
  PROVE  /\ m.gen \in 1 .. MaxConn
         /\ m.kind \in {"reply", "disconnect", "verified"}
         /\ m.kind = "reply" => m.req \in Req /\ m.ok \in BOOLEAN
BY DEF Message

LEMMA EntryParts ==
  ASSUME NEW e \in Entry
  PROVE  e.req \in Req /\ e.gen \in 0 .. MaxConn
BY DEF Entry

(* The entry that is pushed. *)
SentEntry(r) == [req |-> r, gen |-> IF IsTransmit THEN gen ELSE 0]

LEMMA SendType ==
  ASSUME TypeOK, NEW r \in Req, NEW queue \in Seq(Entry), SendRequest(r, queue)
  PROVE  /\ SentEntry(r) \in Entry
         /\ m_vtRequest' \in Seq(Entry)
         /\ Longer(m_vtRequest', queue, SentEntry(r))
         /\ server' \in Seq(Req)
         /\ conn = "up" => Longer(server', server, r)
         /\ conn # "up" => server' = server
         /\ pc' \in [Req -> {"idle", "queued", "waiting", "sent", "done"}]
<1>1. SentEntry(r) \in Entry
  <2>1. gen \in 0 .. MaxConn /\ 0 \in 0 .. MaxConn
    BY RedisAssumption DEF TypeOK
  <2> QED BY <2>1 DEF SentEntry, Entry
<1>2. m_vtRequest' = Append(queue, SentEntry(r))
  BY DEF SendRequest, SentEntry
<1>3. m_vtRequest' \in Seq(Entry) /\ Longer(m_vtRequest', queue, SentEntry(r))
  BY <1>1, <1>2, AppendIsLonger
<1>4. server \in Seq(Req)
  BY DEF TypeOK
<1>5. conn = "up" => server' = Append(server, r)
  BY DEF SendRequest, IsTransmit
<1>6. conn # "up" => server' = server
  BY DEF SendRequest, IsTransmit
<1>7. pc' \in [Req -> {"idle", "queued", "waiting", "sent", "done"}]
  BY DEF SendRequest, TypeOK
<1> QED BY <1>1, <1>3, <1>4, <1>5, <1>6, <1>7, AppendIsLonger

(* A message is taken out of the queue. *)
LEMMA NextMessageType ==
  ASSUME TypeOK, NEW kind, NEW k \in 1 .. Len(inbox), NextMessage(kind, k)
  PROVE  /\ inbox' \in Seq(Message) /\ Cut(inbox', inbox, k)
         /\ Len(inbox) \in Nat /\ Len(inbox') \in Nat
         /\ inbox[k] \in Message /\ inbox[k].kind = kind
         /\ overtaken' \in BOOLEAN /\ handler = "none"
<1>1. inbox \in Seq(Message) /\ inbox' = Without(inbox, k) /\ overtaken' \in BOOLEAN
  BY DEF TypeOK, NextMessage
<1>2. inbox' \in Seq(Message) /\ Cut(inbox', inbox, k) /\ inbox[k] \in Message
  BY <1>1, WithoutIsCut
<1> QED BY <1>1, <1>2, NoneIsEmpty DEF NextMessage

(* What counts is in order until it is noted that it was not. *)
LEMMA InOrder ==
  ASSUME NEW kind, kind # "verified", NEW k \in 1 .. Len(inbox), NextMessage(kind, k),
         ~overtaken'
  PROVE  IsFirst(inbox, k)
<1>1. \A i \in 1 .. k - 1 : inbox[i].kind = "verified"
  BY DEF NextMessage, Passes
<1> QED BY <1>1 DEF IsFirst, IsEnd, IsReply

(* What a handler does to a request it resumes. *)
LEMMA FinishType ==
  ASSUME TypeOK, NEW r \in Req,
         NEW x \in {"none", "own", "foreign", "error", "fail", "nonet"}, Finish(r, x)
  PROVE  /\ pc' \in [Req -> {"idle", "queued", "waiting", "sent", "done"}]
         /\ ret' \in [Req -> {"none", "own", "foreign", "error", "fail", "nonet"}]
BY DEF Finish, TypeOK

LEMMA RequestStep ==
  ASSUME Base, NEW r \in Req, Request(r)
  PROVE  Base'
<1> USE DEF Base
<1>1. TypeOK'
  BY DEF TypeOK, Request, netVars, loopVars, listVars
<1>2. Listed(m_vtRequest, pc')
  <2>1. \A i \in 1 .. Len(m_vtRequest) : m_vtRequest[i].req # r
    BY DEF SentInv, Listed, Request
  <2> QED BY <2>1, Elements, ListedOther DEF SentInv, Request
<1>3. Waits(m_vtWaitRequest, pc')
  BY Elements, WaitsOther DEF SentInv, Request
<1>4. HasLeft(left, pc')
  BY DEF SentInv, HasLeft, Request, TypeOK
<1>5. SentInv'
  BY <1>2, <1>3, <1>4 DEF SentInv, Request, listVars
<1>6. NetInv'
  BY DEF NetInv, NothingOn, Request, netVars, listVars
<1>7. DisconnectClears' /\ NoOrphan'
  BY DEF DisconnectClears, NoOrphan, Request, netVars, listVars, loopVars
<1> QED BY <1>1, <1>5, <1>6, <1>7

(* A request that is sent is at the end of the list. *)
LEMMA SendNet ==
  ASSUME Base, NEW r \in Req, SendRequest(r, m_vtRequest), UNCHANGED <<conn, gen, queueVars>>
  PROVE  NetInv'
<1> USE DEF Base
<1> DEFINE e == SentEntry(r)
<1>1. Longer(m_vtRequest', m_vtRequest, e)
  BY SendType DEF TypeOK
<1>2. e.gen = (IF conn = "up" THEN gen ELSE 0) /\ gen \in Nat /\ gen # 0
  BY DEF SentEntry, IsTransmit, TypeOK, NetInv
<1> HIDE DEF e
<1>3. ASSUME NEW i \in 1 .. Len(m_vtRequest')
      PROVE  m_vtRequest'[i].gen <= gen /\ (conn # "up" /\ m_vtRequest'[i].gen = gen
                => \E j \in 1 .. Len(m_vtRequest) : m_vtRequest[j].gen = gen)
  <2>1. CASE i \in 1 .. Len(m_vtRequest) /\ m_vtRequest'[i] = m_vtRequest[i]
    BY <2>1 DEF NetInv
  <2>2. CASE m_vtRequest'[i] = e
    BY <2>2, <1>2
  <2> QED BY <2>1, <2>2, <1>1, Elements, LongerCases
<1>4. conn \notin {"up", "closed"} => NothingOn(m_vtRequest', inbox, gen)
  BY <1>3 DEF NetInv, NothingOn
<1>5. conn # "up" => server' = <<>>
  BY SendType DEF NetInv, TypeOK
<1> QED BY <1>3, <1>4, <1>5 DEF NetInv

LEMMA DispathStep ==
  ASSUME Base, NEW r \in Req, DispathBussinessMsg(r)
  PROVE  Base'
<1> USE DEF Base
<1>0. /\ m_vtRequest \in Seq(Entry) /\ m_vtWaitRequest \in Seq(Req) /\ r \in DOMAIN pc
      /\ pc[r] = "queued"
  BY DEF TypeOK, DispathBussinessMsg
<1>1. \A i \in 1 .. Len(m_vtRequest) : m_vtRequest[i].req # r
  BY <1>0 DEF SentInv, Listed
<1>2. CASE IsTransmit
  <2>1. SendRequest(r, m_vtRequest) /\ UNCHANGED m_vtWaitRequest
    BY <1>2 DEF DispathBussinessMsg
  <2>2. /\ m_vtRequest' \in Seq(Entry) /\ Longer(m_vtRequest', m_vtRequest, SentEntry(r))
        /\ server' \in Seq(Req)
        /\ pc' \in [Req -> {"idle", "queued", "waiting", "sent", "done"}]
        /\ pc' = [pc EXCEPT ![r] = "sent"]
    BY <2>1, <1>0, SendType DEF SendRequest
  <2>3. TypeOK'
    BY <2>1, <2>2 DEF TypeOK, DispathBussinessMsg, loopVars
  <2>4. Listed(m_vtRequest', pc')
    <3>1. SentEntry(r).req = r
      BY DEF SentEntry
    <3> QED BY <3>1, <2>2, <1>0, <1>1, Elements, ListedSend DEF SentInv
  <2>5. Waits(m_vtWaitRequest, pc')
    BY <2>2, <1>0, Elements, WaitsOther DEF SentInv
  <2>6. HasLeft(left, pc')
    BY <1>0, <2>2 DEF SentInv, HasLeft, TypeOK
  <2>7. SentInv'
    BY <2>1, <2>4, <2>5, <2>6 DEF SentInv, DispathBussinessMsg
  <2>8. NetInv'
    BY <2>1, SendNet DEF DispathBussinessMsg
  <2>9. DisconnectClears' /\ NoOrphan'
    BY <1>2 DEF DisconnectClears, NoOrphan, DispathBussinessMsg, loopVars, IsTransmit
  <2> QED BY <2>3, <2>7, <2>8, <2>9
<1>3. CASE ~IsTransmit
  <2>1. /\ m_vtWaitRequest' = Append(m_vtWaitRequest, r)
        /\ pc' = [pc EXCEPT ![r] = "waiting"]
        /\ UNCHANGED <<server, m_vtRequest, conn, gen, doomed, queueVars, loopVars, left, ret>>
    BY <1>3 DEF DispathBussinessMsg
  <2>2. m_vtWaitRequest' \in Seq(Req) /\ Longer(m_vtWaitRequest', m_vtWaitRequest, r)
    BY <2>1, <1>0, AppendIsLonger
  <2>3. TypeOK'
    BY <2>1, <2>2 DEF TypeOK, loopVars
  <2>4. Listed(m_vtRequest, pc')
    BY <2>1, <1>1, Elements, ListedOther DEF SentInv
  <2>5. Waits(m_vtWaitRequest', pc')
    BY <2>1, <2>2, <1>0, Elements, WaitsAppend DEF SentInv
  <2>6. HasLeft(left, pc')
    BY <1>0, <2>1 DEF SentInv, HasLeft, TypeOK
  <2>7. SentInv'
    BY <2>1, <2>4, <2>5, <2>6 DEF SentInv
  <2>8. NetInv'
    BY <2>1 DEF NetInv, NothingOn
  <2>9. DisconnectClears' /\ NoOrphan'
    BY <2>1 DEF DisconnectClears, NoOrphan, loopVars
  <2> QED BY <2>3, <2>7, <2>8, <2>9
<1> QED BY <1>2, <1>3

LEMMA ResumeStep ==
  ASSUME Base, handler # "disconnect", m_vtWaitRequest # <<>>, ResumeWaiter
  PROVE  Base'
<1> USE DEF Base
<1> DEFINE r == Head(m_vtWaitRequest)
<1>1. /\ m_vtRequest \in Seq(Entry) /\ m_vtWaitRequest \in Seq(Req)
      /\ pc \in [Req -> {"idle", "queued", "waiting", "sent", "done"}]
  BY DEF TypeOK
<1>2. /\ m_vtWaitRequest' \in Seq(Req) /\ Rest(m_vtWaitRequest', m_vtWaitRequest)
      /\ r = m_vtWaitRequest[1] /\ r \in Req
  <2>1. m_vtWaitRequest' = Tail(m_vtWaitRequest)
    BY DEF ResumeWaiter
  <2> QED BY <1>1, <2>1, TailIsRest
<1>3. UNCHANGED <<conn, gen, doomed, queueVars, loopVars, left>>
  BY DEF ResumeWaiter
<1>4. \/ IsTransmit /\ SendRequest(r, m_vtRequest) /\ UNCHANGED ret
      \/ ~IsTransmit /\ Finish(r, "nonet") /\ UNCHANGED <<server, m_vtRequest>>
  BY DEF ResumeWaiter
<1> HIDE DEF r
<1>5. pc[r] = "waiting"
  <2>1. 1 \in 1 .. Len(m_vtWaitRequest)
    BY <1>2, Elements DEF Rest
  <2> QED BY <1>2, <2>1 DEF SentInv, Waits
<1>6. \A i \in 1 .. Len(m_vtRequest) : m_vtRequest[i].req # r
  BY <1>5 DEF SentInv, Listed
<1>7. ASSUME NEW x
      PROVE  Waits(m_vtWaitRequest', [pc EXCEPT ![r] = x])
  BY <1>2, <1>1, NoneIsEmpty, WaitsRest DEF SentInv
<1>8. CASE IsTransmit /\ SendRequest(r, m_vtRequest) /\ UNCHANGED ret
  <2>2. /\ m_vtRequest' \in Seq(Entry) /\ Longer(m_vtRequest', m_vtRequest, SentEntry(r))
        /\ server' \in Seq(Req)
        /\ pc' \in [Req -> {"idle", "queued", "waiting", "sent", "done"}]
        /\ pc' = [pc EXCEPT ![r] = "sent"]
    BY <1>8, <1>1, <1>2, SendType DEF SendRequest
  <2>3. TypeOK'
    BY <1>8, <1>2, <1>3, <2>2 DEF TypeOK, loopVars
  <2>4. Listed(m_vtRequest', pc')
    <3>1. SentEntry(r).req = r
      BY DEF SentEntry
    <3> QED BY <3>1, <2>2, <1>1, <1>2, <1>6, Elements, ListedSend DEF SentInv
  <2>5. HasLeft(left, pc')
    BY <1>2, <1>5, <2>2 DEF SentInv, HasLeft, TypeOK
  <2>6. SentInv'
    BY <1>3, <1>7, <2>2, <2>4, <2>5 DEF SentInv
  <2>7. NetInv'
    BY <1>2, <1>3, <1>8, SendNet
  <2>8. DisconnectClears' /\ NoOrphan'
    BY <1>3, <1>8 DEF DisconnectClears, NoOrphan, loopVars, IsTransmit
  <2> QED BY <2>3, <2>6, <2>7, <2>8
<1>9. CASE ~IsTransmit /\ Finish(r, "nonet") /\ UNCHANGED <<server, m_vtRequest>>
  <2>1. pc' = [pc EXCEPT ![r] = "done"]
    BY <1>9 DEF Finish
  <2>2. TypeOK'
    BY <1>9, <1>2, <1>3, FinishType DEF TypeOK, loopVars
  <2>3. Listed(m_vtRequest, pc')
    BY <2>1, <1>6, Elements, ListedOther DEF SentInv
  <2>4. HasLeft(left, pc')
    BY <1>1, <2>1 DEF SentInv, HasLeft
  <2>5. SentInv'
    BY <1>3, <1>7, <1>9, <2>1, <2>3, <2>4 DEF SentInv
  <2>6. NetInv'
    BY <1>3, <1>9 DEF NetInv, NothingOn
  <2>7. DisconnectClears' /\ NoOrphan'
    BY <1>3, <1>9 DEF DisconnectClears, NoOrphan, loopVars
  <2> QED BY <2>2, <2>5, <2>6, <2>7
<1> QED BY <1>4, <1>8, <1>9

(* A message less, and what was there stays in order. *)
LEMMA NextMessageNet ==
  ASSUME Base, NEW kind, NEW k \in 1 .. Len(inbox), NextMessage(kind, k),
         UNCHANGED <<conn, gen>>,
         conn # "up" => server' = <<>>,
         \A i \in 1 .. Len(m_vtRequest') : m_vtRequest'[i].gen <= gen,
         conn \notin {"up", "closed"} =>
           \A i \in 1 .. Len(m_vtRequest') : m_vtRequest'[i].gen # gen
  PROVE  NetInv'
<1> USE DEF Base
<1>1. Cut(inbox', inbox, k) /\ Len(inbox) \in Nat /\ Len(inbox') \in Nat
  BY NextMessageType
<1>2. \A i \in 1 .. Len(inbox') : \E j \in 1 .. Len(inbox) : inbox'[i] = inbox[j]
  BY <1>1, CutCases
<1>4. conn \notin {"up", "closed"} => NothingOn(m_vtRequest', inbox', gen)
  BY <1>2 DEF NetInv, NothingOn
<1>5. ASSUME NEW i \in 1 .. Len(inbox')
      PROVE  /\ inbox'[i].gen <= gen
             /\ IsEnd(inbox'[i]) => inbox'[i].gen < gen \/ conn = "closed"
  BY <1>2 DEF NetInv
<1>6. ASSUME NEW i \in 1 .. Len(inbox'), NEW j \in 1 .. Len(inbox'), IsEnd(inbox'[i]), i < j
      PROVE  ~IsReply(inbox'[j], inbox'[i].gen)
  <2>1. PICK l \in 1 .. Len(inbox) :
          inbox'[i] = inbox[l] /\ ((l = i /\ i < k) \/ (l = i + 1 /\ ~(i < k)))
    BY <1>1, CutCases
  <2>2. PICK m \in 1 .. Len(inbox) :
          inbox'[j] = inbox[m] /\ ((m = j /\ j < k) \/ (m = j + 1 /\ ~(j < k)))
    BY <1>1, CutCases
  <2>3. l < m
    BY <1>6, <2>1, <2>2
  <2> QED BY <1>6, <2>1, <2>2, <2>3 DEF NetInv
<1> QED BY <1>4, <1>5, <1>6 DEF NetInv

LEMMA ReplyNoRequestStep ==
  ASSUME Base, NEW k \in 1 .. Len(inbox), ReceiveRedisReplyNoRequest(k)
  PROVE  Base'
<1> USE DEF Base
<1>1. /\ NextMessage("reply", k) /\ m_vtRequest = <<>> /\ ErrorClose
      /\ UNCHANGED <<conn, gen, server, loopVars, listVars, requestVars>>
  BY DEF ReceiveRedisReplyNoRequest
<1>2. inbox' \in Seq(Message) /\ overtaken' \in BOOLEAN
  BY <1>1, NextMessageType
<1>3. TypeOK'
  BY <1>1, <1>2 DEF TypeOK, ErrorClose, loopVars, listVars, requestVars
<1>4. SentInv'
  BY <1>1 DEF SentInv, listVars, requestVars
<1>5. NetInv'
  <2>1. /\ conn # "up" => server' = <<>>
        /\ \A i \in 1 .. Len(m_vtRequest') : m_vtRequest'[i].gen <= gen
        /\ conn \notin {"up", "closed"} =>
             \A i \in 1 .. Len(m_vtRequest') : m_vtRequest'[i].gen # gen
    BY <1>1 DEF NetInv, NothingOn, listVars
  <2> QED BY <1>1, <2>1, NextMessageNet
<1>6. DisconnectClears' /\ NoOrphan'
  BY <1>1 DEF DisconnectClears, NoOrphan, listVars, loopVars
<1> QED BY <1>3, <1>4, <1>5, <1>6

(* A disconnect stays in the queue when something else is taken. *)
LEMMA EndStays ==
  ASSUME TypeOK, NEW kind, NEW k \in 1 .. Len(inbox), NextMessage(kind, k),
         kind # "disconnect", \E i \in DOMAIN inbox : inbox[i].kind = "disconnect"
  PROVE  \E i \in DOMAIN inbox' : inbox'[i].kind = "disconnect"
<1>1. /\ inbox' \in Seq(Message) /\ inbox \in Seq(Message) /\ Cut(inbox', inbox, k)
      /\ Len(inbox) \in Nat /\ Len(inbox') \in Nat /\ inbox[k].kind # "disconnect"
  BY NextMessageType DEF TypeOK
<1>2. PICK i \in 1 .. Len(inbox) : inbox[i].kind = "disconnect"
  BY <1>1
<1>3. \E j \in 1 .. Len(inbox') : inbox'[j] = inbox[i]
  BY <1>1, <1>2, CutKeeps
<1> QED BY <1>1, <1>2, <1>3

LEMMA ReplyStep ==
  ASSUME Base, NEW k \in 1 .. Len(inbox), ReceiveRedisReply(k)
  PROVE  Base'
<1> USE DEF Base
<1> DEFINE reply == inbox[k]
           q == Tail(m_vtRequest)
<1>0. PICK r : r = Head(m_vtRequest).req
  OBVIOUS
<1>1. /\ NextMessage("reply", k) /\ m_vtRequest # <<>>
      /\ left' = [left EXCEPT ![r] = @ - 1]
      /\ UNCHANGED <<conn, gen, loopVars, m_vtWaitRequest>>
  BY <1>0 DEF ReceiveRedisReply, FrontData
<1>2. \/ /\ NextSendPacket(r) /\ SendRequest(r, q)
         /\ ret' = [ret EXCEPT ![r] = Verdict(r, reply)]
         /\ UNCHANGED doomed
      \/ /\ Finish(r, Verdict(r, reply))
         /\ ErrorClose \/ UNCHANGED doomed
         /\ m_vtRequest' = q
         /\ UNCHANGED server
  BY <1>0 DEF ReceiveRedisReply, FrontData
<1>3. Verdict(r, reply) \in {"none", "own", "foreign", "error", "fail", "nonet"}
  BY DEF Verdict
<1> HIDE DEF reply
<1>4. /\ m_vtRequest \in Seq(Entry) /\ inbox' \in Seq(Message) /\ overtaken' \in BOOLEAN
      /\ pc \in [Req -> {"idle", "queued", "waiting", "sent", "done"}]
      /\ ret \in [Req -> {"none", "own", "foreign", "error", "fail", "nonet"}]
  BY <1>1, NextMessageType DEF TypeOK
<1>5. /\ q \in Seq(Entry) /\ Rest(q, m_vtRequest) /\ r = m_vtRequest[1].req
      /\ Head(m_vtRequest) \in Entry
  BY <1>0, <1>1, <1>4, TailIsRest
<1> HIDE DEF q
<1>6. r \in Req /\ Len(m_vtRequest) \in Nat /\ Len(q) \in Nat /\ 1 \in 1 .. Len(m_vtRequest)
  BY <1>0, <1>4, <1>5, EntryParts, NoneIsEmpty DEF Rest
<1>7. pc[r] = "sent" /\ left[r] \in Nat /\ left[r] # 0
  BY <1>5, <1>6 DEF SentInv, Listed, HasLeft
<1>8. Listed(q, pc) /\ \A i \in 1 .. Len(q) : q[i].req # r
  BY <1>5, <1>6, ListedRest DEF SentInv
<1>9. /\ \A x \in Req : left'[x] \in 0 .. Packets[x]
      /\ \A x \in Req : x # r => left'[x] = left[x]
      /\ left'[r] = left[r] - 1
  <2>1. left \in [Req -> Nat]
    BY DEF SentInv, HasLeft
  <2>2. /\ left' \in [Req -> Nat]
        /\ \A x \in Req : x # r => left'[x] = left[x]
        /\ left'[r] = left[r] - 1
    BY <1>1, <1>6, <1>7, <2>1
  <2>3. Packets[r] \in Nat /\ left[r] \in 0 .. Packets[r]
    BY <1>6, RedisAssumption DEF TypeOK
  <2>4. left'[r] \in 0 .. Packets[r]
    BY <1>7, <2>2, <2>3
  <2> QED BY <2>2, <2>4 DEF TypeOK
<1>10. NetInv' /\ NoOrphan' /\ DisconnectClears'
  <2>1. ASSUME NEW i \in 1 .. Len(m_vtRequest')
        PROVE  m_vtRequest'[i].gen <= gen /\ (conn # "up" /\ m_vtRequest'[i].gen = gen
                 => \E j \in 1 .. Len(m_vtRequest) : m_vtRequest[j].gen = gen)
    <3>1. ASSUME NEW j \in 1 .. Len(q)
          PROVE  q[j].gen <= gen /\ (q[j].gen = gen =>
                   \E l \in 1 .. Len(m_vtRequest) : m_vtRequest[l].gen = gen)
      <4>1. j + 1 \in 1 .. Len(m_vtRequest) /\ q[j] = m_vtRequest[j + 1]
        BY <1>5, <1>6 DEF Rest
      <4> QED BY <4>1 DEF NetInv
    <3>2. CASE m_vtRequest' = q
      BY <3>1, <3>2
    <3>3. CASE SendRequest(r, q)
      <4> DEFINE e == SentEntry(r)
      <4>1. Longer(m_vtRequest', q, e)
        BY <1>5, <1>6, <3>3, SendType
      <4>2. e.gen = (IF conn = "up" THEN gen ELSE 0) /\ gen \in Nat /\ gen # 0
        BY DEF SentEntry, IsTransmit, TypeOK, NetInv
      <4> HIDE DEF e
      <4>3. CASE i \in 1 .. Len(q) /\ m_vtRequest'[i] = q[i]
        BY <4>3, <3>1
      <4>4. CASE m_vtRequest'[i] = e
        BY <4>4, <4>2
      <4> QED BY <4>1, <4>3, <4>4, <1>6, LongerCases
    <3> QED BY <1>2, <3>2, <3>3
  <2>2. conn # "up" => server' = <<>>
    BY <1>2, <1>5, <1>6, SendType DEF NetInv
  <2>3. NetInv'
    <3>1. conn \notin {"up", "closed"} =>
            \A i \in 1 .. Len(m_vtRequest') : m_vtRequest'[i].gen # gen
      BY <2>1 DEF NetInv, NothingOn
    <3> QED BY <1>1, <2>1, <2>2, <3>1, NextMessageNet
  <2>4. NoOrphan'
    <3>1. handler = "none"
      BY <1>1, NextMessageType
    <3>2. conn = "up" \/ \E i \in DOMAIN inbox : inbox[i].kind = "disconnect"
      BY <1>1, <3>1 DEF NoOrphan
    <3>3. conn' = "up" \/ \E i \in DOMAIN inbox' : inbox'[i].kind = "disconnect"
      BY <1>1, <3>2, EndStays
    <3> QED BY <3>3 DEF NoOrphan
  <2>5. DisconnectClears'
    BY <1>1, NextMessageType DEF DisconnectClears, loopVars
  <2> QED BY <2>3, <2>4, <2>5
<1>11. CASE /\ NextSendPacket(r) /\ SendRequest(r, q)
            /\ ret' = [ret EXCEPT ![r] = Verdict(r, reply)]
            /\ UNCHANGED doomed
  <2>1. /\ m_vtRequest' \in Seq(Entry) /\ Longer(m_vtRequest', q, SentEntry(r))
        /\ server' \in Seq(Req)
        /\ pc' \in [Req -> {"idle", "queued", "waiting", "sent", "done"}]
        /\ pc' = [pc EXCEPT ![r] = "sent"]
    BY <1>5, <1>6, <1>11, SendType DEF SendRequest
  <2>2. ret' \in [Req -> {"none", "own", "foreign", "error", "fail", "nonet"}]
    BY <1>3, <1>4, <1>6, <1>11
  <2>3. TypeOK'
    BY <1>1, <1>4, <1>9, <1>11, <2>1, <2>2 DEF TypeOK, loopVars
  <2>4. Listed(m_vtRequest', pc')
    <3>1. SentEntry(r).req = r
      BY DEF SentEntry
    <3> QED BY <3>1, <2>1, <1>4, <1>6, <1>8, ListedSend
  <2>5. Waits(m_vtWaitRequest, pc')
    BY <1>7, <2>1, Elements, WaitsOther DEF SentInv
  <2>6. HasLeft(left', pc')
    <3>1. left'[r] # 0
      BY <1>7, <1>9, <1>11 DEF NextSendPacket
    <3>2. left' \in [Req -> Nat]
      BY <1>1, <1>6, <1>7 DEF SentInv, HasLeft
    <3>3. \A x \in Req : x # r => pc'[x] = pc[x]
      BY <2>1, <1>4
    <3> QED BY <3>1, <3>2, <3>3, <1>9 DEF SentInv, HasLeft
  <2>7. SentInv'
    BY <1>1, <2>4, <2>5, <2>6 DEF SentInv
  <2> QED BY <1>10, <2>3, <2>7
<1>12. CASE /\ Finish(r, Verdict(r, reply))
            /\ ErrorClose \/ UNCHANGED doomed
            /\ m_vtRequest' = q
            /\ UNCHANGED server
  <2>1. pc' = [pc EXCEPT ![r] = "done"]
    BY <1>12 DEF Finish
  <2>2. /\ pc' \in [Req -> {"idle", "queued", "waiting", "sent", "done"}]
        /\ ret' \in [Req -> {"none", "own", "foreign", "error", "fail", "nonet"}]
    BY <1>3, <1>6, <1>12, FinishType
  <2>3. doomed' \in BOOLEAN
    BY <1>12 DEF ErrorClose, TypeOK
  <2>4. TypeOK'
    BY <1>1, <1>4, <1>5, <1>9, <1>12, <2>2, <2>3 DEF TypeOK, loopVars
  <2>5. Listed(m_vtRequest', pc')
    BY <1>6, <1>8, <1>12, <2>1, ListedOther
  <2>6. Waits(m_vtWaitRequest, pc')
    BY <1>7, <2>1, Elements, WaitsOther DEF SentInv
  <2>7. HasLeft(left', pc')
    <3>1. left' \in [Req -> Nat]
      BY <1>1, <1>6, <1>7 DEF SentInv, HasLeft
    <3>2. pc'[r] = "done" /\ \A x \in Req : x # r => pc'[x] = pc[x]
      BY <2>1, <1>4, <1>6
    <3> QED BY <3>1, <3>2, <1>9 DEF SentInv, HasLeft
  <2>8. SentInv'
    BY <1>1, <2>5, <2>6, <2>7 DEF SentInv
  <2> QED BY <1>10, <2>4, <2>8
<1> QED BY <1>2, <1>11, <1>12

LEMMA DisconnectStep ==
  ASSUME Base, NEW k \in 1 .. Len(inbox), ReceiveRedisDisconnect(k)
  PROVE  Base'
<1> USE DEF Base
<1>1. /\ NextMessage("disconnect", k) /\ handler' = "disconnect" /\ snapshot' = m_vtRequest
      /\ UNCHANGED <<netVars, listVars, requestVars>>
      /\ overlap' \in BOOLEAN
  BY DEF ReceiveRedisDisconnect, TypeOK
<1>2. inbox' \in Seq(Message) /\ overtaken' \in BOOLEAN
  BY <1>1, NextMessageType
<1>3. TypeOK'
  BY <1>1, <1>2 DEF TypeOK, netVars, listVars, requestVars
<1>4. SentInv'
  BY <1>1 DEF SentInv, listVars, requestVars
<1>5. NetInv'
  <2>1. /\ conn # "up" => server' = <<>>
        /\ \A i \in 1 .. Len(m_vtRequest') : m_vtRequest'[i].gen <= gen
        /\ conn \notin {"up", "closed"} =>
             \A i \in 1 .. Len(m_vtRequest') : m_vtRequest'[i].gen # gen
        /\ UNCHANGED <<conn, gen>>
    BY <1>1 DEF NetInv, NothingOn, listVars, netVars
  <2> QED BY <1>1, <2>1, NextMessageNet
<1>6. DisconnectClears' /\ NoOrphan'
  BY <1>1 DEF DisconnectClears, NoOrphan, listVars
<1> QED BY <1>3, <1>4, <1>5, <1>6

LEMMA VerifySuccessStep ==
  ASSUME Base, NEW k \in 1 .. Len(inbox), NetVerifySuccess(k)
  PROVE  Base'
<1> USE DEF Base
<1>1. /\ NextMessage("verified", k) /\ handler' = "verified"
      /\ UNCHANGED <<netVars, snapshot, overlap, listVars, requestVars>>
  BY DEF NetVerifySuccess
<1>2. inbox' \in Seq(Message) /\ overtaken' \in BOOLEAN /\ handler = "none"
  BY <1>1, NextMessageType
<1>3. TypeOK'
  BY <1>1, <1>2 DEF TypeOK, netVars, listVars, requestVars
<1>4. SentInv'
  BY <1>1 DEF SentInv, listVars, requestVars
<1>5. NetInv'
  <2>1. /\ conn # "up" => server' = <<>>
        /\ \A i \in 1 .. Len(m_vtRequest') : m_vtRequest'[i].gen <= gen
        /\ conn \notin {"up", "closed"} =>
             \A i \in 1 .. Len(m_vtRequest') : m_vtRequest'[i].gen # gen
        /\ UNCHANGED <<conn, gen>>
    BY <1>1 DEF NetInv, NothingOn, listVars, netVars
  <2> QED BY <1>1, <2>1, NextMessageNet
<1>6. NoOrphan'
  <2>1. CASE m_vtRequest = <<>>
    BY <1>1, <2>1 DEF NoOrphan, listVars
  <2>2. CASE m_vtRequest # <<>>
    <3>1. conn = "up" \/ \E i \in DOMAIN inbox : inbox[i].kind = "disconnect"
      BY <1>2, <2>2 DEF NoOrphan
    <3>2. conn' = "up" \/ \E i \in DOMAIN inbox' : inbox'[i].kind = "disconnect"
      BY <1>1, <3>1, EndStays DEF netVars
    <3> QED BY <3>2 DEF NoOrphan
  <2> QED BY <2>1, <2>2
<1>7. DisconnectClears'
  BY <1>1 DEF DisconnectClears
<1> QED BY <1>3, <1>4, <1>5, <1>6, <1>7

LEMMA FailStep ==
  ASSUME Base, FailRequest
  PROVE  Base'
<1> USE DEF Base
<1>0. PICK r : r = Head(snapshot).req
  OBVIOUS
<1>1. /\ handler = "disconnect" /\ snapshot # <<>> /\ snapshot' = Tail(snapshot)
      /\ m_vtRequest' = Tail(m_vtRequest)
      /\ Finish(r, IF ret[r] = "foreign" THEN "foreign" ELSE "fail")
      /\ UNCHANGED <<netVars, queueVars, handler, overlap, m_vtWaitRequest, left>>
  BY <1>0 DEF FailRequest
<1>2. m_vtRequest = snapshot /\ snapshot \in Seq(Entry)
  BY <1>1 DEF DisconnectClears, TypeOK
<1>3. /\ m_vtRequest' \in Seq(Entry) /\ Rest(m_vtRequest', m_vtRequest)
      /\ r = m_vtRequest[1].req /\ r \in Req
  BY <1>0, <1>1, <1>2, TailIsRest, EntryParts
<1>4. /\ pc' = [pc EXCEPT ![r] = "done"]
      /\ pc' \in [Req -> {"idle", "queued", "waiting", "sent", "done"}]
      /\ ret' \in [Req -> {"none", "own", "foreign", "error", "fail", "nonet"}]
  BY <1>1, <1>3 DEF Finish, TypeOK
<1>5. TypeOK'
  BY <1>1, <1>2, <1>3, <1>4 DEF TypeOK, netVars
<1>6. Len(m_vtRequest) \in Nat /\ Len(m_vtRequest') \in Nat /\ 1 \in 1 .. Len(m_vtRequest)
  BY <1>2, <1>3, NoneIsEmpty DEF Rest
<1>7. pc[r] = "sent"
  BY <1>3, <1>6 DEF SentInv, Listed
<1>8. Listed(m_vtRequest', pc')
  <2>1. Listed(m_vtRequest', pc) /\ \A i \in 1 .. Len(m_vtRequest') : m_vtRequest'[i].req # r
    BY <1>3, <1>6, ListedRest DEF SentInv
  <2> QED BY <2>1, <1>4, <1>6, ListedOther
<1>9. Waits(m_vtWaitRequest, pc')
  BY <1>4, <1>7, Elements, WaitsOther DEF SentInv
<1>10. HasLeft(left, pc')
  BY <1>4 DEF SentInv, HasLeft, TypeOK
<1>11. SentInv'
  BY <1>1, <1>8, <1>9, <1>10 DEF SentInv
<1>12. NetInv'
  <2>1. \A i \in 1 .. Len(m_vtRequest') :
          i + 1 \in 1 .. Len(m_vtRequest) /\ m_vtRequest'[i] = m_vtRequest[i + 1]
    BY <1>3, <1>6 DEF Rest
  <2>2. \A i \in 1 .. Len(m_vtRequest') : m_vtRequest'[i].gen <= gen
    BY <2>1 DEF NetInv
  <2>3. conn \notin {"up", "closed"} => NothingOn(m_vtRequest', inbox, gen)
    BY <2>1 DEF NetInv, NothingOn
  <2> QED BY <1>1, <2>2, <2>3 DEF NetInv, netVars
<1>13. DisconnectClears' /\ NoOrphan'
  BY <1>1, <1>2 DEF DisconnectClears, NoOrphan
<1> QED BY <1>5, <1>11, <1>12, <1>13

LEMMA DisconnectEndStep ==
  ASSUME Base, DisconnectEnd
  PROVE  Base'
<1> USE DEF Base
<1>1. /\ m_vtRequest' = <<>> /\ handler' = "none"
      /\ UNCHANGED <<netVars, queueVars, snapshot, overlap, m_vtWaitRequest, requestVars>>
  BY DEF DisconnectEnd
<1>2. TypeOK'
  BY <1>1 DEF TypeOK, netVars, requestVars
<1>3. SentInv'
  BY <1>1 DEF SentInv, Listed, requestVars
<1>4. NetInv'
  BY <1>1 DEF NetInv, NothingOn, netVars
<1>5. DisconnectClears' /\ NoOrphan'
  BY <1>1 DEF DisconnectClears, NoOrphan
<1> QED BY <1>2, <1>3, <1>4, <1>5

(* The steps that leave the lists, the queue and the session alone. *)
LEMMA QuietStep ==
  ASSUME Base, OnTimerClose \/ VerifiedEnd \/ OnTimerEnd
  PROVE  Base'
<1> USE DEF Base
<1>1. /\ UNCHANGED <<conn, gen, server, queueVars, snapshot, overlap, listVars, requestVars>>
      /\ doomed' \in BOOLEAN
      /\ handler' \in {"none", handler}
      /\ handler # "disconnect"
  BY DEF OnTimerClose, VerifiedEnd, OnTimerEnd, netVars, loopVars, ErrorClose, TypeOK
<1>2. TypeOK'
  BY <1>1 DEF TypeOK, listVars, requestVars
<1>3. SentInv' /\ NetInv' /\ DisconnectClears' /\ NoOrphan'
  BY <1>1 DEF SentInv, NetInv, NothingOn, DisconnectClears, NoOrphan, listVars, requestVars
<1> QED BY <1>2, <1>3

LEMMA TimerStep ==
  ASSUME Base, OnTimer
  PROVE  Base'
<1> USE DEF Base
<1>1. /\ handler = "none" /\ handler' = "timer"
      /\ UNCHANGED <<doomed, server, queueVars, snapshot, overlap, listVars, requestVars>>
      /\ \/ /\ conn = "closed" /\ conn' = "connecting" /\ gen < MaxConn /\ gen' = gen + 1
         \/ UNCHANGED <<conn, gen>>
  BY DEF OnTimer
<1>2. gen \in Nat
  BY DEF TypeOK
<1>3. TypeOK'
  <2>1. conn' \in {"closed", "connecting", "auth", "select", "verified", "up"}
        /\ gen' \in 0 .. MaxConn
    BY <1>1, RedisAssumption DEF TypeOK
  <2> QED BY <1>1, <2>1 DEF TypeOK, listVars, requestVars
<1>4. SentInv' /\ DisconnectClears' /\ NoOrphan'
  BY <1>1 DEF SentInv, DisconnectClears, NoOrphan, listVars, requestVars
<1>5. NetInv'
  <2>1. CASE UNCHANGED <<conn, gen>>
    BY <1>1, <2>1 DEF NetInv, NothingOn, listVars
  <2>2. CASE conn = "closed" /\ conn' = "connecting" /\ gen' = gen + 1
    <3>1. \A i \in 1 .. Len(m_vtRequest) : m_vtRequest[i].gen \in Nat
      BY Elements, EntryParts
    <3>2. \A i \in 1 .. Len(inbox) : inbox[i].gen \in Nat
      BY Elements, MessageParts
    <3>3. \A i \in 1 .. Len(m_vtRequest) : m_vtRequest[i].gen <= gen' /\ m_vtRequest[i].gen # gen'
      BY <1>2, <2>2, <3>1 DEF NetInv
    <3>4. \A i \in 1 .. Len(inbox) : inbox[i].gen < gen'
      BY <1>2, <2>2, <3>2 DEF NetInv
    <3>5. NothingOn(m_vtRequest, inbox, gen')
      BY <3>3, <3>4, <1>2, <2>2, <3>2 DEF NothingOn, IsReply
    <3>6. gen' # 0 /\ \A i \in 1 .. Len(inbox) : inbox[i].gen <= gen'
      BY <1>2, <2>2, <3>2, <3>4
    <3> QED BY <1>1, <2>2, <3>3, <3>4, <3>5, <3>6 DEF NetInv, listVars
  <2> QED BY <1>1, <2>1, <2>2
<1> QED BY <1>3, <1>4, <1>5

(***************************************************************************)
(* The session.                                                            *)
(***************************************************************************)
(* A disconnect of the connection comes once it is closed, a reply only    *)
(* while it is up.                                                         *)
LEMMA AddMessage ==
  ASSUME Base, NEW m \in Message, NetMessage(m), m.gen = gen,
         UNCHANGED <<gen, loopVars, listVars, requestVars>>,
         conn' \in {"closed", "auth", "select", "verified", "up"},
         doomed' \in BOOLEAN, server' \in Seq(Req),
         conn' # "up" => server' = <<>>,
         conn' \in {"closed", "up"} \/ (conn \notin {"up", "closed"} /\ m.kind = "verified"),
         conn # "closed",
         m.kind = "disconnect" => conn' = "closed",
         m.kind = "reply" => conn = "up",
         conn = "up" /\ conn' # "up" => m.kind = "disconnect"
  PROVE  Base'
<1> USE DEF Base
<1>1. inbox' \in Seq(Message) /\ Longer(inbox', inbox, m) /\ overtaken' \in BOOLEAN
  BY AppendIsLonger DEF NetMessage, TypeOK
<1>2. TypeOK'
  BY <1>1 DEF TypeOK, loopVars, listVars, requestVars
<1>3. SentInv' /\ DisconnectClears'
  BY DEF SentInv, DisconnectClears, loopVars, listVars, requestVars
<1>4. /\ Len(inbox) \in Nat /\ Len(inbox') = Len(inbox) + 1
      /\ \A i \in 1 .. Len(inbox) : inbox'[i] = inbox[i]
      /\ inbox'[Len(inbox) + 1] = m
  BY <1>1, Elements DEF Longer
<1>5. NoOrphan'
  <2>1. CASE m_vtRequest = <<>> \/ conn' = "up" \/ handler = "disconnect"
    BY <2>1 DEF NoOrphan, loopVars, listVars
  <2>2. CASE m.kind = "disconnect"
    <3>1. Len(inbox) + 1 \in DOMAIN inbox'
      <4>1. DOMAIN inbox' = 1 .. Len(inbox')
        BY <1>1
      <4> QED BY <4>1, <1>4
    <3>2. inbox'[Len(inbox) + 1] = m
      BY <1>4
    <3> QED BY <3>1, <3>2, <2>2 DEF NoOrphan
  <2>3. CASE m_vtRequest # <<>> /\ conn # "up" /\ handler # "disconnect"
    <3>1. PICK i \in DOMAIN inbox : inbox[i].kind = "disconnect"
      BY <2>3 DEF NoOrphan
    <3>2. i \in DOMAIN inbox' /\ inbox'[i].kind = "disconnect"
      <4>1. i \in 1 .. Len(inbox)
        BY <3>1 DEF TypeOK
      <4> QED BY <4>1, <3>1, <1>1, <1>4
    <3> QED BY <3>2 DEF NoOrphan
  <2> QED BY <2>1, <2>2, <2>3
<1>6. \A i \in 1 .. Len(inbox) : inbox[i].gen \in Nat
  BY Elements, MessageParts
<1>7. gen \in Nat
  BY DEF TypeOK
<1>8. ASSUME NEW i \in 1 .. Len(inbox')
      PROVE  /\ inbox'[i].gen <= gen
             /\ IsEnd(inbox'[i]) => inbox'[i].gen < gen \/ conn' = "closed"
  <2>1. CASE i \in 1 .. Len(inbox) /\ inbox'[i] = inbox[i]
    BY <2>1 DEF NetInv
  <2>2. CASE inbox'[i] = m
    BY <2>2, <1>7 DEF IsEnd
  <2> QED BY <2>1, <2>2, <1>1, <1>4, LongerCases
<1>9. conn' \notin {"up", "closed"} => NothingOn(m_vtRequest, inbox', gen)
  <2> SUFFICES ASSUME conn' \notin {"up", "closed"}
               PROVE  NothingOn(m_vtRequest, inbox', gen)
    OBVIOUS
  <2>1. NothingOn(m_vtRequest, inbox, gen) /\ ~IsReply(m, gen)
    BY DEF NetInv, IsReply
  <2>2. ASSUME NEW i \in 1 .. Len(inbox')
        PROVE  ~IsReply(inbox'[i], gen)
    <3>1. CASE i \in 1 .. Len(inbox) /\ inbox'[i] = inbox[i]
      BY <2>1, <3>1 DEF NothingOn
    <3>2. CASE inbox'[i] = m
      BY <2>1, <3>2
    <3> QED BY <3>1, <3>2, <1>1, <1>4, LongerCases
  <2> QED BY <2>1, <2>2 DEF NothingOn
<1>10. ASSUME NEW i \in 1 .. Len(inbox'), NEW j \in 1 .. Len(inbox'), IsEnd(inbox'[i]), i < j
       PROVE  ~IsReply(inbox'[j], inbox'[i].gen)
  <2>1. i \in 1 .. Len(inbox) /\ inbox'[i] = inbox[i]
    BY <1>4, <1>10
  <2>2. CASE j \in 1 .. Len(inbox) /\ inbox'[j] = inbox[j]
    BY <1>10, <2>1, <2>2 DEF NetInv
  <2>3. CASE inbox'[j] = m
    <3>1. m.kind = "reply" => inbox[i].gen < gen
      BY <2>1, <1>10 DEF NetInv
    <3>2. m.kind = "reply" => inbox[i].gen # gen
      BY <3>1, <2>1, <1>6, <1>7
    <3> QED BY <2>1, <2>3, <3>2 DEF IsReply
  <2> QED BY <2>2, <2>3, <1>1, <1>4, LongerCases
<1>11. NetInv'
  BY <1>8, <1>9, <1>10 DEF NetInv, listVars
<1> QED BY <1>2, <1>3, <1>5, <1>11

LEMMA GenIsNumber ==
  ASSUME Base
  PROVE  gen \in 1 .. MaxConn
BY RedisAssumption DEF Base, TypeOK, NetInv

LEMMA ReceiveStep ==
  ASSUME Base, NEW ok \in BOOLEAN, OnReceive(ok)
  PROVE  Base'
<1> DEFINE m == [kind |-> "reply", req |-> Head(server), gen |-> gen, ok |-> ok]
<1>1. /\ conn = "up" /\ server # <<>> /\ server' = Tail(server) /\ NetMessage(m)
      /\ UNCHANGED <<conn, gen, doomed, loopVars, listVars, requestVars>>
  BY DEF OnReceive
<1>2. server \in Seq(Req) /\ doomed \in BOOLEAN
  BY DEF Base, TypeOK
<1>3. server' \in Seq(Req) /\ Head(server) \in Req
  BY <1>1, <1>2, TailIsRest
<1>4. m \in Message
  BY <1>3, GenIsNumber DEF Message
<1>5. m.gen = gen /\ m.kind = "reply"
  OBVIOUS
<1> HIDE DEF m
<1> QED BY <1>1, <1>2, <1>3, <1>4, <1>5, AddMessage

LEMMA OnDisconnectStep ==
  ASSUME Base, OnDisconnect
  PROVE  Base'
<1> DEFINE m == [kind |-> "disconnect", gen |-> gen]
<1>1. /\ conn # "closed" /\ conn' = "closed" /\ doomed' = FALSE /\ server' = <<>>
      /\ NetMessage(m)
      /\ UNCHANGED <<gen, loopVars, listVars, requestVars>>
  BY DEF OnDisconnect
<1>2. m \in Message
  BY GenIsNumber DEF Message
<1>3. m.gen = gen /\ m.kind = "disconnect"
  OBVIOUS
<1>4. server' \in Seq(Req)
  BY <1>1
<1> HIDE DEF m
<1> QED BY <1>1, <1>2, <1>3, <1>4, AddMessage

(* The handshake goes on, with or without the message that it is over. *)
LEMMA AdvanceStep ==
  ASSUME Base, NEW from \in {"connecting", "auth", "select"}, NEW done, Advance(from, done)
  PROVE  Base'
<1> DEFINE m == [kind |-> "verified", gen |-> gen]
<1>1. /\ conn = from /\ conn' \in {"auth", "select", "verified"}
      /\ NetMessage(m) \/ UNCHANGED queueVars
      /\ UNCHANGED <<gen, doomed, server, loopVars, listVars, requestVars>>
  BY DEF Advance, NextStep
<1>2. server = <<>> /\ server \in Seq(Req) /\ doomed \in BOOLEAN
  BY <1>1 DEF Base, NetInv, TypeOK
<1>3. CASE NetMessage(m)
  <2>1. m \in Message
    BY GenIsNumber DEF Message
  <2>2. m.gen = gen /\ m.kind = "verified"
    OBVIOUS
  <2> HIDE DEF m
  <2> QED BY <1>1, <1>2, <1>3, <2>1, <2>2, AddMessage
<1>4. CASE UNCHANGED queueVars
  <2> USE DEF Base
  <2>1. TypeOK'
    BY <1>1, <1>4 DEF TypeOK, loopVars, listVars, requestVars
  <2>2. SentInv' /\ DisconnectClears' /\ NoOrphan'
    BY <1>1, <1>4 DEF SentInv, DisconnectClears, NoOrphan, loopVars, listVars, requestVars
  <2>3. NetInv'
    BY <1>1, <1>2, <1>4 DEF NetInv, NothingOn, listVars
  <2> QED BY <2>1, <2>2, <2>3
<1> QED BY <1>1, <1>3, <1>4

LEMMA TransmitStep ==
  ASSUME Base, Transmit
  PROVE  Base'
<1> USE DEF Base
<1>1. /\ conn = "verified" /\ conn' = "up"
      /\ UNCHANGED <<gen, doomed, server, queueVars, loopVars, listVars, requestVars>>
  BY DEF Transmit
<1>2. TypeOK'
  BY <1>1 DEF TypeOK, loopVars, listVars, requestVars
<1>3. SentInv' /\ DisconnectClears' /\ NoOrphan'
  BY <1>1 DEF SentInv, DisconnectClears, NoOrphan, loopVars, listVars, requestVars
<1>4. NetInv'
  BY <1>1 DEF NetInv, NothingOn, listVars
<1> QED BY <1>2, <1>3, <1>4

LEMMA ConnectFailsStep ==
  ASSUME Base, ConnectFails
  PROVE  Base'
<1> USE DEF Base
<1>1. /\ conn = "connecting" /\ conn' = "closed" /\ doomed' = FALSE
      /\ UNCHANGED <<gen, server, queueVars, loopVars, listVars, requestVars>>
  BY DEF ConnectFails
<1>2. TypeOK'
  BY <1>1 DEF TypeOK, loopVars, listVars, requestVars
<1>3. SentInv' /\ DisconnectClears' /\ NoOrphan'
  BY <1>1 DEF SentInv, DisconnectClears, NoOrphan, loopVars, listVars, requestVars
<1>4. NetInv'
  BY <1>1 DEF NetInv, NothingOn, listVars
<1> QED BY <1>2, <1>3, <1>4

LEMMA BaseNext ==
  ASSUME Base, [Next]_vars
  PROVE  Base'
<1>1. ASSUME NEW r \in Req, Request(r) \/ DispathBussinessMsg(r)
      PROVE  Base'
  BY <1>1, RequestStep, DispathStep
<1>2. CASE CtxMessage
  <2>1. PICK k \in 1 .. Len(inbox) :
          \/ ReceiveRedisReplyNoRequest(k) \/ ReceiveRedisReply(k)
          \/ ReceiveRedisDisconnect(k) \/ NetVerifySuccess(k)
    BY <1>2 DEF CtxMessage, Base, TypeOK
  <2> QED BY <2>1, ReplyNoRequestStep, ReplyStep, DisconnectStep, VerifySuccessStep
<1>3. CASE HandlerStep
  <2>1. CASE VerifiedResume \/ OnTimerResume
    <3>1. handler # "disconnect" /\ m_vtWaitRequest # <<>> /\ ResumeWaiter
      BY <2>1 DEF VerifiedResume, OnTimerResume
    <3> QED BY <3>1, ResumeStep
  <2> QED BY <1>3, <2>1, FailStep, DisconnectEndStep, QuietStep DEF HandlerStep
<1>4. CASE OnTimerClose \/ OnTimer
  BY <1>4, QuietStep, TimerStep
<1>5. CASE OnConnect \/ OnReceiveVerify \/ OnReceiveVerifyDB
  <2>1. PICK from \in {"connecting", "auth", "select"}, done \in SUBSET {"auth", "select"} :
          Advance(from, done)
    BY <1>5 DEF OnConnect, OnReceiveVerify, OnReceiveVerifyDB
  <2> QED BY <2>1, AdvanceStep
<1>6. CASE Transmit \/ OnDisconnect \/ ConnectFails
  BY <1>6, TransmitStep, OnDisconnectStep, ConnectFailsStep
<1>7. ASSUME NEW ok \in BOOLEAN, OnReceive(ok)
      PROVE  Base'
  BY <1>7, ReceiveStep
<1>8. CASE UNCHANGED vars
  BY <1>8 DEF vars, netVars, loopVars, listVars, requestVars, Base, TypeOK, SentInv, NetInv,
              NothingOn, DisconnectClears, NoOrphan
<1> QED BY <1>1, <1>2, <1>3, <1>4, <1>5, <1>6, <1>7, <1>8 DEF Next

(***************************************************************************)
(* List and queue match.                                                   *)
(***************************************************************************)
LEMMA MatchedSame ==
  ASSUME Base, Matched, UNCHANGED <<m_vtRequest, inbox, server>>,
         handler' # handler => handler # "disconnect" /\ handler' # "disconnect",
         conn' = "up" => conn = "up" /\ gen' = gen,
         \A r \in Req : ret'[r] = "foreign" => ret[r] = "foreign"
  PROVE  Matched'
<1>1. ASSUME NEW g \in 1 .. MaxConn
      PROVE  /\ HasBlock(m_vtRequest', inbox', g)
             /\ handler' # "disconnect" =>
                  FrontOn(m_vtRequest', inbox', g, g = gen' /\ conn' = "up")
  BY DEF Matched, Queues, FrontOn
<1>2. Queues'
  BY <1>1 DEF Queues
<1>3. LoopInv'
  BY DEF Matched, LoopInv
<1>4. NoForeign'
  BY DEF Matched, NoForeign
<1> QED BY <1>2, <1>3, <1>4 DEF Matched

LEMMA MatchedSend ==
  ASSUME Base, Matched, handler # "disconnect", conn = "up",
         NEW r \in Req, SendRequest(r, m_vtRequest),
         UNCHANGED <<conn, gen, inbox, handler, ret>>
  PROVE  Matched'
<1> DEFINE e == SentEntry(r)
<1>1. /\ Longer(m_vtRequest', m_vtRequest, e) /\ Longer(server', server, r)
      /\ m_vtRequest' \in Seq(Entry) /\ server' \in Seq(Req)
  BY SendType DEF Base, TypeOK
<1>2. e.gen = gen /\ e.req = r
  BY DEF SentEntry, IsTransmit
<1> HIDE DEF e
<1>3. /\ Len(m_vtRequest) \in Nat /\ Len(inbox) \in Nat /\ Len(server) \in Nat
  BY Elements DEF Base
<1>4. InStepOn(m_vtRequest, inbox, server, gen)
  BY DEF Matched
<1>5. ASSUME NEW g \in 1 .. MaxConn
      PROVE  /\ HasBlock(m_vtRequest', inbox, g)
             /\ FrontOn(m_vtRequest', inbox, g, g = gen)
  <2>1. HasBlock(m_vtRequest, inbox, g) /\ FrontOn(m_vtRequest, inbox, g, g = gen)
    BY DEF Matched, Queues, FrontOn
  <2>2. HasBlock(m_vtRequest', inbox, g)
    <3>1. CASE g = gen
      BY <1>1, <1>2, <1>3, <1>4, <3>1, BlockSend
    <3>2. CASE g # gen
      BY <1>1, <1>2, <1>3, <2>1, <3>2, BlockSendOther
    <3> QED BY <3>1, <3>2
  <2>3. FrontOn(m_vtRequest', inbox, g, g = gen)
    <3>1. PICK up \in BOOLEAN : up = (g = gen)
      OBVIOUS
    <3>2. up => e.gen = g
      BY <3>1, <1>2
    <3>3. FrontOn(m_vtRequest, inbox, g, up)
      BY <2>1, <3>1
    <3>4. FrontOn(m_vtRequest', inbox, g, up)
      BY <1>1, <1>3, <2>1, <3>2, <3>3, FrontSend
    <3> QED BY <3>1, <3>4
  <2> QED BY <2>2, <2>3
<1>6. Queues'
  BY <1>5 DEF Queues, FrontOn
<1>7. LoopInv' /\ NoForeign'
  BY DEF Matched, LoopInv, NoForeign
<1>8. InStepOn(m_vtRequest', inbox, server', gen)
  BY <1>1, <1>2, <1>3, <1>4, StepSend
<1> QED BY <1>6, <1>7, <1>8 DEF Matched

(* The queue grows, while the connection is not up or ends. *)
LEMMA MatchedMessage ==
  ASSUME Base, Matched, NEW m \in Message, m.kind # "reply", NetMessage(m),
         conn' # "up", server' = <<>>,
         UNCHANGED <<handler, m_vtRequest, ret>>
  PROVE  Matched'
<1>1. Longer(inbox', inbox, m)
  BY AppendIsLonger DEF NetMessage, Base, TypeOK
<1>2. Len(m_vtRequest) \in Nat /\ Len(inbox) \in Nat
  BY Elements DEF Base
<1>3. \A g : ~IsReply(m, g)
  BY DEF IsReply
<1>4. ASSUME NEW g \in 1 .. MaxConn
      PROVE  /\ HasBlock(m_vtRequest, inbox', g)
             /\ handler # "disconnect" => FrontOn(m_vtRequest, inbox', g, FALSE)
  <2>1. HasBlock(m_vtRequest, inbox', g)
    BY <1>1, <1>2, <1>3, BlockMessage DEF Matched, Queues
  <2>2. handler # "disconnect" => FrontOn(m_vtRequest, inbox, g, FALSE)
    BY DEF Matched, Queues, FrontOn
  <2>3. handler # "disconnect" => FrontOn(m_vtRequest, inbox', g, FALSE)
    BY <2>2, <1>1, <1>2, <1>3, FrontMessage
  <2> QED BY <2>1, <2>3
<1>5. Queues'
  BY <1>4 DEF Queues, FrontOn
<1>6. LoopInv'
  <2> SUFFICES ASSUME handler = "disconnect", NEW g \in 1 .. MaxConn,
                      NEW i \in 1 .. Len(inbox')
               PROVE  ~IsReply(inbox'[i], g)
    BY DEF LoopInv
  <2>1. CASE i \in 1 .. Len(inbox) /\ inbox'[i] = inbox[i]
    BY <2>1 DEF Matched, LoopInv
  <2>2. CASE inbox'[i] = m
    BY <2>2, <1>3
  <2> QED BY <2>1, <2>2, <1>1, <1>2, LongerCases
<1>7. NoForeign'
  BY DEF Matched, NoForeign
<1> QED BY <1>5, <1>6, <1>7 DEF Matched

LEMMA MatchedReceive ==
  ASSUME Base, Matched, NEW ok \in BOOLEAN, OnReceive(ok)
  PROVE  Matched'
<1> DEFINE m == [kind |-> "reply", req |-> Head(server), gen |-> gen, ok |-> ok]
<1>1. /\ conn = "up" /\ server # <<>> /\ server' = Tail(server) /\ NetMessage(m)
      /\ UNCHANGED <<conn, gen, doomed, loopVars, listVars, requestVars>>
  BY DEF OnReceive
<1>2. server \in Seq(Req) /\ gen \in 1 .. MaxConn
  BY GenIsNumber DEF Base, TypeOK
<1>3. server' \in Seq(Req) /\ Rest(server', server) /\ Head(server) = server[1]
      /\ Head(server) \in Req
  BY <1>1, <1>2, TailIsRest
<1>4. m \in Message
  BY <1>2, <1>3 DEF Message
<1>5. IsReply(m, gen) /\ m.req = server[1] /\ \A g : g # gen => ~IsReply(m, g)
  BY <1>3 DEF IsReply
<1> HIDE DEF m
<1>6. Longer(inbox', inbox, m)
  BY <1>1, <1>4, AppendIsLonger DEF NetMessage, Base, TypeOK
<1>7. /\ Len(m_vtRequest) \in Nat /\ Len(inbox) \in Nat /\ Len(server) \in Nat
      /\ Len(server) # 0 /\ Len(server') \in Nat
  BY <1>1, <1>2, <1>3, Elements, NoneIsEmpty DEF Base
<1>8. InStepOn(m_vtRequest, inbox, server, gen)
  BY <1>1 DEF Matched
<1>9. handler # "disconnect"
  BY <1>1 DEF Matched, LoopInv
<1>10. ASSUME NEW g \in 1 .. MaxConn
       PROVE  /\ HasBlock(m_vtRequest, inbox', g)
              /\ FrontOn(m_vtRequest, inbox', g, g = gen)
  <2>1. HasBlock(m_vtRequest, inbox, g) /\ FrontOn(m_vtRequest, inbox, g, g = gen)
    BY <1>1, <1>9 DEF Matched, Queues, FrontOn
  <2>2. HasBlock(m_vtRequest, inbox', g)
    <3>1. CASE g = gen
      BY <1>5, <1>6, <1>7, <1>8, <3>1, BlockReply
    <3>2. CASE g # gen
      BY <1>5, <1>6, <1>7, <2>1, <3>2, BlockMessage
    <3> QED BY <3>1, <3>2
  <2>3. FrontOn(m_vtRequest, inbox', g, g = gen)
    <3>1. PICK up \in BOOLEAN : up = (g = gen)
      OBVIOUS
    <3>2. IsReply(m, g) => up
      BY <1>5, <3>1
    <3>3. FrontOn(m_vtRequest, inbox, g, up)
      BY <2>1, <3>1
    <3>4. FrontOn(m_vtRequest, inbox', g, up)
      BY <1>6, <1>7, <3>2, <3>3, FrontMessage
    <3> QED BY <3>1, <3>4
  <2> QED BY <2>2, <2>3
<1>11. Queues'
  BY <1>1, <1>10 DEF Queues, FrontOn, listVars
<1>12. LoopInv' /\ NoForeign'
  BY <1>1, <1>9 DEF Matched, LoopInv, NoForeign, loopVars, requestVars
<1>13. InStepOn(m_vtRequest, inbox', server', gen)
  BY <1>3, <1>5, <1>6, <1>7, <1>8, StepReply
<1> QED BY <1>1, <1>11, <1>12, <1>13 DEF Matched, listVars

LEMMA MatchedTransmit ==
  ASSUME Base, Matched, Transmit
  PROVE  Matched'
<1>1. /\ conn = "verified" /\ conn' = "up"
      /\ UNCHANGED <<gen, doomed, server, inbox, loopVars, listVars, requestVars>>
  BY DEF Transmit
<1>2. NothingOn(m_vtRequest, inbox, gen) /\ server = <<>>
  BY <1>1 DEF Base, NetInv
<1>3. Len(m_vtRequest) \in Nat /\ Len(inbox) \in Nat /\ Len(server) = 0
  BY <1>2, Elements DEF Base
<1>4. InStepOn(m_vtRequest, inbox, server, gen)
  BY <1>2, <1>3, NothingInStep
<1>5. ASSUME m_vtRequest # <<>>, handler # "disconnect"
      PROVE  EndsBefore(inbox, gen)
  <2>1. PICK i \in DOMAIN inbox : inbox[i].kind = "disconnect"
    BY <1>1, <1>5 DEF Base, NoOrphan
  <2>2. i \in 1 .. Len(inbox)
    BY <2>1 DEF Base, TypeOK
  <2> QED BY <1>2, <2>1, <2>2 DEF NothingOn, EndsBefore, IsEnd
<1>6. ASSUME NEW g \in 1 .. MaxConn
      PROVE  /\ HasBlock(m_vtRequest, inbox, g)
             /\ handler # "disconnect" => FrontOn(m_vtRequest, inbox, g, g = gen)
  <2>1. m_vtRequest = <<>> => Len(m_vtRequest) = 0
    OBVIOUS
  <2>2. CASE g = gen
    BY <1>5, <2>1, <2>2 DEF Matched, Queues, FrontOn
  <2>3. CASE g # gen
    BY <2>3 DEF Matched, Queues, FrontOn
  <2> QED BY <2>2, <2>3
<1>7. Queues'
  BY <1>1, <1>6 DEF Queues, FrontOn, loopVars, listVars
<1>8. LoopInv' /\ NoForeign'
  BY <1>1, <1>2 DEF Matched, LoopInv, NoForeign, NothingOn, loopVars, listVars, requestVars
<1> QED BY <1>1, <1>4, <1>7, <1>8 DEF Matched, listVars

(* The message of OnNetVerifySuccess comes up. *)
LEMMA MatchedVerifySuccess ==
  ASSUME Base, Matched, NEW k \in 1 .. Len(inbox), NetVerifySuccess(k)
  PROVE  Matched'
<1>1. /\ NextMessage("verified", k) /\ handler' = "verified"
      /\ UNCHANGED <<netVars, snapshot, overlap, listVars, requestVars>>
  BY DEF NetVerifySuccess
<1>2. /\ inbox' \in Seq(Message) /\ Cut(inbox', inbox, k) /\ handler = "none"
      /\ ~IsEnd(inbox[k]) /\ \A g : ~IsReply(inbox[k], g)
  BY <1>1, NextMessageType DEF Base, IsEnd, IsReply
<1>3. /\ Len(m_vtRequest) \in Nat /\ Len(inbox) \in Nat /\ Len(inbox') \in Nat
      /\ Len(server) \in Nat
  BY <1>2, Elements, NoneIsEmpty DEF Base
<1>4. ASSUME NEW g \in 1 .. MaxConn
      PROVE  /\ HasBlock(m_vtRequest, inbox', g)
             /\ FrontOn(m_vtRequest, inbox', g, g = gen /\ conn = "up")
  <2>1. HasBlock(m_vtRequest, inbox', g)
    BY <1>2, <1>3, BlockNextMessage DEF Matched, Queues
  <2>2. PICK up \in BOOLEAN : up = (g = gen /\ conn = "up")
    OBVIOUS
  <2>3. FrontOn(m_vtRequest, inbox, g, up)
    BY <1>2, <2>2 DEF Matched, Queues, FrontOn
  <2>4. FrontOn(m_vtRequest, inbox', g, up)
    BY <1>2, <1>3, <2>3, FrontNextMessage
  <2> QED BY <2>1, <2>2, <2>4
<1>5. Queues'
  BY <1>1, <1>4 DEF Queues, FrontOn, listVars, netVars
<1>6. LoopInv' /\ NoForeign'
  BY <1>1 DEF Matched, LoopInv, NoForeign, requestVars
<1>7. conn = "up" => InStepOn(m_vtRequest, inbox', server, gen)
  BY <1>2, <1>3, StepNextMessage DEF Matched
<1> QED BY <1>1, <1>5, <1>6, <1>7 DEF Matched, listVars, netVars

(* There is a request for every reply. *)
LEMMA ReplyHasRequest ==
  ASSUME Base, Matched, NEW k \in 1 .. Len(inbox), NextMessage("reply", k), IsFirst(inbox, k)
  PROVE  /\ Len(m_vtRequest) # 0
         /\ m_vtRequest[1].gen = inbox[k].gen /\ m_vtRequest[1].req = inbox[k].req
         /\ inbox[k].gen \in 1 .. MaxConn
<1>1. inbox[k] \in Message /\ inbox[k].kind = "reply" /\ handler = "none"
  BY NextMessageType DEF Base
<1>2. PICK g : g = inbox[k].gen
  OBVIOUS
<1>3. g \in 1 .. MaxConn /\ IsReply(inbox[k], g)
  BY <1>1, <1>2, MessageParts DEF IsReply
<1>4. Len(m_vtRequest) \in Nat /\ Len(inbox) \in Nat
  BY Elements DEF Base
<1>5. HasBlock(m_vtRequest, inbox, g) /\ FrontOn(m_vtRequest, inbox, g, g = gen /\ conn = "up")
  BY <1>1, <1>3 DEF Matched, Queues
<1> QED BY <1>1, <1>2, <1>3, <1>4, <1>5, FrontGetsOwn

LEMMA MatchedReply ==
  ASSUME Base, Matched, NEW k \in 1 .. Len(inbox), ReceiveRedisReply(k), ~overtaken'
  PROVE  Matched'
<1> DEFINE q == Tail(m_vtRequest)
<1>0. PICK r : r = Head(m_vtRequest).req
  OBVIOUS
<1>1. /\ NextMessage("reply", k) /\ m_vtRequest # <<>>
      /\ UNCHANGED <<conn, gen, loopVars, m_vtWaitRequest>>
      /\ IsFirst(inbox, k)
  BY InOrder DEF ReceiveRedisReply
<1>2. \/ SendRequest(r, q) /\ ret' = [ret EXCEPT ![r] = Verdict(r, inbox[k])]
      \/ /\ ret' = [ret EXCEPT ![r] = Verdict(r, inbox[k])]
         /\ m_vtRequest' = q /\ UNCHANGED server
  BY <1>0 DEF ReceiveRedisReply, FrontData, Finish
<1>3. m_vtRequest \in Seq(Entry) /\ server \in Seq(Req)
  BY DEF Base, TypeOK
<1>4. /\ q \in Seq(Entry) /\ Rest(q, m_vtRequest) /\ r = m_vtRequest[1].req
      /\ Head(m_vtRequest) \in Entry
  BY <1>0, <1>1, <1>3, TailIsRest
<1> HIDE DEF q
<1>5. r \in Req
  BY <1>0, <1>4, EntryParts
<1>6. /\ inbox' \in Seq(Message) /\ Cut(inbox', inbox, k) 
      /\ inbox[k].kind = "reply" /\ handler = "none"
  BY <1>1, NextMessageType DEF Base
<1>7. /\ Len(m_vtRequest) \in Nat /\ Len(q) \in Nat /\ Len(inbox) \in Nat
      /\ Len(inbox') \in Nat /\ Len(server) \in Nat
  BY <1>4, <1>6, Elements, NoneIsEmpty DEF Base
<1>8. PICK h \in 1 .. MaxConn : h = inbox[k].gen
  BY <1>1, ReplyHasRequest
<1>9. m_vtRequest[1].gen = h /\ r = inbox[k].req /\ IsReply(inbox[k], h)
      /\ \A g : g # h => ~IsReply(inbox[k], g)
  BY <1>1, <1>4, <1>6, <1>8, ReplyHasRequest DEF IsReply
<1>10. NoForeign'
  <2>1. ret[r] # "foreign"
    BY <1>5 DEF Matched, NoForeign
  <2>2. Verdict(r, inbox[k]) # "foreign"
    BY <1>6, <1>9, <2>1 DEF Verdict
  <2>3. \A x \in Req : ret'[x] = ret[x] \/ (x = r /\ ret'[x] = Verdict(r, inbox[k]))
    BY <1>2, <1>5 DEF Base, TypeOK
  <2> QED BY <2>2, <2>3 DEF Matched, NoForeign
<1>11. conn = "up" => InStepOn(q, inbox', server, gen)
  <2> SUFFICES ASSUME conn = "up" PROVE InStepOn(q, inbox', server, gen)
    OBVIOUS
  <2>1. InStepOn(m_vtRequest, inbox, server, gen)
    BY DEF Matched
  <2>2. CASE gen = h
    BY <1>1, <1>4, <1>6, <1>7, <1>9, <2>1, <2>2, StepPop
  <2>3. CASE gen # h
    <3>1. InStepOn(m_vtRequest, inbox', server, gen)
      BY <1>6, <1>7, <1>9, <2>1, <2>3, StepNextMessage
    <3> QED BY <1>4, <1>7, <1>9, <2>3, <3>1, StepDrop
  <2> QED BY <2>2, <2>3
<1>12. ASSUME NEW g \in 1 .. MaxConn
       PROVE  /\ HasBlock(q, inbox', g)
              /\ FrontOn(q, inbox', g, g = gen /\ conn = "up")
  <2>1. PICK up \in BOOLEAN : up = (g = gen /\ conn = "up")
    OBVIOUS
  <2>2. /\ HasBlock(m_vtRequest, inbox, g) /\ FrontOn(m_vtRequest, inbox, g, up)
        /\ up => InStepOn(m_vtRequest, inbox, server, g)
    BY <1>6, <2>1 DEF Matched, Queues
  <2>3. HasBlock(q, inbox', g)
    <3>1. CASE g = h
      BY <1>1, <1>4, <1>6, <1>7, <1>9, <2>2, <3>1, BlockPop
    <3>2. CASE g # h
      <4>1. HasBlock(m_vtRequest, inbox', g)
        BY <1>6, <1>7, <1>9, <2>2, <3>2, BlockNextMessage
      <4> QED BY <1>4, <1>7, <1>9, <3>2, <4>1, BlockDrop
    <3> QED BY <3>1, <3>2
  <2>4. FrontOn(q, inbox', g, up)
    BY <1>1, <1>4, <1>6, <1>7, <1>9, <2>2, FrontPop
  <2> QED BY <2>1, <2>3, <2>4
<1>13. LoopInv'
  BY <1>1, <1>6 DEF LoopInv, loopVars
<1>14. CASE SendRequest(r, q)
  <2> DEFINE e == SentEntry(r)
  <2>1. /\ Longer(m_vtRequest', q, e)
        /\ conn = "up" => Longer(server', server, r)
    BY <1>4, <1>5, <1>14, SendType DEF Base
  <2>2. e.gen = (IF conn = "up" THEN gen ELSE 0) /\ e.req = r
    BY DEF SentEntry, IsTransmit
  <2> HIDE DEF e
  <2>3. ASSUME NEW g \in 1 .. MaxConn
        PROVE  /\ HasBlock(m_vtRequest', inbox', g)
               /\ FrontOn(m_vtRequest', inbox', g, g = gen /\ conn = "up")
    <3>1. PICK up \in BOOLEAN : up = (g = gen /\ conn = "up")
      OBVIOUS
    <3>2. HasBlock(q, inbox', g) /\ FrontOn(q, inbox', g, up)
      BY <1>12, <3>1
    <3>3. HasBlock(m_vtRequest', inbox', g)
      <4>1. CASE e.gen = g
        <5>1. InStepOn(q, inbox', server, g)
          BY <4>1, <2>2, <1>11
        <5> QED BY <4>1, <5>1, <2>1, <1>7, BlockSend
      <4>2. CASE e.gen # g
        BY <4>2, <3>2, <2>1, <1>7, BlockSendOther
      <4> QED BY <4>1, <4>2
    <3>4. FrontOn(m_vtRequest', inbox', g, up)
      <4>1. up => e.gen = g
        BY <3>1, <2>2
      <4> QED BY <4>1, <3>2, <2>1, <1>7, FrontSend
    <3> QED BY <3>1, <3>3, <3>4
  <2>4. Queues'
    BY <1>1, <2>3 DEF Queues
  <2>5. conn = "up" => InStepOn(m_vtRequest', inbox', server', gen)
    BY <1>7, <1>11, <2>1, <2>2, StepSend
  <2> QED BY <1>1, <1>10, <1>13, <2>4, <2>5 DEF Matched
<1>15. CASE m_vtRequest' = q /\ UNCHANGED server
  <2>1. Queues'
    BY <1>1, <1>12, <1>15 DEF Queues
  <2> QED BY <1>1, <1>10, <1>11, <1>13, <1>15, <2>1 DEF Matched
<1> QED BY <1>2, <1>14, <1>15

(* A disconnect that takes requests of its own connection only finds       *)
(* nothing of another connection sent, and no reply is behind it.          *)
LEMMA MatchedDisconnect ==
  ASSUME Base, Matched, NEW k \in 1 .. Len(inbox), ReceiveRedisDisconnect(k), ~overlap', ~overtaken'
  PROVE  Matched'
<1>1. /\ NextMessage("disconnect", k) /\ handler' = "disconnect"
      /\ UNCHANGED <<netVars, listVars, requestVars>>
      /\ ~ \E i \in DOMAIN m_vtRequest : m_vtRequest[i].gen \notin {0, inbox[k].gen}
  BY DEF ReceiveRedisDisconnect
<1>2. /\ inbox' \in Seq(Message) /\ Cut(inbox', inbox, k) /\ IsFirst(inbox, k)
      /\ inbox[k].kind = "disconnect" /\ inbox[k] \in Message
      /\ inbox[k].gen \in 1 .. MaxConn
  BY <1>1, NextMessageType, MessageParts, InOrder DEF Base
<1>3. PICK h \in 1 .. MaxConn : h = inbox[k].gen
  BY <1>2
<1>4. /\ Len(m_vtRequest) \in Nat /\ Len(inbox) \in Nat /\ Len(inbox') \in Nat
      /\ Len(server) \in Nat /\ server \in Seq(Req)
  BY <1>2, Elements, NoneIsEmpty DEF Base, TypeOK
<1>5. \A i \in 1 .. Len(m_vtRequest) : m_vtRequest[i].gen \in {0, h}
  BY <1>1, <1>2, <1>3 DEF Base, TypeOK
<1>6. \A g : IsEnd(inbox[k]) /\ ~IsReply(inbox[k], g)
  BY <1>2 DEF IsEnd, IsReply
<1>7. ASSUME NEW i \in 1 .. Len(inbox')
      PROVE  \E j \in 1 .. Len(inbox) : inbox'[i] = inbox[j] /\ (k < j \/ j < k)
  BY <1>2, <1>4, CutCases
<1>8. ASSUME NEW g \in 1 .. MaxConn, NEW i \in 1 .. Len(inbox')
      PROVE  ~IsReply(inbox'[i], g)
  <2>1. CASE g = h
    <3>1. PICK j \in 1 .. Len(inbox) : inbox'[i] = inbox[j] /\ (k < j \/ j < k)
      BY <1>7
    <3>2. CASE j < k
      BY <1>2, <3>1, <3>2 DEF IsFirst
    <3>3. CASE k < j
      BY <3>1, <3>3, <2>1, <1>3, <1>6 DEF Base, NetInv
    <3> QED BY <3>1, <3>2, <3>3
  <2>2. CASE g # h
    <3>1. PICK a, n, b, z \in Nat : Block(m_vtRequest, inbox, g, a, n, b, z)
      BY DEF Matched, Queues, HasBlock
    <3>2. n = 0
      <4> SUFFICES ASSUME n # 0 PROVE FALSE
        OBVIOUS
      <4>1. a + 1 \in 1 .. Len(m_vtRequest) /\ a < a + 1 /\ a + 1 <= a + n
        BY <3>1 DEF Block
      <4>2. m_vtRequest[a + 1].gen = g
        BY <3>1, <4>1 DEF Block
      <4>3. g # 0
        OBVIOUS
      <4> QED BY <4>1, <4>2, <4>3, <1>5, <2>2
    <3>3. z = 0
      BY <3>1, <3>2 DEF Block
    <3>4. \A j \in 1 .. Len(inbox) : ~IsReply(inbox[j], g)
      BY <3>1, <3>3, <1>4 DEF Block
    <3> QED BY <3>4, <1>7
  <2> QED BY <2>1, <2>2
<1>9. conn = "up" => \A i \in 1 .. Len(m_vtRequest) : m_vtRequest[i].gen # gen
  <2>1. conn = "up" => h < gen
    BY <1>3, <1>6 DEF Base, NetInv
  <2>2. gen \in Nat /\ gen # 0
    BY DEF Base, TypeOK, NetInv
  <2> QED BY <1>5, <2>1, <2>2
<1>10. server = <<>>
  <2>1. CASE conn # "up"
    BY <2>1 DEF Base, NetInv
  <2>2. CASE conn = "up"
    <3>1. PICK a, b \in Nat : StepAt(m_vtRequest, inbox, server, gen, a, b)
      BY <2>2 DEF Matched, InStepOn
    <3>2. a = Len(m_vtRequest)
      <4> SUFFICES ASSUME a # Len(m_vtRequest) PROVE FALSE
        OBVIOUS
      <4>1. a + 1 \in 1 .. Len(m_vtRequest) /\ a + 1 > a
        BY <3>1, <1>4 DEF StepAt
      <4> QED BY <4>1, <3>1, <2>2, <1>9 DEF StepAt
    <3>3. Len(server) = 0
      BY <3>1, <3>2, <1>4 DEF StepAt
    <3> QED BY <3>3, <1>4
  <2> QED BY <2>1, <2>2
<1>11. LoopInv'
  BY <1>1, <1>8, <1>9, <1>10 DEF LoopInv, netVars, listVars
<1>12. \A g \in 1 .. MaxConn : HasBlock(m_vtRequest, inbox', g)
  BY <1>2, <1>4, <1>6, BlockNextMessage DEF Matched, Queues
<1>13. Queues'
  BY <1>1, <1>12 DEF Queues, listVars
<1>14. conn = "up" => InStepOn(m_vtRequest, inbox', server, gen)
  BY <1>2, <1>4, <1>6, StepNextMessage DEF Matched
<1> QED BY <1>1, <1>11, <1>13, <1>14 DEF Matched, NoForeign, netVars, listVars, requestVars

(* Nothing of a connection is there while the requests are failed. *)
LEMMA NothingInLoop ==
  ASSUME Base, LoopInv, handler = "disconnect", conn = "up",
         NEW q, Len(q) \in Nat, \A i \in 1 .. Len(q) : q[i].gen # gen
  PROVE  InStepOn(q, inbox, server, gen)
<1>1. Len(server) = 0 /\ gen \in 1 .. MaxConn /\ Len(inbox) \in Nat
  BY Elements, GenIsNumber DEF Base, LoopInv
<1>2. NothingOn(q, inbox, gen)
  BY <1>1 DEF NothingOn, LoopInv
<1> QED BY <1>1, <1>2, NothingInStep

LEMMA MatchedFail ==
  ASSUME Base, Matched, FailRequest
  PROVE  Matched'
<1>0. PICK r : r = Head(snapshot).req
  OBVIOUS
<1>1. /\ handler = "disconnect" /\ snapshot # <<>>
      /\ m_vtRequest' = Tail(m_vtRequest)
      /\ ret' = [ret EXCEPT ![r] = IF ret[r] = "foreign" THEN "foreign" ELSE "fail"]
      /\ UNCHANGED <<netVars, inbox, handler>>
  BY <1>0 DEF FailRequest, Finish
<1>2. m_vtRequest = snapshot /\ m_vtRequest \in Seq(Entry)
  BY <1>1 DEF Base, DisconnectClears, TypeOK
<1>3. m_vtRequest' \in Seq(Entry) /\ Rest(m_vtRequest', m_vtRequest)
  BY <1>1, <1>2, TailIsRest
<1>4. /\ Len(m_vtRequest) \in Nat /\ Len(m_vtRequest') \in Nat /\ Len(inbox) \in Nat
  BY <1>2, <1>3, Elements, NoneIsEmpty DEF Base
<1>5. conn = "up" => \A i \in 1 .. Len(m_vtRequest') : m_vtRequest'[i].gen # gen
  <2>1. \A i \in 1 .. Len(m_vtRequest') :
          i + 1 \in 1 .. Len(m_vtRequest) /\ m_vtRequest'[i] = m_vtRequest[i + 1]
    BY <1>3, <1>4 DEF Rest
  <2> QED BY <1>1, <2>1 DEF Matched, LoopInv
<1>6. LoopInv'
  BY <1>1, <1>5 DEF Matched, LoopInv, netVars
<1>7. ASSUME NEW g \in 1 .. MaxConn
      PROVE  HasBlock(m_vtRequest', inbox, g)
  <2>1. ~HasReply(inbox, g)
    BY <1>1 DEF Matched, LoopInv, HasReply
  <2> QED BY <1>3, <1>4, <2>1, BlockDrop DEF Matched, Queues
<1>8. Queues'
  BY <1>1, <1>7 DEF Queues
<1>9. NoForeign'
  <2>1. \A x \in Req : ret'[x] = ret[x] \/ ret'[x] # "foreign"
    BY <1>1 DEF Base, TypeOK
  <2> QED BY <2>1 DEF Matched, NoForeign
<1>10. conn = "up" => InStepOn(m_vtRequest', inbox, server, gen)
  BY <1>1, <1>4, <1>5, NothingInLoop DEF Matched
<1> QED BY <1>1, <1>6, <1>8, <1>9, <1>10 DEF Matched, netVars

LEMMA MatchedDisconnectEnd ==
  ASSUME Base, Matched, DisconnectEnd
  PROVE  Matched'
<1>1. /\ handler = "disconnect" /\ m_vtRequest' = <<>> /\ handler' = "none"
      /\ UNCHANGED <<netVars, inbox, requestVars>>
  BY DEF DisconnectEnd
<1>2. Len(m_vtRequest') = 0 /\ Len(inbox) \in Nat
  BY <1>1, Elements DEF Base
<1>3. ASSUME NEW g \in 1 .. MaxConn
      PROVE  /\ HasBlock(m_vtRequest', inbox, g)
             /\ FrontOn(m_vtRequest', inbox, g, g = gen /\ conn = "up")
  <2>1. NothingOn(m_vtRequest', inbox, g)
    BY <1>1, <1>2 DEF NothingOn, Matched, LoopInv
  <2> QED BY <1>2, <2>1, NothingBlock DEF FrontOn
<1>4. Queues'
  BY <1>1, <1>3 DEF Queues, netVars
<1>5. LoopInv' /\ NoForeign'
  BY <1>1 DEF Matched, LoopInv, NoForeign, requestVars
<1>6. conn = "up" => InStepOn(m_vtRequest', inbox, server, gen)
  BY <1>1, <1>2, NothingInLoop DEF Matched
<1> QED BY <1>1, <1>4, <1>5, <1>6 DEF Matched, netVars

LEMMA OverlapStays ==
  ASSUME [Next]_vars, ~overlap', Base
  PROVE  ~overlap
BY
   DEF Next, CtxMessage, HandlerStep, Request, DispathBussinessMsg, ReceiveRedisReplyNoRequest,
       ReceiveRedisReply, ReceiveRedisDisconnect, NetVerifySuccess, FailRequest, DisconnectEnd,
       VerifiedResume, OnTimerResume, ResumeWaiter, VerifiedEnd, OnTimerEnd, OnTimerClose, OnTimer,
       OnConnect, OnReceiveVerify, OnReceiveVerifyDB, Advance, Transmit, OnReceive, OnDisconnect,
       ConnectFails, vars, loopVars, Base, TypeOK

LEMMA OvertakenStays ==
  ASSUME [Next]_vars, ~overtaken', Base
  PROVE  ~overtaken
BY
   DEF Next, CtxMessage, HandlerStep, Request, DispathBussinessMsg, ReceiveRedisReplyNoRequest,
       ReceiveRedisReply, ReceiveRedisDisconnect, NetVerifySuccess, FailRequest, DisconnectEnd,
       VerifiedResume, OnTimerResume, ResumeWaiter, VerifiedEnd, OnTimerEnd, OnTimerClose, OnTimer,
       OnConnect, OnReceiveVerify, OnReceiveVerifyDB, Advance, Transmit, OnReceive, OnDisconnect,
       ConnectFails, NextMessage, NetMessage, vars, loopVars, Base, TypeOK

LEMMA MatchedNext ==
  ASSUME Base, Matched, [Next]_vars, ~overlap', ~overtaken'
  PROVE  Matched'
<1>1. ASSUME NEW r \in Req, Request(r)
      PROVE  Matched'
  BY <1>1, MatchedSame DEF Request, netVars, loopVars, listVars
<1>2. ASSUME NEW r \in Req, DispathBussinessMsg(r)
      PROVE  Matched'
  <2>1. CASE IsTransmit
    BY <1>2, <2>1, MatchedSend DEF DispathBussinessMsg, loopVars, IsTransmit
  <2>2. CASE ~IsTransmit
    BY <1>2, <2>2, MatchedSame DEF DispathBussinessMsg, loopVars
  <2> QED BY <2>1, <2>2
<1>3. CASE CtxMessage
  <2>1. PICK k \in 1 .. Len(inbox) :
          \/ ReceiveRedisReplyNoRequest(k) \/ ReceiveRedisReply(k)
          \/ ReceiveRedisDisconnect(k) \/ NetVerifySuccess(k)
    BY <1>3 DEF CtxMessage, Base, TypeOK
  <2>2. ~ReceiveRedisReplyNoRequest(k)
    <3> SUFFICES ASSUME ReceiveRedisReplyNoRequest(k) PROVE FALSE
      OBVIOUS
    <3>1. NextMessage("reply", k) /\ Len(m_vtRequest) = 0
      BY DEF ReceiveRedisReplyNoRequest
    <3>2. IsFirst(inbox, k)
      BY <3>1, InOrder
    <3> QED BY <3>1, <3>2, ReplyHasRequest
  <2> QED BY <2>1, <2>2, MatchedReply, MatchedDisconnect, MatchedVerifySuccess
<1>4. CASE VerifiedResume \/ OnTimerResume
  <2>1. handler # "disconnect" /\ m_vtWaitRequest # <<>> /\ ResumeWaiter
    BY <1>4 DEF VerifiedResume, OnTimerResume
  <2>2. PICK r : r = Head(m_vtWaitRequest)
    OBVIOUS
  <2>3. r \in Req
    BY <2>1, <2>2, TailIsRest DEF Base, TypeOK
  <2>4. CASE IsTransmit
    BY <2>1, <2>2, <2>3, <2>4, MatchedSend DEF ResumeWaiter, loopVars, IsTransmit
  <2>5. CASE ~IsTransmit
    <3>1. /\ ret' = [ret EXCEPT ![r] = "nonet"]
          /\ UNCHANGED <<server, m_vtRequest, conn, gen, inbox, handler>>
      BY <2>1, <2>2, <2>5 DEF ResumeWaiter, Finish, loopVars
    <3>2. \A x \in Req : ret'[x] = "foreign" => ret[x] = "foreign"
      BY <3>1, <2>3 DEF Base, TypeOK
    <3> QED BY <3>1, <3>2, MatchedSame
  <2> QED BY <2>4, <2>5
<1>5. CASE VerifiedEnd \/ OnTimerEnd \/ OnTimerClose \/ OnTimer \/ ConnectFails
  <2>1. UNCHANGED <<m_vtRequest, inbox, server, ret>>
    BY <1>5
       DEF VerifiedEnd, OnTimerEnd, OnTimerClose, OnTimer, ConnectFails, netVars, listVars,
                requestVars
  <2>2. handler' # handler => handler # "disconnect" /\ handler' # "disconnect"
    BY <1>5 DEF VerifiedEnd, OnTimerEnd, OnTimerClose, OnTimer, ConnectFails, loopVars
  <2>3. conn' = "up" => conn = "up" /\ gen' = gen
    BY <1>5 DEF VerifiedEnd, OnTimerEnd, OnTimerClose, OnTimer, ConnectFails, netVars
  <2> QED BY <2>1, <2>2, <2>3, MatchedSame
<1>6. CASE FailRequest \/ DisconnectEnd
  BY <1>6, MatchedFail, MatchedDisconnectEnd
<1>7. ASSUME NEW from \in {"connecting", "auth", "select"}, NEW done, Advance(from, done)
      PROVE  Matched'
  <2> DEFINE m == [kind |-> "verified", gen |-> gen]
  <2>1. /\ conn = from /\ conn' \in {"auth", "select", "verified"}
        /\ NetMessage(m) \/ UNCHANGED inbox
        /\ UNCHANGED <<gen, server, handler, m_vtRequest, ret>>
    BY <1>7 DEF Advance, NextStep, loopVars, listVars, requestVars
  <2>2. m \in Message /\ m.kind # "reply"
    BY GenIsNumber DEF Message
  <2>3. server' = <<>>
    BY <2>1 DEF Base, NetInv
  <2> HIDE DEF m
  <2>4. CASE NetMessage(m)
    BY <2>1, <2>2, <2>3, <2>4, MatchedMessage
  <2>5. CASE UNCHANGED inbox
    BY <2>1, <2>5, MatchedSame
  <2> QED BY <2>1, <2>4, <2>5
<1>8. CASE OnConnect \/ OnReceiveVerify \/ OnReceiveVerifyDB
  <2>1. PICK from \in {"connecting", "auth", "select"}, done \in SUBSET {"auth", "select"} :
          Advance(from, done)
    BY <1>8 DEF OnConnect, OnReceiveVerify, OnReceiveVerifyDB
  <2> QED BY <2>1, <1>7
<1>9. CASE OnDisconnect
  <2> DEFINE m == [kind |-> "disconnect", gen |-> gen]
  <2>1. /\ conn' = "closed" /\ server' = <<>> /\ NetMessage(m)
        /\ UNCHANGED <<handler, m_vtRequest, ret>>
    BY <1>9 DEF OnDisconnect, loopVars, listVars, requestVars
  <2>2. m \in Message /\ m.kind # "reply"
    BY GenIsNumber DEF Message
  <2> HIDE DEF m
  <2> QED BY <2>1, <2>2, MatchedMessage
<1>10. ASSUME NEW ok \in BOOLEAN, OnReceive(ok)
       PROVE  Matched'
  BY <1>10, MatchedReceive
<1>11. CASE Transmit
  BY <1>11, MatchedTransmit
<1>12. CASE UNCHANGED vars
  BY <1>12, MatchedSame DEF vars, netVars, loopVars, listVars, requestVars
<1> QED BY <1>1, <1>2, <1>3, <1>4, <1>5, <1>6, <1>8, <1>9, <1>10, <1>11, <1>12
        DEF Next, HandlerStep

-----------------------------------------------------------------------------
LEMMA NextIInv ==
  ASSUME IInv, [Next]_vars
  PROVE  IInv'
<1>1. Base'
  BY BaseNext DEF IInv
<1>2. ~overlap' /\ ~overtaken' => Matched'
  BY OverlapStays, OvertakenStays, MatchedNext DEF IInv
<1> QED BY <1>1, <1>2 DEF IInv

(* The inductive invariant, for messages that are taken in any order: what *)
(* depends on the order is said under the condition that it was kept.      *)
THEOREM Invariance == Spec => []IInv
<1>1. Init => IInv
  BY InitIInv
<1>2. IInv /\ [Next]_vars => IInv'
  BY NextIInv
<1> QED BY <1>1, <1>2, PTL DEF Spec

(* Every variable keeps its type; above all, no request is resumed when it *)
(* has no command left to get an answer for.                               *)
THEOREM TypeCorrect == Spec => []TypeOK
<1>1. IInv => TypeOK
  BY DEF IInv, Base
<1> QED BY <1>1, Invariance, PTL

(* The assertions of ~CKernelMsgQueueRequestMgr and ReceiveRedisDisconnect *)
(* (kernelrequeststoredata.cpp:24, ctx_redis.cpp:381): while the requests  *)
(* of a lost connection are failed, nobody joins or leaves the list but    *)
(* the one that is failed.                                                 *)
THEOREM ClearsOwn == Spec => []DisconnectClears
<1>1. IInv => DisconnectClears
  BY DEF IInv, Base
<1> QED BY <1>1, Invariance, PTL

LEMMA StepIsSentInStep ==
  ASSUME Base, InStepOn(m_vtRequest, inbox, server, gen)
  PROVE  SentInStep
<1>1. PICK a, b \in Nat : StepAt(m_vtRequest, inbox, server, gen, a, b)
  BY DEF InStepOn
<1>2. Len(m_vtRequest) \in Nat /\ Len(inbox) \in Nat
  BY Elements DEF Base
<1>3. a \in 0 .. Len(m_vtRequest) /\ b \in 0 .. Len(inbox)
  BY <1>1, <1>2 DEF StepAt
<1>4. /\ \A i \in 1 .. Len(m_vtRequest) : m_vtRequest[i].gen = gen <=> i > a
      /\ \A i \in 1 .. Len(inbox) : ReplyOf(gen, i) <=> i > b
      /\ Len(m_vtRequest) - a = Len(inbox) - b + Len(server)
      /\ \A i \in 1 .. Len(inbox) - b : m_vtRequest[a + i].req = inbox[b + i].req
      /\ \A i \in 1 .. Len(server) : m_vtRequest[a + (Len(inbox) - b) + i].req = server[i]
  BY <1>1 DEF StepAt, IsReply, ReplyOf
<1> QED BY <1>3, <1>4 DEF SentInStep

(* No request is stuck in the list, in whatever order the queue hands the  *)
(* messages over.  And as long as no disconnect takes requests of a later  *)
(* connection, and no reply or disconnect passes an earlier one, list,     *)
(* queue and server are in step, and no caller is handed the reply to      *)
(* somebody else's command (ctx_redis.h:183), across as many connections   *)
(* as there are: these two are all that can break it.                      *)
THEOREM RepliesInStep == Spec => []RequestsInStep
<1>1. IInv => RequestsInStep
  <2> SUFFICES ASSUME IInv PROVE RequestsInStep
    OBVIOUS
  <2>1. NoOrphan
    BY DEF IInv, Base
  <2>2. ~overlap /\ ~overtaken => (conn = "up" => SentInStep) /\ OwnReply
    BY StepIsSentInStep DEF IInv, Matched, NoForeign, OwnReply
  <2> QED BY <2>1, <2>2 DEF RequestsInStep, InStep
<1> QED BY <1>1, Invariance, PTL

-----------------------------------------------------------------------------
(***************************************************************************)
(* CtxRedisWatch, for every set of channels, patterns and requests, and    *)
(* any number of connections and messages, which the queue may hand over   *)
(* in any order.  An entry is only erased by the reply to an               *)
(* unsubscription, so what has to be shown is that nothing of a channel is *)
(* left when that reply is taken, whatever was sent on this connection or  *)
(* is left of an earlier one, unless the reply itself passed something of  *)
(* its channel (overtaken).                                                *)
(***************************************************************************)
CONSTANTS Channel, Pattern, Op, Of, MaxMessages
VARIABLES subscribed, published, m_mapSub, crashed, since, doubled

Watch == INSTANCE CtxRedisWatch

WatchConstants ==
  /\ Op \in [Req -> {"subscribe", "unsubscribe"}]
  /\ Of \in [Req -> Channel]
  /\ MaxConn \in Nat \ {0}
  /\ MaxMessages \in Nat

(***************************************************************************)
(* The inductive invariant.                                                *)
(***************************************************************************)
Ends(m, c) == m.kind = "unsubscribe" /\ m.of = c

NoRequest(c) == \A i \in 1 .. Len(server) : Of[server[i]] # c

(* Of a channel without entry nothing is on its way. *)
Nowhere(c) ==
  /\ c \notin subscribed
  /\ NoRequest(c)
  /\ \A i \in 1 .. Len(inbox) : ~Watch!About(inbox[i], c)

(* Nor was anything pushed behind the unsubscription, or the reply to it.  *)
LastMessage(c) ==
  \A i \in 1 .. Len(inbox) : Ends(inbox[i], c) =>
    /\ c \notin subscribed
    /\ NoRequest(c)
    /\ \A j \in 1 .. Len(inbox) : i < j => ~Watch!About(inbox[j], c)

LastRequest(c) ==
  \A i \in 1 .. Len(server) : Op[server[i]] = "unsubscribe" /\ Of[server[i]] = c =>
    \A j \in 1 .. Len(server) : i < j => Of[server[j]] # c

(* The server sends the messages of entries that are ready, or will be. *)
Ready(c) ==
  c \in subscribed =>
    \/ m_mapSub[c] = "init"
    \/ \E i \in 1 .. Len(inbox) : inbox[i].kind = "subscribe" /\ inbox[i].of = c

ChannelInv(c) ==
  /\ m_mapSub[c] = "none" => Nowhere(c)
  /\ LastMessage(c) /\ LastRequest(c) /\ Ready(c)

(* An entry that was made on this connection is known to the server, or is *)
(* going to be, or is going to be erased, unless the server refused.       *)
Refused == doomed \/ \E i \in 1 .. Len(inbox) : inbox[i].kind = "error"

Asked(c) ==
  \/ c \in subscribed
  \/ \E i \in 1 .. Len(server) : Op[server[i]] = "subscribe" /\ Of[server[i]] = c
  \/ \E i \in 1 .. Len(inbox) : Ends(inbox[i], c)

Known(c) == conn = "up" /\ since[c] = gen /\ m_mapSub[c] # "none" => Asked(c) \/ Refused

(* A connection that is not up yet has no entries. *)
SinceInv ==
  \A c \in Channel : since[c] <= gen /\ (conn \in {"connecting", "verified"} => since[c] # gen)

WatchIInv ==
  /\ Watch!TypeOK /\ Watch!MessageFindsEntry /\ SinceInv
  /\ \A c \in Channel : Known(c)
  /\ ~doubled /\ ~overtaken => \A c \in Channel : ChannelInv(c)

-----------------------------------------------------------------------------
(* The initial state, and what the types say. *)
LEMMA WatchInitIInv ==
  ASSUME WatchConstants, Watch!Init
  PROVE  WatchIInv
<1>1. Watch!TypeOK
  <2>1. gen \in 1 .. MaxConn /\ published \in 0 .. MaxMessages
    BY DEF WatchConstants, Watch!Init
  <2>2. since \in [Channel -> 0 .. MaxConn]
    <3>1. 0 \in 0 .. MaxConn
      BY DEF WatchConstants
    <3> QED BY <3>1 DEF Watch!Init
  <2>3. /\ doomed \in BOOLEAN /\ crashed \in BOOLEAN /\ doubled \in BOOLEAN
        /\ overtaken \in BOOLEAN
    BY DEF Watch!Init
  <2>4. /\ conn \in {"closed", "connecting", "verified", "up"}
        /\ server \in Seq(Req) /\ subscribed \subseteq Channel /\ inbox \in Seq(Watch!Message)
        /\ handler \in {"none", "verified", "timer"}
        /\ m_mapSub \in [Channel -> {"none", "new", "init"}]
        /\ m_vtWaitRequest \in Seq(Req)
        /\ pc \in [Req -> {"idle", "waiting", "done"}]
        /\ ret \in [Req -> {"none", "success", "exists", "nonet"}]
    BY DEF Watch!Init
  <2> QED BY <2>1, <2>2, <2>3, <2>4 DEF Watch!TypeOK
<1>2. /\ Watch!MessageFindsEntry
      /\ \A c \in Channel : since[c] = 0
      /\ gen = 1 /\ conn = "connecting"
      /\ subscribed = {} /\ Len(server) = 0 /\ Len(inbox) = 0
  BY DEF Watch!Init, Watch!MessageFindsEntry
<1>3. SinceInv /\ \A c \in Channel : Known(c)
  BY <1>2 DEF SinceInv, Known
<1>4. ASSUME NEW c \in Channel
      PROVE  ChannelInv(c)
  <2>1. (\A i \in 1 .. Len(server) : FALSE) /\ (\A i \in 1 .. Len(inbox) : FALSE)
    BY <1>2
  <2>2. Nowhere(c) /\ LastMessage(c) /\ LastRequest(c)
    BY <1>2, <2>1 DEF Nowhere, NoRequest, LastMessage, LastRequest
  <2>3. Ready(c)
    BY <1>2 DEF Ready
  <2> QED BY <2>2, <2>3 DEF ChannelInv
<1> QED BY <1>1, <1>2, <1>3, <1>4 DEF WatchIInv

LEMMA WatchElements ==
  ASSUME WatchConstants, Watch!TypeOK
  PROVE  /\ Len(inbox) \in Nat /\ Len(server) \in Nat
         /\ \A i \in 1 .. Len(inbox) : inbox[i] \in Watch!Message
         /\ \A i \in 1 .. Len(server) : server[i] \in Req
         /\ gen \in Nat
         /\ \A c \in Channel : since[c] \in Nat
<1>1. /\ inbox \in Seq(Watch!Message) /\ server \in Seq(Req)
      /\ gen \in 1 .. MaxConn /\ since \in [Channel -> 0 .. MaxConn]
  BY DEF Watch!TypeOK
<1>2. Len(inbox) \in Nat /\ \A i \in 1 .. Len(inbox) : inbox[i] \in Watch!Message
  BY <1>1
<1>3. Len(server) \in Nat /\ \A i \in 1 .. Len(server) : server[i] \in Req
  BY <1>1
<1>4. gen \in Nat /\ \A c \in Channel : since[c] \in Nat
  BY <1>1 DEF WatchConstants
<1> QED BY <1>2, <1>3, <1>4

(* A message is the one Unsubscribing looks for exactly if it ends c. *)
LEMMA EndsIsReply ==
  ASSUME NEW m \in Watch!Message, NEW c \in Channel
  PROVE  Ends(m, c) <=> m = [kind |-> "unsubscribe", of |-> c]
BY DEF Ends, Watch!Message

(***************************************************************************)
(* A request is sent.                                                      *)
(***************************************************************************)
SendStep(r) ==
  /\ Watch!IsTransmit /\ Watch!Send(r)
  /\ UNCHANGED <<conn, gen, doomed, subscribed, published, inbox, handler, crashed>>

LEMMA WatchSendType ==
  ASSUME WatchConstants, Watch!TypeOK, NEW r \in Req, SendStep(r)
  PROVE  /\ server' \in Seq(Req)
         /\ m_mapSub' \in [Channel -> {"none", "new", "init"}]
         /\ since' \in [Channel -> 0 .. MaxConn] /\ doubled' \in BOOLEAN /\ overtaken' = overtaken
         /\ pc' \in [Req -> {"idle", "waiting", "done"}]
         /\ ret' \in [Req -> {"none", "success", "exists", "nonet"}]
<1>1. CASE Watch!Subscribe(r)
  <2>1. /\ pc' \in [Req -> {"idle", "waiting", "done"}]
        /\ ret' \in [Req -> {"none", "success", "exists", "nonet"}]
    BY <1>1 DEF Watch!Subscribe, Watch!Finish, Watch!TypeOK
  <2>2. server' \in Seq(Req)
    <3>1. server' = Append(server, r) \/ server' = server
      BY <1>1 DEF Watch!Subscribe
    <3>2. server \in Seq(Req)
      BY DEF Watch!TypeOK
    <3> QED BY <3>1, <3>2, AppendIsLonger
  <2>3. m_mapSub' \in [Channel -> {"none", "new", "init"}]
    BY <1>1 DEF Watch!Subscribe, Watch!mapVars, Watch!TypeOK
  <2>4. since' \in [Channel -> 0 .. MaxConn]
    <3>1. gen \in 0 .. MaxConn
      BY DEF Watch!TypeOK, WatchConstants
    <3> QED BY <1>1, <3>1 DEF Watch!Subscribe, Watch!mapVars, Watch!TypeOK
  <2>5. doubled' = doubled /\ overtaken' = overtaken
    BY <1>1 DEF Watch!Subscribe, Watch!mapVars
  <2> QED BY <2>1, <2>2, <2>3, <2>4, <2>5 DEF Watch!TypeOK
<1>2. CASE Watch!Unsubscribe(r)
  <2>1. /\ pc' \in [Req -> {"idle", "waiting", "done"}]
        /\ ret' \in [Req -> {"none", "success", "exists", "nonet"}]
    BY <1>2 DEF Watch!Unsubscribe, Watch!Finish, Watch!TypeOK
  <2>2. server' \in Seq(Req)
    <3>1. server' = Append(server, r) \/ server' = server
      BY <1>2 DEF Watch!Unsubscribe
    <3>2. server \in Seq(Req)
      BY DEF Watch!TypeOK
    <3> QED BY <3>1, <3>2, AppendIsLonger
  <2>3. doubled' \in BOOLEAN /\ overtaken' = overtaken
    BY <1>2 DEF Watch!Unsubscribe
  <2> QED BY <1>2, <2>1, <2>2, <2>3 DEF Watch!Unsubscribe, Watch!TypeOK
<1> QED BY <1>1, <1>2 DEF SendStep, Watch!Send

LEMMA SendInv ==
  ASSUME WatchConstants, WatchIInv, NEW r \in Req, SendStep(r)
  PROVE  /\ Watch!MessageFindsEntry' /\ SinceInv'
         /\ \A c \in Channel : Known(c)'
         /\ ~doubled' /\ ~overtaken' => \A c \in Channel : ChannelInv(c)'
<1> DEFINE k == Of[r]
<1>0. /\ k \in Channel /\ Watch!TypeOK
      /\ conn = "up" /\ conn' = conn /\ gen' = gen /\ doomed' = doomed /\ inbox' = inbox
      /\ subscribed' = subscribed /\ crashed' = crashed
      /\ Op[r] \in {"subscribe", "unsubscribe"}
  BY DEF WatchConstants, WatchIInv, SendStep, Watch!IsTransmit
<1>5. overtaken' = overtaken
  BY <1>0, WatchSendType
<1>1. CASE UNCHANGED <<server, m_mapSub, since>> /\ (~doubled' => ~doubled)
  <2>1. Watch!MessageFindsEntry' /\ SinceInv'
    BY <1>0, <1>1, <1>5 DEF WatchIInv, Watch!MessageFindsEntry, SinceInv
  <2>2. \A c \in Channel : Known(c)'
    BY <1>0, <1>1 DEF WatchIInv, Known, Asked, Refused
  <2>3. ~doubled' /\ ~overtaken' => \A c \in Channel : ChannelInv(c)'
    BY <1>0, <1>1, <1>5
       DEF WatchIInv, ChannelInv, Nowhere, NoRequest, LastMessage, LastRequest, Ready
  <2> QED BY <2>1, <2>2, <2>3
<1>2. CASE /\ Op[r] = "subscribe" /\ m_mapSub[k] = "none"
           /\ m_mapSub' = [m_mapSub EXCEPT ![k] = "new"]
           /\ since' = [since EXCEPT ![k] = gen]
           /\ server' = Append(server, r) /\ doubled' = doubled
  <2>1. Longer(server', server, r) /\ Len(server) \in Nat
    BY <1>2, <1>0, AppendIsLonger, WatchElements DEF Watch!TypeOK
  <2>2. /\ m_mapSub'[k] = "new" /\ since'[k] = gen
        /\ \A c \in Channel : c # k => m_mapSub'[c] = m_mapSub[c] /\ since'[c] = since[c]
    BY <1>0, <1>2 DEF Watch!TypeOK
  <2>3. Watch!MessageFindsEntry' /\ SinceInv'
    <3>1. gen \in Nat
      BY <1>0, WatchElements
    <3> QED BY <1>0, <1>2, <1>5, <2>2, <3>1 DEF WatchIInv, Watch!MessageFindsEntry, SinceInv
  <2>4. ASSUME NEW c \in Channel
        PROVE  Known(c)'
    <3>1. CASE c = k
      <4>1. Len(server') \in 1 .. Len(server') /\ server'[Len(server')] = r
        BY <2>1 DEF Longer
      <4> QED BY <3>1, <4>1, <1>2 DEF Known, Asked
    <3>2. CASE c # k
      <4>1. Known(c) /\ (Asked(c) => Asked(c)')
        BY <2>1, <1>0 DEF WatchIInv, Asked, Longer
      <4> QED BY <3>2, <4>1, <2>2, <1>0 DEF Known, Refused
    <3> QED BY <3>1, <3>2
  <2>5. ASSUME ~doubled', ~overtaken', NEW c \in Channel
        PROVE  ChannelInv(c)'
    <3>1. ChannelInv(c) /\ ChannelInv(k)
      BY <2>5, <1>0, <1>2, <1>5 DEF WatchIInv
    <3>2. CASE c = k
      <4>1. Nowhere(k)
        BY <3>1, <1>2 DEF ChannelInv
      <4>2. LastMessage(k)'
        BY <4>1, <1>0 DEF Nowhere, LastMessage, Watch!About, Ends
      <4>3. LastRequest(k)'
        BY <4>1, <2>1 DEF Nowhere, NoRequest, LastRequest, Longer
      <4> QED BY <3>2, <4>1, <4>2, <4>3, <2>2, <1>0 DEF ChannelInv, Ready, Nowhere
    <3>3. CASE c # k
      <4>1. NoRequest(c) => NoRequest(c)'
        BY <3>3, <2>1 DEF NoRequest, Longer
      <4>2. LastRequest(c)'
        BY <3>1, <3>3, <2>1 DEF ChannelInv, LastRequest, Longer
      <4> QED BY <3>1, <3>3, <4>1, <4>2, <2>2, <1>0
              DEF ChannelInv, Ready, Nowhere, LastMessage
    <3> QED BY <3>2, <3>3
  <2> QED BY <2>3, <2>4, <2>5
<1>3. CASE /\ Op[r] = "unsubscribe" /\ m_mapSub[k] # "none"
           /\ UNCHANGED <<m_mapSub, since>>
           /\ server' = Append(server, r) /\ doubled' = (doubled \/ Watch!Unsubscribing(k))
  <2>1. Longer(server', server, r) /\ Len(server) \in Nat
    BY <1>3, <1>0, AppendIsLonger, WatchElements DEF Watch!TypeOK
  <2>2. Watch!MessageFindsEntry' /\ SinceInv'
    BY <1>0, <1>3, <1>5 DEF WatchIInv, Watch!MessageFindsEntry, SinceInv
  <2>3. ASSUME NEW c \in Channel
        PROVE  Known(c)'
    <3>1. Known(c) /\ (Asked(c) => Asked(c)')
      BY <2>1, <1>0 DEF WatchIInv, Asked, Longer
    <3> QED BY <3>1, <1>0, <1>3 DEF Known, Refused
  <2>4. ASSUME ~doubled', ~overtaken', NEW c \in Channel
        PROVE  ChannelInv(c)'
    <3>1. ~doubled /\ ~Watch!Unsubscribing(k) /\ ChannelInv(c)
      BY <2>4, <1>3, <1>5 DEF WatchIInv
    <3>2. CASE c = k
      <4>1. ASSUME NEW i \in 1 .. Len(inbox)
            PROVE  ~Ends(inbox[i], k)
        <5>1. inbox[i] \in Watch!Message /\ i \in DOMAIN inbox
          BY <1>0, WatchElements DEF Watch!TypeOK
        <5> QED BY <5>1, <3>1, <1>0, EndsIsReply DEF Watch!Unsubscribing
      <4>2. \A i \in 1 .. Len(server) : ~(Op[server[i]] = "unsubscribe" /\ Of[server[i]] = k)
        BY <3>1, <1>0 DEF Watch!Unsubscribing, Watch!TypeOK
      <4>3. LastMessage(k)'
        BY <4>1, <1>0 DEF LastMessage
      <4>4. LastRequest(k)'
        BY <4>2, <2>1 DEF LastRequest, Longer
      <4> QED BY <3>1, <3>2, <4>3, <4>4, <1>0, <1>3 DEF ChannelInv, Ready
    <3>3. CASE c # k
      <4>1. NoRequest(c) => NoRequest(c)'
        BY <3>3, <2>1 DEF NoRequest, Longer
      <4>2. LastRequest(c)'
        BY <3>1, <3>3, <2>1 DEF ChannelInv, LastRequest, Longer
      <4> QED BY <3>1, <3>3, <4>1, <4>2, <1>0, <1>3
              DEF ChannelInv, Ready, Nowhere, LastMessage
    <3> QED BY <3>2, <3>3
  <2> QED BY <2>2, <2>3, <2>4
<1>4. \/ UNCHANGED <<server, m_mapSub, since>> /\ (~doubled' => ~doubled)
      \/ /\ Op[r] = "subscribe" /\ m_mapSub[k] = "none"
         /\ m_mapSub' = [m_mapSub EXCEPT ![k] = "new"]
         /\ since' = [since EXCEPT ![k] = gen]
         /\ server' = Append(server, r) /\ doubled' = doubled
      \/ /\ Op[r] = "unsubscribe" /\ m_mapSub[k] # "none"
         /\ UNCHANGED <<m_mapSub, since>>
         /\ server' = Append(server, r) /\ doubled' = (doubled \/ Watch!Unsubscribing(k))
  <2>1. CASE Op[r] = "subscribe"
    BY <2>1 DEF SendStep, Watch!Send, Watch!Subscribe, Watch!mapVars
  <2>2. CASE Op[r] # "subscribe"
    BY <2>2, <1>0 DEF SendStep, Watch!Send, Watch!Unsubscribe
  <2> QED BY <2>1, <2>2
<1> QED BY <1>1, <1>2, <1>3, <1>4

-----------------------------------------------------------------------------
(***************************************************************************)
(* The actions that send nothing.                                          *)
(***************************************************************************)
(* Nothing the invariant speaks of changes. *)
LEMMA QuietInv ==
  ASSUME WatchIInv,
         UNCHANGED <<conn, gen, doomed, server, subscribed, inbox, Watch!mapVars, crashed>>
  PROVE  /\ Watch!MessageFindsEntry' /\ SinceInv'
         /\ \A c \in Channel : Known(c)'
         /\ ~doubled' /\ ~overtaken' => \A c \in Channel : ChannelInv(c)'
<1>1. Watch!MessageFindsEntry' /\ SinceInv'
  BY DEF WatchIInv, Watch!mapVars, Watch!MessageFindsEntry, SinceInv
<1>2. \A c \in Channel : Known(c)'
  BY DEF WatchIInv, Watch!mapVars, Known, Asked, Refused
<1>3. ~doubled' /\ ~overtaken' => \A c \in Channel : ChannelInv(c)'
  BY
     DEF WatchIInv, Watch!mapVars, ChannelInv, Nowhere, NoRequest, LastMessage, LastRequest, Ready
<1> QED BY <1>1, <1>2, <1>3

(* A coroutine of the ctx sends, or waits, or ends without having sent. *)
LEMMA ResumeType ==
  ASSUME Watch!TypeOK, m_vtWaitRequest # <<>>
  PROVE  Head(m_vtWaitRequest) \in Req /\ Tail(m_vtWaitRequest) \in Seq(Req)
BY TailIsRest DEF Watch!TypeOK

LEMMA WatchDispathStep ==
  ASSUME WatchConstants, WatchIInv, NEW r \in Req, Watch!DispathBussinessMsg(r)
  PROVE  WatchIInv'
<1>0. Watch!TypeOK
  BY DEF WatchIInv
<1>1. CASE Watch!IsTransmit
  <2>1. SendStep(r) /\ UNCHANGED m_vtWaitRequest
    BY <1>1 DEF Watch!DispathBussinessMsg, SendStep
  <2>2. Watch!TypeOK'
    BY <1>0, <2>1, WatchSendType DEF Watch!TypeOK, SendStep
  <2> QED BY <2>1, <2>2, SendInv DEF WatchIInv
<1>2. CASE ~Watch!IsTransmit
  <2>1. m_vtWaitRequest' \in Seq(Req)
    <3>1. m_vtWaitRequest \in Seq(Req) /\ m_vtWaitRequest' = Append(m_vtWaitRequest, r)
      BY <1>0, <1>2 DEF Watch!DispathBussinessMsg, Watch!TypeOK
    <3> QED BY <3>1, AppendIsLonger
  <2>2. UNCHANGED <<conn, gen, doomed, server, subscribed, inbox, Watch!mapVars, crashed>>
    BY <1>2 DEF Watch!DispathBussinessMsg
  <2>3. Watch!TypeOK'
    BY <1>0, <1>2, <2>1 DEF Watch!DispathBussinessMsg, Watch!mapVars, Watch!TypeOK
  <2> QED BY <2>2, <2>3, QuietInv DEF WatchIInv
<1> QED BY <1>1, <1>2

LEMMA WatchResumeStep ==
  ASSUME WatchConstants, WatchIInv, m_vtWaitRequest # <<>>, Watch!ResumeWaiter
  PROVE  WatchIInv'
<1> DEFINE r == Head(m_vtWaitRequest)
<1>0. Watch!TypeOK
  BY DEF WatchIInv
<1>1. r \in Req /\ m_vtWaitRequest' \in Seq(Req)
  BY <1>0, ResumeType DEF Watch!ResumeWaiter
<1>2. CASE Watch!IsTransmit
  <2>1. SendStep(r)
    BY <1>2 DEF Watch!ResumeWaiter, SendStep
  <2> HIDE DEF r
  <2>2. Watch!TypeOK'
    BY <1>0, <1>1, <2>1, WatchSendType DEF Watch!TypeOK, SendStep
  <2> QED BY <1>1, <2>1, <2>2, SendInv DEF WatchIInv
<1>3. CASE ~Watch!IsTransmit
  <2>1. /\ Watch!Finish(r, "nonet")
        /\ UNCHANGED <<conn, gen, doomed, server, subscribed, published, inbox, handler,
                       Watch!mapVars, crashed>>
    BY <1>3 DEF Watch!ResumeWaiter
  <2> HIDE DEF r
  <2>2. Watch!TypeOK'
    BY <1>0, <1>1, <2>1 DEF Watch!Finish, Watch!mapVars, Watch!TypeOK
  <2> QED BY <2>1, <2>2, QuietInv DEF WatchIInv
<1> QED BY <1>2, <1>3

LEMMA LoopEndStep ==
  ASSUME WatchIInv, Watch!VerifiedEnd \/ Watch!OnTimerEnd
  PROVE  WatchIInv'
<1>1. /\ handler' = "none"
      /\ UNCHANGED <<Watch!netVars, inbox, Watch!mapVars, m_vtWaitRequest,
                     Watch!requestVars, crashed>>
  BY DEF Watch!VerifiedEnd, Watch!OnTimerEnd
<1>2. Watch!TypeOK'
  BY <1>1 DEF WatchIInv, Watch!netVars, Watch!mapVars, Watch!requestVars, Watch!TypeOK
<1> QED BY <1>1, <1>2, QuietInv DEF WatchIInv, Watch!netVars

-----------------------------------------------------------------------------
(***************************************************************************)
(* A message is taken.                                                     *)
(***************************************************************************)
LEMMA TakeMessage ==
  ASSUME Watch!TypeOK, NEW kind, NEW k \in 1 .. Len(inbox), Watch!NextMessage(kind, k)
  PROVE  /\ inbox' \in Seq(Watch!Message) /\ Len(inbox') \in Nat
         /\ Cut(inbox', inbox, k)
         /\ inbox[k] \in Watch!Message /\ inbox[k].kind = kind
<1>1. /\ inbox \in Seq(Watch!Message)
      /\ inbox' = Without(inbox, k) /\ inbox[k].kind = kind
  BY DEF Watch!NextMessage, Watch!Without, Without, Watch!TypeOK
<1>2. inbox' \in Seq(Watch!Message) /\ Cut(inbox', inbox, k) /\ inbox[k] \in Watch!Message
  BY <1>1, WithoutIsCut
<1> QED BY <1>1, <1>2

(* What is left of the queue is no worse. *)
LEMMA TakeKeeps ==
  ASSUME Len(inbox) \in Nat, Len(inbox') \in Nat, NEW k \in 1 .. Len(inbox),
         Cut(inbox', inbox, k), server' = server, subscribed' = subscribed, NEW c
  PROVE  /\ Nowhere(c) => Nowhere(c)'
         /\ LastMessage(c) => LastMessage(c)'
         /\ LastRequest(c) => LastRequest(c)'
<1>1. \A i \in 1 .. Len(inbox') : \E j \in 1 .. Len(inbox) : inbox'[i] = inbox[j]
  BY CutCases
<1>2. NoRequest(c)' <=> NoRequest(c)
  BY DEF NoRequest
<1>3. Nowhere(c) => Nowhere(c)'
  BY <1>1, <1>2 DEF Nowhere
<1>4. ASSUME LastMessage(c), NEW i \in 1 .. Len(inbox'), Ends(inbox'[i], c)
      PROVE  /\ c \notin subscribed' /\ NoRequest(c)'
             /\ \A j \in 1 .. Len(inbox') : i < j => ~Watch!About(inbox'[j], c)
  <2>1. PICK a \in 1 .. Len(inbox) :
          inbox'[i] = inbox[a] /\ a = IF i < k THEN i ELSE i + 1
    BY CutCases
  <2>2. /\ c \notin subscribed /\ NoRequest(c)
        /\ \A j \in 1 .. Len(inbox) : a < j => ~Watch!About(inbox[j], c)
    BY <1>4, <2>1 DEF LastMessage
  <2>3. ASSUME NEW j \in 1 .. Len(inbox'), i < j
        PROVE  ~Watch!About(inbox'[j], c)
    <3>1. PICK b \in 1 .. Len(inbox) :
            inbox'[j] = inbox[b] /\ b = IF j < k THEN j ELSE j + 1
      BY CutCases
    <3>2. a < b
      BY <2>1, <2>3, <3>1
    <3> QED BY <2>2, <3>1, <3>2
  <2> QED BY <1>2, <2>2, <2>3
<1>5. LastMessage(c) => LastMessage(c)'
  BY <1>4 DEF LastMessage
<1>6. LastRequest(c) => LastRequest(c)'
  BY DEF LastRequest
<1> QED BY <1>3, <1>5, <1>6

(* What was found elsewhere in the queue is still found. *)
LEMMA TakeFinds ==
  ASSUME Len(inbox) \in Nat, Len(inbox') \in Nat, NEW k \in 1 .. Len(inbox),
         Cut(inbox', inbox, k), NEW i \in 1 .. Len(inbox)
  PROVE  i = k \/ \E j \in 1 .. Len(inbox') : inbox'[j] = inbox[i]
BY CutKeeps

(* An entry stays known if the message was neither of its end nor a refusal. *)
LEMMA TakeKnown ==
  ASSUME Len(inbox) \in Nat, Len(inbox') \in Nat, NEW k \in 1 .. Len(inbox),
         Cut(inbox', inbox, k), NEW c,
         UNCHANGED <<conn, gen, doomed, server, subscribed, since>>,
         m_mapSub'[c] = "none" <=> m_mapSub[c] = "none",
         ~Ends(inbox[k], c), inbox[k].kind # "error", Known(c)
  PROVE  Known(c)'
<1>1. Asked(c) => Asked(c)'
  <2>1. ASSUME NEW i \in 1 .. Len(inbox), Ends(inbox[i], c)
        PROVE  \E j \in 1 .. Len(inbox') : Ends(inbox'[j], c)
    BY <2>1, TakeFinds
  <2> QED BY <2>1 DEF Asked
<1>2. Refused => Refused'
  <2>1. ASSUME NEW i \in 1 .. Len(inbox), inbox[i].kind = "error"
        PROVE  \E j \in 1 .. Len(inbox') : inbox'[j].kind = "error"
    BY <2>1, TakeFinds
  <2> QED BY <2>1 DEF Refused
<1> QED BY <1>1, <1>2 DEF Known

LEMMA TakeReady ==
  ASSUME Len(inbox) \in Nat, Len(inbox') \in Nat, NEW k \in 1 .. Len(inbox),
         Cut(inbox', inbox, k), NEW c,
         subscribed' = subscribed, m_mapSub'[c] = m_mapSub[c],
         inbox[k].kind # "subscribe" \/ inbox[k].of # c, Ready(c)
  PROVE  Ready(c)'
<1>1. ASSUME NEW i \in 1 .. Len(inbox), inbox[i].kind = "subscribe", inbox[i].of = c
      PROVE  \E j \in 1 .. Len(inbox') : inbox'[j].kind = "subscribe" /\ inbox'[j].of = c
  BY <1>1, TakeFinds
<1> QED BY <1>1 DEF Ready

LEMMA ReceiveSubscribeStep ==
  ASSUME WatchConstants, WatchIInv, NEW k \in 1 .. Len(inbox), Watch!ReceiveSubscribe(k)
  PROVE  WatchIInv'
<1> DEFINE ch == inbox[k].of
<1>0. Watch!TypeOK /\ Len(inbox) \in Nat
  BY WatchElements DEF WatchIInv
<1>1. /\ inbox' \in Seq(Watch!Message) /\ Len(inbox') \in Nat /\ Cut(inbox', inbox, k)
      /\ inbox[k] \in Watch!Message /\ inbox[k].kind = "subscribe"
  BY <1>0, TakeMessage DEF Watch!ReceiveSubscribe
<1>2. ch \in Channel
  BY <1>1 DEF Watch!Message
<1>3. /\ m_mapSub' = [m_mapSub EXCEPT ![ch] = IF @ = "none" THEN @ ELSE "init"]
      /\ UNCHANGED <<Watch!netVars, handler, since, doubled, overtaken, m_vtWaitRequest,
                     Watch!requestVars, crashed>>
  BY <1>1 DEF Watch!ReceiveSubscribe
<1> HIDE DEF ch
<1>4. /\ \A c \in Channel : m_mapSub'[c] = "none" <=> m_mapSub[c] = "none"
      /\ \A c \in Channel : c # ch => m_mapSub'[c] = m_mapSub[c]
      /\ m_mapSub[ch] # "none" => m_mapSub'[ch] = "init"
      /\ m_mapSub' \in [Channel -> {"none", "new", "init"}]
  BY <1>0, <1>2, <1>3 DEF Watch!TypeOK
<1>5. Watch!TypeOK'
  BY <1>0, <1>1, <1>3, <1>4 DEF Watch!netVars, Watch!requestVars, Watch!TypeOK
<1>6. Watch!MessageFindsEntry' /\ SinceInv'
  BY <1>3 DEF WatchIInv, Watch!netVars, Watch!MessageFindsEntry, SinceInv
<1>7. \A c \in Channel : Known(c)'
  BY <1>0, <1>1, <1>3, <1>4, TakeKnown DEF WatchIInv, Watch!netVars, Ends
<1>8. ASSUME ~doubled', ~overtaken', NEW c \in Channel
      PROVE  ChannelInv(c)'
  <2>1. ChannelInv(c)
    BY <1>3, <1>8 DEF WatchIInv
  <2>2. Ready(c)'
    <3>1. CASE c = ch
      BY <3>1, <2>1, <1>3, <1>4 DEF ChannelInv, Ready, Nowhere, Watch!netVars
    <3>2. CASE c # ch
      BY <3>2, <2>1, <1>0, <1>1, <1>3, <1>4, TakeReady DEF ChannelInv, Watch!netVars, ch
    <3> QED BY <3>1, <3>2
  <2> QED BY <2>1, <2>2, <1>0, <1>1, <1>3, <1>4, TakeKeeps DEF ChannelInv, Watch!netVars
<1> QED BY <1>5, <1>6, <1>7, <1>8 DEF WatchIInv

(* The entry goes, and nothing of its channel is left. *)
LEMMA ReceiveUnsubscribeStep ==
  ASSUME WatchConstants, WatchIInv, NEW k \in 1 .. Len(inbox), Watch!ReceiveUnsubscribe(k)
  PROVE  WatchIInv'
<1> DEFINE ch == inbox[k].of
<1>0. Watch!TypeOK /\ Len(inbox) \in Nat
  BY WatchElements DEF WatchIInv
<1>1. /\ inbox' \in Seq(Watch!Message) /\ Len(inbox') \in Nat /\ Cut(inbox', inbox, k)
      /\ inbox[k] \in Watch!Message /\ inbox[k].kind = "unsubscribe"
  BY <1>0, TakeMessage DEF Watch!ReceiveUnsubscribe
<1>2. ch \in Channel
  BY <1>1 DEF Watch!Message
<1>3. /\ m_mapSub' = [m_mapSub EXCEPT ![ch] = "none"]
      /\ overtaken' = (overtaken \/ \E i \in 1 .. k - 1 : Watch!About(inbox[i], ch))
      /\ UNCHANGED <<Watch!netVars, handler, since, doubled, m_vtWaitRequest,
                     Watch!requestVars, crashed>>
  BY <1>1 DEF Watch!ReceiveUnsubscribe
<1>9. Ends(inbox[k], ch) /\ \A c \in Channel : c # ch => ~Ends(inbox[k], c)
  BY <1>1 DEF Ends
<1> HIDE DEF ch
<1>4. /\ \A c \in Channel : c # ch => m_mapSub'[c] = m_mapSub[c]
      /\ m_mapSub'[ch] = "none"
      /\ m_mapSub' \in [Channel -> {"none", "new", "init"}]
  BY <1>0, <1>2, <1>3 DEF Watch!TypeOK
<1>5. Watch!TypeOK'
  BY <1>0, <1>1, <1>3, <1>4 DEF Watch!netVars, Watch!requestVars, Watch!TypeOK
<1>6. Watch!MessageFindsEntry' /\ SinceInv'
  BY <1>3 DEF WatchIInv, Watch!netVars, Watch!MessageFindsEntry, SinceInv
<1>7. ASSUME NEW c \in Channel
      PROVE  Known(c)'
  <2>1. CASE c = ch
    BY <2>1, <1>4 DEF Known
  <2>2. CASE c # ch
    <3>1. UNCHANGED <<conn, gen, doomed, server, subscribed, since>> /\ Known(c)
      BY <1>3 DEF Watch!netVars, WatchIInv
    <3> QED BY <2>2, <3>1, <1>0, <1>1, <1>4, <1>9, TakeKnown
  <2> QED BY <2>1, <2>2
<1>8. ASSUME ~doubled', ~overtaken', NEW c \in Channel
      PROVE  ChannelInv(c)'
  <2>1. ChannelInv(c) /\ server' = server /\ subscribed' = subscribed
    BY <1>3, <1>8 DEF WatchIInv, Watch!netVars
  <2>2. LastMessage(c)' /\ LastRequest(c)' /\ (Nowhere(c) => Nowhere(c)')
    BY <2>1, <1>0, <1>1, TakeKeeps DEF ChannelInv
  <2>3. CASE c = ch
    <3>1. /\ c \notin subscribed /\ NoRequest(c)
          /\ \A j \in 1 .. Len(inbox) : k < j => ~Watch!About(inbox[j], c)
      BY <2>1, <2>3, <1>1, <1>9 DEF ChannelInv, LastMessage
    <3>4. ASSUME NEW j \in 1 .. Len(inbox), j < k
          PROVE  ~Watch!About(inbox[j], c)
      <4>1. j \in 1 .. k - 1
        BY <3>4, <1>0
      <4>2. ~ \E i \in 1 .. k - 1 : Watch!About(inbox[i], ch)
        BY <1>3, <1>8
      <4> QED BY <4>1, <4>2, <2>3
    <3>2. ASSUME NEW j \in 1 .. Len(inbox')
          PROVE  ~Watch!About(inbox'[j], c)
      <4>1. PICK a \in 1 .. Len(inbox) : inbox'[j] = inbox[a] /\ (a < k \/ k < a)
        BY <1>0, <1>1, CutCases
      <4> QED BY <3>1, <3>4, <4>1
    <3>3. Nowhere(c)'
      BY <2>1, <3>1, <3>2 DEF Nowhere, NoRequest
    <3> QED BY <2>2, <3>3 DEF ChannelInv, Nowhere, Ready
  <2>4. CASE c # ch
    <3>1. Ready(c)'
      BY <2>1, <2>4, <1>0, <1>1, <1>4, TakeReady DEF ChannelInv
    <3> QED BY <2>1, <2>2, <2>4, <3>1, <1>4 DEF ChannelInv
  <2> QED BY <2>3, <2>4
<1> QED BY <1>5, <1>6, <1>7, <1>8 DEF WatchIInv

(* The message finds an entry, since of a channel without one there is no  *)
(* message.                                                                *)
LEMMA ReceiveMessageStep ==
  ASSUME WatchConstants, WatchIInv, NEW k \in 1 .. Len(inbox), Watch!ReceiveMessage(k)
  PROVE  WatchIInv'
<1>0. Watch!TypeOK /\ Len(inbox) \in Nat
  BY WatchElements DEF WatchIInv
<1>1. /\ inbox' \in Seq(Watch!Message) /\ Len(inbox') \in Nat /\ Cut(inbox', inbox, k)
      /\ inbox[k] \in Watch!Message /\ inbox[k].kind = "message"
  BY <1>0, TakeMessage DEF Watch!ReceiveMessage
<1>2. /\ crashed' = (m_mapSub[inbox[k].of] = "none")
      /\ UNCHANGED <<Watch!netVars, handler, Watch!mapVars, m_vtWaitRequest,
                     Watch!requestVars>>
  BY <1>1 DEF Watch!ReceiveMessage
<1>3. inbox[k].of \in Channel
  BY <1>1 DEF Watch!Message
<1>4. Watch!MessageFindsEntry'
  <2> SUFFICES ASSUME crashed', ~doubled', ~overtaken' PROVE FALSE
    BY DEF Watch!MessageFindsEntry
  <2>1. Nowhere(inbox[k].of)
    BY <1>2, <1>3 DEF WatchIInv, Watch!mapVars, ChannelInv
  <2> QED BY <2>1, <1>1 DEF Nowhere, Watch!About
<1>5. Watch!TypeOK'
  <2>1. crashed' \in BOOLEAN
    BY <1>2
  <2> QED BY <2>1, <1>0, <1>1, <1>2
     DEF Watch!netVars, Watch!mapVars, Watch!requestVars, Watch!TypeOK
<1>6. SinceInv'
  BY <1>2 DEF WatchIInv, Watch!netVars, Watch!mapVars, SinceInv
<1>7. \A c \in Channel : Known(c)'
  BY <1>0, <1>1, <1>2, TakeKnown DEF WatchIInv, Watch!netVars, Watch!mapVars, Ends
<1>8. ASSUME ~doubled', ~overtaken', NEW c \in Channel
      PROVE  ChannelInv(c)'
  <2>1. ChannelInv(c) /\ UNCHANGED <<server, subscribed, m_mapSub>>
    BY <1>2, <1>8 DEF WatchIInv, Watch!netVars, Watch!mapVars
  <2>2. Ready(c)'
    BY <2>1, <1>0, <1>1, TakeReady DEF ChannelInv
  <2> QED BY <2>1, <2>2, <1>0, <1>1, TakeKeeps DEF ChannelInv
<1> QED BY <1>4, <1>5, <1>6, <1>7, <1>8 DEF WatchIInv

(* A refusal closes the connection. *)
LEMMA ReceiveErrorStep ==
  ASSUME WatchConstants, WatchIInv, NEW k \in 1 .. Len(inbox), Watch!ReceiveError(k)
  PROVE  WatchIInv'
<1>0. Watch!TypeOK /\ Len(inbox) \in Nat
  BY WatchElements DEF WatchIInv
<1>1. /\ inbox' \in Seq(Watch!Message) /\ Len(inbox') \in Nat /\ Cut(inbox', inbox, k)
      /\ inbox[k].kind = "error"
  BY <1>0, TakeMessage DEF Watch!ReceiveError
<1>2. /\ doomed' = (doomed \/ conn # "closed")
      /\ UNCHANGED <<conn, gen, server, subscribed, published, handler, Watch!mapVars,
                     m_vtWaitRequest, Watch!requestVars, crashed>>
  BY DEF Watch!ReceiveError, Watch!ErrorClose
<1>3. Watch!TypeOK'
  <2>1. doomed' \in BOOLEAN
    BY <1>2
  <2> QED BY <2>1, <1>0, <1>1, <1>2 DEF Watch!mapVars, Watch!requestVars, Watch!TypeOK
<1>4. Watch!MessageFindsEntry' /\ SinceInv'
  BY <1>2 DEF WatchIInv, Watch!mapVars, Watch!MessageFindsEntry, SinceInv
<1>5. \A c \in Channel : Known(c)'
  BY <1>2 DEF Known, Refused
<1>6. ASSUME ~doubled', ~overtaken', NEW c \in Channel
      PROVE  ChannelInv(c)'
  <2>1. ChannelInv(c) /\ UNCHANGED <<server, subscribed, m_mapSub>>
    BY <1>2, <1>6 DEF WatchIInv, Watch!mapVars
  <2>2. Ready(c)'
    BY <2>1, <1>0, <1>1, TakeReady DEF ChannelInv
  <2> QED BY <2>1, <2>2, <1>0, <1>1, TakeKeeps DEF ChannelInv
<1> QED BY <1>3, <1>4, <1>5, <1>6 DEF WatchIInv

LEMMA WatchVerifySuccessStep ==
  ASSUME WatchConstants, WatchIInv, NEW k \in 1 .. Len(inbox), Watch!NetVerifySuccess(k)
  PROVE  WatchIInv'
<1>0. Watch!TypeOK /\ Len(inbox) \in Nat
  BY WatchElements DEF WatchIInv
<1>1. /\ inbox' \in Seq(Watch!Message) /\ Len(inbox') \in Nat /\ Cut(inbox', inbox, k)
      /\ inbox[k].kind = "verified"
  BY <1>0, TakeMessage DEF Watch!NetVerifySuccess
<1>2. /\ handler' = "verified"
      /\ UNCHANGED <<Watch!netVars, Watch!mapVars, m_vtWaitRequest, Watch!requestVars,
                     crashed>>
  BY DEF Watch!NetVerifySuccess
<1>3. Watch!TypeOK'
  BY <1>0, <1>1, <1>2 DEF Watch!netVars, Watch!mapVars, Watch!requestVars, Watch!TypeOK
<1>4. Watch!MessageFindsEntry' /\ SinceInv'
  BY <1>2 DEF WatchIInv, Watch!netVars, Watch!mapVars, Watch!MessageFindsEntry, SinceInv
<1>5. \A c \in Channel : Known(c)'
  BY <1>0, <1>1, <1>2, TakeKnown DEF WatchIInv, Watch!netVars, Watch!mapVars, Ends
<1>6. ASSUME ~doubled', ~overtaken', NEW c \in Channel
      PROVE  ChannelInv(c)'
  <2>1. ChannelInv(c) /\ UNCHANGED <<server, subscribed, m_mapSub>>
    BY <1>2, <1>6 DEF WatchIInv, Watch!netVars, Watch!mapVars
  <2>2. Ready(c)'
    BY <2>1, <1>0, <1>1, TakeReady DEF ChannelInv
  <2> QED BY <2>1, <2>2, <1>0, <1>1, TakeKeeps DEF ChannelInv
<1> QED BY <1>3, <1>4, <1>5, <1>6 DEF WatchIInv

-----------------------------------------------------------------------------
(***************************************************************************)
(* The timer and the connection.                                           *)
(***************************************************************************)
(* The connection is another, but the queues and the map are not. *)
LEMMA ChannelSame ==
  ASSUME UNCHANGED <<server, subscribed, inbox, m_mapSub>>, NEW c
  PROVE  ChannelInv(c) => ChannelInv(c)'
BY DEF ChannelInv, Nowhere, NoRequest, LastMessage, LastRequest, Ready

LEMMA WatchTimerStep ==
  ASSUME WatchConstants, WatchIInv, Watch!OnTimer
  PROVE  WatchIInv'
<1>0. Watch!TypeOK /\ MaxConn \in Nat
  BY DEF WatchIInv, WatchConstants
<1>1. /\ handler' = "timer"
      /\ UNCHANGED <<doomed, server, subscribed, published, inbox, Watch!mapVars,
                     m_vtWaitRequest, Watch!requestVars, crashed>>
      /\ \/ conn = "closed" /\ gen < MaxConn /\ conn' = "connecting" /\ gen' = gen + 1
         \/ UNCHANGED <<conn, gen>>
  BY DEF Watch!OnTimer
<1>2. Watch!TypeOK'
  <2>1. conn' \in {"closed", "connecting", "verified", "up"} /\ gen' \in 1 .. MaxConn
    BY <1>0, <1>1 DEF Watch!TypeOK
  <2> QED BY <2>1, <1>0, <1>1 DEF Watch!mapVars, Watch!requestVars, Watch!TypeOK
<1>3. Watch!MessageFindsEntry' /\ \A c \in Channel : since'[c] = since[c]
  BY <1>1 DEF WatchIInv, Watch!mapVars, Watch!MessageFindsEntry
<1>4. SinceInv'
  <2>1. gen \in Nat /\ \A c \in Channel : since[c] \in Nat /\ since[c] <= gen
    BY <1>0, WatchElements DEF WatchIInv, SinceInv
  <2>2. CASE conn' = "connecting" /\ gen' = gen + 1
    BY <2>1, <2>2, <1>3 DEF SinceInv
  <2>3. CASE UNCHANGED <<conn, gen>>
    BY <2>3, <1>3 DEF WatchIInv, SinceInv
  <2> QED BY <2>2, <2>3, <1>1
<1>5. \A c \in Channel : Known(c)'
  <2>1. CASE conn' = "connecting"
    BY <2>1 DEF Known
  <2>2. CASE UNCHANGED <<conn, gen>>
    BY <2>2, <1>1 DEF WatchIInv, Watch!mapVars, Known, Asked, Refused
  <2> QED BY <2>1, <2>2, <1>1
<1>6. ~doubled' /\ ~overtaken' => \A c \in Channel : ChannelInv(c)'
  BY <1>1, ChannelSame DEF WatchIInv, Watch!mapVars
<1> QED BY <1>2, <1>3, <1>4, <1>5, <1>6 DEF WatchIInv

(* A message is put at the end of the queue. *)
LEMMA PutMessage ==
  ASSUME Watch!TypeOK, NEW m \in Watch!Message, Watch!NetMessage(m)
  PROVE  /\ inbox' \in Seq(Watch!Message) /\ Len(inbox) \in Nat
         /\ Longer(inbox', inbox, m)
         /\ Len(inbox') \in 1 .. Len(inbox') /\ inbox'[Len(inbox')] = m
         /\ \A i \in 1 .. Len(inbox) : i \in 1 .. Len(inbox') /\ inbox'[i] = inbox[i]
<1>1. inbox \in Seq(Watch!Message) /\ inbox' = Append(inbox, m)
  BY DEF Watch!TypeOK, Watch!NetMessage
<1>2. inbox' \in Seq(Watch!Message) /\ Len(inbox) \in Nat /\ Longer(inbox', inbox, m)
  BY <1>1, AppendIsLonger
<1> QED BY <1>2 DEF Longer

(* A message may be put there about a channel that has an entry and of     *)
(* which no unsubscription is in the queue.                                *)
LEMMA PutKeeps ==
  ASSUME Watch!TypeOK, NEW m \in Watch!Message, Watch!NetMessage(m), NEW c,
         subscribed' = subscribed \/ (c \in subscribed' <=> c \in subscribed),
         \A j \in 1 .. Len(server') : \E i \in 1 .. Len(server) : server'[j] = server[i],
         ~Ends(m, c),
         Watch!About(m, c) => \A i \in 1 .. Len(inbox) : ~Ends(inbox[i], c),
         LastMessage(c)
  PROVE  LastMessage(c)'
<1>1. /\ Len(inbox) \in Nat /\ Longer(inbox', inbox, m)
  BY PutMessage
<1>2. NoRequest(c) => NoRequest(c)'
  BY DEF NoRequest
<1>3. ASSUME NEW i \in 1 .. Len(inbox'), Ends(inbox'[i], c)
      PROVE  /\ c \notin subscribed' /\ NoRequest(c)'
             /\ \A j \in 1 .. Len(inbox') : i < j => ~Watch!About(inbox'[j], c)
  <2>1. i \in 1 .. Len(inbox) /\ Ends(inbox[i], c)
    <3>1. CASE i = Len(inbox) + 1
      BY <1>1, <1>3, <3>1 DEF Longer
    <3>2. CASE i # Len(inbox) + 1
      <4>1. i \in 1 .. Len(inbox)
        BY <1>1, <3>2 DEF Longer
      <4> QED BY <1>1, <1>3, <4>1 DEF Longer
    <3> QED BY <3>1, <3>2
  <2>2. /\ c \notin subscribed /\ NoRequest(c)
        /\ \A j \in 1 .. Len(inbox) : i < j => ~Watch!About(inbox[j], c)
    BY <2>1 DEF LastMessage
  <2>3. ASSUME NEW j \in 1 .. Len(inbox'), i < j
        PROVE  ~Watch!About(inbox'[j], c)
    <3>1. CASE j = Len(inbox) + 1
      BY <1>1, <2>1, <3>1 DEF Longer
    <3>2. CASE j # Len(inbox) + 1
      <4>1. j \in 1 .. Len(inbox)
        BY <1>1, <3>2 DEF Longer
      <4> QED BY <1>1, <2>2, <2>3, <4>1 DEF Longer
    <3> QED BY <3>1, <3>2
  <2> QED BY <1>2, <2>2, <2>3
<1> QED BY <1>3 DEF LastMessage

(* Of a channel the message is not about, nothing is new. *)
LEMMA PutNowhere ==
  ASSUME Watch!TypeOK, NEW m \in Watch!Message, Watch!NetMessage(m), NEW c,
         c \in subscribed' => c \in subscribed,
         \A j \in 1 .. Len(server') : \E i \in 1 .. Len(server) : server'[j] = server[i],
         ~Watch!About(m, c), Nowhere(c)
  PROVE  Nowhere(c)'
<1>1. Len(inbox) \in Nat /\ Longer(inbox', inbox, m)
  BY PutMessage
<1>2. NoRequest(c)'
  BY DEF Nowhere, NoRequest
<1>3. ASSUME NEW j \in 1 .. Len(inbox')
      PROVE  ~Watch!About(inbox'[j], c)
  <2>1. CASE j = Len(inbox) + 1
    BY <1>1, <2>1 DEF Longer
  <2>2. CASE j # Len(inbox) + 1
    <3>1. j \in 1 .. Len(inbox)
      BY <1>1, <2>2 DEF Longer
    <3> QED BY <1>1, <3>1 DEF Longer, Nowhere
  <2> QED BY <2>1, <2>2
<1> QED BY <1>2, <1>3 DEF Nowhere

LEMMA PutReady ==
  ASSUME Watch!TypeOK, NEW m \in Watch!Message, Watch!NetMessage(m), NEW c,
         c \in subscribed' => c \in subscribed, m_mapSub' = m_mapSub, Ready(c)
  PROVE  Ready(c)'
<1>1. \A i \in 1 .. Len(inbox) : i \in 1 .. Len(inbox') /\ inbox'[i] = inbox[i]
  BY PutMessage
<1> QED BY <1>1 DEF Ready

LEMMA ConnectedStep ==
  ASSUME WatchConstants, WatchIInv, Watch!OnNetVerifySuccess
  PROVE  WatchIInv'
<1> DEFINE m == [kind |-> "verified"]
<1>0. Watch!TypeOK /\ m \in Watch!Message
  BY DEF WatchIInv, Watch!Message
<1>1. /\ Watch!NetMessage(m) /\ conn' = "verified" /\ conn = "connecting"
      /\ UNCHANGED <<gen, doomed, server, subscribed, published, handler, Watch!mapVars,
                     m_vtWaitRequest, Watch!requestVars, crashed>>
  BY DEF Watch!OnNetVerifySuccess
<1>2. \A c : ~Watch!About(m, c) /\ ~Ends(m, c)
  BY DEF Watch!About, Ends
<1> HIDE DEF m
<1>3. Watch!TypeOK'
  BY <1>0, <1>1, PutMessage DEF Watch!mapVars, Watch!requestVars, Watch!TypeOK
<1>4. Watch!MessageFindsEntry' /\ SinceInv'
  BY <1>1 DEF WatchIInv, Watch!mapVars, Watch!MessageFindsEntry, SinceInv
<1>5. \A c \in Channel : Known(c)'
  BY <1>1 DEF Known
<1>6. ASSUME ~doubled', ~overtaken', NEW c \in Channel
      PROVE  ChannelInv(c)'
  <2>1. ChannelInv(c) /\ UNCHANGED <<server, subscribed, m_mapSub>>
    BY <1>1, <1>6 DEF WatchIInv, Watch!mapVars
  <2>2. LastMessage(c)'
    BY <2>1, <1>0, <1>1, <1>2, PutKeeps DEF ChannelInv
  <2>3. Ready(c)'
    BY <2>1, <1>0, <1>1, PutReady DEF ChannelInv
  <2>4. m_mapSub'[c] = "none" => Nowhere(c)'
    BY <2>1, <1>0, <1>1, <1>2, PutNowhere DEF ChannelInv
  <2> QED BY <2>1, <2>2, <2>3, <2>4 DEF ChannelInv, LastRequest
<1> QED BY <1>3, <1>4, <1>5, <1>6 DEF WatchIInv

LEMMA WatchTransmitStep ==
  ASSUME WatchConstants, WatchIInv, Watch!Transmit
  PROVE  WatchIInv'
<1>1. /\ conn = "verified" /\ conn' = "up"
      /\ UNCHANGED <<gen, doomed, server, subscribed, published, inbox, handler, Watch!mapVars,
                     m_vtWaitRequest, Watch!requestVars, crashed>>
  BY DEF Watch!Transmit
<1>2. Watch!TypeOK'
  BY <1>1 DEF WatchIInv, Watch!mapVars, Watch!requestVars, Watch!TypeOK
<1>3. Watch!MessageFindsEntry' /\ SinceInv'
  BY <1>1 DEF WatchIInv, Watch!mapVars, Watch!MessageFindsEntry, SinceInv
<1>4. \A c \in Channel : Known(c)'
  BY <1>1 DEF WatchIInv, Watch!mapVars, SinceInv, Known
<1>5. ~doubled' /\ ~overtaken' => \A c \in Channel : ChannelInv(c)'
  BY <1>1, ChannelSame DEF WatchIInv, Watch!mapVars
<1> QED BY <1>2, <1>3, <1>4, <1>5 DEF WatchIInv

(* What was not answered never will be. *)
LEMMA WatchOnDisconnectStep ==
  ASSUME WatchConstants, WatchIInv, Watch!OnDisconnect
  PROVE  WatchIInv'
<1>1. /\ conn' = "closed" /\ doomed' = FALSE /\ server' = <<>> /\ subscribed' = {}
      /\ UNCHANGED <<gen, published, inbox, handler, Watch!mapVars, m_vtWaitRequest,
                     Watch!requestVars, crashed>>
  BY DEF Watch!OnDisconnect
<1>2. Watch!TypeOK'
  <2>1. /\ conn' \in {"closed", "connecting", "verified", "up"}
        /\ server' \in Seq(Req) /\ subscribed' \subseteq Channel
    BY <1>1
  <2>2. doomed' \in BOOLEAN
    BY <1>1
  <2> QED BY <2>1, <2>2, <1>1 DEF WatchIInv, Watch!mapVars, Watch!requestVars, Watch!TypeOK
<1>3. Watch!MessageFindsEntry' /\ SinceInv'
  BY <1>1 DEF WatchIInv, Watch!mapVars, Watch!MessageFindsEntry, SinceInv
<1>4. \A c \in Channel : Known(c)'
  BY <1>1 DEF Known
<1>5. ASSUME ~doubled', ~overtaken', NEW c \in Channel
      PROVE  ChannelInv(c)'
  <2>1. ChannelInv(c) /\ UNCHANGED <<inbox, m_mapSub>>
    BY <1>1, <1>5 DEF WatchIInv, Watch!mapVars
  <2>2. \A i \in 1 .. Len(server') : FALSE
    BY <1>1
  <2>3. NoRequest(c)' /\ LastRequest(c)'
    BY <2>2 DEF NoRequest, LastRequest
  <2>4. Ready(c)' /\ c \notin subscribed'
    BY <1>1 DEF Ready
  <2> QED BY <2>1, <2>3, <2>4 DEF ChannelInv, Nowhere, LastMessage
<1> QED BY <1>2, <1>3, <1>4, <1>5 DEF WatchIInv

(***************************************************************************)
(* The server answers, or sends a message.                                 *)
(***************************************************************************)
LEMMA WatchReceiveStep ==
  ASSUME WatchConstants, WatchIInv, NEW ok \in BOOLEAN, Watch!OnReceive(ok)
  PROVE  WatchIInv'
<1> DEFINE r == server[1]
           k == Of[r]
           m == IF ok THEN [kind |-> Op[r], of |-> k] ELSE [kind |-> "error"]
<1>0. Watch!TypeOK /\ Len(inbox) \in Nat /\ Len(server) \in Nat
  BY WatchElements DEF WatchIInv
<1>1. /\ server' \in Seq(Req) /\ Len(server') \in Nat /\ Rest(server', server)
      /\ Head(server) = r /\ r \in Req /\ 1 \in 1 .. Len(server)
  <2>1. server \in Seq(Req) /\ server # <<>> /\ server' = Tail(server)
    BY <1>0 DEF Watch!OnReceive, Watch!TypeOK
  <2>2. /\ Tail(server) \in Seq(Req) /\ Rest(Tail(server), server)
        /\ Head(server) = server[1] /\ Head(server) \in Req
    BY <2>1, TailIsRest
  <2>3. Len(server') \in Nat
    BY <2>1, <2>2
  <2> QED BY <2>1, <2>2, <2>3 DEF Rest
<1>2. k \in Channel /\ Op[r] \in {"subscribe", "unsubscribe"} /\ m \in Watch!Message
  BY <1>1 DEF WatchConstants, Watch!Message
<1>3. /\ Watch!NetMessage(m) /\ conn = "up"
      /\ IF ok THEN subscribed' = IF Op[r] = "subscribe" THEN subscribed \cup {k}
                                                         ELSE subscribed \ {k}
               ELSE subscribed' = subscribed
      /\ UNCHANGED <<conn, gen, doomed, published, handler, Watch!mapVars, m_vtWaitRequest,
                     Watch!requestVars, crashed>>
  BY <1>1 DEF Watch!OnReceive, Watch!IsTransmit
<1>4. /\ ~ok => m.kind = "error"
      /\ ok => m.kind = Op[r] /\ m.of = k
  OBVIOUS
<1> HIDE DEF m, k
<1>5. /\ \A j \in 1 .. Len(server') : j + 1 \in 1 .. Len(server) /\ server'[j] = server[j + 1]
      /\ \A j \in 1 .. Len(server') : \E i \in 1 .. Len(server) : server'[j] = server[i]
  BY <1>1 DEF Rest
<1>6. Watch!TypeOK'
  <2>1. subscribed' \subseteq Channel
    BY <1>0, <1>2, <1>3 DEF Watch!TypeOK
  <2>2. inbox' \in Seq(Watch!Message)
    BY <1>0, <1>2, <1>3, PutMessage
  <2> QED BY <2>1, <2>2, <1>0, <1>1, <1>3 DEF Watch!mapVars, Watch!requestVars, Watch!TypeOK
<1>7. Watch!MessageFindsEntry' /\ SinceInv'
  BY <1>3 DEF WatchIInv, Watch!mapVars, Watch!MessageFindsEntry, SinceInv
<1>8. /\ Len(inbox') \in 1 .. Len(inbox') /\ inbox'[Len(inbox')] = m
      /\ \A i \in 1 .. Len(inbox) : i \in 1 .. Len(inbox') /\ inbox'[i] = inbox[i]
  BY <1>0, <1>2, <1>3, PutMessage
<1>9. ASSUME NEW c \in Channel
      PROVE  Known(c)'
  <2>1. Known(c) /\ UNCHANGED <<conn, gen, since, m_mapSub, doomed>>
    BY <1>3 DEF WatchIInv, Watch!mapVars
  <2>2. Refused => Refused'
    BY <1>8, <1>3 DEF Refused
  <2>3. ASSUME Asked(c)
        PROVE  Asked(c)' \/ Refused'
    <3>1. CASE ~ok
      BY <3>1, <1>4, <1>8 DEF Refused
    <3>2. CASE ok /\ c = k /\ Op[r] = "subscribe"
      BY <3>2, <1>3 DEF Asked
    <3>3. CASE ok /\ c = k /\ Op[r] = "unsubscribe"
      BY <3>3, <1>4, <1>8 DEF Asked, Ends
    <3>4. CASE ok /\ c # k
      <4>1. c \in subscribed => c \in subscribed'
        BY <3>4, <1>3
      <4>2. ASSUME NEW i \in 1 .. Len(server), Of[server[i]] = c
            PROVE  \E j \in 1 .. Len(server') : server'[j] = server[i]
        <5>1. i # 1
          BY <3>4, <4>2 DEF k
        <5>2. i - 1 \in 1 .. Len(server') /\ server'[i - 1] = server[i]
          BY <5>1, <1>0, <1>1 DEF Rest
        <5> QED BY <5>2
      <4> QED BY <2>3, <4>1, <4>2, <1>8 DEF Asked
    <3> QED BY <3>1, <3>2, <3>3, <3>4, <1>2
  <2> QED BY <2>1, <2>2, <2>3 DEF Known
<1>10. ASSUME ~doubled', ~overtaken', NEW c \in Channel
       PROVE  ChannelInv(c)'
  <2>1. ChannelInv(c) /\ m_mapSub' = m_mapSub
    BY <1>3, <1>10 DEF WatchIInv, Watch!mapVars
  <2>2. LastRequest(c)'
    <3>1. ASSUME NEW i \in 1 .. Len(server'), NEW j \in 1 .. Len(server'), i < j,
                 Op[server'[i]] = "unsubscribe", Of[server'[i]] = c
          PROVE  Of[server'[j]] # c
      <4>1. /\ i + 1 \in 1 .. Len(server) /\ server'[i] = server[i + 1]
            /\ j + 1 \in 1 .. Len(server) /\ server'[j] = server[j + 1]
            /\ i + 1 < j + 1
        BY <3>1, <1>5, <1>1
      <4> QED BY <2>1, <3>1, <4>1 DEF ChannelInv, LastRequest
    <3> QED BY <3>1 DEF LastRequest
  <2>3. CASE ok /\ c = k /\ Op[r] = "subscribe"
    <3>1. ~NoRequest(c)
      BY <2>3, <1>1 DEF NoRequest, k
    <3>2. /\ m_mapSub[c] # "none"
          /\ \A i \in 1 .. Len(inbox) : ~Ends(inbox[i], c)
      BY <2>1, <3>1 DEF ChannelInv, Nowhere, LastMessage
    <3>3. ~Ends(m, c) /\ m.kind = "subscribe" /\ m.of = c
      BY <2>3, <1>4 DEF Ends
    <3>4. LastMessage(c)'
      <4>1. ASSUME NEW i \in 1 .. Len(inbox')
            PROVE  ~Ends(inbox'[i], c)
        <5>1. Longer(inbox', inbox, m)
          BY <1>0, <1>2, <1>3, PutMessage
        <5>2. CASE i = Len(inbox) + 1
          BY <5>1, <5>2, <3>3 DEF Longer
        <5>3. CASE i # Len(inbox) + 1
          <6>1. i \in 1 .. Len(inbox)
            BY <5>1, <5>3, <1>0 DEF Longer
          <6> QED BY <5>1, <6>1, <3>2 DEF Longer
        <5> QED BY <5>2, <5>3
      <4> QED BY <4>1 DEF LastMessage
    <3>5. Ready(c)'
      BY <3>3, <1>8 DEF Ready
    <3> QED BY <2>1, <2>2, <3>2, <3>4, <3>5 DEF ChannelInv
  <2>4. CASE ok /\ c = k /\ Op[r] = "unsubscribe"
    <3>1. ~NoRequest(c)
      BY <2>4, <1>1 DEF NoRequest, k
    <3>2. /\ m_mapSub[c] # "none"
          /\ \A i \in 1 .. Len(inbox) : ~Ends(inbox[i], c)
      BY <2>1, <3>1 DEF ChannelInv, Nowhere, LastMessage
    <3>3. c \notin subscribed'
      BY <2>4, <1>3
    <3>4. NoRequest(c)'
      <4>1. ASSUME NEW j \in 1 .. Len(server')
            PROVE  Of[server'[j]] # c
        <5>1. j + 1 \in 1 .. Len(server) /\ server'[j] = server[j + 1] /\ 1 < j + 1
          BY <1>5
        <5> QED BY <5>1, <2>1, <2>4, <1>1 DEF ChannelInv, LastRequest, k
      <4> QED BY <4>1 DEF NoRequest
    <3>5. LastMessage(c)'
      <4>1. ASSUME NEW i \in 1 .. Len(inbox'), Ends(inbox'[i], c),
                   NEW j \in 1 .. Len(inbox'), i < j
            PROVE  FALSE
        <5>1. Longer(inbox', inbox, m)
          BY <1>0, <1>2, <1>3, PutMessage
        <5>2. i \in 1 .. Len(inbox)
          BY <5>1, <4>1, <1>0 DEF Longer
        <5> QED BY <5>1, <5>2, <4>1, <3>2 DEF Longer
      <4> QED BY <4>1, <3>3, <3>4 DEF LastMessage
    <3>6. Ready(c)'
      BY <3>3 DEF Ready
    <3> QED BY <2>1, <2>2, <3>2, <3>5, <3>6 DEF ChannelInv
  <2>5. CASE ~ok \/ c # k
    <3>1. ~Watch!About(m, c) /\ ~Ends(m, c)
      BY <2>5, <1>4 DEF Watch!About, Ends
    <3>2. c \in subscribed' <=> c \in subscribed
      BY <2>5, <1>3
    <3>3. LastMessage(c)'
      BY <2>1, <3>1, <3>2, <1>0, <1>2, <1>3, <1>5, PutKeeps DEF ChannelInv
    <3>4. Ready(c)'
      BY <2>1, <3>2, <1>0, <1>2, <1>3, PutReady DEF ChannelInv
    <3>5. m_mapSub'[c] = "none" => Nowhere(c)'
      BY <2>1, <3>1, <3>2, <1>0, <1>2, <1>3, <1>5, PutNowhere DEF ChannelInv
    <3> QED BY <2>2, <3>3, <3>4, <3>5 DEF ChannelInv
  <2> QED BY <2>3, <2>4, <2>5, <1>2
<1> QED BY <1>6, <1>7, <1>9, <1>10 DEF WatchIInv

LEMMA ReceiveMessageStepNet ==
  ASSUME WatchConstants, WatchIInv, NEW k \in Channel, Watch!OnReceiveMessage(k)
  PROVE  WatchIInv'
<1> DEFINE m == [kind |-> "message", of |-> k]
<1>0. Watch!TypeOK /\ Len(inbox) \in Nat /\ m \in Watch!Message
  BY WatchElements DEF WatchIInv, Watch!Message
<1>1. /\ Watch!NetMessage(m) /\ conn = "up" /\ k \in subscribed
      /\ published' = published + 1 /\ published < MaxMessages
      /\ UNCHANGED <<conn, gen, doomed, server, subscribed, handler, Watch!mapVars,
                     m_vtWaitRequest, Watch!requestVars, crashed>>
  BY DEF Watch!OnReceiveMessage, Watch!IsTransmit
<1>2. m.kind = "message" /\ m.of = k
  OBVIOUS
<1> HIDE DEF m
<1>3. Watch!TypeOK'
  <2>1. published' \in 0 .. MaxMessages
    BY <1>0, <1>1 DEF Watch!TypeOK, WatchConstants
  <2> QED BY <2>1, <1>0, <1>1, PutMessage DEF Watch!mapVars, Watch!requestVars, Watch!TypeOK
<1>4. Watch!MessageFindsEntry' /\ SinceInv'
  BY <1>1 DEF WatchIInv, Watch!mapVars, Watch!MessageFindsEntry, SinceInv
<1>5. ASSUME NEW c \in Channel
      PROVE  Known(c)'
  <2>1. \A i \in 1 .. Len(inbox) : i \in 1 .. Len(inbox') /\ inbox'[i] = inbox[i]
    BY <1>0, <1>1, PutMessage
  <2>2. (Asked(c) => Asked(c)') /\ (Refused => Refused')
    BY <2>1, <1>1 DEF Asked, Refused
  <2> QED BY <2>2, <1>1 DEF WatchIInv, Watch!mapVars, Known
<1>6. ASSUME ~doubled', ~overtaken', NEW c \in Channel
      PROVE  ChannelInv(c)'
  <2>1. ChannelInv(c) /\ UNCHANGED <<server, subscribed, m_mapSub>>
    BY <1>1, <1>6 DEF WatchIInv, Watch!mapVars
  <2>2. ~Ends(m, c) /\ (Watch!About(m, c) => c \in subscribed)
    BY <1>1, <1>2 DEF Ends, Watch!About
  <2>3. Watch!About(m, c) => \A i \in 1 .. Len(inbox) : ~Ends(inbox[i], c)
    BY <2>1, <2>2 DEF ChannelInv, LastMessage
  <2>4. LastMessage(c)'
    BY <2>1, <2>2, <2>3, <1>0, <1>1, PutKeeps DEF ChannelInv
  <2>5. Ready(c)'
    BY <2>1, <1>0, <1>1, PutReady DEF ChannelInv
  <2>6. m_mapSub'[c] = "none" => Nowhere(c)'
    <3> SUFFICES ASSUME m_mapSub[c] = "none" PROVE Nowhere(c)'
      BY <2>1
    <3>1. Nowhere(c) /\ ~Watch!About(m, c)
      BY <2>1, <2>2 DEF ChannelInv, Nowhere
    <3> QED BY <2>1, <3>1, <1>0, <1>1, PutNowhere
  <2> QED BY <2>1, <2>4, <2>5, <2>6 DEF ChannelInv, LastRequest
<1> QED BY <1>3, <1>4, <1>5, <1>6 DEF WatchIInv

-----------------------------------------------------------------------------
LEMMA WatchNextIInv ==
  ASSUME WatchConstants, WatchIInv, [Watch!Next]_Watch!vars
  PROVE  WatchIInv'
<1>1. CASE UNCHANGED Watch!vars
  <2>1. Watch!TypeOK'
    BY <1>1
       DEF WatchIInv, Watch!vars, Watch!netVars, Watch!mapVars, Watch!requestVars, Watch!TypeOK
  <2> QED BY <2>1, <1>1, QuietInv DEF WatchIInv, Watch!vars, Watch!netVars
<1>2. ASSUME NEW r \in Req, Watch!DispathBussinessMsg(r)
      PROVE  WatchIInv'
  BY <1>2, WatchDispathStep
<1>3. CASE Watch!CtxMessage
  <2>1. PICK k \in DOMAIN inbox :
          \/ Watch!ReceiveSubscribe(k) \/ Watch!ReceiveUnsubscribe(k) \/ Watch!ReceiveMessage(k)
          \/ Watch!ReceiveError(k) \/ Watch!NetVerifySuccess(k)
    BY <1>3 DEF Watch!CtxMessage
  <2>2. k \in 1 .. Len(inbox)
    BY DEF WatchIInv, Watch!TypeOK
  <2> QED BY <2>1, <2>2, ReceiveSubscribeStep, ReceiveUnsubscribeStep, ReceiveMessageStep,
          ReceiveErrorStep, WatchVerifySuccessStep
<1>4. CASE Watch!HandlerStep
  BY <1>4, WatchResumeStep, LoopEndStep
     DEF Watch!HandlerStep, Watch!VerifiedResume, Watch!OnTimerResume
<1>5. CASE Watch!OnTimer \/ Watch!OnNetVerifySuccess \/ Watch!Transmit \/ Watch!OnDisconnect
  BY <1>5, WatchTimerStep, ConnectedStep, WatchTransmitStep, WatchOnDisconnectStep
<1>6. ASSUME NEW ok \in BOOLEAN, Watch!OnReceive(ok)
      PROVE  WatchIInv'
  BY <1>6, WatchReceiveStep
<1>7. ASSUME NEW c \in Channel, Watch!OnReceiveMessage(c)
      PROVE  WatchIInv'
  BY <1>7, ReceiveMessageStepNet
<1> QED BY <1>1, <1>2, <1>3, <1>4, <1>5, <1>6, <1>7 DEF Watch!Next

(***************************************************************************)
(* The theorems.                                                           *)
(***************************************************************************)
(* The inductive invariant, of every behaviour: nothing that is taken in   *)
(* another order than it was pushed breaks it, but the reply to an         *)
(* unsubscription.                                                         *)
THEOREM WatchInvariance ==
  ASSUME WatchConstants
  PROVE  Watch!Spec => []WatchIInv
<1>1. Watch!Init => WatchIInv
  BY WatchInitIInv
<1>2. WatchIInv /\ [Watch!Next]_Watch!vars => WatchIInv'
  BY WatchNextIInv
<1> QED BY <1>1, <1>2, PTL DEF Watch!Spec

(* The types of CtxRedisWatch. *)
THEOREM WatchTypeCorrect ==
  ASSUME WatchConstants
  PROVE  Watch!Spec => []Watch!TypeOK
<1>1. WatchIInv => Watch!TypeOK
  BY DEF WatchIInv
<1> QED BY <1>1, WatchInvariance, PTL

(* A message finds the entry of its channel (net/ctx_redis.cpp:645), as    *)
(* long as nobody unsubscribes what is being unsubscribed and no reply to  *)
(* an unsubscription is taken before something of its channel that was     *)
(* pushed earlier: whatever connections are lost with subscriptions,       *)
(* replies and messages on them, and in whatever order all other messages  *)
(* are taken.                                                              *)
THEOREM MessagesFindEntries ==
  ASSUME WatchConstants
  PROVE  Watch!Spec => []Watch!MessageFindsEntry
<1>1. WatchIInv => Watch!MessageFindsEntry
  BY DEF WatchIInv
<1> QED BY <1>1, WatchInvariance, PTL

(* When every answer has come, the entries of this connection are ready    *)
(* and are those of which the server sends the messages                    *)
(* (net/ctx_redis.cpp:662 and 680), under the same two conditions: two     *)
(* subscriptions, or a subscription and a message, may pass each other.    *)
THEOREM EntriesInStep ==
  ASSUME WatchConstants
  PROVE  Watch!Spec => []Watch!SubscribedInStep
<1>1. WatchIInv => Watch!SubscribedInStep
  <2> SUFFICES ASSUME WatchIInv, Watch!IsTransmit, ~doomed, server = <<>>, inbox = <<>>,
                      ~doubled, ~overtaken, NEW c \in Channel
               PROVE  /\ c \in subscribed => m_mapSub[c] = "init"
                      /\ m_mapSub[c] # "none" /\ since[c] = gen => c \in subscribed
    BY DEF Watch!SubscribedInStep
  <2>1. (\A i \in 1 .. Len(server) : FALSE) /\ (\A i \in 1 .. Len(inbox) : FALSE)
    OBVIOUS
  <2>2. c \in subscribed => m_mapSub[c] = "init"
    BY <2>1 DEF WatchIInv, ChannelInv, Ready
  <2>3. m_mapSub[c] # "none" /\ since[c] = gen => c \in subscribed
    BY <2>1 DEF WatchIInv, Watch!IsTransmit, Known, Asked, Refused
  <2> QED BY <2>2, <2>3
<1> QED BY <1>1, WatchInvariance, PTL

=============================================================================
