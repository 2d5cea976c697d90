------------------------ MODULE CtxServerNamesProofs ------------------------
(***************************************************************************)
(* Proofs about CtxServerNames for every set of servers, names and         *)
(* lookups, and any number of connections and changes.                     *)
(*                                                                         *)
(* Names: as long as no news of a name of a server was lost or overtaken   *)
(* by the opposite, what the center knows, with what is on its way, is     *)
(* what the link has; whether the link has it, with the coroutines on      *)
(* their way, is what the server has.                                      *)
(*                                                                         *)
(* Lookups: as long as none was overtaken, nor a reply or a disconnect,    *)
(* the lookups of one connection that still get a reply are at the front   *)
(* of the list, in the order of the replies.                               *)
(***************************************************************************)
EXTENDS CtxServerNames, TLAPS

NamesConstants ==
  /\ Center \notin Server
  /\ None \notin Server \cup {Center}
  /\ Asker \in [Lookup -> Server]
  /\ Wanted \in [Lookup -> Name]
  /\ MaxConn \in Nat \ {0}
  /\ MaxChange \in Nat

(***************************************************************************)
(* The invariant: sessions.                                                *)
(***************************************************************************)
(* A session registers once, and is new until the gate has handled that.   *)
SessionOf(s, g) ==
  /\ session[s][g] = "none" => Len(packets[s][g]) = 0
  /\ \A i \in 1 .. Len(packets[s][g]) :
       packets[s][g][i].kind = "register" => session[s][g] = "new"
  /\ \A i, j \in 1 .. Len(packets[s][g]) :
       packets[s][g][i].kind = "register" /\ packets[s][g][j].kind = "register" => i = j
  /\ g > gen[s] => session[s][g] = "none"

SessionInv ==
  \A s \in Server :
    /\ \A g \in Connection : SessionOf(s, g)
    /\ conn[s] = "connecting" => session[s][gen[s]] = "none"
    /\ conn[s] = "up" => session[s][gen[s]] \in {"new", "bound", "refused"}

(***************************************************************************)
(* Names.                                                                  *)
(***************************************************************************)
HasCreate(pk, n) == \E i \in 1 .. Len(pk) : IsCreate(pk[i], n)
HasDelete(pk, n) == \E i \in 1 .. Len(pk) : IsDelete(pk[i], n)

(* A creation without a deletion after it, and the other way round. *)
OpenCreate(pk, n) ==
  \E j \in 1 .. Len(pk) :
    IsCreate(pk[j], n) /\ ~\E i \in 1 .. Len(pk) : j < i /\ IsDelete(pk[i], n)
OpenDelete(pk, n) ==
  \E j \in 1 .. Len(pk) :
    IsDelete(pk[j], n) /\ ~\E i \in 1 .. Len(pk) : j < i /\ IsCreate(pk[i], n)

Telling(s, op, n) == [op |-> op, name |-> n] \in ops[s]

(* Nobody but s has to do with the name. *)
OnlyOwner(s, n) ==
  /\ known[n] \in {s, None}
  /\ \A o \in Server \ {s} :
       /\ n \notin named[o] /\ n \notin m_map[o]
       /\ ~Telling(o, "create", n) /\ ~Telling(o, "delete", n)
       /\ \A g \in Connection : ~HasCreate(packets[o][g], n) /\ ~HasDelete(packets[o][g], n)

(* The server and its link. *)
LinkHas(s, n) ==
  /\ ~(Telling(s, "create", n) /\ Telling(s, "delete", n))
  /\ Telling(s, "create", n) => n \in named[s] /\ n \notin m_map[s]
  /\ Telling(s, "delete", n) => n \notin named[s] /\ n \in m_map[s]
  /\ ~Telling(s, "create", n) /\ ~Telling(s, "delete", n) => (n \in named[s] <=> n \in m_map[s])

(* The name is gone, and the center knows or will hear of it; a creation   *)
(* that is still on its way comes before that, or is overtaken.            *)
DeleteComes(s, n) ==
  /\ \A g \in Connection : OpenCreate(packets[s][g], n) =>
       Superseded(s, g) \/ \E h \in Connection : g < h /\ HasDelete(packets[s][h], n)
  /\ known[n] = s => \E h \in Connection : HasDelete(packets[s][h], n)

(* The center knows the name, or will hear of it on this connection. *)
CreateComes(s, n) ==
  /\ ~OpenDelete(packets[s][gen[s]], n)
  /\ HasCreate(packets[s][gen[s]], n) \/ known[n] = s

(* Registered on this connection, and all names were sent again. *)
Announced(s) ==
  /\ conn[s] = "up" /\ session[s][gen[s]] = "bound"
  /\ \A i \in 1 .. Len(inbox[s]) : ~(inbox[s][i].kind = "registered" /\ inbox[s][i].ok)

NameInv(s, n) ==
  /\ OnlyOwner(s, n) /\ LinkHas(s, n)
  /\ n \notin m_map[s] => DeleteComes(s, n)
  /\ n \in m_map[s] /\ Announced(s) => CreateComes(s, n)

NamesInv == \A s \in Server, n \in Name : <<s, n>> \in disturbed \/ NameInv(s, n)

(***************************************************************************)
(* Lookups: of the queue of a link.                                        *)
(***************************************************************************)
IsReply(m, g) == m.kind = "reply" /\ m.on = g
IsEnd(m)      == m.kind = "disconnect"

Replied(box, l)     == \E m \in 1 .. Len(box) : box[m].kind = "reply" /\ box[m].look = l
HasReply(box, g, l) == \E m \in 1 .. Len(box) : IsReply(box[m], g) /\ box[m].look = l
HasEnd(box)         == \E d \in 1 .. Len(box) : IsEnd(box[d])

(* Nobody is answered twice. *)
RepliesDiffer(box) ==
  \A m, k \in 1 .. Len(box) :
    m < k /\ box[m].kind = "reply" /\ box[k].kind = "reply" => box[m].look # box[k].look

(* After the end of a connection come only replies of later ones. *)
EndsFirst(box) ==
  \A m, k \in 1 .. Len(box) :
    m < k /\ IsEnd(box[m]) /\ box[k].kind = "reply" => box[m].on < box[k].on

(* Between two connections comes the end of the first. *)
EndBetween(box, g) ==
  \A k \in 1 .. Len(box) : box[k].kind = "reply" /\ g < box[k].on =>
    \E d \in 1 .. Len(box) : d < k /\ IsEnd(box[d])

(* Before the reply to l comes the one to f. *)
ReplyBefore(box, g, f, l) ==
  \A k \in 1 .. Len(box) : IsReply(box[k], g) /\ box[k].look = l =>
    \E m \in 1 .. Len(box) : m < k /\ IsReply(box[m], g) /\ box[m].look = f

(* The same of what the gate has still to answer. *)
IsGet(p, l)   == p.kind = "get" /\ p.look = l
HasGet(pk, l) == \E m \in 1 .. Len(pk) : IsGet(pk[m], l)

GetsDiffer(pk) ==
  \A m, k \in 1 .. Len(pk) :
    m < k /\ pk[m].kind = "get" /\ pk[k].kind = "get" => pk[m].look # pk[k].look

GetBefore(pk, f, l) ==
  \A k \in 1 .. Len(pk) : IsGet(pk[k], l) =>
    \E m \in 1 .. Len(pk) : m < k /\ IsGet(pk[m], f)

(***************************************************************************)
(* The lookups of a server.                                                *)
(***************************************************************************)
Live(s, g) == conn[s] = "up" /\ gen[s] = g

(* It still gets a reply, if the connection lasts. *)
Pending(s, g, l) ==
  HasReply(inbox[s], g, l) \/ (Live(s, g) /\ HasGet(packets[s][g], l))

(* The list: lookups that were sent, once each, in the order of the        *)
(* connections.  Of a connection that is being made there is nothing.      *)
ListInv(s) ==
  /\ \A i \in 1 .. Len(m_vtRequest[s]) :
       /\ pc[m_vtRequest[s][i].look] # "idle"
       /\ m_vtRequest[s][i].on <= gen[s]
       /\ conn[s] = "connecting" => m_vtRequest[s][i].on < gen[s]
  /\ \A i, j \in 1 .. Len(m_vtRequest[s]) :
       i < j => /\ m_vtRequest[s][i].look # m_vtRequest[s][j].look
                /\ m_vtRequest[s][i].on <= m_vtRequest[s][j].on

(* Only who has asked is answered. *)
BoxInv(s) ==
  /\ RepliesDiffer(inbox[s]) /\ EndsFirst(inbox[s])
  /\ \A l \in Lookup : Replied(inbox[s], l) => pc[l] # "idle"
  /\ \A m \in 1 .. Len(inbox[s]) :
       /\ inbox[s][m].kind = "reply" => inbox[s][m].on <= gen[s]
       /\ IsEnd(inbox[s][m]) => /\ inbox[s][m].on <= gen[s]
                                /\ inbox[s][m].on < gen[s] \/ conn[s] = "closed"

GetInv(s) ==
  conn[s] = "up" =>
    /\ GetsDiffer(packets[s][gen[s]])
    /\ \A l \in Lookup : HasGet(packets[s][gen[s]], l) =>
         pc[l] # "idle" /\ ~Replied(inbox[s], l)

(* A lookup of a connection that is gone is going to be failed, and that   *)
(* before the replies of later connections.                                *)
EndInv(s) ==
  \A i \in 1 .. Len(m_vtRequest[s]) :
    /\ ~Live(s, m_vtRequest[s][i].on) => HasEnd(inbox[s])
    /\ EndBetween(inbox[s], m_vtRequest[s][i].on)

(* The replies come in the order of the list. *)
InOrder(s) ==
  \A i, j \in 1 .. Len(m_vtRequest[s]) :
    i < j /\ m_vtRequest[s][i].on = m_vtRequest[s][j].on =>
      LET g == m_vtRequest[s][j].on
          f == m_vtRequest[s][i].look
          l == m_vtRequest[s][j].look IN
      /\ ReplyBefore(inbox[s], g, f, l)
      /\ Live(s, g) => HasReply(inbox[s], g, f) \/ GetBefore(packets[s][g], f, l)

(* Unless the server was refused, everything sent on the connection that   *)
(* is up gets its reply.                                                   *)
AllPending(s) ==
  \A i \in 1 .. Len(m_vtRequest[s]) :
    Reaches(s) /\ m_vtRequest[s][i].on = gen[s] => Pending(s, gen[s], m_vtRequest[s][i].look)

(* Whatever is going to be answered is in the list. *)
Listed(s, g, l) ==
  \E i \in 1 .. Len(m_vtRequest[s]) : m_vtRequest[s][i].on = g /\ m_vtRequest[s][i].look = l

AllListed(s) ==
  \A g \in Connection, l \in Lookup : Pending(s, g, l) => Listed(s, g, l)

LookupInv(s) ==
  /\ ListInv(s) /\ BoxInv(s) /\ GetInv(s) /\ EndInv(s)
  /\ InOrder(s) /\ AllPending(s) /\ AllListed(s)

LookupsInv ==
  ~overtaken => /\ \A s \in Server : LookupInv(s)
              /\ \A l \in Lookup : ret[l] # "foreign"

IInv == TypeOK /\ SessionInv /\ NamesInv /\ LookupsInv

(***************************************************************************)
(* Sequences.  Longer(t, q, e) is what Append makes of q, Rest(t, q) what  *)
(* Tail does, Cut(t, q, p) what Without does, as facts about the elements. *)
(***************************************************************************)
Longer(t, q, e) ==
  /\ Len(t) = Len(q) + 1
  /\ \A i \in 1 .. Len(q) : t[i] = q[i]
  /\ t[Len(q) + 1] = e

Rest(t, q) ==
  /\ Len(q) = Len(t) + 1
  /\ \A i \in 1 .. Len(t) : t[i] = q[i + 1]

Cut(t, q, p) ==
  /\ Len(q) = Len(t) + 1 /\ p \in 1 .. Len(q)
  /\ \A i \in 1 .. Len(t) : t[i] = IF i < p THEN q[i] ELSE q[i + 1]

LEMMA SeqElements ==
  ASSUME NEW S, NEW q \in Seq(S)
  PROVE  Len(q) \in Nat /\ \A i \in 1 .. Len(q) : q[i] \in S
OBVIOUS

LEMMA AppendIsLonger ==
  ASSUME NEW S, NEW q \in Seq(S), NEW e \in S
  PROVE  /\ Append(q, e) \in Seq(S)
         /\ Longer(Append(q, e), q, e)
BY DEF Longer

LEMMA TailIsRest ==
  ASSUME NEW S, NEW q \in Seq(S), q # <<>>
  PROVE  /\ Tail(q) \in Seq(S)
         /\ Rest(Tail(q), q)
         /\ Head(q) = q[1]
         /\ Head(q) \in S
         /\ Len(q) > 0
BY DEF Rest

LEMMA WithoutIsCut ==
  ASSUME NEW S, NEW q \in Seq(S), NEW p \in 1 .. Len(q)
  PROVE  /\ Without(q, p) \in Seq(S)
         /\ Cut(Without(q, p), q, p)
         /\ q[p] \in S
<1> DEFINE f == [i \in 1 .. Len(q) - 1 |-> IF i < p THEN q[i] ELSE q[i + 1]]
<1>1. Len(q) - 1 \in Nat /\ \A i \in 1 .. Len(q) : q[i] \in S
  OBVIOUS
<1>2. \A i \in 1 .. Len(q) - 1 : i \in 1 .. Len(q) /\ i + 1 \in 1 .. Len(q)
  BY <1>1
<1>3. f \in [1 .. Len(q) - 1 -> S]
  BY <1>1, <1>2
<1>4. f \in Seq(S) /\ Len(f) = Len(q) - 1
  BY <1>1, <1>3
<1> QED BY <1>1, <1>4 DEF Without, Cut

LEMMA CutCases ==
  ASSUME NEW q, NEW t, NEW p, Len(q) \in Nat, Len(t) \in Nat, Cut(t, q, p),
         NEW i \in 1 .. Len(t)
  PROVE  \/ i < p /\ i \in 1 .. Len(q) /\ t[i] = q[i]
         \/ ~(i < p) /\ i + 1 \in 1 .. Len(q) /\ i + 1 # p /\ t[i] = q[i + 1]
BY DEF Cut

(* Whatever is not cut out is still there. *)
LEMMA CutKeeps ==
  ASSUME NEW q, NEW t, NEW p, Len(q) \in Nat, Len(t) \in Nat, Cut(t, q, p),
         NEW j \in 1 .. Len(q), j # p
  PROVE  \/ j < p /\ j \in 1 .. Len(t) /\ t[j] = q[j]
         \/ p < j /\ j - 1 \in 1 .. Len(t) /\ t[j - 1] = q[j]
BY DEF Cut

(* Where an element was, and where it is now. *)
Up(i, k)   == IF i < k THEN i ELSE i + 1
Down(i, k) == IF i < k THEN i ELSE i - 1

LEMMA CutPlaces ==
  ASSUME NEW q, NEW t, NEW k, Len(q) \in Nat, Len(t) \in Nat, Cut(t, q, k)
  PROVE  /\ \A i \in 1 .. Len(t) :
              /\ Up(i, k) \in 1 .. Len(q) /\ Up(i, k) # k /\ t[i] = q[Up(i, k)]
              /\ Down(Up(i, k), k) = i
              /\ \A j \in 1 .. Len(t) : i < j <=> Up(i, k) < Up(j, k)
         /\ \A i \in 1 .. Len(q) : i # k =>
              /\ Down(i, k) \in 1 .. Len(t) /\ t[Down(i, k)] = q[i]
              /\ Up(Down(i, k), k) = i
              /\ \A j \in 1 .. Len(q) : j # k => (i < j <=> Down(i, k) < Down(j, k))
<1>0. k \in 1 .. Len(q)
  BY DEF Cut
<1>1. ASSUME NEW i \in 1 .. Len(t)
      PROVE  /\ Up(i, k) \in 1 .. Len(q) /\ Up(i, k) # k /\ t[i] = q[Up(i, k)]
             /\ Down(Up(i, k), k) = i
             /\ \A j \in 1 .. Len(t) : i < j <=> Up(i, k) < Up(j, k)
  <2>1. Up(i, k) \in 1 .. Len(q) /\ Up(i, k) # k /\ t[i] = q[Up(i, k)]
    BY <1>0, CutCases DEF Up
  <2> QED BY <1>0, <2>1 DEF Up, Down
<1>2. ASSUME NEW i \in 1 .. Len(q), i # k
      PROVE  /\ Down(i, k) \in 1 .. Len(t) /\ t[Down(i, k)] = q[i]
             /\ Up(Down(i, k), k) = i
             /\ \A j \in 1 .. Len(q) : j # k => (i < j <=> Down(i, k) < Down(j, k))
  <2>1. Down(i, k) \in 1 .. Len(t) /\ t[Down(i, k)] = q[i]
    BY <1>0, <1>2, CutKeeps DEF Down
  <2> QED BY <1>0, <1>2, <2>1 DEF Up, Down
<1> QED BY <1>1, <1>2

(* One place of a function of two arguments. *)
LEMMA Put ==
  ASSUME NEW S, NEW f \in [Server -> [Connection -> S]],
         NEW s \in Server, NEW g \in Connection, NEW v \in S, NEW h,
         h = [f EXCEPT ![s][g] = v]
  PROVE  /\ h \in [Server -> [Connection -> S]]
         /\ h[s][g] = v
         /\ \A k \in Connection : k # g => h[s][k] = f[s][k]
         /\ \A o \in Server : o # s => h[o] = f[o]
OBVIOUS

(***************************************************************************)
(* The news of a name among packets.                                       *)
(***************************************************************************)
LEMMA LongerNews ==
  ASSUME NEW t, NEW q, NEW e, NEW n, Len(q) \in Nat, Longer(t, q, e)
  PROVE  /\ HasCreate(t, n) <=> HasCreate(q, n) \/ IsCreate(e, n)
         /\ HasDelete(t, n) <=> HasDelete(q, n) \/ IsDelete(e, n)
         /\ ~IsCreate(e, n) => (OpenCreate(t, n) => OpenCreate(q, n))
         /\ ~IsDelete(e, n) => (OpenDelete(t, n) => OpenDelete(q, n))
         /\ IsDelete(e, n) => ~OpenCreate(t, n)
         /\ IsCreate(e, n) => ~OpenDelete(t, n)
<1> DEFINE z == Len(q) + 1
<1>1. /\ z \in 1 .. Len(t) /\ t[z] = e
      /\ \A i \in 1 .. Len(q) : i \in 1 .. Len(t) /\ t[i] = q[i] /\ i < z
      /\ \A i \in 1 .. Len(t) : i = z \/ i \in 1 .. Len(q)
  BY DEF Longer
<1>2. ~IsCreate(e, n) \/ ~IsDelete(e, n)
  BY DEF IsCreate, IsDelete
<1> HIDE DEF z
<1>3. /\ HasCreate(t, n) <=> HasCreate(q, n) \/ IsCreate(e, n)
      /\ HasDelete(t, n) <=> HasDelete(q, n) \/ IsDelete(e, n)
  BY <1>1 DEF HasCreate, HasDelete
<1>4. /\ ~IsCreate(e, n) => (OpenCreate(t, n) => OpenCreate(q, n))
      /\ IsDelete(e, n) => ~OpenCreate(t, n)
  BY <1>1, <1>2 DEF OpenCreate
<1>5. /\ ~IsDelete(e, n) => (OpenDelete(t, n) => OpenDelete(q, n))
      /\ IsCreate(e, n) => ~OpenDelete(t, n)
  BY <1>1, <1>2 DEF OpenDelete
<1> QED BY <1>3, <1>4, <1>5

(* A packet is taken; it may pass the opposite news. *)
LEMMA CutNews ==
  ASSUME NEW t, NEW q, NEW k, NEW n, Len(q) \in Nat, Len(t) \in Nat, Cut(t, q, k)
  PROVE  /\ HasCreate(q, n) <=> HasCreate(t, n) \/ IsCreate(q[k], n)
         /\ HasDelete(q, n) <=> HasDelete(t, n) \/ IsDelete(q[k], n)
         /\ \/ OpenCreate(t, n) => OpenCreate(q, n)
            \/ IsDelete(q[k], n) /\ \E i \in 1 .. k - 1 : IsCreate(q[i], n)
         /\ \/ OpenDelete(t, n) => OpenDelete(q, n)
            \/ IsCreate(q[k], n) /\ \E i \in 1 .. k - 1 : IsDelete(q[i], n)
         /\ IsCreate(q[k], n) /\ ~OpenCreate(q, n) => HasDelete(t, n)
         /\ IsDelete(q[k], n) /\ ~OpenDelete(q, n) => HasCreate(t, n)
<1>1. /\ k \in 1 .. Len(q)
      /\ \A i \in 1 .. Len(t) : Up(i, k) \in 1 .. Len(q) /\ Up(i, k) # k /\ t[i] = q[Up(i, k)]
      /\ \A i \in 1 .. Len(q) : i = k \/ \E j \in 1 .. Len(t) : Up(j, k) = i
      /\ \A i, j \in 1 .. Len(t) : Up(i, k) < Up(j, k) => i < j
  BY CutPlaces DEF Cut
<1>2. ~IsCreate(q[k], n) \/ ~IsDelete(q[k], n)
  BY DEF IsCreate, IsDelete
<1>3. /\ HasCreate(q, n) <=> HasCreate(t, n) \/ IsCreate(q[k], n)
      /\ HasDelete(q, n) <=> HasDelete(t, n) \/ IsDelete(q[k], n)
  BY <1>1 DEF HasCreate, HasDelete
<1>4. ASSUME OpenCreate(t, n),
             ~(IsDelete(q[k], n) /\ \E i \in 1 .. k - 1 : IsCreate(q[i], n))
      PROVE  OpenCreate(q, n)
  <2>1. PICK j \in 1 .. Len(t) :
          IsCreate(t[j], n) /\ ~\E i \in 1 .. Len(t) : j < i /\ IsDelete(t[i], n)
    BY <1>4 DEF OpenCreate
  <2>2. Up(j, k) \in 1 .. Len(q) /\ IsCreate(q[Up(j, k)], n)
    BY <1>1, <2>1
  <2>3. ASSUME NEW i \in 1 .. Len(q), Up(j, k) < i, IsDelete(q[i], n)
        PROVE  FALSE
    <3>1. CASE i = k
      <4>1. Up(j, k) \in 1 .. k - 1
        BY <2>2, <2>3, <3>1
      <4> QED BY <1>4, <2>2, <2>3, <3>1, <4>1
    <3>2. CASE i # k
      <4>1. PICK m \in 1 .. Len(t) : Up(m, k) = i
        BY <1>1, <3>2
      <4> QED BY <1>1, <2>1, <2>3, <4>1
    <3> QED BY <3>1, <3>2
  <2> QED BY <2>2, <2>3 DEF OpenCreate
<1>5. ASSUME OpenDelete(t, n),
             ~(IsCreate(q[k], n) /\ \E i \in 1 .. k - 1 : IsDelete(q[i], n))
      PROVE  OpenDelete(q, n)
  <2>1. PICK j \in 1 .. Len(t) :
          IsDelete(t[j], n) /\ ~\E i \in 1 .. Len(t) : j < i /\ IsCreate(t[i], n)
    BY <1>5 DEF OpenDelete
  <2>2. Up(j, k) \in 1 .. Len(q) /\ IsDelete(q[Up(j, k)], n)
    BY <1>1, <2>1
  <2>3. ASSUME NEW i \in 1 .. Len(q), Up(j, k) < i, IsCreate(q[i], n)
        PROVE  FALSE
    <3>1. CASE i = k
      <4>1. Up(j, k) \in 1 .. k - 1
        BY <2>2, <2>3, <3>1
      <4> QED BY <1>5, <2>2, <2>3, <3>1, <4>1
    <3>2. CASE i # k
      <4>1. PICK m \in 1 .. Len(t) : Up(m, k) = i
        BY <1>1, <3>2
      <4> QED BY <1>1, <2>1, <2>3, <4>1
    <3> QED BY <3>1, <3>2
  <2> QED BY <2>2, <2>3 DEF OpenDelete
<1>6. IsCreate(q[k], n) /\ ~OpenCreate(q, n) => HasDelete(t, n)
  BY <1>1, <1>2 DEF OpenCreate, HasDelete
<1>7. IsDelete(q[k], n) /\ ~OpenDelete(q, n) => HasCreate(t, n)
  BY <1>1, <1>2 DEF OpenDelete, HasCreate
<1> QED BY <1>3, <1>4, <1>5, <1>6, <1>7

LEMMA EmptyNews ==
  ASSUME NEW q, NEW n, Len(q) = 0
  PROVE  ~HasCreate(q, n) /\ ~HasDelete(q, n) /\ ~OpenCreate(q, n) /\ ~OpenDelete(q, n)
<1>1. \A i \in 1 .. Len(q) : FALSE
  OBVIOUS
<1> QED BY <1>1 DEF HasCreate, HasDelete, OpenCreate, OpenDelete

(* An open creation is one, and an open deletion too. *)
LEMMA OpenHas ==
  ASSUME NEW q, NEW n
  PROVE  /\ OpenCreate(q, n) => HasCreate(q, n)
         /\ OpenDelete(q, n) => HasDelete(q, n)
BY DEF HasCreate, HasDelete, OpenCreate, OpenDelete

-----------------------------------------------------------------------------
(***************************************************************************)
(* What the types say.                                                     *)
(***************************************************************************)
LEMMA Elements ==
  ASSUME NamesConstants, TypeOK, NEW s \in Server
  PROVE  /\ inbox[s] \in Seq(Message) /\ Len(inbox[s]) \in Nat
         /\ \A i \in 1 .. Len(inbox[s]) : inbox[s][i] \in Message
         /\ m_vtRequest[s] \in Seq([look : Lookup, on : Connection])
         /\ Len(m_vtRequest[s]) \in Nat
         /\ \A i \in 1 .. Len(m_vtRequest[s]) :
              m_vtRequest[s][i].look \in Lookup /\ m_vtRequest[s][i].on \in Connection
         /\ gen[s] \in Connection
         /\ \A g \in Connection :
              /\ g \in Nat
              /\ packets[s][g] \in Seq(Packet) /\ Len(packets[s][g]) \in Nat
              /\ \A i \in 1 .. Len(packets[s][g]) : packets[s][g][i] \in Packet
<1>1. /\ inbox[s] \in Seq(Message) /\ gen[s] \in Connection
      /\ m_vtRequest[s] \in Seq([look : Lookup, on : Connection])
      /\ \A g \in Connection : packets[s][g] \in Seq(Packet)
  BY DEF TypeOK
<1>2. Len(inbox[s]) \in Nat /\ \A i \in 1 .. Len(inbox[s]) : inbox[s][i] \in Message
  BY <1>1, SeqElements
<1>3. /\ Len(m_vtRequest[s]) \in Nat
      /\ \A i \in 1 .. Len(m_vtRequest[s]) :
           m_vtRequest[s][i] \in [look : Lookup, on : Connection]
  BY <1>1, SeqElements
<1>4. ASSUME NEW g \in Connection
      PROVE  /\ g \in Nat /\ Len(packets[s][g]) \in Nat
             /\ \A i \in 1 .. Len(packets[s][g]) : packets[s][g][i] \in Packet
  BY <1>1, SeqElements DEF Connection
<1> QED BY <1>1, <1>2, <1>3, <1>4

LEMMA PacketKinds ==
  /\ [kind |-> "register"] \in Packet
  /\ \A l \in Lookup : [kind |-> "get", look |-> l] \in Packet
  /\ \A n \in Name : [kind |-> "delete", name |-> n] \in Packet
  /\ \A names \in SUBSET Name : [kind |-> "create", names |-> names] \in Packet
  /\ \A p \in Packet : /\ p.kind \in {"register", "create", "delete", "get"}
                       /\ p.kind = "get" => p.look \in Lookup
                       /\ p.kind = "delete" => p.name \in Name
                       /\ p.kind = "create" => p.names \in SUBSET Name
BY DEF Packet

LEMMA MessageKinds ==
  /\ \A ok \in BOOLEAN : [kind |-> "registered", ok |-> ok] \in Message
  /\ [kind |-> "error"] \in Message
  /\ \A l \in Lookup, g \in Connection : [kind |-> "reply", look |-> l, on |-> g] \in Message
  /\ \A g \in Connection : [kind |-> "disconnect", on |-> g] \in Message
  /\ \A m \in Message :
       /\ m.kind \in {"registered", "error", "reply", "disconnect"}
       /\ m.kind = "registered" => m.ok \in BOOLEAN
       /\ m.kind = "reply" => m.look \in Lookup /\ m.on \in Connection
       /\ m.kind = "disconnect" => m.on \in Connection
BY DEF Message

-----------------------------------------------------------------------------
(***************************************************************************)
(* What the parts do that several actions have in common.                  *)
(***************************************************************************)
LEMMA SendDoes ==
  ASSUME NamesConstants, TypeOK, NEW s \in Server, NEW p \in Packet, Send(s, p)
  PROVE  /\ packets' \in [Server -> [Connection -> Seq(Packet)]]
         /\ \A o \in Server : o # s => packets'[o] = packets[o]
         /\ \A g \in Connection : g # gen[s] => packets'[s][g] = packets[s][g]
         /\ IF Reaches(s) THEN Longer(packets'[s][gen[s]], packets[s][gen[s]], p)
                          ELSE packets' = packets
<1>1. /\ packets \in [Server -> [Connection -> Seq(Packet)]] /\ gen[s] \in Connection
      /\ packets[s][gen[s]] \in Seq(Packet)
  BY DEF TypeOK
<1>2. CASE Reaches(s)
  <2> DEFINE v == Append(packets[s][gen[s]], p)
  <2>1. v \in Seq(Packet) /\ Longer(v, packets[s][gen[s]], p)
    BY <1>1, AppendIsLonger
  <2>2. packets' = [packets EXCEPT ![s][gen[s]] = v]
    BY <1>2 DEF Send
  <2> HIDE DEF v
  <2> QED BY <1>1, <1>2, <2>1, <2>2, Put
<1>3. CASE ~Reaches(s)
  BY <1>1, <1>3 DEF Send
<1> QED BY <1>2, <1>3

LEMMA NextPacketDoes ==
  ASSUME NamesConstants, TypeOK, NEW s \in Server, NEW g \in Connection, NEW kind, NEW k,
         NextPacket(s, g, kind, k)
  PROVE  /\ packets' \in [Server -> [Connection -> Seq(Packet)]]
         /\ \A o \in Server : o # s => packets'[o] = packets[o]
         /\ \A h \in Connection : h # g => packets'[s][h] = packets[s][h]
         /\ Cut(packets'[s][g], packets[s][g], k)
         /\ Len(packets'[s][g]) \in Nat /\ Len(packets[s][g]) \in Nat
         /\ k \in 1 .. Len(packets[s][g])
         /\ packets[s][g][k] \in Packet /\ packets[s][g][k].kind = kind
         /\ session[s][g] \in {"new", "bound"}
<1>1. /\ packets \in [Server -> [Connection -> Seq(Packet)]]
      /\ packets[s][g] \in Seq(Packet)
  BY DEF TypeOK
<1>2. k \in 1 .. Len(packets[s][g]) /\ Len(packets[s][g]) \in Nat
  BY <1>1 DEF NextPacket
<1> DEFINE v == Without(packets[s][g], k)
<1>3. v \in Seq(Packet) /\ Cut(v, packets[s][g], k) /\ packets[s][g][k] \in Packet
  BY <1>1, <1>2, WithoutIsCut
<1>4. packets' = [packets EXCEPT ![s][g] = v]
  BY DEF NextPacket
<1>5. Len(v) \in Nat
  BY <1>3, SeqElements
<1> HIDE DEF v
<1>6. /\ packets' \in [Server -> [Connection -> Seq(Packet)]] /\ packets'[s][g] = v
      /\ \A o \in Server : o # s => packets'[o] = packets[o]
      /\ \A h \in Connection : h # g => packets'[s][h] = packets[s][h]
  BY <1>1, <1>3, <1>4, Put
<1> QED BY <1>2, <1>3, <1>5, <1>6 DEF NextPacket, Serving

LEMMA NextMessageDoes ==
  ASSUME NamesConstants, TypeOK, NEW s \in Server, NEW kind, NEW k, NextMessage(s, kind, k)
  PROVE  /\ inbox' \in [Server -> Seq(Message)]
         /\ \A o \in Server : o # s => inbox'[o] = inbox[o]
         /\ Cut(inbox'[s], inbox[s], k)
         /\ Len(inbox'[s]) \in Nat /\ Len(inbox[s]) \in Nat
         /\ k \in 1 .. Len(inbox[s])
         /\ inbox[s][k] \in Message /\ inbox[s][k].kind = kind
<1>1. inbox \in [Server -> Seq(Message)] /\ inbox[s] \in Seq(Message)
  BY DEF TypeOK
<1>2. k \in 1 .. Len(inbox[s]) /\ Len(inbox[s]) \in Nat
  BY <1>1 DEF NextMessage
<1> DEFINE v == Without(inbox[s], k)
<1>3. v \in Seq(Message) /\ Cut(v, inbox[s], k) /\ inbox[s][k] \in Message
  BY <1>1, <1>2, WithoutIsCut
<1>4. inbox' = [inbox EXCEPT ![s] = v]
  BY DEF NextMessage
<1>5. Len(v) \in Nat
  BY <1>3, SeqElements
<1> HIDE DEF v
<1> QED BY <1>1, <1>2, <1>3, <1>4, <1>5 DEF NextMessage

LEMMA RespondDoes ==
  ASSUME NamesConstants, TypeOK, NEW s \in Server, NEW g \in Connection,
         NEW m \in Message, Respond(s, g, m)
  PROVE  /\ inbox' \in [Server -> Seq(Message)]
         /\ \A o \in Server : o # s => inbox'[o] = inbox[o]
         /\ IF Live(s, g) THEN Longer(inbox'[s], inbox[s], m) ELSE inbox' = inbox
<1>1. inbox \in [Server -> Seq(Message)] /\ inbox[s] \in Seq(Message)
  BY DEF TypeOK
<1>2. CASE Live(s, g)
  <2> DEFINE v == Append(inbox[s], m)
  <2>1. v \in Seq(Message) /\ Longer(v, inbox[s], m)
    BY <1>1, AppendIsLonger
  <2>2. inbox' = [inbox EXCEPT ![s] = v]
    BY <1>2 DEF Respond, Live
  <2> HIDE DEF v
  <2> QED BY <1>1, <1>2, <2>1, <2>2
<1>3. CASE ~Live(s, g)
  BY <1>1, <1>3 DEF Respond, Live
<1> QED BY <1>2, <1>3

(* The queue of a session is emptied. *)
LEMMA EmptyDoes ==
  ASSUME NamesConstants, TypeOK, NEW s \in Server, NEW g \in Connection,
         packets' = [packets EXCEPT ![s][g] = <<>>]
  PROVE  /\ packets' \in [Server -> [Connection -> Seq(Packet)]]
         /\ \A o \in Server : o # s => packets'[o] = packets[o]
         /\ \A h \in Connection : h # g => packets'[s][h] = packets[s][h]
         /\ packets'[s][g] = <<>> /\ Len(packets'[s][g]) = 0
<1>1. packets \in [Server -> [Connection -> Seq(Packet)]] /\ <<>> \in Seq(Packet)
  BY DEF TypeOK
<1>2. /\ packets' \in [Server -> [Connection -> Seq(Packet)]]
      /\ \A o \in Server : o # s => packets'[o] = packets[o]
      /\ \A h \in Connection : h # g => packets'[s][h] = packets[s][h]
      /\ packets'[s][g] = <<>>
  BY <1>1, Put
<1> QED BY <1>2

(* A session gets another state. *)
LEMMA SessionDoes ==
  ASSUME NamesConstants, TypeOK, NEW s \in Server, NEW g \in Connection,
         NEW v \in {"none", "new", "bound", "refused", "ended"},
         session' = [session EXCEPT ![s][g] = v]
  PROVE  /\ session' \in [Server -> [Connection ->
                            {"none", "new", "bound", "refused", "ended"}]]
         /\ session'[s][g] = v
         /\ \A h \in Connection : h # g => session'[s][h] = session[s][h]
         /\ \A o \in Server : o # s => session'[o] = session[o]
<1>1. session \in [Server -> [Connection -> {"none", "new", "bound", "refused", "ended"}]]
  BY DEF TypeOK
<1> QED BY <1>1, Put

(***************************************************************************)
(* The initial state.                                                      *)
(***************************************************************************)
LEMMA InitIInv ==
  ASSUME NamesConstants, Init
  PROVE  IInv
<1>1. TypeOK
  <2>1. 1 \in Connection /\ 0 \in 0 .. MaxChange
    BY DEF NamesConstants, Connection
  <2>2. /\ named \in [Server -> SUBSET Name] /\ m_map \in [Server -> SUBSET Name]
        /\ ops \in [Server -> SUBSET [op : {"create", "delete"}, name : Name]]
        /\ disturbed \subseteq (Server \cup {Center}) \X Name
    BY DEF Init
  <2>3. /\ gen \in [Server -> Connection] /\ changes \in 0 .. MaxChange
        /\ conn \in [Server -> {"closed", "connecting", "up"}]
        /\ doomed \in [Server -> BOOLEAN] /\ overtaken \in BOOLEAN
        /\ known \in [Name -> Server \cup {Center, None}]
        /\ pc \in [Lookup -> {"idle", "sent", "done"}]
        /\ ret \in [Lookup -> {"none", "own", "foreign", "fail"}]
        /\ session \in [Server -> [Connection -> {"none", "new", "bound", "refused", "ended"}]]
    BY <2>1 DEF Init
  <2>4. /\ inbox \in [Server -> Seq(Message)]
        /\ packets \in [Server -> [Connection -> Seq(Packet)]]
    BY DEF Init
  <2>5. m_vtRequest \in [Server -> Seq([look : Lookup, on : Connection])]
    BY DEF Init
  <2>6. \A s \in Server : doomed[s] => conn[s] # "closed"
    BY DEF Init
  <2> QED BY <2>2, <2>3, <2>4, <2>5, <2>6 DEF TypeOK
<1>2. /\ \A s \in Server : /\ conn[s] = "connecting" /\ gen[s] = 1
                           /\ named[s] = {} /\ m_map[s] = {} /\ ops[s] = {}
                           /\ Len(inbox[s]) = 0 /\ Len(m_vtRequest[s]) = 0
                           /\ \A g \in Connection : /\ session[s][g] = "none"
                                                    /\ Len(packets[s][g]) = 0
      /\ \A n \in Name : known[n] = None
      /\ \A l \in Lookup : ret[l] = "none"
      /\ 1 \in Connection
  BY DEF Init, Connection, NamesConstants
<1>3. ASSUME NEW s \in Server
      PROVE  /\ \A i \in 1 .. Len(inbox[s]) : FALSE
             /\ \A i \in 1 .. Len(m_vtRequest[s]) : FALSE
             /\ \A g \in Connection : \A i \in 1 .. Len(packets[s][g]) : FALSE
  BY <1>2
<1>4. SessionInv
  <2>1. ASSUME NEW s \in Server, NEW g \in Connection
        PROVE  SessionOf(s, g)
    BY <1>2, <1>3 DEF SessionOf
  <2>2. \A s \in Server : conn[s] = "connecting" /\ session[s][gen[s]] = "none"
    BY <1>2
  <2> QED BY <2>1, <2>2 DEF SessionInv
<1>5. NamesInv
  <2> SUFFICES ASSUME NEW s \in Server, NEW n \in Name
               PROVE  NameInv(s, n)
    BY DEF NamesInv
  <2>1. \A o \in Server, g \in Connection : /\ ~HasCreate(packets[o][g], n)
                                            /\ ~HasDelete(packets[o][g], n)
                                            /\ ~OpenCreate(packets[o][g], n)
    BY <1>2, EmptyNews
  <2>2. \A o \in Server : ~Telling(o, "create", n) /\ ~Telling(o, "delete", n)
    BY <1>2 DEF Telling
  <2>3. known[n] = None /\ None # s
    BY <1>2 DEF NamesConstants
  <2>4. OnlyOwner(s, n) /\ LinkHas(s, n)
    BY <1>2, <2>1, <2>2, <2>3 DEF OnlyOwner, LinkHas
  <2>5. DeleteComes(s, n)
    BY <2>1, <2>3 DEF DeleteComes
  <2> QED BY <1>2, <2>4, <2>5 DEF NameInv
<1>6. ASSUME NEW s \in Server
      PROVE  LookupInv(s)
  <2>1. ListInv(s) /\ BoxInv(s) /\ EndInv(s)
    BY <1>3 DEF ListInv, BoxInv, EndInv, RepliesDiffer, EndsFirst, Replied
  <2>2. GetInv(s)
    BY <1>2 DEF GetInv
  <2>3. InOrder(s) /\ AllPending(s)
    BY <1>3 DEF InOrder, AllPending
  <2>4. AllListed(s)
    BY <1>2, <1>3 DEF AllListed, Pending, HasReply, Live
  <2> QED BY <2>1, <2>2, <2>3, <2>4 DEF LookupInv
<1> QED BY <1>1, <1>2, <1>4, <1>5, <1>6 DEF IInv, LookupsInv

-----------------------------------------------------------------------------
(***************************************************************************)
(* Sessions.                                                               *)
(***************************************************************************)
LEMMA SessionSame ==
  ASSUME SessionInv, UNCHANGED <<session, packets, conn, gen>>
  PROVE  SessionInv'
BY DEF SessionInv, SessionOf

(* A packet is sent. *)
LEMMA SessionSend ==
  ASSUME NamesConstants, TypeOK, SessionInv, NEW s \in Server, NEW p \in Packet,
         p.kind # "register", Send(s, p), UNCHANGED <<session, conn, gen>>
  PROVE  SessionInv'
<1>1. CASE ~Reaches(s)
  BY <1>1, SendDoes, SessionSame
<1>2. CASE Reaches(s)
  <2>1. /\ Longer(packets'[s][gen[s]], packets[s][gen[s]], p)
        /\ gen[s] \in Connection /\ Len(packets[s][gen[s]]) \in Nat
        /\ SessionOf(s, gen[s]) /\ session[s][gen[s]] # "none"
    BY <1>2, SendDoes, Elements DEF SessionInv, Reaches, IsTransmit
  <2>2. ASSUME NEW g \in Connection, g = gen[s]
        PROVE  SessionOf(s, g)'
    <3>1. /\ Longer(packets'[s][g], packets[s][g], p) /\ Len(packets[s][g]) \in Nat
          /\ SessionOf(s, g) /\ session[s][g] # "none"
      BY <2>1, <2>2
    <3>2. ASSUME NEW i \in 1 .. Len(packets'[s][g]), packets'[s][g][i].kind = "register"
          PROVE  i \in 1 .. Len(packets[s][g]) /\ packets'[s][g][i] = packets[s][g][i]
      BY <3>1, <3>2 DEF Longer
    <3> QED BY <3>1, <3>2 DEF SessionOf
  <2>3. ASSUME NEW o \in Server, NEW g \in Connection, ~(o = s /\ g = gen[s])
        PROVE  SessionOf(o, g)'
    <3>1. packets'[o][g] = packets[o][g] /\ SessionOf(o, g)
      BY <2>3, SendDoes DEF SessionInv
    <3> QED BY <3>1 DEF SessionOf
  <2> QED BY <2>1, <2>2, <2>3 DEF SessionInv
<1> QED BY <1>1, <1>2

(* A packet is taken: what is left of one that was not the registration,   *)
(* and of one that was.                                                    *)
LEMMA SessionCut ==
  ASSUME NamesConstants, TypeOK, SessionInv, NEW s \in Server, NEW g \in Connection,
         NEW kind, NEW k, NextPacket(s, g, kind, k),
         NEW i \in 1 .. Len(packets'[s][g]), packets'[s][g][i].kind = "register"
  PROVE  /\ kind # "register" /\ session[s][g] = "new"
         /\ \A j \in 1 .. Len(packets'[s][g]) :
              packets'[s][g][j].kind = "register" => i = j
<1>1. /\ Cut(packets'[s][g], packets[s][g], k) /\ packets[s][g][k].kind = kind
      /\ Len(packets'[s][g]) \in Nat /\ Len(packets[s][g]) \in Nat
      /\ k \in 1 .. Len(packets[s][g]) /\ SessionOf(s, g)
  BY NextPacketDoes DEF SessionInv
<1>2. \A j \in 1 .. Len(packets'[s][g]) :
        /\ Up(j, k) \in 1 .. Len(packets[s][g]) /\ Up(j, k) # k
        /\ packets'[s][g][j] = packets[s][g][Up(j, k)]
        /\ Down(Up(j, k), k) = j
  BY <1>1, CutPlaces
<1> QED BY <1>1, <1>2 DEF SessionOf

LEMMA SessionDrop ==
  ASSUME NamesConstants, TypeOK, SessionInv, NEW s \in Server, NEW g \in Connection,
         NEW kind, NEW k, NextPacket(s, g, kind, k), UNCHANGED <<session, conn, gen>>
  PROVE  SessionInv'
<1>1. session[s][g] \in {"new", "bound"} /\ SessionOf(s, g)
  BY NextPacketDoes DEF SessionInv
<1>2. SessionOf(s, g)'
  BY <1>1, SessionCut DEF SessionOf
<1>3. ASSUME NEW o \in Server, NEW h \in Connection, ~(o = s /\ h = g)
      PROVE  SessionOf(o, h)'
  <2>1. packets'[o][h] = packets[o][h] /\ SessionOf(o, h)
    BY <1>3, NextPacketDoes DEF SessionInv
  <2> QED BY <2>1 DEF SessionOf
<1> QED BY <1>2, <1>3 DEF SessionInv

(* The registration is handled. *)
LEMMA SessionRegister ==
  ASSUME NamesConstants, TypeOK, SessionInv, NEW s \in Server, NEW g \in Connection,
         NEW k, GateRegister(s, g, k)
  PROVE  SessionInv'
<1>1. /\ NextPacket(s, g, "register", k) /\ UNCHANGED <<conn, gen>>
      /\ session' = [session EXCEPT ![s][g] = "bound"]
  BY DEF GateRegister, netVars
<1>2. session[s][g] \in {"new", "bound"} /\ SessionOf(s, g)
  BY <1>1, NextPacketDoes DEF SessionInv
<1>3. /\ session'[s][g] = "bound"
      /\ \A o \in Server, h \in Connection : ~(o = s /\ h = g) =>
           session'[o][h] = session[o][h] /\ packets'[o][h] = packets[o][h]
  <2>1. /\ session'[s][g] = "bound"
        /\ \A h \in Connection : h # g => session'[s][h] = session[s][h]
        /\ \A o \in Server : o # s => session'[o] = session[o]
    BY <1>1, SessionDoes
  <2>2. /\ \A h \in Connection : h # g => packets'[s][h] = packets[s][h]
        /\ \A o \in Server : o # s => packets'[o] = packets[o]
    BY <1>1, NextPacketDoes
  <2> QED BY <2>1, <2>2
<1>4. SessionOf(s, g)'
  <2>1. \A i \in 1 .. Len(packets'[s][g]) : packets'[s][g][i].kind # "register"
    BY <1>1, SessionCut
  <2> QED BY <1>1, <1>2, <1>3, <2>1 DEF SessionOf
<1>5. ASSUME NEW o \in Server, NEW h \in Connection, ~(o = s /\ h = g)
      PROVE  SessionOf(o, h)'
  <2>1. SessionOf(o, h)
    BY DEF SessionInv
  <2> QED BY <2>1, <1>1, <1>3, <1>5 DEF SessionOf
<1>6. ASSUME NEW o \in Server
      PROVE  /\ conn'[o] = "connecting" => session'[o][gen'[o]] = "none"
             /\ conn'[o] = "up" => session'[o][gen'[o]] \in {"new", "bound", "refused"}
  <2>1. /\ conn[o] = "connecting" => session[o][gen[o]] = "none"
        /\ conn[o] = "up" => session[o][gen[o]] \in {"new", "bound", "refused"}
        /\ gen[o] \in Connection
    BY Elements DEF SessionInv
  <2> QED BY <2>1, <1>1, <1>2, <1>3
<1> QED BY <1>4, <1>5, <1>6 DEF SessionInv

(* A session is refused or ends, and what came on it has no effect. *)
LEMMA SessionClose ==
  ASSUME NamesConstants, TypeOK, SessionInv, NEW s \in Server, NEW g \in Connection,
         NEW v \in {"refused", "ended"}, session[s][g] # "none",
         session' = [session EXCEPT ![s][g] = v], packets' = [packets EXCEPT ![s][g] = <<>>],
         v = "ended" => ~Live(s, g), UNCHANGED <<conn, gen>>
  PROVE  SessionInv'
<1>1. /\ session'[s][g] = v /\ Len(packets'[s][g]) = 0
      /\ \A o \in Server, h \in Connection : ~(o = s /\ h = g) =>
           session'[o][h] = session[o][h] /\ packets'[o][h] = packets[o][h]
  <2>1. /\ session'[s][g] = v
        /\ \A h \in Connection : h # g => session'[s][h] = session[s][h]
        /\ \A o \in Server : o # s => session'[o] = session[o]
    <3>1. session \in [Server -> [Connection -> {"none", "new", "bound", "refused", "ended"}]]
      BY DEF TypeOK
    <3>2. session' = [session EXCEPT ![s] = [session[s] EXCEPT ![g] = v]]
      OBVIOUS
    <3>3. /\ session'[s] = [session[s] EXCEPT ![g] = v]
          /\ \A o \in Server : o # s => session'[o] = session[o]
      BY <3>1, <3>2
    <3>4. session[s] \in [Connection -> {"none", "new", "bound", "refused", "ended"}]
      BY <3>1
    <3> QED BY <3>3, <3>4
  <2>2. /\ Len(packets'[s][g]) = 0
        /\ \A h \in Connection : h # g => packets'[s][h] = packets[s][h]
        /\ \A o \in Server : o # s => packets'[o] = packets[o]
    BY EmptyDoes
  <2> QED BY <2>1, <2>2
<1>2. SessionOf(s, g)'
  <2>1. (\A i \in 1 .. Len(packets'[s][g]) : FALSE) /\ SessionOf(s, g)
    BY <1>1 DEF SessionInv
  <2> QED BY <1>1, <2>1 DEF SessionOf
<1>3. ASSUME NEW o \in Server, NEW h \in Connection, ~(o = s /\ h = g)
      PROVE  SessionOf(o, h)'
  <2>1. SessionOf(o, h)
    BY DEF SessionInv
  <2> QED BY <2>1, <1>1, <1>3 DEF SessionOf
<1>4. ASSUME NEW o \in Server
      PROVE  /\ conn'[o] = "connecting" => session'[o][gen'[o]] = "none"
             /\ conn'[o] = "up" => session'[o][gen'[o]] \in {"new", "bound", "refused"}
  <2>1. /\ conn[o] = "connecting" => session[o][gen[o]] = "none"
        /\ conn[o] = "up" => session[o][gen[o]] \in {"new", "bound", "refused"}
        /\ gen[o] \in Connection
    BY Elements DEF SessionInv
  <2> QED BY <2>1, <1>1 DEF Live
<1> QED BY <1>2, <1>3, <1>4 DEF SessionInv

(* The connection. *)
LEMMA SessionConnect ==
  ASSUME NamesConstants, TypeOK, SessionInv, NEW s \in Server, CheckConnect(s)
  PROVE  SessionInv'
<1>1. /\ gen[s] \in Nat /\ gen'[s] = gen[s] + 1 /\ gen'[s] \in Connection
      /\ conn'[s] = "connecting"
      /\ \A o \in Server : o # s => conn'[o] = conn[o] /\ gen'[o] = gen[o]
      /\ UNCHANGED <<session, packets>>
  BY DEF CheckConnect, centerVars, TypeOK, Connection, NamesConstants
<1>2. ASSUME NEW o \in Server, NEW g \in Connection
      PROVE  SessionOf(o, g)'
  <2>1. SessionOf(o, g) /\ g \in Nat
    BY DEF SessionInv, Connection
  <2> QED BY <1>1, <2>1 DEF SessionOf
<1>3. session[s][gen'[s]] = "none"
  BY <1>1 DEF SessionInv, SessionOf
<1> QED BY <1>1, <1>2, <1>3 DEF SessionInv

LEMMA OnConnectDoes ==
  ASSUME NamesConstants, TypeOK, SessionInv, NEW s \in Server, OnConnect(s)
  PROVE  /\ conn[s] = "connecting" /\ conn'[s] = "up" /\ session'[s][gen[s]] = "new"
         /\ conn' \in [Server -> {"closed", "connecting", "up"}]
         /\ session' \in [Server -> [Connection ->
                            {"none", "new", "bound", "refused", "ended"}]]
         /\ packets' \in [Server -> [Connection -> Seq(Packet)]]
         /\ session[s][gen[s]] = "none" /\ Len(packets[s][gen[s]]) = 0
         /\ Len(packets'[s][gen[s]]) = 1 /\ packets'[s][gen[s]][1].kind = "register"
         /\ \A o \in Server : o # s => /\ conn'[o] = conn[o] /\ session'[o] = session[o]
                                       /\ packets'[o] = packets[o]
         /\ \A g \in Connection : g # gen[s] => /\ session'[s][g] = session[s][g]
                                                /\ packets'[s][g] = packets[s][g]
         /\ UNCHANGED <<named, ops, m_map, m_vtRequest, pc, ret, gen, doomed, inbox, known,
                        changes, overtaken, disturbed>>
<1>1. /\ packets \in [Server -> [Connection -> Seq(Packet)]] /\ gen[s] \in Connection
      /\ conn \in [Server -> {"closed", "connecting", "up"}]
  BY DEF TypeOK
<1> DEFINE v == << [kind |-> "register"] >>
<1>2. v \in Seq(Packet) /\ Len(v) = 1 /\ v[1].kind = "register"
  BY PacketKinds
<1>3. /\ packets' = [packets EXCEPT ![s][gen[s]] = v] /\ conn[s] = "connecting"
      /\ session' = [session EXCEPT ![s][gen[s]] = "new"] /\ conn' = [conn EXCEPT ![s] = "up"]
      /\ UNCHANGED <<named, ops, m_map, m_vtRequest, pc, ret, gen, doomed, inbox, known,
                     changes, overtaken, disturbed>>
  BY DEF OnConnect, serverVars, lookVars
<1> HIDE DEF v
<1>4. /\ packets' \in [Server -> [Connection -> Seq(Packet)]] /\ packets'[s][gen[s]] = v
      /\ \A o \in Server : o # s => packets'[o] = packets[o]
      /\ \A g \in Connection : g # gen[s] => packets'[s][g] = packets[s][g]
  BY <1>1, <1>2, <1>3, Put
<1>5. /\ session' \in [Server -> [Connection -> {"none", "new", "bound", "refused", "ended"}]]
      /\ session'[s][gen[s]] = "new"
      /\ \A o \in Server : o # s => session'[o] = session[o]
      /\ \A g \in Connection : g # gen[s] => session'[s][g] = session[s][g]
  BY <1>1, <1>3, SessionDoes
<1>6. session[s][gen[s]] = "none" /\ Len(packets[s][gen[s]]) = 0
  BY <1>1, <1>3 DEF SessionInv, SessionOf
<1>7. conn' \in [Server -> {"closed", "connecting", "up"}] /\ conn'[s] = "up"
      /\ \A o \in Server : o # s => conn'[o] = conn[o]
  BY <1>1, <1>3
<1> QED BY <1>2, <1>3, <1>4, <1>5, <1>6, <1>7

LEMMA SessionBegins ==
  ASSUME NamesConstants, TypeOK, SessionInv, NEW s \in Server, OnConnect(s)
  PROVE  SessionInv'
<1>1. gen[s] \in Connection /\ gen' = gen
  BY Elements, OnConnectDoes
<1>2. ASSUME NEW g \in Connection, g = gen[s]
      PROVE  SessionOf(s, g)'
  <2>1. /\ session'[s][g] = "new" /\ Len(packets'[s][g]) = 1
        /\ packets'[s][g][1].kind = "register"
    BY <1>2, OnConnectDoes
  <2>2. ~(g > gen'[s])
    BY <1>1, <1>2 DEF Connection
  <2> QED BY <2>1, <2>2 DEF SessionOf
<1>3. ASSUME NEW o \in Server, NEW g \in Connection, ~(o = s /\ g = gen[s])
      PROVE  SessionOf(o, g)'
  <2>1. SessionOf(o, g) /\ session'[o][g] = session[o][g] /\ packets'[o][g] = packets[o][g]
    BY <1>3, OnConnectDoes DEF SessionInv
  <2> QED BY <2>1, <1>1 DEF SessionOf
<1>4. conn'[s] = "up" /\ session'[s][gen'[s]] = "new"
  BY <1>1, OnConnectDoes
<1>5. ASSUME NEW o \in Server, o # s
      PROVE  /\ conn'[o] = "connecting" => session'[o][gen'[o]] = "none"
             /\ conn'[o] = "up" => session'[o][gen'[o]] \in {"new", "bound", "refused"}
  <2>1. conn'[o] = conn[o] /\ session'[o] = session[o] /\ gen'[o] = gen[o]
    BY <1>1, <1>5, OnConnectDoes
  <2> QED BY <2>1 DEF SessionInv
<1> QED BY <1>1, <1>2, <1>3, <1>4, <1>5 DEF SessionInv

LEMMA SessionLost ==
  ASSUME NamesConstants, TypeOK, SessionInv, NEW s \in Server,
         conn' = [conn EXCEPT ![s] = "closed"], UNCHANGED <<session, packets, gen>>
  PROVE  SessionInv'
<1>1. /\ conn'[s] = "closed" /\ \A o \in Server : o # s => conn'[o] = conn[o]
  BY DEF TypeOK
<1> QED BY <1>1 DEF SessionInv, SessionOf

-----------------------------------------------------------------------------
(***************************************************************************)
(* Names.  Similar(t, q, n): no news of n has come into the queue, and no  *)
(* deletion is gone.                                                       *)
(***************************************************************************)
Similar(t, q, n) ==
  /\ HasCreate(t, n) => HasCreate(q, n)
  /\ HasDelete(t, n) <=> HasDelete(q, n)
  /\ OpenCreate(t, n) => OpenCreate(q, n)
  /\ OpenDelete(t, n) => OpenDelete(q, n)

(* The servers and their links have the name, or not, as before. *)
SameHolders(n) ==
  /\ known'[n] = known[n]
  /\ \A o \in Server : /\ n \in named'[o] <=> n \in named[o]
                       /\ n \in m_map'[o] <=> n \in m_map[o]
                       /\ Telling(o, "create", n)' <=> Telling(o, "create", n)
                       /\ Telling(o, "delete", n)' <=> Telling(o, "delete", n)

(* The link of s still has announced its names, with the same effect. *)
StillAnnounced(s, n) ==
  /\ Announced(s) /\ gen'[s] = gen[s]
  /\ HasCreate(packets[s][gen[s]], n) => HasCreate(packets'[s][gen[s]], n)

LEMMA SupersededKept ==
  ASSUME NEW s \in Server, NEW g \in Connection,
         \A h \in Connection : \/ session'[s][h] = session[s][h]
                               \/ session'[s][h] \in {"bound", "refused", "ended"}
                               \/ session[s][h] \in {"none", "new"},
         Superseded(s, g)
  PROVE  Superseded(s, g)'
BY DEF Superseded

LEMMA NewsKept ==
  ASSUME NamesConstants, TypeOK, NEW s \in Server, NEW n \in Name, NameInv(s, n),
         SameHolders(n),
         \A o \in Server, g \in Connection : Similar(packets'[o][g], packets[o][g], n),
         \A g \in Connection : Superseded(s, g) => Superseded(s, g)',
         Announced(s)' => StillAnnounced(s, n)
  PROVE  NameInv(s, n)'
<1>1. OnlyOwner(s, n)'
  BY DEF NameInv, OnlyOwner, SameHolders, Similar
<1>2. LinkHas(s, n)'
  BY DEF NameInv, LinkHas, SameHolders
<1>3. n \notin m_map'[s] => DeleteComes(s, n)'
  <2> SUFFICES ASSUME n \notin m_map'[s] PROVE DeleteComes(s, n)'
    OBVIOUS
  <2>1. DeleteComes(s, n)
    BY DEF NameInv, SameHolders
  <2>2. known'[n] = known[n]
    BY DEF SameHolders
  <2>3. \A g \in Connection : /\ OpenCreate(packets'[s][g], n) => OpenCreate(packets[s][g], n)
                              /\ HasDelete(packets[s][g], n) => HasDelete(packets'[s][g], n)
    BY DEF Similar
  <2> QED BY <2>1, <2>2, <2>3 DEF DeleteComes
<1>4. n \in m_map'[s] /\ Announced(s)' => CreateComes(s, n)'
  <2> SUFFICES ASSUME n \in m_map'[s], Announced(s)' PROVE CreateComes(s, n)'
    OBVIOUS
  <2>1. /\ CreateComes(s, n) /\ gen'[s] = gen[s] /\ gen[s] \in Connection
        /\ HasCreate(packets[s][gen[s]], n) => HasCreate(packets'[s][gen[s]], n)
    BY Elements DEF NameInv, SameHolders, StillAnnounced
  <2>2. OpenDelete(packets'[s][gen[s]], n) => OpenDelete(packets[s][gen[s]], n)
    BY <2>1 DEF Similar
  <2>3. known'[n] = known[n]
    BY DEF SameHolders
  <2> QED BY <2>1, <2>2, <2>3 DEF CreateComes
<1> QED BY <1>1, <1>2, <1>3, <1>4 DEF NameInv

LEMMA SameSimilar ==
  ASSUME NEW q, NEW n
  PROVE  Similar(q, q, n)
BY DEF Similar

(* A packet without news of the name is sent. *)
LEMMA SendSimilar ==
  ASSUME NamesConstants, TypeOK, NEW a \in Server, NEW p \in Packet, Send(a, p),
         NEW n, ~IsCreate(p, n), ~IsDelete(p, n)
  PROVE  \A o \in Server, g \in Connection :
           /\ Similar(packets'[o][g], packets[o][g], n)
           /\ HasCreate(packets[o][g], n) => HasCreate(packets'[o][g], n)
<1> TAKE o \in Server, g \in Connection
<1>1. CASE Reaches(a) /\ o = a /\ g = gen[a]
  <2>1. Longer(packets'[o][g], packets[o][g], p) /\ Len(packets[o][g]) \in Nat
    BY <1>1, SendDoes, Elements
  <2> QED BY <2>1, LongerNews DEF Similar
<1>2. CASE ~(Reaches(a) /\ o = a /\ g = gen[a])
  <2>1. packets'[o][g] = packets[o][g]
    BY <1>2, SendDoes
  <2> QED BY <2>1, SameSimilar
<1> QED BY <1>1, <1>2

(* A packet without news of the name is handled. *)
LEMMA DropSimilar ==
  ASSUME NamesConstants, TypeOK, NEW a \in Server, NEW g \in Connection, NEW kind, NEW k,
         NextPacket(a, g, kind, k), NEW n,
         ~IsCreate(packets[a][g][k], n), ~IsDelete(packets[a][g][k], n)
  PROVE  \A o \in Server, h \in Connection :
           /\ Similar(packets'[o][h], packets[o][h], n)
           /\ HasCreate(packets[o][h], n) => HasCreate(packets'[o][h], n)
<1> TAKE o \in Server, h \in Connection
<1>1. CASE o = a /\ h = g
  <2>1. /\ Cut(packets'[o][h], packets[o][h], k)
        /\ Len(packets'[o][h]) \in Nat /\ Len(packets[o][h]) \in Nat
    BY <1>1, NextPacketDoes
  <2> QED BY <1>1, <2>1, CutNews DEF Similar
<1>2. CASE ~(o = a /\ h = g)
  <2>1. packets'[o][h] = packets[o][h]
    BY <1>2, NextPacketDoes
  <2> QED BY <2>1, SameSimilar
<1> QED BY <1>1, <1>2

(* Nothing about names happens. *)
LEMMA NamesQuiet ==
  ASSUME NamesConstants, TypeOK, NamesInv,
         UNCHANGED <<named, ops, m_map, packets, known, session>>,
         disturbed \subseteq disturbed',
         \A s \in Server : Announced(s)' => Announced(s) /\ gen'[s] = gen[s]
  PROVE  NamesInv'
<1> SUFFICES ASSUME NEW s \in Server, NEW n \in Name, <<s, n>> \notin disturbed'
             PROVE  NameInv(s, n)'
  BY DEF NamesInv
<1>1. NameInv(s, n)
  BY DEF NamesInv
<1>2. SameHolders(n)
  BY DEF SameHolders, Telling
<1>3. \A o \in Server, g \in Connection : Similar(packets'[o][g], packets[o][g], n)
  BY SameSimilar
<1>4. \A g \in Connection : Superseded(s, g) => Superseded(s, g)'
  BY DEF Superseded
<1>5. Announced(s)' => StillAnnounced(s, n)
  BY DEF StillAnnounced
<1> QED BY <1>1, <1>2, <1>3, <1>4, <1>5, NewsKept

-----------------------------------------------------------------------------
(* A server begins or ceases to use a name. *)
LEMMA NamesTell ==
  ASSUME NamesConstants, TypeOK, NamesInv, NEW a \in Server, NEW m \in Name,
         Register(a, m) \/ UnRegister(a, m)
  PROVE  NamesInv'
<1> SUFFICES ASSUME NEW s \in Server, NEW n \in Name, <<s, n>> \notin disturbed'
             PROVE  NameInv(s, n)'
  BY DEF NamesInv
<1>0. UNCHANGED <<m_map, known, packets, session, gen, conn, inbox>>
  BY DEF Register, UnRegister, Tell, netVars, centerVars
<1>1. disturbed \subseteq disturbed'
  BY DEF Register, UnRegister, Tell
<1>2. NameInv(s, n)
  BY <1>1 DEF NamesInv
<1>3. /\ \A o \in Server : o # a => named'[o] = named[o] /\ ops'[o] = ops[o]
      /\ n # m => (n \in named'[a] <=> n \in named[a])
      /\ n # m => (Telling(a, "create", n)' <=> Telling(a, "create", n))
      /\ n # m => (Telling(a, "delete", n)' <=> Telling(a, "delete", n))
  BY DEF Register, UnRegister, Tell, Telling, TypeOK
<1>4. /\ \A o \in Server, g \in Connection : Similar(packets'[o][g], packets[o][g], n)
      /\ \A g \in Connection : Superseded(s, g) => Superseded(s, g)'
      /\ Announced(s)' => StillAnnounced(s, n)
  BY <1>0, SameSimilar DEF Superseded, StillAnnounced, Announced
<1>5. CASE n # m
  <2>1. SameHolders(n)
    BY <1>0, <1>3, <1>5 DEF SameHolders, Telling
  <2> QED BY <1>2, <1>4, <2>1, NewsKept
<1>6. CASE n = m /\ a # s
  <2>1. a \in Server \ {s} /\ n \notin named[a]
    BY <1>2, <1>6 DEF NameInv, OnlyOwner
  <2>2. Register(a, m)
    BY <2>1, <1>6 DEF UnRegister
  <2>3. Others(a, m) \subseteq disturbed'
    BY <2>2 DEF Register, Tell
  <2>4. <<s, n>> \in Others(a, m)
    BY <1>6 DEF Others
  <2> QED BY <2>3, <2>4
<1>7. CASE n = m /\ a = s
  <2>1. LinkHas(s, n)'
    <3>1. CASE Register(a, m)
      <4>1. ~Telling(s, "delete", n)
        BY <1>7, <3>1 DEF Register, Tell, Telling
      <4>2. n \notin named[s] /\ n \in named'[s]
        BY <1>7, <3>1 DEF Register, TypeOK
      <4>3. Telling(s, "create", n)' /\ (Telling(s, "delete", n)' <=> Telling(s, "delete", n))
        BY <1>7, <3>1 DEF Register, Tell, Telling, TypeOK
      <4> QED BY <1>0, <1>2, <4>1, <4>2, <4>3 DEF NameInv, LinkHas
    <3>2. CASE UnRegister(a, m)
      <4>1. ~Telling(s, "create", n)
        BY <1>7, <3>2 DEF UnRegister, Tell, Telling
      <4>2. n \in named[s] /\ n \notin named'[s]
        BY <1>7, <3>2 DEF UnRegister, TypeOK
      <4>3. Telling(s, "delete", n)' /\ (Telling(s, "create", n)' <=> Telling(s, "create", n))
        BY <1>7, <3>2 DEF UnRegister, Tell, Telling, TypeOK
      <4> QED BY <1>0, <1>2, <4>1, <4>2, <4>3 DEF NameInv, LinkHas
    <3> QED BY <3>1, <3>2
  <2>2. OnlyOwner(s, n)'
    BY <1>0, <1>2, <1>3, <1>7 DEF NameInv, OnlyOwner, Telling
  <2>3. /\ DeleteComes(s, n)' <=> DeleteComes(s, n)
        /\ CreateComes(s, n)' <=> CreateComes(s, n)
        /\ Announced(s)' <=> Announced(s)
    BY <1>0 DEF DeleteComes, CreateComes, Announced, Superseded
  <2> QED BY <1>0, <1>2, <2>1, <2>2, <2>3 DEF NameInv
<1> QED BY <1>5, <1>6, <1>7

(***************************************************************************)
(* The link tells the center.                                              *)
(***************************************************************************)
LEMMA AnnouncedReaches ==
  ASSUME NEW s \in Server, Announced(s)
  PROVE  Reaches(s)
BY DEF Announced, Reaches, IsTransmit

LEMMA NamesCreateMap ==
  ASSUME NamesConstants, TypeOK, NamesInv, NEW a \in Server, NEW m \in Name,
         CreateMap(a, m)
  PROVE  NamesInv'
<1> SUFFICES ASSUME NEW s \in Server, NEW n \in Name, <<s, n>> \notin disturbed'
             PROVE  NameInv(s, n)'
  BY DEF NamesInv
<1> DEFINE p == [kind |-> "create", names |-> {m}]
<1>0. /\ p \in Packet /\ Send(a, p) /\ Telling(a, "create", m)
      /\ IsCreate(p, m) /\ (n # m => ~IsCreate(p, n)) /\ ~IsDelete(p, n)
      /\ UNCHANGED <<named, known, session, gen, conn, inbox, disturbed>>
  BY PacketKinds DEF CreateMap, TakeOp, Telling, IsCreate, IsDelete, netVars
<1>1. NameInv(s, n)
  BY <1>0 DEF NamesInv
<1>2. /\ \A o \in Server : o # a => m_map'[o] = m_map[o] /\ ops'[o] = ops[o]
      /\ n # m => (n \in m_map'[a] <=> n \in m_map[a])
      /\ n # m => (Telling(a, "create", n)' <=> Telling(a, "create", n))
      /\ Telling(a, "delete", n)' <=> Telling(a, "delete", n)
      /\ m \in m_map'[a] /\ ~Telling(a, "create", m)'
  BY DEF CreateMap, TakeOp, Telling, TypeOK
<1> HIDE DEF p
<1>3. Announced(s)' <=> Announced(s)
  BY <1>0 DEF Announced
<1>4. CASE n # m
  <2>1. SameHolders(n)
    BY <1>0, <1>2, <1>4 DEF SameHolders, Telling
  <2>2. \A o \in Server, g \in Connection :
          /\ Similar(packets'[o][g], packets[o][g], n)
          /\ HasCreate(packets[o][g], n) => HasCreate(packets'[o][g], n)
    BY <1>0, <1>4, SendSimilar
  <2>3. Announced(s)' => StillAnnounced(s, n)
    BY <1>0, <1>3, <2>2, Elements DEF StillAnnounced
  <2>4. \A g \in Connection : Superseded(s, g) => Superseded(s, g)'
    BY <1>0 DEF Superseded
  <2> QED BY <1>1, <2>1, <2>2, <2>3, <2>4, NewsKept
<1>5. CASE n = m /\ a # s
  BY <1>0, <1>1, <1>5 DEF NameInv, OnlyOwner
<1>6. CASE n = m /\ a = s
  <2>1. LinkHas(s, n)'
    BY <1>0, <1>1, <1>2, <1>6 DEF NameInv, LinkHas
  <2>2. OnlyOwner(s, n)'
    <3>1. \A o \in Server \ {s} : packets'[o] = packets[o]
      BY <1>0, <1>6, SendDoes
    <3> QED BY <1>0, <1>1, <1>2, <1>6, <3>1 DEF NameInv, OnlyOwner, Telling
  <2>3. Announced(s)' => CreateComes(s, n)'
    <3> SUFFICES ASSUME Announced(s) PROVE CreateComes(s, n)'
      BY <1>3
    <3>1. /\ Longer(packets'[s][gen[s]], packets[s][gen[s]], p)
          /\ Len(packets[s][gen[s]]) \in Nat
      BY <1>0, <1>6, AnnouncedReaches, SendDoes, Elements
    <3>2. HasCreate(packets'[s][gen[s]], n) /\ ~OpenDelete(packets'[s][gen[s]], n)
      BY <1>0, <1>6, <3>1, LongerNews
    <3> QED BY <1>0, <3>2 DEF CreateComes
  <2> QED BY <1>2, <1>6, <2>1, <2>2, <2>3 DEF NameInv
<1> QED BY <1>4, <1>5, <1>6

LEMMA NamesDelMap ==
  ASSUME NamesConstants, TypeOK, SessionInv, NamesInv, NEW a \in Server, NEW m \in Name,
         DelMap(a, m)
  PROVE  NamesInv'
<1> SUFFICES ASSUME NEW s \in Server, NEW n \in Name, <<s, n>> \notin disturbed'
             PROVE  NameInv(s, n)'
  BY DEF NamesInv
<1> DEFINE p == [kind |-> "delete", name |-> m]
<1>0. /\ p \in Packet /\ Telling(a, "delete", m)
      /\ IF m \in m_map[a] THEN Send(a, p) ELSE UNCHANGED packets
      /\ IsDelete(p, m) /\ (n # m => ~IsDelete(p, n)) /\ ~IsCreate(p, n)
      /\ disturbed \subseteq disturbed'
      /\ Reaches(a) \/ <<a, m>> \in disturbed'
      /\ UNCHANGED <<named, known, session, gen, conn, inbox>>
  BY PacketKinds DEF DelMap, TakeOp, Telling, IsCreate, IsDelete, netVars
<1>1. NameInv(s, n)
  BY <1>0 DEF NamesInv
<1>2. /\ \A o \in Server : o # a => m_map'[o] = m_map[o] /\ ops'[o] = ops[o]
      /\ n # m => (n \in m_map'[a] <=> n \in m_map[a])
      /\ n # m => (Telling(a, "delete", n)' <=> Telling(a, "delete", n))
      /\ Telling(a, "create", n)' <=> Telling(a, "create", n)
      /\ m \notin m_map'[a] /\ ~Telling(a, "delete", m)'
  BY DEF DelMap, TakeOp, Telling, TypeOK
<1> HIDE DEF p
<1>3. Announced(s)' <=> Announced(s)
  BY <1>0 DEF Announced
<1>4. CASE n # m
  <2>1. SameHolders(n)
    BY <1>0, <1>2, <1>4 DEF SameHolders, Telling
  <2>2. \A o \in Server, g \in Connection :
          /\ Similar(packets'[o][g], packets[o][g], n)
          /\ HasCreate(packets[o][g], n) => HasCreate(packets'[o][g], n)
    BY <1>0, <1>4, SendSimilar, SameSimilar
  <2>3. Announced(s)' => StillAnnounced(s, n)
    BY <1>0, <1>3, <2>2, Elements DEF StillAnnounced
  <2>4. \A g \in Connection : Superseded(s, g) => Superseded(s, g)'
    BY <1>0 DEF Superseded
  <2> QED BY <1>1, <2>1, <2>2, <2>3, <2>4, NewsKept
<1>5. CASE n = m /\ a # s
  BY <1>0, <1>1, <1>5 DEF NameInv, OnlyOwner
<1>6. CASE n = m /\ a = s
  <2>1. LinkHas(s, n)' /\ n \in m_map[s]
    BY <1>0, <1>1, <1>2, <1>6 DEF NameInv, LinkHas
  <2>2. Send(s, p) /\ Reaches(s)
    BY <1>0, <1>6, <2>1
  <2>3. OnlyOwner(s, n)'
    <3>1. \A o \in Server \ {s} : packets'[o] = packets[o]
      BY <1>0, <2>2, SendDoes
    <3> QED BY <1>0, <1>1, <1>2, <1>6, <3>1 DEF NameInv, OnlyOwner, Telling
  <2>4. /\ gen[s] \in Connection /\ Len(packets[s][gen[s]]) \in Nat
        /\ Longer(packets'[s][gen[s]], packets[s][gen[s]], p)
        /\ \A g \in Connection : g # gen[s] => packets'[s][g] = packets[s][g]
    BY <1>0, <2>2, SendDoes, Elements
  <2>5. HasDelete(packets'[s][gen[s]], n) /\ ~OpenCreate(packets'[s][gen[s]], n)
    BY <1>0, <1>6, <2>4, LongerNews
  <2>6. ASSUME NEW g \in Connection, OpenCreate(packets'[s][g], n)
        PROVE  g < gen[s]
    <3>1. g # gen[s]
      BY <2>5, <2>6
    <3>2. CASE g > gen[s]
      <4>1. Len(packets'[s][g]) = 0
        BY <3>2, <2>4 DEF SessionInv, SessionOf, Connection
      <4> QED BY <4>1, <2>6, EmptyNews
    <3> QED BY <3>1, <3>2, <2>4 DEF Connection
  <2>7. DeleteComes(s, n)'
    BY <2>4, <2>5, <2>6 DEF DeleteComes
  <2> QED BY <1>2, <1>6, <2>1, <2>3, <2>7 DEF NameInv
<1> QED BY <1>4, <1>5, <1>6

(* A lookup is sent. *)
LEMMA NamesGetMap ==
  ASSUME NamesConstants, TypeOK, NamesInv, NEW l \in Lookup, GetMap(l)
  PROVE  NamesInv'
<1> SUFFICES ASSUME NEW s \in Server, NEW n \in Name, <<s, n>> \notin disturbed'
             PROVE  NameInv(s, n)'
  BY DEF NamesInv
<1> DEFINE p == [kind |-> "get", look |-> l]
<1>0. /\ p \in Packet /\ Send(Asker[l], p) /\ Asker[l] \in Server
      /\ ~IsCreate(p, n) /\ ~IsDelete(p, n)
      /\ UNCHANGED <<named, ops, m_map, known, session, gen, conn, inbox, disturbed>>
  BY PacketKinds DEF GetMap, IsCreate, IsDelete, netVars, serverVars, NamesConstants
<1> HIDE DEF p
<1>1. NameInv(s, n)
  BY <1>0 DEF NamesInv
<1>2. SameHolders(n)
  BY <1>0 DEF SameHolders, Telling
<1>3. \A o \in Server, g \in Connection :
        /\ Similar(packets'[o][g], packets[o][g], n)
        /\ HasCreate(packets[o][g], n) => HasCreate(packets'[o][g], n)
  BY <1>0, SendSimilar
<1>4. Announced(s)' => StillAnnounced(s, n)
  BY <1>0, <1>3, Elements DEF StillAnnounced, Announced
<1>5. \A g \in Connection : Superseded(s, g) => Superseded(s, g)'
  BY <1>0 DEF Superseded
<1> QED BY <1>1, <1>2, <1>3, <1>4, <1>5, NewsKept

(***************************************************************************)
(* Messages of the link, and its connection.                               *)
(***************************************************************************)
(* A message that is not the good news of a registration changes nothing   *)
(* about what is announced.                                                *)
LEMMA AnnouncedRest ==
  ASSUME NamesConstants, TypeOK, NEW a \in Server, NEW kind, NEW k,
         NextMessage(a, kind, k), ~(inbox[a][k].kind = "registered" /\ inbox[a][k].ok),
         UNCHANGED <<conn, gen, session>>, NEW s \in Server, Announced(s)'
  PROVE  Announced(s)
<1>1. CASE s # a
  BY <1>1, NextMessageDoes DEF Announced
<1>2. CASE s = a
  <2>1. /\ Cut(inbox'[a], inbox[a], k)
        /\ Len(inbox'[a]) \in Nat /\ Len(inbox[a]) \in Nat
    BY NextMessageDoes
  <2>2. ASSUME NEW i \in 1 .. Len(inbox[a])
        PROVE  ~(inbox[a][i].kind = "registered" /\ inbox[a][i].ok)
    <3>1. CASE i = k
      BY <3>1
    <3>2. CASE i # k
      <4>1. PICK j \in 1 .. Len(inbox'[a]) : inbox'[a][j] = inbox[a][i]
        BY <2>1, <3>2, CutKeeps
      <4> QED BY <4>1, <1>2 DEF Announced
    <3> QED BY <3>1, <3>2
  <2> QED BY <1>2, <2>2 DEF Announced
<1> QED BY <1>1, <1>2

LEMMA NamesMessage ==
  ASSUME NamesConstants, TypeOK, NamesInv, NEW a \in Server, NEW k,
         \/ ReceiveError(a, k) \/ ReceiveReplyNoRequest(a, k) \/ ReceiveReply(a, k)
         \/ ReceiveDisconnect(a, k)
  PROVE  NamesInv'
<1>1. UNCHANGED <<named, ops, m_map, packets, known, session, conn, gen, disturbed>>
  BY DEF ReceiveError, ReceiveReplyNoRequest, ReceiveReply, ReceiveDisconnect, serverVars,
         netVars, centerVars
<1>2. PICK kind \in {"error", "reply", "disconnect"} : NextMessage(a, kind, k)
  BY DEF ReceiveError, ReceiveReplyNoRequest, ReceiveReply, ReceiveDisconnect
<1>3. ~(inbox[a][k].kind = "registered" /\ inbox[a][k].ok)
  BY <1>2, NextMessageDoes
<1>4. \A s \in Server : Announced(s)' => Announced(s) /\ gen'[s] = gen[s]
  BY <1>1, <1>2, <1>3, AnnouncedRest
<1> QED BY <1>1, <1>4, NamesQuiet

LEMMA NamesReceiveRegister ==
  ASSUME NamesConstants, TypeOK, NamesInv, NEW a \in Server, NEW k,
         ReceiveRegister(a, k)
  PROVE  NamesInv'
<1>0. /\ NextMessage(a, "registered", k)
      /\ UNCHANGED <<named, ops, m_map, known, session, conn, gen, disturbed>>
      /\ inbox[a][k].ok => SendNames(a)
      /\ ~inbox[a][k].ok => UNCHANGED packets
  BY NextMessageDoes DEF ReceiveRegister, serverVars
<1>1. CASE ~inbox[a][k].ok
  <2>1. \A s \in Server : Announced(s)' => Announced(s) /\ gen'[s] = gen[s]
    BY <1>0, <1>1, AnnouncedRest
  <2> QED BY <1>0, <1>1, <2>1, NamesQuiet
<1>2. CASE inbox[a][k].ok
  <2> SUFFICES ASSUME NEW s \in Server, NEW n \in Name, <<s, n>> \notin disturbed'
               PROVE  NameInv(s, n)'
    BY DEF NamesInv
  <2> DEFINE p == [kind |-> "create", names |-> m_map[a]]
  <2>1. /\ p \in Packet /\ ~IsDelete(p, n) /\ (IsCreate(p, n) <=> n \in m_map[a])
        /\ IF m_map[a] = {} THEN UNCHANGED packets ELSE Send(a, p)
    BY <1>0, <1>2, PacketKinds DEF SendNames, IsCreate, IsDelete, TypeOK
  <2> HIDE DEF p
  <2>2. NameInv(s, n) /\ SameHolders(n)
    BY <1>0 DEF NamesInv, SameHolders, Telling
  <2>3. \A g \in Connection : Superseded(s, g) <=> Superseded(s, g)'
    BY <1>0 DEF Superseded
  <2>4. s # a => (Announced(s)' => Announced(s))
    BY <1>0, NextMessageDoes DEF Announced
  <2>5. CASE n \notin m_map[a]
    <3>1. \A o \in Server, g \in Connection :
            /\ Similar(packets'[o][g], packets[o][g], n)
            /\ HasCreate(packets[o][g], n) => HasCreate(packets'[o][g], n)
      BY <2>1, <2>5, SendSimilar, SameSimilar
    <3>2. CASE s # a
      <4>1. Announced(s)' => StillAnnounced(s, n)
        BY <1>0, <2>4, <3>1, <3>2, Elements DEF StillAnnounced
      <4> QED BY <2>2, <2>3, <3>1, <4>1, NewsKept
    <3>3. CASE s = a
      <4>1. OnlyOwner(s, n)' /\ LinkHas(s, n)'
        BY <2>2, <3>1 DEF NameInv, OnlyOwner, LinkHas, SameHolders, Similar
      <4>2. DeleteComes(s, n)
        BY <2>2, <2>5, <3>3 DEF NameInv
      <4>3. DeleteComes(s, n)'
        BY <4>2, <2>2, <2>3, <3>1 DEF DeleteComes, SameHolders, Similar
      <4> QED BY <1>0, <2>5, <3>3, <4>1, <4>3 DEF NameInv
    <3> QED BY <3>2, <3>3
  <2>6. CASE n \in m_map[a]
    <3>1. s = a
      BY <2>2, <2>6 DEF NameInv, OnlyOwner
    <3>2. IsCreate(p, n) /\ Send(s, p)
      BY <2>1, <2>6, <3>1
    <3>3. OnlyOwner(s, n)'
      <4>1. \A o \in Server \ {s} : packets'[o] = packets[o]
        BY <2>1, <3>2, SendDoes
      <4> QED BY <2>2, <4>1 DEF NameInv, OnlyOwner, SameHolders
    <3>4. LinkHas(s, n)'
      BY <2>2 DEF NameInv, LinkHas, SameHolders
    <3>5. Announced(s)' => CreateComes(s, n)'
      <4> SUFFICES ASSUME Announced(s)' PROVE CreateComes(s, n)'
        OBVIOUS
      <4>1. Reaches(s)
        BY <1>0 DEF Announced, Reaches, IsTransmit
      <4>2. /\ Longer(packets'[s][gen[s]], packets[s][gen[s]], p)
            /\ Len(packets[s][gen[s]]) \in Nat
        BY <2>1, <3>2, <4>1, SendDoes, Elements
      <4>3. HasCreate(packets'[s][gen[s]], n) /\ ~OpenDelete(packets'[s][gen[s]], n)
        BY <3>2, <4>2, LongerNews
      <4> QED BY <1>0, <4>3 DEF CreateComes
    <3> QED BY <1>0, <2>6, <3>1, <3>3, <3>4, <3>5 DEF NameInv
  <2> QED BY <2>5, <2>6
<1> QED BY <1>1, <1>2

LEMMA NamesConnection ==
  ASSUME NamesConstants, TypeOK, NamesInv, NEW a \in Server,
         \/ OnTimerCheckTimeout(a) \/ CheckConnect(a) \/ OnDisconnect(a) \/ ConnectFails(a)
  PROVE  NamesInv'
<1>1. UNCHANGED <<named, ops, m_map, packets, known, session, disturbed>>
  BY DEF OnTimerCheckTimeout, CheckConnect, OnDisconnect, ConnectFails, serverVars,
         centerVars
<1>2. CASE OnTimerCheckTimeout(a)
  <2>1. UNCHANGED <<conn, gen, inbox>>
    BY <1>2 DEF OnTimerCheckTimeout
  <2>2. \A s \in Server : Announced(s)' => Announced(s) /\ gen'[s] = gen[s]
    BY <1>1, <2>1 DEF Announced
  <2> QED BY <1>1, <2>2, NamesQuiet
<1>3. CASE CheckConnect(a) \/ OnDisconnect(a) \/ ConnectFails(a)
  <2>1. /\ conn'[a] # "up"
        /\ \A s \in Server : s # a => /\ conn'[s] = conn[s] /\ gen'[s] = gen[s]
                                      /\ inbox'[s] = inbox[s]
    BY <1>3 DEF CheckConnect, OnDisconnect, ConnectFails, TypeOK
  <2>2. \A s \in Server : Announced(s)' => Announced(s) /\ gen'[s] = gen[s]
    BY <1>1, <2>1 DEF Announced
  <2> QED BY <1>1, <2>2, NamesQuiet
<1> QED BY <1>2, <1>3

LEMMA NamesOnConnect ==
  ASSUME NamesConstants, TypeOK, SessionInv, NamesInv, NEW a \in Server, OnConnect(a)
  PROVE  NamesInv'
<1> SUFFICES ASSUME NEW s \in Server, NEW n \in Name, <<s, n>> \notin disturbed'
             PROVE  NameInv(s, n)'
  BY DEF NamesInv
<1>0. UNCHANGED <<named, ops, m_map, known, disturbed, gen, inbox>>
  BY OnConnectDoes
<1>1. NameInv(s, n) /\ SameHolders(n)
  BY <1>0 DEF NamesInv, SameHolders, Telling
<1>2. \A o \in Server, g \in Connection : Similar(packets'[o][g], packets[o][g], n)
  <2> TAKE o \in Server, g \in Connection
  <2>1. CASE o = a /\ g = gen[a]
    <3>1. \A i \in 1 .. Len(packets'[o][g]) : packets'[o][g][i].kind = "register"
      BY <2>1, OnConnectDoes
    <3>2. ~HasCreate(packets'[o][g], n) /\ ~HasDelete(packets'[o][g], n)
      BY <3>1 DEF HasCreate, HasDelete, IsCreate, IsDelete
    <3>3. ~HasDelete(packets[o][g], n)
      BY <2>1, OnConnectDoes, EmptyNews
    <3> QED BY <3>2, <3>3, OpenHas DEF Similar
  <2>2. CASE ~(o = a /\ g = gen[a])
    <3>1. packets'[o][g] = packets[o][g]
      BY <2>2, OnConnectDoes
    <3> QED BY <3>1, SameSimilar
  <2> QED BY <2>1, <2>2
<1>3. ASSUME NEW g \in Connection, Superseded(s, g)
      PROVE  Superseded(s, g)'
  <2>1. \A h \in Connection : session'[s][h] = session[s][h] \/ session[s][h] \in {"none", "new"}
    BY OnConnectDoes
  <2> QED BY <1>3, <2>1, SupersededKept
<1>4. Announced(s)' => StillAnnounced(s, n)
  <2>1. CASE s = a
    BY <1>0, <2>1, OnConnectDoes DEF Announced
  <2>2. CASE s # a
    <3>1. conn'[s] = conn[s] /\ session'[s] = session[s] /\ packets'[s] = packets[s]
      BY <2>2, OnConnectDoes
    <3> QED BY <1>0, <3>1 DEF Announced, StillAnnounced
  <2> QED BY <2>1, <2>2
<1> QED BY <1>1, <1>2, <1>3, <1>4, NewsKept

(***************************************************************************)
(* The gate.                                                               *)
(***************************************************************************)
LEMMA NamesRegister ==
  ASSUME NamesConstants, TypeOK, NamesInv, NEW a \in Server, NEW g \in Connection,
         NEW k, GateRegister(a, g, k)
  PROVE  NamesInv'
<1> SUFFICES ASSUME NEW s \in Server, NEW n \in Name, <<s, n>> \notin disturbed'
             PROVE  NameInv(s, n)'
  BY DEF NamesInv
<1> DEFINE m == [kind |-> "registered", ok |-> TRUE]
<1>0. /\ NextPacket(a, g, "register", k) /\ session' = [session EXCEPT ![a][g] = "bound"]
      /\ m \in Message /\ m.kind = "registered" /\ m.ok /\ Respond(a, g, m)
      /\ UNCHANGED <<named, ops, m_map, known, disturbed, conn, gen>>
  BY MessageKinds DEF GateRegister, serverVars, netVars
<1> HIDE DEF m
<1>1. NameInv(s, n) /\ SameHolders(n)
  BY <1>0 DEF NamesInv, SameHolders, Telling
<1>2. ~IsCreate(packets[a][g][k], n) /\ ~IsDelete(packets[a][g][k], n)
  BY <1>0, NextPacketDoes DEF IsCreate, IsDelete
<1>3. \A o \in Server, h \in Connection :
        /\ Similar(packets'[o][h], packets[o][h], n)
        /\ HasCreate(packets[o][h], n) => HasCreate(packets'[o][h], n)
  BY <1>0, <1>2, DropSimilar
<1>4. /\ session'[a][g] = "bound"
      /\ \A h \in Connection : h # g => session'[a][h] = session[a][h]
      /\ \A o \in Server : o # a => session'[o] = session[o]
  BY <1>0, SessionDoes
<1>5. ASSUME NEW h \in Connection, Superseded(s, h)
      PROVE  Superseded(s, h)'
  <2>1. \A c \in Connection : session'[s][c] = session[s][c] \/ session'[s][c] = "bound"
    BY <1>4
  <2> QED BY <1>5, <2>1, SupersededKept
<1>6. Announced(s)' => Announced(s)
  <2>1. CASE s # a
    BY <1>0, <1>4, <2>1, RespondDoes DEF Announced
  <2>2. CASE s = a /\ Live(a, g)
    <3>1. Longer(inbox'[a], inbox[a], m) /\ Len(inbox[a]) \in Nat
      BY <1>0, <2>2, RespondDoes, Elements
    <3>2. Len(inbox'[a]) \in 1 .. Len(inbox'[a]) /\ inbox'[a][Len(inbox'[a])] = m
      BY <3>1 DEF Longer
    <3> QED BY <1>0, <2>2, <3>2 DEF Announced
  <2>3. CASE s = a /\ ~Live(a, g)
    <3>1. inbox' = inbox /\ gen[s] \in Connection
      BY <1>0, <2>3, RespondDoes, Elements
    <3> QED BY <1>0, <1>4, <2>3, <3>1 DEF Announced, Live
  <2> QED BY <2>1, <2>2, <2>3
<1>7. Announced(s)' => StillAnnounced(s, n)
  BY <1>0, <1>3, <1>6, Elements DEF StillAnnounced
<1> QED BY <1>1, <1>3, <1>5, <1>7, NewsKept

(* A session is refused or ends. *)
LEMMA NamesClose ==
  ASSUME NamesConstants, TypeOK, NamesInv, NEW a \in Server, NEW g \in Connection,
         NEW k, GateRegisterRefused(a, g, k) \/ SessionEnds(a, g)
  PROVE  NamesInv'
<1> SUFFICES ASSUME NEW s \in Server, NEW n \in Name, <<s, n>> \notin disturbed'
             PROVE  NameInv(s, n)'
  BY DEF NamesInv
<1>0. /\ packets' = [packets EXCEPT ![a][g] = <<>>]
      /\ disturbed' = disturbed \cup Unread(a, g)
      /\ UNCHANGED <<named, ops, m_map, known, conn, gen>>
  BY DEF GateRegisterRefused, SessionEnds, serverVars, netVars
<1>1. NameInv(s, n) /\ SameHolders(n)
  BY <1>0 DEF NamesInv, SameHolders, Telling
<1>2. ~HasDelete(packets[a][g], n)
  <2>1. CASE s # a
    BY <1>1, <2>1 DEF NameInv, OnlyOwner
  <2>2. CASE s = a
    <3> SUFFICES ASSUME NEW i \in 1 .. Len(packets[a][g]), IsDelete(packets[a][g][i], n)
                 PROVE  FALSE
      BY DEF HasDelete
    <3>1. packets[a][g] \in Seq(Packet) /\ packets[a][g][i] \in Packet
      BY Elements
    <3>2. packets[a][g][i] = [kind |-> "delete", name |-> n]
      BY <3>1 DEF IsDelete, Packet
    <3>3. i \in DOMAIN packets[a][g]
      BY <3>1
    <3>4. <<a, n>> \in Unread(a, g)
      BY <3>2, <3>3 DEF Unread
    <3> QED BY <1>0, <2>2, <3>4
  <2> QED BY <2>1, <2>2
<1>3. /\ Len(packets'[a][g]) = 0
      /\ \A o \in Server : o # a => packets'[o] = packets[o]
      /\ \A h \in Connection : h # g => packets'[a][h] = packets[a][h]
  BY <1>0, EmptyDoes
<1>4. \A o \in Server, h \in Connection : Similar(packets'[o][h], packets[o][h], n)
  <2> TAKE o \in Server, h \in Connection
  <2>1. CASE o = a /\ h = g
    BY <1>2, <1>3, <2>1, EmptyNews DEF Similar
  <2>2. CASE ~(o = a /\ h = g)
    <3>1. packets'[o][h] = packets[o][h]
      BY <1>3, <2>2
    <3> QED BY <3>1, SameSimilar
  <2> QED BY <2>1, <2>2
<1>5. /\ session'[a][g] \in {"refused", "ended"}
      /\ \A h \in Connection : h # g => session'[a][h] = session[a][h]
      /\ \A o \in Server : o # a => session'[o] = session[o]
  <2>1. CASE GateRegisterRefused(a, g, k)
    <3>1. session' = [session EXCEPT ![a][g] = "refused"]
      BY <2>1 DEF GateRegisterRefused
    <3>2. /\ session'[a][g] = "refused"
          /\ \A h \in Connection : h # g => session'[a][h] = session[a][h]
          /\ \A o \in Server : o # a => session'[o] = session[o]
      BY <3>1, SessionDoes
    <3> QED BY <3>2
  <2>2. CASE SessionEnds(a, g)
    <3>1. session' = [session EXCEPT ![a][g] = "ended"]
      BY <2>2 DEF SessionEnds
    <3>2. /\ session'[a][g] = "ended"
          /\ \A h \in Connection : h # g => session'[a][h] = session[a][h]
          /\ \A o \in Server : o # a => session'[o] = session[o]
      <4>1. session \in [Server -> [Connection -> {"none", "new", "bound", "refused", "ended"}]]
        BY DEF TypeOK
      <4> QED BY <3>1, <4>1
    <3> QED BY <3>2
  <2> QED BY <2>1, <2>2
<1>6. ASSUME NEW h \in Connection, Superseded(s, h)
      PROVE  Superseded(s, h)'
  <2>1. \A c \in Connection : \/ session'[s][c] = session[s][c]
                              \/ session'[s][c] \in {"bound", "refused", "ended"}
    BY <1>5
  <2> QED BY <1>6, <2>1, SupersededKept
<1>7. ASSUME NEW i \in 1 .. Len(inbox[s])
      PROVE  i \in 1 .. Len(inbox'[s]) /\ inbox'[s][i] = inbox[s][i]
  <2>1. CASE GateRegisterRefused(a, g, k)
    <3> DEFINE m == [kind |-> "registered", ok |-> FALSE]
    <3>1. m \in Message /\ Respond(a, g, m)
      BY <2>1, MessageKinds DEF GateRegisterRefused
    <3> HIDE DEF m
    <3>2. inbox'[s] = inbox[s] \/ Longer(inbox'[s], inbox[s], m)
      BY <3>1, RespondDoes
    <3> QED BY <3>2, Elements DEF Longer
  <2>2. CASE SessionEnds(a, g)
    BY <2>2 DEF SessionEnds
  <2> QED BY <2>1, <2>2
<1>8. Announced(s)' => StillAnnounced(s, n)
  <2> SUFFICES ASSUME Announced(s)' PROVE StillAnnounced(s, n)
    OBVIOUS
  <2>1. ~(s = a /\ gen[s] = g) /\ gen[s] \in Connection
    BY <1>0, <1>5, Elements DEF Announced
  <2>2. session'[s][gen[s]] = session[s][gen[s]] /\ packets'[s][gen[s]] = packets[s][gen[s]]
    BY <1>3, <1>5, <2>1
  <2>3. Announced(s)
    BY <1>0, <1>7, <2>2 DEF Announced
  <2> QED BY <1>0, <2>2, <2>3 DEF StillAnnounced
<1> QED BY <1>1, <1>4, <1>6, <1>8, NewsKept

(* Packets of a session that was announced come from the present one.      *)
LEMMA NotSuperseded ==
  ASSUME NamesConstants, TypeOK, SessionInv, NEW s \in Server, NEW g \in Connection,
         Len(packets[s][g]) > 0, ~Superseded(s, g), session[s][gen[s]] = "bound"
  PROVE  g = gen[s]
<1>1. /\ gen[s] \in Connection /\ g \in Nat /\ gen[s] \in Nat
      /\ SessionOf(s, g)
  BY Elements DEF SessionInv
<1>2. ~(g > gen[s])
  BY <1>1 DEF SessionOf
<1>3. ~(g < gen[s])
  BY <1>1 DEF Superseded
<1> QED BY <1>1, <1>2, <1>3

LEMMA NamesCreate ==
  ASSUME NamesConstants, TypeOK, SessionInv, NamesInv,
         NEW a \in Server, NEW g \in Connection, NEW k, GateCreate(a, g, k)
  PROVE  NamesInv'
<1> SUFFICES ASSUME NEW s \in Server, NEW n \in Name, <<s, n>> \notin disturbed'
             PROVE  NameInv(s, n)'
  BY DEF NamesInv
<1> DEFINE p == packets[a][g][k]
<1>0. /\ NextPacket(a, g, "create", k)
      /\ p \in Packet /\ p.kind = "create" /\ p.names \subseteq Name
      /\ known'[n] = IF n \in p.names THEN a ELSE known[n]
      /\ disturbed \subseteq disturbed' /\ session[a][g] = "bound"
      /\ n \in p.names /\ s = a =>
           ~Superseded(a, g) /\ ~\E i \in 1 .. k - 1 : IsDelete(packets[a][g][i], n)
      /\ UNCHANGED <<named, ops, m_map, conn, gen, inbox, session>>
  <2>1. NextPacket(a, g, "create", k)
    BY DEF GateCreate
  <2>2. p \in Packet /\ p.kind = "create"
    BY <2>1, NextPacketDoes
  <2>3. p.names \subseteq Name
    BY <2>2, PacketKinds
  <2>4. n \in p.names /\ s = a =>
          ~Superseded(a, g) /\ ~\E i \in 1 .. k - 1 : IsDelete(packets[a][g][i], n)
    BY DEF GateCreate
  <2> QED BY <2>1, <2>2, <2>3, <2>4 DEF GateCreate, serverVars, netVars
<1>1. NameInv(s, n)
  BY <1>0 DEF NamesInv
<1>2. /\ ~IsDelete(p, n) /\ (IsCreate(p, n) <=> n \in p.names)
      /\ Cut(packets'[a][g], packets[a][g], k) /\ k \in 1 .. Len(packets[a][g])
      /\ Len(packets'[a][g]) \in Nat /\ Len(packets[a][g]) \in Nat
      /\ \A o \in Server : o # a => packets'[o] = packets[o]
      /\ \A h \in Connection : h # g => packets'[a][h] = packets[a][h]
  BY <1>0, NextPacketDoes DEF IsCreate, IsDelete
<1> HIDE DEF p
<1>3. (\A h \in Connection : Superseded(s, h)' <=> Superseded(s, h)) /\ Announced(s)' = Announced(s)
  BY <1>0 DEF Superseded, Announced
<1>4. CASE n \notin p.names
  <2>1. SameHolders(n)
    BY <1>0, <1>4 DEF SameHolders, Telling
  <2>2. \A o \in Server, h \in Connection :
          /\ Similar(packets'[o][h], packets[o][h], n)
          /\ HasCreate(packets[o][h], n) => HasCreate(packets'[o][h], n)
    BY <1>0, <1>2, <1>4, DropSimilar DEF p
  <2>3. Announced(s)' => StillAnnounced(s, n)
    BY <1>0, <1>3, <2>2, Elements DEF StillAnnounced
  <2> QED BY <1>1, <1>3, <2>1, <2>2, <2>3, NewsKept
<1>5. CASE n \in p.names
  <2>1. HasCreate(packets[a][g], n)
    BY <1>2, <1>5 DEF p, HasCreate
  <2>2. s = a
    BY <1>1, <2>1 DEF NameInv, OnlyOwner
  <2>3. known'[n] = s /\ ~Superseded(s, g)
    BY <1>0, <1>5, <2>2
  <2>7. /\ OpenCreate(packets'[s][g], n) => OpenCreate(packets[s][g], n)
        /\ OpenDelete(packets'[s][g], n) => OpenDelete(packets[s][g], n)
        /\ HasDelete(packets[s][g], n) => HasDelete(packets'[s][g], n)
        /\ ~OpenCreate(packets[s][g], n) => HasDelete(packets'[s][g], n)
    BY <1>0, <1>2, <1>5, <2>2, CutNews DEF p
  <2>4. OnlyOwner(s, n)' /\ LinkHas(s, n)'
    BY <1>0, <1>1, <1>2, <2>2, <2>3 DEF NameInv, OnlyOwner, LinkHas, Telling
  <2>5. ASSUME n \notin m_map[s]
        PROVE  DeleteComes(s, n)'
    <3>1. DeleteComes(s, n)
      BY <1>1, <2>5 DEF NameInv
    <3>3. \A h \in Connection : /\ OpenCreate(packets'[s][h], n) => OpenCreate(packets[s][h], n)
                                /\ HasDelete(packets[s][h], n) => HasDelete(packets'[s][h], n)
      BY <1>2, <2>2, <2>7
    <3>4. CASE OpenCreate(packets[s][g], n)
      <4>1. PICK h \in Connection : g < h /\ HasDelete(packets[s][h], n)
        BY <2>3, <3>1, <3>4 DEF DeleteComes
      <4> QED BY <1>3, <3>1, <3>3, <4>1 DEF DeleteComes
    <3>5. CASE ~OpenCreate(packets[s][g], n)
      <4>1. HasDelete(packets'[s][g], n)
        BY <2>7, <3>5
      <4> QED BY <1>3, <3>1, <3>3, <4>1 DEF DeleteComes
    <3> QED BY <3>4, <3>5
  <2>6. ASSUME n \in m_map[s], Announced(s)
        PROVE  CreateComes(s, n)'
    <3>1. CreateComes(s, n)
      BY <1>1, <2>6 DEF NameInv
    <3>2. g = gen[s]
      BY <1>2, <2>2, <2>3, <2>6, NotSuperseded DEF Announced
    <3>3. ~OpenDelete(packets'[s][gen[s]], n)
      BY <2>7, <3>1, <3>2 DEF CreateComes
    <3> QED BY <1>0, <2>3, <3>3 DEF CreateComes
  <2> QED BY <1>0, <1>3, <2>4, <2>5, <2>6 DEF NameInv
<1> QED BY <1>4, <1>5

LEMMA NamesDelete ==
  ASSUME NamesConstants, TypeOK, SessionInv, NamesInv,
         NEW a \in Server, NEW g \in Connection, NEW k, GateDelete(a, g, k)
  PROVE  NamesInv'
<1> SUFFICES ASSUME NEW s \in Server, NEW n \in Name, <<s, n>> \notin disturbed'
             PROVE  NameInv(s, n)'
  BY DEF NamesInv
<1> DEFINE p == packets[a][g][k]
<1>0. /\ NextPacket(a, g, "delete", k)
      /\ p \in Packet /\ p.kind = "delete" /\ p.name \in Name
      /\ known'[n] = IF n = p.name THEN None ELSE known[n]
      /\ disturbed \subseteq disturbed' /\ session[a][g] = "bound"
      /\ n = p.name /\ s = a =>
           ~Superseded(a, g) /\ ~\E i \in 1 .. k - 1 : IsCreate(packets[a][g][i], n)
      /\ UNCHANGED <<named, ops, m_map, conn, gen, inbox, session>>
  <2>1. NextPacket(a, g, "delete", k)
    BY DEF GateDelete
  <2>2. p \in Packet /\ p.kind = "delete"
    BY <2>1, NextPacketDoes
  <2>3. p.name \in Name
    BY <2>2, PacketKinds
  <2>4. known \in [Name -> Server \cup {Center, None}]
    BY DEF TypeOK
  <2>5. n = p.name /\ s = a =>
          ~Superseded(a, g) /\ ~\E i \in 1 .. k - 1 : IsCreate(packets[a][g][i], n)
    BY DEF GateDelete
  <2> QED BY <2>1, <2>2, <2>3, <2>4, <2>5 DEF GateDelete, serverVars, netVars
<1>1. NameInv(s, n)
  BY <1>0 DEF NamesInv
<1>2. /\ ~IsCreate(p, n) /\ (IsDelete(p, n) <=> n = p.name)
      /\ Cut(packets'[a][g], packets[a][g], k) /\ k \in 1 .. Len(packets[a][g])
      /\ Len(packets'[a][g]) \in Nat /\ Len(packets[a][g]) \in Nat
      /\ \A o \in Server : o # a => packets'[o] = packets[o]
      /\ \A h \in Connection : h # g => packets'[a][h] = packets[a][h]
  BY <1>0, NextPacketDoes DEF IsCreate, IsDelete
<1> HIDE DEF p
<1>3. (\A h \in Connection : Superseded(s, h)' <=> Superseded(s, h)) /\ Announced(s)' = Announced(s)
  BY <1>0 DEF Superseded, Announced
<1>4. CASE n # p.name
  <2>1. SameHolders(n)
    BY <1>0, <1>4 DEF SameHolders, Telling
  <2>2. \A o \in Server, h \in Connection :
          /\ Similar(packets'[o][h], packets[o][h], n)
          /\ HasCreate(packets[o][h], n) => HasCreate(packets'[o][h], n)
    BY <1>0, <1>2, <1>4, DropSimilar DEF p
  <2>3. Announced(s)' => StillAnnounced(s, n)
    BY <1>0, <1>3, <2>2, Elements DEF StillAnnounced
  <2> QED BY <1>1, <1>3, <2>1, <2>2, <2>3, NewsKept
<1>5. CASE n = p.name
  <2>0. IsDelete(packets[a][g][k], n)
    BY <1>2, <1>5 DEF p
  <2>1. HasDelete(packets[a][g], n)
    BY <1>2, <2>0 DEF HasDelete
  <2>2. s = a
    BY <1>1, <2>1 DEF NameInv, OnlyOwner
  <2>3. known'[n] = None /\ known'[n] # s /\ ~Superseded(s, g)
    BY <1>0, <1>5, <2>2 DEF NamesConstants
  <2>7. /\ OpenCreate(packets'[s][g], n) => OpenCreate(packets[s][g], n)
        /\ OpenDelete(packets'[s][g], n) => OpenDelete(packets[s][g], n)
        /\ ~OpenDelete(packets[s][g], n) => HasCreate(packets'[s][g], n)
    <3>1. ~IsCreate(packets[a][g][k], n) /\ ~\E i \in 1 .. k - 1 : IsCreate(packets[a][g][i], n)
      BY <1>0, <1>2, <1>5, <2>2 DEF p
    <3> QED BY <1>2, <2>0, <2>2, <3>1, CutNews
  <2>4. OnlyOwner(s, n)' /\ LinkHas(s, n)'
    BY <1>0, <1>1, <1>2, <2>2, <2>3 DEF NameInv, OnlyOwner, LinkHas, Telling
  <2>5. ASSUME n \notin m_map[s]
        PROVE  DeleteComes(s, n)'
    <3>1. DeleteComes(s, n)
      BY <1>1, <2>5 DEF NameInv
    <3>2. session[s][g] = "bound"
      BY <1>0, <2>2
    <3>4. ASSUME NEW h \in Connection, OpenCreate(packets'[s][h], n)
          PROVE  \/ Superseded(s, h)
                 \/ \E c \in Connection : h < c /\ HasDelete(packets'[s][c], n)
      <4>1. CASE Superseded(s, h)
        BY <4>1
      <4>2. CASE ~Superseded(s, h)
        <5>1. OpenCreate(packets[s][h], n)
          BY <1>2, <2>2, <2>7, <3>4
        <5>2. PICK c \in Connection : h < c /\ HasDelete(packets[s][c], n)
          BY <3>1, <4>2, <5>1 DEF DeleteComes
        <5>3. c # g
          BY <3>2, <4>2, <5>2 DEF Superseded
        <5>4. packets'[s][c] = packets[s][c]
          BY <1>2, <2>2, <5>3
        <5> QED BY <5>2, <5>4
      <4> QED BY <4>1, <4>2
    <3> QED BY <1>3, <2>3, <3>4 DEF DeleteComes
  <2>6. ASSUME n \in m_map[s], Announced(s)
        PROVE  CreateComes(s, n)'
    <3>1. CreateComes(s, n)
      BY <1>1, <2>6 DEF NameInv
    <3>2. g = gen[s]
      BY <1>2, <2>2, <2>3, <2>6, NotSuperseded DEF Announced
    <3>3. /\ ~OpenDelete(packets'[s][gen[s]], n)
          /\ HasCreate(packets'[s][gen[s]], n)
      BY <2>7, <3>1, <3>2 DEF CreateComes
    <3> QED BY <1>0, <3>3 DEF CreateComes
  <2> QED BY <1>0, <1>3, <2>4, <2>5, <2>6 DEF NameInv
<1> QED BY <1>4, <1>5

(* A creation or a deletion before the registration has no effect. *)
LEMMA NamesNoRegister ==
  ASSUME NamesConstants, TypeOK, NamesInv, NEW a \in Server, NEW g \in Connection,
         NEW k, GateNoRegister(a, g, k)
  PROVE  NamesInv'
<1> SUFFICES ASSUME NEW s \in Server, NEW n \in Name, <<s, n>> \notin disturbed'
             PROVE  NameInv(s, n)'
  BY DEF NamesInv
<1> DEFINE m == [kind |-> "error"]
<1> DEFINE p == packets[a][g][k]
<1>0. /\ session[a][g] = "new" /\ disturbed \subseteq disturbed'
      /\ IsDelete(p, n) => <<a, n>> \in disturbed'
      /\ m \in Message /\ Respond(a, g, m)
      /\ UNCHANGED <<named, ops, m_map, known, session, conn, gen>>
  BY MessageKinds DEF GateNoRegister, serverVars, netVars
<1>1. PICK kind \in {"create", "delete"} : NextPacket(a, g, kind, k)
  BY DEF GateNoRegister
<1>2. /\ Cut(packets'[a][g], packets[a][g], k) /\ k \in 1 .. Len(packets[a][g])
      /\ Len(packets'[a][g]) \in Nat /\ Len(packets[a][g]) \in Nat
      /\ \A o \in Server : o # a => packets'[o] = packets[o]
      /\ \A h \in Connection : h # g => packets'[a][h] = packets[a][h]
  BY <1>1, NextPacketDoes
<1> HIDE DEF m, p
<1>3. NameInv(s, n) /\ SameHolders(n)
  BY <1>0 DEF NamesInv, SameHolders, Telling
<1>4. (\A h \in Connection : Superseded(s, h)' <=> Superseded(s, h))
  BY <1>0 DEF Superseded
<1>5. \A i \in 1 .. Len(inbox[s]) : i \in 1 .. Len(inbox'[s]) /\ inbox'[s][i] = inbox[s][i]
  <2>1. inbox'[s] = inbox[s] \/ Longer(inbox'[s], inbox[s], m)
    BY <1>0, RespondDoes
  <2> QED BY <2>1, Elements DEF Longer
<1>6. Announced(s)' => Announced(s) /\ gen'[s] = gen[s] /\ gen[s] \in Connection
  BY <1>0, <1>5, Elements DEF Announced
<1>7. CASE ~IsCreate(p, n) /\ ~IsDelete(p, n)
  <2>1. \A o \in Server, h \in Connection :
          /\ Similar(packets'[o][h], packets[o][h], n)
          /\ HasCreate(packets[o][h], n) => HasCreate(packets'[o][h], n)
    BY <1>1, <1>7, DropSimilar DEF p
  <2>2. Announced(s)' => StillAnnounced(s, n)
    BY <1>6, <2>1 DEF StillAnnounced
  <2> QED BY <1>3, <1>4, <2>1, <2>2, NewsKept
<1>8. CASE IsDelete(p, n)
  <2>1. HasDelete(packets[a][g], n)
    BY <1>2, <1>8 DEF p, HasDelete
  <2>2. s = a
    BY <1>3, <2>1 DEF NameInv, OnlyOwner
  <2> QED BY <1>0, <1>8, <2>2
<1>9. CASE IsCreate(p, n) /\ ~IsDelete(p, n)
  <2>1. HasCreate(packets[a][g], n)
    BY <1>2, <1>9 DEF p, HasCreate
  <2>2. s = a
    BY <1>3, <2>1 DEF NameInv, OnlyOwner
  <2>3. OnlyOwner(s, n)' /\ LinkHas(s, n)'
    BY <1>2, <1>3, <2>2 DEF NameInv, OnlyOwner, LinkHas, SameHolders
  <2>4. \A h \in Connection : /\ OpenCreate(packets'[s][h], n) => OpenCreate(packets[s][h], n)
                              /\ HasDelete(packets[s][h], n) => HasDelete(packets'[s][h], n)
    <3>1. /\ OpenCreate(packets'[s][g], n) => OpenCreate(packets[s][g], n)
          /\ HasDelete(packets[s][g], n) => HasDelete(packets'[s][g], n)
      BY <1>2, <1>9, <2>2, CutNews DEF p
    <3> QED BY <1>2, <2>2, <3>1
  <2>5. DeleteComes(s, n) => DeleteComes(s, n)'
    BY <1>0, <1>4, <2>4 DEF DeleteComes
  <2>6. Announced(s)' => packets'[s][gen[s]] = packets[s][gen[s]]
    BY <1>0, <1>2, <1>6, <2>2 DEF Announced
  <2>7. Announced(s)' /\ CreateComes(s, n) => CreateComes(s, n)'
    BY <1>0, <2>6 DEF CreateComes
  <2> QED BY <1>0, <1>3, <1>6, <2>3, <2>5, <2>7 DEF NameInv
<1> QED BY <1>7, <1>8, <1>9

LEMMA NamesGet ==
  ASSUME NamesConstants, TypeOK, NamesInv, NEW a \in Server, NEW g \in Connection,
         NEW k, GateGetCtxIDByName(a, g, k)
  PROVE  NamesInv'
<1> SUFFICES ASSUME NEW s \in Server, NEW n \in Name, <<s, n>> \notin disturbed'
             PROVE  NameInv(s, n)'
  BY DEF NamesInv
<1> DEFINE m == [kind |-> "reply", look |-> packets[a][g][k].look, on |-> g]
<1>0. /\ NextPacket(a, g, "get", k)
      /\ UNCHANGED <<named, ops, m_map, known, session, disturbed, conn, gen>>
  BY DEF GateGetCtxIDByName, serverVars, netVars
<1>1. /\ packets[a][g][k] \in Packet /\ packets[a][g][k].kind = "get"
  BY <1>0, NextPacketDoes
<1>2. m \in Message /\ Respond(a, g, m)
  BY <1>1, MessageKinds, PacketKinds DEF GateGetCtxIDByName
<1> HIDE DEF m
<1>3. NameInv(s, n) /\ SameHolders(n)
  BY <1>0 DEF NamesInv, SameHolders, Telling
<1>4. \A o \in Server, h \in Connection :
        /\ Similar(packets'[o][h], packets[o][h], n)
        /\ HasCreate(packets[o][h], n) => HasCreate(packets'[o][h], n)
  <2>1. ~IsCreate(packets[a][g][k], n) /\ ~IsDelete(packets[a][g][k], n)
    BY <1>1 DEF IsCreate, IsDelete
  <2> QED BY <1>0, <2>1, DropSimilar
<1>5. \A h \in Connection : Superseded(s, h) => Superseded(s, h)'
  BY <1>0 DEF Superseded
<1>6. \A i \in 1 .. Len(inbox[s]) : i \in 1 .. Len(inbox'[s]) /\ inbox'[s][i] = inbox[s][i]
  <2>1. inbox'[s] = inbox[s] \/ Longer(inbox'[s], inbox[s], m)
    BY <1>2, RespondDoes
  <2> QED BY <2>1, Elements DEF Longer
<1>7. Announced(s)' => StillAnnounced(s, n)
  BY <1>0, <1>4, <1>6, Elements DEF Announced, StillAnnounced
<1> QED BY <1>3, <1>4, <1>5, <1>7, NewsKept

(* Names of the center. *)
LEMMA NamesSelf ==
  ASSUME NamesConstants, TypeOK, NamesInv, NEW m \in Name,
         SelfCtxRegister(m) \/ SelfCtxDelete(m)
  PROVE  NamesInv'
<1> SUFFICES ASSUME NEW s \in Server, NEW n \in Name, <<s, n>> \notin disturbed'
             PROVE  NameInv(s, n)'
  BY DEF NamesInv
<1>1. /\ disturbed' = disturbed \cup Others(Center, m)
      /\ \A k \in Name : k # m => known'[k] = known[k]
      /\ UNCHANGED <<named, ops, m_map, packets, session, conn, gen, inbox>>
  BY DEF SelfCtxRegister, SelfCtxDelete, serverVars, netVars, TypeOK
<1>2. n # m
  BY <1>1 DEF Others, NamesConstants
<1>3. NameInv(s, n) /\ SameHolders(n)
  BY <1>1, <1>2 DEF NamesInv, SameHolders, Telling
<1>4. \A o \in Server, g \in Connection : Similar(packets'[o][g], packets[o][g], n)
  BY <1>1, SameSimilar
<1>5. \A g \in Connection : Superseded(s, g) => Superseded(s, g)'
  BY <1>1 DEF Superseded
<1>6. Announced(s)' => StillAnnounced(s, n)
  BY <1>1 DEF Announced, StillAnnounced
<1> QED BY <1>3, <1>4, <1>5, <1>6, NewsKept

-----------------------------------------------------------------------------
(***************************************************************************)
(* Lookups: what happens to the queues.                                    *)
(***************************************************************************)
(* A message that has nothing to do with lookups. *)
IsNews(m) == m.kind \in {"registered", "error"}

(* The replies and the ends are the same. *)
BoxSimilar(t, q) ==
  /\ \A l \in Lookup : Replied(t, l) => Replied(q, l)
  /\ \A g \in Connection, l \in Lookup : HasReply(t, g, l) <=> HasReply(q, g, l)
  /\ \A g \in Connection, f, l \in Lookup : ReplyBefore(q, g, f, l) => ReplyBefore(t, g, f, l)
  /\ RepliesDiffer(q) => RepliesDiffer(t)
  /\ EndsFirst(q) => EndsFirst(t)
  /\ \A g \in Connection : EndBetween(q, g) => EndBetween(t, g)
  /\ HasEnd(q) => HasEnd(t)
  /\ \A m \in 1 .. Len(t) : IsNews(t[m]) \/ \E k \in 1 .. Len(q) : t[m] = q[k]

LEMMA SameBox ==
  ASSUME NEW q
  PROVE  BoxSimilar(q, q)
BY DEF BoxSimilar

LEMMA LongerBox ==
  ASSUME NEW t, NEW q, NEW e, Len(q) \in Nat, Longer(t, q, e), IsNews(e)
  PROVE  BoxSimilar(t, q)
<1> DEFINE z == Len(q) + 1
<1>1. /\ z \in 1 .. Len(t) /\ IsNews(t[z])
      /\ \A i \in 1 .. Len(q) : i \in 1 .. Len(t) /\ t[i] = q[i]
      /\ \A i \in 1 .. Len(t) : i = z \/ i \in 1 .. Len(q)
  BY DEF Longer
<1> HIDE DEF z
<1>2. \A i \in 1 .. Len(t) : ~IsNews(t[i]) => i \in 1 .. Len(q) /\ t[i] = q[i]
  BY <1>1
<1>3. ASSUME NEW g, NEW l
      PROVE  (Replied(t, l) => Replied(q, l)) /\ (HasReply(t, g, l) <=> HasReply(q, g, l))
  BY <1>1, <1>2 DEF Replied, HasReply, IsReply, IsNews
<1>4. ASSUME NEW g, NEW f, NEW l, ReplyBefore(q, g, f, l)
      PROVE  ReplyBefore(t, g, f, l)
  BY <1>1, <1>2, <1>4 DEF ReplyBefore, IsReply, IsNews
<1>5. (RepliesDiffer(q) => RepliesDiffer(t)) /\ (EndsFirst(q) => EndsFirst(t))
  BY <1>1, <1>2 DEF RepliesDiffer, EndsFirst, IsEnd, IsNews
<1>6. ASSUME NEW g, EndBetween(q, g)
      PROVE  EndBetween(t, g)
  BY <1>1, <1>2, <1>6 DEF EndBetween, IsEnd, IsNews
<1>7. HasEnd(q) => HasEnd(t)
  BY <1>1 DEF HasEnd
<1> QED BY <1>1, <1>3, <1>4, <1>5, <1>6, <1>7 DEF BoxSimilar

LEMMA CutBox ==
  ASSUME NEW t, NEW q, NEW k, Len(q) \in Nat, Len(t) \in Nat, Cut(t, q, k), IsNews(q[k])
  PROVE  BoxSimilar(t, q)
<1>1. /\ \A i \in 1 .. Len(t) : Up(i, k) \in 1 .. Len(q) /\ t[i] = q[Up(i, k)]
      /\ \A i, j \in 1 .. Len(t) : i < j <=> Up(i, k) < Up(j, k)
      /\ \A i \in 1 .. Len(q) : ~IsNews(q[i]) => /\ Down(i, k) \in 1 .. Len(t)
                                                /\ t[Down(i, k)] = q[i]
                                                /\ Up(Down(i, k), k) = i
  BY CutPlaces
<1>3. ASSUME NEW g, NEW l
      PROVE  (Replied(t, l) => Replied(q, l)) /\ (HasReply(t, g, l) <=> HasReply(q, g, l))
  BY <1>1 DEF Replied, HasReply, IsReply, IsNews
<1>4. ASSUME NEW g, NEW f, NEW l, ReplyBefore(q, g, f, l)
      PROVE  ReplyBefore(t, g, f, l)
  <2> SUFFICES ASSUME NEW i \in 1 .. Len(t), IsReply(t[i], g), t[i].look = l
               PROVE  \E m \in 1 .. Len(t) : m < i /\ IsReply(t[m], g) /\ t[m].look = f
    BY DEF ReplyBefore
  <2>1. PICK m \in 1 .. Len(q) : m < Up(i, k) /\ IsReply(q[m], g) /\ q[m].look = f
    BY <1>1, <1>4 DEF ReplyBefore
  <2>2. Down(m, k) \in 1 .. Len(t) /\ t[Down(m, k)] = q[m] /\ Down(m, k) < i
    BY <1>1, <2>1 DEF IsReply, IsNews
  <2> QED BY <2>1, <2>2
<1>5. (RepliesDiffer(q) => RepliesDiffer(t)) /\ (EndsFirst(q) => EndsFirst(t))
  <2>1. \A m, j \in 1 .. Len(t) : m < j =>
          /\ Up(m, k) \in 1 .. Len(q) /\ Up(j, k) \in 1 .. Len(q) /\ Up(m, k) < Up(j, k)
          /\ t[m] = q[Up(m, k)] /\ t[j] = q[Up(j, k)]
    BY <1>1
  <2>2. RepliesDiffer(q) => RepliesDiffer(t)
    BY <2>1 DEF RepliesDiffer
  <2>3. EndsFirst(q) => EndsFirst(t)
    BY <2>1 DEF EndsFirst
  <2> QED BY <2>2, <2>3
<1>6. ASSUME NEW g, EndBetween(q, g)
      PROVE  EndBetween(t, g)
  <2> SUFFICES ASSUME NEW i \in 1 .. Len(t), t[i].kind = "reply", g < t[i].on
               PROVE  \E d \in 1 .. Len(t) : d < i /\ IsEnd(t[d])
    BY DEF EndBetween
  <2>1. PICK d \in 1 .. Len(q) : d < Up(i, k) /\ IsEnd(q[d])
    BY <1>1, <1>6 DEF EndBetween
  <2>2. Down(d, k) \in 1 .. Len(t) /\ t[Down(d, k)] = q[d] /\ Down(d, k) < i
    BY <1>1, <2>1 DEF IsEnd, IsNews
  <2> QED BY <2>1, <2>2
<1>7. HasEnd(q) => HasEnd(t)
  BY <1>1 DEF HasEnd, IsEnd, IsNews
<1>8. \A m \in 1 .. Len(t) : \E j \in 1 .. Len(q) : t[m] = q[j]
  BY <1>1
<1> QED BY <1>3, <1>4, <1>5, <1>6, <1>7, <1>8 DEF BoxSimilar

(* No get has come into the queue of a session, and what is left is in the *)
(* same order.                                                             *)
GetsSimilar(t, q) ==
  /\ \A l \in Lookup : HasGet(t, l) => HasGet(q, l)
  /\ \A f, l \in Lookup : GetBefore(q, f, l) => GetBefore(t, f, l)
  /\ GetsDiffer(q) => GetsDiffer(t)

LEMMA SameGets ==
  ASSUME NEW q
  PROVE  GetsSimilar(q, q)
BY DEF GetsSimilar

LEMMA LongerGets ==
  ASSUME NEW t, NEW q, NEW e, Len(q) \in Nat, Longer(t, q, e), e.kind # "get"
  PROVE  GetsSimilar(t, q) /\ \A l \in Lookup : HasGet(q, l) => HasGet(t, l)
<1>1. /\ \A i \in 1 .. Len(q) : i \in 1 .. Len(t) /\ t[i] = q[i]
      /\ \A i \in 1 .. Len(t) : t[i].kind = "get" => i \in 1 .. Len(q) /\ t[i] = q[i]
  BY DEF Longer
<1>2. \A l \in Lookup : HasGet(t, l) <=> HasGet(q, l)
  BY <1>1 DEF HasGet, IsGet
<1>3. ASSUME NEW f, NEW l, GetBefore(q, f, l)
      PROVE  GetBefore(t, f, l)
  BY <1>1, <1>3 DEF GetBefore, IsGet
<1>4. GetsDiffer(q) => GetsDiffer(t)
  BY <1>1 DEF GetsDiffer
<1> QED BY <1>2, <1>3, <1>4 DEF GetsSimilar

LEMMA CutGets ==
  ASSUME NEW t, NEW q, NEW k, Len(q) \in Nat, Len(t) \in Nat, Cut(t, q, k), q[k].kind # "get"
  PROVE  GetsSimilar(t, q) /\ \A l \in Lookup : HasGet(q, l) => HasGet(t, l)
<1>1. /\ \A i \in 1 .. Len(t) : Up(i, k) \in 1 .. Len(q) /\ t[i] = q[Up(i, k)]
      /\ \A i, j \in 1 .. Len(t) : i < j <=> Up(i, k) < Up(j, k)
      /\ \A i \in 1 .. Len(q) : q[i].kind = "get" => /\ Down(i, k) \in 1 .. Len(t)
                                                    /\ t[Down(i, k)] = q[i]
                                                    /\ Up(Down(i, k), k) = i
  BY CutPlaces
<1>2. ASSUME NEW l
      PROVE  HasGet(t, l) <=> HasGet(q, l)
  <2>1. HasGet(t, l) => HasGet(q, l)
    BY <1>1 DEF HasGet, IsGet
  <2>2. HasGet(q, l) => HasGet(t, l)
    BY <1>1 DEF HasGet, IsGet
  <2> QED BY <2>1, <2>2
<1>3. ASSUME NEW f, NEW l, GetBefore(q, f, l)
      PROVE  GetBefore(t, f, l)
  <2> SUFFICES ASSUME NEW i \in 1 .. Len(t), IsGet(t[i], l)
               PROVE  \E m \in 1 .. Len(t) : m < i /\ IsGet(t[m], f)
    BY DEF GetBefore
  <2>1. PICK m \in 1 .. Len(q) : m < Up(i, k) /\ IsGet(q[m], f)
    BY <1>1, <1>3 DEF GetBefore
  <2>2. Down(m, k) \in 1 .. Len(t) /\ t[Down(m, k)] = q[m] /\ Down(m, k) < i
    BY <1>1, <2>1 DEF IsGet
  <2> QED BY <2>1, <2>2
<1>4. GetsDiffer(q) => GetsDiffer(t)
  BY <1>1 DEF GetsDiffer
<1> QED BY <1>2, <1>3, <1>4 DEF GetsSimilar

LEMMA EmptyGets ==
  ASSUME NEW t, NEW q, \A i \in 1 .. Len(t) : t[i].kind # "get"
  PROVE  GetsSimilar(t, q) /\ \A l \in Lookup : ~HasGet(t, l)
BY DEF GetsSimilar, HasGet, IsGet, GetBefore, GetsDiffer

(* The list, the replies and the gets are the same. *)
LEMMA LookupKept ==
  ASSUME NamesConstants, TypeOK, NEW s \in Server, LookupInv(s),
         m_vtRequest'[s] = m_vtRequest[s], conn'[s] = conn[s], gen'[s] = gen[s],
         \A l \in Lookup : pc[l] # "idle" => pc'[l] # "idle",
         BoxSimilar(inbox'[s], inbox[s]),
         conn[s] = "up" => GetsSimilar(packets'[s][gen[s]], packets[s][gen[s]]),
         Reaches(s)' => /\ Reaches(s)
                        /\ \A l \in Lookup : HasGet(packets[s][gen[s]], l) =>
                                               HasGet(packets'[s][gen[s]], l)
  PROVE  LookupInv(s)'
<1>0. /\ \A i \in 1 .. Len(m_vtRequest[s]) :
           m_vtRequest[s][i].look \in Lookup /\ m_vtRequest[s][i].on \in Connection
      /\ gen[s] \in Connection
  BY Elements
<1>1. ListInv(s)'
  BY <1>0 DEF LookupInv, ListInv
<1>2. BoxInv(s)'
  BY DEF LookupInv, BoxInv, BoxSimilar, IsEnd, IsNews
<1>3. GetInv(s)'
  BY DEF LookupInv, GetInv, BoxSimilar, GetsSimilar
<1>4. EndInv(s)'
  BY <1>0 DEF LookupInv, EndInv, BoxSimilar, Live
<1>5. InOrder(s)'
  <2> SUFFICES ASSUME NEW i \in 1 .. Len(m_vtRequest[s]), NEW j \in 1 .. Len(m_vtRequest[s]),
                      i < j, m_vtRequest[s][i].on = m_vtRequest[s][j].on,
                      NEW g, g = m_vtRequest[s][j].on,
                      NEW f, f = m_vtRequest[s][i].look,
                      NEW l, l = m_vtRequest[s][j].look
               PROVE  /\ ReplyBefore(inbox'[s], g, f, l)
                      /\ Live(s, g)' => HasReply(inbox'[s], g, f) \/ GetBefore(packets'[s][g], f, l)
    BY DEF InOrder
  <2>1. /\ g \in Connection /\ f \in Lookup /\ l \in Lookup
        /\ ReplyBefore(inbox[s], g, f, l)
        /\ Live(s, g) => HasReply(inbox[s], g, f) \/ GetBefore(packets[s][g], f, l)
    BY <1>0 DEF LookupInv, InOrder
  <2>2. ReplyBefore(inbox'[s], g, f, l)
    BY <2>1 DEF BoxSimilar
  <2>3. Live(s, g)' => HasReply(inbox'[s], g, f) \/ GetBefore(packets'[s][g], f, l)
    BY <2>1 DEF BoxSimilar, GetsSimilar, Live
  <2> QED BY <2>2, <2>3
<1>6. AllPending(s)'
  BY <1>0 DEF LookupInv, AllPending, Pending, BoxSimilar, Live
<1>7. AllListed(s)'
  BY <1>0 DEF LookupInv, AllListed, Listed, Pending, BoxSimilar, GetsSimilar, Live
<1> QED BY <1>1, <1>2, <1>3, <1>4, <1>5, <1>6, <1>7 DEF LookupInv

LookupSame(s) ==
  /\ m_vtRequest'[s] = m_vtRequest[s] /\ conn'[s] = conn[s] /\ gen'[s] = gen[s]
  /\ BoxSimilar(inbox'[s], inbox[s])
  /\ conn[s] = "up" => GetsSimilar(packets'[s][gen[s]], packets[s][gen[s]])
  /\ Reaches(s)' => /\ Reaches(s)
                    /\ \A l \in Lookup : HasGet(packets[s][gen[s]], l) =>
                                           HasGet(packets'[s][gen[s]], l)

LEMMA LookupsKept ==
  ASSUME NamesConstants, TypeOK, LookupsInv, UNCHANGED <<overtaken, ret>>,
         \A l \in Lookup : pc[l] # "idle" => pc'[l] # "idle",
         \A s \in Server : LookupSame(s)
  PROVE  LookupsInv'
<1> SUFFICES ASSUME ~overtaken
             PROVE  /\ \A s \in Server : LookupInv(s)'
                    /\ \A l \in Lookup : ret'[l] # "foreign"
  BY DEF LookupsInv
<1>1. ASSUME NEW s \in Server
      PROVE  LookupInv(s)'
  <2>1. LookupInv(s) /\ LookupSame(s)
    BY DEF LookupsInv
  <2> QED BY <2>1, LookupKept DEF LookupSame
<1> QED BY <1>1 DEF LookupsInv

(* Nothing that has to do with lookups happens. *)
LEMMA LookupsQuiet ==
  ASSUME NamesConstants, TypeOK, LookupsInv,
         UNCHANGED <<m_vtRequest, pc, ret, conn, gen, inbox, session, packets, overtaken>>
  PROVE  LookupsInv'
<1>1. \A s \in Server : LookupSame(s)
  BY SameBox, SameGets DEF LookupSame, Reaches, IsTransmit
<1> QED BY <1>1, LookupsKept

(* Packets that are not lookups. *)
LEMMA SendKeepsGets ==
  ASSUME NamesConstants, TypeOK, NEW a \in Server, NEW p \in Packet, p.kind # "get",
         Send(a, p) \/ UNCHANGED packets
  PROVE  \A o \in Server, g \in Connection :
           /\ GetsSimilar(packets'[o][g], packets[o][g])
           /\ \A l \in Lookup : HasGet(packets[o][g], l) => HasGet(packets'[o][g], l)
<1> TAKE o \in Server, g \in Connection
<1>1. CASE packets'[o][g] = packets[o][g]
  BY <1>1, SameGets
<1>2. CASE packets'[o][g] # packets[o][g]
  <2>1. Longer(packets'[o][g], packets[o][g], p) /\ Len(packets[o][g]) \in Nat
    BY <1>2, SendDoes, Elements
  <2> QED BY <2>1, LongerGets
<1> QED BY <1>1, <1>2

LEMMA DropKeepsGets ==
  ASSUME NamesConstants, TypeOK, NEW a \in Server, NEW g \in Connection, NEW kind, NEW k,
         NextPacket(a, g, kind, k), kind # "get"
  PROVE  \A o \in Server, h \in Connection :
           /\ GetsSimilar(packets'[o][h], packets[o][h])
           /\ \A l \in Lookup : HasGet(packets[o][h], l) => HasGet(packets'[o][h], l)
<1> TAKE o \in Server, h \in Connection
<1>1. CASE o = a /\ h = g
  <2>1. /\ Cut(packets'[o][h], packets[o][h], k) /\ packets[o][h][k].kind # "get"
        /\ Len(packets'[o][h]) \in Nat /\ Len(packets[o][h]) \in Nat
    BY <1>1, NextPacketDoes
  <2> QED BY <2>1, CutGets
<1>2. CASE ~(o = a /\ h = g)
  <2>1. packets'[o][h] = packets[o][h]
    BY <1>2, NextPacketDoes
  <2> QED BY <2>1, SameGets
<1> QED BY <1>1, <1>2

LEMMA LookupsMaps ==
  ASSUME NamesConstants, TypeOK, LookupsInv, NEW a \in Server, NEW n \in Name,
         CreateMap(a, n) \/ DelMap(a, n)
  PROVE  LookupsInv'
<1>1. /\ UNCHANGED <<m_vtRequest, pc, ret, conn, gen, inbox, session, overtaken>>
      /\ \E p \in Packet : p.kind # "get" /\ (Send(a, p) \/ UNCHANGED packets)
  <2>1. CASE CreateMap(a, n)
    <3>1. [kind |-> "create", names |-> {n}] \in Packet
      BY PacketKinds
    <3> QED BY <2>1, <3>1 DEF CreateMap, lookVars, netVars
  <2>2. CASE DelMap(a, n)
    <3>1. [kind |-> "delete", name |-> n] \in Packet
      BY PacketKinds
    <3> QED BY <2>2, <3>1 DEF DelMap, lookVars, netVars
  <2> QED BY <2>1, <2>2
<1>2. \A o \in Server, g \in Connection :
        /\ GetsSimilar(packets'[o][g], packets[o][g])
        /\ \A l \in Lookup : HasGet(packets[o][g], l) => HasGet(packets'[o][g], l)
  BY <1>1, SendKeepsGets
<1>3. \A s \in Server : LookupSame(s)
  BY <1>1, <1>2, SameBox, Elements DEF LookupSame, Reaches, IsTransmit
<1> QED BY <1>1, <1>3, LookupsKept

LEMMA LookupsReceiveRegister ==
  ASSUME NamesConstants, TypeOK, LookupsInv, NEW a \in Server, NEW k,
         ReceiveRegister(a, k)
  PROVE  LookupsInv'
<1>1. /\ NextMessage(a, "registered", k)
      /\ UNCHANGED <<m_vtRequest, pc, ret, conn, gen, session, overtaken>>
      /\ \E p \in Packet : p.kind # "get" /\ (Send(a, p) \/ UNCHANGED packets)
  <2>1. [kind |-> "create", names |-> m_map[a]] \in Packet
    BY PacketKinds DEF TypeOK
  <2> QED BY <2>1 DEF ReceiveRegister, SendNames, lookVars
<1>2. \A o \in Server, g \in Connection :
        /\ GetsSimilar(packets'[o][g], packets[o][g])
        /\ \A l \in Lookup : HasGet(packets[o][g], l) => HasGet(packets'[o][g], l)
  BY <1>1, SendKeepsGets
<1>3. ASSUME NEW o \in Server
      PROVE  BoxSimilar(inbox'[o], inbox[o])
  <2>1. CASE o = a
    BY <1>1, <2>1, NextMessageDoes, CutBox DEF IsNews
  <2>2. CASE o # a
    BY <1>1, <2>2, NextMessageDoes, SameBox
  <2> QED BY <2>1, <2>2
<1>4. \A s \in Server : LookupSame(s)
  BY <1>1, <1>2, <1>3, Elements DEF LookupSame, Reaches, IsTransmit
<1> QED BY <1>1, <1>4, LookupsKept

LEMMA LookupsError ==
  ASSUME NamesConstants, TypeOK, LookupsInv, NEW a \in Server, NEW k, ReceiveError(a, k)
  PROVE  LookupsInv'
<1>1. /\ NextMessage(a, "error", k)
      /\ UNCHANGED <<m_vtRequest, pc, ret, conn, gen, session, packets, overtaken>>
  BY DEF ReceiveError, lookVars, centerVars
<1>2. ASSUME NEW o \in Server
      PROVE  BoxSimilar(inbox'[o], inbox[o])
  <2>1. CASE o = a
    BY <1>1, <2>1, NextMessageDoes, CutBox DEF IsNews
  <2>2. CASE o # a
    BY <1>1, <2>2, NextMessageDoes, SameBox
  <2> QED BY <2>1, <2>2
<1>3. \A s \in Server : LookupSame(s)
  BY <1>1, <1>2, SameGets DEF LookupSame, Reaches, IsTransmit
<1> QED BY <1>1, <1>3, LookupsKept

(* The gate: an answer that is not to a lookup. *)
LEMMA RespondBox ==
  ASSUME NamesConstants, TypeOK, NEW a \in Server, NEW g \in Connection,
         NEW m \in Message, IsNews(m), Respond(a, g, m)
  PROVE  \A o \in Server : BoxSimilar(inbox'[o], inbox[o])
<1> TAKE o \in Server
<1>1. CASE inbox'[o] = inbox[o]
  BY <1>1, SameBox
<1>2. CASE inbox'[o] # inbox[o]
  <2>1. Longer(inbox'[o], inbox[o], m) /\ Len(inbox[o]) \in Nat
    BY <1>2, RespondDoes, Elements
  <2> QED BY <2>1, LongerBox
<1> QED BY <1>1, <1>2

LEMMA LookupsRegister ==
  ASSUME NamesConstants, TypeOK, LookupsInv, NEW a \in Server, NEW g \in Connection,
         NEW k, GateRegister(a, g, k)
  PROVE  LookupsInv'
<1> DEFINE m == [kind |-> "registered", ok |-> TRUE]
<1>1. /\ NextPacket(a, g, "register", k) /\ session' = [session EXCEPT ![a][g] = "bound"]
      /\ m \in Message /\ IsNews(m) /\ Respond(a, g, m)
      /\ UNCHANGED <<m_vtRequest, pc, ret, conn, gen, overtaken>>
  BY MessageKinds DEF GateRegister, lookVars, netVars, IsNews
<1> HIDE DEF m
<1>2. \A o \in Server, h \in Connection :
        /\ GetsSimilar(packets'[o][h], packets[o][h])
        /\ \A l \in Lookup : HasGet(packets[o][h], l) => HasGet(packets'[o][h], l)
  BY <1>1, DropKeepsGets
<1>3. \A o \in Server : BoxSimilar(inbox'[o], inbox[o])
  BY <1>1, RespondBox
<1>4. \A o \in Server, h \in Connection : session'[o][h] = session[o][h] \/ session[o][h] # "refused"
  <2>1. session[a][g] # "refused"
    BY <1>1, NextPacketDoes
  <2>2. /\ \A h \in Connection : h # g => session'[a][h] = session[a][h]
        /\ \A o \in Server : o # a => session'[o] = session[o]
    BY <1>1, SessionDoes
  <2> QED BY <2>1, <2>2
<1>5. \A s \in Server : LookupSame(s)
  BY <1>1, <1>2, <1>3, <1>4, Elements DEF LookupSame, Reaches, IsTransmit
<1> QED BY <1>1, <1>5, LookupsKept

LEMMA LookupsRefused ==
  ASSUME NamesConstants, TypeOK, LookupsInv, NEW a \in Server, NEW g \in Connection,
         NEW k, GateRegisterRefused(a, g, k)
  PROVE  LookupsInv'
<1> DEFINE m == [kind |-> "registered", ok |-> FALSE]
<1>1. /\ packets' = [packets EXCEPT ![a][g] = <<>>]
      /\ session' = [session EXCEPT ![a][g] = "refused"]
      /\ m \in Message /\ IsNews(m) /\ Respond(a, g, m)
      /\ UNCHANGED <<m_vtRequest, pc, ret, conn, gen, overtaken>>
  BY MessageKinds DEF GateRegisterRefused, lookVars, IsNews
<1> HIDE DEF m
<1>2. /\ Len(packets'[a][g]) = 0
      /\ \A o \in Server : o # a => packets'[o] = packets[o]
      /\ \A h \in Connection : h # g => packets'[a][h] = packets[a][h]
  BY <1>1, EmptyDoes
<1>3. \A o \in Server : BoxSimilar(inbox'[o], inbox[o])
  BY <1>1, RespondBox
<1>4. /\ session'[a][g] = "refused"
      /\ \A h \in Connection : h # g => session'[a][h] = session[a][h]
      /\ \A o \in Server : o # a => session'[o] = session[o]
  <2>1. session \in [Server -> [Connection -> {"none", "new", "bound", "refused", "ended"}]]
    BY DEF TypeOK
  <2> QED BY <1>1, <2>1
<1>5. ASSUME NEW s \in Server
      PROVE  LookupSame(s)
  <2>0. gen[s] \in Connection
    BY Elements
  <2>1. CASE s = a /\ gen[s] = g
    <3>1. \A i \in 1 .. Len(packets'[a][g]) : packets'[a][g][i].kind # "get"
      BY <1>2
    <3>2. GetsSimilar(packets'[a][g], packets[a][g])
      BY <3>1, EmptyGets
    <3>3. ~Reaches(s)'
      BY <1>1, <1>4, <2>1 DEF Reaches
    <3> QED BY <1>1, <1>3, <2>1, <3>2, <3>3 DEF LookupSame
  <2>2. CASE ~(s = a /\ gen[s] = g)
    <3>1. packets'[s][gen[s]] = packets[s][gen[s]] /\ session'[s][gen[s]] = session[s][gen[s]]
      BY <1>2, <1>4, <2>0, <2>2
    <3> QED BY <1>1, <1>3, <3>1, SameGets DEF LookupSame, Reaches, IsTransmit
  <2> QED BY <2>1, <2>2
<1> QED BY <1>1, <1>5, LookupsKept

LEMMA LookupsEnds ==
  ASSUME NamesConstants, TypeOK, LookupsInv, NEW a \in Server, NEW g \in Connection,
         SessionEnds(a, g)
  PROVE  LookupsInv'
<1>1. /\ packets' = [packets EXCEPT ![a][g] = <<>>]
      /\ session' = [session EXCEPT ![a][g] = "ended"]
      /\ ~(conn[a] = "up" /\ gen[a] = g)
      /\ UNCHANGED <<m_vtRequest, pc, ret, conn, gen, inbox, overtaken>>
  BY DEF SessionEnds, lookVars, netVars
<1>2. /\ \A o \in Server : o # a => packets'[o] = packets[o]
      /\ \A h \in Connection : h # g => packets'[a][h] = packets[a][h]
  BY <1>1, EmptyDoes
<1>3. /\ \A h \in Connection : h # g => session'[a][h] = session[a][h]
      /\ \A o \in Server : o # a => session'[o] = session[o]
  <2>1. session \in [Server -> [Connection -> {"none", "new", "bound", "refused", "ended"}]]
    BY DEF TypeOK
  <2> QED BY <1>1, <2>1
<1>4. ASSUME NEW s \in Server
      PROVE  LookupSame(s)
  <2>1. conn[s] = "up" => /\ packets'[s][gen[s]] = packets[s][gen[s]]
                          /\ session'[s][gen[s]] = session[s][gen[s]]
    BY <1>1, <1>2, <1>3, Elements
  <2>2. BoxSimilar(inbox'[s], inbox[s])
    BY <1>1, SameBox
  <2> QED BY <1>1, <2>1, <2>2, SameGets DEF LookupSame, Reaches, IsTransmit
<1> QED BY <1>1, <1>4, LookupsKept

LEMMA LookupsNews ==
  ASSUME NamesConstants, TypeOK, LookupsInv, NEW a \in Server, NEW g \in Connection,
         NEW k, GateCreate(a, g, k) \/ GateDelete(a, g, k)
  PROVE  LookupsInv'
<1>1. /\ NextPacket(a, g, "create", k) \/ NextPacket(a, g, "delete", k)
      /\ UNCHANGED <<m_vtRequest, pc, ret, conn, gen, inbox, session, overtaken>>
  BY DEF GateCreate, GateDelete, lookVars, netVars
<1>2. \A o \in Server, h \in Connection :
        /\ GetsSimilar(packets'[o][h], packets[o][h])
        /\ \A l \in Lookup : HasGet(packets[o][h], l) => HasGet(packets'[o][h], l)
  BY <1>1, DropKeepsGets
<1>3. \A s \in Server : LookupSame(s)
  BY <1>1, <1>2, SameBox, Elements DEF LookupSame, Reaches, IsTransmit
<1> QED BY <1>1, <1>3, LookupsKept

LEMMA LookupsNoRegister ==
  ASSUME NamesConstants, TypeOK, LookupsInv, NEW a \in Server, NEW g \in Connection,
         NEW k, GateNoRegister(a, g, k)
  PROVE  LookupsInv'
<1> DEFINE m == [kind |-> "error"]
<1>1. /\ NextPacket(a, g, "create", k) \/ NextPacket(a, g, "delete", k)
      /\ m \in Message /\ IsNews(m) /\ Respond(a, g, m)
      /\ UNCHANGED <<m_vtRequest, pc, ret, conn, gen, session, overtaken>>
  BY MessageKinds DEF GateNoRegister, lookVars, netVars, IsNews
<1> HIDE DEF m
<1>2. \A o \in Server, h \in Connection :
        /\ GetsSimilar(packets'[o][h], packets[o][h])
        /\ \A l \in Lookup : HasGet(packets[o][h], l) => HasGet(packets'[o][h], l)
  BY <1>1, DropKeepsGets
<1>3. \A o \in Server : BoxSimilar(inbox'[o], inbox[o])
  BY <1>1, RespondBox
<1>4. \A s \in Server : LookupSame(s)
  BY <1>1, <1>2, <1>3, Elements DEF LookupSame, Reaches, IsTransmit
<1> QED BY <1>1, <1>4, LookupsKept

-----------------------------------------------------------------------------
(***************************************************************************)
(* Lookups: the steps of one server that they are about.                   *)
(***************************************************************************)
(* The other servers. *)
LEMMA LookupOthers ==
  ASSUME NamesConstants, TypeOK, LookupsInv, ~overtaken, NEW s \in Server,
         \A l \in Lookup : pc[l] # "idle" => pc'[l] # "idle",
         \A o \in Server : o # s =>
           /\ m_vtRequest'[o] = m_vtRequest[o] /\ conn'[o] = conn[o] /\ gen'[o] = gen[o]
           /\ inbox'[o] = inbox[o] /\ packets'[o] = packets[o] /\ session'[o] = session[o]
  PROVE  \A o \in Server : o # s => LookupInv(o)'
<1> SUFFICES ASSUME NEW o \in Server, o # s PROVE LookupInv(o)'
  OBVIOUS
<1>1. LookupInv(o)
  BY DEF LookupsInv
<1>2. BoxSimilar(inbox'[o], inbox[o]) /\ GetsSimilar(packets'[o][gen[o]], packets[o][gen[o]])
  BY SameBox, SameGets
<1>3. Reaches(o)' => Reaches(o)
  BY DEF Reaches, IsTransmit
<1> QED BY <1>1, <1>2, <1>3, LookupKept

(* A lookup that is sent. *)
LEMMA LongerGet ==
  ASSUME NEW t, NEW q, NEW e, NEW l, Len(q) \in Nat, Longer(t, q, e), IsGet(e, l),
         ~HasGet(q, l)
  PROVE  /\ \A x : HasGet(t, x) <=> HasGet(q, x) \/ x = l
         /\ GetsDiffer(q) => GetsDiffer(t)
         /\ \A f, x : x # l /\ GetBefore(q, f, x) => GetBefore(t, f, x)
         /\ \A f : HasGet(q, f) => GetBefore(t, f, l)
<1> DEFINE z == Len(q) + 1
<1>1. /\ z \in 1 .. Len(t) /\ IsGet(t[z], l)
      /\ \A i \in 1 .. Len(q) : i \in 1 .. Len(t) /\ t[i] = q[i] /\ i < z
      /\ \A i \in 1 .. Len(t) : i = z \/ i \in 1 .. Len(q)
  BY DEF Longer
<1>2. \A i \in 1 .. Len(q) : q[i].kind = "get" => q[i].look # l
  BY DEF HasGet, IsGet
<1> HIDE DEF z
<1>3. ASSUME NEW x
      PROVE  HasGet(t, x) <=> HasGet(q, x) \/ x = l
  <2>1. HasGet(t, x) => HasGet(q, x) \/ x = l
    BY <1>1 DEF HasGet, IsGet
  <2>2. HasGet(q, x) => HasGet(t, x)
    BY <1>1 DEF HasGet
  <2>3. x = l => HasGet(t, x)
    BY <1>1 DEF HasGet
  <2> QED BY <2>1, <2>2, <2>3
<1>4. GetsDiffer(q) => GetsDiffer(t)
  <2> SUFFICES ASSUME GetsDiffer(q), NEW m \in 1 .. Len(t), NEW k \in 1 .. Len(t), m < k,
                      t[m].kind = "get", t[k].kind = "get"
               PROVE  t[m].look # t[k].look
    BY DEF GetsDiffer
  <2>1. CASE k = z
    <3>1. m \in 1 .. Len(q) /\ t[m] = q[m]
      BY <1>1, <2>1
    <3> QED BY <1>1, <1>2, <2>1, <3>1 DEF IsGet
  <2>2. CASE k # z
    <3>1. k \in 1 .. Len(q) /\ k < z /\ m # z
      BY <1>1, <2>2 DEF z
    <3> QED BY <1>1, <3>1 DEF GetsDiffer
  <2> QED BY <2>1, <2>2
<1>5. ASSUME NEW f, NEW x, x # l, GetBefore(q, f, x)
      PROVE  GetBefore(t, f, x)
  BY <1>1, <1>5 DEF GetBefore, IsGet
<1>6. ASSUME NEW f, HasGet(q, f)
      PROVE  GetBefore(t, f, l)
  <2> SUFFICES ASSUME NEW k \in 1 .. Len(t), IsGet(t[k], l)
               PROVE  \E m \in 1 .. Len(t) : m < k /\ IsGet(t[m], f)
    BY DEF GetBefore
  <2>1. k = z
    BY <1>1, <1>2 DEF IsGet
  <2> QED BY <1>1, <1>6, <2>1 DEF HasGet
<1> QED BY <1>3, <1>4, <1>5, <1>6

LEMMA LookupsGetMap ==
  ASSUME NamesConstants, TypeOK, SessionInv, LookupsInv, NEW l \in Lookup, GetMap(l)
  PROVE  LookupsInv'
<1> SUFFICES ASSUME ~overtaken'
             PROVE  /\ \A o \in Server : LookupInv(o)'
                    /\ \A x \in Lookup : ret'[x] # "foreign"
  BY DEF LookupsInv
<1> PICK s : s = Asker[l]
  OBVIOUS
<1> PICK h : h = gen[s]
  OBVIOUS
<1> DEFINE p == [kind |-> "get", look |-> l]
           e == [look |-> l, on |-> h]
<1>0. s \in Server /\ h \in Connection /\ h \in Nat
  BY Elements DEF NamesConstants
<1>1. /\ pc[l] = "idle" /\ conn[s] = "up"
      /\ pc' = [pc EXCEPT ![l] = "sent"]
      /\ m_vtRequest' = [m_vtRequest EXCEPT ![s] = Append(@, e)]
      /\ p \in Packet /\ IsGet(p, l) /\ Send(s, p)
      /\ UNCHANGED <<ret, conn, gen, inbox, session, overtaken>>
  BY PacketKinds DEF GetMap, IsTransmit, IsGet, netVars
<1>2. /\ pc'[l] # "idle" /\ \A x \in Lookup : pc[x] # "idle" => pc'[x] # "idle"
  BY <1>1 DEF TypeOK
<1>3. /\ Longer(m_vtRequest'[s], m_vtRequest[s], e)
      /\ \A o \in Server : o # s => m_vtRequest'[o] = m_vtRequest[o]
      /\ e.look = l /\ e.on = h
  <2>1. e \in [look : Lookup, on : Connection] /\ e.look = l /\ e.on = h
    BY <1>0
  <2> HIDE DEF e
  <2>2. /\ m_vtRequest \in [Server -> Seq([look : Lookup, on : Connection])]
        /\ m_vtRequest[s] \in Seq([look : Lookup, on : Connection])
    BY <1>0 DEF TypeOK
  <2>3. Longer(Append(m_vtRequest[s], e), m_vtRequest[s], e)
    BY <2>1, <2>2, AppendIsLonger
  <2>4. /\ m_vtRequest'[s] = Append(m_vtRequest[s], e)
        /\ \A o \in Server : o # s => m_vtRequest'[o] = m_vtRequest[o]
    BY <1>0, <1>1, <2>2
  <2> QED BY <2>1, <2>3, <2>4
<1> HIDE DEF p, e
<1>4. ~overtaken /\ LookupInv(s) /\ \A x \in Lookup : ret'[x] # "foreign"
  BY <1>0, <1>1 DEF LookupsInv
<1>5. \A o \in Server : o # s => packets'[o] = packets[o]
  BY <1>0, <1>1, SendDoes
<1>6. \A o \in Server : o # s => LookupInv(o)'
  BY <1>0, <1>1, <1>2, <1>3, <1>4, <1>5, LookupOthers
<1>7. LookupInv(s)'
  <2> DEFINE lst == m_vtRequest[s]
             n == Len(lst) + 1
  <2>1. /\ Len(lst) \in Nat /\ n \in 1 .. Len(m_vtRequest'[s])
        /\ m_vtRequest'[s][n].look = l /\ m_vtRequest'[s][n].on = h
        /\ \A i \in 1 .. Len(lst) : /\ i \in 1 .. Len(m_vtRequest'[s]) /\ i < n
                                    /\ m_vtRequest'[s][i] = lst[i]
                                    /\ lst[i].look \in Lookup /\ lst[i].on \in Connection
        /\ \A i \in 1 .. Len(m_vtRequest'[s]) : i = n \/ i \in 1 .. Len(lst)
        /\ \A i, j \in 1 .. Len(m_vtRequest'[s]) : i < j => i # n
    BY <1>0, <1>3, Elements DEF Longer
  <2>2. /\ \A i \in 1 .. Len(lst) : lst[i].look # l /\ lst[i].on <= h
        /\ ~Replied(inbox[s], l) /\ ~HasGet(packets[s][h], l)
    BY <1>0, <1>1, <1>4, <2>1 DEF LookupInv, ListInv, BoxInv, GetInv
  <2>3. /\ ~Reaches(s) => packets' = packets
        /\ Reaches(s) => Longer(packets'[s][h], packets[s][h], p)
        /\ Len(packets[s][h]) \in Nat
    BY <1>0, <1>1, SendDoes, Elements
  <2>4. /\ \A x : HasGet(packets[s][h], x) => HasGet(packets'[s][h], x)
        /\ \A x : HasGet(packets'[s][h], x) => HasGet(packets[s][h], x) \/ x = l
        /\ Reaches(s) => HasGet(packets'[s][h], l)
        /\ GetsDiffer(packets[s][h]) => GetsDiffer(packets'[s][h])
        /\ \A f, x : x # l /\ GetBefore(packets[s][h], f, x) => GetBefore(packets'[s][h], f, x)
        /\ \A f : (Reaches(s) => HasGet(packets[s][h], f)) => GetBefore(packets'[s][h], f, l)
    <3>1. CASE Reaches(s)
      BY <1>1, <2>2, <2>3, <3>1, LongerGet
    <3>2. CASE ~Reaches(s)
      BY <2>2, <2>3, <3>2 DEF GetBefore, HasGet
    <3> QED BY <3>1, <3>2
  <2>5. Live(s, h) /\ Live(s, h)' /\ (Reaches(s)' <=> Reaches(s))
        /\ \A g : (Live(s, g)' <=> g = h) /\ (Live(s, g) <=> g = h)
    BY <1>0, <1>1 DEF Live, Reaches, IsTransmit
  <2> HIDE DEF n
  <2>6. ListInv(s)'
    <3>1. \A i \in 1 .. Len(m_vtRequest'[s]) :
            /\ pc'[m_vtRequest'[s][i].look] # "idle" /\ m_vtRequest'[s][i].on <= gen'[s]
            /\ conn'[s] # "connecting"
      BY <1>0, <1>1, <1>2, <1>4, <2>1 DEF LookupInv, ListInv
    <3>2. \A i, j \in 1 .. Len(m_vtRequest'[s]) :
            i < j => /\ m_vtRequest'[s][i].look # m_vtRequest'[s][j].look
                     /\ m_vtRequest'[s][i].on <= m_vtRequest'[s][j].on
      BY <1>4, <2>1, <2>2 DEF LookupInv, ListInv
    <3> QED BY <3>1, <3>2 DEF ListInv
  <2>7. BoxInv(s)'
    BY <1>1, <1>2, <1>4 DEF LookupInv, BoxInv
  <2>8. GetInv(s)'
    BY <1>1, <1>2, <1>4, <2>2, <2>4 DEF LookupInv, GetInv
  <2>9. EndInv(s)'
    <3>1. EndBetween(inbox[s], h)
      BY <1>0, <1>4, Elements DEF LookupInv, BoxInv, EndBetween, Connection, Message
    <3>2. \A i \in 1 .. Len(lst) : /\ ~Live(s, lst[i].on) => HasEnd(inbox[s])
                                   /\ EndBetween(inbox[s], lst[i].on)
      BY <1>4 DEF LookupInv, EndInv
    <3> QED BY <1>1, <2>1, <2>5, <3>1, <3>2 DEF EndInv
  <2>10. InOrder(s)'
    <3> SUFFICES ASSUME NEW i \in 1 .. Len(m_vtRequest'[s]),
                        NEW j \in 1 .. Len(m_vtRequest'[s]), i < j,
                        m_vtRequest'[s][i].on = m_vtRequest'[s][j].on,
                        NEW g, g = m_vtRequest'[s][j].on,
                        NEW f, f = m_vtRequest'[s][i].look,
                        NEW x, x = m_vtRequest'[s][j].look
                 PROVE  /\ ReplyBefore(inbox[s], g, f, x)
                        /\ g = h => HasReply(inbox[s], g, f) \/ GetBefore(packets'[s][g], f, x)
      BY <1>1, <2>5 DEF InOrder
    <3>1. i \in 1 .. Len(lst) /\ lst[i].on = g /\ lst[i].look = f
      BY <2>1
    <3>2. CASE j = n
      <4>1. x = l /\ g = h
        BY <2>1, <3>2
      <4>2. ReplyBefore(inbox[s], g, f, x)
        BY <2>2, <4>1 DEF ReplyBefore, Replied, IsReply
      <4>3. Reaches(s) => HasReply(inbox[s], g, f) \/ HasGet(packets[s][g], f)
        BY <1>4, <3>1, <4>1 DEF LookupInv, AllPending, Pending
      <4> QED BY <2>4, <4>1, <4>2, <4>3
    <3>3. CASE j # n
      <4>1. j \in 1 .. Len(lst) /\ lst[j].on = g /\ lst[j].look = x /\ x # l
        BY <2>1, <2>2, <3>3
      <4>2. /\ ReplyBefore(inbox[s], g, f, x)
            /\ g = h => HasReply(inbox[s], g, f) \/ GetBefore(packets[s][g], f, x)
        BY <1>4, <2>5, <3>1, <4>1 DEF LookupInv, InOrder
      <4> QED BY <2>4, <4>1, <4>2
    <3> QED BY <3>2, <3>3
  <2>11. AllPending(s)'
    BY <1>1, <1>4, <2>1, <2>4, <2>5 DEF LookupInv, AllPending, Pending
  <2>12. AllListed(s)'
    <3> SUFFICES ASSUME NEW g \in Connection, NEW x \in Lookup, Pending(s, g, x)'
                 PROVE  Listed(s, g, x)'
      BY DEF AllListed
    <3>1. Pending(s, g, x) \/ (x = l /\ g = h)
      BY <1>1, <2>4, <2>5 DEF Pending
    <3>2. CASE Pending(s, g, x)
      BY <1>4, <2>1, <3>2 DEF LookupInv, AllListed, Listed
    <3>3. CASE x = l /\ g = h
      BY <2>1, <3>3 DEF Listed
    <3> QED BY <3>1, <3>2, <3>3
  <2> QED BY <2>6, <2>7, <2>8, <2>9, <2>10, <2>11, <2>12 DEF LookupInv
<1> QED BY <1>4, <1>6, <1>7

(* The first lookup in the queue of a session is answered. *)
GetTaken(t, q, l) ==
  /\ \A x : HasGet(q, x) => HasGet(t, x) \/ x = l
  /\ \A x : HasGet(t, x) => HasGet(q, x) /\ x # l
  /\ HasGet(q, l) /\ GetsDiffer(t)
  /\ \A f, x : f # l /\ GetBefore(q, f, x) => GetBefore(t, f, x)
  /\ \A f : ~GetBefore(q, f, l)

LEMMA CutGet ==
  ASSUME NEW t, NEW q, NEW k, NEW l, Len(q) \in Nat, Len(t) \in Nat, Cut(t, q, k),
         IsGet(q[k], l), \A i \in 1 .. Len(q) : i < k => q[i].kind # "get", GetsDiffer(q)
  PROVE  GetTaken(t, q, l)
<1>1. /\ k \in 1 .. Len(q)
      /\ \A i \in 1 .. Len(t) : Up(i, k) \in 1 .. Len(q) /\ Up(i, k) # k /\ t[i] = q[Up(i, k)]
      /\ \A i, j \in 1 .. Len(t) : i < j <=> Up(i, k) < Up(j, k)
      /\ \A i \in 1 .. Len(q) : i # k => /\ Down(i, k) \in 1 .. Len(t)
                                         /\ t[Down(i, k)] = q[i]
                                         /\ Up(Down(i, k), k) = i
  BY CutPlaces DEF Cut
<1>2. \A i \in 1 .. Len(q) : i # k /\ q[i].kind = "get" => q[i].look # l
  BY <1>1 DEF GetsDiffer, IsGet
<1>3. ASSUME NEW x, HasGet(q, x)
      PROVE  HasGet(t, x) \/ x = l
  BY <1>1, <1>3 DEF HasGet, IsGet
<1>4. ASSUME NEW x, HasGet(t, x)
      PROVE  HasGet(q, x) /\ x # l
  BY <1>1, <1>2, <1>4 DEF HasGet, IsGet
<1>5. GetsDiffer(t)
  <2> SUFFICES ASSUME NEW m \in 1 .. Len(t), NEW j \in 1 .. Len(t), m < j,
                      t[m].kind = "get", t[j].kind = "get"
               PROVE  t[m].look # t[j].look
    BY DEF GetsDiffer
  <2>1. /\ Up(m, k) \in 1 .. Len(q) /\ Up(j, k) \in 1 .. Len(q) /\ Up(m, k) < Up(j, k)
        /\ t[m] = q[Up(m, k)] /\ t[j] = q[Up(j, k)]
    BY <1>1
  <2> QED BY <2>1 DEF GetsDiffer
<1>6. ASSUME NEW f, NEW x, f # l, GetBefore(q, f, x)
      PROVE  GetBefore(t, f, x)
  <2> SUFFICES ASSUME NEW i \in 1 .. Len(t), IsGet(t[i], x)
               PROVE  \E m \in 1 .. Len(t) : m < i /\ IsGet(t[m], f)
    BY DEF GetBefore
  <2>1. PICK m \in 1 .. Len(q) : m < Up(i, k) /\ IsGet(q[m], f)
    BY <1>1, <1>6 DEF GetBefore
  <2>2. m # k
    BY <1>6, <2>1 DEF IsGet
  <2>3. Down(m, k) \in 1 .. Len(t) /\ t[Down(m, k)] = q[m] /\ Down(m, k) < i
    BY <1>1, <2>1, <2>2
  <2> QED BY <2>1, <2>3
<1>7. ASSUME NEW f
      PROVE  ~GetBefore(q, f, l)
  BY <1>1 DEF GetBefore, IsGet
<1>8. HasGet(q, l)
  BY <1>1 DEF HasGet
<1> QED BY <1>3, <1>4, <1>5, <1>6, <1>7, <1>8 DEF GetTaken

(* Its reply comes last. *)
LEMMA LongerReply ==
  ASSUME NEW t, NEW q, NEW e, NEW g, NEW l, Len(q) \in Nat, Longer(t, q, e),
         IsReply(e, g), e.look = l, ~Replied(q, l)
  PROVE  /\ \A x : Replied(t, x) => Replied(q, x) \/ x = l
         /\ \A h, x : HasReply(t, h, x) => HasReply(q, h, x) \/ (h = g /\ x = l)
         /\ \A h, x : HasReply(q, h, x) => HasReply(t, h, x)
         /\ HasReply(t, g, l)
         /\ RepliesDiffer(q) => RepliesDiffer(t)
         /\ EndsFirst(q) /\ (\A m \in 1 .. Len(q) : IsEnd(q[m]) => q[m].on < g) => EndsFirst(t)
         /\ \A h : EndBetween(q, h) /\ (h < g => HasEnd(q)) => EndBetween(t, h)
         /\ HasEnd(q) => HasEnd(t)
         /\ \A h, f, x : ReplyBefore(q, h, f, x) /\ (h # g \/ x # l) => ReplyBefore(t, h, f, x)
         /\ \A f : HasReply(q, g, f) => ReplyBefore(t, g, f, l)
<1> DEFINE z == Len(q) + 1
<1>1. /\ z \in 1 .. Len(t) /\ t[z] = e
      /\ \A i \in 1 .. Len(q) : i \in 1 .. Len(t) /\ t[i] = q[i] /\ i < z
      /\ \A i \in 1 .. Len(t) : i = z \/ i \in 1 .. Len(q)
      /\ \A i, k \in 1 .. Len(t) : i < k => i \in 1 .. Len(q)
  BY DEF Longer
<1>2. /\ e.kind = "reply" /\ e.on = g /\ e.look = l
      /\ \A i \in 1 .. Len(q) : q[i].kind = "reply" => q[i].look # l
  BY DEF IsReply, Replied
<1> HIDE DEF z
<1>3. ASSUME NEW x, Replied(t, x)
      PROVE  Replied(q, x) \/ x = l
  BY <1>1, <1>2, <1>3 DEF Replied
<1>4. ASSUME NEW h, NEW x
      PROVE  /\ HasReply(t, h, x) => HasReply(q, h, x) \/ (h = g /\ x = l)
             /\ HasReply(q, h, x) => HasReply(t, h, x)
  <2>1. HasReply(t, h, x) => HasReply(q, h, x) \/ (h = g /\ x = l)
    BY <1>1, <1>2 DEF HasReply, IsReply
  <2>2. HasReply(q, h, x) => HasReply(t, h, x)
    BY <1>1 DEF HasReply
  <2> QED BY <2>1, <2>2
<1>5. HasReply(t, g, l)
  BY <1>1, <1>2 DEF HasReply, IsReply
<1>6. RepliesDiffer(q) => RepliesDiffer(t)
  BY <1>1, <1>2 DEF RepliesDiffer
<1>7. EndsFirst(q) /\ (\A m \in 1 .. Len(q) : IsEnd(q[m]) => q[m].on < g) => EndsFirst(t)
  BY <1>1, <1>2 DEF EndsFirst
<1>8. ASSUME NEW h, EndBetween(q, h), h < g => HasEnd(q)
      PROVE  EndBetween(t, h)
  <2> SUFFICES ASSUME NEW k \in 1 .. Len(t), t[k].kind = "reply", h < t[k].on
               PROVE  \E d \in 1 .. Len(t) : d < k /\ IsEnd(t[d])
    BY DEF EndBetween
  <2>1. CASE k = z
    BY <1>1, <1>2, <1>8, <2>1 DEF HasEnd
  <2>2. CASE k # z
    BY <1>1, <1>8, <2>2 DEF EndBetween
  <2> QED BY <2>1, <2>2
<1>9. HasEnd(q) => HasEnd(t)
  BY <1>1 DEF HasEnd
<1>10. ASSUME NEW h, NEW f, NEW x, ReplyBefore(q, h, f, x), h # g \/ x # l
       PROVE  ReplyBefore(t, h, f, x)
  <2> SUFFICES ASSUME NEW k \in 1 .. Len(t), IsReply(t[k], h), t[k].look = x
               PROVE  \E m \in 1 .. Len(t) : m < k /\ IsReply(t[m], h) /\ t[m].look = f
    BY DEF ReplyBefore
  <2>1. k # z
    BY <1>1, <1>2, <1>10 DEF IsReply
  <2> QED BY <1>1, <1>10, <2>1 DEF ReplyBefore
<1>11. ASSUME NEW f, HasReply(q, g, f)
       PROVE  ReplyBefore(t, g, f, l)
  <2> SUFFICES ASSUME NEW k \in 1 .. Len(t), IsReply(t[k], g), t[k].look = l
               PROVE  \E m \in 1 .. Len(t) : m < k /\ IsReply(t[m], g) /\ t[m].look = f
    BY DEF ReplyBefore
  <2>1. k = z
    BY <1>1, <1>2 DEF IsReply
  <2> QED BY <1>1, <1>11, <2>1 DEF HasReply
<1> QED BY <1>3, <1>4, <1>5, <1>6, <1>7, <1>8, <1>9, <1>10, <1>11

LEMMA LookupsGet ==
  ASSUME NamesConstants, TypeOK, LookupsInv, NEW s \in Server, NEW g \in Connection,
         NEW k, GateGetCtxIDByName(s, g, k)
  PROVE  LookupsInv'
<1> SUFFICES ASSUME ~overtaken'
             PROVE  LookupsInv'
  BY DEF LookupsInv
<1> PICK l : l = packets[s][g][k].look
  OBVIOUS
<1> DEFINE m == [kind |-> "reply", look |-> l, on |-> g]
<1>0. /\ NextPacket(s, g, "get", k)
      /\ UNCHANGED <<m_vtRequest, pc, ret, session, conn, gen>>
      /\ ~overtaken /\ ~\E i \in 1 .. k - 1 : packets[s][g][i].kind = "get"
      /\ overtaken \in BOOLEAN /\ overtaken' \in BOOLEAN
  BY DEF GateGetCtxIDByName, lookVars, netVars, TypeOK
<1>1. /\ IsGet(packets[s][g][k], l) /\ l \in Lookup
      /\ Cut(packets'[s][g], packets[s][g], k) /\ k \in 1 .. Len(packets[s][g])
      /\ Len(packets'[s][g]) \in Nat /\ Len(packets[s][g]) \in Nat
      /\ \A o \in Server : o # s => packets'[o] = packets[o]
      /\ \A h \in Connection : h # g => packets'[s][h] = packets[s][h]
  <2>1. /\ packets[s][g][k] \in Packet /\ packets[s][g][k].kind = "get"
        /\ Cut(packets'[s][g], packets[s][g], k) /\ k \in 1 .. Len(packets[s][g])
        /\ Len(packets'[s][g]) \in Nat /\ Len(packets[s][g]) \in Nat
        /\ \A o \in Server : o # s => packets'[o] = packets[o]
        /\ \A h \in Connection : h # g => packets'[s][h] = packets[s][h]
    BY <1>0, NextPacketDoes
  <2> QED BY <2>1, PacketKinds DEF IsGet
<1>2. m \in Message /\ Respond(s, g, m) /\ IsReply(m, g) /\ m.look = l
  BY <1>1, MessageKinds DEF GateGetCtxIDByName, IsReply
<1> HIDE DEF m
<1>3. /\ \A o \in Server : o # s => inbox'[o] = inbox[o]
      /\ Live(s, g) => Longer(inbox'[s], inbox[s], m)
      /\ ~Live(s, g) => inbox' = inbox
      /\ gen[s] \in Connection
  BY <1>2, RespondDoes, Elements
<1>4. CASE ~Live(s, g)
  <2>1. ASSUME NEW o \in Server
        PROVE  LookupSame(o)
    <3>1. conn[o] = "up" => packets'[o][gen[o]] = packets[o][gen[o]]
      BY <1>1, <1>4, Elements DEF Live
    <3>2. BoxSimilar(inbox'[o], inbox[o])
      BY <1>3, <1>4, SameBox
    <3> QED BY <1>0, <3>1, <3>2, SameGets DEF LookupSame, Reaches, IsTransmit
  <2>2. UNCHANGED <<overtaken, ret>>
    BY <1>0
  <2> QED BY <1>0, <2>1, <2>2, LookupsKept
<1>5. CASE Live(s, g)
  <2> SUFFICES /\ \A o \in Server : LookupInv(o)'
               /\ \A x \in Lookup : ret'[x] # "foreign"
    BY DEF LookupsInv
  <2>1. ~overtaken /\ LookupInv(s) /\ \A x \in Lookup : ret'[x] # "foreign"
    BY <1>0 DEF LookupsInv
  <2>2. \A o \in Server : o # s => LookupInv(o)'
    BY <1>0, <1>1, <1>3, <2>1, LookupOthers
  <2>3. /\ conn[s] = "up" /\ gen[s] = g /\ conn'[s] = "up" /\ gen'[s] = g
        /\ \A h : (Live(s, h) <=> h = g) /\ (Live(s, h)' <=> h = g)
        /\ Reaches(s)' <=> Reaches(s)
    BY <1>0, <1>5 DEF Live, Reaches, IsTransmit
  <2>4. GetsDiffer(packets[s][g])
    BY <2>1, <2>3 DEF LookupInv, GetInv
  <2>5. /\ \A x : HasGet(packets[s][g], x) => HasGet(packets'[s][g], x) \/ x = l
        /\ \A x : HasGet(packets'[s][g], x) => HasGet(packets[s][g], x) /\ x # l
        /\ HasGet(packets[s][g], l) /\ GetsDiffer(packets'[s][g])
        /\ \A f, x : f # l /\ GetBefore(packets[s][g], f, x) => GetBefore(packets'[s][g], f, x)
        /\ \A f : ~GetBefore(packets[s][g], f, l)
    <3> DEFINE t == packets'[s][g]
               q == packets[s][g]
    <3>1. /\ Len(q) \in Nat /\ Len(t) \in Nat /\ Cut(t, q, k) /\ IsGet(q[k], l)
          /\ \A i \in 1 .. Len(q) : i < k => q[i].kind # "get"
          /\ GetsDiffer(q)
      BY <1>0, <1>1, <2>4
    <3> HIDE DEF t, q
    <3>2. GetTaken(t, q, l)
      BY <3>1, CutGet
    <3> QED BY <3>2 DEF GetTaken, t, q
  <2>6. pc[l] # "idle" /\ ~Replied(inbox[s], l) /\ Len(inbox[s]) \in Nat
    BY <1>1, <2>1, <2>3, <2>5, Elements DEF LookupInv, GetInv
  <2>7. /\ \A x : Replied(inbox'[s], x) => Replied(inbox[s], x) \/ x = l
        /\ \A h, x : HasReply(inbox'[s], h, x) => HasReply(inbox[s], h, x) \/ (h = g /\ x = l)
        /\ \A h, x : HasReply(inbox[s], h, x) => HasReply(inbox'[s], h, x)
        /\ HasReply(inbox'[s], g, l)
        /\ RepliesDiffer(inbox[s]) => RepliesDiffer(inbox'[s])
        /\ /\ EndsFirst(inbox[s])
           /\ \A i \in 1 .. Len(inbox[s]) : IsEnd(inbox[s][i]) => inbox[s][i].on < g
           => EndsFirst(inbox'[s])
        /\ \A h : EndBetween(inbox[s], h) /\ (h < g => HasEnd(inbox[s])) =>
                    EndBetween(inbox'[s], h)
        /\ HasEnd(inbox[s]) => HasEnd(inbox'[s])
        /\ \A h, f, x : ReplyBefore(inbox[s], h, f, x) /\ (h # g \/ x # l) =>
                          ReplyBefore(inbox'[s], h, f, x)
        /\ \A f : HasReply(inbox[s], g, f) => ReplyBefore(inbox'[s], g, f, l)
    BY <1>2, <1>3, <1>5, <2>6, LongerReply
  <2>8. \A i \in 1 .. Len(m_vtRequest[s]) :
          m_vtRequest[s][i].look \in Lookup /\ m_vtRequest[s][i].on \in Connection
    BY Elements
  <2>9. ListInv(s)'
    BY <1>0, <2>1 DEF LookupInv, ListInv
  <2>10. BoxInv(s)'
    <3>1. \A i \in 1 .. Len(inbox[s]) :
            /\ inbox[s][i].kind = "reply" => inbox[s][i].on <= g
            /\ IsEnd(inbox[s][i]) => inbox[s][i].on <= g /\ inbox[s][i].on < g
      BY <2>1, <2>3 DEF LookupInv, BoxInv
    <3>2. /\ RepliesDiffer(inbox'[s]) /\ EndsFirst(inbox'[s])
          /\ \A x \in Lookup : Replied(inbox'[s], x) => pc'[x] # "idle"
      BY <1>0, <2>1, <2>6, <2>7, <3>1 DEF LookupInv, BoxInv
    <3>3. \A i \in 1 .. Len(inbox'[s]) :
            /\ inbox'[s][i].kind = "reply" => inbox'[s][i].on <= g
            /\ IsEnd(inbox'[s][i]) => inbox'[s][i].on <= g /\ inbox'[s][i].on < g
      <4> TAKE i \in 1 .. Len(inbox'[s])
      <4>1. inbox'[s][i] = m \/ (i \in 1 .. Len(inbox[s]) /\ inbox'[s][i] = inbox[s][i])
        BY <1>3, <1>5, <2>6 DEF Longer
      <4>2. m.kind = "reply" /\ m.on = g /\ g <= g
        BY <1>2 DEF IsReply, Connection
      <4> QED BY <3>1, <4>1, <4>2 DEF IsEnd
    <3> QED BY <2>3, <3>2, <3>3 DEF BoxInv
  <2>11. GetInv(s)'
    BY <1>0, <2>1, <2>3, <2>5, <2>7 DEF LookupInv, GetInv
  <2>12. EndInv(s)'
    <3>1. \A i \in 1 .. Len(m_vtRequest[s]) :
            /\ m_vtRequest[s][i].on # g => HasEnd(inbox[s])
            /\ EndBetween(inbox[s], m_vtRequest[s][i].on)
            /\ m_vtRequest[s][i].on < g => m_vtRequest[s][i].on # g
      BY <2>1, <2>3, <2>8 DEF LookupInv, EndInv, Connection
    <3> QED BY <1>0, <2>3, <2>7, <3>1 DEF EndInv
  <2>13. InOrder(s)'
    <3> SUFFICES ASSUME NEW i \in 1 .. Len(m_vtRequest[s]),
                        NEW j \in 1 .. Len(m_vtRequest[s]), i < j,
                        m_vtRequest[s][i].on = m_vtRequest[s][j].on,
                        NEW h, h = m_vtRequest[s][j].on,
                        NEW f, f = m_vtRequest[s][i].look,
                        NEW x, x = m_vtRequest[s][j].look
                 PROVE  /\ ReplyBefore(inbox'[s], h, f, x)
                        /\ h = g => HasReply(inbox'[s], h, f) \/ GetBefore(packets'[s][h], f, x)
      BY <1>0, <2>3 DEF InOrder
    <3>1. /\ ReplyBefore(inbox[s], h, f, x)
          /\ h = g => HasReply(inbox[s], h, f) \/ GetBefore(packets[s][h], f, x)
      BY <2>1, <2>3 DEF LookupInv, InOrder
    <3>2. ReplyBefore(inbox'[s], h, f, x)
      BY <2>5, <2>7, <3>1
    <3>3. h = g => HasReply(inbox'[s], h, f) \/ GetBefore(packets'[s][h], f, x)
      BY <2>5, <2>7, <3>1
    <3> QED BY <3>2, <3>3
  <2>14. AllPending(s)'
    BY <1>0, <2>1, <2>3, <2>5, <2>7 DEF LookupInv, AllPending, Pending
  <2>15. AllListed(s)'
    BY <1>0, <2>1, <2>3, <2>5, <2>7 DEF LookupInv, AllListed, Listed, Pending
  <2> QED BY <2>1, <2>2, <2>9, <2>10, <2>11, <2>12, <2>13, <2>14, <2>15 DEF LookupInv
<1> QED BY <1>4, <1>5

(* No reply and no disconnect comes before it. *)
Foremost(q, k) ==
  \A i \in 1 .. Len(q) : i < k => q[i].kind # "reply" /\ ~IsEnd(q[i])

LEMMA NothingPassed ==
  ASSUME NamesConstants, TypeOK, NEW s \in Server, NEW k, ~Passes(s, k)
  PROVE  Foremost(inbox[s], k)
<1>1. DOMAIN inbox[s] = 1 .. Len(inbox[s])
  BY Elements
<1> QED BY <1>1 DEF Foremost, Passes, IsEnd

(* A reply is taken. *)
ReplyTaken(t, q, g, l) ==
  /\ \A x : Replied(t, x) => Replied(q, x)
  /\ \A h, x : HasReply(t, h, x) => HasReply(q, h, x) /\ x # l
  /\ \A h, x : HasReply(q, h, x) => HasReply(t, h, x) \/ (h = g /\ x = l)
  /\ RepliesDiffer(t)
  /\ EndsFirst(q) => EndsFirst(t)
  /\ \A h : EndBetween(q, h) => EndBetween(t, h)
  /\ HasEnd(q) => HasEnd(t)
  /\ \A h, f, x : f # l /\ ReplyBefore(q, h, f, x) => ReplyBefore(t, h, f, x)

LEMMA CutReply ==
  ASSUME NEW t, NEW q, NEW k, NEW g, NEW l, Len(q) \in Nat, Len(t) \in Nat, Cut(t, q, k),
         IsReply(q[k], g), q[k].look = l, RepliesDiffer(q)
  PROVE  ReplyTaken(t, q, g, l)
<1>1. /\ k \in 1 .. Len(q)
      /\ \A i \in 1 .. Len(t) : Up(i, k) \in 1 .. Len(q) /\ Up(i, k) # k /\ t[i] = q[Up(i, k)]
      /\ \A i, j \in 1 .. Len(t) : i < j <=> Up(i, k) < Up(j, k)
      /\ \A i \in 1 .. Len(q) : i # k => /\ Down(i, k) \in 1 .. Len(t)
                                         /\ t[Down(i, k)] = q[i]
                                         /\ Up(Down(i, k), k) = i
  BY CutPlaces DEF Cut
<1>2. \A i \in 1 .. Len(q) : i # k /\ q[i].kind = "reply" => q[i].look # l
  BY <1>1 DEF RepliesDiffer, IsReply
<1>3. ASSUME NEW x, Replied(t, x)
      PROVE  Replied(q, x)
  BY <1>1, <1>3 DEF Replied
<1>4. ASSUME NEW h, NEW x, HasReply(t, h, x)
      PROVE  HasReply(q, h, x) /\ x # l
  BY <1>1, <1>2, <1>4 DEF HasReply, IsReply
<1>5. ASSUME NEW h, NEW x, HasReply(q, h, x)
      PROVE  HasReply(t, h, x) \/ (h = g /\ x = l)
  BY <1>1, <1>5 DEF HasReply, IsReply
<1>6. \A m, j \in 1 .. Len(t) : m < j =>
        /\ Up(m, k) \in 1 .. Len(q) /\ Up(j, k) \in 1 .. Len(q) /\ Up(m, k) < Up(j, k)
        /\ t[m] = q[Up(m, k)] /\ t[j] = q[Up(j, k)]
  BY <1>1
<1>7. RepliesDiffer(t)
  BY <1>6 DEF RepliesDiffer
<1>8. EndsFirst(q) => EndsFirst(t)
  BY <1>6 DEF EndsFirst
<1>9. ASSUME NEW h, EndBetween(q, h)
      PROVE  EndBetween(t, h)
  <2> SUFFICES ASSUME NEW i \in 1 .. Len(t), t[i].kind = "reply", h < t[i].on
               PROVE  \E d \in 1 .. Len(t) : d < i /\ IsEnd(t[d])
    BY DEF EndBetween
  <2>1. PICK d \in 1 .. Len(q) : d < Up(i, k) /\ IsEnd(q[d])
    BY <1>1, <1>9 DEF EndBetween
  <2>2. d # k
    BY <2>1 DEF IsEnd, IsReply
  <2>3. Down(d, k) \in 1 .. Len(t) /\ t[Down(d, k)] = q[d] /\ Down(d, k) < i
    BY <1>1, <2>1, <2>2
  <2> QED BY <2>1, <2>3
<1>10. HasEnd(q) => HasEnd(t)
  BY <1>1 DEF HasEnd, IsEnd, IsReply
<1>11. ASSUME NEW h, NEW f, NEW x, f # l, ReplyBefore(q, h, f, x)
       PROVE  ReplyBefore(t, h, f, x)
  <2> SUFFICES ASSUME NEW i \in 1 .. Len(t), IsReply(t[i], h), t[i].look = x
               PROVE  \E m \in 1 .. Len(t) : m < i /\ IsReply(t[m], h) /\ t[m].look = f
    BY DEF ReplyBefore
  <2>1. PICK m \in 1 .. Len(q) : m < Up(i, k) /\ IsReply(q[m], h) /\ q[m].look = f
    BY <1>1, <1>11 DEF ReplyBefore
  <2>2. m # k
    BY <1>11, <2>1
  <2>3. Down(m, k) \in 1 .. Len(t) /\ t[Down(m, k)] = q[m] /\ Down(m, k) < i
    BY <1>1, <2>1, <2>2
  <2> QED BY <2>1, <2>3
<1> QED BY <1>3, <1>4, <1>5, <1>7, <1>8, <1>9, <1>10, <1>11 DEF ReplyTaken

(* The first reply of the queue is for the front of the list. *)
LEMMA FrontsMatch ==
  ASSUME NamesConstants, TypeOK, NEW s \in Server, LookupInv(s),
         NEW k \in 1 .. Len(inbox[s]), Foremost(inbox[s], k), inbox[s][k].kind = "reply"
  PROVE  /\ Len(m_vtRequest[s]) > 0
         /\ m_vtRequest[s][1].look = inbox[s][k].look
         /\ m_vtRequest[s][1].on = inbox[s][k].on
<1> PICK l : l = inbox[s][k].look
  OBVIOUS
<1> PICK g : g = inbox[s][k].on
  OBVIOUS
<1>1. /\ l \in Lookup /\ g \in Connection /\ g \in Nat /\ Len(inbox[s]) \in Nat
      /\ Len(m_vtRequest[s]) \in Nat
      /\ \A i \in 1 .. Len(m_vtRequest[s]) :
           m_vtRequest[s][i].on \in Nat
  BY MessageKinds, Elements DEF Connection
<1>2. /\ IsReply(inbox[s][k], g) /\ HasReply(inbox[s], g, l)
      /\ \A i \in 1 .. Len(inbox[s]) : i < k => ~IsReply(inbox[s][i], g) /\ ~IsEnd(inbox[s][i])
  BY <1>1 DEF HasReply, IsReply, Foremost
<1>3. PICK i \in 1 .. Len(m_vtRequest[s]) :
             m_vtRequest[s][i].on = g /\ m_vtRequest[s][i].look = l
  BY <1>1, <1>2 DEF LookupInv, AllListed, Pending, Listed
<1>4. ASSUME i # 1
      PROVE  FALSE
  <2>1. 1 \in 1 .. Len(m_vtRequest[s]) /\ 1 < i
    BY <1>1, <1>4
  <2>2. m_vtRequest[s][1].on <= g
    BY <1>3, <2>1 DEF LookupInv, ListInv
  <2>3. ~(m_vtRequest[s][1].on < g)
    <3>1. EndBetween(inbox[s], m_vtRequest[s][1].on)
      BY <2>1 DEF LookupInv, EndInv
    <3> QED BY <1>1, <1>2, <3>1 DEF EndBetween, IsReply
  <2>4. m_vtRequest[s][1].on = g
    BY <1>1, <2>1, <2>2, <2>3
  <2>5. ReplyBefore(inbox[s], g, m_vtRequest[s][1].look, l)
    BY <1>3, <2>1, <2>4 DEF LookupInv, InOrder
  <2> QED BY <1>1, <1>2, <2>5 DEF ReplyBefore
<1> QED BY <1>1, <1>3, <1>4

LEMMA LookupsNoRequest ==
  ASSUME NamesConstants, TypeOK, LookupsInv, NEW s \in Server, NEW k,
         ReceiveReplyNoRequest(s, k)
  PROVE  LookupsInv'
<1> SUFFICES ASSUME ~overtaken'
             PROVE  FALSE
  BY DEF LookupsInv
<1>1. NextMessage(s, "reply", k) /\ m_vtRequest[s] = <<>> /\ ~overtaken /\ ~Passes(s, k)
  BY DEF ReceiveReplyNoRequest
<1>2. LookupInv(s)
  BY <1>1 DEF LookupsInv
<1>3. k \in 1 .. Len(inbox[s]) /\ inbox[s][k].kind = "reply" /\ Foremost(inbox[s], k)
  BY <1>1, NextMessageDoes, NothingPassed
<1>4. Len(m_vtRequest[s]) > 0
  BY <1>2, <1>3, FrontsMatch
<1> QED BY <1>1, <1>4

LEMMA LookupsReceiveReply ==
  ASSUME NamesConstants, TypeOK, LookupsInv, NEW s \in Server, NEW k, ReceiveReply(s, k)
  PROVE  LookupsInv'
<1> SUFFICES ASSUME ~overtaken'
             PROVE  /\ \A o \in Server : LookupInv(o)'
                    /\ \A x \in Lookup : ret'[x] # "foreign"
  BY DEF LookupsInv
<1> PICK l : l = inbox[s][k].look
  OBVIOUS
<1> PICK g : g = inbox[s][k].on
  OBVIOUS
<1>1. /\ NextMessage(s, "reply", k) /\ m_vtRequest[s] # <<>>
      /\ m_vtRequest' = [m_vtRequest EXCEPT ![s] = Tail(@)]
      /\ ~overtaken /\ ~Passes(s, k)
      /\ UNCHANGED <<conn, gen, packets, session>>
  BY DEF ReceiveReply, netVars, centerVars
<1>2. ~overtaken /\ LookupInv(s) /\ \A x \in Lookup : ret[x] # "foreign"
  BY <1>1 DEF LookupsInv
<1>3. /\ \A o \in Server : o # s => inbox'[o] = inbox[o]
      /\ Cut(inbox'[s], inbox[s], k) /\ Len(inbox'[s]) \in Nat /\ Len(inbox[s]) \in Nat
      /\ k \in 1 .. Len(inbox[s]) /\ Foremost(inbox[s], k)
      /\ inbox[s][k] \in Message /\ inbox[s][k].kind = "reply"
  BY <1>1, NextMessageDoes, NothingPassed
<1>4. /\ \A o \in Server : o # s => m_vtRequest'[o] = m_vtRequest[o]
      /\ Rest(m_vtRequest'[s], m_vtRequest[s]) /\ Len(m_vtRequest'[s]) \in Nat
      /\ Head(m_vtRequest[s]) = m_vtRequest[s][1]
  <2>1. /\ m_vtRequest \in [Server -> Seq([look : Lookup, on : Connection])]
        /\ m_vtRequest[s] \in Seq([look : Lookup, on : Connection])
    BY DEF TypeOK
  <2>2. /\ Tail(m_vtRequest[s]) \in Seq([look : Lookup, on : Connection])
        /\ Rest(Tail(m_vtRequest[s]), m_vtRequest[s])
        /\ Head(m_vtRequest[s]) = m_vtRequest[s][1]
    BY <1>1, <2>1, TailIsRest
  <2>3. Len(Tail(m_vtRequest[s])) \in Nat
    BY <2>2, SeqElements
  <2>4. /\ m_vtRequest'[s] = Tail(m_vtRequest[s])
        /\ \A o \in Server : o # s => m_vtRequest'[o] = m_vtRequest[o]
    BY <1>1, <2>1
  <2> QED BY <2>2, <2>3, <2>4
<1>5. /\ l \in Lookup /\ IsReply(inbox[s][k], g)
      /\ m_vtRequest[s][1].look = l /\ m_vtRequest[s][1].on = g
  BY <1>2, <1>3, MessageKinds, FrontsMatch DEF IsReply
<1>6. pc' = [pc EXCEPT ![l] = "done"] /\ ret' = [ret EXCEPT ![l] = "own"]
  BY <1>3, <1>4, <1>5 DEF ReceiveReply, FrontData
<1>7. /\ \A x \in Lookup : pc[x] # "idle" => pc'[x] # "idle"
      /\ \A x \in Lookup : ret'[x] # "foreign"
  BY <1>2, <1>5, <1>6 DEF TypeOK
<1>8. \A o \in Server : o # s => LookupInv(o)'
  BY <1>1, <1>2, <1>3, <1>4, <1>7, LookupOthers
<1>9. LookupInv(s)'
  <2> DEFINE lst == m_vtRequest[s]
  <2>1. /\ \A i \in 1 .. Len(m_vtRequest'[s]) :
             i + 1 \in 1 .. Len(lst) /\ 1 < i + 1 /\ m_vtRequest'[s][i] = lst[i + 1]
        /\ \A i, j \in 1 .. Len(m_vtRequest'[s]) : i < j => i + 1 < j + 1
        /\ \A i \in 1 .. Len(lst) :
             i = 1 \/ (i - 1 \in 1 .. Len(m_vtRequest'[s]) /\ m_vtRequest'[s][i - 1] = lst[i])
        /\ 1 \in 1 .. Len(lst)
    BY <1>4 DEF Rest
  <2>2. \A i \in 1 .. Len(lst) : lst[i].look \in Lookup /\ lst[i].on \in Connection
    BY Elements
  <2>0. /\ \A i \in 1 .. Len(lst) :
             /\ pc[lst[i].look] # "idle"
             /\ lst[i].on <= gen[s]
             /\ conn[s] = "connecting" => lst[i].on < gen[s]
        /\ \A i, j \in 1 .. Len(lst) :
             i < j => /\ lst[i].look # lst[j].look
                      /\ lst[i].on <= lst[j].on
    BY <1>2 DEF LookupInv, ListInv
  <2>3. ASSUME NEW i \in 1 .. Len(m_vtRequest'[s])
        PROVE  m_vtRequest'[s][i].look # l
    <3>1. i + 1 \in 1 .. Len(lst) /\ 1 < i + 1 /\ m_vtRequest'[s][i] = lst[i + 1]
      BY <2>1
    <3>2. lst[1].look = l /\ 1 \in 1 .. Len(lst)
      BY <1>5, <2>1
    <3>3. lst[1].look # lst[i + 1].look
      BY <2>0, <3>1, <3>2
    <3> QED BY <3>1, <3>2, <3>3
  <2>4. ReplyTaken(inbox'[s], inbox[s], g, l)
    BY <1>2, <1>3, <1>5, CutReply DEF LookupInv, BoxInv
  <2>5. Replied(inbox[s], l)
    BY <1>3, Elements DEF Replied
  <2>6. /\ \A h : Live(s, h)' <=> Live(s, h)
        /\ Reaches(s)' <=> Reaches(s)
    BY <1>1 DEF Live, Reaches, IsTransmit
  <2>7. ListInv(s)'
    <3>1. ASSUME NEW i \in 1 .. Len(m_vtRequest'[s])
          PROVE  /\ pc'[m_vtRequest'[s][i].look] # "idle" /\ m_vtRequest'[s][i].on <= gen'[s]
                 /\ conn'[s] = "connecting" => m_vtRequest'[s][i].on < gen'[s]
      <4>1. i + 1 \in 1 .. Len(lst) /\ m_vtRequest'[s][i] = lst[i + 1]
        BY <2>1
      <4> QED BY <1>1, <1>7, <2>0, <2>2, <4>1
    <3>2. ASSUME NEW i \in 1 .. Len(m_vtRequest'[s]), NEW j \in 1 .. Len(m_vtRequest'[s]), i < j
          PROVE  /\ m_vtRequest'[s][i].look # m_vtRequest'[s][j].look
                 /\ m_vtRequest'[s][i].on <= m_vtRequest'[s][j].on
      <4>1. /\ i + 1 \in 1 .. Len(lst) /\ j + 1 \in 1 .. Len(lst) /\ i + 1 < j + 1
            /\ m_vtRequest'[s][i] = lst[i + 1] /\ m_vtRequest'[s][j] = lst[j + 1]
        BY <2>1, <3>2
      <4> QED BY <2>0, <4>1
    <3> QED BY <3>1, <3>2 DEF ListInv
  <2>8. BoxInv(s)'
    <3>1. /\ RepliesDiffer(inbox'[s]) /\ EndsFirst(inbox'[s])
          /\ \A x \in Lookup : Replied(inbox'[s], x) => pc'[x] # "idle"
      BY <1>2, <1>7, <2>4 DEF LookupInv, BoxInv, ReplyTaken
    <3>2. \A m \in 1 .. Len(inbox'[s]) : \E i \in 1 .. Len(inbox[s]) : inbox'[s][m] = inbox[s][i]
      BY <1>3, CutPlaces
    <3> QED BY <1>1, <1>2, <3>1, <3>2 DEF LookupInv, BoxInv
  <2>9. GetInv(s)'
    BY <1>1, <1>2, <1>7, <2>4 DEF LookupInv, GetInv, ReplyTaken
  <2>10. EndInv(s)'
    BY <1>2, <2>1, <2>4, <2>6 DEF LookupInv, EndInv, ReplyTaken
  <2>11. InOrder(s)'
    <3> SUFFICES ASSUME NEW i \in 1 .. Len(m_vtRequest'[s]),
                        NEW j \in 1 .. Len(m_vtRequest'[s]), i < j,
                        m_vtRequest'[s][i].on = m_vtRequest'[s][j].on,
                        NEW h, h = m_vtRequest'[s][j].on,
                        NEW f, f = m_vtRequest'[s][i].look,
                        NEW x, x = m_vtRequest'[s][j].look
                 PROVE  /\ ReplyBefore(inbox'[s], h, f, x)
                        /\ Live(s, h) => HasReply(inbox'[s], h, f) \/ GetBefore(packets[s][h], f, x)
      BY <1>1, <2>6 DEF InOrder
    <3>1. /\ ReplyBefore(inbox[s], h, f, x)
          /\ Live(s, h) => HasReply(inbox[s], h, f) \/ GetBefore(packets[s][h], f, x)
      <4>1. /\ i + 1 \in 1 .. Len(lst) /\ j + 1 \in 1 .. Len(lst) /\ i + 1 < j + 1
            /\ lst[i + 1].on = h /\ lst[j + 1].on = h
            /\ lst[i + 1].look = f /\ lst[j + 1].look = x
        BY <2>1
      <4> QED BY <1>2, <4>1 DEF LookupInv, InOrder
    <3>2. f # l
      BY <2>3
    <3> QED BY <2>4, <3>1, <3>2 DEF ReplyTaken
  <2>12. AllPending(s)'
    <3> SUFFICES ASSUME NEW i \in 1 .. Len(m_vtRequest'[s]), Reaches(s),
                        m_vtRequest'[s][i].on = gen[s],
                        NEW x, x = m_vtRequest'[s][i].look
                 PROVE  HasReply(inbox'[s], gen[s], x) \/ HasGet(packets[s][gen[s]], x)
      BY <1>1, <2>6 DEF AllPending, Pending, Live, Reaches, IsTransmit
    <3>1. HasReply(inbox[s], gen[s], x) \/ HasGet(packets[s][gen[s]], x)
      BY <1>2, <2>1 DEF LookupInv, AllPending, Pending
    <3> QED BY <2>3, <2>4, <3>1 DEF ReplyTaken
  <2>13. AllListed(s)'
    <3> SUFFICES ASSUME NEW h \in Connection, NEW x \in Lookup, Pending(s, h, x)'
                 PROVE  Listed(s, h, x)'
      BY DEF AllListed
    <3>1. Pending(s, h, x) /\ x # l
      <4>1. CASE HasReply(inbox'[s], h, x)
        BY <2>4, <4>1 DEF ReplyTaken, Pending
      <4>2. CASE Live(s, h) /\ HasGet(packets[s][h], x)
        <5>1. ~Replied(inbox[s], x)
          BY <1>2, <4>2 DEF LookupInv, GetInv, Live
        <5> QED BY <2>5, <4>2, <5>1 DEF Pending
      <4> QED BY <1>1, <2>6, <4>1, <4>2 DEF Pending
    <3>2. PICK i \in 1 .. Len(lst) : lst[i].on = h /\ lst[i].look = x
      BY <1>2, <3>1 DEF LookupInv, AllListed, Listed
    <3>3. i # 1
      BY <1>5, <3>1, <3>2
    <3> QED BY <2>1, <3>2, <3>3 DEF Listed
  <2> QED BY <2>7, <2>8, <2>9, <2>10, <2>11, <2>12, <2>13 DEF LookupInv
<1> QED BY <1>7, <1>8, <1>9

-----------------------------------------------------------------------------
(***************************************************************************)
(* Lookups: the ends of connections, and new ones.                         *)
(***************************************************************************)
(* The end of a connection, g, is taken. *)
EndTaken(t, q, g) ==
  /\ \A x : Replied(t, x) => Replied(q, x)
  /\ \A h, x : HasReply(t, h, x) => HasReply(q, h, x) /\ g < h
  /\ RepliesDiffer(t) /\ EndsFirst(t)

LEMMA CutEnd ==
  ASSUME NEW t, NEW q, NEW k, Len(q) \in Nat, Len(t) \in Nat, Cut(t, q, k), IsEnd(q[k]),
         Foremost(q, k), RepliesDiffer(q), EndsFirst(q)
  PROVE  EndTaken(t, q, q[k].on)
<1>1. /\ k \in 1 .. Len(q)
      /\ \A i \in 1 .. Len(t) : Up(i, k) \in 1 .. Len(q) /\ Up(i, k) # k /\ t[i] = q[Up(i, k)]
      /\ \A i, j \in 1 .. Len(t) : i < j <=> Up(i, k) < Up(j, k)
  BY CutPlaces DEF Cut
<1>2. \A m, j \in 1 .. Len(t) : m < j =>
        /\ Up(m, k) \in 1 .. Len(q) /\ Up(j, k) \in 1 .. Len(q) /\ Up(m, k) < Up(j, k)
        /\ t[m] = q[Up(m, k)] /\ t[j] = q[Up(j, k)]
  BY <1>1
<1>3. ASSUME NEW x, Replied(t, x)
      PROVE  Replied(q, x)
  BY <1>1, <1>3 DEF Replied
<1>4. ASSUME NEW h, NEW x, HasReply(t, h, x)
      PROVE  HasReply(q, h, x) /\ q[k].on < h
  <2>1. PICK i \in 1 .. Len(q) : i # k /\ IsReply(q[i], h) /\ q[i].look = x
    BY <1>1, <1>4 DEF HasReply
  <2>2. k < i
    BY <1>1, <2>1 DEF Foremost, IsReply
  <2>3. q[k].on < h
    BY <1>1, <2>1, <2>2 DEF EndsFirst, IsReply
  <2> QED BY <2>1, <2>3 DEF HasReply
<1>5. RepliesDiffer(t)
  BY <1>2 DEF RepliesDiffer
<1>6. EndsFirst(t)
  BY <1>2 DEF EndsFirst
<1> QED BY <1>3, <1>4, <1>5, <1>6 DEF EndTaken

LEMMA LookupsDisconnect ==
  ASSUME NamesConstants, TypeOK, LookupsInv, NEW s \in Server, NEW k, ReceiveDisconnect(s, k)
  PROVE  LookupsInv'
<1> SUFFICES ASSUME ~overtaken'
             PROVE  /\ \A o \in Server : LookupInv(o)'
                    /\ \A x \in Lookup : ret'[x] # "foreign"
  BY DEF LookupsInv
<1> DEFINE lst == m_vtRequest[s]
           waiting == {lst[i] : i \in DOMAIN lst}
           looks == {e.look : e \in waiting}
<1>1. /\ NextMessage(s, "disconnect", k)
      /\ ~overtaken /\ ~Passes(s, k) /\ ~\E e \in waiting : e.on # inbox[s][k].on
      /\ pc' = [x \in Lookup |-> IF x \in looks THEN "done" ELSE pc[x]]
      /\ ret' = [x \in Lookup |-> IF x \in looks THEN "fail" ELSE ret[x]]
      /\ m_vtRequest' = [m_vtRequest EXCEPT ![s] = <<>>]
      /\ UNCHANGED <<conn, gen, packets, session>>
  BY DEF ReceiveDisconnect, netVars, centerVars
<1>2. ~overtaken /\ LookupInv(s) /\ \A x \in Lookup : ret[x] # "foreign"
  BY <1>1 DEF LookupsInv
<1>3. /\ \A o \in Server : o # s => inbox'[o] = inbox[o]
      /\ Cut(inbox'[s], inbox[s], k) /\ Len(inbox'[s]) \in Nat /\ Len(inbox[s]) \in Nat
      /\ k \in 1 .. Len(inbox[s]) /\ Foremost(inbox[s], k)
      /\ inbox[s][k] \in Message /\ IsEnd(inbox[s][k])
  BY <1>1, NextMessageDoes, NothingPassed DEF IsEnd
<1>4. \A i \in 1 .. Len(lst) : lst[i].on = inbox[s][k].on
  <2>1. lst \in Seq([look : Lookup, on : Connection])
    BY DEF TypeOK
  <2>2. \A i \in 1 .. Len(lst) : lst[i] \in waiting
    BY <2>1
  <2>3. \A e \in waiting : e.on = inbox[s][k].on
    BY <1>1, <1>3
  <2> HIDE DEF waiting
  <2> QED BY <2>2, <2>3
<1>5. /\ \A x \in Lookup : pc[x] # "idle" => pc'[x] # "idle"
      /\ \A x \in Lookup : ret'[x] # "foreign"
  <2> HIDE DEF looks
  <2> QED BY <1>1, <1>2
<1> HIDE DEF waiting, looks
<1>6. /\ \A o \in Server : o # s => m_vtRequest'[o] = m_vtRequest[o]
      /\ Len(m_vtRequest'[s]) = 0
  BY <1>1 DEF TypeOK
<1>7. \A o \in Server : o # s => LookupInv(o)'
  BY <1>1, <1>2, <1>3, <1>5, <1>6, LookupOthers
<1>8. LookupInv(s)'
  <2>1. \A i \in 1 .. Len(m_vtRequest'[s]) : FALSE
    BY <1>6
  <2>2. EndTaken(inbox'[s], inbox[s], inbox[s][k].on)
    BY <1>2, <1>3, CutEnd DEF LookupInv, BoxInv
  <2>3. ListInv(s)' /\ EndInv(s)'
    BY <2>1 DEF ListInv, EndInv
  <2>4. InOrder(s)' /\ AllPending(s)'
    BY <2>1 DEF InOrder, AllPending
  <2>5. BoxInv(s)'
    <3>1. /\ RepliesDiffer(inbox'[s]) /\ EndsFirst(inbox'[s])
          /\ \A x \in Lookup : Replied(inbox'[s], x) => pc'[x] # "idle"
      BY <1>2, <1>5, <2>2 DEF LookupInv, BoxInv, EndTaken
    <3>2. \A m \in 1 .. Len(inbox'[s]) : \E i \in 1 .. Len(inbox[s]) : inbox'[s][m] = inbox[s][i]
      BY <1>3, CutPlaces
    <3> QED BY <1>1, <1>2, <3>1, <3>2 DEF LookupInv, BoxInv
  <2>6. GetInv(s)'
    BY <1>1, <1>2, <1>5, <2>2 DEF LookupInv, GetInv, EndTaken
  <2>7. AllListed(s)'
    <3> SUFFICES ASSUME NEW h \in Connection, NEW x \in Lookup, Pending(s, h, x)'
                 PROVE  FALSE
      BY DEF AllListed
    <3>1. Pending(s, h, x)
      BY <1>1, <2>2 DEF Pending, EndTaken, Live
    <3>2. h = inbox[s][k].on /\ h \in Nat
      BY <1>2, <1>4, <3>1 DEF LookupInv, AllListed, Listed, Connection
    <3>3. CASE HasReply(inbox'[s], h, x)
      BY <2>2, <3>2, <3>3 DEF EndTaken
    <3>4. CASE Live(s, h)
      <4>1. h < gen[s] \/ conn[s] = "closed"
        BY <1>2, <1>3, <3>2 DEF LookupInv, BoxInv
      <4> QED BY <3>2, <3>4, <4>1 DEF Live
    <3> QED BY <1>1, <3>3, <3>4 DEF Pending, Live
  <2> QED BY <2>3, <2>4, <2>5, <2>6, <2>7 DEF LookupInv
<1> QED BY <1>5, <1>7, <1>8

(* There is no connection, and then there is none that is up. *)
LEMMA LookupDown ==
  ASSUME NamesConstants, TypeOK, NEW s \in Server, LookupInv(s),
         UNCHANGED <<m_vtRequest, pc, inbox, packets, session>>,
         conn[s] # "up", conn'[s] # "up", gen'[s] \in Nat, gen[s] <= gen'[s],
         conn'[s] = "closed" \/ gen[s] < gen'[s]
  PROVE  LookupInv(s)'
<1>1. /\ \A g : ~Live(s, g) /\ ~Live(s, g)'
      /\ ~Reaches(s)'
      /\ gen[s] \in Nat
      /\ \A i \in 1 .. Len(m_vtRequest[s]) : m_vtRequest[s][i].on \in Nat
  BY Elements DEF Live, Reaches, IsTransmit, Connection
<1>2. ListInv(s)'
  <2>1. \A i \in 1 .. Len(m_vtRequest[s]) :
          /\ pc[m_vtRequest[s][i].look] # "idle"
          /\ m_vtRequest[s][i].on <= gen[s]
    BY DEF LookupInv, ListInv
  <2>2. \A i \in 1 .. Len(m_vtRequest[s]) :
          /\ m_vtRequest[s][i].on <= gen'[s]
          /\ conn'[s] = "connecting" => m_vtRequest[s][i].on < gen'[s]
    BY <1>1, <2>1
  <2> QED BY <2>1, <2>2 DEF LookupInv, ListInv
<1>3. BoxInv(s)'
  <2>1. \A m \in 1 .. Len(inbox[s]) :
          /\ inbox[s][m].kind = "reply" => inbox[s][m].on <= gen[s] /\ inbox[s][m].on \in Nat
          /\ IsEnd(inbox[s][m]) => inbox[s][m].on <= gen[s] /\ inbox[s][m].on \in Nat
    BY Elements, MessageKinds DEF LookupInv, BoxInv, IsEnd, Connection
  <2>2. \A m \in 1 .. Len(inbox[s]) :
          /\ inbox[s][m].kind = "reply" => inbox[s][m].on <= gen'[s]
          /\ IsEnd(inbox[s][m]) => /\ inbox[s][m].on <= gen'[s]
                                   /\ inbox[s][m].on < gen'[s] \/ conn'[s] = "closed"
    BY <1>1, <2>1
  <2> QED BY <2>2 DEF LookupInv, BoxInv
<1>4. GetInv(s)' /\ EndInv(s)'
  BY <1>1 DEF LookupInv, GetInv, EndInv
<1>5. InOrder(s)' /\ AllPending(s)'
  BY <1>1 DEF LookupInv, InOrder, AllPending
<1>6. AllListed(s)'
  BY <1>1 DEF LookupInv, AllListed, Listed, Pending
<1> QED BY <1>2, <1>3, <1>4, <1>5, <1>6 DEF LookupInv

LEMMA LookupsConnect ==
  ASSUME NamesConstants, TypeOK, LookupsInv, NEW s \in Server,
         CheckConnect(s) \/ ConnectFails(s)
  PROVE  LookupsInv'
<1> SUFFICES ASSUME ~overtaken'
             PROVE  /\ \A o \in Server : LookupInv(o)'
                    /\ \A x \in Lookup : ret'[x] # "foreign"
  BY DEF LookupsInv
<1>1. /\ UNCHANGED <<m_vtRequest, pc, ret, inbox, packets, session, overtaken>>
      /\ conn[s] # "up" /\ conn'[s] # "up" /\ gen'[s] \in Nat /\ gen[s] <= gen'[s]
      /\ conn'[s] = "closed" \/ gen[s] < gen'[s]
      /\ \A o \in Server : o # s => conn'[o] = conn[o] /\ gen'[o] = gen[o]
  <2>1. conn \in [Server -> {"closed", "connecting", "up"}] /\ gen \in [Server -> Connection]
    BY DEF TypeOK
  <2>2. gen[s] \in Nat
    BY <2>1 DEF Connection
  <2>3. CASE CheckConnect(s)
    BY <2>1, <2>2, <2>3 DEF CheckConnect, lookVars, centerVars
  <2>4. CASE ConnectFails(s)
    BY <2>1, <2>2, <2>4 DEF ConnectFails, lookVars, centerVars
  <2> QED BY <2>3, <2>4
<1>2. ~overtaken /\ LookupInv(s) /\ \A x \in Lookup : ret[x] # "foreign"
  BY <1>1 DEF LookupsInv
<1>3. LookupInv(s)'
  BY <1>1, <1>2, LookupDown
<1>4. \A o \in Server : o # s => LookupInv(o)'
  BY <1>1, <1>2, LookupOthers
<1> QED BY <1>1, <1>2, <1>3, <1>4

(* The end of a connection is put into the queue. *)
EndPut(t, q) ==
  /\ \A x : Replied(t, x) => Replied(q, x)
  /\ \A h, x : HasReply(t, h, x) => HasReply(q, h, x)
  /\ RepliesDiffer(q) => RepliesDiffer(t)
  /\ EndsFirst(q) => EndsFirst(t)
  /\ \A h : EndBetween(q, h) => EndBetween(t, h)
  /\ HasEnd(t)
  /\ \A h, f, x : ReplyBefore(q, h, f, x) => ReplyBefore(t, h, f, x)

LEMMA LongerEnd ==
  ASSUME NEW t, NEW q, NEW e, Len(q) \in Nat, Longer(t, q, e), IsEnd(e)
  PROVE  EndPut(t, q)
<1> DEFINE z == Len(q) + 1
<1>1. /\ z \in 1 .. Len(t) /\ IsEnd(t[z])
      /\ \A i \in 1 .. Len(q) : i \in 1 .. Len(t) /\ t[i] = q[i]
      /\ \A i \in 1 .. Len(t) : i = z \/ i \in 1 .. Len(q)
      /\ \A i, k \in 1 .. Len(t) : i < k => i \in 1 .. Len(q)
  BY DEF Longer
<1> HIDE DEF z
<1>2. \A i \in 1 .. Len(t) : t[i].kind = "reply" => i \in 1 .. Len(q) /\ t[i] = q[i]
  BY <1>1 DEF IsEnd
<1>3. ASSUME NEW x, Replied(t, x)
      PROVE  Replied(q, x)
  BY <1>2, <1>3 DEF Replied
<1>4. ASSUME NEW h, NEW x, HasReply(t, h, x)
      PROVE  HasReply(q, h, x)
  BY <1>2, <1>4 DEF HasReply, IsReply
<1>5. RepliesDiffer(q) => RepliesDiffer(t)
  BY <1>2 DEF RepliesDiffer
<1>6. EndsFirst(q) => EndsFirst(t)
  <2> SUFFICES ASSUME EndsFirst(q), NEW m \in 1 .. Len(t), NEW k \in 1 .. Len(t), m < k,
                      IsEnd(t[m]), t[k].kind = "reply"
               PROVE  t[m].on < t[k].on
    BY DEF EndsFirst
  <2>1. m \in 1 .. Len(q) /\ t[m] = q[m] /\ k \in 1 .. Len(q) /\ t[k] = q[k]
    BY <1>1, <1>2
  <2> QED BY <2>1 DEF EndsFirst
<1>7. ASSUME NEW h, EndBetween(q, h)
      PROVE  EndBetween(t, h)
  BY <1>1, <1>2, <1>7 DEF EndBetween
<1>8. HasEnd(t)
  BY <1>1 DEF HasEnd
<1>9. ASSUME NEW h, NEW f, NEW x, ReplyBefore(q, h, f, x)
      PROVE  ReplyBefore(t, h, f, x)
  BY <1>1, <1>2, <1>9 DEF ReplyBefore, IsReply
<1> QED BY <1>3, <1>4, <1>5, <1>6, <1>7, <1>8, <1>9 DEF EndPut

LEMMA LookupsOnDisconnect ==
  ASSUME NamesConstants, TypeOK, LookupsInv, NEW s \in Server, OnDisconnect(s)
  PROVE  LookupsInv'
<1> SUFFICES ASSUME ~overtaken'
             PROVE  /\ \A o \in Server : LookupInv(o)'
                    /\ \A x \in Lookup : ret'[x] # "foreign"
  BY DEF LookupsInv
<1> PICK g : g = gen[s]
  OBVIOUS
<1> DEFINE e == [kind |-> "disconnect", on |-> g]
<1>0. g \in Connection /\ g \in Nat /\ Len(inbox[s]) \in Nat
  BY Elements DEF Connection
<1>1. /\ UNCHANGED <<m_vtRequest, pc, ret, gen, packets, session, overtaken>>
      /\ conn[s] = "up" /\ conn'[s] = "closed"
      /\ \A o \in Server : o # s => conn'[o] = conn[o]
      /\ inbox' = [inbox EXCEPT ![s] = Append(@, e)]
  BY DEF OnDisconnect, lookVars, centerVars, TypeOK
<1>2. ~overtaken /\ LookupInv(s) /\ \A x \in Lookup : ret[x] # "foreign"
  BY <1>1 DEF LookupsInv
<1>3. IsEnd(e) /\ e.on = g /\ e \in Message /\ e.kind # "reply"
  BY <1>0, MessageKinds DEF IsEnd
<1> HIDE DEF e
<1>4. /\ Longer(inbox'[s], inbox[s], e)
      /\ \A o \in Server : o # s => inbox'[o] = inbox[o]
  <2>1. inbox \in [Server -> Seq(Message)] /\ inbox[s] \in Seq(Message)
    BY DEF TypeOK
  <2>2. Longer(Append(inbox[s], e), inbox[s], e)
    BY <1>3, <2>1, AppendIsLonger
  <2> QED BY <1>1, <2>1, <2>2
<1>5. \A o \in Server : o # s => LookupInv(o)'
  BY <1>1, <1>2, <1>4, LookupOthers
<1>6. LookupInv(s)'
  <2>1. EndPut(inbox'[s], inbox[s])
    BY <1>0, <1>3, <1>4, LongerEnd
  <2>2. (\A h : ~Live(s, h)') /\ ~Reaches(s)'
    BY <1>1 DEF Live, Reaches, IsTransmit
  <2>3. ListInv(s)'
    BY <1>1, <1>2 DEF LookupInv, ListInv
  <2>4. BoxInv(s)'
    <3>1. /\ RepliesDiffer(inbox'[s]) /\ EndsFirst(inbox'[s])
          /\ \A x \in Lookup : Replied(inbox'[s], x) => pc'[x] # "idle"
      BY <1>1, <1>2, <2>1 DEF LookupInv, BoxInv, EndPut
    <3>2. ASSUME NEW m \in 1 .. Len(inbox'[s])
          PROVE  /\ inbox'[s][m].kind = "reply" => inbox'[s][m].on <= g
                 /\ IsEnd(inbox'[s][m]) => inbox'[s][m].on <= g
      <4>1. inbox'[s][m] = e \/ (m \in 1 .. Len(inbox[s]) /\ inbox'[s][m] = inbox[s][m])
        BY <1>0, <1>4 DEF Longer
      <4> QED BY <1>0, <1>2, <1>3, <4>1 DEF LookupInv, BoxInv
    <3> QED BY <1>1, <3>1, <3>2 DEF BoxInv
  <2>5. GetInv(s)' /\ EndInv(s)'
    BY <1>1, <1>2, <2>1 DEF LookupInv, GetInv, EndInv, EndPut
  <2>6. InOrder(s)' /\ AllPending(s)'
    BY <1>1, <1>2, <2>1, <2>2 DEF LookupInv, InOrder, AllPending, EndPut
  <2>7. AllListed(s)'
    BY <1>1, <1>2, <2>1, <2>2 DEF LookupInv, AllListed, Listed, Pending, EndPut
  <2> QED BY <2>3, <2>4, <2>5, <2>6, <2>7 DEF LookupInv
<1> QED BY <1>1, <1>2, <1>5, <1>6

LEMMA LookupsOnConnect ==
  ASSUME NamesConstants, TypeOK, LookupsInv, NEW s \in Server, OnConnect(s)
  PROVE  LookupsInv'
<1> SUFFICES ASSUME ~overtaken'
             PROVE  /\ \A o \in Server : LookupInv(o)'
                    /\ \A x \in Lookup : ret'[x] # "foreign"
  BY DEF LookupsInv
<1> PICK g : g = gen[s]
  OBVIOUS
<1>0. g \in Connection /\ g \in Nat
  BY Elements DEF Connection
<1>1. /\ UNCHANGED <<m_vtRequest, pc, ret, gen, inbox, overtaken>>
      /\ conn[s] = "connecting" /\ conn'[s] = "up"
      /\ \A o \in Server : o # s => conn'[o] = conn[o]
      /\ session' = [session EXCEPT ![s][g] = "new"]
      /\ packets' = [packets EXCEPT ![s][g] = <<[kind |-> "register"]>>]
  BY DEF OnConnect, lookVars, TypeOK
<1>2. ~overtaken /\ LookupInv(s) /\ \A x \in Lookup : ret[x] # "foreign"
  BY <1>1 DEF LookupsInv
<1>3. /\ \A o \in Server : o # s => packets'[o] = packets[o] /\ session'[o] = session[o]
      /\ \A i \in 1 .. Len(packets'[s][g]) : packets'[s][g][i].kind # "get"
  <2> DEFINE v == <<[kind |-> "register"]>>
  <2>1. /\ v \in Seq(Packet) /\ \A i \in 1 .. Len(v) : v[i].kind # "get"
    BY PacketKinds
  <2> HIDE DEF v
  <2>2. /\ session \in [Server -> [Connection -> {"none", "new", "bound", "refused", "ended"}]]
        /\ packets \in [Server -> [Connection -> Seq(Packet)]]
        /\ packets' = [packets EXCEPT ![s][g] = v]
    BY <1>1 DEF TypeOK, v
  <2>3. packets'[s][g] = v /\ \A o \in Server : o # s => packets'[o] = packets[o]
    BY <1>0, <2>1, <2>2, Put
  <2>4. \A o \in Server : o # s => session'[o] = session[o]
    BY <1>1, <2>2
  <2> QED BY <2>1, <2>3, <2>4
<1>4. \A o \in Server : o # s => LookupInv(o)'
  BY <1>1, <1>2, <1>3, LookupOthers
<1>5. LookupInv(s)'
  <2>1. GetsSimilar(packets'[s][g], packets[s][g]) /\ \A x \in Lookup : ~HasGet(packets'[s][g], x)
    BY <1>3, EmptyGets
  <2>2. \A i \in 1 .. Len(m_vtRequest[s]) : /\ m_vtRequest[s][i].on \in Nat
                                            /\ m_vtRequest[s][i].on < g
    BY <1>1, <1>2, Elements DEF LookupInv, ListInv, Connection
  <2>3. /\ \A h : ~Live(s, h) /\ (Live(s, h)' <=> h = g)
    BY <1>1 DEF Live
  <2>4. ListInv(s)'
    BY <1>1, <1>2 DEF LookupInv, ListInv
  <2>5. BoxInv(s)'
    BY <1>1, <1>2 DEF LookupInv, BoxInv
  <2>6. GetInv(s)'
    <3>1. GetsDiffer(packets'[s][g])
      BY <1>3 DEF GetsDiffer
    <3> QED BY <1>1, <2>1, <3>1 DEF GetInv
  <2>7. EndInv(s)'
    BY <1>1, <1>2, <2>3 DEF LookupInv, EndInv
  <2>8. InOrder(s)'
    <3>1. ASSUME NEW i \in 1 .. Len(m_vtRequest[s])
          PROVE  ~Live(s, m_vtRequest[s][i].on)'
      <4>1. m_vtRequest[s][i].on # g
        BY <1>0, <2>2
      <4> QED BY <1>1, <4>1 DEF Live
    <3> QED BY <1>1, <1>2, <3>1 DEF LookupInv, InOrder
  <2>9. AllPending(s)'
    BY <1>1, <2>2 DEF AllPending
  <2>10. AllListed(s)'
    BY <1>1, <1>2, <2>1, <2>3 DEF LookupInv, AllListed, Listed, Pending
  <2> QED BY <2>4, <2>5, <2>6, <2>7, <2>8, <2>9, <2>10 DEF LookupInv
<1> QED BY <1>1, <1>2, <1>4, <1>5

-----------------------------------------------------------------------------
(***************************************************************************)
(* Types.                                                                  *)
(***************************************************************************)
(* A connection that is given up is there. *)
DoomedOK == doomed \in [Server -> BOOLEAN] /\ \A s \in Server : doomed[s] => conn[s] # "closed"

LEMMA DoomedKept ==
  ASSUME TypeOK, UNCHANGED <<doomed, conn>>
  PROVE  DoomedOK'
BY DEF TypeOK, DoomedOK

LEMMA DoomedLater ==
  ASSUME TypeOK, NEW s \in Server, NEW b \in BOOLEAN, b => conn[s] # "closed",
         doomed' = [doomed EXCEPT ![s] = b], conn' = conn
  PROVE  DoomedOK'
BY DEF TypeOK, DoomedOK

LEMMA ErrorCloses ==
  ASSUME TypeOK, NEW s \in Server, ErrorClose(s), conn' = conn
  PROVE  DoomedOK'
<1> DEFINE b == doomed[s] \/ conn[s] # "closed"
<1>1. b \in BOOLEAN /\ (b => conn[s] # "closed") /\ doomed' = [doomed EXCEPT ![s] = b]
  BY DEF TypeOK, ErrorClose
<1> QED BY <1>1, DoomedLater

(* The names of a server. *)
LEMMA TypeTell ==
  ASSUME NamesConstants, TypeOK, NEW s \in Server, NEW n \in Name,
         Register(s, n) \/ UnRegister(s, n)
  PROVE  TypeOK'
<1>1. /\ UNCHANGED <<m_map, lookVars, netVars, inbox, centerVars, overtaken>>
      /\ changes < MaxChange /\ changes' = changes + 1
  BY DEF Register, UnRegister, Tell, Change
<1>2. named' \in [Server -> SUBSET Name]
  <2>1. named \in [Server -> SUBSET Name]
    BY DEF TypeOK
  <2>2. named[s] \cup {n} \in SUBSET Name /\ named[s] \ {n} \in SUBSET Name
    BY <2>1
  <2>3. \/ named' = [named EXCEPT ![s] = named[s] \cup {n}]
        \/ named' = [named EXCEPT ![s] = named[s] \ {n}]
    BY DEF Register, UnRegister
  <2> QED BY <2>1, <2>2, <2>3
<1>3. ops' \in [Server -> SUBSET [op : {"create", "delete"}, name : Name]]
  <2>1. \A o \in {"create", "delete"} :
          [op |-> o, name |-> n] \in [op : {"create", "delete"}, name : Name]
    OBVIOUS
  <2>2. CASE Register(s, n)
    BY <2>1, <2>2 DEF TypeOK, Register, Tell
  <2>3. CASE UnRegister(s, n)
    BY <2>1, <2>3 DEF TypeOK, UnRegister, Tell
  <2> QED BY <2>2, <2>3
<1>4. disturbed' \subseteq (Server \cup {Center}) \X Name
  <2>1. <<s, n>> \in (Server \cup {Center}) \X Name
    OBVIOUS
  <2>2. Others(s, n) \subseteq (Server \cup {Center}) \X Name
    BY DEF Others
  <2>3. disturbed \subseteq (Server \cup {Center}) \X Name
    BY DEF TypeOK
  <2> QED BY <2>1, <2>2, <2>3 DEF Register, UnRegister, Tell
<1>5. changes' \in 0 .. MaxChange
  BY <1>1 DEF TypeOK, NamesConstants
<1> QED BY <1>1, <1>2, <1>3, <1>4, <1>5 DEF TypeOK, lookVars, netVars, centerVars

LEMMA TypeMaps ==
  ASSUME NamesConstants, TypeOK, NEW s \in Server, NEW n \in Name,
         CreateMap(s, n) \/ DelMap(s, n)
  PROVE  TypeOK'
<1>1. UNCHANGED <<named, lookVars, netVars, inbox, session, known, changes, overtaken>>
  BY DEF CreateMap, DelMap
<1>2. m_map' \in [Server -> SUBSET Name]
  <2>1. m_map \in [Server -> SUBSET Name]
    BY DEF TypeOK
  <2>2. m_map[s] \cup {n} \in SUBSET Name /\ m_map[s] \ {n} \in SUBSET Name
    BY <2>1
  <2>3. \/ m_map' = [m_map EXCEPT ![s] = m_map[s] \cup {n}]
        \/ m_map' = [m_map EXCEPT ![s] = m_map[s] \ {n}]
    BY DEF CreateMap, DelMap
  <2> QED BY <2>1, <2>2, <2>3
<1>3. ops' \in [Server -> SUBSET [op : {"create", "delete"}, name : Name]]
  <2> DEFINE S == [op : {"create", "delete"}, name : Name]
  <2>1. ops \in [Server -> SUBSET S]
    BY DEF TypeOK
  <2>2. PICK e : ops' = [ops EXCEPT ![s] = ops[s] \ {e}]
    BY DEF CreateMap, DelMap, TakeOp
  <2> HIDE DEF S
  <2>3. ops[s] \ {e} \in SUBSET S
    BY <2>1
  <2>4. ops' \in [Server -> SUBSET S]
    BY <2>1, <2>2, <2>3
  <2> QED BY <2>4 DEF S
<1>4. packets' \in [Server -> [Connection -> Seq(Packet)]]
  <2>1. CASE UNCHANGED packets
    BY <2>1 DEF TypeOK
  <2>2. CASE Send(s, [kind |-> "create", names |-> {n}])
    BY <2>2, SendDoes, PacketKinds
  <2>3. CASE Send(s, [kind |-> "delete", name |-> n])
    BY <2>3, SendDoes, PacketKinds
  <2> QED BY <2>1, <2>2, <2>3 DEF CreateMap, DelMap
<1>5. disturbed' \subseteq (Server \cup {Center}) \X Name
  <2>1. <<s, n>> \in (Server \cup {Center}) \X Name
    OBVIOUS
  <2>2. disturbed \subseteq (Server \cup {Center}) \X Name
    BY DEF TypeOK
  <2> QED BY <2>1, <2>2 DEF CreateMap, DelMap
<1> QED BY <1>1, <1>2, <1>3, <1>4, <1>5 DEF TypeOK, lookVars, netVars

LEMMA TypeGetMap ==
  ASSUME NamesConstants, TypeOK, NEW l \in Lookup, GetMap(l)
  PROVE  TypeOK'
<1> PICK s : s = Asker[l]
  OBVIOUS
<1>0. s \in Server /\ gen[s] \in Connection
  BY Elements DEF NamesConstants
<1>1. UNCHANGED <<serverVars, ret, netVars, inbox, session, known, changes, overtaken, disturbed>>
  BY DEF GetMap
<1>2. pc' \in [Lookup -> {"idle", "sent", "done"}]
  BY DEF TypeOK, GetMap
<1>3. m_vtRequest' \in [Server -> Seq([look : Lookup, on : Connection])]
  <2> DEFINE e == [look |-> l, on |-> gen[s]]
  <2>1. e \in [look : Lookup, on : Connection]
    BY <1>0
  <2>2. m_vtRequest' = [m_vtRequest EXCEPT ![s] = Append(@, e)]
    BY DEF GetMap
  <2> HIDE DEF e
  <2>3. /\ m_vtRequest \in [Server -> Seq([look : Lookup, on : Connection])]
        /\ m_vtRequest[s] \in Seq([look : Lookup, on : Connection])
    BY <1>0 DEF TypeOK
  <2>4. Append(m_vtRequest[s], e) \in Seq([look : Lookup, on : Connection])
    BY <2>1, <2>3, AppendIsLonger
  <2> QED BY <2>2, <2>3, <2>4
<1>4. packets' \in [Server -> [Connection -> Seq(Packet)]]
  <2>1. [kind |-> "get", look |-> l] \in Packet /\ Send(s, [kind |-> "get", look |-> l])
    BY PacketKinds DEF GetMap
  <2> QED BY <1>0, <2>1, SendDoes
<1> QED BY <1>1, <1>2, <1>3, <1>4 DEF TypeOK, serverVars, netVars

(* The messages of the connection. *)
LEMMA TypeReceiveRegister ==
  ASSUME NamesConstants, TypeOK, NEW s \in Server, NEW k,
         ReceiveRegister(s, k)
  PROVE  TypeOK'
<1>1. /\ UNCHANGED <<serverVars, lookVars, conn, gen, session, known, changes, overtaken, disturbed>>
      /\ NextMessage(s, "registered", k)
  BY DEF ReceiveRegister
<1>2. inbox' \in [Server -> Seq(Message)]
  BY <1>1, NextMessageDoes
<1>3. DoomedOK'
  <2>1. CASE ErrorClose(s)
    BY <1>1, <2>1, ErrorCloses
  <2>2. CASE UNCHANGED doomed
    BY <1>1, <2>2, DoomedKept
  <2> QED BY <2>1, <2>2 DEF ReceiveRegister
<1>4. packets' \in [Server -> [Connection -> Seq(Packet)]]
  <2>1. CASE UNCHANGED packets
    BY <2>1 DEF TypeOK
  <2>2. CASE Send(s, [kind |-> "create", names |-> m_map[s]])
    <3>1. [kind |-> "create", names |-> m_map[s]] \in Packet
      BY PacketKinds DEF TypeOK
    <3> QED BY <2>2, <3>1, SendDoes
  <2> QED BY <2>1, <2>2 DEF ReceiveRegister, SendNames
<1> QED BY <1>1, <1>2, <1>3, <1>4 DEF TypeOK, DoomedOK, serverVars, lookVars

LEMMA TypeReplies ==
  ASSUME NamesConstants, TypeOK, NEW s \in Server, NEW k,
         \/ ReceiveError(s, k) \/ ReceiveReplyNoRequest(s, k) \/ ReceiveReply(s, k)
         \/ ReceiveDisconnect(s, k)
  PROVE  TypeOK'
<1>1. /\ UNCHANGED <<serverVars, conn, gen, centerVars, changes, disturbed>>
      /\ \E kind : NextMessage(s, kind, k)
  BY DEF ReceiveError, ReceiveReplyNoRequest, ReceiveReply, ReceiveDisconnect, netVars
<1>2. inbox' \in [Server -> Seq(Message)]
  BY <1>1, NextMessageDoes
<1>3. DoomedOK'
  <2>1. CASE ErrorClose(s)
    BY <1>1, <2>1, ErrorCloses
  <2>2. CASE UNCHANGED doomed
    BY <1>1, <2>2, DoomedKept
  <2> QED BY <2>1, <2>2 DEF ReceiveError, ReceiveReplyNoRequest, ReceiveReply,
                           ReceiveDisconnect, netVars
<1>4. m_vtRequest' \in [Server -> Seq([look : Lookup, on : Connection])]
  <2> DEFINE S == [look : Lookup, on : Connection]
  <2>0. m_vtRequest \in [Server -> Seq(S)]
    BY DEF TypeOK
  <2>1. m_vtRequest \in [Server -> Seq(S)] /\ m_vtRequest[s] \in Seq(S) /\ <<>> \in Seq(S)
    <3> HIDE DEF S
    <3> QED BY <2>0
  <2>2. m_vtRequest[s] # <<>> => Tail(m_vtRequest[s]) \in Seq(S)
    BY <2>1, TailIsRest
  <2> HIDE DEF S
  <2>3. \/ m_vtRequest' = m_vtRequest
        \/ m_vtRequest' = [m_vtRequest EXCEPT ![s] = <<>>]
        \/ m_vtRequest[s] # <<>> /\ m_vtRequest' = [m_vtRequest EXCEPT ![s] = Tail(m_vtRequest[s])]
    BY DEF ReceiveError, ReceiveReplyNoRequest, ReceiveReply, ReceiveDisconnect, lookVars
  <2>4. m_vtRequest' \in [Server -> Seq(S)]
    BY <2>1, <2>2, <2>3
  <2> QED BY <2>4 DEF S
<1>5. /\ pc' \in [Lookup -> {"idle", "sent", "done"}]
      /\ ret' \in [Lookup -> {"none", "own", "foreign", "fail"}]
      /\ overtaken' \in BOOLEAN
  <2>1. /\ pc \in [Lookup -> {"idle", "sent", "done"}] /\ overtaken \in BOOLEAN
        /\ ret \in [Lookup -> {"none", "own", "foreign", "fail"}]
    BY DEF TypeOK
  <2>2. CASE ReceiveError(s, k) \/ ReceiveReplyNoRequest(s, k)
    BY <2>1, <2>2 DEF ReceiveError, ReceiveReplyNoRequest, lookVars
  <2>3. CASE ReceiveReply(s, k)
    BY <2>1, <2>3 DEF ReceiveReply
  <2>4. CASE ReceiveDisconnect(s, k)
    <3>1. PICK looks : /\ pc' = [l \in Lookup |-> IF l \in looks THEN "done" ELSE pc[l]]
                       /\ ret' = [l \in Lookup |-> IF l \in looks THEN "fail" ELSE ret[l]]
      BY <2>4 DEF ReceiveDisconnect
    <3>2. overtaken' \in BOOLEAN
      BY <2>4 DEF ReceiveDisconnect
    <3> QED BY <2>1, <3>1, <3>2
  <2> QED BY <2>2, <2>3, <2>4
<1> QED BY <1>1, <1>2, <1>3, <1>4, <1>5 DEF TypeOK, DoomedOK, serverVars, centerVars

(* The connection. *)
LEMMA TypeConnection ==
  ASSUME NamesConstants, TypeOK, NEW s \in Server,
         \/ OnTimerCheckTimeout(s) \/ CheckConnect(s) \/ OnDisconnect(s) \/ ConnectFails(s)
  PROVE  TypeOK'
<1>1. UNCHANGED <<serverVars, lookVars, centerVars, changes, overtaken, disturbed>>
  BY DEF OnTimerCheckTimeout, CheckConnect, OnDisconnect, ConnectFails
<1>2. conn' \in [Server -> {"closed", "connecting", "up"}] /\ DoomedOK'
  <2>1. CASE OnTimerCheckTimeout(s)
    BY <2>1, ErrorCloses DEF OnTimerCheckTimeout, TypeOK
  <2>2. CASE CheckConnect(s)
    BY <2>2 DEF CheckConnect, TypeOK, DoomedOK
  <2>3. CASE OnDisconnect(s) \/ ConnectFails(s)
    BY <2>3 DEF OnDisconnect, ConnectFails, TypeOK, DoomedOK
  <2> QED BY <2>1, <2>2, <2>3
<1>3. gen' \in [Server -> Connection]
  <2>1. gen \in [Server -> Connection] /\ gen[s] \in Connection
    BY DEF TypeOK
  <2>2. CASE CheckConnect(s)
    <3>1. gen[s] + 1 \in Connection /\ gen' = [gen EXCEPT ![s] = gen[s] + 1]
      BY <2>1, <2>2 DEF CheckConnect, Connection, NamesConstants
    <3> QED BY <2>1, <3>1
  <2>3. CASE ~CheckConnect(s)
    BY <2>1, <2>3 DEF OnTimerCheckTimeout, OnDisconnect, ConnectFails
  <2> QED BY <2>2, <2>3
<1>4. inbox' \in [Server -> Seq(Message)]
  <2>1. inbox \in [Server -> Seq(Message)] /\ inbox[s] \in Seq(Message) /\ gen[s] \in Connection
    BY DEF TypeOK
  <2>2. CASE OnDisconnect(s)
    <3> DEFINE e == [kind |-> "disconnect", on |-> gen[s]]
    <3>1. e \in Message /\ inbox' = [inbox EXCEPT ![s] = Append(@, e)]
      BY <2>1, <2>2, MessageKinds DEF OnDisconnect
    <3> HIDE DEF e
    <3>2. Append(inbox[s], e) \in Seq(Message)
      BY <2>1, <3>1, AppendIsLonger
    <3> QED BY <2>1, <3>1, <3>2
  <2>3. CASE ~OnDisconnect(s)
    BY <2>1, <2>3 DEF OnTimerCheckTimeout, CheckConnect, ConnectFails
  <2> QED BY <2>2, <2>3
<1> QED BY <1>1, <1>2, <1>3, <1>4 DEF TypeOK, DoomedOK, serverVars, lookVars, centerVars

LEMMA TypeOnConnect ==
  ASSUME NamesConstants, TypeOK, NEW s \in Server, OnConnect(s)
  PROVE  TypeOK'
<1>1. UNCHANGED <<serverVars, lookVars, gen, doomed, inbox, known, changes, overtaken, disturbed>>
  BY DEF OnConnect
<1>2. conn' \in [Server -> {"closed", "connecting", "up"}] /\ DoomedOK'
  BY DEF OnConnect, TypeOK, DoomedOK
<1>3. /\ session' \in [Server -> [Connection -> {"none", "new", "bound", "refused", "ended"}]]
  <2>1. session' = [session EXCEPT ![s][gen[s]] = "new"] /\ gen[s] \in Connection
    BY Elements DEF OnConnect
  <2> QED BY <2>1, SessionDoes
<1>4. packets' \in [Server -> [Connection -> Seq(Packet)]]
  <2> DEFINE v == <<[kind |-> "register"]>>
  <2>1. v \in Seq(Packet)
    BY PacketKinds
  <2>2. packets' = [packets EXCEPT ![s][gen[s]] = v] /\ gen[s] \in Connection
    BY Elements DEF OnConnect
  <2> HIDE DEF v
  <2>3. packets \in [Server -> [Connection -> Seq(Packet)]]
    BY DEF TypeOK
  <2> QED BY <2>1, <2>2, <2>3, Put
<1> QED BY <1>1, <1>2, <1>3, <1>4 DEF TypeOK, DoomedOK, serverVars, lookVars

(* The center. *)
LEMMA UnreadType ==
  ASSUME NEW s \in Server, NEW g \in Connection
  PROVE  Unread(s, g) \subseteq (Server \cup {Center}) \X Name
<1> SUFFICES ASSUME NEW e \in Unread(s, g)
             PROVE  e \in (Server \cup {Center}) \X Name
  OBVIOUS
<1>1. PICK n \in Name : e = <<s, n>>
  <2> DEFINE N == {m \in Name : \E i \in DOMAIN packets[s][g] :
                     packets[s][g][i] = [kind |-> "delete", name |-> m]}
  <2>1. N \subseteq Name
    OBVIOUS
  <2>2. e \in {<<s, n>> : n \in N}
    BY DEF Unread
  <2> HIDE DEF N
  <2> QED BY <2>1, <2>2
<1> QED BY <1>1

LEMMA TypeClose ==
  ASSUME NamesConstants, TypeOK, NEW s \in Server, NEW g \in Connection,
         NEW k, GateRegisterRefused(s, g, k) \/ SessionEnds(s, g)
  PROVE  TypeOK'
<1>1. /\ UNCHANGED <<serverVars, lookVars, conn, gen, known, changes, overtaken>>
      /\ packets' = [packets EXCEPT ![s][g] = <<>>]
      /\ disturbed' = disturbed \cup Unread(s, g)
  BY DEF GateRegisterRefused, SessionEnds, netVars
<1>2. packets' \in [Server -> [Connection -> Seq(Packet)]]
  BY <1>1, EmptyDoes
<1>3. session' \in [Server -> [Connection -> {"none", "new", "bound", "refused", "ended"}]]
  <2>1. CASE session' = [session EXCEPT ![s][g] = "refused"]
    BY <2>1, SessionDoes
  <2>2. CASE session' = [session EXCEPT ![s][g] = "ended"]
    BY <2>2, SessionDoes
  <2> QED BY <2>1, <2>2 DEF GateRegisterRefused, SessionEnds
<1>4. inbox' \in [Server -> Seq(Message)] /\ DoomedOK'
  <2>1. CASE GateRegisterRefused(s, g, k)
    <3>1. inbox' \in [Server -> Seq(Message)]
      <4>1. /\ [kind |-> "registered", ok |-> FALSE] \in Message
            /\ Respond(s, g, [kind |-> "registered", ok |-> FALSE])
        BY <2>1, MessageKinds DEF GateRegisterRefused
      <4> QED BY <4>1, RespondDoes
    <3>2. DoomedOK'
      <4> DEFINE b == doomed[s] \/ (conn[s] = "up" /\ gen[s] = g)
      <4>1. b \in BOOLEAN /\ (b => conn[s] # "closed") /\ doomed' = [doomed EXCEPT ![s] = b]
        BY <2>1 DEF TypeOK, GateRegisterRefused
      <4> QED BY <1>1, <4>1, DoomedLater
    <3> QED BY <3>1, <3>2
  <2>2. CASE SessionEnds(s, g)
    BY <2>2, DoomedKept DEF SessionEnds, netVars, TypeOK
  <2> QED BY <2>1, <2>2
<1>5. disturbed' \subseteq (Server \cup {Center}) \X Name
  BY <1>1, UnreadType DEF TypeOK
<1> QED BY <1>1, <1>2, <1>3, <1>4, <1>5 DEF TypeOK, DoomedOK, serverVars, lookVars

LEMMA TypeGate ==
  ASSUME NamesConstants, TypeOK, NEW s \in Server, NEW g \in Connection,
         NEW k, GateRegister(s, g, k) \/ GateGetCtxIDByName(s, g, k)
  PROVE  TypeOK'
<1>1. /\ UNCHANGED <<serverVars, lookVars, netVars, known, changes, disturbed>>
      /\ NextPacket(s, g, "register", k) \/ NextPacket(s, g, "get", k)
      /\ overtaken' \in BOOLEAN
  BY DEF GateRegister, GateGetCtxIDByName, TypeOK
<1>2. packets' \in [Server -> [Connection -> Seq(Packet)]]
  BY <1>1, NextPacketDoes
<1>3. /\ session' \in [Server -> [Connection -> {"none", "new", "bound", "refused", "ended"}]]
      /\ inbox' \in [Server -> Seq(Message)]
  <2>1. CASE GateRegister(s, g, k)
    <3>1. session' = [session EXCEPT ![s][g] = "bound"]
      BY <2>1 DEF GateRegister
    <3>2. /\ [kind |-> "registered", ok |-> TRUE] \in Message
          /\ Respond(s, g, [kind |-> "registered", ok |-> TRUE])
      BY <2>1, MessageKinds DEF GateRegister
    <3>3. inbox' \in [Server -> Seq(Message)]
      BY <3>2, RespondDoes
    <3> QED BY <3>1, <3>3, SessionDoes
  <2>2. CASE GateGetCtxIDByName(s, g, k)
    <3>1. NextPacket(s, g, "get", k) /\ session' = session
      BY <2>2 DEF GateGetCtxIDByName
    <3>2. packets[s][g][k] \in Packet /\ packets[s][g][k].kind = "get"
      BY <3>1, NextPacketDoes
    <3>3. [kind |-> "reply", look |-> packets[s][g][k].look, on |-> g] \in Message
      BY <3>2, PacketKinds, MessageKinds
    <3>4. inbox' \in [Server -> Seq(Message)]
      BY <2>2, <3>3, RespondDoes DEF GateGetCtxIDByName
    <3> QED BY <3>1, <3>4 DEF TypeOK
  <2> QED BY <2>1, <2>2
<1> QED BY <1>1, <1>2, <1>3 DEF TypeOK, serverVars, lookVars, netVars

LEMMA TypeNews ==
  ASSUME NamesConstants, TypeOK, NEW s \in Server, NEW g \in Connection,
         NEW k, GateCreate(s, g, k) \/ GateDelete(s, g, k)
  PROVE  TypeOK'
<1>1. UNCHANGED <<serverVars, lookVars, netVars, inbox, session, changes, overtaken>>
  BY DEF GateCreate, GateDelete
<1>2. packets' \in [Server -> [Connection -> Seq(Packet)]]
  BY NextPacketDoes DEF GateCreate, GateDelete
<1>3. known' \in [Name -> Server \cup {Center, None}]
  <2>1. known \in [Name -> Server \cup {Center, None}]
    BY DEF TypeOK
  <2> QED BY <2>1 DEF GateCreate, GateDelete
<1>4. disturbed' \subseteq (Server \cup {Center}) \X Name
  <2>0. disturbed \subseteq (Server \cup {Center}) \X Name
    BY DEF TypeOK
  <2>1. CASE GateCreate(s, g, k)
    <3>1. packets[s][g][k].names \subseteq Name
      <4>1. packets[s][g][k] \in Packet /\ packets[s][g][k].kind = "create"
        BY <2>1, NextPacketDoes DEF GateCreate
      <4> QED BY <4>1, PacketKinds
    <3> QED BY <2>0, <2>1, <3>1 DEF GateCreate
  <2>2. CASE GateDelete(s, g, k)
    <3>1. packets[s][g][k].name \in Name
      <4>1. packets[s][g][k] \in Packet /\ packets[s][g][k].kind = "delete"
        BY <2>2, NextPacketDoes DEF GateDelete
      <4> QED BY <4>1, PacketKinds
    <3> QED BY <2>0, <2>2, <3>1 DEF GateDelete
  <2> QED BY <2>1, <2>2
<1> QED BY <1>1, <1>2, <1>3, <1>4 DEF TypeOK, serverVars, lookVars, netVars

LEMMA TypeNoRegister ==
  ASSUME NamesConstants, TypeOK, NEW s \in Server, NEW g \in Connection,
         NEW k, GateNoRegister(s, g, k)
  PROVE  TypeOK'
<1>1. /\ UNCHANGED <<serverVars, lookVars, netVars, session, known, changes, overtaken>>
      /\ \E kind : NextPacket(s, g, kind, k)
      /\ Respond(s, g, [kind |-> "error"]) /\ [kind |-> "error"] \in Message
  BY MessageKinds DEF GateNoRegister
<1>2. packets' \in [Server -> [Connection -> Seq(Packet)]]
  BY <1>1, NextPacketDoes
<1>3. inbox' \in [Server -> Seq(Message)]
  BY <1>1, RespondDoes
<1>4. disturbed' \subseteq (Server \cup {Center}) \X Name
  <2>0. disturbed \subseteq (Server \cup {Center}) \X Name
    BY DEF TypeOK
  <2> QED BY <2>0 DEF GateNoRegister
<1> QED BY <1>1, <1>2, <1>3, <1>4 DEF TypeOK, serverVars, lookVars, netVars

LEMMA TypeSelf ==
  ASSUME NamesConstants, TypeOK, NEW n \in Name, SelfCtxRegister(n) \/ SelfCtxDelete(n)
  PROVE  TypeOK'
<1>1. /\ UNCHANGED <<serverVars, lookVars, netVars, inbox, session, packets, overtaken>>
      /\ changes < MaxChange /\ changes' = changes + 1
      /\ disturbed' = disturbed \cup Others(Center, n)
  BY DEF SelfCtxRegister, SelfCtxDelete, Change
<1>2. known' \in [Name -> Server \cup {Center, None}]
  BY DEF TypeOK, SelfCtxRegister, SelfCtxDelete
<1>3. disturbed' \subseteq (Server \cup {Center}) \X Name
  BY <1>1 DEF TypeOK, Others
<1>4. changes' \in 0 .. MaxChange
  BY <1>1 DEF TypeOK, NamesConstants
<1> QED BY <1>1, <1>2, <1>3, <1>4 DEF TypeOK, serverVars, lookVars, netVars

-----------------------------------------------------------------------------
(***************************************************************************)
(* Every step.                                                             *)
(***************************************************************************)
LEMMA SessionMaps ==
  ASSUME NamesConstants, TypeOK, SessionInv, NEW s \in Server, NEW n \in Name,
         CreateMap(s, n) \/ DelMap(s, n)
  PROVE  SessionInv'
<1>1. UNCHANGED <<session, conn, gen>>
  BY DEF CreateMap, DelMap, netVars
<1>2. CASE UNCHANGED packets
  BY <1>1, <1>2, SessionSame
<1>3. CASE Send(s, [kind |-> "create", names |-> {n}])
  <2>1. [kind |-> "create", names |-> {n}] \in Packet
    BY PacketKinds
  <2> QED BY <1>1, <1>3, <2>1, SessionSend
<1>4. CASE Send(s, [kind |-> "delete", name |-> n])
  <2>1. [kind |-> "delete", name |-> n] \in Packet
    BY PacketKinds
  <2> QED BY <1>1, <1>4, <2>1, SessionSend
<1> QED BY <1>2, <1>3, <1>4 DEF CreateMap, DelMap

LEMMA SessionGetMap ==
  ASSUME NamesConstants, TypeOK, SessionInv, NEW l \in Lookup, GetMap(l)
  PROVE  SessionInv'
<1>1. /\ UNCHANGED <<session, conn, gen>> /\ Asker[l] \in Server
      /\ Send(Asker[l], [kind |-> "get", look |-> l])
  BY DEF GetMap, netVars, NamesConstants
<1>2. [kind |-> "get", look |-> l] \in Packet
  BY PacketKinds
<1> QED BY <1>1, <1>2, SessionSend

LEMMA SessionReceive ==
  ASSUME NamesConstants, TypeOK, SessionInv, NEW s \in Server, NEW k,
         ReceiveRegister(s, k)
  PROVE  SessionInv'
<1>1. UNCHANGED <<session, conn, gen>>
  BY DEF ReceiveRegister
<1>2. CASE UNCHANGED packets
  BY <1>1, <1>2, SessionSame
<1>3. CASE Send(s, [kind |-> "create", names |-> m_map[s]])
  <2>1. [kind |-> "create", names |-> m_map[s]] \in Packet
    BY PacketKinds DEF TypeOK
  <2> QED BY <1>1, <1>3, <2>1, SessionSend
<1> QED BY <1>2, <1>3 DEF ReceiveRegister, SendNames

(* The conjuncts of the invariant, of one action or several like it. *)
LEMMA StepServer ==
  ASSUME NamesConstants, IInv, NEW s \in Server, NEW n \in Name,
         Register(s, n) \/ UnRegister(s, n) \/ CreateMap(s, n) \/ DelMap(s, n)
  PROVE  IInv'
<1>0. TypeOK /\ SessionInv /\ NamesInv /\ LookupsInv
  BY DEF IInv
<1>1. CASE Register(s, n) \/ UnRegister(s, n)
  <2>1. UNCHANGED <<m_vtRequest, pc, ret, conn, gen, inbox, session, packets, overtaken>>
    BY <1>1 DEF Register, UnRegister, Tell, lookVars, netVars, centerVars
  <2>2. TypeOK'
    BY <1>0, <1>1, TypeTell
  <2>3. SessionInv'
    BY <1>0, <2>1, SessionSame
  <2>4. NamesInv'
    BY <1>0, <1>1, NamesTell
  <2>5. LookupsInv'
    BY <1>0, <2>1, LookupsQuiet
  <2> QED BY <2>2, <2>3, <2>4, <2>5 DEF IInv
<1>2. CASE CreateMap(s, n)
  BY <1>0, <1>2, TypeMaps, SessionMaps, NamesCreateMap, LookupsMaps DEF IInv
<1>3. CASE DelMap(s, n)
  BY <1>0, <1>3, TypeMaps, SessionMaps, NamesDelMap, LookupsMaps DEF IInv
<1> QED BY <1>1, <1>2, <1>3

LEMMA StepGetMap ==
  ASSUME NamesConstants, IInv, NEW l \in Lookup, GetMap(l)
  PROVE  IInv'
<1>0. TypeOK /\ SessionInv /\ NamesInv /\ LookupsInv
  BY DEF IInv
<1> QED BY <1>0, TypeGetMap, SessionGetMap, NamesGetMap, LookupsGetMap DEF IInv

LEMMA StepMessage ==
  ASSUME NamesConstants, IInv, NEW s \in Server, CtxMessage(s)
  PROVE  IInv'
<1>0. TypeOK /\ SessionInv /\ NamesInv /\ LookupsInv
  BY DEF IInv
<1> PICK k \in DOMAIN inbox[s] :
       \/ ReceiveRegister(s, k) \/ ReceiveError(s, k)
       \/ ReceiveReplyNoRequest(s, k) \/ ReceiveReply(s, k) \/ ReceiveDisconnect(s, k)
  BY DEF CtxMessage
<1>1. CASE ReceiveRegister(s, k)
  BY <1>0, <1>1, TypeReceiveRegister, SessionReceive, NamesReceiveRegister,
     LookupsReceiveRegister DEF IInv
<1>2. CASE \/ ReceiveError(s, k) \/ ReceiveReplyNoRequest(s, k) \/ ReceiveReply(s, k)
           \/ ReceiveDisconnect(s, k)
  <2>1. UNCHANGED <<session, packets, conn, gen>>
    BY <1>2 DEF ReceiveError, ReceiveReplyNoRequest, ReceiveReply, ReceiveDisconnect,
                netVars, centerVars
  <2>2. TypeOK' /\ SessionInv'
    BY <1>0, <1>2, <2>1, TypeReplies, SessionSame
  <2>3. NamesInv'
    BY <1>0, <1>2, NamesMessage
  <2>4. LookupsInv'
    BY <1>0, <1>2, LookupsError, LookupsNoRequest, LookupsReceiveReply, LookupsDisconnect
  <2> QED BY <2>2, <2>3, <2>4 DEF IInv
<1> QED BY <1>1, <1>2

LEMMA StepConnection ==
  ASSUME NamesConstants, IInv, NEW s \in Server,
         \/ OnTimerCheckTimeout(s) \/ CheckConnect(s) \/ OnConnect(s)
         \/ OnDisconnect(s) \/ ConnectFails(s)
  PROVE  IInv'
<1>0. TypeOK /\ SessionInv /\ NamesInv /\ LookupsInv
  BY DEF IInv
<1>1. CASE OnTimerCheckTimeout(s)
  <2>1. UNCHANGED <<m_vtRequest, pc, ret, conn, gen, inbox, session, packets, overtaken>>
    BY <1>1 DEF OnTimerCheckTimeout, lookVars, centerVars
  <2> QED BY <1>0, <1>1, <2>1, TypeConnection, SessionSame, NamesConnection, LookupsQuiet DEF IInv
<1>2. CASE CheckConnect(s)
  BY <1>0, <1>2, TypeConnection, SessionConnect, NamesConnection, LookupsConnect DEF IInv
<1>3. CASE OnConnect(s)
  BY <1>0, <1>3, TypeOnConnect, SessionBegins, NamesOnConnect, LookupsOnConnect DEF IInv
<1>4. CASE OnDisconnect(s)
  <2>1. conn' = [conn EXCEPT ![s] = "closed"] /\ UNCHANGED <<session, packets, gen>>
    BY <1>4 DEF OnDisconnect, centerVars
  <2> QED BY <1>0, <1>4, <2>1, TypeConnection, SessionLost, NamesConnection,
             LookupsOnDisconnect DEF IInv
<1>5. CASE ConnectFails(s)
  <2>1. conn' = [conn EXCEPT ![s] = "closed"] /\ UNCHANGED <<session, packets, gen>>
    BY <1>5 DEF ConnectFails, centerVars
  <2> QED BY <1>0, <1>5, <2>1, TypeConnection, SessionLost, NamesConnection,
             LookupsConnect DEF IInv
<1> QED BY <1>1, <1>2, <1>3, <1>4, <1>5

LEMMA StepGate ==
  ASSUME NamesConstants, IInv, NEW s \in Server, NEW g \in Connection, NEW k,
         \/ GateRegister(s, g, k) \/ GateRegisterRefused(s, g, k)
         \/ GateNoRegister(s, g, k) \/ GateCreate(s, g, k) \/ GateDelete(s, g, k)
         \/ GateGetCtxIDByName(s, g, k) \/ SessionEnds(s, g)
  PROVE  IInv'
<1>0. TypeOK /\ SessionInv /\ NamesInv /\ LookupsInv
  BY DEF IInv
<1>1. CASE GateRegister(s, g, k)
  BY <1>0, <1>1, TypeGate, SessionRegister, NamesRegister, LookupsRegister DEF IInv
<1>2. CASE GateRegisterRefused(s, g, k)
  <2>1. /\ session' = [session EXCEPT ![s][g] = "refused"]
        /\ packets' = [packets EXCEPT ![s][g] = <<>>]
        /\ session[s][g] # "none" /\ UNCHANGED <<conn, gen>>
    BY <1>2 DEF GateRegisterRefused, Serving
  <2>2. SessionInv'
    BY <1>0, <2>1, SessionClose
  <2> QED BY <1>0, <1>2, <2>2, TypeClose, NamesClose, LookupsRefused DEF IInv
<1>3. CASE SessionEnds(s, g)
  <2>1. /\ session' = [session EXCEPT ![s][g] = "ended"]
        /\ packets' = [packets EXCEPT ![s][g] = <<>>]
        /\ session[s][g] # "none" /\ ~Live(s, g) /\ UNCHANGED <<conn, gen>>
    BY <1>3 DEF SessionEnds, netVars, Live
  <2>2. SessionInv'
    BY <1>0, <2>1, SessionClose
  <2> QED BY <1>0, <1>3, <2>2, TypeClose, NamesClose, LookupsEnds DEF IInv
<1>4. CASE GateCreate(s, g, k)
  <2>1. SessionInv'
    BY <1>0, <1>4, SessionDrop DEF GateCreate, netVars
  <2> QED BY <1>0, <1>4, <2>1, TypeNews, NamesCreate, LookupsNews DEF IInv
<1>5. CASE GateDelete(s, g, k)
  <2>1. SessionInv'
    BY <1>0, <1>5, SessionDrop DEF GateDelete, netVars
  <2> QED BY <1>0, <1>5, <2>1, TypeNews, NamesDelete, LookupsNews DEF IInv
<1>6. CASE GateGetCtxIDByName(s, g, k)
  <2>1. SessionInv'
    BY <1>0, <1>6, SessionDrop DEF GateGetCtxIDByName, netVars
  <2> QED BY <1>0, <1>6, <2>1, TypeGate, NamesGet, LookupsGet DEF IInv
<1>7. CASE GateNoRegister(s, g, k)
  <2>1. SessionInv'
    BY <1>0, <1>7, SessionDrop DEF GateNoRegister, netVars
  <2> QED BY <1>0, <1>7, <2>1, TypeNoRegister, NamesNoRegister, LookupsNoRegister DEF IInv
<1> QED BY <1>1, <1>2, <1>3, <1>4, <1>5, <1>6, <1>7

LEMMA StepSelf ==
  ASSUME NamesConstants, IInv, NEW n \in Name, SelfCtxRegister(n) \/ SelfCtxDelete(n)
  PROVE  IInv'
<1>0. TypeOK /\ SessionInv /\ NamesInv /\ LookupsInv
  BY DEF IInv
<1>1. UNCHANGED <<m_vtRequest, pc, ret, conn, gen, inbox, session, packets, overtaken>>
  BY DEF SelfCtxRegister, SelfCtxDelete, lookVars, netVars
<1> QED BY <1>0, <1>1, TypeSelf, SessionSame, NamesSelf, LookupsQuiet DEF IInv

LEMMA NextIInv ==
  ASSUME NamesConstants, IInv, [Next]_vars
  PROVE  IInv'
<1>1. CASE UNCHANGED vars
  <2>0. TypeOK /\ SessionInv /\ NamesInv /\ LookupsInv
    BY DEF IInv
  <2>1. /\ UNCHANGED <<named, ops, m_map, m_vtRequest, pc, ret, conn, gen, doomed, inbox>>
        /\ UNCHANGED <<session, packets, known, changes, overtaken, disturbed>>
    BY <1>1 DEF vars, serverVars, lookVars, netVars, centerVars
  <2>2. TypeOK'
    BY <2>0, <2>1 DEF TypeOK
  <2>3. SessionInv' /\ LookupsInv'
    BY <2>0, <2>1, SessionSame, LookupsQuiet
  <2>4. NamesInv'
    <3>1. \A s \in Server : Announced(s)' => Announced(s) /\ gen'[s] = gen[s]
      BY <2>1 DEF Announced
    <3> QED BY <2>0, <2>1, <3>1, NamesQuiet
  <2> QED BY <2>2, <2>3, <2>4 DEF IInv
<1>2. CASE ServerStep
  BY <1>2, StepServer, StepGetMap, StepMessage, StepConnection DEF ServerStep
<1>3. CASE CenterStep
  BY <1>3, StepGate, StepSelf DEF CenterStep
<1> QED BY <1>1, <1>2, <1>3 DEF Next

-----------------------------------------------------------------------------
(***************************************************************************)
(* The theorems.                                                           *)
(***************************************************************************)
(* The invariant of the names and lookups of ctx_netclientsevercommu.cpp   *)
(* and ctx_inetercenter.cpp: what the link, the packets on their way and   *)
(* the center say of a name, and the order of the lookups' replies.        *)
THEOREM Invariance ==
  ASSUME NamesConstants
  PROVE  Spec => []IInv
<1>1. Init => IInv
  BY InitIInv
<1>2. IInv /\ [Next]_vars => IInv'
  BY NextIInv
<1> QED BY <1>1, <1>2, PTL DEF Spec

(* The variables of the link and of the center have their types. *)
THEOREM TypeCorrect ==
  ASSUME NamesConstants
  PROVE  Spec => []TypeOK
<1>1. IInv => TypeOK
  BY DEF IInv
<1> QED BY <1>1, Invariance, PTL

(* "Send all the registrations again": when nothing of a server is on its  *)
(* way, the center knows its names and no others, however often the        *)
(* connection broke and whatever passed each other in the queues, but for  *)
(* the names whose own news got lost or passed the opposite news.          *)
THEOREM NamesKnown ==
  ASSUME NamesConstants
  PROVE  Spec => []NamesInStep
<1>1. ASSUME IInv
      PROVE  NamesInStep
  <2> SUFFICES ASSUME NEW s \in Server, Quiet(s), NEW n \in Name, <<s, n>> \notin disturbed
               PROVE  n \in named[s] <=> known[n] = s
    BY DEF NamesInStep
  <2>1. NameInv(s, n) /\ gen[s] \in Connection
    BY <1>1, Elements DEF IInv, NamesInv
  <2>2. Announced(s)
    BY DEF Quiet, Announced
  <2>3. \A g \in Connection : ~HasCreate(packets[s][g], n) /\ ~HasDelete(packets[s][g], n)
    <3>1. \A g \in Connection : Len(packets[s][g]) = 0
      BY DEF Quiet
    <3> QED BY <3>1, EmptyNews
  <2>4. n \in named[s] <=> n \in m_map[s]
    BY <2>1 DEF NameInv, LinkHas, Telling, Quiet
  <2>5. n \notin m_map[s] => known[n] # s
    BY <2>1, <2>3 DEF NameInv, DeleteComes
  <2>6. n \in m_map[s] => known[n] = s
    BY <2>1, <2>2, <2>3 DEF NameInv, CreateComes
  <2> QED BY <2>4, <2>5, <2>6
<1> QED BY <1>1, Invariance, PTL

(* A lookup is told the reply to itself (the front of m_vtRequest is       *)
(* resumed with whatever reply comes), as long as no lookup, no reply and  *)
(* no disconnect is overtaken: by a later one of them in a queue, or the   *)
(* disconnect by lookups of a later connection.                            *)
THEOREM LookupsOwn ==
  ASSUME NamesConstants
  PROVE  Spec => []LookupInStep
<1>1. IInv => LookupInStep
  BY DEF IInv, LookupsInv, LookupInStep
<1> QED BY <1>1, Invariance, PTL

=============================================================================
