--------------------------- MODULE CtxMysqlProofs ---------------------------
(***************************************************************************)
(* Proofs about CtxMysql for every set of requests, all their statements,  *)
(* whatever the server answers and any number of connections.  What was    *)
(* received, what is in the messages of the ctx and what is still to come  *)
(* on a connection are the pieces of one stream, cut at any packet or in   *)
(* the middle of one.  The invariant says that the stream is what the      *)
(* entries of m_vtRequest are promised, in their order, and most of the    *)
(* work is to move packets from piece to piece.  That is so while every    *)
(* message was taken in the order it was pushed (overtaken = 0), which     *)
(* nothing in the queue of the ctx makes sure of; the types, and what the  *)
(* loop over a lost connection's requests goes by, hold in any order.      *)
(*                                                                         *)
(* The induction that is needed, along the pieces of a stream, is on the   *)
(* first index at which something fails (LeastOne).                        *)
(***************************************************************************)
EXTENDS CtxMysql, WellFoundedInduction, TLAPS

(***************************************************************************)
(* Sequences.                                                              *)
(***************************************************************************)
Longer(t, q, e) ==
  /\ Len(t) = Len(q) + 1
  /\ \A i \in 1 .. Len(q) : t[i] = q[i]
  /\ t[Len(q) + 1] = e

Rest(t, q) ==
  /\ Len(q) = Len(t) + 1
  /\ \A i \in 1 .. Len(t) : t[i] = q[i + 1]

LEMMA AppendIsLonger ==
  ASSUME NEW S, NEW q \in Seq(S), NEW e \in S
  PROVE  /\ Append(q, e) \in Seq(S)
         /\ Longer(Append(q, e), q, e)
BY DEF Longer

LEMMA TailIsRest ==
  ASSUME NEW S, NEW q \in Seq(S), q # <<>>
  PROVE  /\ Tail(q) \in Seq(S)
         /\ Rest(Tail(q), q)
         /\ Head(q) = q[1]
         /\ Head(q) \in S
BY DEF Rest

LEMMA Elements ==
  ASSUME NEW S, NEW q \in Seq(S)
  PROVE  /\ Len(q) \in Nat
         /\ DOMAIN q = 1 .. Len(q)
         /\ q = <<>> <=> Len(q) = 0
         /\ \A i \in 1 .. Len(q) : q[i] \in S
OBVIOUS

LEMMA LeastOne ==
  ASSUME NEW T \in SUBSET Nat, NEW a \in T
  PROVE  \E m \in T : \A k \in T : m <= k
<1> DEFINE R == OpToRel(<, Nat)
<1>1. IsWellFoundedOn(R, Nat)
  BY NatLessThanWellFounded
<1>2. R = {ss \in Nat \X Nat : ss[1] < ss[2]}
  BY DEF OpToRel
<1> HIDE DEF R
<1>3. PICK m \in T : \A k \in T : ~(<<k, m>> \in R)
  BY <1>1, WFMin
<1>4. \A k \in T : ~(k < m)
  BY <1>2, <1>3
<1> QED BY <1>4

LEMMA SameAll ==
  ASSUME NEW o, NEW a \in Nat, NEW b \in Nat,
         \A j \in a .. b - 1 : o[j + 1] = o[j],
         NEW k \in a .. b
  PROVE  o[k] = o[a]
<1> SUFFICES ASSUME o[k] # o[a] PROVE FALSE
  OBVIOUS
<1> DEFINE T == {j \in a .. b : o[j] # o[a]}
<1>1. T \in SUBSET Nat /\ k \in T
  OBVIOUS
<1>2. PICK m \in T : \A j \in T : m <= j
  BY <1>1, LeastOne
<1>3. m \in a .. b /\ o[m] # o[a] /\ m # a
  BY <1>2
<1>4. m - 1 \in a .. b - 1 /\ m - 1 \in a .. b /\ (m - 1) + 1 = m /\ ~(m <= m - 1)
  BY <1>3
<1>5. o[m - 1] = o[a]
  BY <1>2, <1>4
<1> QED BY <1>3, <1>4, <1>5

(***************************************************************************)
(* A stream s, and the pieces p[0] .. p[n] it is cut into.  o[k] packets   *)
(* are before piece k.  A part is the packet its rest begins the next      *)
(* piece with, and the last piece is what is still to come.  A piece       *)
(* begins with a packet that was cut just when the piece before, of those  *)
(* with packets, ends in the part.                                         *)
(***************************************************************************)
Full(q) == IF EndsInPart(q) THEN Len(q) - 1 ELSE Len(q)

IsIn(a, b) ==
  /\ a.of = b.of /\ a.todo = b.todo /\ (a.kind = "part" \/ a.kind = b.kind)
  /\ a.kind # "garbage"

GoesOn(p, k, m) ==
  k < m /\ EndsInPart(p[k]) /\ \A j \in k + 1 .. m - 1 : Len(p[j]) = 0

Flagged(p, n) ==
  /\ \A m \in 1 .. n :
       Len(p[m]) # 0 => (p[m][1].cut <=> \E k \in 0 .. n : GoesOn(p, k, m))
  /\ \A i \in 2 .. Len(p[n]) : ~p[n][i].cut

Joins(p, o, k, m) ==
  /\ k < m
  /\ EndsInPart(p[k])
  /\ Len(p[m]) # 0
  /\ o[m] = o[k + 1]

Cut(s, o, p, n) ==
  /\ o[0] = 0
  /\ \A k \in 0 .. n : o[k + 1] = o[k] + Full(p[k])
  /\ \A k \in 0 .. n : \A m \in 0 .. n + 1 : k < m => o[k] + Full(p[k]) <= o[m]
  /\ \A k \in 0 .. n : \A i \in 1 .. Len(p[k]) :
       o[k] + i <= Len(s) /\ IsIn(p[k][i], s[o[k] + i])
  /\ \A k \in 0 .. n : \A i \in 1 .. Len(p[k]) :
       p[k][i].kind = "part" => k < n /\ i = Len(p[k])
  /\ \A k, m \in 0 .. n :
       Joins(p, o, k, m) => IF m = n THEN p[n][1].cut ELSE p[m][1].kind # "part"

Offsets(n) == [0 .. n + 1 -> Nat]

HasCut(s, p, n, all) ==
  /\ \E o \in Offsets(n) : Cut(s, o, p, n) /\ (all = "up" => o[n + 1] = Len(s))
  /\ Flagged(p, n)

Lens(p, n) == \A k \in 0 .. n : Len(p[k]) \in Nat

LEMMA FullFacts ==
  ASSUME NEW q, Len(q) \in Nat
  PROVE  /\ Full(q) \in Nat
         /\ Full(q) <= Len(q)
         /\ EndsInPart(q) => Len(q) = Full(q) + 1
         /\ ~EndsInPart(q) => Len(q) = Full(q)
         /\ Len(q) = 0 => Full(q) = 0 /\ ~EndsInPart(q)
BY DEF Full, EndsInPart

(* No pieces, no stream. *)
LEMMA CutEmpty ==
  ASSUME NEW p, NEW n \in Nat, \A k \in 0 .. n : Len(p[k]) = 0, NEW all
  PROVE  HasCut(<<>>, p, n, all)
<1> DEFINE o == [k \in 0 .. n + 1 |-> 0]
<1>1. o \in Offsets(n)
  BY DEF Offsets
<1>2. \A k \in 0 .. n : Full(p[k]) = 0
  BY FullFacts
<1>3. \A k \in 0 .. n + 1 : o[k] = 0
  OBVIOUS
<1>4. Len(<<>>) = 0 /\ n + 1 \in 0 .. n + 1 /\ \A k \in 0 .. n : k + 1 \in 0 .. n + 1
  OBVIOUS
<1> HIDE DEF o
<1>5. Cut(<<>>, o, p, n)
  BY <1>2, <1>3, <1>4 DEF Cut, Joins
<1>6. Flagged(p, n)
  BY <1>4 DEF Flagged
<1> QED BY <1>1, <1>3, <1>4, <1>5, <1>6 DEF HasCut

(* The first message is taken: what it has is put to the end of what was   *)
(* received, and completes the part that came before.                      *)
IsJoin(t, q, r) ==
  /\ Len(t) = Full(q) + Len(r)
  /\ \A i \in 1 .. Full(q) : t[i] = q[i]
  /\ \A i \in 1 .. Len(r) : t[Full(q) + i] = r[i]

LEMMA CutShift ==
  ASSUME NEW s, NEW p, NEW t, NEW n \in Nat, NEW all, n >= 2, Len(s) \in Nat,
         Lens(p, n), Lens(t, n - 1), HasCut(s, p, n, all),
         \A k \in 1 .. n - 1 : t[k] = p[k + 1],
         \/ Len(p[1]) = 0 /\ t[0] = p[0]
         \/ Len(p[1]) # 0 /\ IsJoin(t[0], p[0], p[1])
  PROVE  HasCut(s, t, n - 1, all)
<1>1. PICK o \in Offsets(n) : Cut(s, o, p, n) /\ (all = "up" => o[n + 1] = Len(s))
  BY DEF HasCut
<1> DEFINE u == [k \in 0 .. n |-> IF k = 0 THEN 0 ELSE o[k + 1]]
<1>2. u \in Offsets(n - 1)
  BY <1>1 DEF Offsets
<1>3. u[0] = 0 /\ \A k \in 1 .. n : u[k] = o[k + 1]
  OBVIOUS
<1> HIDE DEF u
<1>4. /\ \A k \in 0 .. n + 1 : o[k] \in Nat
      /\ \A k \in 0 .. n : Len(p[k]) \in Nat /\ Full(p[k]) \in Nat
      /\ \A k \in 0 .. n - 1 : Len(t[k]) \in Nat /\ Full(t[k]) \in Nat
      /\ 0 \in 0 .. n /\ 1 \in 0 .. n /\ 2 \in 0 .. n /\ 0 \in 0 .. n - 1
  <2>1. \A k \in 0 .. n + 1 : o[k] \in Nat
    BY <1>1 DEF Offsets
  <2>2. /\ \A k \in 0 .. n : Len(p[k]) \in Nat
        /\ \A k \in 0 .. n - 1 : Len(t[k]) \in Nat
    BY DEF Lens
  <2>3. /\ \A k \in 0 .. n : Full(p[k]) \in Nat
        /\ \A k \in 0 .. n - 1 : Full(t[k]) \in Nat
    BY <2>2, FullFacts
  <2> QED BY <2>1, <2>2, <2>3
<1>5. o[0] = 0 /\ o[1] = Full(p[0]) /\ o[2] = Full(p[0]) + Full(p[1])
  <2>1. o[0] = 0 /\ \A k \in 0 .. n : o[k + 1] = o[k] + Full(p[k])
    BY <1>1 DEF Cut
  <2>2. o[0 + 1] = o[0] + Full(p[0]) /\ o[1 + 1] = o[1] + Full(p[1])
    BY <2>1, <1>4
  <2> QED BY <2>1, <2>2, <1>4
<1>6. /\ Full(t[0]) = Full(p[0]) + Full(p[1])
      /\ EndsInPart(t[0]) => IF Len(p[1]) = 0 THEN EndsInPart(p[0]) ELSE EndsInPart(p[1])
      /\ \A i \in 1 .. Len(t[0]) :
           i <= Len(s) /\ IsIn(t[0][i], s[i]) /\ (t[0][i].kind = "part" => i = Len(t[0]))
  <2>1. /\ \A i \in 1 .. Len(p[0]) : i <= Len(s) /\ IsIn(p[0][i], s[i])
                                     /\ (p[0][i].kind = "part" => i = Len(p[0]))
        /\ \A i \in 1 .. Len(p[1]) :
             /\ Full(p[0]) + i <= Len(s) /\ IsIn(p[1][i], s[Full(p[0]) + i])
             /\ p[1][i].kind = "part" => i = Len(p[1])
    <3>1. \A k \in {0, 1} : \A i \in 1 .. Len(p[k]) :
            /\ o[k] + i <= Len(s) /\ IsIn(p[k][i], s[o[k] + i])
            /\ p[k][i].kind = "part" => i = Len(p[k])
      BY <1>1, <1>4 DEF Cut
    <3>2. \A i \in 1 .. Len(p[0]) :
            /\ o[0] + i <= Len(s) /\ IsIn(p[0][i], s[o[0] + i])
            /\ p[0][i].kind = "part" => i = Len(p[0])
      BY <3>1
    <3>3. \A i \in 1 .. Len(p[1]) :
            /\ o[1] + i <= Len(s) /\ IsIn(p[1][i], s[o[1] + i])
            /\ p[1][i].kind = "part" => i = Len(p[1])
      BY <3>1
    <3>4. \A i \in 1 .. Len(p[0]) : o[0] + i = i
      BY <1>4, <1>5
    <3> QED BY <3>2, <3>3, <3>4, <1>5
  <2>2. CASE Len(p[1]) = 0 /\ t[0] = p[0]
    <3>1. Full(t[0]) = Full(p[0]) /\ (EndsInPart(t[0]) <=> EndsInPart(p[0]))
      BY <2>2
    <3>2. Full(p[1]) = 0 /\ Full(p[0]) \in Nat
      BY <2>2, <1>4, FullFacts
    <3>3. Full(t[0]) = Full(p[0]) + Full(p[1])
      BY <3>1, <3>2
    <3>4. \A i \in 1 .. Len(t[0]) :
            i <= Len(s) /\ IsIn(t[0][i], s[i]) /\ (t[0][i].kind = "part" => i = Len(t[0]))
      BY <2>1, <2>2
    <3> QED BY <2>2, <3>1, <3>3, <3>4
  <2>3. CASE Len(p[1]) # 0 /\ IsJoin(t[0], p[0], p[1])
    <3>1. /\ Len(t[0]) = Full(p[0]) + Len(p[1])
          /\ \A i \in 1 .. Full(p[0]) : t[0][i] = p[0][i]
          /\ \A i \in 1 .. Len(p[1]) : t[0][Full(p[0]) + i] = p[1][i]
          /\ Len(p[0]) \in Nat /\ Len(p[1]) \in Nat /\ Full(p[0]) \in Nat
          /\ Full(p[0]) <= Len(p[0])
          /\ EndsInPart(p[0]) => Len(p[0]) = Full(p[0]) + 1
          /\ ~EndsInPart(p[0]) => Len(p[0]) = Full(p[0])
      BY <2>3, <1>4, FullFacts DEF IsJoin
    <3>2. t[0][Len(t[0])] = p[1][Len(p[1])] /\ Len(t[0]) # 0
      <4>1. Len(p[1]) \in 1 .. Len(p[1]) /\ Len(t[0]) # 0
        BY <3>1, <2>3
      <4>2. t[0][Full(p[0]) + Len(p[1])] = p[1][Len(p[1])]
        BY <3>1, <4>1
      <4> QED BY <3>1, <4>1, <4>2
    <3>3. EndsInPart(t[0]) <=> EndsInPart(p[1])
      BY <3>2, <2>3 DEF EndsInPart
    <3>4. Full(t[0]) = Full(p[0]) + Full(p[1])
      <4>1. Full(t[0]) = IF EndsInPart(p[1]) THEN Len(t[0]) - 1 ELSE Len(t[0])
        BY <3>3 DEF Full
      <4>2. Full(p[1]) = IF EndsInPart(p[1]) THEN Len(p[1]) - 1 ELSE Len(p[1])
        BY DEF Full
      <4> QED BY <3>1, <4>1, <4>2
    <3>5. ASSUME NEW i \in 1 .. Len(t[0])
          PROVE  i <= Len(s) /\ IsIn(t[0][i], s[i]) /\ (t[0][i].kind = "part" => i = Len(t[0]))
      <4>1. CASE i <= Full(p[0])
        <5>1. i \in 1 .. Len(p[0]) /\ t[0][i] = p[0][i] /\ i \in 1 .. Full(p[0])
          BY <3>1, <4>1
        <5>2. p[0][i].kind # "part"
          BY <5>1, <2>1, <3>1, <4>1 DEF EndsInPart
        <5> QED BY <5>1, <5>2, <2>1
      <4>2. CASE ~(i <= Full(p[0]))
        <5>1. /\ i - Full(p[0]) \in 1 .. Len(p[1])
              /\ Full(p[0]) + (i - Full(p[0])) = i
          BY <3>1, <4>2
        <5>2. t[0][i] = p[1][i - Full(p[0])]
          BY <5>1, <3>1
        <5>3. /\ i <= Len(s) /\ IsIn(p[1][i - Full(p[0])], s[i])
              /\ p[1][i - Full(p[0])].kind = "part" => i - Full(p[0]) = Len(p[1])
          BY <5>1, <2>1
        <5> QED BY <5>1, <5>2, <5>3, <3>1
      <4> QED BY <4>1, <4>2
    <3> QED BY <3>3, <3>4, <3>5, <2>3
  <2> QED BY <2>2, <2>3
<1>14. Len(p[1]) # 0 => (EndsInPart(t[0]) <=> EndsInPart(p[1]))
  <2> SUFFICES ASSUME Len(p[1]) # 0 PROVE EndsInPart(t[0]) <=> EndsInPart(p[1])
    OBVIOUS
  <2>1. /\ Len(t[0]) = Full(p[0]) + Len(p[1])
        /\ \A i \in 1 .. Len(p[1]) : t[0][Full(p[0]) + i] = p[1][i]
        /\ Len(p[1]) \in Nat /\ Full(p[0]) \in Nat
    BY <1>4 DEF IsJoin
  <2>2. Len(p[1]) \in 1 .. Len(p[1]) /\ Len(t[0]) # 0
    BY <2>1
  <2>3. t[0][Len(t[0])] = p[1][Len(p[1])]
    BY <2>1, <2>2
  <2> QED BY <2>2, <2>3 DEF EndsInPart
<1>7. \A k \in 0 .. n - 1 : u[k + 1] = u[k] + Full(t[k])
  <2> SUFFICES ASSUME NEW k \in 0 .. n - 1 PROVE u[k + 1] = u[k] + Full(t[k])
    OBVIOUS
  <2>1. CASE k = 0
    BY <2>1, <1>3, <1>4, <1>5, <1>6
  <2>2. CASE k # 0
    <3>1. k \in 1 .. n - 1 /\ k + 1 \in 0 .. n /\ k \in 1 .. n /\ k + 1 \in 1 .. n
      BY <2>2
    <3>2. o[(k + 1) + 1] = o[k + 1] + Full(p[k + 1])
      BY <3>1, <1>1 DEF Cut
    <3> QED BY <3>1, <3>2, <1>3
  <2> QED BY <2>1, <2>2
<1>8. ASSUME NEW k \in 0 .. n - 1, NEW m \in 0 .. n, k < m
      PROVE  u[k] + Full(t[k]) <= u[m]
  <2>1. m \in 1 .. n /\ m + 1 \in 0 .. n + 1 /\ u[m] = o[m + 1]
    BY <1>8, <1>3
  <2>2. CASE k = 0
    <3>1. o[1] + Full(p[1]) <= o[m + 1]
      BY <1>1, <1>4, <2>1 DEF Cut
    <3> QED BY <2>1, <2>2, <3>1, <1>3, <1>4, <1>5, <1>6
  <2>3. CASE k # 0
    <3>1. k \in 1 .. n - 1 /\ k + 1 \in 0 .. n /\ k \in 1 .. n /\ k + 1 < m + 1
      BY <2>3, <1>8
    <3>2. o[k + 1] + Full(p[k + 1]) <= o[m + 1]
      BY <3>1, <2>1, <1>1 DEF Cut
    <3> QED BY <3>1, <3>2, <2>1, <1>3
  <2> QED BY <2>2, <2>3
<1>9. ASSUME NEW k \in 0 .. n - 1, NEW i \in 1 .. Len(t[k])
      PROVE  /\ u[k] + i <= Len(s) /\ IsIn(t[k][i], s[u[k] + i])
             /\ t[k][i].kind = "part" => k < n - 1 /\ i = Len(t[k])
  <2>1. CASE k = 0
    BY <2>1, <1>3, <1>6
  <2>2. CASE k # 0
    <3>1. k \in 1 .. n - 1 /\ k + 1 \in 0 .. n /\ k \in 1 .. n /\ i \in 1 .. Len(p[k + 1])
      BY <2>2
    <3>2. /\ o[k + 1] + i <= Len(s) /\ IsIn(p[k + 1][i], s[o[k + 1] + i])
          /\ p[k + 1][i].kind = "part" => k + 1 < n /\ i = Len(p[k + 1])
      BY <3>1, <1>1 DEF Cut
    <3> QED BY <3>1, <3>2, <1>3
  <2> QED BY <2>1, <2>2
<1>10. ASSUME NEW k \in 0 .. n - 1, NEW m \in 0 .. n - 1, Joins(t, u, k, m)
       PROVE  IF m = n - 1 THEN t[n - 1][1].cut ELSE t[m][1].kind # "part"
  <2>0. \A i, j \in 0 .. n :
          Joins(p, o, i, j) => IF j = n THEN p[n][1].cut ELSE p[j][1].kind # "part"
    BY <1>1 DEF Cut
  <2>5. (m = n - 1 <=> m + 1 = n) /\ t[n - 1] = p[n]
    <3>1. n - 1 \in 1 .. n - 1 /\ (n - 1) + 1 = n
      OBVIOUS
    <3> QED BY <3>1
  <2>1. /\ m \in 1 .. n - 1 /\ m + 1 \in 0 .. n /\ m \in 1 .. n /\ t[m] = p[m + 1]
        /\ k + 1 \in 1 .. n /\ EndsInPart(t[k]) /\ Len(p[m + 1]) # 0
        /\ o[m + 1] = o[(k + 1) + 1]
    BY <1>10, <1>3 DEF Joins
  <2>2. CASE k = 0
    <3>1. CASE Len(p[1]) = 0
      <4>1. Full(p[1]) = 0
        BY <3>1, <1>4, FullFacts
      <4>2. Joins(p, o, 0, m + 1)
        BY <4>1, <2>1, <2>2, <3>1, <1>4, <1>5, <1>6 DEF Joins
      <4> QED BY <4>2, <2>0, <2>1, <2>5, <1>4
    <3>2. CASE Len(p[1]) # 0
      <4>2. Joins(p, o, 1, m + 1)
        BY <2>1, <2>2, <3>2, <1>4, <1>5, <1>6 DEF Joins
      <4> QED BY <4>2, <2>0, <2>1, <2>5, <1>4
    <3> QED BY <3>1, <3>2
  <2>3. CASE k # 0
    <3>1. k \in 1 .. n - 1 /\ k + 1 \in 0 .. n /\ t[k] = p[k + 1] /\ k + 1 < m + 1
      BY <2>3, <1>10 DEF Joins
    <3>2. Joins(p, o, k + 1, m + 1)
      BY <3>1, <2>1 DEF Joins
    <3> QED BY <3>1, <3>2, <2>0, <2>1, <2>5
  <2> QED BY <2>2, <2>3
<1>11. Cut(s, u, t, n - 1)
  <2>1. (n - 1) + 1 = n
    OBVIOUS
  <2> QED BY <1>3, <1>7, <1>8, <1>9, <1>10, <2>1 DEF Cut
<1>12. all = "up" => u[(n - 1) + 1] = Len(s)
  BY <1>1, <1>3
<1>13. Flagged(t, n - 1)
  <2>1. Flagged(p, n)
    BY DEF HasCut
  <2>2. ASSUME NEW m \in 1 .. n - 1, Len(t[m]) # 0
        PROVE  t[m][1].cut <=> \E k \in 0 .. n - 1 : GoesOn(t, k, m)
    <3>1. m + 1 \in 1 .. n /\ t[m] = p[m + 1] /\ Len(p[m + 1]) # 0
      BY <2>2
    <3>2. t[m][1].cut <=> \E k \in 0 .. n : GoesOn(p, k, m + 1)
      BY <2>1, <3>1 DEF Flagged
    <3>3. ASSUME NEW k \in 0 .. n, GoesOn(p, k, m + 1)
          PROVE  \E j \in 0 .. n - 1 : GoesOn(t, j, m)
      <4>1. /\ k < m + 1 /\ EndsInPart(p[k])
            /\ \A j \in k + 1 .. m : Len(p[j]) = 0
        BY <3>3 DEF GoesOn
      <4>2. CASE k <= 1
        <5>1. EndsInPart(t[0])
          <6>1. CASE k = 1
            <7>1. Len(p[1]) # 0
              BY <4>1, <6>1 DEF EndsInPart
            <7> QED BY <4>1, <6>1, <7>1, <1>14
          <6>2. CASE k = 0
            <7>1. Len(p[1]) = 0
              BY <4>1, <6>2
            <7> QED BY <4>1, <6>2, <7>1
          <6> QED BY <4>2, <6>1, <6>2
        <5>2. \A j \in 0 + 1 .. m - 1 : Len(t[j]) = 0
          BY <4>1, <4>2
        <5>3. GoesOn(t, 0, m)
          BY <5>1, <5>2 DEF GoesOn
        <5> QED BY <5>3
      <4>3. CASE ~(k <= 1)
        <5>1. k - 1 \in 1 .. n - 1 /\ k - 1 < m /\ t[k - 1] = p[k]
          BY <4>1, <4>3
        <5>2. \A j \in (k - 1) + 1 .. m - 1 : Len(t[j]) = 0
          BY <4>1, <4>3
        <5>3. GoesOn(t, k - 1, m)
          BY <4>1, <5>1, <5>2 DEF GoesOn
        <5> QED BY <5>1, <5>3
      <4> QED BY <4>2, <4>3
    <3>4. ASSUME NEW k \in 0 .. n - 1, GoesOn(t, k, m)
          PROVE  \E j \in 0 .. n : GoesOn(p, j, m + 1)
      <4>1. /\ k < m /\ EndsInPart(t[k])
            /\ \A j \in k + 1 .. m - 1 : Len(t[j]) = 0
        BY <3>4 DEF GoesOn
      <4>2. \A j \in k + 2 .. (m + 1) - 1 : Len(p[j]) = 0
        <5>1. ASSUME NEW j \in k + 2 .. (m + 1) - 1 PROVE Len(p[j]) = 0
          <6>1. j - 1 \in k + 1 .. m - 1 /\ j - 1 \in 1 .. n - 1 /\ (j - 1) + 1 = j
            BY <2>2
          <6> QED BY <4>1, <6>1
        <5> QED BY <5>1
      <4>3. CASE k # 0
        <5>1. k \in 1 .. n - 1 /\ EndsInPart(p[k + 1]) /\ k + 1 < m + 1 /\ (k + 1) + 1 = k + 2
          BY <4>1, <4>3
        <5>2. GoesOn(p, k + 1, m + 1)
          BY <4>2, <5>1 DEF GoesOn
        <5> QED BY <5>1, <5>2
      <4>4. CASE k = 0 /\ Len(p[1]) # 0
        <5>1. EndsInPart(p[1]) /\ 1 < m + 1 /\ 1 + 1 = k + 2
          BY <4>1, <4>4, <1>14
        <5>2. GoesOn(p, 1, m + 1)
          BY <4>2, <5>1 DEF GoesOn
        <5> QED BY <5>2
      <4>5. CASE k = 0 /\ Len(p[1]) = 0
        <5>1. EndsInPart(p[0]) /\ \A j \in 0 + 1 .. (m + 1) - 1 : Len(p[j]) = 0
          BY <4>1, <4>2, <4>5
        <5>2. GoesOn(p, 0, m + 1)
          BY <4>1, <4>5, <5>1 DEF GoesOn
        <5> QED BY <5>2
      <4> QED BY <4>3, <4>4, <4>5
    <3> QED BY <3>2, <3>3, <3>4
  <2>3. t[n - 1] = p[n]
    <3>1. n - 1 \in 1 .. n - 1 /\ (n - 1) + 1 = n
      OBVIOUS
    <3> QED BY <3>1
  <2> QED BY <2>1, <2>2, <2>3 DEF Flagged
<1> QED BY <1>2, <1>11, <1>12, <1>13 DEF HasCut

(* A packet is taken from what was received. *)
LEMMA CutTake ==
  ASSUME NEW s, NEW r, NEW p, NEW t, NEW n \in Nat, NEW all, n >= 1,
         Len(s) \in Nat, Len(r) \in Nat,
         Lens(p, n), Lens(t, n), HasCut(s, p, n, all),
         \A k \in 1 .. n : t[k] = p[k],
         Len(p[0]) # 0, p[0][1].kind # "part", Rest(t[0], p[0]), Rest(r, s)
  PROVE  HasCut(r, t, n, all)
<1>1. PICK o \in Offsets(n) : Cut(s, o, p, n) /\ (all = "up" => o[n + 1] = Len(s))
  BY DEF HasCut
<1> DEFINE u == [k \in 0 .. n + 1 |-> IF k = 0 THEN 0 ELSE o[k] - 1]
<1>2. /\ \A k \in 0 .. n + 1 : o[k] \in Nat
      /\ \A k \in 0 .. n : Len(p[k]) \in Nat /\ Full(p[k]) \in Nat
      /\ \A k \in 0 .. n : Len(t[k]) \in Nat /\ Full(t[k]) \in Nat
      /\ 0 \in 0 .. n /\ 1 \in 0 .. n /\ n + 1 \in 0 .. n + 1 /\ n \in 0 .. n
  <2>1. \A k \in 0 .. n + 1 : o[k] \in Nat
    BY <1>1 DEF Offsets
  <2>2. \A k \in 0 .. n : Len(p[k]) \in Nat /\ Len(t[k]) \in Nat
    BY DEF Lens
  <2>3. \A k \in 0 .. n : Full(p[k]) \in Nat /\ Full(t[k]) \in Nat
    BY <2>2, FullFacts
  <2> QED BY <2>1, <2>2, <2>3
<1>0. /\ Len(p[0]) \in Nat /\ Full(p[0]) \in Nat /\ Len(t[0]) \in Nat /\ Full(t[0]) \in Nat
      /\ o[0] \in Nat /\ o[n + 1] \in Nat
  BY <1>2
<1>3. /\ Len(p[0]) = Len(t[0]) + 1 /\ \A i \in 1 .. Len(t[0]) : t[0][i] = p[0][i + 1]
      /\ Len(s) = Len(r) + 1 /\ \A i \in 1 .. Len(r) : r[i] = s[i + 1]
  BY DEF Rest
<1>4. Full(p[0]) = Full(t[0]) + 1 /\ (EndsInPart(t[0]) <=> EndsInPart(p[0]))
  <2>1. CASE Len(t[0]) = 0
    BY <2>1, <1>2, <1>3 DEF Full, EndsInPart
  <2>2. CASE Len(t[0]) # 0
    <3>1. t[0][Len(t[0])] = p[0][Len(p[0])]
      <4>1. Len(t[0]) \in 1 .. Len(t[0])
        BY <2>2, <1>0
      <4>2. t[0][Len(t[0])] = p[0][Len(t[0]) + 1]
        BY <4>1, <1>3
      <4> QED BY <4>2, <1>3
    <3>2. EndsInPart(t[0]) <=> EndsInPart(p[0])
      BY <3>1, <2>2 DEF EndsInPart
    <3> QED BY <3>2, <1>2, <1>3 DEF Full
  <2> QED BY <2>1, <2>2
<1>5. o[0] = 0 /\ \A k \in 1 .. n + 1 : Full(p[0]) <= o[k]
  <2>1. o[0] = 0 /\ \A m \in 0 .. n + 1 : 0 < m => o[0] + Full(p[0]) <= o[m]
    BY <1>1, <1>2 DEF Cut
  <2> QED BY <2>1, <1>2
<1>16. \A k \in 1 .. n + 1 : k \in 0 .. n + 1 /\ o[k] \in Nat /\ o[k] >= 1 /\ o[k] - 1 \in Nat
  <2> SUFFICES ASSUME NEW k \in 1 .. n + 1
               PROVE  k \in 0 .. n + 1 /\ o[k] \in Nat /\ o[k] >= 1 /\ o[k] - 1 \in Nat
    OBVIOUS
  <2>1. k \in 0 .. n + 1
    OBVIOUS
  <2>2. o[k] \in Nat /\ Full(p[0]) <= o[k]
    BY <2>1, <1>2, <1>5
  <2>3. Full(p[0]) \in Nat /\ Full(p[0]) >= 1
    BY <1>0, <1>4
  <2>4. o[k] >= 1
    BY <2>2, <2>3
  <2> QED BY <2>1, <2>2, <2>4
<1>6. u \in Offsets(n)
  <2>1. \A k \in 0 .. n + 1 : (IF k = 0 THEN 0 ELSE o[k] - 1) \in Nat
    BY <1>16
  <2> QED BY <2>1 DEF Offsets
<1>7. u[0] = 0 /\ \A k \in 1 .. n + 1 : u[k] = o[k] - 1
  OBVIOUS
<1> HIDE DEF u
<1>8. \A k \in 0 .. n : u[k + 1] = u[k] + Full(t[k])
  <2> SUFFICES ASSUME NEW k \in 0 .. n PROVE u[k + 1] = u[k] + Full(t[k])
    OBVIOUS
  <2>1. o[k + 1] = o[k] + Full(p[k])
    BY <1>1 DEF Cut
  <2>2. k + 1 \in 1 .. n + 1
    OBVIOUS
  <2>3. CASE k = 0
    BY <2>1, <2>2, <2>3, <1>2, <1>4, <1>5, <1>7
  <2>4. CASE k # 0
    <3>1. k \in 1 .. n + 1 /\ k \in 1 .. n
      BY <2>4
    <3>2. o[k] \in Nat /\ o[k + 1] \in Nat /\ Full(p[k]) \in Nat
      BY <3>1, <2>2, <1>16, <1>2
    <3>3. u[k] = o[k] - 1 /\ u[k + 1] = o[k + 1] - 1 /\ t[k] = p[k]
      BY <3>1, <2>2, <1>7
    <3> QED BY <3>2, <3>3, <2>1
  <2> QED BY <2>3, <2>4
<1>9. ASSUME NEW k \in 0 .. n, NEW m \in 0 .. n + 1, k < m
      PROVE  u[k] + Full(t[k]) <= u[m]
  <2>1. o[k] + Full(p[k]) <= o[m]
    BY <1>1, <1>9 DEF Cut
  <2>2. m \in 1 .. n + 1
    BY <1>9
  <2>3. CASE k = 0
    BY <2>1, <2>2, <2>3, <1>2, <1>4, <1>5, <1>7
  <2>4. CASE k # 0
    <3>1. k \in 1 .. n + 1 /\ k \in 1 .. n
      BY <2>4
    <3>2. o[k] \in Nat /\ o[m] \in Nat /\ Full(p[k]) \in Nat
      BY <3>1, <2>2, <1>16, <1>2
    <3>3. u[k] = o[k] - 1 /\ u[m] = o[m] - 1 /\ t[k] = p[k]
      BY <3>1, <2>2, <1>7
    <3> QED BY <3>2, <3>3, <2>1
  <2> QED BY <2>3, <2>4
<1>10. ASSUME NEW k \in 0 .. n, NEW i \in 1 .. Len(t[k])
       PROVE  /\ u[k] + i <= Len(r) /\ IsIn(t[k][i], r[u[k] + i])
              /\ t[k][i].kind = "part" => k < n /\ i = Len(t[k])
  <2>1. \A j \in 1 .. Len(p[k]) :
          /\ o[k] + j <= Len(s) /\ IsIn(p[k][j], s[o[k] + j])
          /\ p[k][j].kind = "part" => k < n /\ j = Len(p[k])
    BY <1>1 DEF Cut
  <2>2. CASE k = 0
    <3>1. i \in 1 .. Len(t[0]) /\ i \in Nat /\ i + 1 \in 1 .. Len(p[0]) /\ t[0][i] = p[0][i + 1]
      BY <2>2, <1>0, <1>3
    <3>2. /\ o[0] + (i + 1) <= Len(s) /\ IsIn(p[0][i + 1], s[o[0] + (i + 1)])
          /\ p[0][i + 1].kind = "part" => 0 < n /\ i + 1 = Len(p[0])
      BY <2>1, <2>2, <3>1
    <3>3. o[0] + (i + 1) = i + 1 /\ i \in 1 .. Len(r)
      BY <3>1, <3>2, <1>3, <1>5
    <3>4. r[i] = s[i + 1] /\ u[k] + i = i
      BY <2>2, <3>1, <3>3, <1>3, <1>7
    <3>5. t[0][i].kind = "part" => i = Len(t[0])
      BY <3>1, <3>2, <1>0, <1>3
    <3> QED BY <2>2, <3>1, <3>2, <3>3, <3>4, <3>5
  <2>3. CASE k # 0
    <3>1. /\ i \in 1 .. Len(p[k]) /\ t[k] = p[k] /\ o[k] \in Nat /\ o[k] >= 1
          /\ u[k] = o[k] - 1
      <4>1. k \in 1 .. n + 1 /\ k \in 1 .. n
        BY <2>3
      <4> QED BY <4>1, <1>16, <1>7
    <3>2. o[k] + i <= Len(s) /\ IsIn(p[k][i], s[o[k] + i])
      BY <2>1, <3>1
    <3>3. u[k] + i \in 1 .. Len(r) /\ (u[k] + i) + 1 = o[k] + i
      <4>1. i \in Nat /\ i >= 1
        BY <3>1
      <4>2. Len(s) = Len(r) + 1 /\ Len(r) \in Nat
        BY <1>3
      <4>3. o[k] \in Nat /\ o[k] >= 1 /\ u[k] = o[k] - 1 /\ o[k] + i <= Len(s)
        BY <3>1, <3>2
      <4>4. u[k] + i = o[k] + i - 1
        BY ONLY <4>1, <4>3
      <4> QED BY ONLY <4>1, <4>2, <4>3, <4>4
    <3>4. r[u[k] + i] = s[o[k] + i]
      BY <3>3, <1>3
    <3> QED BY <2>1, <3>1, <3>2, <3>3, <3>4
  <2> QED BY <2>2, <2>3
<1>11. ASSUME NEW k \in 0 .. n, NEW m \in 0 .. n, Joins(t, u, k, m)
       PROVE  IF m = n THEN t[n][1].cut ELSE t[m][1].kind # "part"
  <2>1. \A i, j \in 0 .. n :
          Joins(p, o, i, j) => IF j = n THEN p[n][1].cut ELSE p[j][1].kind # "part"
    BY <1>1 DEF Cut
  <2>2. /\ m \in 1 .. n /\ k + 1 \in 1 .. n + 1 /\ k < m /\ EndsInPart(t[k])
        /\ Len(t[m]) # 0 /\ u[m] = u[k + 1]
    BY <1>11 DEF Joins
  <2>3. o[m] = o[k + 1]
    <3>1. m \in 1 .. n + 1 /\ u[m] = o[m] - 1 /\ u[k + 1] = o[k + 1] - 1
      BY <2>2, <1>7
    <3>2. o[m] \in Nat /\ o[k + 1] \in Nat
      BY <2>2, <3>1, <1>16
    <3>3. o[m] - 1 = o[k + 1] - 1
      BY <2>2, <3>1
    <3> QED BY ONLY <3>2, <3>3
  <2>4. EndsInPart(p[k])
    BY <2>2, <1>4
  <2>5. Joins(p, o, k, m)
    BY <2>2, <2>3, <2>4 DEF Joins
  <2>6. n \in 1 .. n
    OBVIOUS
  <2> QED BY <2>1, <2>2, <2>5, <2>6
<1>12. Cut(r, u, t, n)
  BY <1>7, <1>8, <1>9, <1>10, <1>11 DEF Cut
<1>13. all = "up" => u[n + 1] = Len(r)
  <2>1. n + 1 \in 1 .. n + 1
    OBVIOUS
  <2>2. u[n + 1] = o[n + 1] - 1
    BY <2>1, <1>7
  <2>3. Len(s) - 1 = Len(r)
    BY <1>3
  <2> QED BY <1>1, <2>2, <2>3
<1>14. Flagged(t, n)
  <2>1. Flagged(p, n) /\ n \in 1 .. n
    BY DEF HasCut
  <2>2. \A k \in 0 .. n : EndsInPart(t[k]) <=> EndsInPart(p[k])
    BY <1>4
  <2>3. \A k \in 0 .. n, m \in 1 .. n : GoesOn(t, k, m) <=> GoesOn(p, k, m)
    <3> SUFFICES ASSUME NEW k \in 0 .. n, NEW m \in 1 .. n
                 PROVE  GoesOn(t, k, m) <=> GoesOn(p, k, m)
      OBVIOUS
    <3>1. \A j \in k + 1 .. m - 1 : t[j] = p[j]
      OBVIOUS
    <3> QED BY <2>2, <3>1 DEF GoesOn
  <2> QED BY <2>1, <2>3 DEF Flagged
<1> QED BY <1>6, <1>12, <1>13, <1>14 DEF HasCut

(* The last piece and the stream grow by the same packets. *)
Extended(t, q, a) ==
  /\ Len(t) = Len(q) + Len(a)
  /\ \A i \in 1 .. Len(q) : t[i] = q[i]
  /\ \A i \in 1 .. Len(a) : t[Len(q) + i] = a[i]

LEMMA CutSend ==
  ASSUME NEW s, NEW r, NEW a, NEW p, NEW t, NEW n \in Nat, n >= 1,
         Len(s) \in Nat, Len(r) \in Nat, Len(a) \in Nat,
         Lens(p, n), Lens(t, n), HasCut(s, p, n, "up"),
         \A k \in 0 .. n - 1 : t[k] = p[k],
         \A i \in 1 .. Len(a) : a[i].kind \notin {"part", "garbage"} /\ ~a[i].cut,
         Extended(t[n], p[n], a), Extended(r, s, a)
  PROVE  HasCut(r, t, n, "up")
<1>1. PICK o \in Offsets(n) : Cut(s, o, p, n) /\ o[n + 1] = Len(s)
  BY DEF HasCut
<1> DEFINE u == [k \in 0 .. n + 1 |-> IF k = n + 1 THEN Len(r) ELSE o[k]]
<1>2. /\ \A k \in 0 .. n + 1 : o[k] \in Nat
      /\ \A k \in 0 .. n : Len(p[k]) \in Nat /\ Full(p[k]) \in Nat
      /\ \A k \in 0 .. n : Len(t[k]) \in Nat /\ Full(t[k]) \in Nat
      /\ 0 \in 0 .. n /\ n + 1 \in 0 .. n + 1 /\ n \in 0 .. n
  <2>1. \A k \in 0 .. n + 1 : o[k] \in Nat
    BY <1>1 DEF Offsets
  <2>2. /\ \A k \in 0 .. n : Len(p[k]) \in Nat
        /\ \A k \in 0 .. n : Len(t[k]) \in Nat
    BY DEF Lens
  <2>3. /\ \A k \in 0 .. n : Full(p[k]) \in Nat
        /\ \A k \in 0 .. n : Full(t[k]) \in Nat
    BY <2>2, FullFacts
  <2> QED BY <2>1, <2>2, <2>3
<1>3. u \in Offsets(n) /\ u[n + 1] = Len(r) /\ \A k \in 0 .. n : u[k] = o[k]
  BY <1>2 DEF Offsets
<1> HIDE DEF u
<1>4. /\ Len(t[n]) = Len(p[n]) + Len(a) /\ Len(r) = Len(s) + Len(a)
      /\ \A i \in 1 .. Len(p[n]) : t[n][i] = p[n][i]
      /\ \A i \in 1 .. Len(a) : t[n][Len(p[n]) + i] = a[i]
      /\ \A i \in 1 .. Len(s) : r[i] = s[i]
      /\ \A i \in 1 .. Len(a) : r[Len(s) + i] = a[i]
  BY DEF Extended
<1>0. /\ Len(p[n]) \in Nat /\ Full(p[n]) \in Nat /\ Len(t[n]) \in Nat /\ Full(t[n]) \in Nat
      /\ o[n] \in Nat /\ o[n + 1] \in Nat /\ ~(n < n)
  <2>1. n \in 0 .. n + 1
    OBVIOUS
  <2> QED BY <2>1, <1>2
<1>5. \A i \in 1 .. Len(p[n]) : p[n][i].kind # "part"
  <2>1. \A i \in 1 .. Len(p[n]) : p[n][i].kind = "part" => n < n
    BY <1>1, <1>2 DEF Cut
  <2> QED BY <2>1, <1>0
<1>6. ASSUME NEW i \in 1 .. Len(t[n])
      PROVE  \/ i \in 1 .. Len(p[n]) /\ t[n][i] = p[n][i]
             \/ i - Len(p[n]) \in 1 .. Len(a) /\ t[n][i] = a[i - Len(p[n])]
                /\ i = Len(p[n]) + (i - Len(p[n]))
  <2>1. i \in 1 .. Len(p[n]) \/ i - Len(p[n]) \in 1 .. Len(a)
    BY <1>2, <1>4
  <2>2. i = Len(p[n]) + (i - Len(p[n]))
    BY <1>2
  <2> QED BY <2>1, <2>2, <1>4
<1>7. \A i \in 1 .. Len(t[n]) : t[n][i].kind # "part"
  BY <1>5, <1>6
<1>8. Full(p[n]) = Len(p[n]) /\ Full(t[n]) = Len(t[n])
  BY <1>2, <1>5, <1>7 DEF Full, EndsInPart
<1>9. Len(s) = o[n] + Len(p[n])
  BY <1>1, <1>2, <1>8 DEF Cut
<1>10. \A k \in 0 .. n - 1 : k \in 0 .. n /\ k + 1 \in 0 .. n /\ t[k] = p[k]
  OBVIOUS
<1>11. ASSUME NEW k \in 0 .. n PROVE u[k + 1] = u[k] + Full(t[k])
  <2>1. CASE k = n
    <3>1. u[k + 1] = Len(s) + Len(a) /\ u[k] = o[n]
      BY <2>1, <1>3, <1>4
    <3>2. Full(t[k]) = Len(p[n]) + Len(a)
      BY <2>1, <1>4, <1>8
    <3> QED BY <3>1, <3>2, <1>0, <1>9
  <2>2. CASE k # n
    <3>1. k \in 0 .. n - 1 /\ o[k + 1] = o[k] + Full(p[k])
      BY <2>2, <1>1 DEF Cut
    <3> QED BY <3>1, <1>3, <1>10
  <2> QED BY <2>1, <2>2
<1>12. ASSUME NEW k \in 0 .. n, NEW m \in 0 .. n + 1, k < m
       PROVE  u[k] + Full(t[k]) <= u[m]
  <2>1. CASE k = n
    <3>1. m = n + 1 /\ u[m] = Len(r) /\ u[k] = o[n] /\ t[k] = t[n]
      BY <2>1, <1>12, <1>3
    <3> QED BY <3>1, <1>0, <1>4, <1>8, <1>9
  <2>2. CASE k # n
    <3>1. k \in 0 .. n - 1 /\ o[k] + Full(p[k]) <= o[m]
      BY <2>2, <1>1, <1>12 DEF Cut
    <3>2. o[m] <= u[m]
      <4>1. CASE m = n + 1
        BY <4>1, <1>1, <1>3, <1>4
      <4>2. CASE m # n + 1
        BY <4>2, <1>2, <1>3
      <4> QED BY <4>1, <4>2
    <3>3. o[k] + Full(p[k]) \in Nat /\ o[m] \in Nat /\ u[m] \in Nat
      <4>1. o[k] \in Nat /\ Full(p[k]) \in Nat /\ k \in 0 .. n + 1
        BY <1>2
      <4>2. o[m] \in Nat
        BY <1>2
      <4>3. u[m] \in Nat
        BY <1>3 DEF Offsets
      <4> QED BY <4>1, <4>2, <4>3
    <3> QED BY <3>1, <3>2, <3>3, <1>3, <1>10
  <2> QED BY <2>1, <2>2
<1>13. ASSUME NEW k \in 0 .. n, NEW i \in 1 .. Len(t[k])
       PROVE  /\ u[k] + i <= Len(r) /\ IsIn(t[k][i], r[u[k] + i])
              /\ t[k][i].kind = "part" => k < n /\ i = Len(t[k])
  <2>1. \A j \in 1 .. Len(p[k]) :
          /\ o[k] + j <= Len(s) /\ IsIn(p[k][j], s[o[k] + j])
          /\ p[k][j].kind = "part" => k < n /\ j = Len(p[k])
    BY <1>1 DEF Cut
  <2>2. \A j \in 1 .. Len(p[k]) : o[k] + j <= Len(r) /\ r[o[k] + j] = s[o[k] + j]
    <3>1. \A j \in 1 .. Len(p[k]) : o[k] + j \in 1 .. Len(s)
      <4>1. k \in 0 .. n + 1 /\ o[k] \in Nat
        <5>1. k \in 0 .. n + 1
          OBVIOUS
        <5> QED BY <5>1, <1>2
      <4>2. ASSUME NEW j \in 1 .. Len(p[k])
            PROVE  o[k] + j \in 1 .. Len(s)
        <5>1. o[k] + j <= Len(s)
          BY <2>1
        <5>2. j \in Nat /\ j >= 1
          OBVIOUS
        <5> QED BY <4>1, <5>1, <5>2
      <4> QED BY <4>2
    <3>2. Len(s) <= Len(r)
      BY <1>4
    <3> QED BY <3>1, <3>2, <1>4
  <2>3. CASE k # n \/ (i \in 1 .. Len(p[n]) /\ t[n][i] = p[n][i])
    <3>1. u[k] = o[k]
      BY <1>3
    <3>2. i \in 1 .. Len(p[k]) /\ t[k][i] = p[k][i] /\ (k # n => Len(t[k]) = Len(p[k]))
      <4>1. CASE k = n
        BY <2>3, <4>1
      <4>2. CASE k # n
        <5>1. t[k] = p[k]
          BY <4>2, <1>10
        <5> QED BY <5>1
      <4> QED BY <4>1, <4>2
    <3>3. t[k][i].kind = "part" => k # n
      BY <1>7
    <3> QED BY <2>1, <2>2, <3>1, <3>2, <3>3
  <2>4. CASE /\ k = n /\ i - Len(p[n]) \in 1 .. Len(a) /\ t[n][i] = a[i - Len(p[n])]
             /\ i = Len(p[n]) + (i - Len(p[n]))
    <3>1. u[k] + i = Len(s) + (i - Len(p[n])) /\ u[k] + i <= Len(r)
      <4>1. u[k] = o[n] /\ i \in Nat
        <5>1. i \in 1 .. Len(t[n])
          BY <2>4
        <5> QED BY <5>1, <2>4, <1>0, <1>3
      <4>2. i - Len(p[n]) <= Len(a)
        BY <2>4
      <4>3. Len(r) = Len(s) + Len(a) /\ Len(s) = o[n] + Len(p[n])
        BY <1>4, <1>9
      <4>4. o[n] \in Nat /\ Len(p[n]) \in Nat /\ Len(a) \in Nat
        BY <1>0
      <4>5. u[k] + i = Len(s) + (i - Len(p[n]))
        BY ONLY <4>1, <4>3, <4>4
      <4>6. Len(s) + (i - Len(p[n])) <= Len(r)
        BY ONLY <4>1, <4>2, <4>3, <4>4
      <4> QED BY <4>5, <4>6
    <3>2. r[u[k] + i] = t[n][i]
      BY <2>4, <3>1, <1>4
    <3> QED BY <2>4, <3>1, <3>2, <1>7 DEF IsIn
  <2> QED BY <2>3, <2>4, <1>6
<1>17. ASSUME NEW k \in 0 .. n - 1, EndsInPart(p[k]), o[n] = o[k + 1], Len(p[n]) = 0
       PROVE  FALSE
  <2>0. k \in 0 .. n
    OBVIOUS
  <2>1. Len(p[k]) \in 1 .. Len(p[k]) /\ Len(p[k]) = Full(p[k]) + 1
    <3>1. Len(p[k]) \in Nat /\ Len(p[k]) # 0
      BY <2>0, <1>17, <1>2 DEF EndsInPart
    <3> QED BY <3>1, <1>17, FullFacts
  <2>2. o[k] + Len(p[k]) <= Len(s) /\ o[k + 1] = o[k] + Full(p[k])
    BY <2>0, <2>1, <1>1 DEF Cut
  <2>3. k \in 0 .. n + 1 /\ o[k] \in Nat /\ Full(p[k]) \in Nat
    <3>1. k \in 0 .. n + 1
      OBVIOUS
    <3> QED BY <2>0, <3>1, <1>2
  <2> QED BY <2>1, <2>2, <2>3, <1>9, <1>17
<1>14. ASSUME NEW k \in 0 .. n, NEW m \in 0 .. n, Joins(t, u, k, m)
       PROVE  IF m = n THEN t[n][1].cut ELSE t[m][1].kind # "part"
  <2>1. \A i, j \in 0 .. n :
          Joins(p, o, i, j) => IF j = n THEN p[n][1].cut ELSE p[j][1].kind # "part"
    BY <1>1 DEF Cut
  <2>2. /\ k < m /\ k \in 0 .. n - 1 /\ k + 1 \in 0 .. n /\ EndsInPart(p[k])
        /\ Len(t[m]) # 0 /\ o[m] = o[k + 1]
    BY <1>14, <1>3, <1>10 DEF Joins
  <2>3. CASE m # n
    BY <2>1, <2>2, <2>3, <1>10 DEF Joins
  <2>4. CASE m = n /\ Len(p[n]) # 0
    <3>1. Joins(p, o, k, n)
      BY <2>2, <2>4 DEF Joins
    <3>2. t[n][1] = p[n][1]
      BY <2>4, <1>2, <1>4
    <3> QED BY <2>1, <2>2, <2>4, <3>1, <3>2
  <2>5. CASE m = n /\ Len(p[n]) = 0
    BY <2>2, <2>5, <1>17
  <2> QED BY <2>3, <2>4, <2>5
<1>15. Cut(r, u, t, n)
  <2>1. u[0] = 0
    BY <1>1, <1>2, <1>3 DEF Cut
  <2> QED BY <2>1, <1>11, <1>12, <1>13, <1>14 DEF Cut
<1>16. Flagged(t, n)
  <2>1. Flagged(p, n) /\ n \in 1 .. n
    BY DEF HasCut
  <2>2. \A k \in 0 .. n, m \in 1 .. n : GoesOn(t, k, m) <=> GoesOn(p, k, m)
    <3> SUFFICES ASSUME NEW k \in 0 .. n, NEW m \in 1 .. n
                 PROVE  GoesOn(t, k, m) <=> GoesOn(p, k, m)
      OBVIOUS
    <3>1. \A j \in k + 1 .. m - 1 : t[j] = p[j]
      BY <1>10
    <3>2. k < m => t[k] = p[k]
      BY <1>10
    <3> QED BY <3>1, <3>2 DEF GoesOn
  <2>3. ASSUME NEW m \in 1 .. n, Len(t[m]) # 0
        PROVE  t[m][1].cut <=> \E k \in 0 .. n : GoesOn(p, k, m)
    <3>1. CASE m # n
      <4>1. t[m] = p[m]
        BY <3>1, <1>10
      <4> QED BY <2>1, <2>3, <4>1 DEF Flagged
    <3>2. CASE m = n /\ Len(p[n]) # 0
      <4>1. t[n][1] = p[n][1]
        BY <3>2, <1>2, <1>4
      <4> QED BY <2>1, <3>2, <4>1 DEF Flagged
    <3>3. CASE m = n /\ Len(p[n]) = 0
      <4>1. 1 \in 1 .. Len(a) /\ t[n][1] = a[1]
        BY <2>3, <3>3, <1>4, <1>0
      <4>2. ASSUME NEW k \in 0 .. n, GoesOn(p, k, n) PROVE FALSE
        <5>1. k \in 0 .. n - 1 /\ EndsInPart(p[k]) /\ \A j \in k + 1 .. n - 1 : Len(p[j]) = 0
          BY <4>2 DEF GoesOn
        <5>2. ASSUME NEW j \in k + 1 .. n - 1 PROVE o[j + 1] = o[j]
          <6>1. j \in 0 .. n /\ j \in 0 .. n + 1 /\ Len(p[j]) = 0
            BY <5>1
          <6>2. o[j + 1] = o[j] + Full(p[j])
            BY <6>1, <1>1 DEF Cut
          <6>3. Full(p[j]) = 0 /\ o[j] \in Nat
            BY <6>1, <1>2, FullFacts
          <6> QED BY <6>2, <6>3
        <5>3. o[n] = o[k + 1]
          <6>1. k + 1 \in Nat /\ n \in k + 1 .. n
            BY <5>1
          <6> QED BY <5>2, <6>1, SameAll
        <5> QED BY <5>1, <5>3, <3>3, <1>17
      <4> QED BY <3>3, <4>1, <4>2
    <3> QED BY <3>1, <3>2, <3>3
  <2>4. ASSUME NEW i \in 2 .. Len(t[n]) PROVE ~t[n][i].cut
    <3>1. i \in 1 .. Len(t[n])
      OBVIOUS
    <3>2. CASE i \in 1 .. Len(p[n]) /\ t[n][i] = p[n][i]
      <4>1. i \in 2 .. Len(p[n])
        BY <3>2
      <4> QED BY <2>1, <3>2, <4>1 DEF Flagged
    <3>3. CASE i - Len(p[n]) \in 1 .. Len(a) /\ t[n][i] = a[i - Len(p[n])]
      BY <3>3
    <3> QED BY <3>1, <3>2, <3>3, <1>6
  <2> QED BY <2>2, <2>3, <2>4 DEF Flagged
<1> QED BY <1>3, <1>15, <1>16 DEF HasCut

(* Of the last piece the first c packets are moved to a message, and       *)
(* perhaps a part of the next one.                                         *)
IsTaken(t, w, c) ==
  /\ c \in Nat /\ Len(t) \in {c, c + 1} /\ Len(t) # 0 /\ Len(t) <= Len(w)
  /\ \A i \in 1 .. c :
       t[i].of = w[i].of /\ t[i].todo = w[i].todo /\ t[i].kind = w[i].kind
  /\ Len(t) = c + 1 => /\ t[c + 1].of = w[c + 1].of /\ t[c + 1].todo = w[c + 1].todo
                       /\ t[c + 1].kind = "part"
  /\ \A i \in 1 .. Len(t) : t[i].cut = w[i].cut

IsLeft(t, w, c) ==
  /\ Len(w) = c + Len(t)
  /\ \A i \in 1 .. Len(t) :
       t[i].of = w[c + i].of /\ t[i].todo = w[c + i].todo /\ t[i].kind = w[c + i].kind
  /\ \A i \in 2 .. Len(t) : t[i].cut = w[c + i].cut

LEMMA CutReceive ==
  ASSUME NEW s, NEW p, NEW t, NEW n \in Nat, NEW all, NEW c \in Nat, n >= 1,
         Len(s) \in Nat, Lens(p, n), Lens(t, n + 1), HasCut(s, p, n, all),
         \A k \in 0 .. n - 1 : t[k] = p[k],
         IsTaken(t[n], p[n], c), IsLeft(t[n + 1], p[n], c),
         Len(t[n]) = c + 1 => t[n + 1][1].cut /\ (c = 0 => ~p[n][1].cut),
         Len(t[n]) = c /\ Len(t[n + 1]) # 0 => t[n + 1][1].cut = p[n][c + 1].cut
  PROVE  HasCut(s, t, n + 1, all)
<1>1. PICK o \in Offsets(n) : Cut(s, o, p, n) /\ (all = "up" => o[n + 1] = Len(s))
  BY DEF HasCut
<1> DEFINE u == [k \in 0 .. n + 2 |-> IF k = n + 2 THEN o[n + 1]
                                      ELSE IF k = n + 1 THEN o[n] + c ELSE o[k]]
<1>2. /\ \A k \in 0 .. n + 1 : o[k] \in Nat
      /\ \A k \in 0 .. n : Len(p[k]) \in Nat /\ Full(p[k]) \in Nat
      /\ \A k \in 0 .. n + 1 : Len(t[k]) \in Nat /\ Full(t[k]) \in Nat
      /\ 0 \in 0 .. n /\ n + 1 \in 0 .. n + 1 /\ n \in 0 .. n /\ n \in 0 .. n + 1
  <2>1. \A k \in 0 .. n + 1 : o[k] \in Nat
    BY <1>1 DEF Offsets
  <2>2. /\ \A k \in 0 .. n : Len(p[k]) \in Nat
        /\ \A k \in 0 .. n + 1 : Len(t[k]) \in Nat
    BY DEF Lens
  <2>3. /\ \A k \in 0 .. n : Full(p[k]) \in Nat
        /\ \A k \in 0 .. n + 1 : Full(t[k]) \in Nat
    BY <2>2, FullFacts
  <2> QED BY <2>1, <2>2, <2>3
<1>3. /\ Len(p[n]) \in Nat /\ Full(p[n]) \in Nat /\ o[n] \in Nat /\ o[n + 1] \in Nat
      /\ Len(t[n]) \in Nat /\ Full(t[n]) \in Nat /\ ~(n < n)
      /\ Len(t[n + 1]) \in Nat /\ Full(t[n + 1]) \in Nat
  <2>1. /\ Len(p[n]) \in Nat /\ Full(p[n]) \in Nat
        /\ o[n] \in Nat /\ o[n + 1] \in Nat
    BY <1>2
  <2>2. /\ Len(t[n]) \in Nat /\ Full(t[n]) \in Nat
        /\ Len(t[n + 1]) \in Nat /\ Full(t[n + 1]) \in Nat
    BY <1>2
  <2>3. ~(n < n)
    OBVIOUS
  <2> QED BY <2>1, <2>2, <2>3
<1>4. /\ u[n + 2] = o[n + 1] /\ u[n + 1] = o[n] + c
      /\ \A k \in 0 .. n : u[k] = o[k]
      /\ u \in Offsets(n + 1)
  <2>1. n + 2 \in 0 .. n + 2 /\ n + 1 \in 0 .. n + 2 /\ (n + 1) + 1 = n + 2
    OBVIOUS
  <2>2. \A k \in 0 .. n + 2 : k # n + 2 => k \in 0 .. n + 1
    OBVIOUS
  <2>3. \A k \in 0 .. n + 2 :
          (IF k = n + 2 THEN o[n + 1] ELSE IF k = n + 1 THEN o[n] + c ELSE o[k]) \in Nat
    <3>1. o[n] + c \in Nat /\ o[n + 1] \in Nat
      BY <1>3
    <3> QED BY <2>2, <3>1, <1>2
  <2> QED BY <2>1, <2>3 DEF Offsets
<1> HIDE DEF u
<1>5. \A i \in 1 .. Len(p[n]) : p[n][i].kind # "part"
  <2>1. \A i \in 1 .. Len(p[n]) : p[n][i].kind = "part" => n < n
    BY <1>1, <1>2 DEF Cut
  <2> QED BY <2>1, <1>3
<1>6. /\ Len(t[n]) \in {c, c + 1} /\ Len(t[n]) # 0 /\ Len(t[n]) <= Len(p[n])
      /\ \A i \in 1 .. c : t[n][i].of = p[n][i].of /\ t[n][i].todo = p[n][i].todo
                           /\ t[n][i].kind = p[n][i].kind
      /\ Len(t[n]) = c + 1 => /\ t[n][c + 1].of = p[n][c + 1].of
                              /\ t[n][c + 1].todo = p[n][c + 1].todo
                              /\ t[n][c + 1].kind = "part"
  BY DEF IsTaken
<1>7. /\ Len(p[n]) = c + Len(t[n + 1])
      /\ \A i \in 1 .. Len(t[n + 1]) :
           /\ t[n + 1][i].of = p[n][c + i].of /\ t[n + 1][i].todo = p[n][c + i].todo
           /\ t[n + 1][i].kind = p[n][c + i].kind
  BY DEF IsLeft
<1>8. EndsInPart(t[n]) <=> Len(t[n]) = c + 1
  <2>1. CASE Len(t[n]) = c
    <3>1. c \in 1 .. c /\ c \in 1 .. Len(p[n])
      BY <2>1, <1>3, <1>6
    <3>2. t[n][Len(t[n])].kind # "part"
      BY <2>1, <3>1, <1>5, <1>6
    <3> QED BY <2>1, <3>2 DEF EndsInPart
  <2>2. CASE Len(t[n]) = c + 1
    BY <2>2, <1>6 DEF EndsInPart
  <2> QED BY <2>1, <2>2, <1>6
<1>9. Full(t[n]) = c
  BY <1>6, <1>8, <1>3 DEF Full
<1>10. \A i \in 1 .. Len(t[n + 1]) : c + i \in 1 .. Len(p[n]) /\ t[n + 1][i].kind # "part"
  <2>1. \A i \in 1 .. Len(t[n + 1]) : c + i \in 1 .. Len(p[n])
    BY <1>3, <1>7
  <2> QED BY <2>1, <1>5, <1>7
<1>11. Full(t[n + 1]) = Len(t[n + 1]) /\ Full(p[n]) = Len(p[n])
  <2>1. ~EndsInPart(t[n + 1])
    BY <1>3, <1>10 DEF EndsInPart
  <2>2. ~EndsInPart(p[n])
    BY <1>3, <1>5 DEF EndsInPart
  <2> QED BY <2>1, <2>2 DEF Full
<1>12. o[n + 1] = o[n] + Len(p[n])
  BY <1>1, <1>2, <1>11 DEF Cut
<1>13. \A k \in 0 .. n - 1 : k \in 0 .. n /\ k + 1 \in 0 .. n /\ t[k] = p[k]
  OBVIOUS
<1>14. ASSUME NEW k \in 0 .. n + 1 PROVE k \in 0 .. n - 1 \/ k = n \/ k = n + 1
  OBVIOUS
<1>15. ASSUME NEW k \in 0 .. n + 1 PROVE u[k + 1] = u[k] + Full(t[k])
  <2>1. CASE k = n + 1
    <3>1. k + 1 = n + 2 /\ u[k] = o[n] + c
      BY <2>1, <1>4
    <3>2. u[k + 1] = o[n + 1]
      BY <3>1, <1>4
    <3> QED BY <2>1, <3>1, <3>2, <1>3, <1>7, <1>11, <1>12
  <2>2. CASE k = n
    BY <2>2, <1>2, <1>4, <1>9
  <2>3. CASE k \in 0 .. n - 1
    <3>1. o[k + 1] = o[k] + Full(p[k])
      BY <2>3, <1>1, <1>13 DEF Cut
    <3> QED BY <2>3, <3>1, <1>4, <1>13
  <2> QED BY <2>1, <2>2, <2>3, <1>14
<1>16. ASSUME NEW k \in 0 .. n - 1, NEW m \in 0 .. n + 1, k < m
       PROVE  /\ o[k] \in Nat /\ Full(p[k]) \in Nat /\ o[m] \in Nat
              /\ o[k] + Full(p[k]) <= o[m] /\ o[k] + Full(p[k]) <= o[n]
  <2>1. k \in 0 .. n + 1 /\ k \in 0 .. n /\ k < n
    OBVIOUS
  <2>2. o[k] + Full(p[k]) <= o[m] /\ o[k] + Full(p[k]) <= o[n]
    BY <2>1, <1>1, <1>16, <1>2 DEF Cut
  <2> QED BY <2>1, <2>2, <1>2
<1>17. ASSUME NEW k \in 0 .. n + 1, NEW m \in 0 .. n + 2, k < m
       PROVE  u[k] + Full(t[k]) <= u[m]
  <2>1. CASE k = n + 1
    <3>1. m = n + 2 /\ m = k + 1
      BY <2>1, <1>17
    <3>2. u[m] = o[n + 1] /\ u[k + 1] = u[k] + Full(t[k])
      BY <3>1, <1>15, <1>4
    <3>3. u[k] + Full(t[k]) = o[n + 1]
      BY <3>1, <3>2
    <3> QED BY <3>2, <3>3, <1>3
  <2>2. CASE k = n
    <3>1. u[k] + Full(t[k]) = o[n] + c
      BY <2>2, <1>4, <1>9, <1>2
    <3>2. m = n + 1 \/ m = n + 2
      BY <2>2, <1>17
    <3>3. u[m] = o[n] + c \/ u[m] = o[n] + Len(p[n])
      BY <3>2, <1>4, <1>12
    <3>4. o[n] \in Nat /\ Len(p[n]) \in Nat /\ c \in Nat /\ c <= Len(p[n])
      BY <1>3, <1>7
    <3>5. o[n] + c <= u[m]
      BY ONLY <3>3, <3>4
    <3> QED BY <3>1, <3>5
  <2>3. CASE k \in 0 .. n - 1
    <3>1. u[k] + Full(t[k]) = o[k] + Full(p[k])
      BY <2>3, <1>4, <1>13
    <3>2. CASE m \in 0 .. n
      <4>1. u[m] = o[m] /\ m \in 0 .. n + 1
        BY <3>2, <1>4
      <4> QED BY <2>3, <3>1, <4>1, <1>16, <1>17
    <3>3. CASE m \notin 0 .. n
      <4>1. m = n + 1 \/ m = n + 2
        BY <3>3
      <4>2. u[m] \in Nat /\ o[n] <= u[m]
        <5>1. u[m] = o[n] + c \/ u[m] = o[n] + Len(p[n])
          BY <4>1, <1>4, <1>12
        <5>2. o[n] \in Nat /\ Len(p[n]) \in Nat /\ c \in Nat
          BY <1>3
        <5> QED BY ONLY <5>1, <5>2
      <4>3. /\ o[k] \in Nat /\ Full(p[k]) \in Nat /\ o[k] + Full(p[k]) <= o[n]
        BY <2>3, <1>16, <1>2
      <4>4. o[k] + Full(p[k]) <= u[m]
        BY ONLY <4>2, <4>3, <1>3
      <4> QED BY <3>1, <4>4
    <3> QED BY <3>2, <3>3
  <2> QED BY <2>1, <2>2, <2>3, <1>14
<1>18. \A i \in 1 .. Len(p[n]) : o[n] + i <= Len(s) /\ IsIn(p[n][i], s[o[n] + i])
  BY <1>1, <1>2 DEF Cut
<1>19. ASSUME NEW k \in 0 .. n + 1, NEW i \in 1 .. Len(t[k])
       PROVE  /\ u[k] + i <= Len(s) /\ IsIn(t[k][i], s[u[k] + i])
              /\ t[k][i].kind = "part" => k < n + 1 /\ i = Len(t[k])
  <2>1. CASE k = n + 1
    <3>1. c + i \in 1 .. Len(p[n]) /\ i \in Nat /\ i \in 1 .. Len(t[n + 1])
      BY <2>1, <1>10
    <3>2. u[k] + i = o[n] + (c + i)
      BY <2>1, <3>1, <1>3, <1>4
    <3>3. o[n] + (c + i) <= Len(s) /\ IsIn(p[n][c + i], s[o[n] + (c + i)])
      BY <3>1, <1>18
    <3>4. t[k][i].kind # "part" /\ IsIn(t[k][i], s[o[n] + (c + i)])
      BY <2>1, <3>1, <3>3, <1>7, <1>10 DEF IsIn
    <3> QED BY <3>2, <3>3, <3>4
  <2>2. CASE k = n
    <3>1. i \in 1 .. Len(p[n]) /\ u[k] = o[n] /\ n < n + 1
      BY <2>2, <1>2, <1>3, <1>4, <1>6
    <3>2. CASE i \in 1 .. c
      <4>1. t[n][i].kind # "part" /\ IsIn(t[n][i], s[o[n] + i])
        <5>1. /\ t[n][i].of = p[n][i].of /\ t[n][i].todo = p[n][i].todo
              /\ t[n][i].kind = p[n][i].kind
          BY <3>2, <1>6
        <5>2. p[n][i].kind # "part" /\ IsIn(p[n][i], s[o[n] + i])
          BY <3>1, <1>5, <1>18
        <5> QED BY <5>1, <5>2 DEF IsIn
      <4> QED BY <2>2, <3>1, <4>1, <1>18
    <3>3. CASE i \notin 1 .. c
      <4>1. i = c + 1 /\ Len(t[n]) = c + 1
        BY <2>2, <3>3, <1>6
      <4>2. IsIn(t[n][i], s[o[n] + i])
        BY <3>1, <4>1, <1>6, <1>18 DEF IsIn
      <4> QED BY <2>2, <3>1, <4>1, <4>2, <1>18
    <3> QED BY <3>2, <3>3
  <2>3. CASE k \in 0 .. n - 1
    <3>1. i \in 1 .. Len(p[k]) /\ u[k] = o[k] /\ k < n + 1 /\ t[k] = p[k] /\ k \in 0 .. n
      BY <2>3, <1>4, <1>13
    <3>2. /\ o[k] + i <= Len(s) /\ IsIn(p[k][i], s[o[k] + i])
          /\ p[k][i].kind = "part" => i = Len(p[k])
      BY <3>1, <1>1 DEF Cut
    <3> QED BY <3>1, <3>2
  <2> QED BY <2>1, <2>2, <2>3, <1>14
<1>20. ASSUME NEW k \in 0 .. n + 1, NEW m \in 0 .. n + 1, Joins(t, u, k, m)
       PROVE  IF m = n + 1 THEN t[n + 1][1].cut ELSE t[m][1].kind # "part"
  <2>1. \A i, j \in 0 .. n :
          Joins(p, o, i, j) => IF j = n THEN p[n][1].cut ELSE p[j][1].kind # "part"
    BY <1>1 DEF Cut
  <2>2. k < m /\ EndsInPart(t[k]) /\ Len(t[m]) # 0 /\ u[m] = u[k + 1] /\ k # n + 1
    BY <1>20 DEF Joins
  <2>3. CASE k = n
    <3>1. m = n + 1 /\ Len(t[n]) = c + 1
      BY <2>2, <2>3, <1>8
    <3> QED BY <3>1
  <2>4. CASE k \in 0 .. n - 1
    <3>1. EndsInPart(p[k]) /\ u[m] = o[k + 1] /\ k < n
      BY <2>2, <2>4, <1>4, <1>13
    <3>2. CASE m \in 0 .. n - 1
      <4>1. Joins(p, o, k, m)
        BY <2>2, <3>1, <3>2, <1>4, <1>13 DEF Joins
      <4> QED BY <2>1, <2>4, <3>2, <4>1, <1>13
    <3>3. CASE m = n \/ m = n + 1
      <4>1. Len(p[n]) # 0
        BY <1>3, <1>6
      <4>2. o[k + 1] <= o[n] /\ o[k + 1] \in Nat
        <5>1. o[k + 1] = o[k] + Full(p[k])
          BY <2>4, <1>1, <1>13 DEF Cut
        <5>2. k + 1 \in 0 .. n + 1
          BY <2>4
        <5>3. o[k + 1] \in Nat
          BY <5>2, <1>2
        <5> QED BY <2>4, <5>1, <5>3, <1>16, <1>2, <3>1
      <4>3. (m = n + 1 => c = 0) /\ o[n] = o[k + 1]
        <5>1. u[m] = IF m = n + 1 THEN o[n] + c ELSE o[n]
          BY <3>3, <1>2, <1>4
        <5>2. o[n] \in Nat /\ o[k + 1] \in Nat /\ o[k + 1] <= o[n] /\ u[m] = o[k + 1]
          BY <3>1, <4>2, <1>3
        <5> QED BY <5>1, <5>2
      <4>4. Joins(p, o, k, n)
        BY <3>1, <4>1, <4>3 DEF Joins
      <4>5. p[n][1].cut
        BY <4>4, <2>1, <2>4, <1>2, <1>13
      <4>6. c # 0 /\ m = n
        BY <4>3, <4>5, <3>3, <1>6
      <4>7. 1 \in 1 .. c /\ 1 \in 1 .. Len(p[n])
        BY <4>1, <4>6, <1>3
      <4>8. t[n][1].kind # "part"
        BY <4>7, <1>5, <1>6
      <4> QED BY <4>6, <4>8
    <3> QED BY <3>2, <3>3, <1>14
  <2> QED BY <2>2, <2>3, <2>4, <1>14
<1>21. Cut(s, u, t, n + 1)
  <2>1. u[0] = 0 /\ (n + 1) + 1 = n + 2
    <3>1. o[0] = 0 /\ u[0] = o[0]
      BY <1>1, <1>4 DEF Cut
    <3> QED BY <3>1
  <2> QED BY <2>1, <1>15, <1>17, <1>19, <1>20 DEF Cut
<1>22. all = "up" => u[(n + 1) + 1] = Len(s)
  <2>1. (n + 1) + 1 = n + 2
    OBVIOUS
  <2> QED BY <2>1, <1>1, <1>4
<1>23. Flagged(t, n + 1)
  <2>1. Flagged(p, n) /\ n \in 1 .. n
    BY DEF HasCut
  <2>2. \A k \in 0 .. n, m \in 1 .. n : GoesOn(t, k, m) <=> GoesOn(p, k, m)
    <3> SUFFICES ASSUME NEW k \in 0 .. n, NEW m \in 1 .. n
                 PROVE  GoesOn(t, k, m) <=> GoesOn(p, k, m)
      OBVIOUS
    <3>1. \A j \in k + 1 .. m - 1 : t[j] = p[j]
      OBVIOUS
    <3>2. k < m => t[k] = p[k]
      OBVIOUS
    <3> QED BY <3>1, <3>2 DEF GoesOn
  <2>3. ASSUME NEW m \in 1 .. n, Len(t[m]) # 0
        PROVE  t[m][1].cut <=> \E k \in 0 .. n + 1 : GoesOn(t, k, m)
    <3>1. Len(p[m]) # 0 /\ t[m][1].cut = p[m][1].cut
      <4>1. CASE m = n
        <5>1. 1 \in 1 .. Len(t[n]) /\ Len(p[n]) # 0
          BY <1>3, <1>6
        <5> QED BY <4>1, <5>1 DEF IsTaken
      <4>2. CASE m # n
        BY <2>3, <4>2
      <4> QED BY <4>1, <4>2
    <3>2. t[m][1].cut <=> \E k \in 0 .. n : GoesOn(p, k, m)
      BY <2>1, <3>1 DEF Flagged
    <3>3. \A k \in 0 .. n + 1 : GoesOn(t, k, m) => k \in 0 .. n
      BY DEF GoesOn
    <3> QED BY <2>2, <3>2, <3>3
  <2>4. ASSUME Len(t[n + 1]) # 0
        PROVE  t[n + 1][1].cut <=> \E k \in 0 .. n + 1 : GoesOn(t, k, n + 1)
    <3>1. \A k \in 0 .. n + 1 : GoesOn(t, k, n + 1) => k = n
      <4> SUFFICES ASSUME NEW k \in 0 .. n + 1, GoesOn(t, k, n + 1), k # n PROVE FALSE
        OBVIOUS
      <4>1. k < n + 1 /\ \A j \in k + 1 .. n : Len(t[j]) = 0
        BY DEF GoesOn
      <4>2. n \in k + 1 .. n
        BY <4>1
      <4> QED BY <4>1, <4>2, <1>6
    <3>2. GoesOn(t, n, n + 1) <=> Len(t[n]) = c + 1
      BY <1>8 DEF GoesOn
    <3>3. Len(t[n]) = c => ~t[n + 1][1].cut
      <4>1. SUFFICES ASSUME Len(t[n]) = c PROVE ~t[n + 1][1].cut
        OBVIOUS
      <4>2. c + 1 \in 2 .. Len(p[n])
        BY <2>4, <4>1, <1>3, <1>6, <1>7
      <4> QED BY <2>1, <2>4, <4>1, <4>2 DEF Flagged
    <3>4. n \in 0 .. n + 1 /\ c # c + 1
      OBVIOUS
    <3> QED BY <3>1, <3>2, <3>3, <3>4, <1>6
  <2>5. ASSUME NEW i \in 2 .. Len(t[n + 1]) PROVE ~t[n + 1][i].cut
    <3>1. c + i \in 2 .. Len(p[n])
      <4>1. i \in Nat /\ 2 <= i /\ i <= Len(t[n + 1])
        BY <1>3
      <4>2. Len(p[n]) = c + Len(t[n + 1]) /\ c \in Nat /\ Len(t[n + 1]) \in Nat
        BY <1>3, <1>7
      <4> QED BY ONLY <4>1, <4>2
    <3> QED BY <2>1, <3>1 DEF Flagged, IsLeft
  <2>6. \A m \in 1 .. n + 1 : m \in 1 .. n \/ m = n + 1
    OBVIOUS
  <2> QED BY <2>3, <2>4, <2>5, <2>6 DEF Flagged
<1> QED BY <1>4, <1>21, <1>22, <1>23 DEF HasCut

(* A message without packets is put to the end, before what is to come;    *)
(* with a disconnect that does not come any more.                          *)
LEMMA CutMessage ==
  ASSUME NEW s, NEW p, NEW t, NEW n \in Nat, NEW all, NEW still, n >= 1,
         Len(s) \in Nat, Lens(p, n), Lens(t, n + 1), HasCut(s, p, n, all),
         \A k \in 0 .. n - 1 : t[k] = p[k], Len(t[n]) = 0,
         \/ t[n + 1] = p[n] /\ (still = "up" => all = "up")
         \/ Len(t[n + 1]) = 0 /\ still # "up"
  PROVE  HasCut(s, t, n + 1, still)
<1>1. PICK o \in Offsets(n) : Cut(s, o, p, n) /\ (all = "up" => o[n + 1] = Len(s))
  BY DEF HasCut
<1> DEFINE u == [k \in 0 .. n + 2 |-> IF k = n + 2 THEN o[n] + Full(t[n + 1])
                                      ELSE IF k = n + 1 THEN o[n] ELSE o[k]]
<1>2. /\ \A k \in 0 .. n + 1 : o[k] \in Nat
      /\ \A k \in 0 .. n : Len(p[k]) \in Nat /\ Full(p[k]) \in Nat
      /\ \A k \in 0 .. n + 1 : Len(t[k]) \in Nat /\ Full(t[k]) \in Nat
      /\ 0 \in 0 .. n /\ n + 1 \in 0 .. n + 1 /\ n \in 0 .. n /\ n \in 0 .. n + 1
  <2>1. \A k \in 0 .. n + 1 : o[k] \in Nat
    BY <1>1 DEF Offsets
  <2>2. /\ \A k \in 0 .. n : Len(p[k]) \in Nat
        /\ \A k \in 0 .. n + 1 : Len(t[k]) \in Nat
    BY DEF Lens
  <2>3. /\ \A k \in 0 .. n : Full(p[k]) \in Nat
        /\ \A k \in 0 .. n + 1 : Full(t[k]) \in Nat
    BY <2>2, FullFacts
  <2> QED BY <2>1, <2>2, <2>3
<1>3. /\ Len(p[n]) \in Nat /\ Full(p[n]) \in Nat /\ o[n] \in Nat /\ o[n + 1] \in Nat
      /\ Len(t[n]) \in Nat /\ Full(t[n]) = 0 /\ ~EndsInPart(t[n]) /\ ~(n < n)
      /\ Len(t[n + 1]) \in Nat /\ Full(t[n + 1]) \in Nat
      /\ o[n + 1] = o[n] + Full(p[n])
  <2>1. o[n + 1] = o[n] + Full(p[n])
    BY <1>1, <1>2 DEF Cut
  <2> QED BY <2>1, <1>2, FullFacts
<1>4. /\ u[n + 2] = o[n] + Full(t[n + 1]) /\ u[n + 1] = o[n]
      /\ \A k \in 0 .. n : u[k] = o[k]
      /\ u \in Offsets(n + 1)
  <2>1. n + 2 \in 0 .. n + 2 /\ n + 1 \in 0 .. n + 2 /\ (n + 1) + 1 = n + 2
    OBVIOUS
  <2>2. \A k \in 0 .. n + 2 : k # n + 2 => k \in 0 .. n + 1
    OBVIOUS
  <2>3. \A k \in 0 .. n + 2 :
          (IF k = n + 2 THEN o[n] + Full(t[n + 1]) ELSE IF k = n + 1 THEN o[n] ELSE o[k]) \in Nat
    <3>1. o[n] + Full(t[n + 1]) \in Nat
      BY <1>3
    <3>2. \A k \in 0 .. n + 2 : k # n + 2 => o[k] \in Nat
      BY <2>2, <1>2
    <3> QED BY <3>1, <3>2, <1>3
  <2> QED BY <2>1, <2>3 DEF Offsets
<1> HIDE DEF u
<1>5. /\ ~EndsInPart(t[n + 1])
      /\ Full(t[n + 1]) <= Full(p[n])
      /\ \A i \in 1 .. Len(t[n + 1]) :
           /\ o[n] + i <= Len(s) /\ IsIn(t[n + 1][i], s[o[n] + i])
           /\ t[n + 1][i].kind # "part"
  <2>1. \A i \in 1 .. Len(p[n]) : o[n] + i <= Len(s) /\ IsIn(p[n][i], s[o[n] + i])
                                  /\ (p[n][i].kind = "part" => n < n)
    BY <1>1, <1>2 DEF Cut
  <2>2. CASE t[n + 1] = p[n]
    <3>1. \A i \in 1 .. Len(p[n]) : p[n][i].kind # "part"
      BY <2>1, <1>3
    <3>2. ~EndsInPart(p[n])
      BY <3>1, <1>3 DEF EndsInPart
    <3> QED BY <2>1, <2>2, <3>1, <3>2, <1>3
  <2>3. CASE Len(t[n + 1]) = 0
    BY <2>3, <1>3, FullFacts
  <2> QED BY <2>2, <2>3
<1>6. \A k \in 0 .. n - 1 : k \in 0 .. n /\ k + 1 \in 0 .. n /\ t[k] = p[k]
  OBVIOUS
<1>7. ASSUME NEW k \in 0 .. n + 1 PROVE k \in 0 .. n - 1 \/ k = n \/ k = n + 1
  OBVIOUS
<1>8. ASSUME NEW k \in 0 .. n + 1 PROVE u[k + 1] = u[k] + Full(t[k])
  <2>1. CASE k = n + 1
    <3>1. k + 1 = n + 2 /\ u[k] = o[n]
      BY <2>1, <1>4
    <3> QED BY <2>1, <3>1, <1>4
  <2>2. CASE k = n
    BY <2>2, <1>2, <1>3, <1>4
  <2>3. CASE k \in 0 .. n - 1
    <3>1. o[k + 1] = o[k] + Full(p[k])
      BY <2>3, <1>1, <1>6 DEF Cut
    <3> QED BY <2>3, <3>1, <1>4, <1>6
  <2> QED BY <2>1, <2>2, <2>3, <1>7
<1>9. ASSUME NEW k \in 0 .. n + 1, NEW m \in 0 .. n + 2, k < m
      PROVE  u[k] + Full(t[k]) <= u[m]
  <2>1. CASE k = n + 1
    <3>1. m = n + 2 /\ u[k] + Full(t[k]) = o[n] + Full(t[n + 1])
      BY <2>1, <1>9, <1>4
    <3> QED BY <3>1, <1>3, <1>4
  <2>2. CASE k = n
    <3>1. u[k] + Full(t[k]) = o[n]
      <4>1. u[k] = o[n] /\ Full(t[k]) = 0
        BY <2>2, <1>2, <1>3, <1>4
      <4> QED BY <4>1, <1>3
    <3>2. m = n + 1 \/ m = n + 2
      BY <2>2, <1>9
    <3> QED BY <3>1, <3>2, <1>3, <1>4
  <2>3. CASE k \in 0 .. n - 1
    <3>1. u[k] + Full(t[k]) = o[k] + Full(p[k])
      BY <2>3, <1>4, <1>6
    <3>2. /\ o[k] \in Nat /\ Full(p[k]) \in Nat /\ o[k] + Full(p[k]) <= o[n]
          /\ m \in 0 .. n => o[k] + Full(p[k]) <= o[m]
      <4>1. k \in 0 .. n + 1 /\ k \in 0 .. n /\ k < n /\ (m \in 0 .. n => m \in 0 .. n + 1)
        BY <2>3
      <4> QED BY <4>1, <1>1, <1>2, <1>9 DEF Cut
    <3>3. CASE m \in 0 .. n
      BY <3>1, <3>2, <3>3, <1>4
    <3>4. CASE m \notin 0 .. n
      <4>1. m = n + 1 \/ m = n + 2
        BY <3>4
      <4>2. u[m] \in Nat /\ o[n] <= u[m]
        BY <4>1, <1>3, <1>4
      <4>3. o[k] + Full(p[k]) <= u[m]
        BY <4>2, <3>2, <1>3
      <4> QED BY <3>1, <4>3
    <3> QED BY <3>3, <3>4
  <2> QED BY <2>1, <2>2, <2>3, <1>7
<1>10. ASSUME NEW k \in 0 .. n + 1, NEW i \in 1 .. Len(t[k])
       PROVE  /\ u[k] + i <= Len(s) /\ IsIn(t[k][i], s[u[k] + i])
              /\ t[k][i].kind = "part" => k < n + 1 /\ i = Len(t[k])
  <2>1. CASE k = n + 1
    <3>1. u[k] = o[n] /\ i \in 1 .. Len(t[n + 1])
      BY <2>1, <1>4
    <3> QED BY <2>1, <3>1, <1>5
  <2>2. CASE k = n
    BY <2>2
  <2>3. CASE k \in 0 .. n - 1
    <3>1. i \in 1 .. Len(p[k]) /\ u[k] = o[k] /\ k < n + 1 /\ t[k] = p[k] /\ k \in 0 .. n
      BY <2>3, <1>4, <1>6
    <3>2. /\ o[k] + i <= Len(s) /\ IsIn(p[k][i], s[o[k] + i])
          /\ p[k][i].kind = "part" => i = Len(p[k])
      BY <3>1, <1>1 DEF Cut
    <3> QED BY <3>1, <3>2
  <2> QED BY <2>1, <2>2, <2>3, <1>7
<1>11. ASSUME NEW k \in 0 .. n + 1, NEW m \in 0 .. n + 1, Joins(t, u, k, m)
       PROVE  IF m = n + 1 THEN t[n + 1][1].cut ELSE t[m][1].kind # "part"
  <2>1. \A i, j \in 0 .. n :
          Joins(p, o, i, j) => IF j = n THEN p[n][1].cut ELSE p[j][1].kind # "part"
    BY <1>1 DEF Cut
  <2>2. k < m /\ EndsInPart(t[k]) /\ Len(t[m]) # 0 /\ u[m] = u[k + 1] /\ k # n + 1
    BY <1>11 DEF Joins
  <2>3. k \in 0 .. n - 1 /\ m # n
    BY <2>2, <1>3, <1>7
  <2>4. EndsInPart(p[k]) /\ u[m] = o[k + 1] /\ k < n /\ k + 1 \in 0 .. n
    BY <2>2, <2>3, <1>4, <1>6
  <2>5. CASE m \in 0 .. n - 1
    <3>1. Joins(p, o, k, m)
      BY <2>2, <2>4, <2>5, <1>4, <1>6 DEF Joins
    <3> QED BY <2>1, <2>3, <2>5, <3>1, <1>6
  <2>6. CASE m = n + 1
    <3>1. t[n + 1] = p[n] /\ o[n] = o[k + 1]
      BY <2>2, <2>4, <2>6, <1>4
    <3>2. Joins(p, o, k, n)
      BY <2>2, <2>4, <2>6, <3>1 DEF Joins
    <3> QED BY <2>1, <2>3, <2>6, <3>1, <3>2, <1>2, <1>6
  <2> QED BY <2>3, <2>5, <2>6, <1>7
<1>12. Cut(s, u, t, n + 1)
  <2>1. u[0] = 0 /\ (n + 1) + 1 = n + 2
    <3>1. o[0] = 0 /\ u[0] = o[0]
      BY <1>1, <1>4 DEF Cut
    <3> QED BY <3>1
  <2> QED BY <2>1, <1>8, <1>9, <1>10, <1>11 DEF Cut
<1>13. still = "up" => u[(n + 1) + 1] = Len(s)
  <2>1. (n + 1) + 1 = n + 2
    OBVIOUS
  <2>2. ASSUME still = "up" PROVE o[n] + Full(t[n + 1]) = Len(s)
    BY <2>2, <1>1, <1>3
  <2> QED BY <2>1, <2>2, <1>4
<1>14. Flagged(t, n + 1)
  <2>1. Flagged(p, n) /\ n \in 1 .. n
    BY DEF HasCut
  <2>2. \A k \in 0 .. n, m \in 1 .. n : GoesOn(t, k, m) <=> GoesOn(p, k, m)
    <3> SUFFICES ASSUME NEW k \in 0 .. n, NEW m \in 1 .. n
                 PROVE  GoesOn(t, k, m) <=> GoesOn(p, k, m)
      OBVIOUS
    <3>1. \A j \in k + 1 .. m - 1 : t[j] = p[j]
      OBVIOUS
    <3>2. k < m => t[k] = p[k]
      OBVIOUS
    <3> QED BY <3>1, <3>2 DEF GoesOn
  <2>3. ASSUME NEW m \in 1 .. n, Len(t[m]) # 0
        PROVE  t[m][1].cut <=> \E k \in 0 .. n + 1 : GoesOn(t, k, m)
    <3>1. m # n /\ t[m] = p[m]
      BY <2>3
    <3>2. t[m][1].cut <=> \E k \in 0 .. n : GoesOn(p, k, m)
      BY <2>1, <2>3, <3>1 DEF Flagged
    <3>3. \A k \in 0 .. n + 1 : GoesOn(t, k, m) => k \in 0 .. n
      BY DEF GoesOn
    <3> QED BY <2>2, <3>2, <3>3
  <2>4. ASSUME Len(t[n + 1]) # 0
        PROVE  t[n + 1][1].cut <=> \E k \in 0 .. n + 1 : GoesOn(t, k, n + 1)
    <3>1. t[n + 1] = p[n]
      BY <2>4
    <3>2. p[n][1].cut <=> \E k \in 0 .. n : GoesOn(p, k, n)
      BY <2>1, <2>4, <3>1 DEF Flagged
    <3>3. ASSUME NEW k \in 0 .. n, GoesOn(p, k, n)
          PROVE  GoesOn(t, k, n + 1)
      <4>1. k \in 0 .. n - 1 /\ EndsInPart(p[k]) /\ \A j \in k + 1 .. n - 1 : Len(p[j]) = 0
        BY <3>3 DEF GoesOn
      <4>2. ASSUME NEW j \in k + 1 .. n PROVE Len(t[j]) = 0
        <5>1. CASE j = n
          BY <5>1
        <5>2. CASE j # n
          <6>1. j \in k + 1 .. n - 1 /\ j \in 0 .. n - 1
            BY <4>1, <5>2
          <6> QED BY <4>1, <6>1, <1>6
        <5> QED BY <5>1, <5>2
      <4> QED BY <4>1, <4>2, <1>6 DEF GoesOn
    <3>4. ASSUME NEW k \in 0 .. n + 1, GoesOn(t, k, n + 1)
          PROVE  k \in 0 .. n /\ GoesOn(p, k, n)
      <4>1. k < n + 1 /\ EndsInPart(t[k]) /\ \A j \in k + 1 .. n : Len(t[j]) = 0
        BY <3>4 DEF GoesOn
      <4>2. k \in 0 .. n - 1
        BY <4>1, <1>3, <1>7
      <4>3. ASSUME NEW j \in k + 1 .. n - 1 PROVE Len(p[j]) = 0
        <5>1. j \in k + 1 .. n /\ j \in 0 .. n - 1
          BY <4>2
        <5> QED BY <4>1, <5>1, <1>6
      <4> QED BY <4>1, <4>2, <4>3, <1>6 DEF GoesOn
    <3>5. \A k \in 0 .. n : k \in 0 .. n + 1
      OBVIOUS
    <3> QED BY <3>1, <3>2, <3>3, <3>4, <3>5
  <2>5. ASSUME NEW i \in 2 .. Len(t[n + 1]) PROVE ~t[n + 1][i].cut
    <3>1. t[n + 1] = p[n]
      BY <1>3
    <3> QED BY <2>1, <3>1 DEF Flagged
  <2>6. \A m \in 1 .. n + 1 : m \in 1 .. n \/ m = n + 1
    OBVIOUS
  <2> QED BY <2>3, <2>4, <2>5, <2>6 DEF Flagged
<1> QED BY <1>4, <1>12, <1>13, <1>14 DEF HasCut

(***************************************************************************)
(* The list q, and the stream s that is promised to its entries of         *)
(* connection h: who is in the list has the packets of an answer that is   *)
(* read to its end, in the order of the list.                              *)
(***************************************************************************)
Distinct(q) == \A i, j \in 1 .. Len(q) : q[i].req = q[j].req => i = j

Asks(q, r) == \E i \in 1 .. Len(q) : q[i].req = r

Asking(r, n) == [req |-> r, n |-> n]

SameAnswer(s, j) == j < Len(s) /\ s[j + 1].of.req = s[j].of.req

InStep(s, q, c, st, h) ==
  /\ \A j \in 1 .. Len(s) : /\ \E i \in 1 .. Len(q) : q[i].gen = h /\ q[i].req = s[j].of.req
                            /\ s[j].of = Asking(s[j].of.req, c[s[j].of.req])
  /\ \A i \in 1 .. Len(q) : q[i].gen = h => \E j \in 1 .. Len(s) : s[j].of.req = q[i].req
  /\ \A j, k \in 1 .. Len(s) : \A i, m \in 1 .. Len(q) :
       j <= k /\ q[i].req = s[j].of.req /\ q[m].req = s[k].of.req => i <= m
  /\ \A j \in 1 .. Len(s) : /\ s[j].todo \in Seq(PacketKind) /\ Len(s[j].todo) # 0
                            /\ s[j].kind = s[j].todo[1] /\ s[j].kind # "part"
  /\ \A j \in 1 .. Len(s) : IF SameAnswer(s, j) THEN s[j + 1].todo = Tail(s[j].todo)
                                                ELSE Len(s[j].todo) = 1
  /\ \A j \in 1 .. Len(s) :
       j = 1 \/ ~SameAnswer(s, j - 1) => Reads(st[s[j].of.req], s[j].todo)

(* A packet read is not the last one exactly when there is something left  *)
(* to read.                                                                *)
LEMMA ReadsOn ==
  ASSUME NEW kinds \in Seq(PacketKind), Len(kinds) # 0, NEW at, Reads(at, kinds),
         NEW next \in NextStep(at, kinds[1])
  PROVE  IF Len(kinds) = 1 THEN next \notin Steps
         ELSE next \in Steps /\ Reads(next, Tail(kinds))
<1>1. PICK f \in [DOMAIN kinds -> Steps] :
        /\ f[1] = at
        /\ \A i \in 1 .. Len(kinds) - 1 : NextStep(f[i], kinds[i]) = {f[i + 1]}
        /\ NextStep(f[Len(kinds)], kinds[Len(kinds)]) \cap Steps = {}
  BY DEF Reads
<1>2. /\ Len(kinds) \in Nat /\ DOMAIN kinds = 1 .. Len(kinds)
      /\ Tail(kinds) \in Seq(PacketKind) /\ Rest(Tail(kinds), kinds)
      /\ DOMAIN Tail(kinds) = 1 .. Len(Tail(kinds))
      /\ Len(kinds) = Len(Tail(kinds)) + 1 /\ Len(Tail(kinds)) \in Nat
  BY TailIsRest, Elements DEF Rest
<1>3. CASE Len(kinds) = 1
  BY <1>1, <1>3
<1>4. CASE Len(kinds) # 1
  <2>1. 1 \in 1 .. Len(kinds) - 1 /\ 2 \in 1 .. Len(kinds)
    BY <1>2, <1>4
  <2>2. NextStep(at, kinds[1]) = {f[2]} /\ f[2] \in Steps
    <3>1. NextStep(f[1], kinds[1]) = {f[1 + 1]}
      BY <1>1, <2>1
    <3> QED BY <3>1, <1>1, <1>2, <2>1
  <2> DEFINE g == [i \in DOMAIN Tail(kinds) |-> f[i + 1]]
  <2>3. g \in [DOMAIN Tail(kinds) -> Steps] /\ \A i \in 1 .. Len(Tail(kinds)) : g[i] = f[i + 1]
    <3>1. \A i \in 1 .. Len(Tail(kinds)) : i + 1 \in 1 .. Len(kinds)
      BY <1>2
    <3> QED BY <3>1, <1>2
  <2> HIDE DEF g
  <2>4. g[1] = f[2] /\ g[Len(Tail(kinds))] = f[Len(kinds)]
        /\ Tail(kinds)[Len(Tail(kinds))] = kinds[Len(kinds)]
    <3>1. 1 \in 1 .. Len(Tail(kinds)) /\ Len(Tail(kinds)) \in 1 .. Len(Tail(kinds))
      BY <1>2, <1>4
    <3> QED BY <3>1, <2>3, <1>2 DEF Rest
  <2>5. ASSUME NEW i \in 1 .. Len(Tail(kinds)) - 1
        PROVE  NextStep(g[i], Tail(kinds)[i]) = {g[i + 1]}
    <3>1. i \in 1 .. Len(Tail(kinds)) /\ i + 1 \in 1 .. Len(Tail(kinds))
          /\ i + 1 \in 1 .. Len(kinds) - 1
      BY <1>2
    <3>2. Tail(kinds)[i] = kinds[i + 1] /\ g[i] = f[i + 1] /\ g[i + 1] = f[(i + 1) + 1]
      BY <3>1, <1>2, <2>3 DEF Rest
    <3>3. NextStep(f[i + 1], kinds[i + 1]) = {f[(i + 1) + 1]}
      BY <3>1, <1>1
    <3> QED BY <3>2, <3>3
  <2>6. Reads(f[2], Tail(kinds))
    BY <1>1, <2>3, <2>4, <2>5 DEF Reads
  <2> QED BY <1>4, <2>2, <2>6
<1> QED BY <1>3, <1>4

LEMMA NothingAsked ==
  ASSUME NEW s, NEW q, NEW c, NEW st, NEW h, Len(s) = 0, Len(q) \in Nat,
         \A i \in 1 .. Len(q) : q[i].gen # h
  PROVE  InStep(s, q, c, st, h)
BY DEF InStep

LEMMA NothingComes ==
  ASSUME NEW s, NEW q, NEW c, NEW st, NEW h, Len(s) \in Nat, Len(q) \in Nat,
         InStep(s, q, c, st, h), \A i \in 1 .. Len(q) : q[i].gen # h
  PROVE  Len(s) = 0
<1>1. \A j \in 1 .. Len(s) : \E i \in 1 .. Len(q) : q[i].gen = h
  BY DEF InStep
<1>2. \A j \in 1 .. Len(s) : FALSE
  BY <1>1
<1>3. Len(s) # 0 => 1 \in 1 .. Len(s)
  OBVIOUS
<1> QED BY <1>2, <1>3

(* An entry of another connection is added, or who is not in the list sets *)
(* out on a statement.                                                     *)
LEMMA OtherAsks ==
  ASSUME NEW s, NEW q, NEW t, NEW c, NEW d, NEW st, NEW su, NEW h, NEW e,
         Len(s) \in Nat, Len(q) \in Nat, InStep(s, q, c, st, h),
         \/ t = q
         \/ Longer(t, q, e) /\ e.gen # h /\ ~Asks(q, e.req),
         \A i \in 1 .. Len(q) :
           q[i].gen = h => d[q[i].req] = c[q[i].req] /\ su[q[i].req] = st[q[i].req]
  PROVE  InStep(s, t, d, su, h)
<1>1. \A i \in 1 .. Len(q) : i \in 1 .. Len(t) /\ t[i] = q[i]
  BY DEF Longer
<1>2. ASSUME NEW i \in 1 .. Len(t)
      PROVE  i \in 1 .. Len(q) \/ (t[i].gen # h /\ ~Asks(q, t[i].req))
  <2>1. CASE t = q
    BY <2>1
  <2>2. CASE Longer(t, q, e) /\ e.gen # h /\ ~Asks(q, e.req)
    <3>1. Len(t) = Len(q) + 1 /\ t[Len(q) + 1] = e
      BY <2>2 DEF Longer
    <3>2. i \in 1 .. Len(q) \/ i = Len(q) + 1
      BY <3>1
    <3> QED BY <3>1, <3>2, <2>2
  <2> QED BY <2>1, <2>2
<1>3. ASSUME NEW j \in 1 .. Len(s)
      PROVE  /\ \E i \in 1 .. Len(q) : q[i].gen = h /\ q[i].req = s[j].of.req
             /\ s[j].of = Asking(s[j].of.req, c[s[j].of.req])
             /\ d[s[j].of.req] = c[s[j].of.req] /\ su[s[j].of.req] = st[s[j].of.req]
  BY DEF InStep
<1>4. ASSUME NEW j \in 1 .. Len(s), NEW i \in 1 .. Len(t), t[i].req = s[j].of.req
      PROVE  i \in 1 .. Len(q) /\ q[i].req = s[j].of.req
  <2>1. Asks(q, t[i].req)
    BY <1>3, <1>4 DEF Asks
  <2> QED BY <2>1, <1>1, <1>2, <1>4
<1>5. ASSUME NEW j \in 1 .. Len(s)
      PROVE  /\ \E i \in 1 .. Len(t) : t[i].gen = h /\ t[i].req = s[j].of.req
             /\ s[j].of = Asking(s[j].of.req, d[s[j].of.req])
  BY <1>1, <1>3
<1>6. ASSUME NEW i \in 1 .. Len(t), t[i].gen = h
      PROVE  \E j \in 1 .. Len(s) : s[j].of.req = t[i].req
  BY <1>1, <1>2, <1>6 DEF InStep
<1>7. ASSUME NEW j \in 1 .. Len(s), NEW k \in 1 .. Len(s), NEW i \in 1 .. Len(t),
             NEW m \in 1 .. Len(t), j <= k, t[i].req = s[j].of.req, t[m].req = s[k].of.req
      PROVE  i <= m
  BY <1>4, <1>7 DEF InStep
<1>8. ASSUME NEW j \in 1 .. Len(s), j = 1 \/ ~SameAnswer(s, j - 1)
      PROVE  Reads(su[s[j].of.req], s[j].todo)
  BY <1>3, <1>8 DEF InStep
<1> QED BY <1>5, <1>6, <1>7, <1>8 DEF InStep

(* The packets of an answer. *)
IsAnswer(a, kinds, of) ==
  /\ kinds \in Seq(PacketKind) /\ Len(kinds) # 0 /\ Len(a) = Len(kinds)
  /\ \A i \in 1 .. Len(a) :
       /\ a[i].of = of /\ a[i].kind = kinds[i] /\ a[i].kind # "part"
       /\ a[i].todo = SubSeq(kinds, i, Len(kinds))

Untouched(a) == \A i \in 1 .. Len(a) : a[i].kind \notin {"part", "garbage"} /\ ~a[i].cut

LEMMA AnswerSteps ==
  ASSUME NEW a, NEW kinds, NEW of, IsAnswer(a, kinds, of)
  PROVE  /\ Len(a) \in Nat /\ Len(a) # 0
         /\ a[1].todo = kinds
         /\ \A i \in 1 .. Len(a) : /\ a[i].todo \in Seq(PacketKind) /\ Len(a[i].todo) # 0
                                   /\ a[i].kind = a[i].todo[1] /\ a[i].kind # "part"
                                   /\ IF i < Len(a) THEN a[i + 1].todo = Tail(a[i].todo)
                                                    ELSE Len(a[i].todo) = 1
<1>1. /\ kinds \in Seq(PacketKind) /\ Len(kinds) # 0 /\ Len(a) = Len(kinds)
      /\ \A i \in 1 .. Len(a) :
           /\ a[i].of = of /\ a[i].kind = kinds[i] /\ a[i].kind # "part"
           /\ a[i].todo = SubSeq(kinds, i, Len(kinds))
  BY DEF IsAnswer
<1>2. SubSeq(kinds, 1, Len(kinds)) = kinds /\ 1 \in 1 .. Len(a)
  BY <1>1
<1>3. ASSUME NEW i \in 1 .. Len(a)
      PROVE  /\ SubSeq(kinds, i, Len(kinds)) \in Seq(PacketKind)
             /\ Len(SubSeq(kinds, i, Len(kinds))) = Len(kinds) - i + 1
             /\ SubSeq(kinds, i, Len(kinds))[1] = kinds[i]
  BY <1>1
<1>4. ASSUME NEW i \in 1 .. Len(a), i < Len(a)
      PROVE  a[i + 1].todo = Tail(a[i].todo)
  <2>1. i + 1 \in 1 .. Len(a)
    BY <1>1, <1>4
  <2>2. SubSeq(kinds, i + 1, Len(kinds)) = Tail(SubSeq(kinds, i, Len(kinds)))
    BY <1>1, <1>4, <2>1
  <2> QED BY <2>1, <2>2, <1>1
<1>5. ASSUME NEW i \in 1 .. Len(a)
      PROVE  /\ a[i].todo \in Seq(PacketKind) /\ Len(a[i].todo) # 0
             /\ a[i].kind = a[i].todo[1] /\ a[i].kind # "part"
             /\ ~(i < Len(a)) => Len(a[i].todo) = 1
  <2>1. /\ a[i].todo \in Seq(PacketKind) /\ Len(a[i].todo) = Len(kinds) - i + 1
        /\ a[i].kind = a[i].todo[1] /\ a[i].kind # "part"
    BY <1>1, <1>3
  <2>2. i \in Nat /\ i <= Len(kinds) /\ Len(kinds) \in Nat /\ Len(a) = Len(kinds)
    BY <1>1
  <2> QED BY <2>1, <2>2
<1>6. Len(a) \in Nat /\ Len(a) # 0 /\ a[1].todo = kinds
  <2>1. Len(a) \in Nat /\ Len(a) # 0
    BY <1>1
  <2>2. a[1].todo = SubSeq(kinds, 1, Len(kinds))
    BY <1>1, <1>2
  <2> QED BY <2>1, <2>2, <1>2
<1> QED BY <1>4, <1>5, <1>6

(* A statement is sent.                                                    *)
(* e asks for statement d[e.req], and a is the answer to it.               *)
Promised(a, kinds, e, d, su) ==
  IsAnswer(a, kinds, Asking(e.req, d[e.req])) /\ Reads(su[e.req], kinds)

Agree(q, c, d, st, su) ==
  \A i \in 1 .. Len(q) : d[q[i].req] = c[q[i].req] /\ su[q[i].req] = st[q[i].req]

Sent(s, r, a, q, t, e, h) ==
  Longer(t, q, e) /\ e.gen = h /\ ~Asks(q, e.req) /\ Extended(r, s, a)

LEMMA AnswerPromised ==
  ASSUME NEW s, NEW r, NEW a, NEW kinds, NEW q, NEW t, NEW c, NEW d,
         NEW st, NEW su, NEW h, NEW e,
         Len(s) \in Nat, Len(r) \in Nat, Len(q) \in Nat, InStep(s, q, c, st, h),
         Sent(s, r, a, q, t, e, h), Promised(a, kinds, e, d, su), Agree(q, c, d, st, su)
  PROVE  InStep(r, t, d, su, h)
<1>0. PICK of : /\ Longer(t, q, e) /\ e.gen = h /\ ~Asks(q, e.req)
                /\ IsAnswer(a, kinds, of) /\ of = Asking(e.req, d[e.req])
                /\ Reads(su[e.req], kinds) /\ Extended(r, s, a)
                /\ \A i \in 1 .. Len(q) : d[q[i].req] = c[q[i].req] /\ su[q[i].req] = st[q[i].req]
  BY DEF Sent, Promised, Agree
<1> USE <1>0
<1>1. /\ Len(a) \in Nat /\ Len(a) # 0
      /\ a[1].todo = kinds
      /\ \A i \in 1 .. Len(a) : /\ a[i].todo \in Seq(PacketKind) /\ Len(a[i].todo) # 0
                                /\ a[i].kind = a[i].todo[1] /\ a[i].kind # "part"
                                /\ IF i < Len(a) THEN a[i + 1].todo = Tail(a[i].todo)
                                                 ELSE Len(a[i].todo) = 1
      /\ \A i \in 1 .. Len(a) : a[i].of = of
  <2>1. \A i \in 1 .. Len(a) : a[i].of = of
    BY DEF IsAnswer
  <2> QED BY <2>1, AnswerSteps
<1>2. /\ Len(r) = Len(s) + Len(a)
      /\ \A i \in 1 .. Len(s) : r[i] = s[i]
      /\ \A i \in 1 .. Len(a) : r[Len(s) + i] = a[i]
  BY DEF Extended
<1>3. /\ Len(t) = Len(q) + 1 /\ t[Len(q) + 1] = e
      /\ \A i \in 1 .. Len(q) : t[i] = q[i]
      /\ \A i \in 1 .. Len(q) : i \in 1 .. Len(t)
      /\ Len(q) + 1 \in 1 .. Len(t)
  BY DEF Longer
<1>4. ASSUME NEW j \in 1 .. Len(r)
      PROVE  \/ j \in 1 .. Len(s) /\ r[j] = s[j]
             \/ j - Len(s) \in 1 .. Len(a) /\ r[j] = a[j - Len(s)] /\ r[j].of = of
                /\ j \notin 1 .. Len(s) /\ Len(s) + (j - Len(s)) = j
  <2>1. j \in 1 .. Len(s) \/ (j - Len(s) \in 1 .. Len(a) /\ j \notin 1 .. Len(s))
    BY <1>1, <1>2
  <2>2. Len(s) + (j - Len(s)) = j
    OBVIOUS
  <2>3. ASSUME j - Len(s) \in 1 .. Len(a)
        PROVE  r[j] = a[j - Len(s)] /\ r[j].of = of
    <3>1. r[Len(s) + (j - Len(s))] = a[j - Len(s)]
      BY <2>3, <1>2
    <3> QED BY <2>2, <2>3, <3>1, <1>1
  <2> QED BY <2>1, <2>2, <2>3, <1>2
<1>5. ASSUME NEW i \in 1 .. Len(t)
      PROVE  \/ i \in 1 .. Len(q) /\ t[i] = q[i]
             \/ i = Len(q) + 1 /\ t[i] = e
  <2>1. i \in 1 .. Len(q) \/ i = Len(q) + 1
    BY <1>3
  <2> QED BY <2>1, <1>3
<1>6. \A j \in 1 .. Len(s) :
        /\ \E i \in 1 .. Len(q) : q[i].gen = h /\ q[i].req = s[j].of.req
        /\ s[j].of = Asking(s[j].of.req, c[s[j].of.req])
        /\ d[s[j].of.req] = c[s[j].of.req] /\ su[s[j].of.req] = st[s[j].of.req]
        /\ s[j].of.req # e.req
  BY DEF InStep, Asks
<1>7. of.req = e.req /\ of = Asking(of.req, d[of.req])
  BY DEF Asking
<1>8. ASSUME NEW j \in 1 .. Len(r)
      PROVE  /\ \E i \in 1 .. Len(t) : t[i].gen = h /\ t[i].req = r[j].of.req
             /\ r[j].of = Asking(r[j].of.req, d[r[j].of.req])
  <2>1. CASE j \in 1 .. Len(s) /\ r[j] = s[j]
    BY <2>1, <1>3, <1>6
  <2>2. CASE r[j].of = of
    BY <2>2, <1>3, <1>7
  <2> QED BY <2>1, <2>2, <1>4
<1>9. ASSUME NEW i \in 1 .. Len(t), t[i].gen = h
      PROVE  \E j \in 1 .. Len(r) : r[j].of.req = t[i].req
  <2>1. CASE i \in 1 .. Len(q) /\ t[i] = q[i]
    <3>1. PICK j \in 1 .. Len(s) : s[j].of.req = q[i].req
      BY <1>9, <2>1 DEF InStep
    <3>2. j \in 1 .. Len(r)
      BY <1>1, <1>2
    <3> QED BY <2>1, <3>1, <3>2, <1>2
  <2>2. CASE i = Len(q) + 1 /\ t[i] = e
    <3>1. Len(s) + 1 \in 1 .. Len(r) /\ 1 \in 1 .. Len(a)
      BY <1>1, <1>2
    <3>2. r[Len(s) + 1].of = of
      BY <3>1, <1>1, <1>2
    <3>3. r[Len(s) + 1].of.req = t[i].req
      BY <2>2, <3>2, <1>7
    <3> QED BY <3>1, <3>3
  <2> QED BY <2>1, <2>2, <1>5
<1>10. ASSUME NEW j \in 1 .. Len(r), NEW k \in 1 .. Len(r), NEW i \in 1 .. Len(t),
              NEW m \in 1 .. Len(t), j <= k, t[i].req = r[j].of.req, t[m].req = r[k].of.req
       PROVE  i <= m
  <2>1. CASE m = Len(q) + 1
    BY <2>1, <1>3
  <2>2. CASE m \in 1 .. Len(q) /\ t[m] = q[m]
    <3>1. r[k].of.req # e.req
      BY <2>2, <1>10 DEF Asks
    <3>2. k \in 1 .. Len(s) /\ r[k] = s[k]
      BY <3>1, <1>4, <1>7
    <3>3. j \in 1 .. Len(s) /\ r[j] = s[j]
      BY <3>2, <1>2, <1>10
    <3>4. i \in 1 .. Len(q) /\ t[i] = q[i]
      BY <3>3, <1>5, <1>6, <1>10
    <3> QED BY <2>2, <3>2, <3>3, <3>4, <1>10 DEF InStep
  <2> QED BY <2>1, <2>2, <1>5
<1>11. ASSUME NEW j \in 1 .. Len(r)
       PROVE  /\ r[j].todo \in Seq(PacketKind) /\ Len(r[j].todo) # 0
              /\ r[j].kind = r[j].todo[1] /\ r[j].kind # "part"
  <2>1. CASE j \in 1 .. Len(s) /\ r[j] = s[j]
    BY <2>1 DEF InStep
  <2>2. CASE j - Len(s) \in 1 .. Len(a) /\ r[j] = a[j - Len(s)]
    BY <2>2, <1>1
  <2> QED BY <2>1, <2>2, <1>4
<1>12. ASSUME NEW j \in 1 .. Len(s)
       PROVE  SameAnswer(r, j) <=> SameAnswer(s, j)
  <2>1. CASE j < Len(s)
    <3>1. j + 1 \in 1 .. Len(s) /\ j < Len(r)
      BY <2>1, <1>1, <1>2
    <3> QED BY <2>1, <3>1, <1>2 DEF SameAnswer
  <2>2. CASE ~(j < Len(s))
    <3>1. j + 1 = Len(s) + 1 /\ 1 \in 1 .. Len(a)
      BY <2>2, <1>1
    <3>2. r[j + 1].of = of
      BY <3>1, <1>1, <1>2
    <3>3. r[j].of.req # r[j + 1].of.req
      BY <3>2, <1>2, <1>6, <1>7
    <3> QED BY <2>2, <3>3 DEF SameAnswer
  <2> QED BY <2>1, <2>2
<1>13. ASSUME NEW j \in 1 .. Len(r), j \notin 1 .. Len(s)
       PROVE  SameAnswer(r, j) <=> j - Len(s) < Len(a)
  <2>1. j < Len(r) <=> j - Len(s) < Len(a)
    BY <1>1, <1>2
  <2>2. j < Len(r) => j + 1 \in 1 .. Len(r) /\ j + 1 \notin 1 .. Len(s)
    BY <1>1, <1>2, <1>13
  <2>3. j < Len(r) => r[j + 1].of = of
    BY <2>2, <1>4
  <2> QED BY <2>1, <2>3, <1>4, <1>13 DEF SameAnswer
<1>14. ASSUME NEW j \in 1 .. Len(r)
       PROVE  IF SameAnswer(r, j) THEN r[j + 1].todo = Tail(r[j].todo) ELSE Len(r[j].todo) = 1
  <2>1. CASE j \in 1 .. Len(s)
    <3>1. SameAnswer(s, j) => j + 1 \in 1 .. Len(s)
      BY <2>1 DEF SameAnswer
    <3>2. IF SameAnswer(s, j) THEN s[j + 1].todo = Tail(s[j].todo) ELSE Len(s[j].todo) = 1
      BY <2>1 DEF InStep
    <3> QED BY <2>1, <3>1, <3>2, <1>2, <1>12
  <2>2. CASE j \notin 1 .. Len(s)
    <3>1. j - Len(s) \in 1 .. Len(a) /\ r[j] = a[j - Len(s)]
      BY <2>2, <1>4
    <3>2. j - Len(s) < Len(a) => r[j + 1] = a[(j - Len(s)) + 1]
      <4>1. j - Len(s) < Len(a) => (j - Len(s)) + 1 \in 1 .. Len(a)
        BY <3>1, <1>1
      <4>2. Len(s) + ((j - Len(s)) + 1) = j + 1
        OBVIOUS
      <4>3. j - Len(s) < Len(a) => r[Len(s) + ((j - Len(s)) + 1)] = a[(j - Len(s)) + 1]
        BY <4>1, <1>2
      <4> QED BY <4>2, <4>3
    <3> QED BY <2>2, <3>1, <3>2, <1>1, <1>13
  <2> QED BY <2>1, <2>2
<1>15. ASSUME NEW j \in 1 .. Len(r), j = 1 \/ ~SameAnswer(r, j - 1)
       PROVE  Reads(su[r[j].of.req], r[j].todo)
  <2>1. CASE j \in 1 .. Len(s)
    <3>1. j = 1 \/ j - 1 \in 1 .. Len(s)
      BY <2>1
    <3>2. j = 1 \/ ~SameAnswer(s, j - 1)
      BY <3>1, <1>12, <1>15
    <3>3. Reads(st[s[j].of.req], s[j].todo)
      BY <2>1, <3>2 DEF InStep
    <3> QED BY <2>1, <3>3, <1>2, <1>6
  <2>2. CASE j \notin 1 .. Len(s)
    <3>1. j - Len(s) \in 1 .. Len(a) /\ r[j] = a[j - Len(s)] /\ r[j].of = of
      BY <2>2, <1>4
    <3>2. j - Len(s) = 1
      <4>1. CASE j = 1
        BY <4>1, <2>2
      <4>2. CASE j # 1 /\ j - 1 \notin 1 .. Len(s)
        <5>1. j - 1 \in 1 .. Len(r)
          BY <4>2
        <5>2. ~((j - 1) - Len(s) < Len(a))
          BY <4>2, <5>1, <1>13, <1>15
        <5> QED BY <3>1, <5>2, <1>1
      <4>3. CASE j # 1 /\ j - 1 \in 1 .. Len(s)
        BY <4>3, <2>2
      <4> QED BY <4>1, <4>2, <4>3
    <3>3. r[j].todo = kinds
      BY <3>1, <3>2, <1>1
    <3> QED BY <3>1, <3>3, <1>7
  <2> QED BY <2>1, <2>2
<1> QED BY <1>8, <1>9, <1>10, <1>11, <1>14, <1>15 DEF InStep

(* The statement at the front of the list is answered by the front of the  *)
(* stream.                                                                 *)
FrontOfStream(s, q, c, st) ==
  /\ Len(s) # 0 /\ s[1].of = Asking(q[1].req, c[q[1].req]) /\ s[1].of.req = q[1].req
  /\ s[1].todo \in Seq(PacketKind) /\ Len(s[1].todo) # 0
  /\ s[1].kind = s[1].todo[1] /\ s[1].kind # "part"
  /\ Reads(st[q[1].req], s[1].todo)
  /\ Len(s[1].todo) # 1 => /\ Len(s) # 1 /\ s[2].of.req = q[1].req
                           /\ s[2].todo = Tail(s[1].todo)
  /\ Len(s[1].todo) = 1 => \A j \in 2 .. Len(s) : s[j].of.req # q[1].req
  /\ \A j \in 2 .. Len(s) : s[j].of.req = q[1].req => s[2].of.req = q[1].req
                                                     /\ (j # 2 => SameAnswer(s, j - 1))

LEMMA FrontAsks ==
  ASSUME NEW s, NEW q, NEW c, NEW st, NEW h,
         Len(s) \in Nat, Len(q) \in Nat, Len(q) # 0, Distinct(q), q[1].gen = h,
         InStep(s, q, c, st, h)
  PROVE  FrontOfStream(s, q, c, st)
<1>1. 1 \in 1 .. Len(q)
  OBVIOUS
<1>2. PICK j0 \in 1 .. Len(s) : s[j0].of.req = q[1].req
  BY <1>1 DEF InStep
<1>3. 1 \in 1 .. Len(s) /\ 1 <= j0 /\ Len(s) # 0
  BY <1>2
<1>4. ASSUME NEW j \in 1 .. Len(s), NEW k \in 1 .. Len(s), j <= k, s[k].of.req = q[1].req
      PROVE  s[j].of.req = q[1].req
  <2>1. PICK i \in 1 .. Len(q) : q[i].gen = h /\ q[i].req = s[j].of.req
    BY DEF InStep
  <2>2. i <= 1
    BY <1>1, <1>4, <2>1 DEF InStep
  <2>3. i = 1
    BY <2>1, <2>2
  <2> QED BY <2>1, <2>3
<1>5. s[1].of.req = q[1].req
  BY <1>2, <1>3, <1>4
<1>6. s[1].of = Asking(q[1].req, c[q[1].req])
  BY <1>3, <1>5 DEF InStep
<1>7. /\ s[1].todo \in Seq(PacketKind) /\ Len(s[1].todo) # 0
      /\ s[1].kind = s[1].todo[1] /\ s[1].kind # "part"
      /\ Reads(st[q[1].req], s[1].todo)
      /\ IF SameAnswer(s, 1) THEN s[1 + 1].todo = Tail(s[1].todo) ELSE Len(s[1].todo) = 1
  BY <1>3, <1>5 DEF InStep
<1>8. Len(s[1].todo) # 1 => /\ Len(s) # 1 /\ s[2].of.req = q[1].req
                            /\ s[2].todo = Tail(s[1].todo)
  BY <1>5, <1>7 DEF SameAnswer
<1>9. ASSUME NEW j \in 2 .. Len(s), s[j].of.req = q[1].req
      PROVE  s[2].of.req = q[1].req /\ (j # 2 => SameAnswer(s, j - 1))
  <2>1. 2 \in 1 .. Len(s) /\ j \in 1 .. Len(s) /\ 2 <= j /\ j - 1 \in 1 .. Len(s) /\ j - 1 <= j
        /\ (j - 1) + 1 = j /\ j - 1 < Len(s)
    OBVIOUS
  <2>2. s[2].of.req = q[1].req /\ s[j - 1].of.req = q[1].req
    BY <2>1, <1>4, <1>9
  <2> QED BY <2>1, <2>2, <1>9 DEF SameAnswer
<1>10. ASSUME Len(s[1].todo) = 1, NEW j \in 2 .. Len(s), s[j].of.req = q[1].req
       PROVE  FALSE
  <2>1. s[2].of.req = q[1].req /\ 2 \in 1 .. Len(s) /\ 1 < Len(s)
    BY <1>9, <1>10
  <2>2. s[2].todo = Tail(s[1].todo)
    BY <2>1, <1>5, <1>7 DEF SameAnswer
  <2>3. Len(s[2].todo) # 0
    BY <2>1 DEF InStep
  <2>4. Len(Tail(s[1].todo)) = 0
    BY <1>7, <1>10
  <2> QED BY <2>2, <2>3, <2>4
<1> QED BY <1>3, <1>5, <1>6, <1>7, <1>8, <1>9, <1>10 DEF FrontOfStream

LEMMA FrontIsAsked ==
  ASSUME NEW s, NEW q, NEW c, NEW st, NEW h,
         Len(s) \in Nat, Len(q) \in Nat, Len(q) # 0, Distinct(q), q[1].gen = h,
         InStep(s, q, c, st, h)
  PROVE  s[1].of = Asking(q[1].req, c[q[1].req])
<1>1. FrontOfStream(s, q, c, st)
  BY FrontAsks
<1> QED BY <1>1 DEF FrontOfStream

LEMMA FrontIsLast ==
  ASSUME NEW s, NEW q, NEW c, NEW st, NEW h,
         Len(s) \in Nat, Len(q) \in Nat, Len(q) # 0, Distinct(q), q[1].gen = h,
         InStep(s, q, c, st, h), Len(s[1].todo) = 1
  PROVE  \A j \in 2 .. Len(s) : s[j].of.req # q[1].req
<1>1. FrontOfStream(s, q, c, st)
  BY FrontAsks
<1> QED BY <1>1 DEF FrontOfStream

LEMMA AnswerGoesOn ==
  ASSUME NEW s, NEW r, NEW q, NEW c, NEW st, NEW su, NEW h, NEW next,
         Len(s) \in Nat, Len(r) \in Nat, Len(q) \in Nat, Len(q) # 0, Distinct(q),
         q[1].gen = h, InStep(s, q, c, st, h),
         Rest(r, s), next \in NextStep(st[q[1].req], s[1].kind), next \in Steps,
         su[q[1].req] = next, \A i \in 2 .. Len(q) : su[q[i].req] = st[q[i].req]
  PROVE  InStep(r, q, c, su, h)
<1>1. /\ s[1].of = Asking(q[1].req, c[q[1].req]) /\ s[1].of.req = q[1].req
      /\ s[1].todo \in Seq(PacketKind) /\ Len(s[1].todo) # 0
      /\ s[1].kind = s[1].todo[1] /\ Reads(st[q[1].req], s[1].todo)
      /\ Len(s[1].todo) # 1 => /\ Len(s) # 1 /\ s[2].of.req = q[1].req
                               /\ s[2].todo = Tail(s[1].todo)
      /\ \A j \in 2 .. Len(s) : s[j].of.req = q[1].req => s[2].of.req = q[1].req
                                                         /\ (j # 2 => SameAnswer(s, j - 1))
  <2>1. FrontOfStream(s, q, c, st)
    BY FrontAsks
  <2> QED BY <2>1 DEF FrontOfStream
<1>2. Len(s[1].todo) # 1 /\ Reads(next, Tail(s[1].todo))
  BY <1>1, ReadsOn
<1>3. Len(s) = Len(r) + 1 /\ (\A j \in 1 .. Len(r) : r[j] = s[j + 1]) /\ Len(r) # 0
  BY <1>1, <1>2 DEF Rest
<1>4. \A j \in 1 .. Len(r) : j + 1 \in 1 .. Len(s) /\ j + 1 \in 2 .. Len(s) /\ r[j] = s[j + 1]
  BY <1>3
<1>5. \A j \in 1 .. Len(r) :
        /\ \E i \in 1 .. Len(q) : q[i].gen = h /\ q[i].req = r[j].of.req
        /\ r[j].of = Asking(r[j].of.req, c[r[j].of.req])
        /\ r[j].todo \in Seq(PacketKind) /\ Len(r[j].todo) # 0
        /\ r[j].kind = r[j].todo[1] /\ r[j].kind # "part"
  <2>1. \A j \in 1 .. Len(s) :
          /\ \E i \in 1 .. Len(q) : q[i].gen = h /\ q[i].req = s[j].of.req
          /\ s[j].of = Asking(s[j].of.req, c[s[j].of.req])
    BY DEF InStep
  <2>2. \A j \in 1 .. Len(s) :
          /\ s[j].todo \in Seq(PacketKind) /\ Len(s[j].todo) # 0
          /\ s[j].kind = s[j].todo[1] /\ s[j].kind # "part"
    BY DEF InStep
  <2> QED BY <1>4, <2>1, <2>2
<1>6. ASSUME NEW i \in 1 .. Len(q), q[i].gen = h
      PROVE  \E j \in 1 .. Len(r) : r[j].of.req = q[i].req
  <2>1. CASE i = 1
    <3>1. 1 \in 1 .. Len(r) /\ r[1] = s[2]
      BY <1>3
    <3> QED BY <2>1, <3>1, <1>1, <1>2
  <2>2. CASE i # 1
    <3>1. PICK j \in 1 .. Len(s) : s[j].of.req = q[i].req
      BY <1>6 DEF InStep
    <3>2. q[i].req # q[1].req
      <4>1. 1 \in 1 .. Len(q)
        OBVIOUS
      <4> QED BY <2>2, <4>1 DEF Distinct
    <3>3. j # 1
      BY <3>1, <3>2, <1>1
    <3>4. j - 1 \in 1 .. Len(r) /\ (j - 1) + 1 = j
      BY <3>3, <1>3
    <3> QED BY <3>1, <3>4, <1>3
  <2> QED BY <2>1, <2>2
<1>7. ASSUME NEW j \in 1 .. Len(r), NEW k \in 1 .. Len(r), NEW i \in 1 .. Len(q),
             NEW m \in 1 .. Len(q), j <= k, q[i].req = r[j].of.req, q[m].req = r[k].of.req
      PROVE  i <= m
  <2>1. j + 1 <= k + 1 /\ j + 1 \in 1 .. Len(s) /\ k + 1 \in 1 .. Len(s)
    BY <1>4, <1>7
  <2>2. q[i].req = s[j + 1].of.req /\ q[m].req = s[k + 1].of.req
    BY <1>4, <1>7
  <2> QED BY <2>1, <2>2 DEF InStep
<1>8. ASSUME NEW j \in 1 .. Len(r)
      PROVE  SameAnswer(r, j) <=> SameAnswer(s, j + 1)
  <2>1. j < Len(r) <=> j + 1 < Len(s)
    BY <1>3
  <2>2. j < Len(r) => r[j + 1] = s[(j + 1) + 1]
    <3>1. j < Len(r) => j + 1 \in 1 .. Len(r)
      BY <1>3
    <3> QED BY <3>1, <1>3
  <2> QED BY <2>1, <2>2, <1>4 DEF SameAnswer
<1>9. ASSUME NEW j \in 1 .. Len(r)
      PROVE  IF SameAnswer(r, j) THEN r[j + 1].todo = Tail(r[j].todo) ELSE Len(r[j].todo) = 1
  <2>1. IF SameAnswer(s, j + 1) THEN s[(j + 1) + 1].todo = Tail(s[j + 1].todo)
                                ELSE Len(s[j + 1].todo) = 1
    BY <1>4 DEF InStep
  <2>2. SameAnswer(r, j) => r[j + 1] = s[(j + 1) + 1]
    <3>1. j < Len(r) => j + 1 \in 1 .. Len(r)
      BY <1>3
    <3> QED BY <3>1, <1>3 DEF SameAnswer
  <2> QED BY <2>1, <2>2, <1>4, <1>8
<1>10. ASSUME NEW j \in 1 .. Len(r), j = 1 \/ ~SameAnswer(r, j - 1)
       PROVE  Reads(su[r[j].of.req], r[j].todo)
  <2>1. CASE j = 1
    <3>1. r[1] = s[2] /\ Len(r) >= 1
      BY <1>3
    <3> QED BY <2>1, <3>1, <1>1, <1>2
  <2>2. CASE j # 1
    <3>1. j - 1 \in 1 .. Len(r) /\ (j - 1) + 1 = j /\ (j + 1) - 1 = j /\ j + 1 # 1 /\ j + 1 # 2
      BY <2>2, <1>3
    <3>2. ~SameAnswer(s, (j + 1) - 1)
      BY <2>2, <3>1, <1>8, <1>10
    <3>3. Reads(st[s[j + 1].of.req], s[j + 1].todo)
      BY <3>2, <1>4 DEF InStep
    <3>4. s[j + 1].of.req # q[1].req
      BY <3>1, <3>2, <1>1, <1>4
    <3>5. PICK i \in 1 .. Len(q) : q[i].req = r[j].of.req
      BY <1>5
    <3>6. i \in 2 .. Len(q)
      BY <3>4, <3>5, <1>4
    <3>7. su[r[j].of.req] = st[r[j].of.req]
      BY <3>5, <3>6
    <3> QED BY <3>3, <3>7, <1>4
  <2> QED BY <2>1, <2>2
<1> QED BY <1>5, <1>6, <1>7, <1>9, <1>10 DEF InStep

LEMMA AnswerEnds ==
  ASSUME NEW s, NEW r, NEW q, NEW t, NEW c, NEW st, NEW h, NEW next,
         Len(s) \in Nat, Len(r) \in Nat, Len(q) \in Nat, Len(t) \in Nat, Len(q) # 0,
         Distinct(q), q[1].gen = h, InStep(s, q, c, st, h),
         Rest(r, s), Rest(t, q), next \in NextStep(st[q[1].req], s[1].kind), next \notin Steps
  PROVE  InStep(r, t, c, st, h)
<1>1. /\ Len(s) # 0 /\ s[1].of = Asking(q[1].req, c[q[1].req]) /\ s[1].of.req = q[1].req
      /\ s[1].todo \in Seq(PacketKind) /\ Len(s[1].todo) # 0
      /\ s[1].kind = s[1].todo[1] /\ Reads(st[q[1].req], s[1].todo)
      /\ Len(s[1].todo) = 1 => \A j \in 2 .. Len(s) : s[j].of.req # q[1].req
  <2>1. Len(s[1].todo) = 1 => \A j \in 2 .. Len(s) : s[j].of.req # q[1].req
    BY FrontIsLast
  <2>2. FrontOfStream(s, q, c, st)
    BY FrontAsks
  <2> QED BY <2>1, <2>2 DEF FrontOfStream
<1>2. \A j \in 2 .. Len(s) : s[j].of.req # q[1].req
  BY <1>1, ReadsOn
<1>3. /\ Len(s) = Len(r) + 1 /\ (\A j \in 1 .. Len(r) : r[j] = s[j + 1])
      /\ Len(q) = Len(t) + 1 /\ (\A i \in 1 .. Len(t) : t[i] = q[i + 1])
  BY DEF Rest
<1>4. \A j \in 1 .. Len(r) : j + 1 \in 1 .. Len(s) /\ j + 1 \in 2 .. Len(s) /\ r[j] = s[j + 1]
  BY <1>3
<1>5. \A i \in 1 .. Len(t) : i + 1 \in 1 .. Len(q) /\ i + 1 # 1 /\ t[i] = q[i + 1]
  BY <1>3
<1>6. ASSUME NEW i \in 1 .. Len(q), i # 1
      PROVE  i - 1 \in 1 .. Len(t) /\ t[i - 1] = q[i] /\ q[i].req # q[1].req
  <2>1. i - 1 \in 1 .. Len(t) /\ (i - 1) + 1 = i
    BY <1>3, <1>6
  <2>2. q[i].req # q[1].req
    <3>1. 1 \in 1 .. Len(q)
      OBVIOUS
    <3> QED BY <3>1, <1>6 DEF Distinct
  <2> QED BY <2>1, <2>2, <1>3
<1>7. ASSUME NEW j \in 1 .. Len(r)
      PROVE  /\ \E i \in 1 .. Len(t) : t[i].gen = h /\ t[i].req = r[j].of.req
             /\ r[j].of = Asking(r[j].of.req, c[r[j].of.req])
             /\ r[j].todo \in Seq(PacketKind) /\ Len(r[j].todo) # 0
             /\ r[j].kind = r[j].todo[1] /\ r[j].kind # "part"
  <2>1. PICK i \in 1 .. Len(q) : q[i].gen = h /\ q[i].req = s[j + 1].of.req
    BY <1>4 DEF InStep
  <2>2. i # 1
    BY <2>1, <1>2, <1>4
  <2>3. \E m \in 1 .. Len(t) : t[m].gen = h /\ t[m].req = r[j].of.req
    BY <2>1, <2>2, <1>4, <1>6
  <2> QED BY <2>3, <1>4 DEF InStep
<1>8. ASSUME NEW i \in 1 .. Len(t), t[i].gen = h
      PROVE  \E j \in 1 .. Len(r) : r[j].of.req = t[i].req
  <2>1. PICK j \in 1 .. Len(s) : s[j].of.req = q[i + 1].req
    BY <1>5, <1>8 DEF InStep
  <2>2. j # 1
    BY <2>1, <1>1, <1>5, <1>6
  <2>3. j - 1 \in 1 .. Len(r) /\ (j - 1) + 1 = j
    BY <2>2, <1>3
  <2> QED BY <2>1, <2>3, <1>3, <1>5
<1>9. ASSUME NEW j \in 1 .. Len(r), NEW k \in 1 .. Len(r), NEW i \in 1 .. Len(t),
             NEW m \in 1 .. Len(t), j <= k, t[i].req = r[j].of.req, t[m].req = r[k].of.req
      PROVE  i <= m
  <2>1. j + 1 <= k + 1 /\ j + 1 \in 1 .. Len(s) /\ k + 1 \in 1 .. Len(s)
    BY <1>4, <1>9
  <2>2. q[i + 1].req = s[j + 1].of.req /\ q[m + 1].req = s[k + 1].of.req
        /\ i + 1 \in 1 .. Len(q) /\ m + 1 \in 1 .. Len(q)
    BY <1>4, <1>5, <1>9
  <2>3. i + 1 <= m + 1
    BY <2>1, <2>2 DEF InStep
  <2> QED BY <2>3
<1>10. ASSUME NEW j \in 1 .. Len(r)
       PROVE  SameAnswer(r, j) <=> SameAnswer(s, j + 1)
  <2>1. j < Len(r) <=> j + 1 < Len(s)
    BY <1>3
  <2>2. j < Len(r) => r[j + 1] = s[(j + 1) + 1]
    <3>1. j < Len(r) => j + 1 \in 1 .. Len(r)
      BY <1>3
    <3> QED BY <3>1, <1>3
  <2> QED BY <2>1, <2>2, <1>4 DEF SameAnswer
<1>11. ASSUME NEW j \in 1 .. Len(r)
       PROVE  IF SameAnswer(r, j) THEN r[j + 1].todo = Tail(r[j].todo) ELSE Len(r[j].todo) = 1
  <2>1. IF SameAnswer(s, j + 1) THEN s[(j + 1) + 1].todo = Tail(s[j + 1].todo)
                                ELSE Len(s[j + 1].todo) = 1
    BY <1>4 DEF InStep
  <2>2. SameAnswer(r, j) => r[j + 1] = s[(j + 1) + 1]
    <3>1. j < Len(r) => j + 1 \in 1 .. Len(r)
      BY <1>3
    <3> QED BY <3>1, <1>3 DEF SameAnswer
  <2> QED BY <2>1, <2>2, <1>4, <1>10
<1>12. ASSUME NEW j \in 1 .. Len(r), j = 1 \/ ~SameAnswer(r, j - 1)
       PROVE  Reads(st[r[j].of.req], r[j].todo)
  <2>1. ~SameAnswer(s, j)
    <3>1. CASE j = 1
      BY <3>1, <1>1, <1>2, <1>4 DEF SameAnswer
    <3>2. CASE j # 1
      <4>1. j - 1 \in 1 .. Len(r) /\ (j - 1) + 1 = j
        BY <3>2, <1>3
      <4> QED BY <3>2, <4>1, <1>10, <1>12
    <3> QED BY <3>1, <3>2
  <2>2. (j + 1) - 1 = j
    OBVIOUS
  <2>3. Reads(st[s[j + 1].of.req], s[j + 1].todo)
    BY <2>1, <2>2, <1>4 DEF InStep
  <2> QED BY <2>3, <1>4
<1> QED BY <1>7, <1>8, <1>9, <1>11, <1>12 DEF InStep

(* An entry of another connection goes.                                    *)
LEMMA OtherEnds ==
  ASSUME NEW s, NEW q, NEW t, NEW c, NEW st, NEW h,
         Len(s) \in Nat, Len(q) \in Nat, Len(t) \in Nat, Len(q) # 0,
         Distinct(q), q[1].gen # h, InStep(s, q, c, st, h), Rest(t, q)
  PROVE  InStep(s, t, c, st, h)
<1>1. Len(q) = Len(t) + 1 /\ (\A i \in 1 .. Len(t) : t[i] = q[i + 1])
  BY DEF Rest
<1>2. \A i \in 1 .. Len(t) : i + 1 \in 1 .. Len(q) /\ t[i] = q[i + 1]
  BY <1>1
<1>3. ASSUME NEW j \in 1 .. Len(s)
      PROVE  \E m \in 1 .. Len(t) : t[m].gen = h /\ t[m].req = s[j].of.req
  <2>1. PICK i \in 1 .. Len(q) : q[i].gen = h /\ q[i].req = s[j].of.req
    BY DEF InStep
  <2>2. i - 1 \in 1 .. Len(t) /\ (i - 1) + 1 = i
    BY <2>1, <1>1
  <2> QED BY <2>1, <2>2, <1>1
<1>4. ASSUME NEW i \in 1 .. Len(t), t[i].gen = h
      PROVE  \E j \in 1 .. Len(s) : s[j].of.req = t[i].req
  BY <1>2, <1>4 DEF InStep
<1>5. ASSUME NEW j \in 1 .. Len(s), NEW k \in 1 .. Len(s), NEW i \in 1 .. Len(t),
             NEW m \in 1 .. Len(t), j <= k, t[i].req = s[j].of.req, t[m].req = s[k].of.req
      PROVE  i <= m
  <2>1. q[i + 1].req = s[j].of.req /\ q[m + 1].req = s[k].of.req
        /\ i + 1 \in 1 .. Len(q) /\ m + 1 \in 1 .. Len(q)
    BY <1>2, <1>5
  <2>2. \A x, y \in 1 .. Len(s) : \A a, b \in 1 .. Len(q) :
          x <= y /\ q[a].req = s[x].of.req /\ q[b].req = s[y].of.req => a <= b
    BY DEF InStep
  <2>3. i + 1 <= m + 1
    BY <2>1, <2>2, <1>5
  <2> QED BY <2>3
<1> QED BY <1>3, <1>4, <1>5 DEF InStep

LEMMA CutLess ==
  ASSUME NEW s, NEW p, NEW n, NEW all, NEW still, HasCut(s, p, n, all),
         still = "up" => all = "up"
  PROVE  HasCut(s, p, n, still)
BY DEF HasCut

(* Nothing is promised, so nothing is there or comes.                      *)
LEMMA CutNothing ==
  ASSUME NEW s, NEW p, NEW n \in Nat, NEW all, Lens(p, n), Len(s) = 0, HasCut(s, p, n, all)
  PROVE  \A k \in 0 .. n : Len(p[k]) = 0
<1> SUFFICES ASSUME NEW k \in 0 .. n, Len(p[k]) # 0
             PROVE  FALSE
  OBVIOUS
<1>1. PICK o \in Offsets(n) : Cut(s, o, p, n)
  BY DEF HasCut
<1>2. 1 \in 1 .. Len(p[k]) /\ o[k] \in Nat
  <2>1. k \in 0 .. n + 1
    OBVIOUS
  <2> QED BY <2>1 DEF Lens, Offsets
<1>3. o[k] + 1 <= Len(s)
  BY <1>1, <1>2 DEF Cut
<1> QED BY <1>2, <1>3

(* The front of what was received is the front of the stream.              *)
LEMMA CutFront ==
  ASSUME NEW s, NEW p, NEW n \in Nat, NEW all, Len(p[0]) \in Nat, Len(p[0]) # 0,
         p[0][1].kind # "part", HasCut(s, p, n, all), Len(s) \in Nat
  PROVE  /\ Len(s) # 0 /\ p[0][1].of = s[1].of /\ p[0][1].kind = s[1].kind
         /\ p[0][1].kind # "garbage"
<1>1. PICK o \in Offsets(n) : Cut(s, o, p, n)
  BY DEF HasCut
<1>2. 1 \in 1 .. Len(p[0]) /\ 0 \in 0 .. n
  OBVIOUS
<1>3. o[0] = 0 /\ o[0] + 1 <= Len(s) /\ IsIn(p[0][1], s[o[0] + 1])
  BY <1>1, <1>2 DEF Cut
<1>4. o[0] + 1 = 1
  BY <1>3
<1> QED BY <1>3, <1>4 DEF IsIn

(* What comes next goes on where what was received ends: with the rest of  *)
(* a packet after its part, and otherwise with a whole one.                *)
LEMMA CutRest ==
  ASSUME NEW s, NEW p, NEW n \in Nat, NEW all, n >= 1, Lens(p, n), HasCut(s, p, n, all),
         Len(p[1]) # 0
  PROVE  /\ p[1][1].cut <=> EndsInPart(p[0])
         /\ EndsInPart(p[0]) => /\ p[1][1].of = p[0][Len(p[0])].of
                                /\ p[1][1].todo = p[0][Len(p[0])].todo
<1>7. p[1][1].cut <=> EndsInPart(p[0])
  <2>1. 1 \in 1 .. n /\ 0 \in 0 .. n /\ \A k \in 0 .. n : k < 1 => k = 0
    OBVIOUS
  <2>2. p[1][1].cut <=> \E k \in 0 .. n : GoesOn(p, k, 1)
    BY <2>1 DEF HasCut, Flagged
  <2>3. GoesOn(p, 0, 1) <=> EndsInPart(p[0])
    BY DEF GoesOn
  <2>4. \A k \in 0 .. n : GoesOn(p, k, 1) => k = 0
    BY <2>1 DEF GoesOn
  <2> QED BY <2>1, <2>2, <2>3, <2>4
<1> SUFFICES ASSUME EndsInPart(p[0])
             PROVE  /\ p[1][1].of = p[0][Len(p[0])].of
                    /\ p[1][1].todo = p[0][Len(p[0])].todo
  BY <1>7
<1>1. PICK o \in Offsets(n) : Cut(s, o, p, n)
  BY DEF HasCut
<1>2. /\ Len(p[0]) \in Nat /\ Len(p[0]) # 0 /\ Len(p[1]) \in Nat
      /\ 0 \in 0 .. n /\ 1 \in 0 .. n /\ Len(p[0]) = Full(p[0]) + 1 /\ Full(p[0]) \in Nat
  <2>1. 0 \in 0 .. n /\ 1 \in 0 .. n
    OBVIOUS
  <2>2. Len(p[0]) \in Nat /\ Len(p[1]) \in Nat /\ Len(p[0]) # 0
    BY <2>1 DEF Lens, EndsInPart
  <2> QED BY <2>1, <2>2, FullFacts
<1>3. Len(p[0]) \in 1 .. Len(p[0]) /\ 1 \in 1 .. Len(p[1])
  BY <1>2
<1>4. o[0] = 0 /\ o[0 + 1] = o[0] + Full(p[0])
  BY <1>1, <1>2 DEF Cut
<1>5. /\ p[0][Len(p[0])].of = s[o[0] + Len(p[0])].of /\ p[1][1].of = s[o[1] + 1].of
      /\ p[0][Len(p[0])].todo = s[o[0] + Len(p[0])].todo
      /\ p[1][1].todo = s[o[1] + 1].todo
  BY <1>1, <1>2, <1>3 DEF Cut, IsIn
<1>6. o[0] + Len(p[0]) = o[1] + 1
  BY <1>2, <1>4
<1> QED BY <1>5, <1>6

(***************************************************************************)
(* The state: the inductive invariant.                                     *)
(***************************************************************************)
(* The connection whose stream the ctx reads, and whether what it has      *)
(* received is of that stream: not between a disconnect and the connect.   *)
Reading == IF inbox # <<>> THEN inbox[1].gen ELSE gen
Fresh   == IF inbox # <<>> THEN inbox[1].kind # "connect"
                           ELSE conn \notin {"closed", "connecting"}

Piece(h, k) ==
  IF k = 0 THEN IF Fresh /\ h = Reading THEN m_smRecvData ELSE <<>>
  ELSE IF k = Len(inbox) + 1 THEN IF h = gen THEN wire ELSE <<>>
  ELSE IF inbox[k].kind = "data" /\ inbox[k].gen = h THEN inbox[k].packets ELSE <<>>

Pieces(h)  == [k \in 0 .. Len(inbox) + 1 |-> Piece(h, k)]
Session(h) == IF h = gen THEN conn ELSE "closed"

Single(w) == \A i, j \in 1 .. Len(w) : w[i] = w[j] => i = j

(* What is promised to the entries of a connection, and how it is cut up.  *)
Stream(h) ==
  \E s \in Seq(Packet) : /\ HasCut(s, Pieces(h), Len(inbox) + 1, Session(h))
                         /\ InStep(s, m_vtRequest, call, step, h)

(* The messages of the network threads come connection after connection,   *)
(* each from its connect to its disconnect.                                *)
MessagesInv ==
  /\ \A k \in 1 .. Len(inbox) : inbox[k].gen <= gen
  /\ \A k, m \in 1 .. Len(inbox) : k < m => inbox[k].gen <= inbox[m].gen
  /\ \A k, m \in 1 .. Len(inbox) :
       k < m /\ inbox[k].kind = "disconnect" => inbox[k].gen < inbox[m].gen
  /\ \A k \in 1 .. Len(inbox) - 1 :
       IF inbox[k].kind = "disconnect" THEN inbox[k + 1].kind = "connect"
       ELSE inbox[k + 1].kind # "connect" /\ inbox[k + 1].gen = inbox[k].gen
  /\ \A k, m \in 1 .. Len(inbox) :
       k < m /\ inbox[k].gen # inbox[m].gen => \E j \in k + 1 .. m : inbox[j].kind = "connect"
  /\ inbox # <<>> => IF inbox[Len(inbox)].kind = "disconnect"
                     THEN conn \in {"closed", "connecting"}
                     ELSE conn \notin {"closed", "connecting"} /\ inbox[Len(inbox)].gen = gen
  /\ conn = "connecting" => \A k \in 1 .. Len(inbox) : inbox[k].gen < gen
  /\ \A k \in 1 .. Len(inbox) : inbox[k].kind = "data" => inbox[k].packets # <<>>
  /\ wire # <<>> => conn = "up"

(* Who is in a list waits there, and nobody is in the lists twice.         *)
ListsOK(q, w, p) ==
  /\ Distinct(q) /\ \A i \in 1 .. Len(q) : p[q[i].req] = "sent"
  /\ Single(w) /\ \A i \in 1 .. Len(w) : p[w[i]] = "waiting"

LoopInv == handler = "disconnect" => snapshot = m_vtRequest

ListsInv == LoopInv /\ ListsOK(m_vtRequest, m_vtWaitRequest, pc)

(* The entries are those of connections that are up or whose disconnect is *)
(* still to be handled, oldest first.                                      *)
Covered(g) ==
  \/ g = gen /\ conn = "up"
  \/ \E k \in 1 .. Len(inbox) : inbox[k].kind = "disconnect" /\ inbox[k].gen = g

Sorted(q, g) ==
  /\ \A i \in 1 .. Len(q) : q[i].gen <= g
  /\ \A i, j \in 1 .. Len(q) : i < j => q[i].gen <= q[j].gen

EntriesInv ==
  /\ Sorted(m_vtRequest, gen)
  /\ handler # "disconnect" => \A i \in 1 .. Len(m_vtRequest) : Covered(m_vtRequest[i].gen)
  /\ handler = "data" => Fresh
  /\ handler = "disconnect" => ~Fresh

(* Every entry has its packets coming, and nobody took another's: as long  *)
(* as no message passed one that was pushed before it.                     *)
StreamInv ==
  /\ IF handler = "disconnect"
     THEN /\ wire = <<>>
          /\ \A k \in 1 .. Len(inbox) : inbox[k].kind # "data"
          /\ \A i \in 1 .. Len(m_vtRequest) : m_vtRequest[i].gen = gen => conn = "closed"
     ELSE \A h \in 1 .. MaxConn : Stream(h)
  /\ \A r \in Req : ret[r] # "foreign"

IInv ==
  /\ TypeOK /\ LoopInv
  /\ overtaken = 0 => /\ MessagesInv /\ ListsInv /\ EntriesInv
                      /\ ~overlap /\ ~unfit => StreamInv

(***************************************************************************)
(* Types.                                                                  *)
(***************************************************************************)
LEMMA PacketsOf ==
  ASSUME NEW of \in Statement, NEW answer \in Seq(PacketKind)
  PROVE  [i \in DOMAIN answer |-> [of |-> of, kind |-> answer[i], cut |-> FALSE,
                                   todo |-> SubSeq(answer, i, Len(answer))]] \in Seq(Packet)
<1>1. DOMAIN answer = 1 .. Len(answer) /\ Len(answer) \in Nat
  OBVIOUS
<1>2. ASSUME NEW i \in 1 .. Len(answer)
      PROVE  [of |-> of, kind |-> answer[i], cut |-> FALSE,
              todo |-> SubSeq(answer, i, Len(answer))] \in Packet
  <2>1. SubSeq(answer, i, Len(answer)) \in Seq(PacketKind) /\ answer[i] \in PacketKind
    OBVIOUS
  <2> QED BY <2>1 DEF Packet
<1> QED BY <1>1, <1>2

LEMMA SendTypes ==
  ASSUME MysqlConstants, TypeOK, NEW r \in Req, NEW n \in DOMAIN Calls[r],
         NEW queue \in Seq(Entry), SendRequest(r, n, queue)
  PROVE  /\ m_vtRequest' \in Seq(Entry)
         /\ wire' \in Seq(Packet)
         /\ pc' \in [Req -> {"idle", "waiting", "sent", "done"}]
         /\ call' \in [Req -> Nat] /\ \A x \in Req : call'[x] \in DOMAIN Calls[x]
         /\ step' \in [Req -> {"exec", "head", "field", "eof", "row"}]
         /\ unfit' \in BOOLEAN
<1>1. [req |-> r, gen |-> gen] \in Entry
  BY DEF TypeOK, Entry
<1>2. m_vtRequest' \in Seq(Entry)
  BY <1>1 DEF SendRequest
<1>3. Calls[r] \in Seq({"exec", "query", "ping"}) /\ n \in Nat
  BY DEF MysqlConstants
<1>4. [req |-> r, n |-> n] \in Statement
  BY <1>3 DEF Statement
<1>5. wire' \in Seq(Packet) /\ unfit' \in BOOLEAN
  <2>1. PICK answer \in Answers :
          /\ wire' = wire \o [i \in DOMAIN answer |->
                              [of |-> [req |-> r, n |-> n], kind |-> answer[i], cut |-> FALSE,
                               todo |-> SubSeq(answer, i, Len(answer))]]
          /\ unfit' = (unfit \/ ~Fits(Calls[r][n], answer))
    BY DEF SendRequest
  <2>2. answer \in Seq(PacketKind)
    <3>1. answer \in Seq(AnswerKind)
      BY DEF MysqlConstants
    <3>2. \A i \in 1 .. Len(answer) : answer[i] \in PacketKind
      BY <3>1, Elements DEF PacketKind
    <3> QED BY <3>1, <3>2
  <2>3. [i \in DOMAIN answer |-> [of |-> [req |-> r, n |-> n], kind |-> answer[i], cut |-> FALSE,
                                  todo |-> SubSeq(answer, i, Len(answer))]] \in Seq(Packet)
    BY <1>4, <2>2, PacketsOf
  <2>4. wire' \in Seq(Packet)
    BY <2>1, <2>3 DEF TypeOK
  <2>5. unfit' \in BOOLEAN
    BY <2>1 DEF TypeOK
  <2> QED BY <2>4, <2>5
<1>6. pc' \in [Req -> {"idle", "waiting", "sent", "done"}]
  BY DEF SendRequest, TypeOK
<1>7. call' \in [Req -> Nat] /\ \A x \in Req : call'[x] \in DOMAIN Calls[x]
  BY <1>3 DEF SendRequest, TypeOK
<1>8. step' \in [Req -> {"exec", "head", "field", "eof", "row"}]
  BY DEF SendRequest, TypeOK, FirstStep
<1> QED BY <1>2, <1>5, <1>6, <1>7, <1>8

LEMMA FrontOf ==
  ASSUME NEW S, NEW q \in Seq(S), NEW k \in Nat, k <= Len(q)
  PROVE  /\ SubSeq(q, 1, k) \in Seq(S) /\ Len(SubSeq(q, 1, k)) = k
         /\ \A i \in 1 .. k : SubSeq(q, 1, k)[i] = q[i]
<1>1. \A i \in 1 .. k : q[i] \in S
  OBVIOUS
<1>2. SubSeq(q, 1, k) \in Seq(S)
  BY <1>1
<1>3. Len(SubSeq(q, 1, k)) = k
  OBVIOUS
<1>4. \A i \in 1 .. k : SubSeq(q, 1, k)[i] = q[i]
  OBVIOUS
<1> QED BY <1>2, <1>3, <1>4

LEMMA ConcatIs ==
  ASSUME NEW S, NEW a \in Seq(S), NEW b \in Seq(S)
  PROVE  a \o b \in Seq(S) /\ Extended(a \o b, a, b)
BY DEF Extended

LEMMA WholeIs ==
  ASSUME NEW data \in Seq(Packet)
  PROVE  /\ Whole(data) \in Seq(Packet) /\ Len(Whole(data)) = Full(data)
         /\ \A i \in 1 .. Full(data) : Whole(data)[i] = data[i]
<1>1. Len(data) \in Nat
  OBVIOUS
<1>2. CASE EndsInPart(data)
  <2>1. Len(data) - 1 \in Nat /\ Len(data) - 1 <= Len(data)
    BY <1>1, <1>2 DEF EndsInPart
  <2>2. Whole(data) = SubSeq(data, 1, Len(data) - 1) /\ Full(data) = Len(data) - 1
    BY <1>2 DEF Whole, Full
  <2>3. PICK k \in Nat : k = Len(data) - 1 /\ k <= Len(data)
    BY <2>1
  <2>4. /\ SubSeq(data, 1, k) \in Seq(Packet) /\ Len(SubSeq(data, 1, k)) = k
        /\ \A i \in 1 .. k : SubSeq(data, 1, k)[i] = data[i]
    BY <2>3, FrontOf
  <2> QED BY <2>2, <2>3, <2>4
<1>3. CASE ~EndsInPart(data)
  BY <1>3 DEF Whole, Full
<1> QED BY <1>2, <1>3

LEMMA GarbageIs ==
  ASSUME MysqlConstants, NEW packets \in Seq(Packet), packets # <<>>,
         NEW read \in Garbage(packets)
  PROVE  read \in Seq(Packet)
<1>1. PICK n \in 1 .. MaxGarbage, more \in BOOLEAN :
        read = [i \in 1 .. n |-> [of   |-> [packets[1].of EXCEPT !.n = 0],
                                  kind |-> IF i = n /\ more THEN "part" ELSE "garbage",
                                  todo |-> <<"garbage">>, cut |-> FALSE]]
  BY DEF Garbage
<1>2. [packets[1].of EXCEPT !.n = 0] \in Statement
  <2>1. packets[1] \in Packet
    OBVIOUS
  <2> QED BY <2>1 DEF Packet, Statement
<1>3. \A i \in 1 .. n : [of   |-> [packets[1].of EXCEPT !.n = 0],
                         kind |-> IF i = n /\ more THEN "part" ELSE "garbage",
                         todo |-> <<"garbage">>, cut |-> FALSE] \in Packet
  <2>1. <<"garbage">> \in Seq(PacketKind)
    BY DEF PacketKind
  <2> QED BY <1>2, <2>1 DEF Packet, PacketKind
<1>4. n \in Nat
  BY DEF MysqlConstants
<1> QED BY <1>1, <1>3, <1>4

LEMMA AppendDataIs ==
  ASSUME MysqlConstants, NEW data \in Seq(Packet), NEW packets \in Seq(Packet), packets # <<>>,
         NEW t \in AppendData(data, packets)
  PROVE  /\ t \in Seq(Packet)
         /\ Continues(data, packets) => IsJoin(t, data, packets)
<1>1. /\ Whole(data) \in Seq(Packet) /\ Len(Whole(data)) = Full(data)
      /\ \A i \in 1 .. Full(data) : Whole(data)[i] = data[i]
  BY WholeIs
<1>2. PICK read : /\ t = Whole(data) \o read
                  /\ read \in IF Continues(data, packets) THEN {packets} ELSE Garbage(packets)
  BY DEF AppendData
<1>3. read \in Seq(Packet) /\ (Continues(data, packets) => read = packets)
  BY <1>2, GarbageIs
<1>4. t \in Seq(Packet) /\ Extended(t, Whole(data), read)
  BY <1>1, <1>2, <1>3, ConcatIs
<1> QED BY <1>1, <1>3, <1>4 DEF Extended, IsJoin

LEMMA NextStepIs ==
  ASSUME NEW at \in Steps, NEW kind, NEW next \in NextStep(at, kind)
  PROVE  next \in Steps \cup {"own", "error", "fail"}
BY DEF NextStep, Steps

LEMMA MessageFacts ==
  ASSUME TypeOK, inbox # <<>>
  PROVE  /\ Head(inbox) = inbox[1] /\ Head(inbox) \in Message
         /\ Tail(inbox) \in Seq(Message) /\ Rest(Tail(inbox), inbox)
         /\ Len(inbox) \in Nat /\ Len(inbox) # 0
         /\ Head(inbox).gen \in 1 .. MaxConn
         /\ Head(inbox).kind = "data" => Head(inbox).packets \in Seq(Packet)
<1>1. inbox \in Seq(Message)
  BY DEF TypeOK
<1>2. Head(inbox) = inbox[1] /\ Head(inbox) \in Message
      /\ Tail(inbox) \in Seq(Message) /\ Rest(Tail(inbox), inbox)
  BY <1>1, TailIsRest
<1>3. Len(inbox) \in Nat /\ Len(inbox) # 0
  BY <1>1
<1>4. /\ Head(inbox).gen \in 1 .. MaxConn
      /\ Head(inbox).kind = "data" => Head(inbox).packets \in Seq(Packet)
  BY <1>2 DEF Message
<1> QED BY <1>2, <1>3, <1>4

(* The k-th message is taken; without passing another, it is the first.    *)
LEMMA TakenFacts ==
  ASSUME TypeOK, NEW k \in DOMAIN inbox
  PROVE  /\ Without(inbox, k) \in Seq(Message) /\ inbox[k] \in Message
         /\ inbox[k].kind = "data" => inbox[k].packets \in Seq(Packet) /\ inbox[k].packets # <<>>
<1>1. inbox \in Seq(Message) /\ DOMAIN inbox = 1 .. Len(inbox) /\ Len(inbox) - 1 \in Nat
      /\ \A i \in 1 .. Len(inbox) : inbox[i] \in Message
  BY DEF TypeOK
<1>2. \A i \in 1 .. Len(inbox) - 1 : i \in 1 .. Len(inbox) /\ i + 1 \in 1 .. Len(inbox)
  BY <1>1
<1>3. Without(inbox, k) \in Seq(Message)
  BY <1>1, <1>2 DEF Without
<1>4. inbox[k].kind = "data" => inbox[k].packets \in Seq(Packet) /\ inbox[k].packets # <<>>
  BY <1>1 DEF Message
<1> QED BY <1>1, <1>3, <1>4

LEMMA InOrder ==
  ASSUME TypeOK, NEW kind, NEW k \in DOMAIN inbox, NextMessage(kind, k), overtaken' = 0
  PROVE  /\ overtaken = 0 /\ k = 1
         /\ inbox # <<>> /\ inbox' = Tail(inbox) /\ Head(inbox) = inbox[1]
         /\ inbox[1].kind = kind
<1>1. overtaken \in Nat /\ k \in Nat /\ inbox # <<>>
  BY DEF TypeOK
<1>2. k = 1 /\ overtaken = 0
  BY <1>1 DEF NextMessage
<1>3. inbox' = [i \in 1 .. Len(inbox) - 1 |-> inbox[i + 1]]
  <2>1. \A i \in 1 .. Len(inbox) - 1 : ~(i < 1)
    OBVIOUS
  <2> QED BY <1>2, <2>1 DEF NextMessage, Without
<1>4. inbox' = Tail(inbox) /\ Head(inbox) = inbox[1]
  <2>1. inbox \in Seq(Message) /\ Len(inbox) \in Nat /\ Len(inbox) # 0
    BY <1>1 DEF TypeOK
  <2>2. Tail(inbox) \in Seq(Message) /\ Rest(Tail(inbox), inbox) /\ Head(inbox) = inbox[1]
    BY <1>1, <2>1, TailIsRest
  <2>3. PICK n \in Nat : n = Len(inbox) - 1
    BY <2>1
  <2>4. PICK f : f = Tail(inbox)
    OBVIOUS
  <2>5. f \in [1 .. n -> Message] /\ \A i \in 1 .. n : f[i] = inbox[i + 1]
    <3>1. f \in Seq(Message) /\ Rest(f, inbox) /\ Len(f) \in Nat
      BY <2>2, <2>4
    <3>2. Len(f) = n
      BY <2>1, <2>3, <3>1 DEF Rest
    <3>3. f \in [1 .. n -> Message]
      BY <3>1, <3>2
    <3> QED BY <3>1, <3>2, <3>3 DEF Rest
  <2>6. inbox' = [i \in 1 .. n |-> inbox[i + 1]]
    BY <1>3, <2>3
  <2>7. f = [i \in 1 .. n |-> inbox[i + 1]]
    BY <2>5
  <2> QED BY <2>2, <2>4, <2>6, <2>7
<1> QED BY <1>1, <1>2, <1>4 DEF NextMessage

LEMMA RestOf ==
  ASSUME NEW S, NEW q \in Seq(S), NEW k \in Nat, k <= Len(q)
  PROVE  /\ SubSeq(q, k + 1, Len(q)) \in Seq(S) /\ Len(SubSeq(q, k + 1, Len(q))) = Len(q) - k
         /\ \A i \in 1 .. Len(SubSeq(q, k + 1, Len(q))) : SubSeq(q, k + 1, Len(q))[i] = q[k + i]
<1>1. Len(q) \in Nat /\ \A i \in 1 .. Len(q) : q[i] \in S
  OBVIOUS
<1>2. Len(SubSeq(q, k + 1, Len(q))) = Len(q) - k
  BY <1>1
<1>3. SubSeq(q, k + 1, Len(q)) \in Seq(S)
  BY <1>1
<1>4. ASSUME NEW i \in 1 .. Len(q) - k PROVE SubSeq(q, k + 1, Len(q))[i] = q[k + i]
  BY <1>1
<1> QED BY <1>2, <1>3, <1>4

(* What OnReceive moves from the wire to a message.                        *)
LEMMA ReceiveTypes ==
  ASSUME TypeOK, NEW n \in 0 .. Len(wire), NEW cut \in 0 .. 1, OnReceive(n, cut)
  PROVE  /\ wire' \in Seq(Packet) /\ inbox' \in Seq(Message)
         /\ \E packets \in Seq(Packet) :
              /\ Longer(inbox', inbox, [kind |-> "data", gen |-> gen, packets |-> packets])
              /\ IsTaken(packets, wire, n) /\ IsLeft(wire', wire, n)
              /\ packets # <<>>
              /\ Len(packets) = n + 1 => wire'[1].cut /\ (n = 0 => ~wire[1].cut)
              /\ Len(packets) = n /\ Len(wire') # 0 => wire'[1].cut = wire[n + 1].cut
<1> DEFINE rest == SubSeq(wire, n + 1, Len(wire))
           whole == SubSeq(wire, 1, n)
           last == IF cut = 1 THEN <<[wire[n + 1] EXCEPT !.kind = "part"]>> ELSE <<>>
<1>1. /\ wire \in Seq(Packet) /\ n \in Nat /\ cut \in {0, 1} /\ Len(wire) \in Nat
      /\ n <= Len(wire) /\ inbox \in Seq(Message)
  BY DEF TypeOK
<1>2. /\ n + cut > 0 /\ (cut = 1 => n < Len(wire) /\ ~wire[n + 1].cut)
      /\ wire' = IF cut = 1 THEN [rest EXCEPT ![1].cut = TRUE] ELSE rest
      /\ inbox' = Append(inbox, [kind |-> "data", gen |-> gen, packets |-> whole \o last])
  BY DEF OnReceive
<1>3. /\ rest \in Seq(Packet) /\ Len(rest) = Len(wire) - n
      /\ \A i \in 1 .. Len(rest) : rest[i] = wire[n + i]
  BY <1>1, RestOf
<1>4. /\ wire' \in Seq(Packet) /\ Len(wire') = Len(rest)
      /\ \A i \in 1 .. Len(rest) : /\ wire'[i].of = rest[i].of /\ wire'[i].todo = rest[i].todo
                                   /\ wire'[i].kind = rest[i].kind
                                   /\ i # 1 \/ cut # 1 => wire'[i].cut = rest[i].cut
      /\ cut = 1 => wire'[1].cut
  <2> HIDE DEF rest
  <2>1. CASE cut = 1
    <3>1. 1 \in 1 .. Len(rest) /\ rest[1] \in Packet /\ DOMAIN rest = 1 .. Len(rest)
      BY <1>1, <1>2, <1>3, <2>1
    <3>2. [rest[1] EXCEPT !.cut = TRUE] \in Packet
      BY <3>1 DEF Packet
    <3>3. wire' = [rest EXCEPT ![1] = [rest[1] EXCEPT !.cut = TRUE]]
      BY <1>2, <2>1
    <3>4. wire' \in Seq(Packet) /\ Len(wire') = Len(rest)
      BY <1>3, <3>1, <3>2, <3>3
    <3>5. wire'[1] = [rest[1] EXCEPT !.cut = TRUE]
          /\ \A i \in 1 .. Len(rest) : i # 1 => wire'[i] = rest[i]
      BY <3>1, <3>3
    <3>6. /\ wire'[1].of = rest[1].of /\ wire'[1].todo = rest[1].todo
          /\ wire'[1].kind = rest[1].kind /\ wire'[1].cut
      BY <3>1, <3>5 DEF Packet
    <3>7. ASSUME NEW i \in 1 .. Len(rest), i # 1 PROVE wire'[i] = rest[i]
      BY <3>5, <3>7
    <3>8. ASSUME NEW i \in 1 .. Len(rest)
          PROVE  /\ wire'[i].of = rest[i].of /\ wire'[i].todo = rest[i].todo
                 /\ wire'[i].kind = rest[i].kind
      BY <3>6, <3>7
    <3> QED BY <2>1, <3>4, <3>6, <3>7, <3>8
  <2>2. CASE cut # 1
    BY <1>2, <1>3, <2>2
  <2> QED BY <2>1, <2>2
<1>5. whole \in Seq(Packet) /\ Len(whole) = n /\ \A i \in 1 .. n : whole[i] = wire[i]
  BY <1>1, FrontOf
<1>6. /\ last \in Seq(Packet) /\ Len(last) = cut
      /\ cut = 1 => /\ last[1].of = wire[n + 1].of /\ last[1].todo = wire[n + 1].todo
                    /\ last[1].kind = "part" /\ last[1].cut = wire[n + 1].cut
  <2>1. CASE cut = 1
    <3>1. wire[n + 1] \in Packet
      BY <1>1, <1>2, <2>1
    <3>2. [wire[n + 1] EXCEPT !.kind = "part"] \in Packet
      BY <3>1 DEF Packet, PacketKind
    <3>3. /\ [wire[n + 1] EXCEPT !.kind = "part"].of = wire[n + 1].of
          /\ [wire[n + 1] EXCEPT !.kind = "part"].todo = wire[n + 1].todo
          /\ [wire[n + 1] EXCEPT !.kind = "part"].kind = "part"
          /\ [wire[n + 1] EXCEPT !.kind = "part"].cut = wire[n + 1].cut
      BY <3>1 DEF Packet
    <3>4. PICK x \in Packet : x = [wire[n + 1] EXCEPT !.kind = "part"]
      BY <3>2
    <3>5. last = <<x>> /\ x.of = wire[n + 1].of /\ x.todo = wire[n + 1].todo /\ x.kind = "part"
          /\ x.cut = wire[n + 1].cut
      BY <2>1, <3>3, <3>4
    <3> HIDE DEF last
    <3> QED BY <2>1, <3>5
  <2>2. CASE cut # 1
    BY <1>1, <2>2
  <2> QED BY <2>1, <2>2
<1> HIDE DEF whole, last, rest
<1>7. whole \o last \in Seq(Packet) /\ Extended(whole \o last, whole, last)
  BY <1>5, <1>6, ConcatIs
<1> DEFINE packets == whole \o last
<1> HIDE DEF packets
<1>8. /\ packets \in Seq(Packet) /\ Len(packets) = n + cut
      /\ \A i \in 1 .. n : packets[i] = whole[i]
      /\ cut = 1 => packets[n + 1] = last[1]
  <2>1. cut = 1 => 1 \in 1 .. Len(last)
    BY <1>6
  <2> QED BY <1>5, <1>6, <1>7, <2>1 DEF Extended, packets
<1>9. IsTaken(packets, wire, n)
  <2>1. Len(packets) \in {n, n + 1} /\ Len(packets) # 0 /\ Len(packets) <= Len(wire)
    BY <1>1, <1>2, <1>8
  <2>2. Len(packets) = n + 1 => cut = 1
    BY <1>1, <1>8
  <2>3. \A i \in 1 .. Len(packets) : i \in 1 .. n \/ (i = n + 1 /\ cut = 1)
    BY <1>1, <1>8
  <2> QED BY <1>1, <1>5, <1>6, <1>8, <2>1, <2>2, <2>3 DEF IsTaken
<1>10. IsLeft(wire', wire, n)
  <2>1. Len(wire) = n + Len(wire')
    BY <1>1, <1>3, <1>4
  <2> QED BY <1>3, <1>4, <2>1 DEF IsLeft
<1>11. Len(packets) = n + 1 => wire'[1].cut /\ (n = 0 => ~wire[1].cut)
  <2>1. Len(packets) = n + 1 => cut = 1
    BY <1>1, <1>8
  <2>2. n = 0 => n + 1 = 1
    OBVIOUS
  <2> QED BY <1>2, <1>4, <2>1, <2>2
<1>14. Len(packets) = n /\ Len(wire') # 0 => wire'[1].cut = wire[n + 1].cut
  <2>1. SUFFICES ASSUME Len(packets) = n, Len(wire') # 0 PROVE wire'[1].cut = wire[n + 1].cut
    OBVIOUS
  <2>2. cut = 0 /\ 1 \in 1 .. Len(rest)
    BY <1>1, <1>3, <1>4, <1>8, <2>1
  <2> QED BY <1>3, <1>4, <2>2
<1>15. packets # <<>>
  BY <1>1, <1>2, <1>8
<1>12. [kind |-> "data", gen |-> gen, packets |-> packets] \in Message
  BY <1>8, <1>15 DEF Message, TypeOK
<1>13. inbox' \in Seq(Message)
       /\ Longer(inbox', inbox, [kind |-> "data", gen |-> gen, packets |-> packets])
  <2>1. inbox' = Append(inbox, [kind |-> "data", gen |-> gen, packets |-> packets])
    BY <1>2 DEF packets
  <2> QED BY <1>1, <1>12, <2>1, AppendIsLonger
<1> QED BY <1>4, <1>8, <1>9, <1>10, <1>11, <1>13, <1>14, <1>15

LEMMA TypeStep ==
  ASSUME MysqlConstants, TypeOK, LoopInv, [Next]_vars
  PROVE  TypeOK'
<1> USE DEF netVars, requestVars, listVars, loopVars, ghostVars, ctxVars, queueVars
<1>1. ASSUME NEW r \in Req, DispathBussinessMsg(r) PROVE TypeOK'
  <2>1. CASE IsTransmit
    <3>1. SendRequest(r, 1, m_vtRequest)
      BY <1>1, <2>1 DEF DispathBussinessMsg
    <3>2. 1 \in DOMAIN Calls[r]
      BY DEF MysqlConstants
    <3>3. m_vtRequest \in Seq(Entry)
      BY DEF TypeOK
    <3> QED BY <1>1, <2>1, <3>1, <3>2, <3>3, SendTypes DEF DispathBussinessMsg, TypeOK
  <2>2. CASE ~IsTransmit
    <3>1. 1 \in DOMAIN Calls[r]
      BY DEF MysqlConstants
    <3>2. /\ m_vtWaitRequest' \in Seq(Req)
          /\ pc' \in [Req -> {"idle", "waiting", "sent", "done"}]
          /\ call' \in [Req -> Nat] /\ \A x \in Req : call'[x] \in DOMAIN Calls[x]
      <4>1. CASE IsPing(r)
        BY <1>1, <2>2, <4>1 DEF DispathBussinessMsg, Finish, TypeOK
      <4>2. CASE ~IsPing(r)
        <5>1. Wait(r, 1)
          BY <1>1, <2>2, <4>2 DEF DispathBussinessMsg
        <5>2. m_vtWaitRequest' \in Seq(Req)
          BY <5>1 DEF Wait, TypeOK
        <5>3. pc' \in [Req -> {"idle", "waiting", "sent", "done"}]
          BY <5>1 DEF Wait, TypeOK
        <5>4. call' \in [Req -> Nat] /\ \A x \in Req : call'[x] \in DOMAIN Calls[x]
          BY <3>1, <5>1 DEF Wait, TypeOK
        <5> QED BY <5>2, <5>3, <5>4
      <4> QED BY <4>1, <4>2
    <3>3. ret' \in [Req -> {"none", "own", "foreign", "error", "fail", "nonet"}]
      BY <1>1, <2>2 DEF DispathBussinessMsg, Wait, Finish, TypeOK
    <3> QED BY <1>1, <2>2, <3>2, <3>3 DEF DispathBussinessMsg, TypeOK
  <2> QED BY <2>1, <2>2
<1>2. ASSUME ResumeWaiter, m_vtWaitRequest # <<>>
      PROVE  /\ m_vtRequest' \in Seq(Entry) /\ m_vtWaitRequest' \in Seq(Req)
             /\ wire' \in Seq(Packet)
             /\ pc' \in [Req -> {"idle", "waiting", "sent", "done"}]
             /\ call' \in [Req -> Nat] /\ \A x \in Req : call'[x] \in DOMAIN Calls[x]
             /\ step' \in [Req -> {"exec", "head", "field", "eof", "row"}]
             /\ ret' \in [Req -> {"none", "own", "foreign", "error", "fail", "nonet"}]
             /\ unfit' \in BOOLEAN
  <2> DEFINE r == Head(m_vtWaitRequest)
  <2>1. r \in Req /\ Tail(m_vtWaitRequest) \in Seq(Req)
    BY <1>2 DEF TypeOK
  <2>2. call[r] \in DOMAIN Calls[r] /\ m_vtRequest \in Seq(Entry)
    BY <2>1 DEF TypeOK
  <2>3. CASE IsTransmit
    <3>1. SendRequest(r, call[r], m_vtRequest)
      BY <1>2, <2>3 DEF ResumeWaiter
    <3> QED BY <1>2, <2>1, <2>2, <2>3, <3>1, SendTypes DEF ResumeWaiter, TypeOK
  <2>4. CASE ~IsTransmit
    <3>1. Finish(r, "nonet") /\ UNCHANGED <<wire, unfit, m_vtRequest, call, step>>
      BY <1>2, <2>4 DEF ResumeWaiter
    <3>2. m_vtWaitRequest' \in Seq(Req)
      BY <1>2, <2>1 DEF ResumeWaiter
    <3> QED BY <2>1, <3>1, <3>2 DEF Finish, TypeOK
  <2> QED BY <2>3, <2>4
<1>3. ASSUME VerifiedResume PROVE TypeOK'
  BY <1>2, <1>3 DEF VerifiedResume, ResumeWaiter, TypeOK
<1>4. ASSUME OnTimerResume PROVE TypeOK'
  BY <1>2, <1>4 DEF OnTimerResume, ResumeWaiter, TypeOK
<1>21. ASSUME NEW kind, NEW k \in DOMAIN inbox, NextMessage(kind, k)
       PROVE  inbox' \in Seq(Message) /\ overtaken' \in 0 .. MaxOvertaken
  <2>1. overtaken' \in 0 .. MaxOvertaken
    BY <1>21 DEF NextMessage, TypeOK, MysqlConstants
  <2> QED BY <1>21, <2>1, TakenFacts DEF NextMessage
<1>5. ASSUME NEW k \in DOMAIN inbox, ReceiveMysqlConnect(k) PROVE TypeOK'
  BY <1>5, <1>21 DEF ReceiveMysqlConnect, TypeOK
<1>6. ASSUME NEW k \in DOMAIN inbox, ReceiveData(k) PROVE TypeOK'
  <2>1. NextMessage("data", k) /\ inbox[k].kind = "data"
    BY <1>6 DEF ReceiveData, NextMessage
  <2>2. /\ inbox' \in Seq(Message) /\ overtaken' \in 0 .. MaxOvertaken
        /\ inbox[k].packets \in Seq(Packet) /\ inbox[k].packets # <<>>
    BY <2>1, <1>21, TakenFacts
  <2>3. m_smRecvData \in Seq(Packet)
    BY DEF TypeOK
  <2>4. m_smRecvData' \in AppendData(m_smRecvData, inbox[k].packets)
    BY <1>6 DEF ReceiveData
  <2>5. m_smRecvData' \in Seq(Packet)
    BY <2>2, <2>3, <2>4, AppendDataIs
  <2>6. doomed' \in BOOLEAN /\ handler' \in {"none", "data", "verified", "disconnect", "timer"}
    BY <1>6 DEF ReceiveData, ErrorClose, TypeOK
  <2> QED BY <1>6, <2>2, <2>5, <2>6 DEF ReceiveData, TypeOK
<1>22. ASSUME NEW r \in Req, NEW of, NEW next \in Steps \cup {"own", "error", "fail"},
              m_vtRequest # <<>>, Takes(r, of, next)
       PROVE  /\ ret' \in [Req -> {"none", "own", "foreign", "error", "fail", "nonet"}]
              /\ doomed' \in BOOLEAN /\ wire' \in Seq(Packet) /\ unfit' \in BOOLEAN
              /\ m_vtRequest' \in Seq(Entry) /\ m_vtWaitRequest' \in Seq(Req)
              /\ pc' \in [Req -> {"idle", "waiting", "sent", "done"}]
              /\ call' \in [Req -> Nat] /\ \A x \in Req : call'[x] \in DOMAIN Calls[x]
              /\ step' \in [Req -> {"exec", "head", "field", "eof", "row"}]
  <2>2. r \in Req /\ Tail(m_vtRequest) \in Seq(Entry)
    BY <1>22 DEF TypeOK
  <2>3. ret' \in [Req -> {"none", "own", "foreign", "error", "fail", "nonet"}]
    <3>1. Verdict(r, of, next) \in {"none", "own", "foreign", "error", "fail", "nonet"}
      BY <1>22 DEF Verdict, TypeOK
    <3> QED BY <1>22, <3>1 DEF TypeOK, Takes
  <2>4. /\ doomed' \in BOOLEAN /\ wire' \in Seq(Packet) /\ unfit' \in BOOLEAN
        /\ m_vtRequest' \in Seq(Entry) /\ m_vtWaitRequest' \in Seq(Req)
        /\ pc' \in [Req -> {"idle", "waiting", "sent", "done"}]
        /\ call' \in [Req -> Nat] /\ \A x \in Req : call'[x] \in DOMAIN Calls[x]
        /\ step' \in [Req -> {"exec", "head", "field", "eof", "row"}]
    <3>1. CASE next \in Steps
      BY <1>22, <3>1 DEF TypeOK, Steps, Takes
    <3>2. CASE next \notin Steps /\ Chains(r, next)
      <4>1. call[r] + 1 \in DOMAIN Calls[r] /\ call[r] + 1 \in Nat
        <5>1. Calls[r] \in Seq({"exec", "query", "ping"}) /\ call[r] \in DOMAIN Calls[r]
          BY <2>2 DEF MysqlConstants, TypeOK
        <5>2. call[r] < Len(Calls[r]) /\ Len(Calls[r]) \in Nat /\ call[r] \in 1 .. Len(Calls[r])
          BY <3>2, <5>1 DEF Chains
        <5> QED BY <5>1, <5>2
      <4>2. CASE IsTransmit
        <5>1. SendRequest(r, call[r] + 1, Tail(m_vtRequest)) /\ UNCHANGED <<m_vtWaitRequest, doomed>>
          BY <1>22, <3>2, <4>2 DEF StatementEnds, Takes
        <5> QED BY <2>2, <4>1, <5>1, SendTypes DEF TypeOK
      <4>3. CASE ~IsTransmit
        <5>1. /\ Wait(r, call[r] + 1) /\ m_vtRequest' = Tail(m_vtRequest)
              /\ UNCHANGED <<wire, unfit, step, doomed>>
          BY <1>22, <3>2, <4>3 DEF StatementEnds, Takes
        <5>2. m_vtWaitRequest' \in Seq(Req)
          BY <2>2, <5>1 DEF Wait, TypeOK
        <5>3. call' \in [Req -> Nat] /\ \A x \in Req : call'[x] \in DOMAIN Calls[x]
          BY <2>2, <4>1, <5>1 DEF Wait, TypeOK
        <5>4. pc' \in [Req -> {"idle", "waiting", "sent", "done"}]
          BY <5>1 DEF Wait, TypeOK
        <5> QED BY <2>2, <5>1, <5>2, <5>3, <5>4 DEF TypeOK
      <4> QED BY <4>2, <4>3
    <3>3. CASE next \notin Steps /\ ~Chains(r, next)
      <4>1. /\ pc' = [pc EXCEPT ![r] = "done"] /\ m_vtRequest' = Tail(m_vtRequest)
            /\ UNCHANGED <<wire, unfit, m_vtWaitRequest, call, step>>
            /\ IF IsPing(r) /\ next = "error" THEN ErrorClose ELSE UNCHANGED doomed
        BY <1>22, <3>3 DEF StatementEnds, Takes
      <4>2. doomed' \in BOOLEAN
        BY <4>1 DEF ErrorClose, TypeOK
      <4> QED BY <2>2, <4>1, <4>2 DEF TypeOK
    <3> QED BY <3>1, <3>2, <3>3
  <2> QED BY <2>3, <2>4
<1>23. ASSUME m_vtRequest # <<>>, m_smRecvData # <<>>
       PROVE  /\ FrontData(m_vtRequest).req \in Req /\ step[FrontData(m_vtRequest).req] \in Steps
              /\ Tail(m_smRecvData) \in Seq(Packet)
  <2>1. m_vtRequest \in Seq(Entry) /\ m_smRecvData \in Seq(Packet)
    BY DEF TypeOK
  <2>2. Head(m_vtRequest) \in Entry /\ Tail(m_smRecvData) \in Seq(Packet)
    BY <2>1, <1>23
  <2>3. FrontData(m_vtRequest).req \in Req
    BY <2>2 DEF FrontData, Entry
  <2> QED BY <2>2, <2>3 DEF TypeOK, Steps
<1>7. ASSUME GetPacketYield PROVE TypeOK'
  <2>1. m_vtRequest # <<>> /\ m_smRecvData # <<>> /\ m_smRecvData' = Tail(m_smRecvData)
        /\ UNCHANGED <<conn, gen, inbox, overtaken, handler, snapshot, overlap>>
    BY <1>7 DEF GetPacketYield, IsPacketFull
  <2>2. PICK next \in NextStep(step[FrontData(m_vtRequest).req], Head(m_smRecvData).kind) :
          Takes(FrontData(m_vtRequest).req, Head(m_smRecvData).of, next)
    BY <1>7 DEF GetPacketYield
  <2>3. next \in Steps \cup {"own", "error", "fail"}
    BY <2>1, <2>2, <1>23, NextStepIs
  <2> QED BY <2>1, <2>2, <2>3, <1>22, <1>23 DEF TypeOK
<1>24. ASSUME GetGarbageYield PROVE TypeOK'
  <2>1. m_vtRequest # <<>> /\ m_smRecvData # <<>>
        /\ m_smRecvData' \in {Tail(m_smRecvData), m_smRecvData}
        /\ UNCHANGED <<conn, gen, inbox, overtaken, handler, snapshot, overlap>>
    BY <1>24 DEF GetGarbageYield, IsPacketFull
  <2>2. PICK next \in Steps \cup {"own", "error", "fail"} :
          Takes(FrontData(m_vtRequest).req, Head(m_smRecvData).of, next)
    BY <1>24 DEF GetGarbageYield
  <2> QED BY <2>1, <2>2, <1>22, <1>23 DEF TypeOK
<1>8. ASSUME ReceiveDataEnd \/ VerifiedEnd \/ OnTimerEnd \/ DisconnectEnd PROVE TypeOK'
  BY <1>8 DEF ReceiveDataEnd, VerifiedEnd, OnTimerEnd, DisconnectEnd, TypeOK
<1>9. ASSUME NEW k \in DOMAIN inbox, ReceiveMysqlDisconnect(k) \/ VerifySuccess(k) PROVE TypeOK'
  <2>1. inbox' \in Seq(Message) /\ overtaken' \in 0 .. MaxOvertaken
    BY <1>9, <1>21 DEF ReceiveMysqlDisconnect, VerifySuccess
  <2> QED BY <1>9, <2>1 DEF ReceiveMysqlDisconnect, VerifySuccess, TypeOK
<1>10. ASSUME FailRequest PROVE TypeOK'
  <2>1. snapshot # <<>> /\ snapshot = m_vtRequest
    BY <1>10 DEF FailRequest, LoopInv
  <2>2. Tail(snapshot) \in Seq(Entry) /\ Tail(m_vtRequest) \in Seq(Entry)
    BY <2>1 DEF TypeOK
  <2>3. /\ pc' \in [Req -> {"idle", "waiting", "sent", "done"}]
        /\ ret' \in [Req -> {"none", "own", "foreign", "error", "fail", "nonet"}]
    BY <1>10 DEF FailRequest, Finish, TypeOK
  <2> QED BY <1>10, <2>2, <2>3 DEF FailRequest, TypeOK
<1>11. ASSUME OnTimerClose PROVE TypeOK'
  BY <1>11 DEF OnTimerClose, ErrorClose, TypeOK
<1>12. ASSUME OnTimer PROVE TypeOK'
  <2>1. conn' \in {"closed", "connecting", "verify", "result", "verified", "up"}
        /\ gen' \in 1 .. MaxConn
    BY <1>12 DEF OnTimer, TypeOK, MysqlConstants
  <2> QED BY <1>12, <2>1 DEF OnTimer, TypeOK
<1>13. ASSUME NEW kind \in {"connect", "disconnect", "verified"}, NetMessage(kind)
       PROVE  inbox' \in Seq(Message) /\ UNCHANGED overtaken
  <2>1. [kind |-> kind, gen |-> gen] \in Message
    BY DEF TypeOK, Message
  <2> QED BY <1>13, <2>1 DEF NetMessage, TypeOK
<1>14. ASSUME OnConnect PROVE TypeOK'
  BY <1>13, <1>14 DEF OnConnect, TypeOK
<1>15. ASSUME OnDisconnect PROVE TypeOK'
  <2>1. inbox' \in Seq(Message) /\ wire' \in Seq(Packet) /\ UNCHANGED overtaken
    BY <1>13, <1>15 DEF OnDisconnect
  <2> QED BY <1>15, <2>1 DEF OnDisconnect, TypeOK
<1>16. ASSUME Transmit \/ ConnectFails PROVE TypeOK'
  BY <1>16 DEF Transmit, ConnectFails, TypeOK
<1>17. ASSUME NEW ok \in BOOLEAN, OnReceiveVerify(ok) PROVE TypeOK'
  BY <1>17 DEF OnReceiveVerify, ErrorClose, TypeOK
<1>18. ASSUME NEW ok \in BOOLEAN, OnReceiveVerifyResult(ok) PROVE TypeOK'
  <2>1. inbox' \in Seq(Message) /\ UNCHANGED overtaken
    BY <1>13, <1>18 DEF OnReceiveVerifyResult, TypeOK
  <2> QED BY <1>18, <2>1 DEF OnReceiveVerifyResult, ErrorClose, TypeOK
<1>19. ASSUME NEW n \in 0 .. Len(wire), NEW cut \in 0 .. 1, OnReceive(n, cut) PROVE TypeOK'
  BY <1>19, ReceiveTypes DEF OnReceive, TypeOK
<1>20. CASE UNCHANGED vars
  BY <1>20 DEF vars, TypeOK
<1> QED
  BY <1>1, <1>3, <1>4, <1>5, <1>6, <1>7, <1>8, <1>9, <1>10, <1>11, <1>12, <1>14, <1>15,
     <1>16, <1>17, <1>18, <1>19, <1>20, <1>24 DEF Next, CtxMessage, HandlerStep

LEMMA LoopStep ==
  ASSUME TypeOK, LoopInv, [Next]_vars
  PROVE  LoopInv'
<1> USE DEF requestVars, listVars, loopVars, ctxVars, LoopInv
<1>1. ASSUME NEW r \in Req, DispathBussinessMsg(r) PROVE LoopInv'
  BY <1>1 DEF DispathBussinessMsg
<1>2. ASSUME NEW k \in DOMAIN inbox,
             ReceiveMysqlConnect(k) \/ ReceiveData(k) \/ ReceiveMysqlDisconnect(k) \/ VerifySuccess(k)
      PROVE  LoopInv'
  BY <1>2 DEF ReceiveMysqlConnect, ReceiveData, ReceiveMysqlDisconnect, VerifySuccess, NextMessage
<1>3. ASSUME GetPacketYield \/ GetGarbageYield PROVE LoopInv'
  BY <1>3 DEF GetPacketYield, GetGarbageYield
<1>4. ASSUME FailRequest PROVE LoopInv'
  BY <1>4 DEF FailRequest
<1>5. ASSUME ReceiveDataEnd \/ DisconnectEnd \/ VerifiedEnd \/ OnTimerEnd \/ OnTimer PROVE LoopInv'
  BY <1>5 DEF ReceiveDataEnd, DisconnectEnd, VerifiedEnd, OnTimerEnd, OnTimer
<1>6. ASSUME VerifiedResume \/ OnTimerResume PROVE LoopInv'
  BY <1>6 DEF VerifiedResume, OnTimerResume, ResumeWaiter
<1>7. ASSUME UNCHANGED ctxVars \/ OnTimerClose PROVE LoopInv'
  BY <1>7 DEF OnTimerClose
<1>8. ASSUME OnConnect \/ Transmit \/ OnDisconnect \/ ConnectFails PROVE LoopInv'
  BY <1>7, <1>8 DEF OnConnect, Transmit, OnDisconnect, ConnectFails
<1>9. ASSUME NEW ok \in BOOLEAN, OnReceiveVerify(ok) \/ OnReceiveVerifyResult(ok) PROVE LoopInv'
  BY <1>7, <1>9 DEF OnReceiveVerify, OnReceiveVerifyResult
<1>10. ASSUME NEW n \in 0 .. Len(wire), NEW cut \in 0 .. 1, OnReceive(n, cut) PROVE LoopInv'
  BY <1>7, <1>10 DEF OnReceive
<1>11. CASE UNCHANGED vars
  BY <1>11 DEF vars
<1> QED
  BY <1>1, <1>2, <1>3, <1>4, <1>5, <1>6, <1>7, <1>8, <1>9, <1>10, <1>11
     DEF Next, CtxMessage, HandlerStep

(***************************************************************************)
(* The messages in the queue of the ctx.                                   *)
(***************************************************************************)
LEMMA MessageTaken ==
  ASSUME TypeOK, MessagesInv, inbox # <<>>, inbox' = Tail(inbox),
         UNCHANGED <<conn, gen, wire>>
  PROVE  /\ MessagesInv'
         /\ IF inbox[1].kind = "disconnect" THEN ~Fresh'
            ELSE Fresh' /\ Reading' = inbox[1].gen
<1>1. /\ Len(inbox) \in Nat /\ Len(inbox) # 0 /\ Len(inbox) = Len(inbox') + 1
      /\ \A k \in 1 .. Len(inbox') : inbox'[k] = inbox[k + 1]
      /\ Len(inbox') \in Nat /\ (inbox' # <<>> <=> Len(inbox') # 0)
  <2>1. Rest(Tail(inbox), inbox) /\ Len(inbox) \in Nat /\ Len(inbox) # 0
        /\ Tail(inbox) \in Seq(Message)
    BY MessageFacts
  <2>2. Len(Tail(inbox)) \in Nat /\ (Tail(inbox) = <<>> <=> Len(Tail(inbox)) = 0)
    BY <2>1, Elements
  <2> QED BY <2>1, <2>2 DEF Rest
<1>2. \A k \in 1 .. Len(inbox') : k + 1 \in 1 .. Len(inbox) /\ inbox'[k] = inbox[k + 1]
  BY <1>1
<1>3. ASSUME NEW k \in 1 .. Len(inbox')
      PROVE  /\ inbox'[k].gen <= gen'
             /\ inbox'[k].kind = "data" => inbox'[k].packets # <<>>
             /\ conn' = "connecting" => inbox'[k].gen < gen'
  BY <1>2 DEF MessagesInv
<1>4. ASSUME NEW k \in 1 .. Len(inbox'), NEW m \in 1 .. Len(inbox'), k < m
      PROVE  /\ inbox'[k].gen <= inbox'[m].gen
             /\ inbox'[k].kind = "disconnect" => inbox'[k].gen < inbox'[m].gen
  <2>1. k + 1 < m + 1
    BY <1>4
  <2> QED BY <2>1, <1>2 DEF MessagesInv
<1>5. ASSUME NEW k \in 1 .. Len(inbox') - 1
      PROVE  IF inbox'[k].kind = "disconnect" THEN inbox'[k + 1].kind = "connect"
             ELSE inbox'[k + 1].kind # "connect" /\ inbox'[k + 1].gen = inbox'[k].gen
  <2>1. k + 1 \in 1 .. Len(inbox) - 1 /\ k \in 1 .. Len(inbox') /\ k + 1 \in 1 .. Len(inbox')
    BY <1>1
  <2>2. IF inbox[k + 1].kind = "disconnect" THEN inbox[(k + 1) + 1].kind = "connect"
        ELSE inbox[(k + 1) + 1].kind # "connect" /\ inbox[(k + 1) + 1].gen = inbox[k + 1].gen
    BY <2>1 DEF MessagesInv
  <2> QED BY <2>1, <2>2, <1>2
<1>6. inbox' # <<>> => IF inbox'[Len(inbox')].kind = "disconnect"
                       THEN conn' \in {"closed", "connecting"}
                       ELSE conn' \notin {"closed", "connecting"} /\ inbox'[Len(inbox')].gen = gen'
  <2>1. inbox' # <<>> => inbox'[Len(inbox')] = inbox[Len(inbox)]
    BY <1>1
  <2> QED BY <2>1 DEF MessagesInv
<1>7. wire' # <<>> => conn' = "up"
  BY DEF MessagesInv
<1>11. ASSUME NEW k \in 1 .. Len(inbox'), NEW m \in 1 .. Len(inbox'), k < m,
              inbox'[k].gen # inbox'[m].gen
       PROVE  \E j \in k + 1 .. m : inbox'[j].kind = "connect"
  <2>1. /\ k + 1 \in 1 .. Len(inbox) /\ m + 1 \in 1 .. Len(inbox) /\ k + 1 < m + 1
        /\ inbox[k + 1].gen # inbox[m + 1].gen
    BY <1>2, <1>11
  <2>2. PICK j \in (k + 1) + 1 .. m + 1 : inbox[j].kind = "connect"
    BY <2>1 DEF MessagesInv
  <2>3. j - 1 \in k + 1 .. m /\ j - 1 \in 1 .. Len(inbox') /\ (j - 1) + 1 = j
    BY <1>1
  <2> QED BY <1>2, <2>2, <2>3
<1>8. MessagesInv'
  BY <1>3, <1>4, <1>5, <1>6, <1>7, <1>11 DEF MessagesInv
<1>9. CASE inbox' = <<>>
  <2>1. Len(inbox) = 1
    BY <1>1, <1>9
  <2>2. IF inbox[1].kind = "disconnect" THEN conn \in {"closed", "connecting"}
        ELSE conn \notin {"closed", "connecting"} /\ inbox[1].gen = gen
    BY <2>1 DEF MessagesInv
  <2> QED BY <1>8, <1>9, <2>2 DEF Fresh, Reading
<1>10. CASE inbox' # <<>>
  <2>1. 1 \in 1 .. Len(inbox) - 1 /\ inbox'[1] = inbox[1 + 1]
    BY <1>1, <1>10
  <2>2. IF inbox[1].kind = "disconnect" THEN inbox[1 + 1].kind = "connect"
        ELSE inbox[1 + 1].kind # "connect" /\ inbox[1 + 1].gen = inbox[1].gen
    BY <2>1 DEF MessagesInv
  <2> QED BY <1>8, <1>10, <2>1, <2>2 DEF Fresh, Reading
<1> QED BY <1>9, <1>10

LEMMA MessageMade ==
  ASSUME TypeOK, MessagesInv, NEW e, Longer(inbox', inbox, e), inbox' \in Seq(Message),
         e.gen = gen, gen' = gen, e.kind = "data" => e.packets # <<>>,
         wire' # <<>> => conn' = "up",
         \/ e.kind = "connect" /\ conn = "connecting" /\ conn' = "verify"
         \/ e.kind = "disconnect" /\ conn \notin {"closed", "connecting"} /\ conn' = "closed"
         \/ /\ e.kind \notin {"connect", "disconnect"}
            /\ conn \notin {"closed", "connecting"} /\ conn' \notin {"closed", "connecting"}
  PROVE  MessagesInv' /\ (Fresh' <=> Fresh) /\ Reading' = Reading
<1>1. /\ Len(inbox) \in Nat /\ Len(inbox') = Len(inbox) + 1 /\ inbox' # <<>>
      /\ \A k \in 1 .. Len(inbox) : k \in 1 .. Len(inbox') /\ inbox'[k] = inbox[k]
      /\ inbox'[Len(inbox')] = e /\ gen \in Nat
      /\ \A k \in 1 .. Len(inbox) : inbox[k].gen \in Nat
      /\ (inbox = <<>> <=> Len(inbox) = 0)
  <2>1. Len(inbox) \in Nat /\ Len(inbox') = Len(inbox) + 1 /\ inbox'[Len(inbox')] = e
        /\ (inbox = <<>> <=> Len(inbox) = 0) /\ gen \in Nat
    BY DEF Longer, TypeOK
  <2>2. \A k \in 1 .. Len(inbox) : k \in 1 .. Len(inbox') /\ inbox'[k] = inbox[k]
    BY <2>1 DEF Longer
  <2>3. ASSUME NEW k \in 1 .. Len(inbox) PROVE inbox[k].gen \in Nat
    <3>1. inbox[k] \in Message
      BY DEF TypeOK
    <3> QED BY <3>1 DEF Message
  <2>4. inbox' # <<>>
    BY <2>1
  <2> QED BY <2>1, <2>2, <2>3, <2>4
<1>2. ASSUME NEW k \in 1 .. Len(inbox')
      PROVE  k \in 1 .. Len(inbox) \/ k = Len(inbox')
  BY <1>1
<1>3. ASSUME NEW k \in 1 .. Len(inbox), inbox[k].kind = "disconnect"
      PROVE  inbox[k].gen < gen
  <2>1. CASE conn = "connecting"
    BY <2>1 DEF MessagesInv
  <2>2. CASE conn \notin {"closed", "connecting"}
    <3>1. Len(inbox) \in 1 .. Len(inbox) /\ inbox # <<>>
      BY <1>1
    <3>2. inbox[Len(inbox)].kind # "disconnect" /\ inbox[Len(inbox)].gen = gen
      BY <2>2, <3>1 DEF MessagesInv
    <3>3. k < Len(inbox)
      BY <1>1, <1>3, <3>2
    <3> QED BY <1>3, <3>1, <3>2, <3>3 DEF MessagesInv
  <2> QED BY <2>1, <2>2
<1>4. ASSUME NEW k \in 1 .. Len(inbox')
      PROVE  /\ inbox'[k].gen <= gen'
             /\ inbox'[k].kind = "data" => inbox'[k].packets # <<>>
             /\ conn' # "connecting"
  BY <1>1, <1>2 DEF MessagesInv
<1>5. ASSUME NEW k \in 1 .. Len(inbox'), NEW m \in 1 .. Len(inbox'), k < m
      PROVE  /\ inbox'[k].gen <= inbox'[m].gen
             /\ inbox'[k].kind = "disconnect" => inbox'[k].gen < inbox'[m].gen
  <2>1. k \in 1 .. Len(inbox) /\ inbox'[k] = inbox[k]
    BY <1>1, <1>2, <1>5
  <2>2. CASE m \in 1 .. Len(inbox)
    BY <1>1, <1>5, <2>1, <2>2 DEF MessagesInv
  <2>3. CASE m = Len(inbox')
    BY <1>1, <1>3, <2>1, <2>3 DEF MessagesInv
  <2> QED BY <2>2, <2>3, <1>2
<1>6. ASSUME NEW k \in 1 .. Len(inbox') - 1
      PROVE  IF inbox'[k].kind = "disconnect" THEN inbox'[k + 1].kind = "connect"
             ELSE inbox'[k + 1].kind # "connect" /\ inbox'[k + 1].gen = inbox'[k].gen
  <2>1. CASE k = Len(inbox)
    <3>1. inbox'[k + 1] = e /\ inbox'[k] = inbox[Len(inbox)] /\ inbox # <<>>
      BY <1>1, <2>1
    <3>2. IF inbox[Len(inbox)].kind = "disconnect" THEN conn \in {"closed", "connecting"}
          ELSE conn \notin {"closed", "connecting"} /\ inbox[Len(inbox)].gen = gen
      BY <3>1 DEF MessagesInv
    <3> QED BY <3>1, <3>2
  <2>2. CASE k # Len(inbox)
    <3>1. k \in 1 .. Len(inbox) - 1 /\ k \in 1 .. Len(inbox) /\ k + 1 \in 1 .. Len(inbox)
      BY <1>1, <2>2
    <3> QED BY <1>1, <3>1 DEF MessagesInv
  <2> QED BY <2>1, <2>2
<1>7. IF inbox'[Len(inbox')].kind = "disconnect" THEN conn' \in {"closed", "connecting"}
      ELSE conn' \notin {"closed", "connecting"} /\ inbox'[Len(inbox')].gen = gen'
  BY <1>1
<1>11. ASSUME NEW k \in 1 .. Len(inbox'), NEW m \in 1 .. Len(inbox'), k < m,
              inbox'[k].gen # inbox'[m].gen
       PROVE  \E j \in k + 1 .. m : inbox'[j].kind = "connect"
  <2>1. k \in 1 .. Len(inbox) /\ inbox'[k] = inbox[k]
    BY <1>1, <1>2, <1>11
  <2>2. CASE m \in 1 .. Len(inbox)
    <3>1. inbox[k].gen # inbox[m].gen
      BY <1>1, <1>11, <2>1, <2>2
    <3>2. PICK j \in k + 1 .. m : inbox[j].kind = "connect"
      BY <1>11, <2>1, <2>2, <3>1 DEF MessagesInv
    <3>3. j \in 1 .. Len(inbox)
      BY <2>1, <2>2
    <3> QED BY <1>1, <3>2, <3>3
  <2>3. CASE m = Len(inbox') /\ e.kind = "connect"
    BY <1>1, <1>11, <2>3
  <2>4. CASE m = Len(inbox') /\ e.kind # "connect"
    <3>1. /\ Len(inbox) \in 1 .. Len(inbox) /\ inbox # <<>>
          /\ inbox[Len(inbox)].gen = gen /\ inbox'[m].gen = gen
      BY <1>1, <2>1, <2>4 DEF MessagesInv
    <3>2. k < Len(inbox) /\ inbox[k].gen # inbox[Len(inbox)].gen
      <4>1. inbox[k].gen # inbox[Len(inbox)].gen
        BY <1>11, <2>1, <3>1
      <4> QED BY <1>1, <2>1, <4>1
    <3>3. PICK j \in k + 1 .. Len(inbox) : inbox[j].kind = "connect"
      BY <2>1, <3>1, <3>2 DEF MessagesInv
    <3>4. j \in 1 .. Len(inbox) /\ j \in k + 1 .. m
      BY <1>1, <2>1, <2>4
    <3> QED BY <1>1, <3>3, <3>4
  <2> QED BY <1>2, <2>2, <2>3, <2>4
<1>8. MessagesInv'
  <2>1. conn' # "connecting"
    OBVIOUS
  <2> QED BY <1>4, <1>5, <1>6, <1>7, <1>11, <2>1 DEF MessagesInv
<1>9. CASE inbox = <<>>
  <2>1. inbox'[1] = e
    BY <1>1, <1>9
  <2> QED BY <1>1, <1>8, <1>9, <2>1 DEF Fresh, Reading
<1>10. CASE inbox # <<>>
  <2>1. 1 \in 1 .. Len(inbox)
    BY <1>1, <1>10
  <2> QED BY <1>1, <1>8, <1>10, <2>1 DEF Fresh, Reading
<1> QED BY <1>9, <1>10

(* The session goes on without a message, or a connection is started.      *)
LEMMA NoMessage ==
  ASSUME TypeOK, MessagesInv, UNCHANGED inbox, wire' # <<>> => conn' = "up",
         \/ gen' = gen /\ conn' = conn
         \/ gen' = gen /\ conn \notin {"closed", "connecting"}
                       /\ conn' \notin {"closed", "connecting"}
         \/ gen' = gen /\ conn = "connecting" /\ conn' = "closed"
         \/ gen' = gen + 1 /\ conn = "closed" /\ conn' = "connecting"
  PROVE  /\ MessagesInv' /\ (Fresh' <=> Fresh)
         /\ gen' = gen \/ inbox # <<>> => Reading' = Reading
<1>1. gen \in Nat /\ \A k \in 1 .. Len(inbox) : inbox[k].gen \in Nat
  <2>1. ASSUME NEW k \in 1 .. Len(inbox) PROVE inbox[k].gen \in Nat
    <3>1. inbox[k] \in Message
      BY DEF TypeOK
    <3> QED BY <3>1 DEF Message
  <2> QED BY <2>1 DEF TypeOK
<1>2. \A k \in 1 .. Len(inbox) : inbox[k].gen <= gen' /\ (conn' = "connecting" => inbox[k].gen < gen')
  BY <1>1 DEF MessagesInv
<1>3. inbox # <<>> => IF inbox[Len(inbox)].kind = "disconnect"
                      THEN conn' \in {"closed", "connecting"}
                      ELSE conn' \notin {"closed", "connecting"} /\ inbox[Len(inbox)].gen = gen'
  BY DEF MessagesInv
<1>4. MessagesInv'
  BY <1>2, <1>3 DEF MessagesInv
<1> QED BY <1>4 DEF Fresh, Reading

(***************************************************************************)
(* The lists.                                                              *)
(***************************************************************************)
Waits(w, r) == \E i \in 1 .. Len(w) : w[i] = r

SameElse(q, w, p, u, r) ==
  /\ \A i \in 1 .. Len(q) : q[i].req # r => u[q[i].req] = p[q[i].req]
  /\ \A i \in 1 .. Len(w) : w[i] # r => u[w[i]] = p[w[i]]

LEMMA NotListed ==
  ASSUME NEW q, NEW w, NEW p, NEW r, ListsOK(q, w, p)
  PROVE  /\ p[r] # "sent" => ~Asks(q, r)
         /\ p[r] # "waiting" => ~Waits(w, r)
BY DEF ListsOK, Asks, Waits, SameElse

LEMMA ListSent ==
  ASSUME NEW q, NEW t, NEW w, NEW p, NEW r, NEW e, Len(q) \in Nat, Len(w) \in Nat,
         ListsOK(q, w, p), Longer(t, q, e), e.req = r, ~Asks(q, r), ~Waits(w, r),
         NEW u, u[r] = "sent", SameElse(q, w, p, u, r)
  PROVE  ListsOK(t, w, u)
<1>1. Len(t) = Len(q) + 1 /\ t[Len(q) + 1] = e /\ \A i \in 1 .. Len(q) : t[i] = q[i]
  BY DEF Longer
<1>2. ASSUME NEW i \in 1 .. Len(t)
      PROVE  \/ i \in 1 .. Len(q) /\ t[i] = q[i] /\ t[i].req # r /\ u[t[i].req] = "sent"
             \/ i = Len(q) + 1 /\ t[i].req = r /\ u[t[i].req] = "sent"
  <2>1. CASE i \in 1 .. Len(q)
    BY <1>1, <2>1 DEF Asks, ListsOK, SameElse
  <2>2. CASE i \notin 1 .. Len(q)
    <3>1. i = Len(q) + 1
      BY <1>1, <2>2
    <3> QED BY <3>1, <1>1
  <2> QED BY <2>1, <2>2
<1>3. Distinct(t)
  BY <1>2 DEF ListsOK, Distinct
<1>4. \A i \in 1 .. Len(w) : u[w[i]] = "waiting"
  BY DEF Waits, ListsOK, SameElse
<1> QED BY <1>2, <1>3, <1>4 DEF ListsOK

LEMMA ListWaits ==
  ASSUME NEW q, NEW w, NEW v, NEW p, NEW r, Len(q) \in Nat, Len(w) \in Nat,
         ListsOK(q, w, p), Longer(v, w, r), ~Asks(q, r), ~Waits(w, r),
         NEW u, u[r] = "waiting", SameElse(q, w, p, u, r)
  PROVE  ListsOK(q, v, u)
<1>1. Len(v) = Len(w) + 1 /\ v[Len(w) + 1] = r /\ \A i \in 1 .. Len(w) : v[i] = w[i]
  BY DEF Longer
<1>2. ASSUME NEW i \in 1 .. Len(v)
      PROVE  \/ i \in 1 .. Len(w) /\ v[i] = w[i] /\ v[i] # r /\ u[v[i]] = "waiting"
             \/ i = Len(w) + 1 /\ v[i] = r /\ u[v[i]] = "waiting"
  <2>1. CASE i \in 1 .. Len(w)
    BY <1>1, <2>1 DEF Waits, ListsOK, SameElse
  <2>2. CASE i \notin 1 .. Len(w)
    <3>1. i = Len(w) + 1
      BY <1>1, <2>2
    <3> QED BY <3>1, <1>1
  <2> QED BY <2>1, <2>2
<1>3. Single(v)
  BY <1>2 DEF ListsOK, Single
<1>4. \A i \in 1 .. Len(q) : u[q[i].req] = "sent"
  BY DEF Asks, ListsOK, SameElse
<1> QED BY <1>2, <1>3, <1>4 DEF ListsOK

LEMMA ListDone ==
  ASSUME NEW q, NEW w, NEW p, NEW r, ListsOK(q, w, p), ~Asks(q, r), ~Waits(w, r),
         NEW u, SameElse(q, w, p, u, r)
  PROVE  ListsOK(q, w, u)
BY DEF ListsOK, Asks, Waits, SameElse

LEMMA ListFront ==
  ASSUME NEW q, NEW t, NEW w, NEW p, Len(q) \in Nat, Len(t) \in Nat, Len(q) # 0,
         ListsOK(q, w, p), Rest(t, q)
  PROVE  ListsOK(t, w, p) /\ ~Asks(t, q[1].req) /\ ~Waits(w, q[1].req)
<1>1. Len(q) = Len(t) + 1 /\ \A i \in 1 .. Len(t) : t[i] = q[i + 1]
  BY DEF Rest
<1>2. \A i \in 1 .. Len(t) : i + 1 \in 1 .. Len(q) /\ t[i] = q[i + 1] /\ i + 1 # 1
  BY <1>1
<1>3. 1 \in 1 .. Len(q)
  OBVIOUS
<1>4. Distinct(t) /\ ~Asks(t, q[1].req)
  <2>1. \A i, j \in 1 .. Len(q) : q[i].req = q[j].req => i = j
    BY DEF ListsOK, Distinct
  <2>2. ASSUME NEW i \in 1 .. Len(t), NEW j \in 1 .. Len(t), t[i].req = t[j].req
        PROVE  i = j
    <3>1. i + 1 = j + 1
      BY <1>2, <2>1, <2>2
    <3> QED BY <3>1
  <2>3. \A i \in 1 .. Len(t) : t[i].req # q[1].req
    BY <1>2, <1>3, <2>1
  <2> QED BY <2>2, <2>3 DEF Distinct, Asks
<1>5. \A i \in 1 .. Len(t) : p[t[i].req] = "sent"
  BY <1>2 DEF ListsOK
<1>6. ~Waits(w, q[1].req)
  BY <1>3 DEF ListsOK, Waits
<1> QED BY <1>4, <1>5, <1>6 DEF ListsOK

LEMMA WaiterFront ==
  ASSUME NEW q, NEW w, NEW v, NEW p, Len(w) \in Nat, Len(v) \in Nat, Len(w) # 0,
         ListsOK(q, w, p), Rest(v, w)
  PROVE  ListsOK(q, v, p) /\ ~Asks(q, w[1]) /\ ~Waits(v, w[1])
<1>1. Len(w) = Len(v) + 1 /\ \A i \in 1 .. Len(v) : v[i] = w[i + 1]
  BY DEF Rest
<1>2. \A i \in 1 .. Len(v) : i + 1 \in 1 .. Len(w) /\ v[i] = w[i + 1] /\ i + 1 # 1
  BY <1>1
<1>3. 1 \in 1 .. Len(w)
  OBVIOUS
<1>4. Single(v) /\ ~Waits(v, w[1])
  <2>1. \A i, j \in 1 .. Len(w) : w[i] = w[j] => i = j
    BY DEF ListsOK, Single
  <2>2. ASSUME NEW i \in 1 .. Len(v), NEW j \in 1 .. Len(v), v[i] = v[j]
        PROVE  i = j
    <3>1. i + 1 = j + 1
      BY <1>2, <2>1, <2>2
    <3> QED BY <3>1
  <2>3. \A i \in 1 .. Len(v) : v[i] # w[1]
    BY <1>2, <1>3, <2>1
  <2> QED BY <2>2, <2>3 DEF Single, Waits
<1>5. \A i \in 1 .. Len(v) : p[v[i]] = "waiting"
  BY <1>2 DEF ListsOK
<1>6. ~Asks(q, w[1])
  BY <1>3 DEF ListsOK, Asks
<1> QED BY <1>4, <1>5, <1>6 DEF ListsOK

LEMMA SortedLonger ==
  ASSUME NEW q, NEW t, NEW e, NEW g \in Nat, Len(q) \in Nat, Sorted(q, g), Longer(t, q, e),
         e.gen = g
  PROVE  Sorted(t, g)
<1>1. Len(t) = Len(q) + 1 /\ t[Len(q) + 1] = e /\ \A i \in 1 .. Len(q) : t[i] = q[i]
  BY DEF Longer
<1>2. ASSUME NEW i \in 1 .. Len(t)
      PROVE  \/ i \in 1 .. Len(q) /\ t[i] = q[i]
             \/ i = Len(q) + 1 /\ t[i] = e
  <2>1. CASE i \in 1 .. Len(q)
    BY <1>1, <2>1
  <2>2. CASE i \notin 1 .. Len(q)
    <3>1. i = Len(q) + 1
      BY <1>1, <2>2
    <3> QED BY <3>1, <1>1
  <2> QED BY <2>1, <2>2
<1>3. \A i \in 1 .. Len(t) : t[i].gen <= g
  BY <1>2 DEF Sorted
<1>4. ASSUME NEW i \in 1 .. Len(t), NEW j \in 1 .. Len(t), i < j
      PROVE  t[i].gen <= t[j].gen
  <2>1. i \in 1 .. Len(q) /\ t[i] = q[i]
    BY <1>1, <1>2, <1>4
  <2> QED BY <1>2, <1>4, <2>1 DEF Sorted
<1> QED BY <1>3, <1>4 DEF Sorted

LEMMA SortedRest ==
  ASSUME NEW q, NEW t, NEW g, Len(q) \in Nat, Len(t) \in Nat, Sorted(q, g), Rest(t, q)
  PROVE  Sorted(t, g)
<1>1. Len(q) = Len(t) + 1 /\ \A i \in 1 .. Len(t) : t[i] = q[i + 1]
  BY DEF Rest
<1>2. \A i \in 1 .. Len(t) : i + 1 \in 1 .. Len(q) /\ t[i] = q[i + 1]
  BY <1>1
<1>3. ASSUME NEW i \in 1 .. Len(t), NEW j \in 1 .. Len(t), i < j
      PROVE  t[i].gen <= t[j].gen
  <2>1. i + 1 < j + 1
    BY <1>3
  <2> QED BY <1>2, <2>1 DEF Sorted
<1> QED BY <1>2, <1>3 DEF Sorted

LEMMA EntriesOf ==
  ASSUME NEW q \in Seq(Entry)
  PROVE  /\ Len(q) \in Nat
         /\ \A i \in 1 .. Len(q) : q[i].req \in Req /\ q[i].gen \in 1 .. MaxConn
<1>1. Len(q) \in Nat /\ \A i \in 1 .. Len(q) : q[i] \in Entry
  BY Elements
<1> QED BY <1>1 DEF Entry

LEMMA ListFacts ==
  ASSUME TypeOK
  PROVE  /\ m_vtRequest \in Seq(Entry) /\ Len(m_vtRequest) \in Nat
         /\ (m_vtRequest = <<>> <=> Len(m_vtRequest) = 0)
         /\ m_vtWaitRequest \in Seq(Req) /\ Len(m_vtWaitRequest) \in Nat
         /\ (m_vtWaitRequest = <<>> <=> Len(m_vtWaitRequest) = 0)
         /\ gen \in Nat /\ gen \in 1 .. MaxConn
         /\ \A i \in 1 .. Len(m_vtRequest) : /\ m_vtRequest[i].req \in Req
                                             /\ m_vtRequest[i].gen \in 1 .. MaxConn
         /\ \A i \in 1 .. Len(m_vtWaitRequest) : m_vtWaitRequest[i] \in Req
<1>1. m_vtRequest \in Seq(Entry) /\ m_vtWaitRequest \in Seq(Req) /\ gen \in 1 .. MaxConn
  BY DEF TypeOK
<1>2. /\ Len(m_vtRequest) \in Nat /\ (m_vtRequest = <<>> <=> Len(m_vtRequest) = 0)
      /\ Len(m_vtWaitRequest) \in Nat /\ (m_vtWaitRequest = <<>> <=> Len(m_vtWaitRequest) = 0)
      /\ \A i \in 1 .. Len(m_vtRequest) : m_vtRequest[i] \in Entry
      /\ \A i \in 1 .. Len(m_vtWaitRequest) : m_vtWaitRequest[i] \in Req
  BY <1>1, Elements
<1>3. gen \in Nat
  BY <1>1
<1> QED BY <1>1, <1>2, <1>3 DEF Entry

(* What a send does to the lists.                                          *)
LEMMA SendLists ==
  ASSUME TypeOK, NEW r \in Req, NEW n, NEW q \in Seq(Entry), NEW w \in Seq(Req),
         SendRequest(r, n, q), ListsOK(q, w, pc), ~Asks(q, r), ~Waits(w, r), Sorted(q, gen)
  PROVE  /\ Longer(m_vtRequest', q, [req |-> r, gen |-> gen])
         /\ ListsOK(m_vtRequest', w, pc')
         /\ Sorted(m_vtRequest', gen)
<1>1. [req |-> r, gen |-> gen] \in Entry
  BY DEF TypeOK, Entry
<1>2. Longer(m_vtRequest', q, [req |-> r, gen |-> gen])
  BY <1>1, AppendIsLonger DEF SendRequest
<1>3. pc' = [pc EXCEPT ![r] = "sent"] /\ pc \in [Req -> {"idle", "waiting", "sent", "done"}]
  BY DEF SendRequest, TypeOK
<1>4. /\ Len(q) \in Nat /\ Len(w) \in Nat
      /\ \A i \in 1 .. Len(q) : q[i].req \in Req
      /\ \A i \in 1 .. Len(w) : w[i] \in Req
  BY EntriesOf, Elements
<1>5. pc'[r] = "sent" /\ SameElse(q, w, pc, pc', r)
  BY <1>3, <1>4 DEF SameElse
<1>6. ListsOK(m_vtRequest', w, pc')
  BY <1>2, <1>4, <1>5, ListSent
<1>7. Sorted(m_vtRequest', gen)
  <2>1. gen \in Nat
    BY DEF TypeOK
  <2> QED BY <1>2, <1>4, <2>1, SortedLonger
<1> QED BY <1>2, <1>6, <1>7

(* What waiting does to them.                                              *)
LEMMA WaitLists ==
  ASSUME TypeOK, NEW r \in Req, NEW n, NEW q \in Seq(Entry),
         Wait(r, n), ListsOK(q, m_vtWaitRequest, pc), ~Asks(q, r), ~Waits(m_vtWaitRequest, r)
  PROVE  ListsOK(q, m_vtWaitRequest', pc')
<1> DEFINE w == m_vtWaitRequest
<1>1. w \in Seq(Req)
  BY DEF TypeOK
<1>2. Longer(w', w, r)
  BY <1>1, AppendIsLonger DEF Wait
<1>3. pc' = [pc EXCEPT ![r] = "waiting"] /\ pc \in [Req -> {"idle", "waiting", "sent", "done"}]
  BY DEF Wait, TypeOK
<1>4. /\ Len(q) \in Nat /\ Len(w) \in Nat
      /\ \A i \in 1 .. Len(q) : q[i].req \in Req
      /\ \A i \in 1 .. Len(w) : w[i] \in Req
  BY <1>1, EntriesOf, Elements
<1>5. pc'[r] = "waiting" /\ SameElse(q, w, pc, pc', r)
  BY <1>3, <1>4 DEF SameElse
<1> QED BY <1>2, <1>4, <1>5, ListWaits

LEMMA DoneLists ==
  ASSUME TypeOK, NEW r \in Req, NEW q \in Seq(Entry), NEW w \in Seq(Req),
         pc' = [pc EXCEPT ![r] = "done"], ListsOK(q, w, pc), ~Asks(q, r), ~Waits(w, r)
  PROVE  ListsOK(q, w, pc')
<1>1. pc \in [Req -> {"idle", "waiting", "sent", "done"}]
  BY DEF TypeOK
<1>2. /\ \A i \in 1 .. Len(q) : q[i].req \in Req
      /\ \A i \in 1 .. Len(w) : w[i] \in Req
  BY EntriesOf, Elements
<1>3. SameElse(q, w, pc, pc', r)
  BY <1>1, <1>2 DEF SameElse
<1> QED BY <1>3, ListDone

(* The front of either list is taken.                                      *)
LEMMA FrontLists ==
  ASSUME TypeOK, ListsInv, Sorted(m_vtRequest, gen), m_vtRequest # <<>>
  PROVE  /\ FrontData(m_vtRequest) = m_vtRequest[1] /\ m_vtRequest[1] \in Entry
         /\ m_vtRequest[1].req \in Req
         /\ Tail(m_vtRequest) \in Seq(Entry) /\ Rest(Tail(m_vtRequest), m_vtRequest)
         /\ ListsOK(Tail(m_vtRequest), m_vtWaitRequest, pc)
         /\ ~Asks(Tail(m_vtRequest), m_vtRequest[1].req)
         /\ ~Waits(m_vtWaitRequest, m_vtRequest[1].req)
         /\ Sorted(Tail(m_vtRequest), gen)
<1>1. m_vtRequest \in Seq(Entry) /\ Len(m_vtRequest) \in Nat /\ Len(m_vtRequest) # 0
  BY ListFacts
<1>2. /\ Tail(m_vtRequest) \in Seq(Entry) /\ Rest(Tail(m_vtRequest), m_vtRequest)
      /\ FrontData(m_vtRequest) = m_vtRequest[1] /\ m_vtRequest[1] \in Entry
  BY <1>1, TailIsRest DEF FrontData
<1>3. Len(Tail(m_vtRequest)) \in Nat
  BY <1>2
<1>4. m_vtRequest[1].req \in Req
  BY <1>2 DEF Entry
<1>5. /\ ListsOK(Tail(m_vtRequest), m_vtWaitRequest, pc)
      /\ ~Asks(Tail(m_vtRequest), m_vtRequest[1].req)
      /\ ~Waits(m_vtWaitRequest, m_vtRequest[1].req)
  BY <1>1, <1>2, <1>3, ListFront DEF ListsInv, LoopInv
<1>6. Sorted(Tail(m_vtRequest), gen)
  BY <1>1, <1>2, <1>3, SortedRest
<1> QED BY <1>2, <1>4, <1>5, <1>6

LEMMA FrontWaits ==
  ASSUME TypeOK, ListsInv, m_vtWaitRequest # <<>>
  PROVE  /\ Head(m_vtWaitRequest) \in Req /\ Tail(m_vtWaitRequest) \in Seq(Req)
         /\ ListsOK(m_vtRequest, Tail(m_vtWaitRequest), pc)
         /\ ~Asks(m_vtRequest, Head(m_vtWaitRequest))
         /\ ~Waits(Tail(m_vtWaitRequest), Head(m_vtWaitRequest))
<1>1. m_vtWaitRequest \in Seq(Req) /\ Len(m_vtWaitRequest) \in Nat /\ Len(m_vtWaitRequest) # 0
  BY ListFacts
<1>2. /\ Tail(m_vtWaitRequest) \in Seq(Req) /\ Rest(Tail(m_vtWaitRequest), m_vtWaitRequest)
      /\ Head(m_vtWaitRequest) = m_vtWaitRequest[1] /\ Head(m_vtWaitRequest) \in Req
  BY <1>1, TailIsRest
<1>3. Len(Tail(m_vtWaitRequest)) \in Nat
  BY <1>2
<1>4. /\ ListsOK(m_vtRequest, Tail(m_vtWaitRequest), pc)
      /\ ~Asks(m_vtRequest, m_vtWaitRequest[1])
      /\ ~Waits(Tail(m_vtWaitRequest), m_vtWaitRequest[1])
  BY <1>1, <1>2, <1>3, WaiterFront DEF ListsInv, LoopInv
<1> QED BY <1>2, <1>4

(***************************************************************************)
(* The steps of the ctx and of the session keep the first parts.           *)
(***************************************************************************)
LEMMA LongerCovered ==
  ASSUME NEW q, NEW t, NEW e, Len(q) \in Nat, Longer(t, q, e), e.gen = gen, conn = "up",
         \A i \in 1 .. Len(q) : Covered(q[i].gen)
  PROVE  \A i \in 1 .. Len(t) : Covered(t[i].gen)
<1> SUFFICES ASSUME NEW i \in 1 .. Len(t)
             PROVE  Covered(t[i].gen)
  OBVIOUS
<1>1. Len(t) = Len(q) + 1 /\ t[Len(q) + 1] = e /\ \A j \in 1 .. Len(q) : t[j] = q[j]
  BY DEF Longer
<1>2. i \in 1 .. Len(q) \/ i = Len(q) + 1
  BY <1>1
<1>3. CASE i \in 1 .. Len(q)
  BY <1>1, <1>3
<1>4. CASE i = Len(q) + 1
  BY <1>1, <1>4 DEF Covered
<1> QED BY <1>2, <1>3, <1>4

LEMMA RestCovered ==
  ASSUME NEW q, NEW t, Len(q) \in Nat, Len(t) \in Nat, Rest(t, q),
         \A i \in 1 .. Len(q) : Covered(q[i].gen)
  PROVE  \A i \in 1 .. Len(t) : Covered(t[i].gen)
<1>1. \A i \in 1 .. Len(t) : i + 1 \in 1 .. Len(q) /\ t[i] = q[i + 1]
  BY DEF Rest
<1> QED BY <1>1

(* A send at any place of the code that sends.                             *)
LEMMA SendKeeps ==
  ASSUME TypeOK, EntriesInv, handler # "disconnect", handler' # "disconnect", IsTransmit,
         NEW r \in Req, NEW n, NEW q \in Seq(Entry), NEW w \in Seq(Req),
         SendRequest(r, n, q), m_vtWaitRequest' = w,
         ListsOK(q, w, pc), ~Asks(q, r), ~Waits(w, r), Sorted(q, gen),
         \A i \in 1 .. Len(q) : Covered(q[i].gen),
         UNCHANGED <<conn, gen, inbox>>, handler' = "data" => Fresh
  PROVE  ListsInv' /\ EntriesInv'
<1>1. /\ Longer(m_vtRequest', q, [req |-> r, gen |-> gen])
      /\ ListsOK(m_vtRequest', w, pc')
      /\ Sorted(m_vtRequest', gen)
  BY SendLists
<1>2. ListsInv'
  BY <1>1 DEF ListsInv, LoopInv
<1>3. \A i \in 1 .. Len(m_vtRequest') : Covered(m_vtRequest'[i].gen)
  <2>1. Len(q) \in Nat /\ [req |-> r, gen |-> gen].gen = gen /\ conn = "up"
    BY DEF IsTransmit
  <2> QED BY <1>1, <2>1, LongerCovered
<1>4. \A i \in 1 .. Len(m_vtRequest') : Covered(m_vtRequest[i].gen)'
  BY <1>3 DEF Covered
<1>5. Fresh' <=> Fresh
  BY DEF Fresh
<1>6. Sorted(m_vtRequest, gen)'
  BY <1>1
<1> QED BY <1>2, <1>4, <1>5, <1>6 DEF EntriesInv

(* The list has become shorter, or stays, and nothing is sent.             *)
LEMMA NoSendKeeps ==
  ASSUME TypeOK, EntriesInv, handler # "disconnect", handler' # "disconnect",
         NEW q \in Seq(Entry), m_vtRequest' = q,
         ListsOK(q, m_vtWaitRequest', pc'), Sorted(q, gen),
         \A i \in 1 .. Len(q) : Covered(q[i].gen),
         UNCHANGED <<conn, gen, inbox>>, handler' = "data" => Fresh
  PROVE  ListsInv' /\ EntriesInv'
<1>1. ListsInv'
  BY DEF ListsInv, LoopInv
<1>2. \A i \in 1 .. Len(m_vtRequest') : Covered(m_vtRequest[i].gen)'
  BY DEF Covered
<1>3. Fresh' <=> Fresh
  BY DEF Fresh
<1>4. Sorted(m_vtRequest, gen)'
  OBVIOUS
<1> QED BY <1>1, <1>2, <1>3, <1>4 DEF EntriesInv

(* The lists stay; the handler may change, and messages are made.          *)
LEMMA ListsStay ==
  ASSUME TypeOK, ListsInv, EntriesInv, UNCHANGED <<m_vtRequest, m_vtWaitRequest, pc>>,
         gen <= gen', gen' \in Nat,
         \/ handler' = handler /\ snapshot' = snapshot
         \/ handler # "disconnect" /\ handler' \notin {"data", "disconnect"}
         \/ handler # "disconnect" /\ handler' = "data" /\ Fresh,
         Fresh' <=> Fresh,
         \A i \in 1 .. Len(m_vtRequest) :
           Covered(m_vtRequest[i].gen) => Covered(m_vtRequest[i].gen)'
  PROVE  ListsInv' /\ EntriesInv'
<1>1. ListsInv'
  BY DEF ListsInv, LoopInv
<1>2. Sorted(m_vtRequest, gen)'
  <2>1. \A i \in 1 .. Len(m_vtRequest) : m_vtRequest[i].gen \in Nat
    BY ListFacts
  <2>2. \A i \in 1 .. Len(m_vtRequest) : m_vtRequest[i].gen <= gen'
    BY <2>1, ListFacts DEF EntriesInv, Sorted
  <2> QED BY <2>2 DEF EntriesInv, Sorted
<1> QED BY <1>1, <1>2 DEF EntriesInv

LEMMA TakenKeeps ==
  ASSUME TypeOK, MessagesInv, ListsInv, EntriesInv, inbox # <<>>, inbox' = Tail(inbox),
         inbox[1].kind # "disconnect", handler = "none", handler' \notin {"disconnect"},
         UNCHANGED <<conn, gen, wire, m_vtRequest, m_vtWaitRequest, pc>>
  PROVE  ListsInv' /\ EntriesInv'
<1>1. ListsInv'
  BY DEF ListsInv, LoopInv
<1>2. ASSUME NEW i \in 1 .. Len(m_vtRequest)
      PROVE  Covered(m_vtRequest[i].gen)'
  <2>1. Covered(m_vtRequest[i].gen)
    BY DEF EntriesInv
  <2>2. CASE \E k \in 1 .. Len(inbox) : inbox[k].kind = "disconnect"
                                        /\ inbox[k].gen = m_vtRequest[i].gen
    <3>1. PICK k \in 1 .. Len(inbox) : inbox[k].kind = "disconnect"
                                       /\ inbox[k].gen = m_vtRequest[i].gen
      BY <2>2
    <3>2. k # 1
      BY <3>1
    <3>3. /\ Len(inbox) = Len(inbox') + 1 /\ Len(inbox) \in Nat /\ Len(inbox') \in Nat
          /\ \A j \in 1 .. Len(inbox') : inbox'[j] = inbox[j + 1]
      <4>1. Rest(Tail(inbox), inbox) /\ Tail(inbox) \in Seq(Message) /\ Len(inbox) \in Nat
        BY MessageFacts
      <4>2. Len(Tail(inbox)) \in Nat
        BY <4>1
      <4> QED BY <4>1, <4>2 DEF Rest
    <3>4. k - 1 \in 1 .. Len(inbox') /\ (k - 1) + 1 = k
      BY <3>2, <3>3
    <3>5. inbox'[k - 1] = inbox[k]
      BY <3>3, <3>4
    <3> QED BY <3>1, <3>4, <3>5 DEF Covered
  <2>3. CASE m_vtRequest[i].gen = gen /\ conn = "up"
    BY <2>3 DEF Covered
  <2> QED BY <2>1, <2>2, <2>3 DEF Covered
<1>3. handler' = "data" => Fresh'
  BY MessageTaken
<1>4. Sorted(m_vtRequest, gen)'
  BY DEF EntriesInv
<1> QED BY <1>1, <1>2, <1>3, <1>4 DEF EntriesInv

LEMMA StateStep ==
  ASSUME MysqlConstants, TypeOK, MessagesInv, ListsInv, EntriesInv, [Next]_vars,
         overtaken' = 0
  PROVE  MessagesInv' /\ ListsInv' /\ EntriesInv'
<1> USE DEF netVars, requestVars, listVars, loopVars, ghostVars, ctxVars, queueVars, LoopInv
<1>0. /\ ListsOK(m_vtRequest, m_vtWaitRequest, pc) /\ Sorted(m_vtRequest, gen)
      /\ m_vtRequest \in Seq(Entry) /\ m_vtWaitRequest \in Seq(Req)
      /\ handler # "disconnect" => \A i \in 1 .. Len(m_vtRequest) : Covered(m_vtRequest[i].gen)
      /\ wire # <<>> => conn = "up"
      /\ gen \in Nat
  BY ListFacts DEF ListsInv, LoopInv, EntriesInv, MessagesInv
<1>1. ASSUME NEW r \in Req, DispathBussinessMsg(r)
      PROVE  MessagesInv' /\ ListsInv' /\ EntriesInv'
  <2>1. /\ handler = "none" /\ pc[r] = "idle"
        /\ UNCHANGED <<conn, gen, inbox, handler>>
    BY <1>1 DEF DispathBussinessMsg
  <2>2. ~Asks(m_vtRequest, r) /\ ~Waits(m_vtWaitRequest, r)
    BY <1>0, <2>1, NotListed
  <2>3. CASE IsTransmit
    <3>1. SendRequest(r, 1, m_vtRequest) /\ UNCHANGED m_vtWaitRequest
      BY <1>1, <2>3 DEF DispathBussinessMsg
    <3>2. MessagesInv'
      BY <2>1, <2>3, NoMessage DEF IsTransmit
    <3> QED BY <1>0, <2>1, <2>2, <2>3, <3>1, <3>2, SendKeeps
  <2>4. CASE ~IsTransmit
    <3>1. wire' = wire /\ m_vtRequest' = m_vtRequest
      BY <1>1, <2>4 DEF DispathBussinessMsg
    <3>2. MessagesInv'
      BY <1>0, <2>1, <3>1, NoMessage
    <3>3. ListsOK(m_vtRequest, m_vtWaitRequest', pc')
      <4>1. CASE IsPing(r)
        <5>1. pc' = [pc EXCEPT ![r] = "done"] /\ m_vtWaitRequest' = m_vtWaitRequest
          BY <1>1, <2>4, <4>1 DEF DispathBussinessMsg, Finish
        <5> QED BY <1>0, <2>2, <5>1, DoneLists
      <4>2. CASE ~IsPing(r)
        <5>1. Wait(r, 1)
          BY <1>1, <2>4, <4>2 DEF DispathBussinessMsg
        <5> QED BY <1>0, <2>2, <5>1, WaitLists
      <4> QED BY <4>1, <4>2
    <3> QED BY <1>0, <2>1, <3>1, <3>2, <3>3, NoSendKeeps
  <2> QED BY <2>3, <2>4
<1>2. ASSUME ResumeWaiter, m_vtWaitRequest # <<>>, handler \in {"verified", "timer"},
             handler' = handler
      PROVE  MessagesInv' /\ ListsInv' /\ EntriesInv'
  <2> DEFINE r == Head(m_vtWaitRequest)
  <2>1. /\ r \in Req /\ Tail(m_vtWaitRequest) \in Seq(Req)
        /\ ListsOK(m_vtRequest, Tail(m_vtWaitRequest), pc)
        /\ ~Asks(m_vtRequest, r) /\ ~Waits(Tail(m_vtWaitRequest), r)
    BY <1>2, FrontWaits
  <2>2. m_vtWaitRequest' = Tail(m_vtWaitRequest) /\ UNCHANGED <<conn, gen, inbox>>
    BY <1>2 DEF ResumeWaiter
  <2>3. CASE IsTransmit
    <3>1. SendRequest(r, call[r], m_vtRequest)
      BY <1>2, <2>3 DEF ResumeWaiter
    <3>2. MessagesInv'
      BY <2>2, <2>3, NoMessage DEF IsTransmit
    <3> HIDE DEF r
    <3> QED BY <1>0, <1>2, <2>1, <2>2, <2>3, <3>1, <3>2, SendKeeps
  <2>4. CASE ~IsTransmit
    <3>1. /\ pc' = [pc EXCEPT ![r] = "done"] /\ UNCHANGED <<wire, m_vtRequest>>
      BY <1>2, <2>4 DEF ResumeWaiter, Finish
    <3>2. MessagesInv'
      BY <1>0, <2>2, <3>1, NoMessage
    <3>3. ListsOK(m_vtRequest, Tail(m_vtWaitRequest), pc')
      BY <1>0, <2>1, <3>1, DoneLists
    <3> QED BY <1>0, <1>2, <2>2, <3>1, <3>2, <3>3, NoSendKeeps
  <2> QED BY <2>3, <2>4
<1>3. ASSUME VerifiedResume PROVE MessagesInv' /\ ListsInv' /\ EntriesInv'
  BY <1>2, <1>3 DEF VerifiedResume, ResumeWaiter
<1>4. ASSUME OnTimerResume PROVE MessagesInv' /\ ListsInv' /\ EntriesInv'
  BY <1>2, <1>4 DEF OnTimerResume, ResumeWaiter
<1>5. ASSUME NEW k \in DOMAIN inbox, ReceiveMysqlConnect(k) \/ VerifySuccess(k) \/ ReceiveData(k)
      PROVE  MessagesInv' /\ ListsInv' /\ EntriesInv'
  <2>1. /\ inbox # <<>> /\ inbox' = Tail(inbox) /\ handler = "none"
        /\ inbox[1].kind # "disconnect" /\ handler' # "disconnect"
        /\ UNCHANGED <<conn, gen, wire, m_vtRequest, m_vtWaitRequest, pc>>
    <3>1. PICK kind \in {"connect", "verified", "data"} : NextMessage(kind, k)
      BY <1>5 DEF ReceiveMysqlConnect, VerifySuccess, ReceiveData
    <3>2. inbox # <<>> /\ inbox' = Tail(inbox) /\ inbox[1].kind = kind
      BY <3>1, InOrder
    <3>3. handler' # "disconnect" /\ handler = "none"
      BY <1>5 DEF ReceiveMysqlConnect, VerifySuccess, ReceiveData, NextMessage
    <3>4. UNCHANGED <<conn, gen, wire, m_vtRequest, m_vtWaitRequest, pc>>
      BY <1>5 DEF ReceiveMysqlConnect, VerifySuccess, ReceiveData
    <3> QED BY <3>1, <3>2, <3>3, <3>4
  <2> QED BY <2>1, MessageTaken, TakenKeeps
<1>6. ASSUME NEW k \in DOMAIN inbox, ReceiveMysqlDisconnect(k)
      PROVE  MessagesInv' /\ ListsInv' /\ EntriesInv'
  <2>1. /\ NextMessage("disconnect", k) /\ handler' = "disconnect"
        /\ snapshot' = m_vtRequest
        /\ UNCHANGED <<conn, gen, wire, m_vtRequest, m_vtWaitRequest, pc>>
    BY <1>6 DEF ReceiveMysqlDisconnect
  <2>2. inbox # <<>> /\ inbox' = Tail(inbox) /\ inbox[1].kind = "disconnect"
    BY <2>1, InOrder
  <2>3. MessagesInv' /\ ~Fresh'
    BY <2>1, <2>2, MessageTaken
  <2>4. ListsInv'
    BY <1>0, <2>1 DEF ListsInv, LoopInv
  <2>5. Sorted(m_vtRequest, gen)'
    BY <1>0, <2>1
  <2> QED BY <2>1, <2>3, <2>4, <2>5 DEF EntriesInv
<1>7. ASSUME GetPacketYield \/ GetGarbageYield PROVE MessagesInv' /\ ListsInv' /\ EntriesInv'
  <2> DEFINE r == FrontData(m_vtRequest).req
  <2>1. /\ m_vtRequest # <<>> /\ handler = "data"
        /\ UNCHANGED <<conn, gen, inbox, handler>>
    BY <1>7 DEF GetPacketYield, GetGarbageYield
  <2>2. /\ r \in Req /\ Tail(m_vtRequest) \in Seq(Entry)
        /\ ListsOK(Tail(m_vtRequest), m_vtWaitRequest, pc)
        /\ ~Asks(Tail(m_vtRequest), r) /\ ~Waits(m_vtWaitRequest, r)
        /\ Sorted(Tail(m_vtRequest), gen) /\ Rest(Tail(m_vtRequest), m_vtRequest)
    BY <1>0, <2>1, FrontLists
  <2>3. Fresh
    BY <2>1 DEF EntriesInv
  <2>4. \A i \in 1 .. Len(Tail(m_vtRequest)) : Covered(Tail(m_vtRequest)[i].gen)
    <3>1. Len(m_vtRequest) \in Nat /\ Len(Tail(m_vtRequest)) \in Nat
      BY <2>2, ListFacts, EntriesOf
    <3> QED BY <1>0, <2>1, <2>2, <3>1, RestCovered
  <2>5. PICK next :
          IF next \in Steps
          THEN UNCHANGED <<doomed, wire, unfit, listVars, pc, call>>
          ELSE StatementEnds(r, next)
    <3>1. PICK of, next : Takes(r, of, next)
      BY <1>7 DEF GetPacketYield, GetGarbageYield
    <3>2. IF next \in Steps THEN UNCHANGED <<doomed, wire, unfit, listVars, pc, call>>
          ELSE StatementEnds(r, next)
      BY <3>1 DEF Takes
    <3> QED BY <3>2
  <2>6. CASE next \in Steps
    <3>1. UNCHANGED <<wire, m_vtRequest, m_vtWaitRequest, pc>>
      BY <2>5, <2>6
    <3>2. MessagesInv'
      BY <1>0, <2>1, <3>1, NoMessage
    <3> QED BY <1>0, <2>1, <2>3, <3>1, <3>2, NoSendKeeps
  <2>7. CASE next \notin Steps /\ Chains(r, next) /\ IsTransmit
    <3>1. SendRequest(r, call[r] + 1, Tail(m_vtRequest)) /\ UNCHANGED m_vtWaitRequest
      BY <2>5, <2>7 DEF StatementEnds
    <3>2. MessagesInv'
      BY <2>1, <2>7, NoMessage DEF IsTransmit
    <3> HIDE DEF r
    <3> QED BY <1>0, <2>1, <2>2, <2>3, <2>4, <2>7, <3>1, <3>2, SendKeeps
  <2>8. CASE next \notin Steps /\ Chains(r, next) /\ ~IsTransmit
    <3>1. /\ Wait(r, call[r] + 1) /\ m_vtRequest' = Tail(m_vtRequest) /\ UNCHANGED wire
      BY <2>5, <2>8 DEF StatementEnds
    <3>2. MessagesInv'
      BY <1>0, <2>1, <3>1, NoMessage
    <3> HIDE DEF r
    <3>3. ListsOK(Tail(m_vtRequest), m_vtWaitRequest', pc')
      BY <2>2, <3>1, WaitLists
    <3> QED BY <2>1, <2>2, <2>3, <2>4, <3>1, <3>2, <3>3, NoSendKeeps
  <2>9. CASE next \notin Steps /\ ~Chains(r, next)
    <3>1. /\ pc' = [pc EXCEPT ![r] = "done"] /\ m_vtRequest' = Tail(m_vtRequest)
          /\ UNCHANGED <<wire, m_vtWaitRequest>>
      BY <2>5, <2>9 DEF StatementEnds
    <3>2. MessagesInv'
      BY <1>0, <2>1, <3>1, NoMessage
    <3> HIDE DEF r
    <3>3. ListsOK(Tail(m_vtRequest), m_vtWaitRequest, pc')
      BY <1>0, <2>2, <3>1, DoneLists
    <3> QED BY <2>1, <2>2, <2>3, <2>4, <3>1, <3>2, <3>3, NoSendKeeps
  <2> QED BY <2>6, <2>7, <2>8, <2>9
<1>8. ASSUME ReceiveDataEnd \/ VerifiedEnd \/ OnTimerEnd \/ OnTimerClose
      PROVE  MessagesInv' /\ ListsInv' /\ EntriesInv'
  <2>1. /\ handler # "disconnect" /\ handler' = "none"
        /\ UNCHANGED <<conn, gen, wire, inbox, m_vtRequest, m_vtWaitRequest, pc>>
    BY <1>8 DEF ReceiveDataEnd, VerifiedEnd, OnTimerEnd, OnTimerClose
  <2>2. MessagesInv'
    BY <1>0, <2>1, NoMessage
  <2> QED BY <1>0, <2>1, <2>2, NoSendKeeps
<1>9. ASSUME FailRequest PROVE MessagesInv' /\ ListsInv' /\ EntriesInv'
  <2>1. /\ handler = "disconnect" /\ snapshot = m_vtRequest /\ m_vtRequest # <<>>
        /\ snapshot' = Tail(snapshot) /\ m_vtRequest' = Tail(m_vtRequest)
        /\ pc' = [pc EXCEPT ![Head(snapshot).req] = "done"]
        /\ UNCHANGED <<conn, gen, wire, inbox, handler, m_vtWaitRequest>>
    BY <1>9 DEF FailRequest, Finish, ListsInv, LoopInv
  <2>2. /\ Head(snapshot).req = m_vtRequest[1].req /\ m_vtRequest[1].req \in Req
        /\ Tail(m_vtRequest) \in Seq(Entry)
        /\ ListsOK(Tail(m_vtRequest), m_vtWaitRequest, pc)
        /\ ~Asks(Tail(m_vtRequest), m_vtRequest[1].req)
        /\ ~Waits(m_vtWaitRequest, m_vtRequest[1].req)
        /\ Sorted(Tail(m_vtRequest), gen)
    BY <1>0, <2>1, FrontLists DEF FrontData
  <2>3. ListsOK(Tail(m_vtRequest), m_vtWaitRequest, pc')
    BY <1>0, <2>1, <2>2, DoneLists
  <2>4. MessagesInv' /\ (Fresh' <=> Fresh)
    BY <1>0, <2>1, NoMessage
  <2>5. ListsInv'
    BY <2>1, <2>3 DEF ListsInv, LoopInv
  <2>6. Sorted(m_vtRequest, gen)'
    BY <2>1, <2>2
  <2> QED BY <2>1, <2>4, <2>5, <2>6 DEF EntriesInv
<1>10. ASSUME DisconnectEnd PROVE MessagesInv' /\ ListsInv' /\ EntriesInv'
  <2>1. /\ m_vtRequest' = <<>> /\ handler' = "none"
        /\ UNCHANGED <<conn, gen, wire, inbox, m_vtWaitRequest, pc>>
    BY <1>10 DEF DisconnectEnd
  <2>2. MessagesInv'
    BY <1>0, <2>1, NoMessage
  <2>3. Len(m_vtRequest') = 0
    BY <2>1
  <2>4. ListsInv'
    BY <1>0, <2>1, <2>3 DEF ListsInv, LoopInv, ListsOK, Distinct
  <2> QED BY <2>1, <2>2, <2>3, <2>4 DEF EntriesInv, Sorted
<1>11. ASSUME OnTimer PROVE MessagesInv' /\ ListsInv' /\ EntriesInv'
  <2>1. /\ handler = "none" /\ handler' = "timer"
        /\ \/ gen' = gen /\ conn' = conn
           \/ gen' = gen + 1 /\ conn = "closed" /\ conn' = "connecting"
        /\ UNCHANGED <<wire, inbox, m_vtRequest, m_vtWaitRequest, pc>>
    BY <1>11 DEF OnTimer
  <2>2. MessagesInv' /\ (Fresh' <=> Fresh)
    BY <1>0, <2>1, NoMessage
  <2>3. ASSUME NEW i \in 1 .. Len(m_vtRequest), Covered(m_vtRequest[i].gen)
        PROVE  Covered(m_vtRequest[i].gen)'
    BY <2>1, <2>3 DEF Covered
  <2>4. gen <= gen' /\ gen' \in Nat
    BY <1>0, <2>1
  <2> QED BY <2>1, <2>2, <2>3, <2>4, ListsStay
<1>12. ASSUME NEW e, Longer(inbox', inbox, e), e.gen = gen, inbox' \in Seq(Message),
              e.kind = "data" => e.packets # <<>>, wire' # <<>> => conn' = "up",
              \/ e.kind = "connect" /\ conn = "connecting" /\ conn' = "verify"
              \/ e.kind = "disconnect" /\ conn \notin {"closed", "connecting"} /\ conn' = "closed"
              \/ /\ e.kind \notin {"connect", "disconnect"}
                 /\ conn \notin {"closed", "connecting"} /\ conn' \notin {"closed", "connecting"}
                 /\ conn = "up" => conn' = "up",
              UNCHANGED <<gen, ctxVars>>
       PROVE  MessagesInv' /\ ListsInv' /\ EntriesInv'
  <2>1. MessagesInv' /\ (Fresh' <=> Fresh)
    BY <1>12, MessageMade
  <2>2. /\ \A k \in 1 .. Len(inbox) : k \in 1 .. Len(inbox') /\ inbox'[k] = inbox[k]
        /\ Len(inbox') \in 1 .. Len(inbox') /\ inbox'[Len(inbox')] = e
    <3>1. Len(inbox) \in Nat
      BY DEF TypeOK
    <3> QED BY <1>12, <3>1 DEF Longer
  <2>3. ASSUME NEW i \in 1 .. Len(m_vtRequest), Covered(m_vtRequest[i].gen)
        PROVE  Covered(m_vtRequest[i].gen)'
    BY <1>12, <2>2, <2>3 DEF Covered
  <2> QED BY <1>0, <1>12, <2>1, <2>3, ListsStay
<1>13. ASSUME NEW kind \in {"connect", "disconnect", "verified"}, NetMessage(kind)
       PROVE  /\ Longer(inbox', inbox, [kind |-> kind, gen |-> gen]) /\ inbox' \in Seq(Message)
              /\ [kind |-> kind, gen |-> gen].gen = gen
              /\ [kind |-> kind, gen |-> gen].kind = kind
  <2>1. [kind |-> kind, gen |-> gen] \in Message
    BY DEF TypeOK, Message
  <2> QED BY <1>13, <2>1, AppendIsLonger DEF NetMessage, TypeOK
<1>14. ASSUME OnConnect PROVE MessagesInv' /\ ListsInv' /\ EntriesInv'
  <2>1. /\ conn = "connecting" /\ conn' = "verify" /\ NetMessage("connect")
        /\ UNCHANGED <<gen, wire, ctxVars>>
    BY <1>14 DEF OnConnect
  <2>2. wire' = <<>>
    BY <1>0, <2>1
  <2> QED BY <1>12, <1>13, <2>1, <2>2
<1>15. ASSUME OnDisconnect PROVE MessagesInv' /\ ListsInv' /\ EntriesInv'
  <2>1. /\ conn \notin {"closed", "connecting"} /\ conn' = "closed" /\ wire' = <<>>
        /\ NetMessage("disconnect") /\ UNCHANGED <<gen, ctxVars>>
    BY <1>15 DEF OnDisconnect
  <2> QED BY <1>12, <1>13, <2>1
<1>16. ASSUME conn \notin {"closed", "connecting"} => conn' \notin {"closed", "connecting"}
                                                     /\ (conn = "up" => conn' = "up"),
              conn \in {"closed", "connecting"} => conn' = conn \/ (conn = "connecting"
                                                                     /\ conn' = "closed"),
              UNCHANGED <<gen, wire, inbox, ctxVars>>
       PROVE  MessagesInv' /\ ListsInv' /\ EntriesInv'
  <2>1. MessagesInv' /\ (Fresh' <=> Fresh)
    BY <1>0, <1>16, NoMessage
  <2>3. ASSUME NEW i \in 1 .. Len(m_vtRequest), Covered(m_vtRequest[i].gen)
        PROVE  Covered(m_vtRequest[i].gen)'
    BY <1>16, <2>3 DEF Covered
  <2> QED BY <1>0, <1>16, <2>1, <2>3, ListsStay
<1>17. ASSUME Transmit \/ ConnectFails PROVE MessagesInv' /\ ListsInv' /\ EntriesInv'
  BY <1>16, <1>17 DEF Transmit, ConnectFails
<1>18. ASSUME NEW ok \in BOOLEAN, OnReceiveVerify(ok)
       PROVE  MessagesInv' /\ ListsInv' /\ EntriesInv'
  <2>1. conn = "verify" /\ conn' \in {"verify", "result"} /\ UNCHANGED <<gen, wire, inbox, ctxVars>>
    BY <1>18 DEF OnReceiveVerify
  <2> QED BY <1>16, <2>1
<1>19. ASSUME NEW ok \in BOOLEAN, OnReceiveVerifyResult(ok)
       PROVE  MessagesInv' /\ ListsInv' /\ EntriesInv'
  <2>1. conn = "result" /\ UNCHANGED <<gen, wire, ctxVars>>
    BY <1>19 DEF OnReceiveVerifyResult
  <2>2. wire' = <<>>
    BY <1>0, <2>1
  <2>3. CASE ok
    <3>1. conn' = "verified" /\ NetMessage("verified")
      BY <1>19, <2>3 DEF OnReceiveVerifyResult
    <3> QED BY <1>12, <1>13, <2>1, <2>2, <3>1
  <2>4. CASE ~ok
    <3>1. UNCHANGED <<conn, inbox>>
      BY <1>19, <2>4 DEF OnReceiveVerifyResult
    <3> QED BY <1>16, <2>1, <3>1
  <2> QED BY <2>3, <2>4
<1>20. ASSUME NEW n \in 0 .. Len(wire), NEW cut \in 0 .. 1, OnReceive(n, cut)
       PROVE  MessagesInv' /\ ListsInv' /\ EntriesInv'
  <2>1. conn = "up" /\ conn' = "up" /\ UNCHANGED <<gen, ctxVars>>
    BY <1>20 DEF OnReceive, IsTransmit
  <2>2. PICK packets \in Seq(Packet) :
          /\ Longer(inbox', inbox, [kind |-> "data", gen |-> gen, packets |-> packets])
          /\ IsTaken(packets, wire, n)
    BY <1>20, ReceiveTypes
  <2>3. packets # <<>> /\ inbox' \in Seq(Message)
    BY <1>20, <2>2, ReceiveTypes DEF IsTaken
  <2> DEFINE e == [kind |-> "data", gen |-> gen, packets |-> packets]
  <2>4. e.gen = gen /\ e.kind = "data" /\ e.packets # <<>> /\ Longer(inbox', inbox, e)
    BY <2>2, <2>3
  <2> HIDE DEF e
  <2> QED BY <1>12, <2>1, <2>3, <2>4
<1>21. CASE UNCHANGED vars
  <2>1. UNCHANGED <<gen, wire, inbox, ctxVars, conn>>
    BY <1>21 DEF vars
  <2> QED BY <1>16, <2>1
<1> QED
  BY <1>1, <1>3, <1>4, <1>5, <1>6, <1>7, <1>8, <1>9, <1>10, <1>11, <1>14, <1>15, <1>17,
     <1>18, <1>19, <1>20, <1>21 DEF Next, CtxMessage, HandlerStep

(***************************************************************************)
(* The streams.                                                            *)
(***************************************************************************)
LEMMA PacketsAre ==
  ASSUME NEW e \in Message, e.kind = "data"
  PROVE  e.packets \in Seq(Packet)
BY DEF Message

LEMMA PiecesAre ==
  ASSUME TypeOK, TypeOK', NEW h
  PROVE  /\ Len(inbox) \in Nat /\ Len(inbox') \in Nat
         /\ Pieces(h) \in [0 .. Len(inbox) + 1 -> Seq(Packet)]
         /\ \A k \in 0 .. Len(inbox) + 1 : Pieces(h)[k] = Piece(h, k)
         /\ Lens(Pieces(h), Len(inbox) + 1)
         /\ Pieces(h)' \in [0 .. Len(inbox') + 1 -> Seq(Packet)]
         /\ \A k \in 0 .. Len(inbox') + 1 : Pieces(h)'[k] = Piece(h, k)'
         /\ Lens(Pieces(h)', Len(inbox') + 1)
<1>1. Len(inbox) \in Nat /\ Len(inbox') \in Nat /\ <<>> \in Seq(Packet)
  BY DEF TypeOK
<1>2. ASSUME NEW k \in 0 .. Len(inbox) + 1 PROVE Piece(h, k) \in Seq(Packet)
  <2>1. CASE k = 0
    BY <2>1 DEF Piece, TypeOK
  <2>2. CASE k = Len(inbox) + 1
    BY <1>1, <2>2 DEF Piece, TypeOK
  <2>3. CASE k # 0 /\ k # Len(inbox) + 1
    <3>1. k \in 1 .. Len(inbox)
      BY <1>1, <2>3
    <3>2. inbox[k] \in Message
      BY <3>1 DEF TypeOK
    <3>3. inbox[k].kind = "data" => inbox[k].packets \in Seq(Packet)
      BY <3>2, PacketsAre
    <3> QED BY <1>1, <2>3, <3>3 DEF Piece
  <2> QED BY <2>1, <2>2, <2>3
<1>3. ASSUME NEW k \in 0 .. Len(inbox') + 1 PROVE Piece(h, k)' \in Seq(Packet)
  <2>1. CASE k = 0
    BY <2>1 DEF Piece, TypeOK
  <2>2. CASE k = Len(inbox') + 1
    BY <1>1, <2>2 DEF Piece, TypeOK
  <2>3. CASE k # 0 /\ k # Len(inbox') + 1
    <3>1. k \in 1 .. Len(inbox')
      BY <1>1, <2>3
    <3>2. inbox'[k] \in Message
      BY <3>1 DEF TypeOK
    <3>3. inbox'[k].kind = "data" => inbox'[k].packets \in Seq(Packet)
      BY <3>2, PacketsAre
    <3> QED BY <1>1, <2>3, <3>3 DEF Piece
  <2> QED BY <2>1, <2>2, <2>3
<1>4. /\ Pieces(h) \in [0 .. Len(inbox) + 1 -> Seq(Packet)]
      /\ \A k \in 0 .. Len(inbox) + 1 : Pieces(h)[k] = Piece(h, k)
  BY <1>2 DEF Pieces
<1>5. /\ Pieces(h)' \in [0 .. Len(inbox') + 1 -> Seq(Packet)]
      /\ \A k \in 0 .. Len(inbox') + 1 : Pieces(h)'[k] = Piece(h, k)'
  BY <1>3 DEF Pieces
<1>6. Lens(Pieces(h), Len(inbox) + 1)
  BY <1>4 DEF Lens
<1>7. Lens(Pieces(h)', Len(inbox') + 1)
  BY <1>5 DEF Lens
<1> QED BY <1>1, <1>4, <1>5, <1>6, <1>7

LEMMA StreamIs ==
  ASSUME NEW h, NEW s \in Seq(Packet),
         HasCut(s, Pieces(h)', Len(inbox') + 1, Session(h)'),
         InStep(s, m_vtRequest', call', step', h)
  PROVE  Stream(h)'
BY DEF Stream

(* Nothing is taken from a stream and nothing put to it.                   *)
LEMMA StreamStays ==
  ASSUME TypeOK, TypeOK', NEW h, Stream(h), UNCHANGED inbox, Pieces(h)' = Pieces(h),
         Session(h)' = "up" => Session(h) = "up", UNCHANGED m_vtRequest,
         \A i \in 1 .. Len(m_vtRequest) : /\ call'[m_vtRequest[i].req] = call[m_vtRequest[i].req]
                                          /\ step'[m_vtRequest[i].req] = step[m_vtRequest[i].req]
  PROVE  Stream(h)'
<1>1. PICK s \in Seq(Packet) : /\ HasCut(s, Pieces(h), Len(inbox) + 1, Session(h))
                               /\ InStep(s, m_vtRequest, call, step, h)
  BY DEF Stream
<1>2. HasCut(s, Pieces(h), Len(inbox) + 1, Session(h)')
  BY <1>1, CutLess
<1>3. Len(s) \in Nat /\ Len(m_vtRequest) \in Nat
  BY ListFacts
<1>4. InStep(s, m_vtRequest, call', step', h)
  BY <1>1, <1>3, OtherAsks
<1> QED BY <1>2, <1>4, StreamIs

LEMMA SamePieces ==
  ASSUME NEW h, UNCHANGED <<inbox, m_smRecvData>>, Fresh' <=> Fresh, Fresh => Reading' = Reading,
         (IF h = gen THEN wire ELSE <<>>)' = (IF h = gen THEN wire ELSE <<>>)
  PROVE  Pieces(h)' = Pieces(h)
<1>1. \A k : Piece(h, k)' = Piece(h, k)
  BY DEF Piece
<1> QED BY <1>1 DEF Pieces

(* A message without packets is made.                                      *)
LEMMA StreamTold ==
  ASSUME TypeOK, TypeOK', NEW h, Stream(h), NEW e, Longer(inbox', inbox, e), e.gen = gen,
         e.kind # "data" \/ h # gen, gen' = gen, Fresh' <=> Fresh, Reading' = Reading,
         \/ wire' = wire /\ (conn' = "up" => conn = "up")
         \/ wire' = <<>> /\ conn' # "up"
         \/ h # gen,
         UNCHANGED <<m_smRecvData, m_vtRequest, call, step>>
  PROVE  Stream(h)'
<1>1. PICK s \in Seq(Packet) : /\ HasCut(s, Pieces(h), Len(inbox) + 1, Session(h))
                               /\ InStep(s, m_vtRequest, call, step, h)
  BY DEF Stream
<1> DEFINE n == Len(inbox) + 1
           p == Pieces(h)
           t == Pieces(h)'
<1>2. /\ n \in Nat /\ n >= 1 /\ Len(inbox) \in Nat /\ Len(inbox') = n /\ Len(s) \in Nat
      /\ Lens(p, n) /\ Lens(t, n + 1)
      /\ \A k \in 0 .. n : p[k] = Piece(h, k)
      /\ \A k \in 0 .. n + 1 : t[k] = Piece(h, k)'
  <2>1. Len(inbox) \in Nat /\ Len(inbox') = Len(inbox) + 1
    BY PiecesAre DEF Longer
  <2> QED BY <2>1, PiecesAre
<1>3. ASSUME NEW k \in 0 .. n - 1 PROVE t[k] = p[k]
  <2>1. k # n /\ k # n + 1 /\ k \in 0 .. n /\ k \in 0 .. n + 1
    BY <1>2
  <2>2. k # 0 => inbox'[k] = inbox[k]
    BY <1>2 DEF Longer
  <2>3. Piece(h, k)' = Piece(h, k)
    BY <1>2, <2>1, <2>2 DEF Piece
  <2> QED BY <1>2, <2>1, <2>3
<1>4. Len(t[n]) = 0
  <2>1. n # 0 /\ n # n + 1 /\ n \in 0 .. n + 1 /\ Len(inbox') + 1 = n + 1
    BY <1>2
  <2>2. inbox'[n] = e
    BY DEF Longer
  <2>3. ASSUME NEW k, k = n PROVE Len(t[k]) = 0
    <3>1. Piece(h, k)' = <<>>
      BY <2>1, <2>2, <2>3 DEF Piece
    <3> QED BY <1>2, <2>1, <2>3, <3>1
  <2> QED BY <2>3
<1>5. /\ t[n + 1] = (IF h = gen THEN wire' ELSE <<>>)
      /\ p[n] = (IF h = gen THEN wire ELSE <<>>)
  <2>1. n # 0 /\ n + 1 # 0 /\ n \in 0 .. n /\ n + 1 \in 0 .. n + 1 /\ Len(inbox') + 1 = n + 1
    BY <1>2
  <2> QED BY <1>2, <2>1 DEF Piece
<1>6. \/ t[n + 1] = p[n] /\ (Session(h)' = "up" => Session(h) = "up")
      \/ Len(t[n + 1]) = 0 /\ Session(h)' # "up"
  BY <1>5 DEF Session
<1> HIDE DEF p, t
<1>7. HasCut(s, p, n, Session(h))
  BY <1>1 DEF p
<1> HIDE DEF n
<1>8. HasCut(s, t, n + 1, Session(h)')
  BY <1>2, <1>3, <1>4, <1>6, <1>7, CutMessage
<1>9. HasCut(s, Pieces(h)', Len(inbox') + 1, Session(h)')
  BY <1>2, <1>8 DEF t
<1> QED BY <1>1, <1>9, StreamIs

(* The statement is sent to the end of this connection's stream.           *)
LEMMA SendIs ==
  ASSUME MysqlConstants, TypeOK, NEW r \in Req, NEW n \in DOMAIN Calls[r],
         NEW q \in Seq(Entry), SendRequest(r, n, q), ~unfit'
  PROVE  /\ Longer(m_vtRequest', q, [req |-> r, gen |-> gen])
         /\ call'[r] = n
         /\ \A x \in Req : x # r => call'[x] = call[x] /\ step'[x] = step[x]
         /\ \E kinds \in Seq(PacketKind), a \in Seq(Packet) :
              /\ IsAnswer(a, kinds, Asking(r, n)) /\ Extended(wire', wire, a)
              /\ Untouched(a) /\ Reads(step'[r], kinds)
<1>1. Longer(m_vtRequest', q, [req |-> r, gen |-> gen])
  <2>1. [req |-> r, gen |-> gen] \in Entry
    BY DEF TypeOK, Entry
  <2> QED BY <2>1, AppendIsLonger DEF SendRequest
<1>2. /\ call'[r] = n /\ step'[r] = FirstStep(Calls[r][n])
      /\ \A x \in Req : x # r => call'[x] = call[x] /\ step'[x] = step[x]
  BY DEF SendRequest, TypeOK
<1> DEFINE of == [req |-> r, n |-> n]
           A(k) == [i \in DOMAIN k |-> [of |-> of, kind |-> k[i], cut |-> FALSE,
                                        todo |-> SubSeq(k, i, Len(k))]]
<1>3. PICK kinds \in Answers : /\ Calls[r][n] = "ping" => Len(kinds) = 1
                               /\ wire' = wire \o A(kinds)
                               /\ unfit' = (unfit \/ ~Fits(Calls[r][n], kinds))
  BY DEF SendRequest
<1>4. /\ kinds \in Seq(PacketKind) /\ kinds # <<>> /\ Len(kinds) # 0
      /\ \A i \in 1 .. Len(kinds) : kinds[i] \notin {"part", "garbage"}
  <2>1. kinds \in Seq(AnswerKind) /\ kinds # <<>>
    BY DEF MysqlConstants
  <2>2. \A i \in 1 .. Len(kinds) : kinds[i] \in AnswerKind
    BY <2>1, Elements
  <2>3. Len(kinds) # 0
    BY <2>1, Elements
  <2>4. \A i \in 1 .. Len(kinds) : kinds[i] \in PacketKind
    BY <2>2 DEF PacketKind
  <2>5. kinds \in Seq(PacketKind)
    BY <2>1, <2>4
  <2> QED BY <2>1, <2>2, <2>3, <2>5 DEF AnswerKind
<1>5. Reads(step'[r], kinds)
  <2>1. Calls[r][n] \in {"exec", "query", "ping"}
    <3>1. Calls[r] \in Seq({"exec", "query", "ping"})
      BY DEF MysqlConstants
    <3>2. DOMAIN Calls[r] = 1 .. Len(Calls[r])
      BY <3>1, Elements
    <3> QED BY <3>1, <3>2, Elements
  <2>2. Fits(Calls[r][n], kinds)
    BY <1>3
  <2> QED BY <1>2, <1>3, <2>1, <2>2 DEF MysqlConstants
<1>6. of \in Statement /\ of = Asking(r, n)
  <2>1. n \in Nat
    <3>1. Calls[r] \in Seq({"exec", "query", "ping"})
      BY DEF MysqlConstants
    <3> QED BY <3>1, Elements
  <2> QED BY <2>1 DEF Statement, Asking
<1> HIDE DEF of
<1>7. A(kinds) \in Seq(Packet)
  BY <1>4, <1>6, PacketsOf
<1>8. IsAnswer(A(kinds), kinds, of) /\ Untouched(A(kinds))
  <2>1. Len(A(kinds)) = Len(kinds) /\ DOMAIN kinds = 1 .. Len(kinds) /\ Len(kinds) \in Nat
    BY <1>4
  <2> QED BY <1>4, <2>1 DEF IsAnswer, Untouched
<1>9. Extended(wire', wire, A(kinds))
  BY <1>3, <1>7, ConcatIs DEF TypeOK
<1> HIDE DEF A
<1> QED BY <1>1, <1>2, <1>4, <1>5, <1>6, <1>7, <1>8, <1>9

LEMMA StreamSent ==
  ASSUME MysqlConstants, TypeOK, TypeOK', NEW h, conn = "up", UNCHANGED <<conn, gen, inbox>>,
         NEW r \in Req, NEW m \in DOMAIN Calls[r], NEW q \in Seq(Entry),
         SendRequest(r, m, q), ~unfit', ~Asks(q, r),
         NEW p \in [0 .. Len(inbox) + 1 -> Seq(Packet)],
         \A k \in 0 .. Len(inbox) : Piece(h, k)' = p[k],
         p[Len(inbox) + 1] = (IF h = gen THEN wire ELSE <<>>),
         NEW s \in Seq(Packet), HasCut(s, p, Len(inbox) + 1, Session(h)),
         InStep(s, q, call, step, h)
  PROVE  Stream(h)'
<1>1. PICK kinds \in Seq(PacketKind), a \in Seq(Packet) :
        /\ IsAnswer(a, kinds, Asking(r, m)) /\ Extended(wire', wire, a)
        /\ Untouched(a) /\ Reads(step'[r], kinds)
  BY SendIs
<1>0. PICK e : e = [req |-> r, gen |-> gen]
  OBVIOUS
<1>2. /\ Longer(m_vtRequest', q, e) /\ call'[r] = m
      /\ \A x \in Req : x # r => call'[x] = call[x] /\ step'[x] = step[x]
  BY <1>0, SendIs
<1>3. e.req = r /\ e.gen = gen
  BY <1>0
<1>4. /\ Len(s) \in Nat /\ Len(q) \in Nat /\ Len(a) \in Nat
      /\ \A i \in 1 .. Len(q) : q[i].req \in Req /\ q[i].req # r
  BY EntriesOf DEF Asks
<1>5. \A i \in 1 .. Len(q) : call'[q[i].req] = call[q[i].req] /\ step'[q[i].req] = step[q[i].req]
  BY <1>2, <1>4
<1>6. PICK n : n = Len(inbox) + 1
  OBVIOUS
<1>7. PICK t : t = Pieces(h)'
  OBVIOUS
<1>8. /\ n \in Nat /\ n >= 1 /\ Lens(p, n) /\ Lens(t, n) /\ Len(inbox') + 1 = n
      /\ \A k \in 0 .. n - 1 : t[k] = p[k]
      /\ t[n] = (IF h = gen THEN wire' ELSE <<>>) /\ p[n] = (IF h = gen THEN wire ELSE <<>>)
  <2>1. Len(inbox) \in Nat /\ Len(inbox') = Len(inbox)
    BY PiecesAre
  <2>2. n \in Nat /\ n >= 1 /\ Lens(t, n)
    BY <1>6, <1>7, <2>1, PiecesAre
  <2>3. Lens(p, n)
    BY <1>6 DEF Lens
  <2>4. \A k \in 0 .. n - 1 : t[k] = p[k]
    BY <1>6, <1>7, <2>1, PiecesAre
  <2>5. n \in 0 .. Len(inbox') + 1 /\ n # 0
    BY <1>6, <2>1
  <2>6. Piece(h, n)' = (IF h = gen THEN wire' ELSE <<>>)
    BY <1>6, <2>1, <2>5 DEF Piece
  <2>7. t[n] = Piece(h, n)'
    BY <1>7, <2>5, PiecesAre
  <2> QED BY <1>6, <2>1, <2>2, <2>3, <2>4, <2>6, <2>7
<1>9. Session(h)' = Session(h)
  BY DEF Session
<1>10. CASE h = gen
  <2>1. PICK u \in Seq(Packet) : u = s \o a
    BY ConcatIs
  <2>2. Extended(u, s, a) /\ Len(u) \in Nat
    BY <2>1, ConcatIs
  <2>3. HasCut(s, p, n, "up")
    BY <1>6, <1>10 DEF Session
  <2>4. \A i \in 1 .. Len(a) : a[i].kind \notin {"part", "garbage"} /\ ~a[i].cut
    BY <1>1 DEF Untouched
  <2>5. HasCut(u, t, n, "up")
    BY <1>1, <1>4, <1>8, <1>10, <2>2, <2>3, <2>4, CutSend
  <2>6. InStep(u, m_vtRequest', call', step', h)
    <3>1. Sent(s, u, a, q, m_vtRequest', e, h)
      BY <1>2, <1>3, <1>10, <2>2 DEF Sent
    <3>2. Promised(a, kinds, e, call', step')
      BY <1>1, <1>2, <1>3 DEF Promised
    <3>3. Agree(q, call, call', step, step')
      BY <1>5 DEF Agree
    <3> QED BY <1>4, <2>2, <3>1, <3>2, <3>3, AnswerPromised
  <2>7. HasCut(u, Pieces(h)', Len(inbox') + 1, Session(h)')
    BY <1>7, <1>8, <1>9, <1>10, <2>5 DEF Session
  <2> QED BY <2>6, <2>7, StreamIs
<1>11. CASE h # gen
  <2>1. t = p
    <3>1. \A k \in 0 .. n : t[k] = p[k]
      <4>1. \A k \in 0 .. n : k \in 0 .. n - 1 \/ k = n
        BY <1>8
      <4> QED BY <1>8, <1>11, <4>1
    <3>2. t \in [0 .. n -> Seq(Packet)]
      BY <1>6, <1>7, <1>8, PiecesAre
    <3> QED BY <1>6, <3>1, <3>2
  <2>2. InStep(s, m_vtRequest', call', step', h)
    BY <1>2, <1>3, <1>4, <1>5, <1>11, OtherAsks
  <2>3. HasCut(s, Pieces(h)', Len(inbox') + 1, Session(h)')
    BY <1>6, <1>7, <1>8, <1>9, <2>1
  <2> QED BY <2>2, <2>3, StreamIs
<1> QED BY <1>10, <1>11

(* A message that is no disconnect is taken.                               *)
LEMMA StreamTaken ==
  ASSUME MysqlConstants, TypeOK, TypeOK', MessagesInv, NEW h, Stream(h),
         inbox # <<>>, inbox' = Tail(inbox),
         inbox[1].kind # "disconnect", UNCHANGED <<conn, gen, wire, m_vtRequest, call, step>>,
         inbox[1].kind = "connect" => m_smRecvData' = <<>>,
         inbox[1].kind = "data" => m_smRecvData' \in AppendData(m_smRecvData, inbox[1].packets),
         inbox[1].kind \notin {"connect", "data"} => m_smRecvData' = m_smRecvData
  PROVE  Stream(h)'
<1>1. PICK s \in Seq(Packet) : /\ HasCut(s, Pieces(h), Len(inbox) + 1, Session(h))
                               /\ InStep(s, m_vtRequest, call, step, h)
  BY DEF Stream
<1>2. PICK n, p, t : n = Len(inbox) + 1 /\ p = Pieces(h) /\ t = Pieces(h)'
  OBVIOUS
<1>3. /\ n \in Nat /\ n >= 2 /\ Len(inbox') + 1 = n - 1 /\ Len(s) \in Nat
      /\ Lens(p, n) /\ Lens(t, n - 1)
      /\ \A k \in 0 .. n : p[k] = Piece(h, k)
      /\ \A k \in 0 .. n - 1 : t[k] = Piece(h, k)'
      /\ \A k \in 1 .. Len(inbox') : inbox'[k] = inbox[k + 1]
  <2>1. /\ Len(inbox) \in Nat /\ Len(inbox') \in Nat /\ Len(inbox) # 0
        /\ Len(inbox) = Len(inbox') + 1
        /\ \A k \in 1 .. Len(inbox') : inbox'[k] = inbox[k + 1]
    BY PiecesAre, MessageFacts DEF Rest
  <2> QED BY <1>2, <2>1, PiecesAre
<1>4. ASSUME NEW k \in 1 .. n - 1 PROVE t[k] = p[k + 1]
  <2>1. k # 0 /\ k + 1 # 0 /\ k \in 0 .. n - 1 /\ k + 1 \in 0 .. n
    BY <1>3
  <2>2. k = n - 1 <=> k + 1 = n
    BY <1>3
  <2>3. k # n - 1 => k \in 1 .. Len(inbox')
    BY <1>3
  <2>4. Piece(h, k)' = Piece(h, k + 1)
    BY <1>2, <1>3, <2>1, <2>2, <2>3 DEF Piece
  <2> QED BY <1>3, <2>1, <2>4
<1>5. /\ p[0] = (IF Fresh /\ h = Reading THEN m_smRecvData ELSE <<>>)
      /\ t[0] = (IF Fresh' /\ h = Reading' THEN m_smRecvData' ELSE <<>>)
      /\ p[1] = (IF inbox[1].kind = "data" /\ inbox[1].gen = h THEN inbox[1].packets ELSE <<>>)
  <2>1. 0 \in 0 .. n /\ 1 \in 0 .. n /\ 0 \in 0 .. n - 1 /\ 1 # 0 /\ 1 # Len(inbox) + 1
    BY <1>2, <1>3
  <2> QED BY <1>3, <2>1 DEF Piece
<1>6. /\ Fresh' /\ Reading' = inbox[1].gen /\ Reading = inbox[1].gen
      /\ (Fresh <=> inbox[1].kind # "connect")
  BY MessageTaken DEF Reading, Fresh
<1>7. HasCut(s, p, n, Session(h))
  BY <1>1, <1>2
<1>8. /\ m_smRecvData \in Seq(Packet)
      /\ inbox[1].kind = "data" => inbox[1].packets \in Seq(Packet) /\ inbox[1].packets # <<>>
  <2>1. 1 \in 1 .. Len(inbox)
    BY <1>2, <1>3
  <2> QED BY <2>1, MessageFacts DEF TypeOK, MessagesInv
<1>9. \/ Len(p[1]) = 0 /\ t[0] = p[0]
      \/ Len(p[1]) # 0 /\ IsJoin(t[0], p[0], p[1])
  <2>1. CASE inbox[1].kind = "data" /\ inbox[1].gen = h
    <3>1. /\ p[0] = m_smRecvData /\ p[1] = inbox[1].packets
          /\ t[0] \in AppendData(p[0], p[1])
      BY <1>5, <1>6, <2>1
    <3>2. Len(p[1]) # 0 /\ p[1] # <<>> /\ p[0] \in Seq(Packet) /\ p[1] \in Seq(Packet)
      BY <1>8, <2>1, <3>1
    <3>3. Continues(p[0], p[1])
      <4>1. /\ p[1][1].cut <=> EndsInPart(p[0])
            /\ EndsInPart(p[0]) => /\ p[1][1].of = p[0][Len(p[0])].of
                                   /\ p[1][1].todo = p[0][Len(p[0])].todo
        BY <1>3, <1>7, <3>2, CutRest
      <4>2. p[1][1].cut \in BOOLEAN /\ EndsInPart(p[0]) \in BOOLEAN
        <5>1. p[1][1] \in Packet
          BY <3>2
        <5> QED BY <5>1 DEF Packet, EndsInPart
      <4> QED BY <4>1, <4>2 DEF Continues
    <3> QED BY <3>1, <3>2, <3>3, AppendDataIs
  <2>2. CASE ~(inbox[1].kind = "data" /\ inbox[1].gen = h)
    <3>1. p[1] = <<>> /\ Len(p[1]) = 0
      BY <1>5, <2>2
    <3>2. t[0] = p[0]
      <4>1. CASE h # inbox[1].gen
        BY <1>5, <1>6, <4>1
      <4>2. CASE h = inbox[1].gen /\ inbox[1].kind = "connect"
        BY <1>5, <1>6, <4>2
      <4>3. CASE h = inbox[1].gen /\ inbox[1].kind # "connect"
        BY <1>5, <1>6, <2>2, <4>3
      <4> QED BY <4>1, <4>2, <4>3
    <3> QED BY <3>1, <3>2
  <2> QED BY <2>1, <2>2
<1>10. HasCut(s, t, n - 1, Session(h))
  BY <1>3, <1>4, <1>7, <1>9, CutShift
<1>11. Session(h)' = Session(h)
  BY DEF Session
<1>12. HasCut(s, Pieces(h)', Len(inbox') + 1, Session(h)')
  BY <1>2, <1>3, <1>10, <1>11
<1> QED BY <1>1, <1>12, StreamIs

(* Who is not in the list has nothing to come.                             *)
LEMMA NothingLeft ==
  ASSUME TypeOK, NEW h, Stream(h), \A i \in 1 .. Len(m_vtRequest) : m_vtRequest[i].gen # h
  PROVE  /\ h = gen => wire = <<>>
         /\ \A k \in 1 .. Len(inbox) : inbox[k].kind = "data" /\ inbox[k].gen = h
                                         => inbox[k].packets = <<>>
         /\ Fresh /\ h = Reading => m_smRecvData = <<>>
         /\ HasCut(<<>>, Pieces(h), Len(inbox) + 1, "up")
<1>1. PICK s \in Seq(Packet) : /\ HasCut(s, Pieces(h), Len(inbox) + 1, Session(h))
                               /\ InStep(s, m_vtRequest, call, step, h)
  BY DEF Stream
<1>2. Len(s) = 0 /\ Len(s) \in Nat
  BY <1>1, ListFacts, NothingComes
<1>3. PICK n, p : n = Len(inbox) + 1 /\ p = Pieces(h)
  OBVIOUS
<1>4. /\ Len(inbox) \in Nat
      /\ \A k \in 0 .. Len(inbox) + 1 : Piece(h, k) \in Seq(Packet)
      /\ n \in Nat /\ Lens(p, n)
      /\ \A k \in 0 .. n : p[k] = Piece(h, k)
  <2>1. Len(inbox) \in Nat
    BY DEF TypeOK
  <2>2. ASSUME NEW k \in 0 .. Len(inbox) + 1 PROVE Piece(h, k) \in Seq(Packet)
    <3>1. k # 0 /\ k # Len(inbox) + 1 => inbox[k] \in Message
      BY <2>1 DEF TypeOK
    <3>2. k # 0 /\ k # Len(inbox) + 1 /\ inbox[k].kind = "data" => inbox[k].packets \in Seq(Packet)
      BY <3>1, PacketsAre
    <3> QED BY <3>2 DEF Piece, TypeOK
  <2>3. \A k \in 0 .. n : p[k] = Piece(h, k)
    BY <1>3 DEF Pieces
  <2> QED BY <1>3, <2>1, <2>2, <2>3 DEF Lens
<1>5. \A k \in 0 .. n : Len(p[k]) = 0
  <2>1. HasCut(s, p, n, Session(h))
    BY <1>1, <1>3
  <2> QED BY <1>2, <1>4, <2>1, CutNothing
<1>6. \A k \in 0 .. Len(inbox) + 1 : Piece(h, k) = <<>>
  BY <1>3, <1>4, <1>5
<1>7. h = gen => wire = <<>>
  <2>1. Len(inbox) + 1 \in 0 .. Len(inbox) + 1 /\ Len(inbox) + 1 # 0
    BY <1>4
  <2> QED BY <1>6, <2>1 DEF Piece
<1>8. ASSUME NEW k \in 1 .. Len(inbox), inbox[k].kind = "data", inbox[k].gen = h
      PROVE  inbox[k].packets = <<>>
  <2>1. k \in 0 .. Len(inbox) + 1 /\ k # 0 /\ k # Len(inbox) + 1
    BY <1>4
  <2> QED BY <1>6, <1>8, <2>1 DEF Piece
<1>9. Fresh /\ h = Reading => m_smRecvData = <<>>
  <2>1. 0 \in 0 .. Len(inbox) + 1
    BY <1>4
  <2> QED BY <1>6, <2>1 DEF Piece
<1>10. HasCut(<<>>, p, n, "up")
  BY <1>4, <1>5, CutEmpty
<1> QED BY <1>3, <1>7, <1>8, <1>9, <1>10

(* A disconnect that takes only its own requests leaves a session that     *)
(* nothing was asked of.                                                   *)
LEMMA NothingAskedYet ==
  ASSUME TypeOK, MessagesInv, ListsInv, EntriesInv, \A h \in 1 .. MaxConn : Stream(h),
         inbox # <<>>, inbox[1].kind = "disconnect",
         \A i \in 1 .. Len(m_vtRequest) : m_vtRequest[i].gen = inbox[1].gen
  PROVE  /\ wire = <<>>
         /\ \A k \in 1 .. Len(inbox) : inbox[k].kind # "data"
         /\ \A i \in 1 .. Len(m_vtRequest) : m_vtRequest[i].gen = gen => conn = "closed"
<1>1. /\ Len(inbox) \in Nat /\ Len(inbox) # 0 /\ gen \in 1 .. MaxConn /\ gen \in Nat
      /\ 1 \in 1 .. Len(inbox) /\ Len(inbox) \in 1 .. Len(inbox)
      /\ \A k \in 1 .. Len(inbox) : inbox[k].gen \in 1 .. MaxConn /\ inbox[k].gen \in Nat
  <2>1. /\ Len(inbox) \in Nat /\ Len(inbox) # 0
        /\ \A k \in 1 .. Len(inbox) : inbox[k] \in Message
    BY Elements DEF TypeOK
  <2>2. \A m \in Message : m.gen \in 1 .. MaxConn /\ m.gen \in Nat
    BY DEF Message
  <2> QED BY <2>1, <2>2, ListFacts
<1>2. ASSUME NEW k \in 1 .. Len(inbox), k # 1 PROVE inbox[k].gen > inbox[1].gen
  BY <1>1, <1>2 DEF MessagesInv
<1>3. ASSUME NEW k \in 1 .. Len(inbox) PROVE inbox[k].kind # "data"
  <2>1. SUFFICES ASSUME inbox[k].kind = "data" PROVE FALSE
    OBVIOUS
  <2>2. k # 1 /\ inbox[k].gen # inbox[1].gen
    BY <1>1, <1>2, <2>1
  <2>3. inbox[k].packets = <<>>
    BY <1>1, <2>1, <2>2, NothingLeft
  <2> QED BY <2>1, <2>3 DEF MessagesInv
<1>4. Len(inbox) = 1 => conn \in {"closed", "connecting"}
  BY <1>1 DEF MessagesInv
<1>5. gen # inbox[1].gen \/ conn = "closed"
  <2>1. CASE Len(inbox) = 1
    BY <1>1, <1>4, <2>1 DEF MessagesInv
  <2>2. CASE Len(inbox) # 1
    <3>1. inbox[Len(inbox)].gen > inbox[1].gen /\ inbox[Len(inbox)].gen <= gen
      BY <1>1, <1>2, <2>2 DEF MessagesInv
    <3> QED BY <1>1, <3>1
  <2> QED BY <2>1, <2>2
<1>6. wire = <<>>
  <2>1. CASE conn = "up"
    BY <1>1, <1>5, <2>1, NothingLeft
  <2>2. CASE conn # "up"
    BY <2>2 DEF MessagesInv
  <2> QED BY <2>1, <2>2
<1> QED BY <1>3, <1>5, <1>6

(* What is left is dropped, and every stream is empty.                     *)
LEMMA StreamEmpty ==
  ASSUME TypeOK, TypeOK', NEW h, ~Fresh', wire' = <<>>, m_vtRequest' = <<>>,
         \A k \in 1 .. Len(inbox') : inbox'[k].kind # "data"
  PROVE  Stream(h)'
<1>1. PICK n, p : n = Len(inbox') + 1 /\ p = Pieces(h)'
  OBVIOUS
<1>2. n \in Nat /\ Len(inbox') \in Nat /\ \A k \in 0 .. n : p[k] = Piece(h, k)'
  BY <1>1, PiecesAre
<1>3. ASSUME NEW k \in 0 .. n PROVE Len(p[k]) = 0
  <2>1. k # 0 /\ k # n => k \in 1 .. Len(inbox')
    BY <1>1, <1>2
  <2>2. Piece(h, k)' = <<>>
    BY <1>1, <2>1 DEF Piece
  <2> QED BY <1>2, <2>2
<1>4. HasCut(<<>>, p, n, Session(h)')
  BY <1>2, <1>3, CutEmpty
<1>5. InStep(<<>>, m_vtRequest', call', step', h)
  <2>1. Len(m_vtRequest') = 0 /\ Len(<<>>) = 0
    OBVIOUS
  <2> QED BY <2>1, NothingAsked
<1>6. <<>> \in Seq(Packet)
  OBVIOUS
<1> QED BY <1>1, <1>4, <1>5, <1>6, StreamIs

(* What OnReceive moves to the queue stays in its stream.                  *)
LEMMA StreamReceived ==
  ASSUME TypeOK, TypeOK', MessagesInv, NEW h, Stream(h),
         NEW n \in 0 .. Len(wire), NEW cut \in 0 .. 1, OnReceive(n, cut),
         Fresh' <=> Fresh, Reading' = Reading
  PROVE  Stream(h)'
<1>1. PICK packets \in Seq(Packet) :
        /\ Longer(inbox', inbox, [kind |-> "data", gen |-> gen, packets |-> packets])
        /\ IsTaken(packets, wire, n) /\ IsLeft(wire', wire, n)
        /\ Len(packets) = n + 1 => wire'[1].cut /\ (n = 0 => ~wire[1].cut)
        /\ Len(packets) = n /\ Len(wire') # 0 => wire'[1].cut = wire[n + 1].cut
  BY ReceiveTypes
<1>2. PICK e : e = [kind |-> "data", gen |-> gen, packets |-> packets]
  OBVIOUS
<1>3. Longer(inbox', inbox, e) /\ e.gen = gen /\ e.kind = "data" /\ e.packets = packets
  BY <1>1, <1>2
<1>4. UNCHANGED <<conn, gen, m_smRecvData, m_vtRequest, call, step>>
  BY DEF OnReceive, ctxVars, loopVars, listVars, requestVars
<1>5. CASE h # gen
  BY <1>3, <1>4, <1>5, StreamTold
<1>6. CASE h = gen
  <2>1. PICK s \in Seq(Packet) : /\ HasCut(s, Pieces(h), Len(inbox) + 1, Session(h))
                                 /\ InStep(s, m_vtRequest, call, step, h)
    BY DEF Stream
  <2>2. PICK m, p, t : m = Len(inbox) + 1 /\ p = Pieces(h) /\ t = Pieces(h)'
    OBVIOUS
  <2>3. /\ m \in Nat /\ m >= 1 /\ Len(inbox) \in Nat /\ Len(inbox') = m /\ Len(s) \in Nat
        /\ Lens(p, m) /\ Lens(t, m + 1)
        /\ \A k \in 0 .. m : p[k] = Piece(h, k)
        /\ \A k \in 0 .. m + 1 : t[k] = Piece(h, k)'
    <3>1. Len(inbox) \in Nat /\ Len(inbox') = Len(inbox) + 1
      BY <1>3, PiecesAre DEF Longer
    <3> QED BY <2>2, <3>1, PiecesAre
  <2>4. ASSUME NEW k \in 0 .. m - 1 PROVE t[k] = p[k]
    <3>1. k # m /\ k # m + 1 /\ k \in 0 .. m /\ k \in 0 .. m + 1
      BY <2>3
    <3>2. k # 0 => inbox'[k] = inbox[k]
      BY <1>3, <2>2, <2>3 DEF Longer
    <3>3. Piece(h, k)' = Piece(h, k)
      BY <1>4, <2>2, <2>3, <3>1, <3>2 DEF Piece
    <3> QED BY <2>3, <3>1, <3>3
  <2>5. t[m] = packets
    <3>1. m # 0 /\ m # m + 1 /\ m \in 0 .. m + 1
      BY <2>3
    <3>2. inbox'[m] = e
      BY <1>3, <2>2 DEF Longer
    <3>3. Piece(h, m)' = packets
      BY <1>3, <1>4, <1>6, <2>3, <3>1, <3>2 DEF Piece
    <3> QED BY <2>3, <3>1, <3>3
  <2>6. t[m + 1] = wire' /\ p[m] = wire
    <3>1. m # 0 /\ m + 1 # 0 /\ m \in 0 .. m /\ m + 1 \in 0 .. m + 1
      BY <2>3
    <3>2. PICK k : k = m + 1
      OBVIOUS
    <3>3. Piece(h, k)' = wire'
      BY <1>4, <1>6, <2>3, <3>1, <3>2 DEF Piece
    <3>4. Piece(h, m) = wire
      BY <1>6, <2>2, <3>1 DEF Piece
    <3> QED BY <2>3, <3>1, <3>2, <3>3, <3>4
  <2>7. HasCut(s, p, m, Session(h))
    BY <2>1, <2>2
  <2>8. n \in Nat
    OBVIOUS
  <2>9. HasCut(s, t, m + 1, Session(h))
    BY <1>1, <2>3, <2>4, <2>5, <2>6, <2>7, <2>8, CutReceive
  <2>10. HasCut(s, Pieces(h)', Len(inbox') + 1, Session(h)')
    BY <1>4, <2>2, <2>3, <2>9 DEF Session
  <2> QED BY <1>4, <2>1, <2>10, StreamIs
<1> QED BY <1>5, <1>6

(***************************************************************************)
(* GetPacketYield.                                                         *)
(***************************************************************************)
(* The front of the list is of the connection that is read.                *)
LEMMA FrontIsReading ==
  ASSUME TypeOK, MessagesInv, ListsInv, EntriesInv, Stream(Reading), handler = "data",
         m_vtRequest # <<>>, IsPacketFull
  PROVE  m_vtRequest[1].gen = Reading /\ Reading \in 1 .. MaxConn
<1>1. PICK s \in Seq(Packet) : /\ HasCut(s, Pieces(Reading), Len(inbox) + 1, Session(Reading))
                               /\ InStep(s, m_vtRequest, call, step, Reading)
  BY DEF Stream
<1>2. Fresh /\ gen \in 1 .. MaxConn /\ gen \in Nat /\ Len(inbox) \in Nat
  BY ListFacts DEF EntriesInv, TypeOK
<1>3. Reading \in 1 .. MaxConn /\ Reading \in Nat /\ Reading <= gen
  <2>1. inbox # <<>> => inbox[1].gen \in 1 .. MaxConn /\ inbox[1].gen <= gen
    BY MessageFacts DEF MessagesInv
  <2>2. Reading \in 1 .. MaxConn /\ Reading <= gen
    BY <1>2, <2>1 DEF Reading
  <2>3. \A k \in 1 .. MaxConn : k \in Nat
    OBVIOUS
  <2> QED BY <2>2, <2>3
<1>4. Len(m_smRecvData) # 0 /\ Len(m_smRecvData) \in Nat /\ m_smRecvData[1].kind # "part"
  <2>1. m_smRecvData \in Seq(Packet) /\ m_smRecvData # <<>>
    BY DEF TypeOK, IsPacketFull
  <2>2. Head(m_smRecvData) = m_smRecvData[1]
    BY <2>1, TailIsRest
  <2> QED BY <2>1, <2>2, Elements DEF IsPacketFull
<1>5. Pieces(Reading)[0] = m_smRecvData
  <2>1. 0 \in 0 .. Len(inbox) + 1
    BY <1>2
  <2> QED BY <1>2, <2>1 DEF Pieces, Piece
<1>6. Len(s) # 0 /\ Len(s) \in Nat
  <2>1. PICK n, p, all : n = Len(inbox) + 1 /\ p = Pieces(Reading) /\ all = Session(Reading)
    OBVIOUS
  <2>2. n \in Nat /\ HasCut(s, p, n, all) /\ Len(s) \in Nat
    BY <1>1, <1>2, <2>1
  <2>3. Len(p[0]) \in Nat /\ Len(p[0]) # 0 /\ p[0][1].kind # "part"
    BY <1>4, <1>5, <2>1
  <2> QED BY <2>2, <2>3, CutFront
<1>7. PICK i \in 1 .. Len(m_vtRequest) : m_vtRequest[i].gen = Reading
  BY <1>1, <1>6 DEF InStep
<1>8. /\ 1 \in 1 .. Len(m_vtRequest) /\ m_vtRequest[1].gen \in Nat
      /\ m_vtRequest[1].gen <= Reading
  <2>1. Len(m_vtRequest) \in Nat /\ m_vtRequest[1].gen \in 1 .. MaxConn
    BY <1>7, ListFacts
  <2> QED BY <1>3, <1>7, <2>1 DEF EntriesInv, Sorted
<1>9. Reading <= m_vtRequest[1].gen
  <2>1. Covered(m_vtRequest[1].gen)
    BY <1>8 DEF EntriesInv
  <2>2. CASE \E k \in 1 .. Len(inbox) : inbox[k].gen = m_vtRequest[1].gen
    <3>1. PICK k \in 1 .. Len(inbox) : inbox[k].gen = m_vtRequest[1].gen
      BY <2>2
    <3>2. Reading = inbox[1].gen /\ 1 \in 1 .. Len(inbox)
      BY <1>2, <3>1 DEF Reading
    <3>3. k = 1 \/ 1 < k
      BY <1>2, <3>1
    <3> QED BY <1>3, <3>1, <3>2, <3>3 DEF MessagesInv
  <2> QED BY <1>3, <2>1, <2>2 DEF Covered
<1> QED BY <1>3, <1>8, <1>9

(* The front of what was received is taken, and for the front of the list. *)
LEMMA PacketLeaves ==
  ASSUME TypeOK, TypeOK', MessagesInv, ListsInv, EntriesInv, NEW h, Stream(h),
         handler = "data", m_vtRequest # <<>>, IsPacketFull, m_vtRequest[1].gen = Reading,
         UNCHANGED <<conn, gen, inbox>>, m_smRecvData' = Tail(m_smRecvData),
         NEW next \in NextStep(step[m_vtRequest[1].req], m_smRecvData[1].kind)
  PROVE  /\ h = Reading => m_smRecvData[1].of = Asking(m_vtRequest[1].req,
                                                       call[m_vtRequest[1].req])
         /\ \E s \in Seq(Packet), p \in [0 .. Len(inbox) + 1 -> Seq(Packet)] :
              /\ HasCut(s, p, Len(inbox) + 1, Session(h))
              /\ \A k \in 0 .. Len(inbox) : Piece(h, k)' = p[k]
              /\ p[Len(inbox) + 1] = (IF h = gen THEN wire ELSE <<>>)
              /\ IF next \in Steps
                 THEN step' = [step EXCEPT ![m_vtRequest[1].req] = next]
                        => InStep(s, m_vtRequest, call, step', h)
                 ELSE InStep(s, Tail(m_vtRequest), call, step, h)
<1>1. PICK s \in Seq(Packet) : /\ HasCut(s, Pieces(h), Len(inbox) + 1, Session(h))
                               /\ InStep(s, m_vtRequest, call, step, h)
  BY DEF Stream
<1>2. PICK n, p, q, r : /\ n = Len(inbox) + 1 /\ p = Pieces(h) /\ q = m_vtRequest
                        /\ r = m_vtRequest[1].req
  OBVIOUS
<1>3. /\ n \in Nat /\ n >= 1 /\ Len(inbox) \in Nat /\ Len(inbox') = Len(inbox) /\ Len(s) \in Nat
      /\ p \in [0 .. n -> Seq(Packet)] /\ Lens(p, n)
      /\ \A k \in 0 .. n : p[k] = Piece(h, k)
  BY <1>2, PiecesAre
<1>4. /\ Fresh /\ Fresh' /\ Reading' = Reading
      /\ p[0] = (IF h = Reading THEN m_smRecvData ELSE <<>>)
      /\ Piece(h, 0)' = (IF h = Reading THEN Tail(m_smRecvData) ELSE <<>>)
      /\ p[n] = (IF h = gen THEN wire ELSE <<>>)
  <2>1. Fresh /\ Fresh' /\ Reading' = Reading
    BY DEF EntriesInv, Fresh, Reading
  <2>2. 0 \in 0 .. n /\ n \in 0 .. n /\ n # 0
    BY <1>3
  <2> QED BY <1>2, <1>3, <2>1, <2>2 DEF Piece
<1>5. ASSUME NEW k \in 1 .. Len(inbox) PROVE Piece(h, k)' = p[k]
  <2>1. k # 0 /\ k # Len(inbox) + 1 /\ k \in 0 .. n
    BY <1>2, <1>3
  <2> QED BY <1>3, <2>1 DEF Piece
<1>6. /\ m_smRecvData \in Seq(Packet) /\ m_smRecvData # <<>> /\ Len(m_smRecvData) # 0
      /\ m_smRecvData[1].kind # "part" /\ Rest(Tail(m_smRecvData), m_smRecvData)
      /\ Tail(m_smRecvData) \in Seq(Packet)
  <2>1. m_smRecvData \in Seq(Packet) /\ m_smRecvData # <<>>
    BY DEF TypeOK, IsPacketFull
  <2>2. Head(m_smRecvData) = m_smRecvData[1]
    BY <2>1, TailIsRest
  <2> QED BY <2>1, <2>2, TailIsRest, Elements DEF IsPacketFull
<1>7. /\ Len(q) \in Nat /\ Len(q) # 0 /\ Distinct(q) /\ q[1].gen = Reading /\ q[1].req = r
      /\ Rest(Tail(q), q) /\ Len(Tail(q)) \in Nat
      /\ \A i \in 2 .. Len(q) : q[i].req # r
      /\ \A i \in 1 .. Len(q) : q[i].req \in Req
  <2>1. q \in Seq(Entry) /\ q # <<>> /\ Distinct(q)
    BY <1>2 DEF TypeOK, ListsInv, ListsOK
  <2>2. /\ Len(q) \in Nat /\ Len(q) # 0 /\ Rest(Tail(q), q) /\ Len(Tail(q)) \in Nat
        /\ \A i \in 1 .. Len(q) : q[i].req \in Req
    BY <2>1, TailIsRest, EntriesOf, Elements
  <2>3. ASSUME NEW i \in 2 .. Len(q) PROVE q[i].req # q[1].req
    <3>1. i \in 1 .. Len(q) /\ 1 \in 1 .. Len(q) /\ i # 1
      BY <2>2
    <3> QED BY <2>1, <3>1 DEF Distinct
  <2> QED BY <1>2, <2>1, <2>2, <2>3
<1>8. HasCut(s, p, n, Session(h)) /\ InStep(s, q, call, step, h)
  BY <1>1, <1>2
<1>9. CASE h = Reading
  <2>1. /\ Len(s) # 0 /\ m_smRecvData[1].of = s[1].of /\ m_smRecvData[1].kind = s[1].kind
    <3>1. Len(p[0]) \in Nat /\ Len(p[0]) # 0 /\ p[0][1].kind # "part"
      BY <1>4, <1>6, <1>9
    <3>2. Len(s) # 0 /\ p[0][1].of = s[1].of /\ p[0][1].kind = s[1].kind
      BY <1>3, <1>8, <3>1, CutFront
    <3> QED BY <1>4, <1>9, <3>2
  <2>2. s[1].of = Asking(r, call[r])
    <3>1. PICK c, st : c = call /\ st = step
      OBVIOUS
    <3>2. InStep(s, q, c, st, h) /\ q[1].gen = h
      BY <3>1, <1>7, <1>8, <1>9
    <3>3. Len(s) \in Nat /\ Len(q) \in Nat /\ Len(q) # 0 /\ Distinct(q)
      BY <1>3, <1>7
    <3>4. s[1].of = Asking(q[1].req, c[q[1].req])
      BY <3>2, <3>3, FrontIsAsked
    <3> QED BY <3>1, <3>4, <1>7
  <2>3. PICK v \in Seq(Packet) : v = Tail(s) /\ Rest(v, s) /\ Len(v) \in Nat
    <3>1. s # <<>>
      BY <2>1
    <3>2. Tail(s) \in Seq(Packet) /\ Rest(Tail(s), s)
      BY <3>1, TailIsRest
    <3>3. Len(Tail(s)) \in Nat
      BY <3>2
    <3> QED BY <3>2, <3>3
  <2>4. PICK t \in [0 .. n -> Seq(Packet)] :
           t = [k \in 0 .. n |-> IF k = 0 THEN Tail(m_smRecvData) ELSE p[k]]
    BY <1>3, <1>6
  <2>5. /\ t[0] = Tail(m_smRecvData) /\ \A k \in 1 .. n : t[k] = p[k]
    BY <1>3, <2>4
  <2>6. HasCut(v, t, n, Session(h))
    <3>1. Lens(t, n)
      BY <2>4 DEF Lens
    <3>2. Len(p[0]) # 0 /\ p[0][1].kind # "part" /\ Rest(t[0], p[0])
      BY <1>4, <1>6, <1>9, <2>5
    <3> QED BY <1>3, <1>8, <2>3, <2>5, <3>1, <3>2, CutTake
  <2>7. ASSUME NEW k \in 0 .. Len(inbox) PROVE Piece(h, k)' = t[k]
    <3>1. k = 0 \/ (k \in 1 .. Len(inbox) /\ k \in 1 .. n)
      BY <1>2, <1>3
    <3>2. CASE k = 0
      BY <1>4, <1>9, <2>5, <3>2
    <3>3. CASE k \in 1 .. Len(inbox) /\ k \in 1 .. n
      BY <1>5, <2>5, <3>3
    <3> QED BY <3>1, <3>2, <3>3
  <2>8. t[n] = (IF h = gen THEN wire ELSE <<>>)
    <3>1. n \in 1 .. n
      BY <1>3
    <3> QED BY <1>4, <2>5, <3>1
  <2>9. next \in NextStep(step[q[1].req], s[1].kind)
    BY <1>2, <2>1
  <2>10. ASSUME next \in Steps, step' = [step EXCEPT ![r] = next]
         PROVE  InStep(v, q, call, step', h)
    <3>1. r \in Req /\ 1 \in 1 .. Len(q)
      <4>1. 1 \in 1 .. Len(q)
        BY <1>7
      <4> QED BY <1>7, <4>1
    <3>2. step'[q[1].req] = next
      BY <1>7, <2>10, <3>1 DEF TypeOK
    <3>3. ASSUME NEW i \in 2 .. Len(q)
          PROVE  step'[q[i].req] = step[q[i].req]
      <4>1. q[i].req \in Req /\ q[i].req # r
        <5>1. i \in 1 .. Len(q)
          BY <1>7
        <5> QED BY <5>1, <1>7
      <4> QED BY <4>1, <2>10 DEF TypeOK
    <3>4. PICK c, st, su : c = call /\ st = step /\ su = step'
      OBVIOUS
    <3>5. next \in NextStep(st[q[1].req], s[1].kind) /\ InStep(s, q, c, st, h)
      BY <1>8, <2>9, <3>4
    <3>6. su[q[1].req] = next /\ \A i \in 2 .. Len(q) : su[q[i].req] = st[q[i].req]
      BY <3>2, <3>3, <3>4
    <3>7. q[1].gen = h /\ Rest(v, s) /\ Len(v) \in Nat /\ Len(s) \in Nat /\ Len(q) \in Nat
          /\ Len(q) # 0 /\ Distinct(q) /\ next \in Steps
      BY <1>3, <1>7, <1>9, <2>3, <2>10
    <3>8. InStep(v, q, c, su, h)
      BY ONLY <3>5, <3>6, <3>7, AnswerGoesOn
    <3> QED BY <3>4, <3>8
  <2>11. ASSUME next \notin Steps PROVE InStep(v, Tail(q), call, step, h)
    BY <1>3, <1>7, <1>8, <1>9, <2>3, <2>9, <2>11, AnswerEnds
  <2>12. m_smRecvData[1].of = Asking(m_vtRequest[1].req, call[m_vtRequest[1].req])
    BY <1>2, <2>1, <2>2
  <2>13. /\ t \in [0 .. Len(inbox) + 1 -> Seq(Packet)]
         /\ HasCut(v, t, Len(inbox) + 1, Session(h))
         /\ t[Len(inbox) + 1] = (IF h = gen THEN wire ELSE <<>>)
    BY <1>2, <2>4, <2>6, <2>8
  <2>14. IF next \in Steps
         THEN step' = [step EXCEPT ![m_vtRequest[1].req] = next]
                => InStep(v, m_vtRequest, call, step', h)
         ELSE InStep(v, Tail(m_vtRequest), call, step, h)
    BY <1>2, <2>10, <2>11
  <2> QED BY <2>7, <2>12, <2>13, <2>14
<1>10. CASE h # Reading
  <2>1. ASSUME NEW k \in 0 .. Len(inbox) PROVE Piece(h, k)' = p[k]
    <3>1. k = 0 \/ k \in 1 .. Len(inbox)
      BY <1>3
    <3> QED BY <1>4, <1>5, <1>10, <3>1
  <2>2. ASSUME next \in Steps, step' = [step EXCEPT ![r] = next]
        PROVE  InStep(s, q, call, step', h)
    <3>1. ASSUME NEW i \in 1 .. Len(q), q[i].gen = h PROVE step'[q[i].req] = step[q[i].req]
      <4>1. i # 1
        BY <1>7, <1>10, <3>1
      <4>2. i \in 2 .. Len(q)
        BY <1>7, <4>1
      <4> QED BY <1>7, <2>2, <4>2 DEF TypeOK
    <3> QED BY <1>3, <1>7, <1>8, <3>1, OtherAsks
  <2>3. ASSUME next \notin Steps PROVE InStep(s, Tail(q), call, step, h)
    BY <1>3, <1>7, <1>8, <1>10, OtherEnds
  <2> QED BY <1>2, <1>3, <1>4, <1>8, <1>10, <2>1, <2>2, <2>3
<1> QED BY <1>9, <1>10

LEMMA YieldKeepsStreams ==
  ASSUME MysqlConstants, TypeOK, TypeOK', MessagesInv, ListsInv, EntriesInv, StreamInv,
         GetPacketYield, ~unfit'
  PROVE  StreamInv'
<1>1. /\ handler = "data" /\ handler' = "data" /\ m_vtRequest # <<>> /\ IsPacketFull
      /\ m_smRecvData' = Tail(m_smRecvData) /\ UNCHANGED <<conn, gen, inbox>>
  BY DEF GetPacketYield, loopVars, queueVars
<1>2. (\A h \in 1 .. MaxConn : Stream(h)) /\ \A x \in Req : ret[x] # "foreign"
  BY <1>1 DEF StreamInv
<1>3. PICK r, q : r = m_vtRequest[1].req /\ q = Tail(m_vtRequest)
  OBVIOUS
<1>4. /\ FrontData(m_vtRequest).req = r /\ r \in Req /\ q \in Seq(Entry) /\ ~Asks(q, r)
      /\ Head(m_smRecvData) = m_smRecvData[1] /\ Len(q) \in Nat
      /\ \A i \in 1 .. Len(q) : q[i].req \in Req /\ q[i].req # r
  <2>1. /\ FrontData(m_vtRequest).req = r /\ r \in Req /\ q \in Seq(Entry) /\ ~Asks(q, r)
    BY <1>1, <1>3, FrontLists DEF EntriesInv
  <2>2. Head(m_smRecvData) = m_smRecvData[1]
    BY <1>1 DEF IsPacketFull, TypeOK
  <2> QED BY <2>1, <2>2, EntriesOf DEF Asks
<1>5. m_vtRequest[1].gen = Reading /\ Reading \in 1 .. MaxConn
  <2>1. Stream(Reading)
    <3>1. inbox # <<>> => inbox[1].gen \in 1 .. MaxConn
      BY MessageFacts
    <3>2. Reading \in 1 .. MaxConn
      BY <3>1, ListFacts DEF Reading
    <3> QED BY <1>2, <3>2
  <2> QED BY <1>1, <2>1, FrontIsReading
<1>6. PICK next \in NextStep(step[r], m_smRecvData[1].kind) :
        /\ ret' = [ret EXCEPT ![r] = Verdict(r, m_smRecvData[1].of, next)]
        /\ IF next \in Steps
           THEN /\ step' = [step EXCEPT ![r] = next]
                /\ UNCHANGED <<doomed, wire, unfit, listVars, pc, call>>
           ELSE StatementEnds(r, next)
  BY <1>4 DEF GetPacketYield, Takes
<1>7. \A x \in Req : ret'[x] # "foreign"
  <2>1. m_smRecvData[1].of = Asking(r, call[r])
    BY <1>1, <1>2, <1>3, <1>5, <1>6, PacketLeaves
  <2>2. next \in Steps \cup {"own", "error", "fail"}
    BY <1>4, <1>6, NextStepIs DEF TypeOK, Steps
  <2>3. Verdict(r, m_smRecvData[1].of, next) # "foreign"
    BY <1>2, <1>4, <2>1, <2>2 DEF Verdict, Asking, Steps
  <2> QED BY <1>2, <1>4, <1>6, <2>3 DEF TypeOK
<1>8. ASSUME NEW h \in 1 .. MaxConn PROVE Stream(h)'
  <2>1. PICK s \in Seq(Packet), p \in [0 .. Len(inbox) + 1 -> Seq(Packet)] :
          /\ HasCut(s, p, Len(inbox) + 1, Session(h))
          /\ \A k \in 0 .. Len(inbox) : Piece(h, k)' = p[k]
          /\ p[Len(inbox) + 1] = (IF h = gen THEN wire ELSE <<>>)
          /\ IF next \in Steps
             THEN step' = [step EXCEPT ![r] = next] => InStep(s, m_vtRequest, call, step', h)
             ELSE InStep(s, q, call, step, h)
    BY <1>1, <1>2, <1>3, <1>5, <1>6, <1>8, PacketLeaves
  <2>2. CASE next \notin Steps /\ Chains(r, next) /\ IsTransmit
    <3>1. SendRequest(r, call[r] + 1, q)
      BY <1>3, <1>6, <2>2 DEF StatementEnds
    <3>2. call[r] + 1 \in DOMAIN Calls[r]
      <4>1. call[r] \in DOMAIN Calls[r] /\ Calls[r] \in Seq({"exec", "query", "ping"})
        BY <1>4 DEF TypeOK, MysqlConstants
      <4>2. DOMAIN Calls[r] = 1 .. Len(Calls[r]) /\ Len(Calls[r]) \in Nat
        BY <4>1, Elements
      <4> QED BY <2>2, <4>1, <4>2 DEF Chains
    <3>3. InStep(s, q, call, step, h)
      BY <2>1, <2>2
    <3>4. conn = "up"
      BY <2>2 DEF IsTransmit
    <3> QED BY <1>1, <1>4, <2>1, <3>1, <3>2, <3>3, <3>4, StreamSent
  <2>3. ASSUME wire' = wire, InStep(s, m_vtRequest', call', step', h) PROVE Stream(h)'
    <3>1. Pieces(h)' = p
      <4>1. /\ Len(inbox') = Len(inbox) /\ Len(inbox) \in Nat
            /\ Pieces(h)' \in [0 .. Len(inbox') + 1 -> Seq(Packet)]
            /\ \A k \in 0 .. Len(inbox') + 1 : Pieces(h)'[k] = Piece(h, k)'
        BY <1>1, PiecesAre
      <4>2. PICK n : n = Len(inbox) + 1
        OBVIOUS
      <4>3. n # 0 /\ n \in 0 .. Len(inbox') + 1
        BY <4>1, <4>2
      <4>4. Piece(h, n)' = p[n]
        BY <1>1, <2>1, <2>3, <4>1, <4>2, <4>3 DEF Piece
      <4>5. \A k \in 0 .. n : k \in 0 .. Len(inbox) \/ k = n
        BY <4>1, <4>2
      <4>6. PICK t : t = Pieces(h)'
        OBVIOUS
      <4>7. \A k \in 0 .. n : t[k] = p[k]
        BY <2>1, <4>1, <4>2, <4>4, <4>5, <4>6
      <4>8. t \in [0 .. n -> Seq(Packet)] /\ p \in [0 .. n -> Seq(Packet)]
        BY <4>1, <4>2, <4>6
      <4>9. t = p
        BY <4>7, <4>8
      <4> QED BY <4>6, <4>9
    <3>2. HasCut(s, Pieces(h)', Len(inbox') + 1, Session(h)')
      BY <1>1, <2>1, <3>1 DEF Session
    <3> QED BY <2>3, <3>2, StreamIs
  <2>4. CASE next \in Steps
    <3>1. wire' = wire /\ m_vtRequest' = m_vtRequest /\ call' = call
      BY <1>6, <2>4 DEF listVars
    <3> QED BY <1>6, <2>1, <2>3, <2>4, <3>1
  <2>5. CASE next \notin Steps /\ Chains(r, next) /\ ~IsTransmit
    <3>1. /\ m_vtRequest' = q /\ wire' = wire /\ step' = step
          /\ call' = [call EXCEPT ![r] = call[r] + 1]
      BY <1>3, <1>6, <2>5 DEF StatementEnds, Wait
    <3>2. \A i \in 1 .. Len(q) : call'[q[i].req] = call[q[i].req] /\ step'[q[i].req] = step[q[i].req]
      BY <1>4, <3>1 DEF TypeOK
    <3>3. InStep(s, q, call, step, h) /\ Len(s) \in Nat
      BY <2>1, <2>5
    <3>4. InStep(s, q, call', step', h)
      BY <1>4, <3>2, <3>3, OtherAsks
    <3> QED BY <2>3, <3>1, <3>4
  <2>6. CASE next \notin Steps /\ ~Chains(r, next)
    <3>1. m_vtRequest' = q /\ wire' = wire /\ call' = call /\ step' = step
      BY <1>3, <1>6, <2>6 DEF StatementEnds
    <3> QED BY <2>1, <2>3, <2>6, <3>1
  <2> QED BY <2>2, <2>4, <2>5, <2>6
<1> QED BY <1>1, <1>7, <1>8 DEF StreamInv

(* Of a stream that is in step nothing is read out of place.               *)
LEMMA NoGarbage ==
  ASSUME TypeOK, MessagesInv, ListsInv, EntriesInv, StreamInv
  PROVE  ~GetGarbageYield
<1> SUFFICES ASSUME GetGarbageYield
             PROVE  FALSE
  OBVIOUS
<1>1. /\ handler = "data" /\ m_smRecvData # <<>> /\ m_smRecvData \in Seq(Packet)
      /\ Head(m_smRecvData).kind = "garbage"
  BY DEF GetGarbageYield, IsPacketFull, TypeOK
<1>2. Len(m_smRecvData) \in Nat /\ Len(m_smRecvData) # 0 /\ m_smRecvData[1].kind = "garbage"
  BY <1>1, TailIsRest
<1>3. Fresh /\ Len(inbox) + 1 \in Nat
  BY <1>1 DEF EntriesInv, TypeOK
<1>4. PICK h : h = Reading
  OBVIOUS
<1>5. h \in 1 .. MaxConn
  <2>1. inbox # <<>> => inbox[1].gen \in 1 .. MaxConn
    BY MessageFacts
  <2> QED BY <1>4, <2>1, ListFacts DEF Reading
<1>6. PICK s \in Seq(Packet) : HasCut(s, Pieces(h), Len(inbox) + 1, Session(h))
  BY <1>1, <1>5 DEF StreamInv, Stream
<1>7. PICK n, p : n = Len(inbox) + 1 /\ p = Pieces(h)
  OBVIOUS
<1>8. p[0] = m_smRecvData
  <2>1. 0 \in 0 .. Len(inbox) + 1
    BY <1>3
  <2> QED BY <1>3, <1>4, <1>7, <2>1 DEF Pieces, Piece
<1>9. p[0][1].kind # "garbage"
  <2>1. n \in Nat /\ HasCut(s, p, n, Session(h)) /\ Len(s) \in Nat
    BY <1>3, <1>6, <1>7
  <2> QED BY <1>2, <1>8, <2>1, CutFront
<1> QED BY <1>2, <1>8, <1>9

(***************************************************************************)
(* Every step keeps the streams.                                           *)
(***************************************************************************)
LEMMA OvertakenStays ==
  ASSUME TypeOK, [Next]_vars, overtaken' = 0
  PROVE  overtaken = 0
<1> USE DEF queueVars
<1>1. ASSUME CtxMessage PROVE overtaken = 0
  <2>1. PICK k \in DOMAIN inbox, kind \in {"connect", "data", "disconnect", "verified"} :
          NextMessage(kind, k)
    BY <1>1
       DEF CtxMessage, ReceiveMysqlConnect, ReceiveData, ReceiveMysqlDisconnect, VerifySuccess
  <2> QED BY <2>1, InOrder
<1>2. ASSUME NEW r \in Req, DispathBussinessMsg(r) PROVE overtaken = 0
  BY <1>2 DEF DispathBussinessMsg
<1>3. ASSUME HandlerStep PROVE overtaken = 0
  BY <1>3 DEF HandlerStep, GetPacketYield, GetGarbageYield, ReceiveDataEnd, FailRequest,
     DisconnectEnd, VerifiedResume, VerifiedEnd, OnTimerResume, OnTimerEnd, ResumeWaiter
<1>4. ASSUME OnTimerClose \/ OnTimer \/ OnConnect \/ Transmit \/ OnDisconnect \/ ConnectFails
      PROVE overtaken = 0
  BY <1>4 DEF OnTimerClose, OnTimer, OnConnect, Transmit, OnDisconnect, ConnectFails, NetMessage
<1>5. ASSUME NEW ok \in BOOLEAN, OnReceiveVerify(ok) \/ OnReceiveVerifyResult(ok)
      PROVE overtaken = 0
  BY <1>5 DEF OnReceiveVerify, OnReceiveVerifyResult, NetMessage
<1>6. ASSUME NEW n, NEW cut, OnReceive(n, cut)
      PROVE overtaken = 0
  BY <1>6 DEF OnReceive
<1>7. CASE UNCHANGED vars
  BY <1>7 DEF vars
<1> QED BY <1>1, <1>2, <1>3, <1>4, <1>5, <1>6, <1>7 DEF Next

LEMMA GhostsStay ==
  ASSUME TypeOK, [Next]_vars
  PROVE  (overlap => overlap') /\ (unfit => unfit')
<1> USE DEF ghostVars, TypeOK
<1>1. ASSUME NEW r, NEW n, NEW q, SendRequest(r, n, q) PROVE unfit => unfit'
  BY <1>1 DEF SendRequest
<1>2. ASSUME NEW r \in Req, DispathBussinessMsg(r) PROVE (overlap => overlap') /\ (unfit => unfit')
  BY <1>1, <1>2 DEF DispathBussinessMsg
<1>3. ASSUME ResumeWaiter PROVE (overlap => overlap') /\ (unfit => unfit')
  BY <1>1, <1>3 DEF ResumeWaiter
<1>4. ASSUME GetPacketYield \/ GetGarbageYield PROVE (overlap => overlap') /\ (unfit => unfit')
  <2>1. overlap' = overlap
    BY <1>4 DEF GetPacketYield, GetGarbageYield
  <2>2. PICK next : IF next \in Steps THEN UNCHANGED unfit
                    ELSE StatementEnds(FrontData(m_vtRequest).req, next)
    <3>1. PICK of, next : Takes(FrontData(m_vtRequest).req, of, next)
      BY <1>4 DEF GetPacketYield, GetGarbageYield
    <3> QED BY <3>1 DEF Takes
  <2>3. ASSUME StatementEnds(FrontData(m_vtRequest).req, next) PROVE unfit => unfit'
    BY <1>1, <2>3 DEF StatementEnds
  <2> QED BY <2>1, <2>2, <2>3
<1>5. ASSUME CtxMessage PROVE (overlap => overlap') /\ (unfit => unfit')
  BY <1>5
     DEF CtxMessage, ReceiveMysqlConnect, ReceiveData, ReceiveMysqlDisconnect, VerifySuccess
<1>6. ASSUME HandlerStep PROVE (overlap => overlap') /\ (unfit => unfit')
  BY <1>3, <1>4, <1>6 DEF HandlerStep, ReceiveDataEnd, FailRequest, DisconnectEnd,
     VerifiedResume, VerifiedEnd, OnTimerResume, OnTimerEnd
<1>7. ASSUME OnTimerClose \/ OnTimer \/ OnConnect \/ Transmit \/ OnDisconnect \/ ConnectFails
      PROVE (overlap => overlap') /\ (unfit => unfit')
  BY <1>7 DEF OnTimerClose, OnTimer, OnConnect, Transmit, OnDisconnect, ConnectFails
<1>8. ASSUME NEW ok \in BOOLEAN, OnReceiveVerify(ok) \/ OnReceiveVerifyResult(ok)
      PROVE (overlap => overlap') /\ (unfit => unfit')
  BY <1>8 DEF OnReceiveVerify, OnReceiveVerifyResult
<1>9. ASSUME NEW n, NEW cut, OnReceive(n, cut)
      PROVE (overlap => overlap') /\ (unfit => unfit')
  BY <1>9 DEF OnReceive
<1>10. CASE UNCHANGED vars
  BY <1>10 DEF vars
<1> QED BY <1>2, <1>5, <1>6, <1>7, <1>8, <1>9, <1>10 DEF Next

(* A request is sent or waits or fails, and nothing arrives.               *)
LEMMA SendKeepsStreams ==
  ASSUME MysqlConstants, TypeOK, TypeOK', NEW h, Stream(h), conn = "up",
         UNCHANGED <<conn, gen, inbox, m_smRecvData>>, NEW r \in Req, NEW n \in DOMAIN Calls[r],
         SendRequest(r, n, m_vtRequest), ~unfit', ~Asks(m_vtRequest, r)
  PROVE  Stream(h)'
<1>1. PICK s \in Seq(Packet) : /\ HasCut(s, Pieces(h), Len(inbox) + 1, Session(h))
                               /\ InStep(s, m_vtRequest, call, step, h)
  BY DEF Stream
<1>2. /\ Len(inbox) \in Nat /\ Pieces(h) \in [0 .. Len(inbox) + 1 -> Seq(Packet)]
      /\ \A k \in 0 .. Len(inbox) + 1 : Pieces(h)[k] = Piece(h, k)
  BY PiecesAre
<1>3. Fresh' = Fresh /\ Reading' = Reading
  BY DEF Fresh, Reading
<1>4. ASSUME NEW k \in 0 .. Len(inbox) PROVE Piece(h, k)' = Pieces(h)[k]
  <2>1. k \in 0 .. Len(inbox) + 1 /\ k # Len(inbox) + 1
    BY <1>2
  <2> QED BY <1>2, <1>3, <2>1 DEF Piece
<1>5. Pieces(h)[Len(inbox) + 1] = (IF h = gen THEN wire ELSE <<>>)
  <2>1. Len(inbox) + 1 \in 0 .. Len(inbox) + 1 /\ Len(inbox) + 1 # 0
    BY <1>2
  <2> QED BY <1>2, <2>1 DEF Piece
<1>6. PICK p \in [0 .. Len(inbox) + 1 -> Seq(Packet)] : p = Pieces(h)
  BY <1>2
<1>7. /\ HasCut(s, p, Len(inbox) + 1, Session(h))
      /\ \A k \in 0 .. Len(inbox) : Piece(h, k)' = p[k]
      /\ p[Len(inbox) + 1] = (IF h = gen THEN wire ELSE <<>>)
  BY <1>1, <1>4, <1>5, <1>6
<1>8. m_vtRequest \in Seq(Entry)
  BY DEF TypeOK
<1> QED BY <1>1, <1>7, <1>8, StreamSent

LEMMA QuietKeepsStreams ==
  ASSUME TypeOK, TypeOK', NEW h, Stream(h),
         UNCHANGED <<inbox, wire, m_smRecvData, m_vtRequest>>, Fresh' <=> Fresh,
         Fresh => Reading' = Reading,
         Session(h)' = "up" => Session(h) = "up", h \in {gen, gen'} /\ gen' # gen => wire = <<>>,
         \A i \in 1 .. Len(m_vtRequest) : /\ call'[m_vtRequest[i].req] = call[m_vtRequest[i].req]
                                          /\ step'[m_vtRequest[i].req] = step[m_vtRequest[i].req]
  PROVE  Stream(h)'
<1>1. (IF h = gen THEN wire ELSE <<>>)' = (IF h = gen THEN wire ELSE <<>>)
  OBVIOUS
<1>2. Pieces(h)' = Pieces(h)
  BY <1>1, SamePieces
<1> QED BY <1>2, StreamStays

(* Waiting, or an end without an answer, of who is not in the list.        *)
LEMMA WaitKeepsStreams ==
  ASSUME TypeOK, TypeOK', NEW h, Stream(h),
         UNCHANGED <<conn, gen, inbox, wire, m_smRecvData, m_vtRequest, step>>,
         NEW r \in Req, ~Asks(m_vtRequest, r), \A x \in Req : x # r => call'[x] = call[x]
  PROVE  Stream(h)'
<1>1. Fresh' = Fresh /\ Reading' = Reading /\ Session(h)' = Session(h)
  BY DEF Fresh, Reading, Session
<1>2. ASSUME NEW i \in 1 .. Len(m_vtRequest)
      PROVE  m_vtRequest[i].req \in Req /\ m_vtRequest[i].req # r
  BY ListFacts DEF Asks
<1> QED BY <1>1, <1>2, QuietKeepsStreams

LEMMA NobodyForeign ==
  ASSUME TypeOK, \A x \in Req : ret[x] # "foreign", NEW r \in Req, NEW result \in {"nonet", "fail"},
         Finish(r, result)
  PROVE  \A x \in Req : ret'[x] # "foreign"
BY DEF Finish, TypeOK

LEMMA StreamStep ==
  ASSUME MysqlConstants, TypeOK, TypeOK', MessagesInv, ListsInv, EntriesInv, StreamInv,
         [Next]_vars, overtaken' = 0, ~overlap', ~unfit'
  PROVE  StreamInv'
<1> USE DEF netVars, requestVars, listVars, loopVars, ghostVars, ctxVars, queueVars
<1>0. /\ \A x \in Req : ret[x] # "foreign"
      /\ handler # "disconnect" => \A h \in 1 .. MaxConn : Stream(h)
      /\ gen \in 1 .. MaxConn /\ gen \in Nat
      /\ wire # <<>> => conn = "up"
      /\ ListsOK(m_vtRequest, m_vtWaitRequest, pc)
  BY ListFacts DEF StreamInv, MessagesInv, ListsInv, LoopInv
<1>1. ASSUME handler' # "disconnect", \A h \in 1 .. MaxConn : Stream(h)',
             \A x \in Req : ret'[x] # "foreign"
      PROVE  StreamInv'
  BY <1>1 DEF StreamInv
<1>2. ASSUME NEW r \in Req, DispathBussinessMsg(r) PROVE StreamInv'
  <2>1. /\ handler = "none" /\ handler' = "none" /\ pc[r] = "idle"
        /\ UNCHANGED <<conn, gen, inbox, m_smRecvData>>
    BY <1>2 DEF DispathBussinessMsg
  <2>2. ~Asks(m_vtRequest, r)
    BY <1>0, <2>1, NotListed
  <2>3. CASE IsTransmit
    <3>1. SendRequest(r, 1, m_vtRequest) /\ ret' = ret
      BY <1>2, <2>3 DEF DispathBussinessMsg
    <3>2. 1 \in DOMAIN Calls[r]
      <4>1. Calls[r] \in Seq({"exec", "query", "ping"}) /\ Calls[r] # <<>>
        BY DEF MysqlConstants
      <4> QED BY <4>1
    <3>3. ASSUME NEW h \in 1 .. MaxConn PROVE Stream(h)'
      BY <1>0, <2>1, <2>2, <2>3, <3>1, <3>2, SendKeepsStreams DEF IsTransmit
    <3> QED BY <1>0, <1>1, <2>1, <3>1, <3>3
  <2>4. CASE ~IsTransmit
    <3>1. /\ UNCHANGED <<wire, m_vtRequest, step>>
          /\ \A x \in Req : x # r => call'[x] = call[x]
          /\ ret' = ret \/ Finish(r, "nonet")
      BY <1>2, <2>4 DEF DispathBussinessMsg, Wait, TypeOK
    <3>2. ASSUME NEW h \in 1 .. MaxConn PROVE Stream(h)'
      BY <1>0, <2>1, <2>2, <3>1, WaitKeepsStreams
    <3>3. \A x \in Req : ret'[x] # "foreign"
      BY <1>0, <3>1, NobodyForeign
    <3> QED BY <1>1, <2>1, <3>2, <3>3
  <2> QED BY <2>3, <2>4
<1>3. ASSUME ResumeWaiter, m_vtWaitRequest # <<>>, handler \in {"verified", "timer"},
             handler' = handler
      PROVE  StreamInv'
  <2>1. PICK r : r = Head(m_vtWaitRequest)
    OBVIOUS
  <2>2. r \in Req /\ ~Asks(m_vtRequest, r)
    BY <1>3, <2>1, FrontWaits
  <2>3. UNCHANGED <<conn, gen, inbox, m_smRecvData>>
    BY <1>3 DEF ResumeWaiter
  <2>4. CASE IsTransmit
    <3>1. SendRequest(r, call[r], m_vtRequest) /\ ret' = ret
      BY <1>3, <2>1, <2>4 DEF ResumeWaiter
    <3>2. call[r] \in DOMAIN Calls[r]
      BY <2>2 DEF TypeOK
    <3>3. ASSUME NEW h \in 1 .. MaxConn PROVE Stream(h)'
      BY <1>0, <1>3, <2>2, <2>3, <2>4, <3>1, <3>2, SendKeepsStreams DEF IsTransmit
    <3> QED BY <1>0, <1>1, <1>3, <3>1, <3>3
  <2>5. CASE ~IsTransmit
    <3>1. UNCHANGED <<wire, m_vtRequest, step, call>> /\ Finish(r, "nonet")
      BY <1>3, <2>1, <2>5 DEF ResumeWaiter
    <3>2. ASSUME NEW h \in 1 .. MaxConn PROVE Stream(h)'
      BY <1>0, <1>3, <2>2, <2>3, <3>1, WaitKeepsStreams
    <3>3. \A x \in Req : ret'[x] # "foreign"
      BY <1>0, <2>2, <3>1, NobodyForeign
    <3> QED BY <1>1, <1>3, <3>2, <3>3
  <2> QED BY <2>4, <2>5
<1>4. ASSUME VerifiedResume PROVE StreamInv'
  BY <1>3, <1>4 DEF VerifiedResume, ResumeWaiter
<1>5. ASSUME OnTimerResume PROVE StreamInv'
  BY <1>3, <1>5 DEF OnTimerResume, ResumeWaiter
<1>6. ASSUME NEW k \in DOMAIN inbox, ReceiveMysqlConnect(k) \/ VerifySuccess(k) \/ ReceiveData(k)
      PROVE  StreamInv'
  <2>1. PICK kind \in {"connect", "verified", "data"} :
          /\ inbox # <<>> /\ inbox' = Tail(inbox) /\ k = 1 /\ inbox[1].kind = kind
    <3>1. PICK kind \in {"connect", "verified", "data"} : NextMessage(kind, k)
      BY <1>6 DEF ReceiveMysqlConnect, VerifySuccess, ReceiveData
    <3> QED BY <3>1, InOrder
  <2>2. /\ handler = "none" /\ handler' # "disconnect"
        /\ UNCHANGED <<conn, gen, wire, m_vtRequest, call, step, ret>>
    <3>1. UNCHANGED <<conn, gen, wire, m_vtRequest, call, step, ret>>
      BY <1>6 DEF ReceiveMysqlConnect, VerifySuccess, ReceiveData
    <3>2. handler = "none" /\ handler' # "disconnect"
      BY <1>6 DEF ReceiveMysqlConnect, VerifySuccess, ReceiveData, NextMessage
    <3> QED BY <3>1, <3>2
  <2>3. /\ inbox[1].kind = "connect" => m_smRecvData' = <<>>
        /\ inbox[1].kind = "data" => m_smRecvData' \in AppendData(m_smRecvData, inbox[1].packets)
        /\ inbox[1].kind \notin {"connect", "data"} => m_smRecvData' = m_smRecvData
    BY <1>6, <2>1 DEF ReceiveMysqlConnect, VerifySuccess, ReceiveData, NextMessage
  <2>4. ASSUME NEW h \in 1 .. MaxConn PROVE Stream(h)'
    BY <1>0, <2>1, <2>2, <2>3, StreamTaken
  <2> QED BY <1>0, <1>1, <2>2, <2>4
<1>7. ASSUME NEW first \in DOMAIN inbox, ReceiveMysqlDisconnect(first) PROVE StreamInv'
  <2>1. /\ inbox # <<>> /\ inbox' = Tail(inbox) /\ handler = "none" /\ handler' = "disconnect"
        /\ overlap' = (overlap \/ \E i \in DOMAIN m_vtRequest :
                                      m_vtRequest[i].gen # inbox[1].gen)
        /\ UNCHANGED <<conn, gen, wire, m_vtRequest, ret>>
        /\ inbox[1].kind = "disconnect"
    <3>1. inbox # <<>> /\ inbox' = Tail(inbox) /\ first = 1 /\ inbox[1].kind = "disconnect"
      BY <1>7, InOrder DEF ReceiveMysqlDisconnect
    <3> QED BY <1>7, <3>1 DEF ReceiveMysqlDisconnect, NextMessage
  <2>2. DOMAIN m_vtRequest = 1 .. Len(m_vtRequest)
    BY DEF TypeOK
  <2>3. /\ inbox[1].kind = "disconnect"
        /\ \A i \in 1 .. Len(m_vtRequest) : m_vtRequest[i].gen = inbox[1].gen
    BY <2>1, <2>2
  <2>4. /\ wire = <<>>
        /\ \A k \in 1 .. Len(inbox) : inbox[k].kind # "data"
        /\ \A i \in 1 .. Len(m_vtRequest) : m_vtRequest[i].gen = gen => conn = "closed"
    BY <1>0, <2>1, <2>3, NothingAskedYet
  <2>5. ASSUME NEW k \in 1 .. Len(inbox') PROVE inbox'[k].kind # "data"
    <3>1. /\ Len(inbox) = Len(inbox') + 1 /\ Len(inbox') \in Nat
          /\ \A j \in 1 .. Len(inbox') : inbox'[j] = inbox[j + 1]
      BY <2>1, MessageFacts, PiecesAre DEF Rest
    <3>2. k + 1 \in 1 .. Len(inbox)
      BY <3>1
    <3> QED BY <2>4, <3>1, <3>2
  <2> QED BY <1>0, <2>1, <2>4, <2>5 DEF StreamInv
<1>8. ASSUME GetPacketYield \/ GetGarbageYield PROVE StreamInv'
  BY <1>8, YieldKeepsStreams, NoGarbage
<1>9. ASSUME ReceiveDataEnd \/ VerifiedEnd \/ OnTimerEnd \/ OnTimerClose PROVE StreamInv'
  <2>1. /\ handler # "disconnect" /\ handler' = "none"
        /\ UNCHANGED <<conn, gen, wire, inbox, m_smRecvData, m_vtRequest, call, step, ret>>
    BY <1>9 DEF ReceiveDataEnd, VerifiedEnd, OnTimerEnd, OnTimerClose
  <2>2. Fresh' = Fresh /\ Reading' = Reading /\ \A h : Session(h)' = Session(h)
    BY <2>1 DEF Fresh, Reading, Session
  <2>3. ASSUME NEW h \in 1 .. MaxConn PROVE Stream(h)'
    BY <1>0, <2>1, <2>2, QuietKeepsStreams
  <2> QED BY <1>0, <1>1, <2>1, <2>3
<1>10. ASSUME FailRequest PROVE StreamInv'
  <2>1. /\ handler = "disconnect" /\ handler' = "disconnect" /\ snapshot = m_vtRequest
        /\ m_vtRequest # <<>> /\ m_vtRequest' = Tail(m_vtRequest)
        /\ Finish(Head(snapshot).req, "fail")
        /\ UNCHANGED <<conn, gen, wire, inbox>>
    BY <1>10 DEF FailRequest, ListsInv, LoopInv
  <2>2. /\ Head(snapshot).req \in Req /\ Rest(m_vtRequest', m_vtRequest)
        /\ Len(m_vtRequest') \in Nat
    <3>1. m_vtRequest \in Seq(Entry)
      BY DEF TypeOK
    <3>2. Head(m_vtRequest) \in Entry /\ Tail(m_vtRequest) \in Seq(Entry)
          /\ Rest(Tail(m_vtRequest), m_vtRequest)
      BY <2>1, <3>1, TailIsRest
    <3>3. Len(Tail(m_vtRequest)) \in Nat
      BY <3>2
    <3> QED BY <2>1, <3>2, <3>3 DEF Entry
  <2>3. \A x \in Req : ret'[x] # "foreign"
    BY <1>0, <2>1, <2>2, NobodyForeign
  <2>4. ASSUME NEW i \in 1 .. Len(m_vtRequest'), m_vtRequest'[i].gen = gen PROVE conn = "closed"
    <3>1. i + 1 \in 1 .. Len(m_vtRequest) /\ m_vtRequest'[i] = m_vtRequest[i + 1]
      BY <2>2 DEF Rest
    <3> QED BY <2>1, <2>4, <3>1 DEF StreamInv
  <2> QED BY <2>1, <2>3, <2>4 DEF StreamInv
<1>11. ASSUME DisconnectEnd PROVE StreamInv'
  <2>1. /\ handler = "disconnect" /\ handler' = "none" /\ m_vtRequest' = <<>>
        /\ UNCHANGED <<conn, gen, wire, inbox, ret>>
    BY <1>11 DEF DisconnectEnd
  <2>2. wire' = <<>> /\ (\A k \in 1 .. Len(inbox') : inbox'[k].kind # "data") /\ ~Fresh'
    BY <2>1 DEF StreamInv, EntriesInv, Fresh
  <2>3. ASSUME NEW h \in 1 .. MaxConn PROVE Stream(h)'
    BY <2>1, <2>2, StreamEmpty
  <2> QED BY <1>0, <1>1, <2>1, <2>3
<1>12. ASSUME OnTimer PROVE StreamInv'
  <2>1. /\ handler = "none" /\ handler' = "timer"
        /\ \/ gen' = gen /\ conn' = conn
           \/ gen' = gen + 1 /\ conn = "closed" /\ conn' = "connecting"
        /\ UNCHANGED <<wire, inbox, m_smRecvData, m_vtRequest, call, step, ret>>
    BY <1>12 DEF OnTimer
  <2>2. /\ Fresh' <=> Fresh
        /\ Fresh => Reading' = Reading
        /\ \A h : Session(h)' = "up" => Session(h) = "up"
        /\ gen' # gen => wire = <<>>
    BY <1>0, <2>1 DEF Fresh, Reading, Session
  <2>3. ASSUME NEW h \in 1 .. MaxConn PROVE Stream(h)'
    BY <1>0, <2>1, <2>2, QuietKeepsStreams
  <2> QED BY <1>0, <1>1, <2>1, <2>3
<1>13. ASSUME NEW e, Longer(inbox', inbox, e), e.gen = gen, inbox' \in Seq(Message),
              e.kind # "data",
              \/ wire' = wire /\ (conn' = "up" => conn = "up")
              \/ wire' = <<>> /\ conn' # "up",
              wire' # <<>> => conn' = "up", conn # "closed",
              \/ e.kind = "connect" /\ conn = "connecting" /\ conn' = "verify"
              \/ e.kind = "disconnect" /\ conn \notin {"closed", "connecting"} /\ conn' = "closed"
              \/ /\ e.kind \notin {"connect", "disconnect"}
                 /\ conn \notin {"closed", "connecting"} /\ conn' \notin {"closed", "connecting"},
              UNCHANGED <<gen, ctxVars>>
       PROVE  StreamInv'
  <2>1. (Fresh' <=> Fresh) /\ Reading' = Reading
    BY <1>13, MessageMade
  <2>2. CASE handler = "disconnect"
    <3>1. /\ wire = <<>> /\ wire' = <<>>
          /\ \A k \in 1 .. Len(inbox) : inbox[k].kind # "data"
          /\ \A i \in 1 .. Len(m_vtRequest) : m_vtRequest[i].gen # gen
      BY <1>13, <2>2 DEF StreamInv
    <3>2. ASSUME NEW k \in 1 .. Len(inbox') PROVE inbox'[k].kind # "data"
      <4>1. Len(inbox) \in Nat /\ Len(inbox') = Len(inbox) + 1
        BY <1>13, PiecesAre DEF Longer
      <4>2. k \in 1 .. Len(inbox) \/ k = Len(inbox) + 1
        BY <4>1
      <4> QED BY <1>13, <3>1, <4>2 DEF Longer
    <3> QED BY <1>0, <1>13, <2>2, <3>1, <3>2 DEF StreamInv
  <2>3. CASE handler # "disconnect"
    <3>1. ASSUME NEW h \in 1 .. MaxConn PROVE Stream(h)'
      BY <1>0, <1>13, <2>1, <2>3, StreamTold
    <3> QED BY <1>0, <1>1, <1>13, <2>3, <3>1
  <2> QED BY <2>2, <2>3
<1>14. ASSUME NEW kind \in {"connect", "disconnect", "verified"}, NetMessage(kind)
       PROVE  \E e : /\ Longer(inbox', inbox, e) /\ inbox' \in Seq(Message)
                     /\ e.gen = gen /\ e.kind = kind
  <2>1. [kind |-> kind, gen |-> gen] \in Message
    BY DEF TypeOK, Message
  <2>2. /\ Longer(inbox', inbox, [kind |-> kind, gen |-> gen]) /\ inbox' \in Seq(Message)
    BY <1>14, <2>1, AppendIsLonger DEF NetMessage, TypeOK
  <2>3. [kind |-> kind, gen |-> gen].gen = gen /\ [kind |-> kind, gen |-> gen].kind = kind
    OBVIOUS
  <2> QED BY <2>2, <2>3
<1>15. ASSUME OnConnect PROVE StreamInv'
  <2>1. /\ conn = "connecting" /\ conn' = "verify" /\ NetMessage("connect")
        /\ UNCHANGED <<gen, wire, ctxVars>>
    BY <1>15 DEF OnConnect
  <2>2. wire' = <<>>
    BY <1>0, <2>1
  <2>3. PICK e : /\ Longer(inbox', inbox, e) /\ inbox' \in Seq(Message)
                 /\ e.gen = gen /\ e.kind = "connect"
    BY <1>14, <2>1
  <2> QED BY <1>13, <2>1, <2>2, <2>3
<1>16. ASSUME OnDisconnect PROVE StreamInv'
  <2>1. /\ conn \notin {"closed", "connecting"} /\ conn' = "closed" /\ wire' = <<>>
        /\ NetMessage("disconnect") /\ UNCHANGED <<gen, ctxVars>>
    BY <1>16 DEF OnDisconnect
  <2>2. PICK e : /\ Longer(inbox', inbox, e) /\ inbox' \in Seq(Message)
                 /\ e.gen = gen /\ e.kind = "disconnect"
    BY <1>14, <2>1
  <2> QED BY <1>13, <2>1, <2>2
<1>17. ASSUME conn # "up", conn' # "up", conn' = conn \/ conn # "closed",
              conn \in {"closed", "connecting"} <=> conn' \in {"closed", "connecting"},
              UNCHANGED <<gen, wire, inbox, ctxVars>>
       PROVE  StreamInv'
  <2>1. /\ Fresh' <=> Fresh
        /\ Reading' = Reading
        /\ \A h : Session(h)' # "up"
    BY <1>17 DEF Fresh, Reading, Session
  <2>2. CASE handler = "disconnect"
    BY <1>17, <2>2 DEF StreamInv
  <2>3. CASE handler # "disconnect"
    <3>1. ASSUME NEW h \in 1 .. MaxConn PROVE Stream(h)'
      BY <1>0, <1>17, <2>1, <2>3, QuietKeepsStreams
    <3> QED BY <1>0, <1>1, <1>17, <2>3, <3>1
  <2> QED BY <2>2, <2>3
<1>18. ASSUME ConnectFails PROVE StreamInv'
  <2>1. conn = "connecting" /\ conn' = "closed" /\ UNCHANGED <<gen, wire, inbox, ctxVars>>
    BY <1>18 DEF ConnectFails
  <2> QED BY <1>17, <2>1
<1>19. ASSUME NEW ok \in BOOLEAN, OnReceiveVerify(ok) PROVE StreamInv'
  <2>1. conn = "verify" /\ conn' \in {"verify", "result"} /\ UNCHANGED <<gen, wire, inbox, ctxVars>>
    BY <1>19 DEF OnReceiveVerify
  <2> QED BY <1>17, <2>1
<1>20. ASSUME NEW ok \in BOOLEAN, OnReceiveVerifyResult(ok) PROVE StreamInv'
  <2>1. conn = "result" /\ UNCHANGED <<gen, wire, ctxVars>> /\ wire' = <<>>
    BY <1>0, <1>20 DEF OnReceiveVerifyResult
  <2>2. CASE ok
    <3>1. conn' = "verified" /\ NetMessage("verified")
      BY <1>20, <2>2 DEF OnReceiveVerifyResult
    <3>2. PICK e : /\ Longer(inbox', inbox, e) /\ inbox' \in Seq(Message)
                   /\ e.gen = gen /\ e.kind = "verified"
      BY <1>14, <3>1
    <3> QED BY <1>13, <2>1, <3>1, <3>2
  <2>3. CASE ~ok
    <3>1. UNCHANGED <<conn, inbox>>
      BY <1>20, <2>3 DEF OnReceiveVerifyResult
    <3> QED BY <1>17, <2>1, <3>1
  <2> QED BY <2>2, <2>3
<1>21. ASSUME Transmit PROVE StreamInv'
  <2>1. /\ conn = "verified" /\ conn' = "up" /\ UNCHANGED <<gen, wire, inbox, ctxVars>>
    BY <1>21 DEF Transmit
  <2>2. (Fresh' <=> Fresh) /\ Reading' = Reading
    BY <2>1 DEF Fresh, Reading
  <2>3. CASE handler = "disconnect"
    BY <1>0, <2>1, <2>3 DEF StreamInv
  <2>4. CASE handler # "disconnect"
    <3>1. ASSUME NEW h \in 1 .. MaxConn PROVE Stream(h)'
      <4>1. CASE h # gen
        <5>1. Session(h)' = Session(h)
          BY <2>1, <4>1 DEF Session
        <5> QED BY <1>0, <2>1, <2>2, <2>4, <5>1, QuietKeepsStreams
      <4>2. CASE h = gen
        <5>1. \A i \in 1 .. Len(m_vtRequest) : m_vtRequest[i].gen # gen
          <6>1. SUFFICES ASSUME NEW i \in 1 .. Len(m_vtRequest), m_vtRequest[i].gen = gen
                         PROVE  FALSE
            OBVIOUS
          <6>2. Covered(gen)
            BY <2>4, <6>1 DEF EntriesInv
          <6>3. PICK k \in 1 .. Len(inbox) : inbox[k].kind = "disconnect" /\ inbox[k].gen = gen
            BY <2>1, <6>2 DEF Covered
          <6>4. /\ Len(inbox) \in Nat /\ Len(inbox) # 0 /\ inbox # <<>>
                /\ Len(inbox) \in 1 .. Len(inbox)
            <7>1. Len(inbox) \in Nat
              BY DEF TypeOK
            <7> QED BY <6>3, <7>1
          <6>5. inbox[Len(inbox)].kind # "disconnect" /\ inbox[Len(inbox)].gen <= gen
            BY <2>1, <6>4 DEF MessagesInv
          <6>6. k < Len(inbox)
            BY <6>3, <6>4, <6>5
          <6>7. inbox[k].gen < inbox[Len(inbox)].gen
            BY <6>3, <6>4, <6>6 DEF MessagesInv
          <6>8. inbox[Len(inbox)].gen \in Nat
            <7>1. inbox[Len(inbox)] \in Message
              BY <6>4 DEF TypeOK
            <7>2. inbox[Len(inbox)].gen \in 1 .. MaxConn
              BY <7>1 DEF Message
            <7> QED BY <7>2
          <6> QED BY <1>0, <6>3, <6>5, <6>7, <6>8
        <5>2. HasCut(<<>>, Pieces(h), Len(inbox) + 1, "up")
          BY <1>0, <2>4, <4>2, <5>1, NothingLeft
        <5>3. Pieces(h)' = Pieces(h) /\ Len(inbox') = Len(inbox) /\ Session(h)' = "up"
          <6>1. (IF h = gen THEN wire ELSE <<>>)' = (IF h = gen THEN wire ELSE <<>>)
            BY <2>1
          <6> QED BY <2>1, <2>2, <4>2, <6>1, SamePieces DEF Session
        <5>4. HasCut(<<>>, Pieces(h)', Len(inbox') + 1, Session(h)')
          BY <5>2, <5>3
        <5>5. InStep(<<>>, m_vtRequest', call', step', h)
          <6>1. Len(<<>>) = 0 /\ Len(m_vtRequest') \in Nat
            BY <2>1, ListFacts
          <6>2. \A i \in 1 .. Len(m_vtRequest') : m_vtRequest'[i].gen # h
            BY <2>1, <4>2, <5>1
          <6> QED BY <6>1, <6>2, NothingAsked
        <5>6. <<>> \in Seq(Packet)
          OBVIOUS
        <5> QED BY <5>4, <5>5, <5>6, StreamIs
      <4> QED BY <4>1, <4>2
    <3> QED BY <1>0, <1>1, <2>1, <2>4, <3>1
  <2> QED BY <2>3, <2>4
<1>22. ASSUME NEW n \in 0 .. Len(wire), NEW cut \in 0 .. 1, OnReceive(n, cut) PROVE StreamInv'
  <2>1. conn = "up" /\ conn' = "up" /\ UNCHANGED <<gen, ctxVars>> /\ n + cut > 0
        /\ (cut = 1 => n < Len(wire))
    BY <1>22 DEF OnReceive, IsTransmit
  <2>2. wire # <<>>
    <3>1. Len(wire) \in Nat
      BY DEF TypeOK
    <3>2. Len(wire) # 0
      BY <2>1, <3>1
    <3> QED BY <3>2
  <2>3. handler # "disconnect"
    BY <2>2 DEF StreamInv
  <2>4. (Fresh' <=> Fresh) /\ Reading' = Reading
    <3>1. PICK packets \in Seq(Packet) :
            /\ Longer(inbox', inbox, [kind |-> "data", gen |-> gen, packets |-> packets])
            /\ IsTaken(packets, wire, n)
      BY <1>22, ReceiveTypes
    <3>2. packets # <<>> /\ inbox' \in Seq(Message)
      BY <1>22, <3>1, ReceiveTypes DEF IsTaken
    <3>3. PICK e : e = [kind |-> "data", gen |-> gen, packets |-> packets]
      OBVIOUS
    <3>4. e.gen = gen /\ e.kind = "data" /\ e.packets # <<>> /\ Longer(inbox', inbox, e)
      BY <3>1, <3>2, <3>3
    <3> QED BY <2>1, <3>2, <3>4, MessageMade
  <2>5. ASSUME NEW h \in 1 .. MaxConn PROVE Stream(h)'
    BY <1>0, <1>22, <2>3, <2>4, StreamReceived
  <2> QED BY <1>0, <1>1, <2>1, <2>3, <2>5
<1>23. CASE UNCHANGED vars
  <2>1. /\ Fresh' = Fresh /\ Reading' = Reading /\ \A h : Session(h)' = Session(h)
        /\ UNCHANGED <<gen, wire, inbox, conn, m_smRecvData, m_vtRequest, call, step, ret, handler>>
    BY <1>23 DEF vars, Fresh, Reading, Session
  <2>2. CASE handler = "disconnect"
    BY <2>1, <2>2 DEF StreamInv
  <2>3. CASE handler # "disconnect"
    <3>1. ASSUME NEW h \in 1 .. MaxConn PROVE Stream(h)'
      BY <1>0, <2>1, <2>3, QuietKeepsStreams
    <3> QED BY <1>0, <1>1, <2>1, <2>3, <3>1
  <2> QED BY <2>2, <2>3
<1> QED
  BY <1>2, <1>4, <1>5, <1>6, <1>7, <1>8, <1>9, <1>10, <1>11, <1>12, <1>15, <1>16, <1>18,
     <1>19, <1>20, <1>21, <1>22, <1>23 DEF Next, CtxMessage, HandlerStep

(***************************************************************************)
(* The theorems.                                                           *)
(***************************************************************************)
LEMMA InitInvariant ==
  ASSUME MysqlConstants, Init
  PROVE  IInv
<1> USE DEF Init
<1>1. TypeOK
  <2>1. 1 \in 1 .. MaxConn
    BY DEF MysqlConstants
  <2>2. \A r \in Req : 1 \in DOMAIN Calls[r]
    <3>1. ASSUME NEW r \in Req PROVE 1 \in DOMAIN Calls[r]
      <4>1. Calls[r] \in Seq({"exec", "query", "ping"}) /\ Calls[r] # <<>>
        BY DEF MysqlConstants
      <4> QED BY <4>1
    <3> QED BY <3>1
  <2>3. call \in [Req -> Nat] /\ \A r \in Req : call[r] \in DOMAIN Calls[r]
    BY <2>2
  <2>4. /\ conn \in {"closed", "connecting", "verify", "result", "verified", "up"}
        /\ gen \in 1 .. MaxConn /\ doomed \in BOOLEAN
        /\ handler \in {"none", "data", "verified", "disconnect", "timer"}
        /\ overtaken \in 0 .. MaxOvertaken /\ overlap \in BOOLEAN /\ unfit \in BOOLEAN
    <3>1. 0 \in 0 .. MaxOvertaken
      BY DEF MysqlConstants
    <3> QED BY <2>1, <3>1
  <2>5. /\ wire \in Seq(Packet) /\ inbox \in Seq(Message) /\ snapshot \in Seq(Entry)
        /\ m_smRecvData \in Seq(Packet) /\ m_vtRequest \in Seq(Entry)
        /\ m_vtWaitRequest \in Seq(Req)
    OBVIOUS
  <2>6. /\ pc \in [Req -> {"idle", "waiting", "sent", "done"}]
        /\ step \in [Req -> {"exec", "head", "field", "eof", "row"}]
        /\ ret \in [Req -> {"none", "own", "foreign", "error", "fail", "nonet"}]
    OBVIOUS
  <2> QED BY <2>3, <2>4, <2>5, <2>6 DEF TypeOK
<1>2. Len(inbox) = 0 /\ Len(m_vtRequest) = 0 /\ Len(m_vtWaitRequest) = 0
  OBVIOUS
<1>3. MessagesInv /\ ListsInv /\ EntriesInv
  BY <1>2 DEF MessagesInv, ListsInv, LoopInv, ListsOK, Distinct, Single, EntriesInv, Sorted
<1>4. StreamInv
  <2>1. ASSUME NEW h \in 1 .. MaxConn PROVE Stream(h)
    <3>1. PICK p, n : p = Pieces(h) /\ n = Len(inbox) + 1
      OBVIOUS
    <3>2. n = 1 /\ n \in Nat
      BY <1>2, <3>1
    <3>3. \A k \in 0 .. n : Len(p[k]) = 0
      <4>1. \A k \in 0 .. n : k = 0 \/ k = n
        BY <3>2
      <4>2. \A k \in 0 .. n : Piece(h, k) = <<>>
        BY <1>2, <3>1, <3>2, <4>1 DEF Piece
      <4>3. \A k \in 0 .. n : p[k] = Piece(h, k)
        BY <3>1 DEF Pieces
      <4> QED BY <4>2, <4>3
    <3>4. HasCut(<<>>, p, n, Session(h))
      BY <3>2, <3>3, CutEmpty
    <3>5. InStep(<<>>, m_vtRequest, call, step, h)
      <4>1. Len(<<>>) = 0 /\ Len(m_vtRequest) \in Nat /\ \A i \in 1 .. Len(m_vtRequest) : FALSE
        BY <1>2
      <4> QED BY <4>1, NothingAsked
    <3>6. <<>> \in Seq(Packet)
      OBVIOUS
    <3> QED BY <3>1, <3>4, <3>5, <3>6 DEF Stream
  <2> QED BY <2>1 DEF StreamInv
<1> QED BY <1>1, <1>3, <1>4 DEF IInv, ListsInv

LEMMA NextInvariant ==
  ASSUME MysqlConstants, IInv, [Next]_vars
  PROVE  IInv'
<1>1. TypeOK' /\ LoopInv'
  BY TypeStep, LoopStep DEF IInv
<1>2. ASSUME overtaken' = 0
      PROVE  /\ MessagesInv' /\ ListsInv' /\ EntriesInv'
             /\ ~overlap' /\ ~unfit' => StreamInv'
  <2>1. TypeOK /\ MessagesInv /\ ListsInv /\ EntriesInv /\ (~overlap /\ ~unfit => StreamInv)
    BY <1>2, OvertakenStays DEF IInv
  <2>2. MessagesInv' /\ ListsInv' /\ EntriesInv'
    BY <1>2, <2>1, StateStep
  <2>3. ASSUME ~overlap', ~unfit' PROVE StreamInv'
    <3>1. ~overlap /\ ~unfit
      BY <2>1, <2>3, GhostsStay
    <3> QED BY <1>1, <1>2, <2>1, <2>3, <3>1, StreamStep
  <2> QED BY <2>2, <2>3
<1> QED BY <1>1, <1>2 DEF IInv

(* The pieces of a connection that is up are the places of StreamInStep.   *)
LEMMA UntakenIs ==
  ASSUME TypeOK, MessagesInv, conn = "up", NEW k \in 0 .. Len(inbox) + 1
  PROVE  Untaken(k) = Piece(gen, k)
<1>1. /\ Len(inbox) \in Nat /\ DOMAIN inbox = 1 .. Len(inbox) /\ gen \in Nat
      /\ (inbox = <<>> <=> Len(inbox) = 0)
      /\ \A i \in 1 .. Len(inbox) : inbox[i].gen \in Nat
  <2>1. ASSUME NEW i \in 1 .. Len(inbox) PROVE inbox[i].gen \in Nat
    <3>1. inbox[i] \in Message
      BY DEF TypeOK
    <3> QED BY <3>1 DEF Message
  <2> QED BY <2>1 DEF TypeOK
<1>2. CASE k # 0
  BY <1>1, <1>2 DEF Untaken, Piece
<1>3. CASE \E i \in 1 .. Len(inbox) : inbox[i].kind = "connect"
  <2>1. PICK i \in 1 .. Len(inbox) : inbox[i].kind = "connect"
    BY <1>3
  <2>2. inbox # <<>> /\ 1 \in 1 .. Len(inbox)
    BY <1>1, <2>1
  <2>3. CASE i = 1
    BY <1>1, <1>2, <2>1, <2>2, <2>3 DEF Untaken, Piece, Fresh
  <2>4. CASE i # 1
    <3>1. i - 1 \in 1 .. Len(inbox) - 1 /\ i - 1 \in 1 .. Len(inbox) /\ (i - 1) + 1 = i /\ i - 1 < i
      BY <1>1, <2>4
    <3>2. inbox[i - 1].kind = "disconnect"
      BY <2>1, <3>1 DEF MessagesInv
    <3>3. inbox[i - 1].gen < inbox[i].gen /\ inbox[i].gen <= gen
      BY <3>1, <3>2 DEF MessagesInv
    <3>4. inbox[1].gen <= inbox[i - 1].gen
      <4>1. i - 1 = 1 \/ 1 < i - 1
        BY <3>1
      <4> QED BY <1>1, <2>2, <3>1, <4>1 DEF MessagesInv
    <3>5. gen # Reading
      BY <1>1, <2>2, <3>1, <3>3, <3>4 DEF Reading
    <3> QED BY <1>1, <1>2, <2>1, <3>5 DEF Untaken, Piece
  <2> QED BY <2>3, <2>4
<1>4. CASE k = 0 /\ ~\E i \in 1 .. Len(inbox) : inbox[i].kind = "connect"
  <2>1. Untaken(k) = m_smRecvData
    BY <1>1, <1>4 DEF Untaken
  <2>2. Fresh
    BY <1>1, <1>4 DEF Fresh
  <2>3. Reading = gen
    <3>1. CASE inbox = <<>>
      BY <3>1 DEF Reading
    <3>2. CASE inbox # <<>>
      <4>1. /\ 1 \in 1 .. Len(inbox) /\ Len(inbox) \in 1 .. Len(inbox)
            /\ inbox[Len(inbox)].gen = gen
        BY <1>1, <3>2 DEF MessagesInv
      <4>2. ASSUME 1 < Len(inbox), inbox[1].gen # inbox[Len(inbox)].gen PROVE FALSE
        <5>1. PICK j \in 1 + 1 .. Len(inbox) : inbox[j].kind = "connect"
          BY <4>1, <4>2 DEF MessagesInv
        <5>2. j \in 1 .. Len(inbox)
          BY <1>1
        <5> QED BY <1>4, <5>1, <5>2
      <4>3. 1 = Len(inbox) \/ 1 < Len(inbox)
        BY <1>1, <4>1
      <4> QED BY <3>2, <4>1, <4>2, <4>3 DEF Reading
    <3> QED BY <3>1, <3>2
  <2> QED BY <1>4, <2>1, <2>2, <2>3 DEF Piece
<1> QED BY <1>2, <1>3, <1>4

(***************************************************************************)
(* StreamInStep.                                                           *)
(***************************************************************************)
(* Every packet of the stream is in some piece.                            *)
LEMMA CutCovers ==
  ASSUME NEW s, NEW p, NEW n \in Nat, Lens(p, n), HasCut(s, p, n, "up"),
         NEW j \in 1 .. Len(s), Len(s) \in Nat
  PROVE  \E k \in 0 .. n : \E i \in 1 .. Len(p[k]) : p[k][i].of = s[j].of
<1>1. PICK o \in Offsets(n) : Cut(s, o, p, n) /\ o[n + 1] = Len(s)
  BY DEF HasCut
<1>2. \A k \in 0 .. n + 1 : o[k] \in Nat
  BY <1>1 DEF Offsets
<1> DEFINE T == {k \in 0 .. n + 1 : j <= o[k]}
<1>3. T \in SUBSET Nat /\ n + 1 \in T
  BY <1>1
<1>4. PICK m \in T : \A k \in T : m <= k
  BY <1>3, LeastOne
<1>5. m \in 0 .. n + 1 /\ j <= o[m] /\ m # 0
  BY <1>1, <1>4 DEF Cut
<1>6. m - 1 \in 0 .. n /\ (m - 1) + 1 = m
  BY <1>5
<1>7. PICK k \in 0 .. n : k = m - 1
  BY <1>6
<1>8. o[k] < j
  <2>1. k \notin T
    BY <1>4, <1>5, <1>7
  <2>2. k \in 0 .. n + 1
    BY <1>7
  <2> QED BY <1>2, <2>1, <2>2
<1>9. o[k + 1] = o[k] + Full(p[k]) /\ k + 1 = m
  BY <1>1, <1>5, <1>7 DEF Cut
<1>10. Len(p[k]) \in Nat /\ Full(p[k]) \in Nat /\ Full(p[k]) <= Len(p[k]) /\ o[k] \in Nat
  BY <1>2, <1>7, FullFacts DEF Lens
<1>11. j - o[k] \in 1 .. Len(p[k]) /\ o[k] + (j - o[k]) = j
  BY <1>5, <1>8, <1>9, <1>10
<1>12. IsIn(p[k][j - o[k]], s[o[k] + (j - o[k])])
  BY <1>1, <1>7, <1>11 DEF Cut
<1>13. p[k][j - o[k]].of = s[j].of
  BY <1>11, <1>12 DEF IsIn
<1> QED BY <1>7, <1>11, <1>13

(* The pieces are in the order of the stream.                              *)
LEMMA CutOrder ==
  ASSUME NEW s, NEW p, NEW n \in Nat, NEW all, Lens(p, n), HasCut(s, p, n, all), Len(s) \in Nat,
         NEW k \in 0 .. n, NEW m \in 0 .. n, NEW a \in 1 .. Len(p[k]), NEW b \in 1 .. Len(p[m]),
         k < m \/ (k = m /\ a <= b)
  PROVE  \E x, y \in 1 .. Len(s) : x <= y /\ p[k][a].of = s[x].of /\ p[m][b].of = s[y].of
<1>1. PICK o \in Offsets(n) : Cut(s, o, p, n)
  BY DEF HasCut
<1>2. /\ o[k] \in Nat /\ o[m] \in Nat /\ Len(p[k]) \in Nat /\ Len(p[m]) \in Nat
      /\ a \in Nat /\ b \in Nat /\ a >= 1 /\ b >= 1 /\ a <= Len(p[k])
  <2>1. k \in 0 .. n + 1 /\ m \in 0 .. n + 1
    OBVIOUS
  <2> QED BY <1>1, <2>1 DEF Offsets, Lens
<1>3. Len(p[k]) <= Full(p[k]) + 1 /\ Full(p[k]) \in Nat
  <2>1. /\ Full(p[k]) \in Nat
        /\ EndsInPart(p[k]) => Len(p[k]) = Full(p[k]) + 1
        /\ ~EndsInPart(p[k]) => Len(p[k]) = Full(p[k])
    BY <1>2, FullFacts
  <2> QED BY <1>2, <2>1
<1>4. k < m => o[k] + Full(p[k]) <= o[m]
  <2>1. m \in 0 .. n + 1
    OBVIOUS
  <2> QED BY <1>1, <2>1 DEF Cut
<1>5. o[k] + a <= o[m] + b
  <2>1. CASE k < m
    BY <1>2, <1>3, <1>4, <2>1
  <2>2. CASE k = m /\ a <= b
    BY <1>2, <2>2
  <2> QED BY <2>1, <2>2
<1>6. /\ o[k] + a <= Len(s) /\ IsIn(p[k][a], s[o[k] + a])
      /\ o[m] + b <= Len(s) /\ IsIn(p[m][b], s[o[m] + b])
  BY <1>1 DEF Cut
<1>7. o[k] + a \in 1 .. Len(s) /\ o[m] + b \in 1 .. Len(s)
  <2>1. o[k] + a <= Len(s) /\ o[m] + b <= Len(s)
    BY <1>6
  <2>2. o[k] + a \in Nat /\ o[k] + a >= 1 /\ o[m] + b \in Nat /\ o[m] + b >= 1
    BY <1>2
  <2> QED BY <2>1, <2>2
<1> QED BY <1>5, <1>6, <1>7 DEF IsIn

LEMMA StreamFollows ==
  ASSUME TypeOK, MessagesInv, EntriesInv, StreamInv
  PROVE  /\ conn = "up" =>
              /\ \A i \in Asked : \E p \in Places : Of(p) = StatementOf(i)
              /\ \A p, q \in Places : NotAfter(p, q) =>
                   \E i, j \in Asked : i <= j /\ Of(p) = StatementOf(i) /\ Of(q) = StatementOf(j)
         /\ \A r \in Req : ret[r] # "foreign"
<1>1. \A r \in Req : ret[r] # "foreign"
  BY DEF StreamInv
<1>2. SUFFICES ASSUME conn = "up"
               PROVE  /\ \A i \in Asked : \E p \in Places : Of(p) = StatementOf(i)
                      /\ \A p, q \in Places : NotAfter(p, q) =>
                           \E i, j \in Asked : i <= j /\ Of(p) = StatementOf(i)
                                                      /\ Of(q) = StatementOf(j)
  BY <1>1
<1>3. /\ Len(inbox) \in Nat /\ gen \in 1 .. MaxConn
      /\ m_vtRequest \in Seq(Entry) /\ Len(m_vtRequest) \in Nat
      /\ Asked = {i \in 1 .. Len(m_vtRequest) : m_vtRequest[i].gen = gen}
  BY ListFacts DEF TypeOK, Asked
<1>4. \A k \in 0 .. Len(inbox) + 1 : Untaken(k) = Piece(gen, k)
  BY <1>2, UntakenIs
<1>5. ASSUME NEW w \in Places
      PROVE  \E k \in 0 .. Len(inbox) + 1 : \E i \in DOMAIN Untaken(k) :
               w = <<k, i>> /\ Of(w) = Untaken(k)[i].of
  <2>1. PICK k \in 0 .. Len(inbox) + 1 : w \in {<<k, i>> : i \in DOMAIN Untaken(k)}
    BY DEF Places
  <2>2. PICK i \in DOMAIN Untaken(k) : w = <<k, i>>
    BY <2>1
  <2>3. w[1] = k /\ w[2] = i
    BY <2>2
  <2> QED BY <2>2, <2>3 DEF Of
<1>6. CASE handler = "disconnect"
  <2>1. Asked = {}
    BY <1>2, <1>3, <1>6 DEF StreamInv
  <2>2. ASSUME NEW k \in 0 .. Len(inbox) + 1 PROVE Piece(gen, k) = <<>>
    <3>1. k # 0 /\ k # Len(inbox) + 1 => inbox[k].kind # "data"
      BY <1>3, <1>6 DEF StreamInv
    <3> QED BY <1>6, <3>1 DEF StreamInv, EntriesInv, Piece
  <2>3. \A k \in 0 .. Len(inbox) + 1 : DOMAIN Untaken(k) = {}
    BY <1>4, <2>2
  <2>4. \A w \in Places : FALSE
    BY <1>5, <2>3
  <2> QED BY <2>1, <2>4
<1>7. CASE handler # "disconnect"
  <2>1. PICK s \in Seq(Packet) : /\ HasCut(s, Pieces(gen), Len(inbox) + 1, "up")
                                 /\ InStep(s, m_vtRequest, call, step, gen)
    BY <1>2, <1>3, <1>7 DEF StreamInv, Stream, Session
  <2>2. PICK n, p : n = Len(inbox) + 1 /\ p = Pieces(gen)
    OBVIOUS
  <2>3. /\ n \in Nat /\ Len(s) \in Nat
        /\ \A k \in 0 .. n : /\ p[k] = Untaken(k) /\ DOMAIN p[k] = 1 .. Len(p[k])
                             /\ Len(p[k]) \in Nat
    <3>1. ASSUME NEW k \in 0 .. n
          PROVE  p[k] = Untaken(k) /\ Untaken(k) \in Seq(Packet)
      <4>1. p[k] = Piece(gen, k) /\ Untaken(k) = Piece(gen, k)
        BY <1>4, <2>2 DEF Pieces
      <4>2. k # 0 /\ k # Len(inbox) + 1 => inbox[k] \in Message
        BY <1>3, <2>2 DEF TypeOK
      <4>3. k # 0 /\ k # Len(inbox) + 1 /\ inbox[k].kind = "data" => inbox[k].packets \in Seq(Packet)
        BY <4>2, PacketsAre
      <4>4. Piece(gen, k) \in Seq(Packet)
        BY <4>3 DEF Piece, TypeOK
      <4> QED BY <4>1, <4>4
    <3>2. n \in Nat /\ Len(s) \in Nat
      BY <1>3, <2>2
    <3> QED BY <3>1, <3>2
  <2>4. Lens(p, n) /\ HasCut(s, p, n, "up")
    BY <2>1, <2>2, <2>3 DEF Lens
  <2>5. ASSUME NEW i \in Asked PROVE \E w \in Places : Of(w) = StatementOf(i)
    <3>1. PICK j \in 1 .. Len(s) : s[j].of.req = m_vtRequest[i].req
      BY <1>3, <2>1 DEF InStep
    <3>2. s[j].of = StatementOf(i)
      BY <2>1, <3>1 DEF InStep, Asking, StatementOf
    <3>3. PICK k \in 0 .. n : \E a \in 1 .. Len(p[k]) : p[k][a].of = s[j].of
      BY <2>3, <2>4, CutCovers
    <3>6. PICK a \in 1 .. Len(p[k]) : p[k][a].of = s[j].of
      BY <3>3
    <3>4. <<k, a>> \in Places
      <4>1. a \in DOMAIN Untaken(k) /\ k \in 0 .. Len(inbox) + 1
        BY <2>2, <2>3, <3>6
      <4>2. <<k, a>> \in {<<k, b>> : b \in DOMAIN Untaken(k)}
        BY <4>1
      <4> QED BY <4>1, <4>2 DEF Places
    <3>5. Of(<<k, a>>) = StatementOf(i)
      BY <2>3, <3>2, <3>6 DEF Of
    <3> QED BY <3>4, <3>5
  <2>6. ASSUME NEW x \in 1 .. Len(s)
        PROVE  \E i \in Asked : s[x].of = StatementOf(i) /\ m_vtRequest[i].req = s[x].of.req
    <3>1. PICK i \in 1 .. Len(m_vtRequest) : /\ m_vtRequest[i].gen = gen
                                             /\ m_vtRequest[i].req = s[x].of.req
      BY <2>1 DEF InStep
    <3>2. s[x].of = StatementOf(i)
      BY <2>1, <3>1 DEF InStep, Asking, StatementOf
    <3> QED BY <1>3, <3>1, <3>2
  <2>7. ASSUME NEW v \in Places, NEW w \in Places, NotAfter(v, w)
        PROVE  \E i, j \in Asked : i <= j /\ Of(v) = StatementOf(i) /\ Of(w) = StatementOf(j)
    <3>1. PICK k \in 0 .. n :
            \E a \in 1 .. Len(p[k]) : v = <<k, a>> /\ Of(v) = p[k][a].of
      BY <1>5, <2>2, <2>3
    <3>8. PICK a \in 1 .. Len(p[k]) : v = <<k, a>> /\ Of(v) = p[k][a].of
      BY <3>1
    <3>2. PICK m \in 0 .. n :
            \E b \in 1 .. Len(p[m]) : w = <<m, b>> /\ Of(w) = p[m][b].of
      BY <1>5, <2>2, <2>3
    <3>9. PICK b \in 1 .. Len(p[m]) : w = <<m, b>> /\ Of(w) = p[m][b].of
      BY <3>2
    <3>3. k < m \/ (k = m /\ a <= b)
      BY <2>7, <3>8, <3>9 DEF NotAfter
    <3>4. PICK x, y \in 1 .. Len(s) : x <= y /\ p[k][a].of = s[x].of /\ p[m][b].of = s[y].of
      BY <2>3, <2>4, <3>3, CutOrder
    <3>5. PICK i \in Asked : s[x].of = StatementOf(i) /\ m_vtRequest[i].req = s[x].of.req
      BY <2>6, <3>4
    <3>6. PICK j \in Asked : s[y].of = StatementOf(j) /\ m_vtRequest[j].req = s[y].of.req
      BY <2>6, <3>4
    <3>7. i <= j
      BY <1>3, <2>1, <3>4, <3>5, <3>6 DEF InStep
    <3> QED BY <3>4, <3>5, <3>6, <3>7, <3>8, <3>9
  <2> QED BY <2>5, <2>7
<1> QED BY <1>6, <1>7

(* The inductive invariant.  As long as no message passed one that was     *)
(* pushed before it: the messages of the network threads come connection   *)
(* after connection; who is in a list waits there, once; the entries are   *)
(* of connections that are up or whose disconnect is still to be handled;  *)
(* and what was received, is in messages and is to come is a stream that   *)
(* the entries are promised.                                               *)
THEOREM Invariance ==
  ASSUME MysqlConstants
  PROVE  Spec => []IInv
<1>1. Init => IInv
  BY InitInvariant
<1>2. IInv /\ [Next]_vars => IInv'
  BY NextInvariant
<1> QED BY <1>1, <1>2, PTL DEF Spec

(* Every variable keeps its type.                                          *)
THEOREM TypeCorrect ==
  ASSUME MysqlConstants
  PROVE  Spec => []TypeOK
<1>1. IInv => TypeOK
  BY DEF IInv
<1> QED BY <1>1, Invariance, PTL

(* Whoever is in m_vtRequest has the packets of its answer coming, in the  *)
(* order of the list, and no coroutine takes a packet of another's answer  *)
(* (GetPacketYield, net/ctx_mysql.cpp:793), as long as no message of the   *)
(* session passes one that was pushed before it, no disconnect takes       *)
(* requests of a later connection and every answer fits its call.          *)
THEOREM EveryAnswerReachesItsRequest ==
  ASSUME MysqlConstants
  PROVE  Spec => []StreamInStep
<1>1. IInv => StreamInStep
  BY StreamFollows DEF IInv, StreamInStep
<1> QED BY <1>1, Invariance, PTL

=============================================================================
