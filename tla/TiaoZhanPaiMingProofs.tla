----------------------- MODULE TiaoZhanPaiMingProofs -----------------------
(***************************************************************************)
(* Proofs about TiaoZhanPaiMing for every table, every reach and every set *)
(* of players, as long as nobody has two fights open at once.  What a      *)
(* handler does to the places of the players (AddDataRanks) and to the     *)
(* table as seen from outside (AddDataPut) is shown once, under the        *)
(* invariant, and everything else follows from these.                      *)
(*                                                                         *)
(* At the end the few facts about the other part of the ranking, the cache *)
(* of records in TiaoZhanRecords.                                          *)
(***************************************************************************)
EXTENDS TiaoZhanPaiMing, TiaoZhanRecords, TLAPS

(* What the callers have to keep: one open fight per player. *)
OneFight == \A f, g \in Fight : Player[f] = Player[g] => f = g

(* The parts of the invariant that speak of the table only. *)
TableInv == Consistent /\ EveryCellPlaced

(* The constants, and the shape of the places. *)
LEMMA ConstantFacts ==
  /\ PaiMingCount \in Nat /\ PaiMingCount >= 1
  /\ TiaoZhanMingCiNum \in Nat
  /\ NoKey \notin Key
  /\ NoCell \notin Cell
  /\ NoRank = PaiMingCount /\ NoRank \notin Rank
  /\ Last \in Rank
  /\ Cell = Rank
  /\ \A i : i \in Rank <=> i \in Nat /\ i < PaiMingCount
BY ConstantsAssumption DEF Rank, Cell, NoCell, NoRank, Last

(* A player on the table has the cell at the place GetPaiMing gives. *)
LEMMA RankFacts ==
  ASSUME TypeOK, TableInv
  PROVE  /\ \A k \in Key : GetPaiMing(k) \in Nat /\ GetPaiMing(k) <= PaiMingCount
         /\ \A k \in Key : GetPaiMing(k) = PaiMingCount <=> mapData[k] = NoCell
         /\ \A k \in Key : mapData[k] # NoCell =>
              /\ mapData[k] \in Cell
              /\ GetPaiMing(k) \in Rank
              /\ paiMing[GetPaiMing(k)] = mapData[k]
              /\ KeyAt(GetPaiMing(k)) = k
         /\ \A i \in Rank : KeyAt(i) # NoKey =>
              KeyAt(i) \in Key /\ mapData[KeyAt(i)] = paiMing[i] /\ GetPaiMing(KeyAt(i)) = i
         /\ \A j, k \in Key :
              GetPaiMing(j) = GetPaiMing(k) /\ GetPaiMing(k) # PaiMingCount => j = k
<1> USE ConstantFacts DEF TypeOK
<1>1. ASSUME NEW k \in Key, mapData[k] # NoCell
      PROVE  /\ mapData[k] \in Cell
             /\ GetPaiMing(k) \in Rank
             /\ paiMing[GetPaiMing(k)] = mapData[k]
             /\ KeyAt(GetPaiMing(k)) = k
  BY <1>1 DEF GetPaiMing, TableInv, Consistent, EveryCellPlaced, KeyAt
<1>2. ASSUME NEW k \in Key, mapData[k] = NoCell
      PROVE  GetPaiMing(k) = PaiMingCount
  BY <1>2 DEF GetPaiMing
<1>3. ASSUME NEW i \in Rank, KeyAt(i) # NoKey
      PROVE  KeyAt(i) \in Key /\ mapData[KeyAt(i)] = paiMing[i] /\ GetPaiMing(KeyAt(i)) = i
  <2>1. paiMing[i] \in Cell /\ KeyAt(i) \in Key
    BY <1>3 DEF KeyAt
  <2>2. mapData[KeyAt(i)] = paiMing[i]
    BY <2>1, <1>3 DEF KeyAt, TableInv, Consistent
  <2>3. cell[paiMing[i]].mingCi = i
    BY DEF TableInv, Consistent, CellKnowsPlace
  <2> QED
    BY <2>1, <2>2, <2>3 DEF GetPaiMing
<1>4. ASSUME NEW j \in Key, NEW k \in Key, GetPaiMing(j) = GetPaiMing(k), GetPaiMing(k) # PaiMingCount
      PROVE  j = k
  BY <1>1, <1>2, <1>4
<1>5. ASSUME NEW k \in Key
      PROVE  GetPaiMing(k) \in Nat /\ GetPaiMing(k) <= PaiMingCount
  <2>1. CASE mapData[k] = NoCell
    BY <1>2, <2>1
  <2>2. CASE mapData[k] # NoCell
    <3>1. GetPaiMing(k) \in Rank
      BY <1>1, <2>2
    <3> QED
      BY <3>1
  <2> QED
    BY <2>1, <2>2
<1>6. \A k \in Key : GetPaiMing(k) = PaiMingCount <=> mapData[k] = NoCell
  BY <1>1, <1>2
<1> QED
  BY <1>1, <1>3, <1>4, <1>5, <1>6

(* The cell at place s comes to place r with the player k; the others      *)
(* between r and s move down, and know it.                                 *)
LEMMA PlaceFacts ==
  ASSUME TypeOK, TableInv, NEW k \in Key, NEW r \in Rank, NEW s \in Rank, r <= s,
         Place(k, r, s)
  PROVE  /\ paiMing' \in [Rank -> Cell]
         /\ cell' \in [Cell -> [key : Key \cup {NoKey}, mingCi : Rank]]
         /\ CellKnowsPlace'
         /\ EveryCellPlaced'
         /\ cell'[paiMing[s]].key = k /\ cell'[paiMing[s]].mingCi = r
         /\ \A c \in Cell : c # paiMing[s] =>
              /\ cell'[c].key = cell[c].key
              /\ r <= cell[c].mingCi /\ cell[c].mingCi < s => cell'[c].mingCi = cell[c].mingCi + 1
              /\ ~(r <= cell[c].mingCi /\ cell[c].mingCi < s) => cell'[c].mingCi = cell[c].mingCi
         /\ KeyAt(r)' = k
         /\ \A i \in Rank : r < i /\ i <= s => KeyAt(i)' = KeyAt(i - 1)
         /\ \A i \in Rank : i < r \/ s < i => KeyAt(i)' = KeyAt(i)
<1> USE ConstantFacts DEF Rank, Cell
<1> DEFINE pos(c) == cell[c].mingCi
<1>1. /\ \A i \in Rank : paiMing[i] \in Cell /\ pos(paiMing[i]) = i
      /\ \A c \in Cell : pos(c) \in Rank /\ paiMing[pos(c)] = c
      /\ \A c \in Cell : cell[c] = [key |-> cell[c].key, mingCi |-> cell[c].mingCi]
      /\ \A c \in Cell : cell[c].key \in Key \cup {NoKey}
  BY DEF TypeOK, TableInv, Consistent, CellKnowsPlace, EveryCellPlaced
<1>2. /\ paiMing'[r] = paiMing[s]
      /\ \A i \in Rank : r < i /\ i <= s => paiMing'[i] = paiMing[i - 1]
      /\ \A i \in Rank : i < r \/ s < i => paiMing'[i] = paiMing[i]
  <2>1. \A i \in Rank : paiMing'[i] = IF i = r /\ r < s THEN paiMing[s]
                                      ELSE IF r < i /\ i <= s THEN paiMing[i - 1]
                                      ELSE paiMing[i]
    BY DEF Place
  <2> QED
    BY <2>1
<1>3. ASSUME NEW c \in Cell
      PROVE  (\E i \in Rank : r <= i /\ i < s /\ paiMing[i] = c) <=> r <= pos(c) /\ pos(c) < s
  BY <1>1
<1>4. /\ cell'[paiMing[s]] = [key |-> k, mingCi |-> r]
      /\ \A c \in Cell : c # paiMing[s] =>
           /\ r <= pos(c) /\ pos(c) < s => cell'[c] = [key |-> cell[c].key, mingCi |-> pos(c) + 1]
           /\ ~(r <= pos(c) /\ pos(c) < s) => cell'[c] = cell[c]
  <2>1. ASSUME NEW c \in Cell
        PROVE  cell'[c] = IF c = paiMing[s] THEN [key |-> k, mingCi |-> r]
                          ELSE IF \E i \in Rank : r <= i /\ i < s /\ paiMing[i] = c
                          THEN [cell[c] EXCEPT !.mingCi = @ + 1]
                          ELSE cell[c]
    BY DEF Place
  <2>2. ASSUME NEW c \in Cell
        PROVE  [cell[c] EXCEPT !.mingCi = @ + 1] = [key |-> cell[c].key, mingCi |-> pos(c) + 1]
    <3> DEFINE q == cell[c].key
               p == cell[c].mingCi
    <3>1. cell[c] = [key |-> q, mingCi |-> p]
      BY <1>1
    <3> HIDE DEF q, p
    <3>2. [cell[c] EXCEPT !.mingCi = @ + 1] = [key |-> q, mingCi |-> p + 1]
      BY <3>1
    <3> QED
      BY <3>2 DEF q, p
  <2>3. paiMing[s] \in Cell
    BY <1>1
  <2>4. cell'[paiMing[s]] = [key |-> k, mingCi |-> r]
    BY <2>1, <2>3
  <2>5. ASSUME NEW c \in Cell, c # paiMing[s], r <= pos(c), pos(c) < s
        PROVE  cell'[c] = [key |-> cell[c].key, mingCi |-> pos(c) + 1]
    <3>1. \E i \in Rank : r <= i /\ i < s /\ paiMing[i] = c
      BY <2>5, <1>3
    <3>2. cell'[c] = [cell[c] EXCEPT !.mingCi = @ + 1]
      BY <2>1, <2>5, <3>1
    <3> QED
      BY <3>2, <2>2
  <2>6. ASSUME NEW c \in Cell, c # paiMing[s], ~(r <= pos(c) /\ pos(c) < s)
        PROVE  cell'[c] = cell[c]
    <3>1. ~(\E i \in Rank : r <= i /\ i < s /\ paiMing[i] = c)
      BY <2>6, <1>3
    <3> QED
      BY <2>1, <2>6, <3>1
  <2> HIDE DEF pos
  <2> QED
    BY <2>4, <2>5, <2>6, Zenon
<1>5. /\ cell'[paiMing[s]].key = k /\ cell'[paiMing[s]].mingCi = r
      /\ \A c \in Cell : c # paiMing[s] =>
           /\ cell'[c].key = cell[c].key
           /\ r <= pos(c) /\ pos(c) < s => cell'[c].mingCi = pos(c) + 1
           /\ ~(r <= pos(c) /\ pos(c) < s) => cell'[c].mingCi = pos(c)
  <2>1. ASSUME NEW c \in Cell, c # paiMing[s], r <= pos(c) /\ pos(c) < s
        PROVE  cell'[c].key = cell[c].key /\ cell'[c].mingCi = pos(c) + 1
    <3>1. cell'[c] = [key |-> cell[c].key, mingCi |-> pos(c) + 1]
      BY <1>4, <2>1
    <3> QED
      BY <3>1
  <2>2. ASSUME NEW c \in Cell, c # paiMing[s], ~(r <= pos(c) /\ pos(c) < s)
        PROVE  cell'[c].key = cell[c].key /\ cell'[c].mingCi = pos(c)
    <3>1. cell'[c] = cell[c]
      BY <1>4, <2>2
    <3> QED
      BY <3>1
  <2>3. cell'[paiMing[s]].key = k /\ cell'[paiMing[s]].mingCi = r
    BY <1>4
  <2> HIDE DEF pos
  <2> QED
    BY <2>1, <2>2, <2>3, Zenon
<1>6. paiMing' \in [Rank -> Cell]
  <2>1. ASSUME NEW i \in Rank
        PROVE  paiMing'[i] \in Cell
    <3>1. CASE r < i /\ i <= s
      <4>1. i - 1 \in Rank
        BY <3>1
      <4> QED
        BY <3>1, <4>1, <1>1, <1>2
    <3>2. CASE i < r \/ s < i
      BY <3>2, <1>1, <1>2
    <3>3. CASE i = r
      BY <3>3, <1>1, <1>2
    <3> QED
      BY <3>1, <3>2, <3>3
  <2>2. paiMing' = [i \in Rank |-> paiMing'[i]]
    BY DEF Place
  <2> QED
    BY <2>1, <2>2
<1>7. cell' \in [Cell -> [key : Key \cup {NoKey}, mingCi : Rank]]
  <2>1. ASSUME NEW c \in Cell
        PROVE  cell'[c] \in [key : Key \cup {NoKey}, mingCi : Rank]
    <3>1. CASE c = paiMing[s]
      BY <3>1, <1>4
    <3>2. CASE c # paiMing[s] /\ r <= pos(c) /\ pos(c) < s
      <4>1. pos(c) + 1 \in Rank
        BY <3>2, <1>1
      <4>2. cell'[c] = [key |-> cell[c].key, mingCi |-> pos(c) + 1]
        BY <3>2, <1>4
      <4>3. cell[c].key \in Key \cup {NoKey}
        BY <1>1
      <4> HIDE DEF pos
      <4> QED
        BY <4>1, <4>2, <4>3
    <3>3. CASE c # paiMing[s] /\ ~(r <= pos(c) /\ pos(c) < s)
      <4>1. cell'[c] = cell[c]
        BY <3>3, <1>4
      <4> QED
        BY <4>1 DEF TypeOK
    <3> QED
      BY <3>1, <3>2, <3>3
  <2>2. cell' = [c \in Cell |-> cell'[c]]
    BY DEF Place
  <2> QED
    BY <2>1, <2>2
<1>8. \A i \in Rank : cell'[paiMing'[i]].mingCi = i
  <2> SUFFICES ASSUME NEW i \in Rank PROVE cell'[paiMing'[i]].mingCi = i
    OBVIOUS
  <2>1. CASE i = r
    BY <2>1, <1>2, <1>5
  <2>2. CASE r < i /\ i <= s
    <3>1. i - 1 \in Rank /\ paiMing'[i] = paiMing[i - 1]
      BY <2>2, <1>2
    <3>2. pos(paiMing[i - 1]) = i - 1 /\ paiMing[i - 1] # paiMing[s] /\ paiMing[i - 1] \in Cell
      BY <3>1, <2>2, <1>1
    <3> QED
      BY <3>1, <3>2, <2>2, <1>5
  <2>3. CASE i < r \/ s < i
    <3>1. paiMing'[i] = paiMing[i] /\ paiMing[i] # paiMing[s] /\ pos(paiMing[i]) = i
      BY <2>3, <1>1, <1>2
    <3> QED
      BY <3>1, <2>3, <1>1, <1>5
  <2> QED
    BY <2>1, <2>2, <2>3
<1>9. \A c \in Cell : paiMing'[cell'[c].mingCi] = c
  <2> SUFFICES ASSUME NEW c \in Cell PROVE paiMing'[cell'[c].mingCi] = c
    OBVIOUS
  <2>1. CASE c = paiMing[s]
    BY <2>1, <1>2, <1>5
  <2>2. CASE c # paiMing[s] /\ r <= pos(c) /\ pos(c) < s
    <3>1. pos(c) + 1 \in Rank /\ cell'[c].mingCi = pos(c) + 1
      BY <2>2, <1>1, <1>5
    <3>2. paiMing'[pos(c) + 1] = paiMing[(pos(c) + 1) - 1]
      BY <3>1, <2>2, <1>1, <1>2
    <3>3. (pos(c) + 1) - 1 = pos(c)
      BY <1>1
    <3> QED
      BY <3>1, <3>2, <3>3, <1>1
  <2>3. CASE c # paiMing[s] /\ ~(r <= pos(c) /\ pos(c) < s)
    <3>1. cell'[c].mingCi = pos(c) /\ pos(c) # s /\ pos(c) \in Rank
      BY <2>3, <1>1, <1>5
    <3>2. pos(c) < r \/ s < pos(c)
      BY <2>3, <3>1
    <3> QED
      BY <3>1, <3>2, <1>1, <1>2
  <2> QED
    BY <2>1, <2>2, <2>3
<1>10. /\ KeyAt(r)' = k
       /\ \A i \in Rank : r < i /\ i <= s => KeyAt(i)' = KeyAt(i - 1)
       /\ \A i \in Rank : i < r \/ s < i => KeyAt(i)' = KeyAt(i)
  <2>1. KeyAt(r)' = k
    BY <1>2, <1>5 DEF KeyAt
  <2>2. ASSUME NEW i \in Rank, r < i, i <= s
        PROVE  KeyAt(i)' = KeyAt(i - 1)
    <3>1. i - 1 \in Rank /\ paiMing'[i] = paiMing[i - 1]
      BY <2>2, <1>2
    <3>2. paiMing[i - 1] \in Cell /\ paiMing[i - 1] # paiMing[s]
      BY <3>1, <2>2, <1>1
    <3> QED
      BY <3>1, <3>2, <1>5 DEF KeyAt
  <2>3. ASSUME NEW i \in Rank, i < r \/ s < i
        PROVE  KeyAt(i)' = KeyAt(i)
    <3>1. paiMing'[i] = paiMing[i] /\ paiMing[i] # paiMing[s] /\ paiMing[i] \in Cell
      BY <2>3, <1>1, <1>2
    <3> QED
      BY <3>1, <1>5 DEF KeyAt
  <2> QED
    BY <2>1, <2>2, <2>3
<1> QED
  BY <1>5, <1>6, <1>7, <1>8, <1>9, <1>10 DEF CellKnowsPlace, EveryCellPlaced

(* The three cases of AddData are one move: some place s becomes free and  *)
(* is closed from r on; the player who had the cell of s, if it is not k,  *)
(* leaves the map.                                                         *)
LEMMA AddDataMoves ==
  ASSUME TypeOK, TableInv, NEW k \in Key, NEW r \in Rank, r <= GetPaiMing(k),
         AddData(k, r)
  PROVE  \E s \in Rank :
           /\ r <= s
           /\ Place(k, r, s)
           /\ mapData' \in [Key -> Cell \cup {NoCell}]
           /\ mapData'[k] = paiMing[s]
           /\ \A x \in Key \ {k} : mapData[x] = paiMing[s] => mapData'[x] = NoCell /\ s = Last
           /\ \A x \in Key \ {k} : mapData[x] # paiMing[s] => mapData'[x] = mapData[x]
           /\ mapData[k] # NoCell => mapData[k] = paiMing[s]
           /\ LadderOf!Vacates(k, r, s)
<1> USE ConstantFacts
<1>1. \A c \in Cell : c # NoCell
  OBVIOUS
<1>2. \A i \in Rank : paiMing[i] \in Cell
  BY DEF TypeOK
<1>3. mapData \in [Key -> Cell \cup {NoCell}]
  BY DEF TypeOK
<1>4. ASSUME NEW x \in Key, NEW i \in Rank
      PROVE  mapData[x] = paiMing[i] <=> KeyAt(i) = x
  <2>1. ASSUME mapData[x] = paiMing[i]
        PROVE  KeyAt(i) = x
    BY <2>1, <1>1, <1>2 DEF TableInv, Consistent, KeyAt
  <2>2. ASSUME KeyAt(i) = x
        PROVE  mapData[x] = paiMing[i]
    BY <2>2, RankFacts
  <2> QED
    BY <2>1, <2>2
<1>5. ASSUME AddDataPush(k, r)
      PROVE  /\ Place(k, r, Last)
             /\ mapData' \in [Key -> Cell \cup {NoCell}]
             /\ mapData'[k] = paiMing[Last]
             /\ \A x \in Key \ {k} : mapData[x] = paiMing[Last] => mapData'[x] = NoCell
             /\ \A x \in Key \ {k} : mapData[x] # paiMing[Last] => mapData'[x] = mapData[x]
             /\ mapData[k] = NoCell
             /\ LadderOf!Vacates(k, r, Last)
  <2>1. mapData' = [x \in Key |-> IF x = k THEN paiMing[Last]
                                  ELSE IF x = KeyAt(Last) THEN NoCell
                                  ELSE mapData[x]]
    BY <1>5 DEF AddDataPush
  <2>2. mapData' \in [Key -> Cell \cup {NoCell}]
    BY <2>1, <1>2, <1>3
  <2>3. \A i \in Rank : KeyAt(i) # k
    BY <1>1, <1>2, <1>4, <1>5 DEF AddDataPush
  <2>4. LadderOf!Vacates(k, r, Last)
    BY <1>5, <2>3 DEF AddDataPush, LadderOf!Vacates, LadderOf!Rank, Rank, Last
  <2> QED
    BY <1>4, <1>5, <2>1, <2>2, <2>4 DEF AddDataPush
<1>6. ASSUME AddDataFill(k, r)
      PROVE  /\ Place(k, r, r)
             /\ mapData' \in [Key -> Cell \cup {NoCell}]
             /\ mapData'[k] = paiMing[r]
             /\ \A x \in Key \ {k} : mapData[x] # paiMing[r] /\ mapData'[x] = mapData[x]
             /\ mapData[k] = NoCell
             /\ LadderOf!Vacates(k, r, r)
  <2>1. mapData' = [mapData EXCEPT ![k] = paiMing[r]]
    BY <1>6 DEF AddDataFill
  <2>2. \A i \in Rank : KeyAt(i) # k
    BY <1>1, <1>2, <1>4, <1>6 DEF AddDataFill
  <2>3. LadderOf!Vacates(k, r, r)
    BY <1>6, <2>2 DEF AddDataFill, LadderOf!Vacates, LadderOf!Rank, Rank
  <2>4. \A x \in Key \ {k} : mapData[x] # paiMing[r]
    BY <1>4, <1>6 DEF AddDataFill
  <2> QED
    BY <1>2, <1>3, <1>6, <2>1, <2>3, <2>4 DEF AddDataFill
<1>7. ASSUME AddDataMove(k, r)
      PROVE  /\ GetPaiMing(k) \in Rank
             /\ Place(k, r, GetPaiMing(k))
             /\ mapData' = mapData
             /\ mapData[k] = paiMing[GetPaiMing(k)]
             /\ \A x \in Key \ {k} : mapData[x] # paiMing[GetPaiMing(k)]
             /\ LadderOf!Vacates(k, r, GetPaiMing(k))
  <2>1. GetPaiMing(k) \in Rank /\ mapData[k] = paiMing[GetPaiMing(k)] /\ KeyAt(GetPaiMing(k)) = k
    BY <1>7, RankFacts DEF AddDataMove
  <2>2. Place(k, r, GetPaiMing(k)) /\ mapData' = mapData
    BY <1>7, <2>1 DEF AddDataMove
  <2>3. LadderOf!Vacates(k, r, GetPaiMing(k))
    BY <2>1 DEF LadderOf!Vacates, LadderOf!Rank, Rank
  <2>4. \A x \in Key \ {k} : mapData[x] # paiMing[GetPaiMing(k)]
    BY <1>4, <2>1
  <2> QED
    BY <2>1, <2>2, <2>3, <2>4
<1>8. CASE AddDataPush(k, r)
  <2>1. r <= Last
    BY DEF Last
  <2> QED
    BY <2>1, <1>5, <1>8
<1>9. CASE AddDataFill(k, r)
  BY <1>6, <1>9
<1>10. CASE AddDataMove(k, r)
  BY <1>3, <1>7, <1>10
<1> QED
  BY <1>8, <1>9, <1>10 DEF AddData

(* AddData keeps the table consistent. *)
LEMMA AddDataTable ==
  ASSUME TypeOK, TableInv, NEW k \in Key, NEW r \in Rank, r <= GetPaiMing(k),
         AddData(k, r)
  PROVE  /\ paiMing' \in [Rank -> Cell]
         /\ cell' \in [Cell -> [key : Key \cup {NoKey}, mingCi : Rank]]
         /\ mapData' \in [Key -> Cell \cup {NoCell}]
         /\ TableInv'
<1> USE ConstantFacts
<1>1. PICK s \in Rank :
        /\ r <= s
        /\ Place(k, r, s)
        /\ mapData' \in [Key -> Cell \cup {NoCell}]
        /\ mapData'[k] = paiMing[s]
        /\ \A x \in Key \ {k} : mapData[x] = paiMing[s] => mapData'[x] = NoCell
        /\ \A x \in Key \ {k} : mapData[x] # paiMing[s] => mapData'[x] = mapData[x]
        /\ mapData[k] # NoCell => mapData[k] = paiMing[s]
  BY AddDataMoves
<1>2. /\ paiMing' \in [Rank -> Cell]
      /\ cell' \in [Cell -> [key : Key \cup {NoKey}, mingCi : Rank]]
      /\ CellKnowsPlace'
      /\ EveryCellPlaced'
      /\ cell'[paiMing[s]].key = k
      /\ \A c \in Cell : c # paiMing[s] => cell'[c].key = cell[c].key
  BY <1>1, PlaceFacts
<1>3. paiMing[s] \in Cell
  BY DEF TypeOK
<1>4. ASSUME NEW x \in Key, mapData'[x] # NoCell
      PROVE  cell'[mapData'[x]].key = x
  <2>1. CASE x = k
    BY <2>1, <1>1, <1>2
  <2>2. CASE x # k
    <3>1. mapData'[x] = mapData[x] /\ mapData[x] # paiMing[s]
      BY <2>2, <1>1, <1>4
    <3>2. mapData[x] \in Cell /\ cell[mapData[x]].key = x
      BY <3>1, <1>4 DEF TypeOK, TableInv, Consistent
    <3> QED
      BY <3>1, <3>2, <1>2
  <2> QED
    BY <2>1, <2>2
<1>5. ASSUME NEW c \in Cell, cell'[c].key # NoKey
      PROVE  mapData'[cell'[c].key] = c
  <2>1. CASE c = paiMing[s]
    BY <2>1, <1>1, <1>2
  <2>2. CASE c # paiMing[s]
    <3>1. cell'[c].key = cell[c].key /\ cell[c].key \in Key
      BY <2>2, <1>2, <1>5 DEF TypeOK
    <3>2. mapData[cell[c].key] = c
      BY <3>1, <1>5 DEF TableInv, Consistent
    <3>3. cell[c].key # k
      BY <2>2, <3>2, <1>1
    <3> QED
      BY <2>2, <3>1, <3>2, <3>3, <1>1
  <2> QED
    BY <2>1, <2>2
<1> QED
  BY <1>1, <1>2, <1>4, <1>5 DEF TableInv, Consistent

(* The player comes to the place asked for; the others stay, or move down  *)
(* by one, and nobody comes back who is off the table.                     *)
LEMMA AddDataRanks ==
  ASSUME TypeOK, TableInv, NEW k \in Key, NEW r \in Rank, r <= GetPaiMing(k),
         AddData(k, r)
  PROVE  /\ GetPaiMing(k)' = r
         /\ \A x \in Key \ {k} :
              /\ GetPaiMing(x)' = GetPaiMing(x) \/ GetPaiMing(x)' = GetPaiMing(x) + 1
              /\ GetPaiMing(x) = PaiMingCount => GetPaiMing(x)' = PaiMingCount
<1> USE ConstantFacts
<1>1. PICK s \in Rank :
        /\ r <= s
        /\ Place(k, r, s)
        /\ mapData'[k] = paiMing[s]
        /\ \A x \in Key \ {k} : mapData[x] = paiMing[s] => mapData'[x] = NoCell /\ s = Last
        /\ \A x \in Key \ {k} : mapData[x] # paiMing[s] => mapData'[x] = mapData[x]
  BY AddDataMoves
<1>2. /\ cell'[paiMing[s]].mingCi = r
      /\ \A c \in Cell : c # paiMing[s] =>
           cell'[c].mingCi = cell[c].mingCi + 1 \/ cell'[c].mingCi = cell[c].mingCi
  BY <1>1, PlaceFacts
<1>3. GetPaiMing(k)' = r
  BY <1>1, <1>2 DEF GetPaiMing, TypeOK
<1>4. ASSUME NEW x \in Key \ {k}
      PROVE  /\ GetPaiMing(x)' = GetPaiMing(x) \/ GetPaiMing(x)' = GetPaiMing(x) + 1
             /\ GetPaiMing(x) = PaiMingCount => GetPaiMing(x)' = PaiMingCount
  <2>1. CASE mapData[x] = NoCell
    <3>1. mapData[x] # paiMing[s]
      BY <2>1 DEF TypeOK
    <3> QED
      BY <2>1, <3>1, <1>1 DEF GetPaiMing
  <2>2. CASE mapData[x] # NoCell /\ mapData[x] = paiMing[s]
    <3>1. GetPaiMing(x)' = PaiMingCount /\ s = Last
      BY <2>2, <1>1 DEF GetPaiMing
    <3>2. GetPaiMing(x) = s
      BY <2>2 DEF GetPaiMing, TableInv, Consistent, CellKnowsPlace
    <3> QED
      BY <3>1, <3>2 DEF Last
  <2>3. CASE mapData[x] # NoCell /\ mapData[x] # paiMing[s]
    <3>1. mapData'[x] = mapData[x] /\ mapData[x] \in Cell
      BY <2>3, <1>1 DEF TypeOK
    <3>2. GetPaiMing(x) = cell[mapData[x]].mingCi /\ GetPaiMing(x)' = cell'[mapData[x]].mingCi
      BY <2>3, <3>1 DEF GetPaiMing
    <3>3. GetPaiMing(x) # PaiMingCount
      BY <2>3, RankFacts
    <3> QED
      BY <2>3, <3>1, <3>2, <3>3, <1>2
  <2> QED
    BY <2>1, <2>2, <2>3
<1> QED
  BY <1>3, <1>4

(* Who was ahead of another player still is, unless that one is k.         *)
LEMMA AheadStays ==
  ASSUME TypeOK, TableInv, NEW k \in Key, NEW r \in Rank, r <= GetPaiMing(k),
         AddData(k, r)
  PROVE  \A x \in Key, y \in Key \ {k} :
           GetPaiMing(x) <= GetPaiMing(y) => GetPaiMing(x)' <= GetPaiMing(y)'
<1> USE ConstantFacts
<1>1. /\ GetPaiMing(k)' = r
      /\ \A x \in Key \ {k} :
           /\ GetPaiMing(x)' = GetPaiMing(x) \/ GetPaiMing(x)' = GetPaiMing(x) + 1
           /\ GetPaiMing(x) = PaiMingCount => GetPaiMing(x)' = PaiMingCount
  BY AddDataRanks
<1>2. \A x \in Key : GetPaiMing(x) \in Nat /\ GetPaiMing(x) <= PaiMingCount
  BY RankFacts
<1>3. \A x, y \in Key :
        GetPaiMing(x) = GetPaiMing(y) /\ GetPaiMing(y) # PaiMingCount => x = y
  BY RankFacts
<1> SUFFICES ASSUME NEW x \in Key, NEW y \in Key \ {k}, GetPaiMing(x) <= GetPaiMing(y)
             PROVE  GetPaiMing(x)' <= GetPaiMing(y)'
  OBVIOUS
<1>4. r \in Nat
  OBVIOUS
<1>5. CASE x = k
  BY <1>1, <1>2, <1>4, <1>5
<1>6. CASE x # k /\ GetPaiMing(x) = GetPaiMing(y)
  BY <1>1, <1>2, <1>3, <1>6
<1>7. CASE x # k /\ GetPaiMing(x) < GetPaiMing(y)
  BY <1>1, <1>2, <1>7
<1> QED
  BY <1>2, <1>5, <1>6, <1>7

(* Where the table does not change, no player's place does. *)
LEMMA SameTable ==
  ASSUME UNCHANGED tableVars
  PROVE  /\ \A k \in Key : GetPaiMing(k)' = GetPaiMing(k)
         /\ \A i \in Rank : KeyAt(i)' = KeyAt(i)
         /\ TableInv => TableInv'
BY DEF tableVars, GetPaiMing, KeyAt, TableInv, Consistent, CellKnowsPlace, EveryCellPlaced

(* The target of an open fight is a place, or beyond the table. *)
LEMMA TargetFacts ==
  ASSUME TypeOK, TableInv, NEW d \in Key \cup {NoKey}, NEW r \in Rank \cup {NoRank}
  PROVE  Target(d, r) \in Nat /\ Target(d, r) <= PaiMingCount
<1>1. CASE d = NoKey
  BY <1>1, ConstantFacts DEF Target
<1>2. CASE d # NoKey
  BY <1>2, RankFacts DEF Target
<1> QED
  BY <1>1, <1>2

(* The initial table is consistent, and empty. *)
LEMMA InitInv == Init => IInv
<1> SUFFICES ASSUME Init PROVE IInv
  OBVIOUS
<1> USE ConstantFacts DEF Init
<1>1. TypeOK
  <2>1. NoFight \in [dst : Key \cup {NoKey}, rank : Rank \cup {NoRank}]
    BY DEF NoFight
  <2>2. 0 \in 0 .. PaiMingCount
    OBVIOUS
  <2> QED
    BY <2>1, <2>2 DEF TypeOK
<1>2. Consistent /\ EveryCellPlaced
  BY DEF Consistent, CellKnowsPlace, EveryCellPlaced
<1>3. LoadInv
  BY DEF LoadInv, KeyAt
<1>4. FightInv
  BY DEF FightInv
<1> QED
  BY <1>1, <1>2, <1>3, <1>4 DEF IInv

(* A record is put into the local array; the table stays empty. *)
LEMMA ReadRecordInv ==
  ASSUME IInv, NEW k \in Key, ReadRecord(k)
  PROVE  IInv'
<1> USE ConstantFacts DEF IInv, ReadRecord
<1>1. PICK i \in Rank \cup {NoRank} :
        \/ i = NoRank /\ loaded' = loaded
        \/ i \in Rank /\ loaded[i] = NoKey /\ loaded' = [loaded EXCEPT ![i] = k]
  OBVIOUS
<1>2. TypeOK'
  BY <1>1 DEF TypeOK, tableVars
<1>3. TableInv'
  BY SameTable DEF TableInv
<1>4. next = 0 /\ mapData[k] = NoCell
  <2>1. next = 0 /\ \A j \in Rank : KeyAt(j) = NoKey
    BY DEF LoadInv
  <2> QED
    BY <2>1, RankFacts DEF TableInv
<1>5. LoadInv'
  <2>1. \A j \in Rank : loaded'[j] = loaded[j] \/ (j = i /\ loaded'[j] = k)
    BY <1>1 DEF TypeOK
  <2>2. \A j \in Rank : loaded[j] # k
    BY DEF LoadInv
  <2>3. \A j, l \in Rank : loaded'[j] = loaded'[l] /\ loaded'[j] # NoKey => j = l
    BY <2>1, <2>2 DEF LoadInv
  <2>4. ASSUME NEW x \in Key, stored'[x] # NoRank
        PROVE  next' = 0 /\ \A j \in Rank : loaded'[j] # x
    <3>1. x # k /\ stored'[x] = stored[x]
      BY <2>4 DEF TypeOK
    <3> QED
      BY <2>1, <2>4, <3>1 DEF LoadInv
  <2>5. ASSUME NEW j \in Rank
        PROVE  KeyAt(j)' = NoKey /\ \A x \in Key : loaded'[j] = x => mapData'[x] = NoCell
    <3>1. KeyAt(j)' = NoKey
      BY <1>4, SameTable DEF LoadInv
    <3> QED
      BY <3>1, <2>1, <1>4 DEF LoadInv, tableVars
  <2>6. ~Serving' => \A f \in Fight : open'[f] = NoFight
    BY DEF LoadInv, Serving
  <2> QED
    BY <2>3, <2>4, <2>5, <2>6 DEF LoadInv
<1>6. FightInv'
  <2>1. \A f \in Fight : open'[f] = NoFight
    BY <1>4 DEF LoadInv, Serving
  <2> QED
    BY <2>1 DEF FightInv
<1> QED
  BY <1>2, <1>3, <1>5, <1>6 DEF TableInv

(* The player of the next place comes to a place that is still free. *)
LEMMA ReadPlaceFills ==
  ASSUME IInv, ReadPlace, loaded[next] # NoKey
  PROVE  /\ next \in Rank /\ loaded[next] \in Key
         /\ GetPaiMing(loaded[next]) = PaiMingCount
         /\ AddDataFill(loaded[next], next)
<1> USE ConstantFacts DEF IInv, ReadPlace
<1>1. next \in Rank /\ loaded[next] \in Key
  <2>1. next \in 0 .. PaiMingCount /\ next # PaiMingCount
    BY DEF TypeOK, Serving
  <2>2. next \in Rank
    BY <2>1
  <2> QED
    BY <2>2 DEF TypeOK
<1>2. mapData[loaded[next]] = NoCell /\ KeyAt(next) = NoKey
  BY <1>1 DEF LoadInv, TypeOK
<1>3. GetPaiMing(loaded[next]) = PaiMingCount
  BY <1>2 DEF GetPaiMing
<1> QED
  BY <1>1, <1>2, <1>3 DEF AddData, AddDataPush, AddDataMove

(* A place is taken over from the local array. *)
LEMMA ReadPlaceInv ==
  ASSUME IInv, ReadPlace
  PROVE  IInv'
<1> USE ConstantFacts DEF IInv, ReadPlace
<1>1. next \in Nat /\ next < PaiMingCount /\ next' = next + 1 /\ next' \in 0 .. PaiMingCount
  <2>1. next \in 0 .. PaiMingCount /\ next # PaiMingCount /\ next' = next + 1
    BY DEF TypeOK, Serving
  <2> QED
    BY <2>1
<1>2. \A f \in Fight : open'[f] = NoFight
  BY DEF LoadInv
<1>3. FightInv'
  BY <1>2 DEF FightInv
<1>4. CASE loaded[next] = NoKey
  <2>1. TypeOK' /\ TableInv'
    BY <1>1, <1>4, SameTable DEF TypeOK, tableVars, TableInv
  <2>2. LoadInv'
    BY <1>1, <1>2, <1>4, SameTable DEF LoadInv, tableVars
  <2> QED
    BY <1>3, <2>1, <2>2 DEF TableInv
<1>5. CASE loaded[next] # NoKey
  <2> DEFINE k == loaded[next]
  <2>1. k \in Key /\ next \in Rank /\ next <= GetPaiMing(k) /\ AddDataFill(k, next) /\ AddData(k, next)
    BY <1>1, <1>5, ReadPlaceFills DEF AddData
  <2> HIDE DEF k
  <2>2. /\ paiMing' \in [Rank -> Cell]
        /\ cell' \in [Cell -> [key : Key \cup {NoKey}, mingCi : Rank]]
        /\ mapData' \in [Key -> Cell \cup {NoCell}]
        /\ TableInv'
    BY <2>1, AddDataTable DEF TableInv
  <2>3. TypeOK'
    BY <1>1, <2>2 DEF TypeOK
  <2>4. \A i \in Rank : next < i => KeyAt(i)' = KeyAt(i)
    BY <1>1, <2>1, PlaceFacts DEF AddDataFill, TableInv
  <2>5. \A x \in Key : x # k => mapData'[x] = mapData[x]
    BY <2>1 DEF AddDataFill, TypeOK
  <2>6. \A i \in Rank : next < i => loaded[i] # k
    BY <1>1, <1>5, <2>1 DEF LoadInv, k
  <2>7. ASSUME NEW i \in Rank, i >= next'
        PROVE  KeyAt(i)' = NoKey /\ \A x \in Key : loaded'[i] = x => mapData'[x] = NoCell
    <3>1. next < i /\ i >= next
      BY <1>1, <2>7
    <3> QED
      BY <3>1, <2>4, <2>5, <2>6 DEF LoadInv
  <2>8. LoadInv'
    BY <1>2, <2>7 DEF LoadInv
  <2> QED
    BY <1>3, <2>2, <2>3, <2>8 DEF TableInv
<1> QED
  BY <1>4, <1>5

(* The parts about the table and the loading do not speak of the fights    *)
(* once the ranking is in service.                                         *)
LEMMA OpenOnly ==
  ASSUME IInv, UNCHANGED <<tableVars, stored, loaded, next>>,
         Serving, open' \in [Fight -> [dst : Key \cup {NoKey}, rank : Rank \cup {NoRank}]]
  PROVE  TypeOK' /\ TableInv' /\ LoadInv'
<1>1. TypeOK'
  BY DEF IInv, TypeOK, tableVars
<1>2. TableInv'
  BY SameTable DEF IInv, TableInv
<1>3. LoadInv'
  BY SameTable DEF IInv, LoadInv, Serving, tableVars
<1> QED
  BY <1>1, <1>2, <1>3

(* Where neither the table nor the fight changes, its target stays ahead.  *)
LEMMA FightStays ==
  ASSUME FightInv, UNCHANGED tableVars, NEW g \in Fight,
         open'[g] = open[g], open'[g] # NoFight
  PROVE  Target(open[g].dst, open[g].rank)' <= GetPaiMing(Player[g])'
<1>1. Target(open[g].dst, open[g].rank)' = Target(open[g].dst, open[g].rank)
  BY DEF tableVars, Target, GetPaiMing
<1>2. GetPaiMing(Player[g])' = GetPaiMing(Player[g])
  BY DEF tableVars, GetPaiMing
<1> QED
  BY <1>1, <1>2 DEF FightInv

(* A fight is begun with a target that is not behind the challenger. *)
LEMMA TiaoZhanInv ==
  ASSUME IInv, NEW f \in Fight, NEW dst \in Key \cup {NoKey}, NEW r \in Rank,
         TiaoZhan(f, dst, r)
  PROVE  IInv'
<1> USE ConstantFacts DEF IInv
<1> DEFINE t == Target(dst, r)
           k == Player[f]
<1>1. k \in Key
  BY ConstantsAssumption
<1>2. t \in Rank /\ t <= GetPaiMing(k)
  <2>1. t \in Nat /\ GetPaiMing(k) \in Nat
    BY <1>1, TargetFacts, RankFacts DEF TableInv
  <2>2. t < PaiMingCount /\ t <= IF GetPaiMing(k) = NoRank THEN Last ELSE GetPaiMing(k)
    BY DEF TiaoZhan, Accepted
  <2> HIDE DEF t
  <2>3. t \in Rank
    BY <2>1, <2>2
  <2> QED
    BY <2>1, <2>2, <2>3 DEF Last
<1>3. PICK known \in {KeyAt(t), NoKey} : open' = [open EXCEPT ![f] = [dst |-> known, rank |-> t]]
  BY DEF TiaoZhan
<1>4. known \in Key \cup {NoKey}
  BY <1>2, <1>3 DEF KeyAt, TypeOK
<1>5. UNCHANGED <<tableVars, stored, loaded, next>> /\ Serving
  BY DEF TiaoZhan
<1>6. Target(known, t) = t
  <2>1. CASE known = NoKey
    BY <2>1 DEF Target
  <2>2. CASE known # NoKey
    <3>1. known = KeyAt(t) /\ KeyAt(t) # NoKey
      BY <2>2, <1>3
    <3>2. GetPaiMing(KeyAt(t)) = t
      BY <3>1, <1>2, RankFacts DEF TableInv
    <3> QED
      BY <3>1, <3>2, <2>2 DEF Target
  <2> QED
    BY <2>1, <2>2
<1> HIDE DEF t, k
<1>7. open' \in [Fight -> [dst : Key \cup {NoKey}, rank : Rank \cup {NoRank}]]
  BY <1>2, <1>3, <1>4 DEF TypeOK
<1>8. TypeOK' /\ TableInv' /\ LoadInv'
  BY <1>5, <1>7, OpenOnly
<1>9. ASSUME NEW g \in Fight, open'[g] # NoFight
      PROVE  Target(open[g].dst, open[g].rank)' <= GetPaiMing(Player[g])'
  <2>1. CASE g = f
    <3>1. open'[g].dst = known /\ open'[g].rank = t
      BY <2>1, <1>3 DEF TypeOK
    <3>2. Target(open[g].dst, open[g].rank)' = Target(known, t)
      BY <3>1, <1>5 DEF tableVars, Target, GetPaiMing
    <3>3. GetPaiMing(Player[g])' = GetPaiMing(Player[g])
      BY <1>5 DEF tableVars, GetPaiMing
    <3> QED
      BY <3>2, <3>3, <2>1, <1>2, <1>6 DEF k
  <2>2. CASE g # f
    <3>1. open'[g] = open[g]
      BY <2>2, <1>3 DEF TypeOK
    <3> QED
      BY <3>1, <1>5, <1>9, FightStays
  <2> QED
    BY <2>1, <2>2
<1>10. FightInv'
  BY <1>9 DEF FightInv
<1> QED
  BY <1>8, <1>10 DEF TableInv

(* A lost fight is closed. *)
LEMMA LoseInv ==
  ASSUME IInv, NEW f \in Fight, Lose(f)
  PROVE  IInv'
<1> USE ConstantFacts DEF IInv, Lose
<1>1. open' \in [Fight -> [dst : Key \cup {NoKey}, rank : Rank \cup {NoRank}]]
  BY DEF TypeOK, NoFight
<1>2. Serving
  BY DEF LoadInv
<1>3. TypeOK' /\ TableInv' /\ LoadInv'
  BY <1>1, <1>2, OpenOnly
<1>4. ASSUME NEW g \in Fight, open'[g] # NoFight
      PROVE  Target(open[g].dst, open[g].rank)' <= GetPaiMing(Player[g])'
  <2>1. open'[g] = open[g]
    BY <1>4 DEF TypeOK
  <2> QED
    BY <2>1, <1>4, FightStays
<1>5. FightInv'
  BY <1>4 DEF FightInv
<1> QED
  BY <1>3, <1>5 DEF TableInv

(* A reported fight moves its player no further than it asked for: the     *)
(* target is still ahead, because the player had no other fight.  For the  *)
(* fights of others, a target that moves down by one stays ahead of its    *)
(* challenger.                                                             *)
LEMMA AddDataByUseIDInv ==
  ASSUME OneFight, IInv, NEW f \in Fight, AddDataByUseID(f)
  PROVE  IInv'
<1> USE ConstantFacts DEF IInv
<1> DEFINE t == Target(open[f].dst, open[f].rank)
           k == Player[f]
<1>1. k \in Key /\ Serving
  BY ConstantsAssumption DEF AddDataByUseID, LoadInv
<1>2. t \in Nat /\ t <= GetPaiMing(k)
  <2>1. open[f].dst \in Key \cup {NoKey} /\ open[f].rank \in Rank \cup {NoRank}
    BY DEF TypeOK
  <2> QED
    BY <2>1, TargetFacts DEF TableInv, FightInv, AddDataByUseID
<1>3. /\ IF t < PaiMingCount THEN AddData(k, t) ELSE UNCHANGED tableVars
      /\ open' = [open EXCEPT ![f] = NoFight]
      /\ UNCHANGED <<stored, loaded, next>>
  BY DEF AddDataByUseID
<1> HIDE DEF t, k
<1>4. open' \in [Fight -> [dst : Key \cup {NoKey}, rank : Rank \cup {NoRank}]]
  BY <1>3 DEF TypeOK, NoFight
<1>5. CASE ~(t < PaiMingCount)
  <2>1. UNCHANGED <<tableVars, stored, loaded, next>>
    BY <1>3, <1>5
  <2>2. TypeOK' /\ TableInv' /\ LoadInv'
    BY <2>1, <1>1, <1>4, OpenOnly
  <2>3. ASSUME NEW g \in Fight, open'[g] # NoFight
        PROVE  Target(open[g].dst, open[g].rank)' <= GetPaiMing(Player[g])'
    <3>1. open'[g] = open[g]
      BY <2>3, <1>3 DEF TypeOK
    <3> QED
      BY <3>1, <2>1, <2>3, FightStays
  <2> QED
    BY <2>2, <2>3 DEF FightInv, TableInv
<1>6. CASE t < PaiMingCount
  <2>1. t \in Rank /\ AddData(k, t)
    BY <1>2, <1>3, <1>6
  <2>2. /\ paiMing' \in [Rank -> Cell]
        /\ cell' \in [Cell -> [key : Key \cup {NoKey}, mingCi : Rank]]
        /\ mapData' \in [Key -> Cell \cup {NoCell}]
        /\ TableInv'
    BY <2>1, <1>1, <1>2, AddDataTable DEF TableInv
  <2>3. TypeOK'
    BY <2>2, <1>3, <1>4 DEF TypeOK
  <2>4. LoadInv'
    <3>1. next = PaiMingCount /\ next' = PaiMingCount
      BY <1>1, <1>3 DEF Serving
    <3>2. \A i \in Rank : ~(i >= next')
      BY <3>1
    <3>3. \A x \in Key : stored[x] = NoRank
      BY <3>1 DEF LoadInv
    <3> QED
      BY <1>3, <3>1, <3>2, <3>3 DEF LoadInv, Serving
  <2>5. /\ \A x \in Key, y \in Key \ {k} :
             GetPaiMing(x) <= GetPaiMing(y) => GetPaiMing(x)' <= GetPaiMing(y)'
        /\ \A x \in Key \ {k} :
             GetPaiMing(x)' = GetPaiMing(x) \/ GetPaiMing(x)' = GetPaiMing(x) + 1
    BY <2>1, <1>1, <1>2, AddDataRanks, AheadStays DEF TableInv
  <2>6. \A x \in Key : GetPaiMing(x) \in Nat /\ GetPaiMing(x) <= PaiMingCount
    BY RankFacts DEF TableInv
  <2>7. ASSUME NEW g \in Fight, open'[g] # NoFight
        PROVE  Target(open[g].dst, open[g].rank)' <= GetPaiMing(Player[g])'
    <3> DEFINE p == Player[g]
    <3>1. open'[g] = open[g] /\ g # f
      BY <2>7, <1>3 DEF TypeOK
    <3>2. PICK d \in Key \cup {NoKey}, q \in Rank \cup {NoRank} : open[g].dst = d /\ open[g].rank = q
      BY DEF TypeOK
    <3>3. p \in Key /\ p # k
      BY <3>1, ConstantsAssumption DEF OneFight, k
    <3>4. /\ Target(d, q) <= GetPaiMing(p)
          /\ Target(open[g].dst, open[g].rank)' = IF d = NoKey THEN q ELSE GetPaiMing(d)'
          /\ Target(d, q) = IF d = NoKey THEN q ELSE GetPaiMing(d)
      BY <3>1, <3>2, <2>7 DEF FightInv, Target, GetPaiMing
    <3>5. CASE d = NoKey
      <4>1. q \in Nat /\ q <= GetPaiMing(p)
        BY <3>2, <3>4, <3>5
      <4> HIDE DEF p
      <4>2. q <= GetPaiMing(p)'
        BY <4>1, <3>3, <2>5, <2>6
      <4> QED
        BY <4>2, <3>4, <3>5 DEF p
    <3>6. CASE d # NoKey
      <4>1. GetPaiMing(d)' <= GetPaiMing(p)'
        BY <3>2, <3>3, <3>4, <3>6, <2>5
      <4> QED
        BY <4>1, <3>4, <3>6
    <3> QED
      BY <3>5, <3>6
  <2> QED
    BY <2>2, <2>3, <2>4, <2>7 DEF FightInv, TableInv
<1> QED
  BY <1>5, <1>6

(* Every step keeps the invariant. *)
LEMMA StepInv ==
  ASSUME OneFight, IInv, [Next]_vars
  PROVE  IInv'
<1>1. ASSUME NEW k \in Key, ReadRecord(k) PROVE IInv'
  BY <1>1, ReadRecordInv
<1>2. ASSUME ReadPlace PROVE IInv'
  BY <1>2, ReadPlaceInv
<1>3. ASSUME NEW f \in Fight, NEW dst \in Key \cup {NoKey}, NEW r \in Rank, TiaoZhan(f, dst, r)
      PROVE  IInv'
  BY <1>3, TiaoZhanInv
<1>4. ASSUME NEW f \in Fight, AddDataByUseID(f) PROVE IInv'
  BY <1>4, AddDataByUseIDInv
<1>5. ASSUME NEW f \in Fight, Lose(f) PROVE IInv'
  BY <1>5, LoseInv
<1>6. ASSUME UNCHANGED vars PROVE IInv'
  <2> USE <1>6 DEF vars, tableVars, IInv
  <2>1. TypeOK'
    BY DEF TypeOK
  <2>2. TableInv'
    BY SameTable DEF TableInv
  <2>3. LoadInv'
    BY DEF LoadInv, KeyAt, Serving
  <2>4. FightInv'
    BY DEF FightInv, Target, GetPaiMing
  <2> QED
    BY <2>1, <2>2, <2>3, <2>4 DEF TableInv
<1> QED
  BY <1>1, <1>2, <1>3, <1>4, <1>5, <1>6 DEF Next, FightStep

(* A step that changes the table puts one player at a place that is not    *)
(* behind the one it held: the winner of a fight that is closed, or a      *)
(* player whose record is loaded, with nobody on the table behind it.      *)
LEMMA TableStep ==
  ASSUME IInv, [Next]_vars
  PROVE  \/ UNCHANGED tableVars
         \/ \E k \in Key, r \in Rank :
              /\ r <= GetPaiMing(k)
              /\ AddData(k, r)
              /\ \/ \E f \in Fight : Player[f] = k /\ open[f] # NoFight /\ open'[f] = NoFight
                 \/ \A i \in Rank : i >= r => KeyAt(i) = NoKey
<1> USE ConstantFacts
<1> DEFINE Put == \E k \in Key, r \in Rank :
                    /\ r <= GetPaiMing(k)
                    /\ AddData(k, r)
                    /\ \/ \E f \in Fight : Player[f] = k /\ open[f] # NoFight /\ open'[f] = NoFight
                       \/ \A i \in Rank : i >= r => KeyAt(i) = NoKey
<1>1. ASSUME ReadPlace, loaded[next] # NoKey PROVE Put
  <2> DEFINE k == loaded[next]
             r == next
  <2>1. k \in Key /\ r \in Rank /\ GetPaiMing(k) = PaiMingCount /\ AddDataFill(k, r)
    BY <1>1, ReadPlaceFills
  <2>2. \A i \in Rank : i >= r => KeyAt(i) = NoKey
    BY DEF IInv, LoadInv
  <2> HIDE DEF k, r
  <2>3. AddData(k, r) /\ r <= GetPaiMing(k)
    BY <2>1 DEF AddData
  <2> QED
    BY <2>1, <2>2, <2>3
<1>2. ASSUME NEW f \in Fight, AddDataByUseID(f), ~UNCHANGED tableVars PROVE Put
  <2> DEFINE k == Player[f]
             r == Target(open[f].dst, open[f].rank)
  <2>1. k \in Key
    BY ConstantsAssumption
  <2>2. r \in Nat /\ r < PaiMingCount /\ r <= GetPaiMing(k) /\ AddData(k, r)
    <3>1. open[f].dst \in Key \cup {NoKey} /\ open[f].rank \in Rank \cup {NoRank}
      BY DEF IInv, TypeOK
    <3> QED
      BY <3>1, <1>2, TargetFacts DEF IInv, TableInv, FightInv, AddDataByUseID
  <2>3. open[f] # NoFight /\ open'[f] = NoFight
    BY <1>2 DEF AddDataByUseID, IInv, TypeOK
  <2> HIDE DEF r
  <2>4. r \in Rank
    BY <2>2
  <2> QED
    BY <2>1, <2>2, <2>3, <2>4
<1> HIDE DEF Put
<1>3. ASSUME Next PROVE UNCHANGED tableVars \/ Put
  <2>1. ASSUME NEW k \in Key, ReadRecord(k) PROVE UNCHANGED tableVars
    BY <2>1 DEF ReadRecord
  <2>2. ASSUME ReadPlace PROVE UNCHANGED tableVars \/ Put
    BY <1>1, <2>2 DEF ReadPlace
  <2>3. ASSUME NEW f \in Fight, FightStep(f) PROVE UNCHANGED tableVars \/ Put
    BY <1>2, <2>3 DEF FightStep, TiaoZhan, Lose
  <2> QED
    BY <1>3, <2>1, <2>2, <2>3 DEF Next
<1> QED
  BY <1>3 DEF vars, Put

(* The invariant of the ranking holds, as long as nobody has two fights    *)
(* open at once.                                                           *)
THEOREM Invariance ==
  ASSUME OneFight
  PROVE  Spec => []IInv
<1>1. IInv /\ [Next]_vars => IInv'
  BY StepInv
<1> QED
  BY <1>1, InitInv, PTL DEF Spec

(* Type correctness of the table, the map, the records and the fights. *)
THEOREM TypeCorrect ==
  ASSUME OneFight
  PROVE  Spec => []TypeOK
<1>1. IInv => TypeOK
  BY DEF IInv
<1> QED
  BY <1>1, Invariance, PTL

(* Whatever fights overlap, the table, the cells and the map agree after   *)
(* every handler: the assertions of AddData hold and nobody has two places.*)
THEOREM TableConsistent ==
  ASSUME OneFight
  PROVE  Spec => []Consistent
<1>1. IInv => Consistent
  BY DEF IInv
<1> QED
  BY <1>1, Invariance, PTL

(* Only the winner of a fight passes somebody; who is moved down by the    *)
(* fights of others keeps the order, and loading never reorders players.   *)
THEOREM WinnerOvertakes ==
  ASSUME OneFight
  PROVE  Spec => OnlyWinnerOvertakes
<1>1. ASSUME IInv, [Next]_vars PROVE PassesByFight
  <2> USE ConstantFacts
  <2> SUFFICES ASSUME NEW j \in Key, NEW k \in Key,
                      GetPaiMing(j) < GetPaiMing(k), GetPaiMing(j)' > GetPaiMing(k)'
               PROVE  \E f \in Fight : Player[f] = k /\ open[f] # NoFight /\ open'[f] = NoFight
    BY DEF PassesByFight
  <2>1. TypeOK /\ TableInv
    BY <1>1 DEF IInv, TableInv
  <2>2. \A x \in Key : GetPaiMing(x) \in Nat
    BY <2>1, RankFacts
  <2>3. ~UNCHANGED tableVars
    BY <2>2, SameTable
  <2>4. PICK x \in Key, r \in Rank :
          /\ r <= GetPaiMing(x)
          /\ AddData(x, r)
          /\ \/ \E f \in Fight : Player[f] = x /\ open[f] # NoFight /\ open'[f] = NoFight
             \/ \A i \in Rank : i >= r => KeyAt(i) = NoKey
    BY <1>1, <2>3, TableStep
  <2>5. /\ GetPaiMing(x)' = r
        /\ \A y \in Key \ {x} : GetPaiMing(y)' = GetPaiMing(y) \/ GetPaiMing(y)' = GetPaiMing(y) + 1
        /\ \A y \in Key, z \in Key \ {x} :
             GetPaiMing(y) <= GetPaiMing(z) => GetPaiMing(y)' <= GetPaiMing(z)'
    BY <2>1, <2>4, AddDataRanks, AheadStays
  <2>6. x = k /\ j # k
    <3>1. ASSUME x # k PROVE FALSE
      <4>1. GetPaiMing(j)' <= GetPaiMing(k)'
        BY <2>2, <2>5, <3>1
      <4>2. GetPaiMing(j)' \in Nat /\ GetPaiMing(k)' \in Nat
        BY <2>2, <2>5, <3>1
      <4> QED
        BY <4>1, <4>2
    <3> QED
      BY <3>1, <2>2
  <2>7. ASSUME \A i \in Rank : i >= r => KeyAt(i) = NoKey PROVE FALSE
    <3>1. mapData[j] # NoCell
      BY <2>1, <2>2, <2>6, RankFacts
    <3>2. GetPaiMing(j) \in Rank /\ KeyAt(GetPaiMing(j)) = j
      BY <3>1, <2>1, RankFacts
    <3>3. GetPaiMing(j) < r
      BY <3>2, <2>7
    <3> QED
      BY <3>3, <2>2, <2>5, <2>6
  <2> QED
    BY <2>4, <2>6, <2>7
<1> QED
  BY <1>1, Invariance, PTL DEF Spec, OnlyWinnerOvertakes

(* Seen from outside, the ranking is a ladder. *)
THEOREM RefinesLadder ==
  ASSUME OneFight
  PROVE  Spec => ImplementsLadder
<1> DEFINE l == [i \in Rank |-> KeyAt(i)]
<1>1. Init => LadderOf!Init
  BY ConstantFacts DEF Init, LadderOf!Init, LadderOf!Rank, Rank, KeyAt
<1>2. ASSUME IInv, [Next]_vars PROVE [LadderOf!Next]_l
  <2> USE ConstantFacts
  <2>1. CASE UNCHANGED tableVars
    <3>1. \A i \in Rank : KeyAt(i)' = KeyAt(i)
      BY <2>1, SameTable
    <3> QED
      BY <3>1
  <2>2. CASE ~UNCHANGED tableVars
    <3>1. TypeOK /\ TableInv
      BY <1>2 DEF IInv, TableInv
    <3>2. PICK k \in Key, r \in Rank : r <= GetPaiMing(k) /\ AddData(k, r)
      BY <1>2, <2>2, TableStep
    <3>3. PICK s \in Rank : r <= s /\ Place(k, r, s) /\ LadderOf!Vacates(k, r, s)
      BY <3>1, <3>2, AddDataMoves
    <3>4. /\ KeyAt(r)' = k
          /\ \A i \in Rank : r < i /\ i <= s => KeyAt(i)' = KeyAt(i - 1)
          /\ \A i \in Rank : i < r \/ s < i => KeyAt(i)' = KeyAt(i)
      BY <3>1, <3>3, PlaceFacts
    <3>5. \A i \in Rank : KeyAt(i)' = IF i = r THEN k
                                      ELSE IF r < i /\ i <= s THEN l[i - 1] ELSE l[i]
      BY <3>4 DEF Rank
    <3>6. l' = [i \in LadderOf!Rank |-> IF i = r THEN k
                                        ELSE IF r < i /\ i <= s THEN l[i - 1] ELSE l[i]]
      BY <3>5 DEF LadderOf!Rank, Rank
    <3>7. LadderOf!Put(k, r, s)
      BY <3>3, <3>6 DEF LadderOf!Put
    <3> QED
      BY <3>7 DEF LadderOf!Next, LadderOf!Rank, Rank
  <2> QED
    BY <2>1, <2>2
<1> QED
  BY <1>1, <1>2, Invariance, PTL DEF Spec, ImplementsLadder, LadderOf!Spec

(* Where the window of GetMoreThanSelf begins and ends. *)
LEMMA WindowFacts ==
  ASSUME TypeOK, TableInv, NEW k \in Key, TiaoZhanMingCiNum < PaiMingCount
  PROVE  /\ MingCiBegin(k) \in Nat /\ MingCiEnd(k) \in Nat
         /\ MingCiEnd(k) < PaiMingCount
         /\ MingCiEnd(k) <= MingCiBegin(k) + (6 * TiaoZhanMingCiNum) \div 5
         /\ \A t \in Rank : Accepted(k, t) => MingCiBegin(k) <= t /\ t <= MingCiEnd(k)
<1> DEFINE n == PaiMingCount
           m == TiaoZhanMingCiNum
           g == GetPaiMing(k)
           e == (6 * m) \div 5
<1>1. n \in Nat /\ m \in Nat /\ g \in Nat /\ m < n /\ g <= n
  BY RankFacts, ConstantFacts
<1>2. e \in Nat /\ m <= e
  BY <1>1
<1>3. MingCiBegin(k) = IF g = n THEN n - m - 1 ELSE IF g >= m THEN g - m ELSE 0
  BY DEF MingCiBegin, NoRank
<1>4. MingCiEnd(k) = IF MingCiBegin(k) + e <= n - 1 THEN MingCiBegin(k) + e ELSE n - 1
  BY DEF MingCiEnd, MinOf, Last
<1>5. ASSUME NEW t \in Rank, Accepted(k, t)
      PROVE  /\ t \in Nat /\ t < n
             /\ t <= IF g = n THEN n - 1 ELSE g
             /\ (IF g = n THEN n - 1 ELSE g) <= t + m
  BY <1>5, ConstantFacts DEF Accepted, NoRank, Last
<1> HIDE DEF n, m, g, e
<1>6. MingCiBegin(k) \in Nat
  BY <1>1, <1>3
<1>7. MingCiEnd(k) \in Nat /\ MingCiEnd(k) < n /\ MingCiEnd(k) <= MingCiBegin(k) + e
  BY <1>1, <1>2, <1>4, <1>6
<1>8. ASSUME NEW t \in Rank, Accepted(k, t)
      PROVE  MingCiBegin(k) <= t /\ t <= MingCiEnd(k)
  BY <1>1, <1>2, <1>3, <1>4, <1>5, <1>6, <1>8
<1> QED
  BY <1>6, <1>7, <1>8 DEF n, m, e

(* Whatever the table and the reach, as long as the table is longer, the   *)
(* offer holds every place that TiaoZhan would accept.                     *)
THEOREM OffersCover ==
  ASSUME OneFight
  PROVE  Spec => []OffersTargets
<1>1. IInv => OffersTargets
  <2> SUFFICES ASSUME IInv, NEW k \in Key, NEW t \in Rank,
                      TiaoZhanMingCiNum < PaiMingCount, Accepted(k, t)
               PROVE  t \in Offer(k)
    BY DEF OffersTargets
  <2>1. /\ MingCiBegin(k) \in Nat /\ MingCiEnd(k) \in Nat
        /\ MingCiBegin(k) <= t /\ t <= MingCiEnd(k) /\ t \in Nat
    BY WindowFacts, ConstantFacts DEF IInv, TableInv
  <2> QED
    BY <2>1 DEF Offer, MaxOf
<1> QED
  BY <1>1, Invariance, PTL

(* For a reach of five or more, the offer lies on the table and is no      *)
(* longer than twice the reach, which is what the caller has room for.     *)
THEOREM OffersInRoom ==
  ASSUME OneFight
  PROVE  Spec => []OffersFit
<1>1. IInv => OffersFit
  <2> SUFFICES ASSUME IInv, NEW k \in Key, TiaoZhanMingCiNum >= 5, PaiMingCount > TiaoZhanMingCiNum
               PROVE  Offer(k) \subseteq Rank /\ OfferNum(k) <= 2 * TiaoZhanMingCiNum
    BY DEF OffersFit
  <2> DEFINE b == MingCiBegin(k)
             e == MingCiEnd(k)
             m == TiaoZhanMingCiNum
             n == PaiMingCount
  <2>1. /\ b \in Nat /\ e \in Nat /\ m \in Nat /\ n \in Nat /\ m >= 5 /\ n > m
        /\ e < n /\ e <= b + (6 * m) \div 5
    BY WindowFacts, ConstantFacts DEF IInv, TableInv
  <2>2. Offer(k) = 0 .. 2 \cup (IF b <= 3 THEN 3 ELSE b) .. e /\ Rank = 0 .. n - 1
    BY DEF Offer, MaxOf, Rank
  <2>3. OfferNum(k) = 3 + (e + 1 - (LET a == IF b <= 3 THEN 3 ELSE b
                                    IN  IF a <= e + 1 THEN a ELSE e + 1))
    BY DEF OfferNum, MaxOf, MinOf
  <2> HIDE DEF b, e, m, n
  <2>4. Offer(k) \subseteq Rank
    BY <2>1, <2>2
  <2>5. OfferNum(k) <= 2 * m
    BY <2>1, <2>3
  <2> QED
    BY <2>4, <2>5 DEF m
<1> QED
  BY <1>1, Invariance, PTL

-----------------------------------------------------------------------------
(***************************************************************************)
(* The records (TiaoZhanRecords), for any coroutines that ask for any      *)
(* records.  An element may get another record while somebody still reads  *)
(* for it, but its number and its record are always written together, and  *)
(* nothing is in it but records of its player.                             *)
(***************************************************************************)
Filled(k, data) ==
  \/ data = NoStoreData
  \/ /\ data.m_nUniqueKey \in Number
     /\ data = [m_nUniqueKey |-> data.m_nUniqueKey, m_strRecord |-> FromDB(k, data.m_nUniqueKey)]

ElementsFilled == \A k \in KeyID : Filled(k, m_mapTiaoZhan[k].data)

(* The struct of a caller is filled when it returns and not before. *)
EmptyBefore == \A a \in Asker : pc[a] # "done" => storeData[a] = NoStoreData

RecordsInv == RecordsTypeOK /\ ElementsFilled /\ EmptyBefore /\ OwnRecord

(* What is filled for a player who asks for a number. *)
LEMMA FilledData ==
  ASSUME NEW k \in KeyID, NEW n \in Number
  PROVE  LET data == [m_nUniqueKey |-> n, m_strRecord |-> FromDB(k, n)] IN
         /\ data \in StoreData /\ Filled(k, data)
         /\ NoStoreData \in StoreData /\ Filled(k, NoStoreData)
<1> DEFINE data == [m_nUniqueKey |-> n, m_strRecord |-> FromDB(k, n)]
<1>1. FromDB(k, n) \in Record
  BY DEF FromDB, Record
<1>2. data \in StoreData /\ NoStoreData \in StoreData
  BY <1>1 DEF StoreData, NoStoreData
<1>3. Filled(k, data) /\ Filled(k, NoStoreData)
  BY DEF Filled
<1> QED BY <1>2, <1>3

LEMMA RecordsInitInv == RecordsInit => RecordsInv
<1> SUFFICES ASSUME RecordsInit PROVE RecordsInv
  OBVIOUS
<1>1. RecordsTypeOK
  <2> DEFINE E == Element \cup {NoElement}
  <2>1. NoElement \in E
    OBVIOUS
  <2> HIDE DEF E
  <2>2. m_mapTiaoZhan \in [KeyID -> E]
    BY <2>1 DEF RecordsInit
  <2>3. made \in 0 .. MaxMade /\ userIter \in [Asker -> 0 .. MaxMade]
    <3>1. 0 \in 0 .. MaxMade
      BY RecordsAssumption
    <3> QED BY <3>1 DEF RecordsInit
  <2>4. /\ pc \in [Asker -> {"idle", "reading", "done"}]
        /\ storeData \in [Asker -> StoreData]
    <3>1. NoStoreData \in StoreData
      BY DEF NoStoreData, StoreData
    <3> QED BY <3>1 DEF RecordsInit
  <2>5. crashed \in BOOLEAN
    BY DEF RecordsInit
  <2> QED BY <2>2, <2>3, <2>4, <2>5 DEF RecordsTypeOK, E
<1>2. ElementsFilled
  BY DEF RecordsInit, ElementsFilled, Filled, NoElement
<1>3. OwnRecord /\ EmptyBefore
  BY DEF RecordsInit, OwnRecord, EmptyBefore
<1> QED BY <1>1, <1>2, <1>3 DEF RecordsInv

(* What a coroutine does that returns, and one that reads. *)
LEMMA ReturnWithOwn ==
  ASSUME RecordsInv, NEW a \in Asker, NEW data \in StoreData, ReturnWith(a, data),
         data = [m_nUniqueKey |-> Wants[a], m_strRecord |-> FromDB(Of[a], Wants[a])]
  PROVE  /\ pc' \in [Asker -> {"idle", "reading", "done"}]
         /\ userIter' \in [Asker -> 0 .. MaxMade]
         /\ storeData' \in [Asker -> StoreData]
         /\ OwnRecord' /\ EmptyBefore'
<1> USE RecordsAssumption DEF RecordsInv, RecordsTypeOK, ReturnWith
<1>1. pc' \in [Asker -> {"idle", "reading", "done"}]
  OBVIOUS
<1>2. userIter' \in [Asker -> 0 .. MaxMade] /\ storeData' \in [Asker -> StoreData]
  OBVIOUS
<1>3. ASSUME NEW b \in Asker, pc'[b] = "done"
      PROVE  storeData'[b] \in {NoStoreData, [m_nUniqueKey |-> Wants[b],
                                              m_strRecord  |-> FromDB(Of[b], Wants[b])]}
  BY <1>3 DEF OwnRecord, EmptyBefore
<1>4. ASSUME NEW b \in Asker, pc'[b] # "done"
      PROVE  storeData'[b] = NoStoreData
  BY <1>4 DEF EmptyBefore
<1> QED BY <1>1, <1>2, <1>3, <1>4 DEF OwnRecord, EmptyBefore

LEMMA ReturnWithoutOwn ==
  ASSUME RecordsInv, NEW a \in Asker, pc[a] # "done", ReturnWithout(a)
  PROVE  /\ pc' \in [Asker -> {"idle", "reading", "done"}]
         /\ userIter' \in [Asker -> 0 .. MaxMade]
         /\ storeData' \in [Asker -> StoreData]
         /\ OwnRecord' /\ EmptyBefore'
<1> USE RecordsAssumption DEF RecordsInv, RecordsTypeOK, ReturnWithout
<1>1. pc' \in [Asker -> {"idle", "reading", "done"}]
  OBVIOUS
<1>2. userIter' \in [Asker -> 0 .. MaxMade] /\ storeData' \in [Asker -> StoreData]
  OBVIOUS
<1>3. ASSUME NEW b \in Asker, pc'[b] = "done"
      PROVE  storeData'[b] \in {NoStoreData, [m_nUniqueKey |-> Wants[b],
                                              m_strRecord  |-> FromDB(Of[b], Wants[b])]}
  BY <1>3 DEF OwnRecord, EmptyBefore
<1>4. ASSUME NEW b \in Asker, pc'[b] # "done"
      PROVE  storeData'[b] = NoStoreData
  BY <1>4 DEF EmptyBefore
<1> QED BY <1>1, <1>2, <1>3, <1>4 DEF OwnRecord, EmptyBefore

LEMMA ReadOwn ==
  ASSUME RecordsInv, NEW a \in Asker, pc[a] # "done", NEW element,
         element.id \in 0 .. MaxMade, Read(a, element)
  PROVE  /\ pc' \in [Asker -> {"idle", "reading", "done"}]
         /\ userIter' \in [Asker -> 0 .. MaxMade]
         /\ storeData' \in [Asker -> StoreData]
         /\ OwnRecord' /\ EmptyBefore'
<1> USE DEF RecordsInv, RecordsTypeOK, Read
<1>1. /\ pc' \in [Asker -> {"idle", "reading", "done"}]
      /\ userIter' \in [Asker -> 0 .. MaxMade]
      /\ storeData' \in [Asker -> StoreData]
  OBVIOUS
<1>2. \A b \in Asker : pc'[b] = "done" => pc[b] = "done"
  OBVIOUS
<1>3. \A b \in Asker : pc[b] = "done" => pc'[b] = "done"
  OBVIOUS
<1> QED BY <1>1, <1>2, <1>3 DEF OwnRecord, EmptyBefore

(* One element is put into the map. *)
LEMMA ElementPut ==
  ASSUME RecordsTypeOK, ElementsFilled, NEW k \in KeyID, NEW e \in Element \cup {NoElement},
         Filled(k, e.data), m_mapTiaoZhan' = [m_mapTiaoZhan EXCEPT ![k] = e]
  PROVE  m_mapTiaoZhan' \in [KeyID -> Element \cup {NoElement}] /\ ElementsFilled'
<1>1. m_mapTiaoZhan' \in [KeyID -> Element \cup {NoElement}]
  BY DEF RecordsTypeOK
<1>2. ASSUME NEW j \in KeyID
      PROVE  m_mapTiaoZhan'[j] = IF j = k THEN e ELSE m_mapTiaoZhan[j]
  BY DEF RecordsTypeOK
<1>3. ASSUME NEW j \in KeyID
      PROVE  Filled(j, m_mapTiaoZhan'[j].data)
  BY <1>2 DEF ElementsFilled
<1> QED BY <1>1, <1>3 DEF ElementsFilled, Filled

LEMMA GetRecordStep ==
  ASSUME RecordsInv, NEW a \in Asker, GetTiaoZhanStoreData(a)
  PROVE  RecordsInv'
<1> DEFINE k == Of[a]
           e == IF Has(k) THEN m_mapTiaoZhan[k] ELSE [NoElement EXCEPT !.id = made + 1]
<1>1. k \in KeyID /\ Wants[a] \in Number /\ Wants[a] # 0
  BY RecordsAssumption DEF Number
<1>2. /\ made' \in 0 .. MaxMade
      /\ m_mapTiaoZhan' = [m_mapTiaoZhan EXCEPT ![k] = e]
      /\ crashed' = crashed
  BY RecordsAssumption DEF GetTiaoZhanStoreData, RecordsInv, RecordsTypeOK
<1>3. /\ e \in Element \cup {NoElement} /\ Filled(k, e.data)
      /\ e.id \in 0 .. MaxMade /\ e.data \in StoreData
  <2>1. CASE Has(k)
    <3>1. e = m_mapTiaoZhan[k] /\ m_mapTiaoZhan[k] \in Element
      BY <2>1, <1>1 DEF RecordsInv, RecordsTypeOK, Has
    <3>2. Filled(k, e.data)
      BY <3>1, <1>1 DEF RecordsInv, ElementsFilled
    <3> QED BY <3>1, <3>2, RecordsAssumption DEF Element
  <2>2. CASE ~Has(k)
    <3>1. made + 1 \in 1 .. MaxMade
      BY <2>2, RecordsAssumption DEF GetTiaoZhanStoreData, RecordsInv, RecordsTypeOK
    <3>2. e = [id |-> made + 1, data |-> NoStoreData]
      BY <2>2 DEF NoElement
    <3>3. NoStoreData \in StoreData /\ Filled(k, NoStoreData)
      BY <1>1, FilledData
    <3> HIDE DEF e
    <3> QED BY <3>1, <3>2, <3>3 DEF Element
  <2> QED BY <2>1, <2>2
<1>4. /\ pc[a] # "done"
      /\ IF e.data.m_nUniqueKey = Wants[a] THEN ReturnWith(a, e.data) ELSE Read(a, e)
  BY DEF GetTiaoZhanStoreData
<1> HIDE DEF e
<1>5. m_mapTiaoZhan' \in [KeyID -> Element \cup {NoElement}] /\ ElementsFilled'
  BY <1>1, <1>2, <1>3, ElementPut DEF RecordsInv
<1>6. /\ pc' \in [Asker -> {"idle", "reading", "done"}]
      /\ userIter' \in [Asker -> 0 .. MaxMade]
      /\ storeData' \in [Asker -> StoreData]
      /\ OwnRecord' /\ EmptyBefore'
  <2>1. CASE e.data.m_nUniqueKey = Wants[a]
    <3>1. e.data = [m_nUniqueKey |-> Wants[a], m_strRecord |-> FromDB(Of[a], Wants[a])]
      BY <2>1, <1>1, <1>3 DEF Filled, NoStoreData
    <3> QED BY <2>1, <3>1, <1>3, <1>4, ReturnWithOwn
  <2>2. CASE e.data.m_nUniqueKey # Wants[a]
    BY <2>2, <1>3, <1>4, ReadOwn
  <2> QED BY <2>1, <2>2
<1> QED BY <1>2, <1>5, <1>6 DEF RecordsInv, RecordsTypeOK

LEMMA ReadSucceedsStep ==
  ASSUME RecordsInv, NEW a \in Asker, ReadSucceeds(a)
  PROVE  RecordsInv'
<1> DEFINE data == [m_nUniqueKey |-> Wants[a], m_strRecord |-> FromDB(Of[a], Wants[a])]
<1>1. Of[a] \in KeyID /\ data \in StoreData /\ Filled(Of[a], data)
  <2>1. Of[a] \in KeyID /\ Wants[a] \in Number
    BY RecordsAssumption DEF Number
  <2> QED BY <2>1, FilledData
<1>2. CASE IsThere(a)
  <2> DEFINE e == [m_mapTiaoZhan[Of[a]] EXCEPT !.data = data]
  <2>1. /\ m_mapTiaoZhan' = [m_mapTiaoZhan EXCEPT ![Of[a]] = e]
        /\ ReturnWith(a, data) /\ crashed' = crashed /\ made' = made
    BY <1>1, <1>2 DEF ReadSucceeds, RecordsInv, RecordsTypeOK
  <2>2. e \in Element /\ e.data = data
    <3>1. m_mapTiaoZhan[Of[a]] \in Element
      BY <1>1, <1>2 DEF IsThere, Has, RecordsInv, RecordsTypeOK
    <3> HIDE DEF data
    <3> QED BY <1>1, <3>1 DEF Element
  <2> HIDE DEF e
  <2>3. m_mapTiaoZhan' \in [KeyID -> Element \cup {NoElement}] /\ ElementsFilled'
    BY <1>1, <2>1, <2>2, ElementPut DEF RecordsInv
  <2>4. /\ pc' \in [Asker -> {"idle", "reading", "done"}]
        /\ userIter' \in [Asker -> 0 .. MaxMade]
        /\ storeData' \in [Asker -> StoreData]
        /\ OwnRecord' /\ EmptyBefore'
    BY <1>1, <2>1, ReturnWithOwn
  <2> QED BY <2>1, <2>3, <2>4 DEF RecordsInv, RecordsTypeOK
<1>3. CASE ~IsThere(a)
  BY <1>3 DEF ReadSucceeds, RecordsInv, RecordsTypeOK, ElementsFilled, EmptyBefore, OwnRecord
<1> QED BY <1>2, <1>3

LEMMA ReadFailsStep ==
  ASSUME RecordsInv, NEW a \in Asker, ReadFails(a)
  PROVE  RecordsInv'
<1>1. /\ m_mapTiaoZhan' = [m_mapTiaoZhan EXCEPT ![Of[a]] = NoElement]
      /\ pc[a] # "done" /\ ReturnWithout(a) /\ UNCHANGED <<made, crashed>>
  BY DEF ReadFails
<1>2. m_mapTiaoZhan' \in [KeyID -> Element \cup {NoElement}] /\ ElementsFilled'
  <2>1. Of[a] \in KeyID /\ Filled(Of[a], NoElement.data)
    BY RecordsAssumption DEF NoElement, Filled
  <2> QED BY <1>1, <2>1, ElementPut DEF RecordsInv
<1>3. /\ pc' \in [Asker -> {"idle", "reading", "done"}]
      /\ userIter' \in [Asker -> 0 .. MaxMade]
      /\ storeData' \in [Asker -> StoreData]
      /\ OwnRecord' /\ EmptyBefore'
  BY <1>1, ReturnWithoutOwn
<1> QED BY <1>1, <1>2, <1>3 DEF RecordsInv, RecordsTypeOK

LEMMA RecordsTimerStep ==
  ASSUME RecordsInv, OnTimer
  PROVE  RecordsInv'
<1>1. PICK old \in SUBSET {k \in KeyID : Has(k)} :
        m_mapTiaoZhan' = [k \in KeyID |-> IF k \in old THEN NoElement ELSE m_mapTiaoZhan[k]]
  BY DEF OnTimer
<1>2. m_mapTiaoZhan' \in [KeyID -> Element \cup {NoElement}]
  BY <1>1 DEF RecordsInv, RecordsTypeOK
<1>3. ElementsFilled'
  BY <1>1 DEF RecordsInv, ElementsFilled, Filled, NoElement
<1> QED BY <1>2, <1>3 DEF OnTimer, RecordsInv, RecordsTypeOK, EmptyBefore, OwnRecord

LEMMA RecordsInvNext == RecordsInv /\ [RecordsNext]_recordVars => RecordsInv'
<1> SUFFICES ASSUME RecordsInv, [RecordsNext]_recordVars PROVE RecordsInv'
  OBVIOUS
<1>1. CASE UNCHANGED recordVars
  BY <1>1 DEF recordVars, RecordsInv, RecordsTypeOK, ElementsFilled, EmptyBefore, OwnRecord
<1>2. CASE RecordsNext
  BY <1>2, GetRecordStep, ReadSucceedsStep, ReadFailsStep, RecordsTimerStep DEF RecordsNext
<1> QED BY <1>1, <1>2

(* The types of TiaoZhanRecords: who reads has a reference to an element   *)
(* that was made, and nobody gets anything but a record or nothing.        *)
THEOREM RecordsTypeCorrect == RecordsSpec => []RecordsTypeOK
<1>1. RecordsInv => RecordsTypeOK
  BY DEF RecordsInv
<1> QED BY <1>1, RecordsInitInv, RecordsInvNext, PTL DEF RecordsSpec

(* Whatever is read at the same time, erased by the timer or by a read     *)
(* that failed: who has returned has the record it asked for, or what it   *)
(* came with, and never a number beside another's record.                  *)
THEOREM AskersGetOwn == RecordsSpec => []OwnRecord
<1>1. RecordsInv => OwnRecord
  BY DEF RecordsInv
<1> QED BY <1>1, RecordsInitInv, RecordsInvNext, PTL DEF RecordsSpec

=============================================================================
