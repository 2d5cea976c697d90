-------------------------- MODULE TiaoZhanPaiMing --------------------------
(***************************************************************************)
(* The ranking (paiming/ctx_tiaozhanpaiming.cpp): a table of pointers to   *)
(* cells, each with a player and the cell's own place, and a map from a    *)
(* player to a cell.  It is loaded from the database once.  A player who   *)
(* wins a challenge takes the place of the one that was challenged.        *)
(*                                                                         *)
(* A challenge takes two messages: TiaoZhan, which checks it and returns   *)
(* the opponent, and AddDataByUseID with the result.  In between the ctx   *)
(* handles what others send, so a fight f is open for any number of steps. *)
(* The callers are outside the repository.                                 *)
(*                                                                         *)
(* Handlers run one at a time (CtxScheduler), so one action is a handler;  *)
(* the two loops of InitFromDB take one record or place in a step, and     *)
(* nothing else runs before they end.  Time stamps are left out.           *)
(***************************************************************************)
EXTENDS Naturals

CONSTANTS
  Key,                \* players, m_numKeyID
  NoKey,              \* m_numKeyID of a free cell, 0 in the code
  PaiMingCount,       \* m_nPaiMingCount, places in the table
  TiaoZhanMingCiNum,  \* m_nTiaoZhanMingCiNum, how far up a challenge may go
  Fight,              \* fights that may be going on at once
  Player              \* [Fight -> Key], who began the fight

ASSUME ConstantsAssumption ==
  /\ NoKey \notin Key
  /\ PaiMingCount \in Nat \ {0}
  /\ TiaoZhanMingCiNum \in Nat
  /\ Player \in [Fight -> Key]

Rank == 0 .. PaiMingCount - 1

(* GetPaiMing answers 0xFFFF for a player who is not on the table; all     *)
(* that is asked of it is that no place is as large.                       *)
NoRank == PaiMingCount

(* Cells are known by their index in the buffer of CreatePaiMingData. *)
Cell == Rank
NoCell == PaiMingCount

VARIABLES
  paiMing,  \* m_pPaiMing: the cell at each place
  cell,     \* the contents of a cell: m_numKeyID and m_nMingCi
  mapData,  \* m_mapData: the cell of a player
  stored,   \* the place in the record of each player still to be read
  loaded,   \* pPaiMing of ReadFromDBData
  next,     \* i of its last loop, PaiMingCount when the ctx is in service
  open      \* what the caller of a fight will report

tableVars == <<paiMing, cell, mapData>>
vars == <<tableVars, stored, loaded, next, open>>

NoFight == [dst |-> NoKey, rank |-> NoRank]

TypeOK ==
  /\ paiMing \in [Rank -> Cell]
  /\ cell \in [Cell -> [key : Key \cup {NoKey}, mingCi : Rank]]
  /\ mapData \in [Key -> Cell \cup {NoCell}]
  /\ stored \in [Key -> Rank \cup {NoRank}]
  /\ loaded \in [Rank -> Key \cup {NoKey}]
  /\ next \in 0 .. PaiMingCount
  /\ open \in [Fight -> [dst : Key \cup {NoKey}, rank : Rank \cup {NoRank}]]

(* The database has at most one record of a player; one whose place is     *)
(* beyond the table is skipped, and counts as none.                        *)
Init ==
  /\ paiMing = [i \in Rank |-> i]
  /\ cell = [c \in Cell |-> [key |-> NoKey, mingCi |-> c]]
  /\ mapData = [k \in Key |-> NoCell]
  /\ stored \in [Key -> Rank \cup {NoRank}]
  /\ loaded = [i \in Rank |-> NoKey]
  /\ next = 0
  /\ open = [f \in Fight |-> NoFight]

(***************************************************************************)
(* The table.                                                              *)
(***************************************************************************)
KeyAt(i) == cell[paiMing[i]].key

GetPaiMing(k) == IF mapData[k] = NoCell THEN NoRank ELSE cell[mapData[k]].mingCi

(* Mutated: every cell behind the place counts one more. *)
PlaceCountsAll(k, r, s) ==
  /\ paiMing' = [i \in Rank |-> IF i = r /\ r < s THEN paiMing[s]
                                ELSE IF r < i /\ i <= s THEN paiMing[i - 1]
                                ELSE paiMing[i]]
  /\ cell' = [c \in Cell |->
                IF c = paiMing[s] THEN [key |-> k, mingCi |-> r]
                ELSE IF \E i \in Rank : r <= i /\ paiMing[i] = c
                THEN [cell[c] EXCEPT !.mingCi = @ + 1]
                ELSE cell[c]]

(* Mutated: the two cells change places. *)
PlaceSwap(k, r, s) ==
  /\ paiMing' = [paiMing EXCEPT ![r] = paiMing[s], ![s] = paiMing[r]]
  /\ cell' = [cell EXCEPT ![paiMing[r]].mingCi = s,
                          ![paiMing[s]] = [key |-> k, mingCi |-> r]]

(* The cell at place s goes to place r, if that is further up, and is      *)
(* overwritten; those in between move down and count their places.         *)
Place(k, r, s) ==
  /\ paiMing' = [i \in Rank |-> IF i = r /\ r < s THEN paiMing[s]
                                ELSE IF r < i /\ i <= s THEN paiMing[i - 1]
                                ELSE paiMing[i]]
  /\ cell' = [c \in Cell |->
                IF c = paiMing[s] THEN [key |-> k, mingCi |-> r]
                ELSE IF \E i \in Rank : r <= i /\ i < s /\ paiMing[i] = c
                THEN [cell[c] EXCEPT !.mingCi = @ + 1]
                ELSE cell[c]]

Last == PaiMingCount - 1

(* Mutated: the player who leaves the table stays in the map. *)
AddDataPushKeep(k, r) ==
  /\ mapData[k] = NoCell
  /\ KeyAt(r) # NoKey
  /\ Place(k, r, Last)
  /\ mapData' = [mapData EXCEPT ![k] = paiMing[Last]]

(* A newcomer to a place that is taken gets the last cell; its player      *)
(* leaves the table.                                                       *)
AddDataPush(k, r) ==
  /\ mapData[k] = NoCell
  /\ KeyAt(r) # NoKey
  /\ Place(k, r, Last)
  /\ mapData' = [x \in Key |-> IF x = k THEN paiMing[Last]
                               ELSE IF x = KeyAt(Last) THEN NoCell
                               ELSE mapData[x]]

(* Mutated: a free place is kept, and the newcomer comes next to it. *)
AddDataFillPush(k, r) ==
  /\ mapData[k] = NoCell
  /\ KeyAt(r) = NoKey
  /\ KeyAt(Last) = NoKey
  /\ Place(k, r, Last)
  /\ mapData' = [mapData EXCEPT ![k] = paiMing[Last]]

(* A free place is taken as it is. *)
AddDataFill(k, r) ==
  /\ mapData[k] = NoCell
  /\ KeyAt(r) = NoKey
  /\ Place(k, r, r)
  /\ mapData' = [mapData EXCEPT ![k] = paiMing[r]]

(* A player who is on the table; the place written is the one asked for,   *)
(* whether or not the cell moved.  When the cell found is not the player's *)
(* (ASSERT(0)), nothing is changed.                                        *)
AddDataMove(k, r) ==
  LET s == GetPaiMing(k) IN
  /\ mapData[k] # NoCell
  /\ IF KeyAt(s) = k THEN Place(k, r, s) /\ UNCHANGED mapData
                     ELSE UNCHANGED tableVars

AddData(k, r) == AddDataPush(k, r) \/ AddDataFill(k, r) \/ AddDataMove(k, r)

(***************************************************************************)
(* InitFromDB.                                                             *)
(***************************************************************************)
Serving == next = PaiMingCount

(* The records come in the order of their places, those of one place in    *)
(* any order here; each takes the first place that is free from its own    *)
(* on, or is dropped when there is none.                                   *)
ReadRecord(k) ==
  LET free == {i \in Rank : stored[k] <= i /\ loaded[i] = NoKey} IN
  /\ stored[k] # NoRank
  /\ \A j \in Key : stored[k] <= stored[j]
  /\ \/ \E i \in free : /\ \A j \in free : i <= j
                        /\ loaded' = [loaded EXCEPT ![i] = k]
     \/ free = {} /\ UNCHANGED loaded
  /\ stored' = [stored EXCEPT ![k] = NoRank]
  /\ UNCHANGED <<tableVars, next, open>>

ReadPlace ==
  /\ ~Serving
  /\ \A k \in Key : stored[k] = NoRank
  /\ IF loaded[next] = NoKey THEN UNCHANGED tableVars ELSE AddData(loaded[next], next)
  /\ next' = next + 1
  /\ UNCHANGED <<stored, loaded, open>>

(***************************************************************************)
(* Challenges.                                                             *)
(***************************************************************************)
(* The place a challenge is about: the opponent's, or the one given. *)
Target(dst, r) == IF dst = NoKey THEN r ELSE GetPaiMing(dst)

(* Mutated: a target behind the challenger is accepted. *)
AcceptedBehind(k, t) ==
  LET self == IF GetPaiMing(k) = NoRank THEN Last ELSE GetPaiMing(k) IN
  /\ t < PaiMingCount
  /\ self <= t + TiaoZhanMingCiNum

(* Refused with 1001 when the target is behind, with 1002 when it is too   *)
(* far ahead.  Who is not on the table challenges from the last place.     *)
Accepted(k, t) ==
  LET self == IF GetPaiMing(k) = NoRank THEN Last ELSE GetPaiMing(k) IN
  /\ t < PaiMingCount
  /\ t <= self
  /\ self <= t + TiaoZhanMingCiNum

(* The answer holds the player at the target and the place; the caller     *)
(* will report either that player or the place alone.                      *)
TiaoZhan(f, dst, r) ==
  LET t == Target(dst, r) IN
  /\ Serving
  /\ open[f] = NoFight
  /\ Accepted(Player[f], t)
  /\ \E known \in {KeyAt(t), NoKey} : open' = [open EXCEPT ![f] = [dst |-> known, rank |-> t]]
  /\ UNCHANGED <<tableVars, stored, loaded, next>>

(* The challenger won.  An opponent who left the table leaves no place. *)
AddDataByUseID(f) ==
  LET t == Target(open[f].dst, open[f].rank) IN
  /\ open[f] # NoFight
  /\ IF t < PaiMingCount THEN AddData(Player[f], t) ELSE UNCHANGED tableVars
  /\ open' = [open EXCEPT ![f] = NoFight]
  /\ UNCHANGED <<stored, loaded, next>>

Lose(f) ==
  /\ open[f] # NoFight
  /\ open' = [open EXCEPT ![f] = NoFight]
  /\ UNCHANGED <<tableVars, stored, loaded, next>>

(***************************************************************************)
(* GetMoreThanSelf, for a caller who has room for twice as many entries as *)
(* a challenge may go up, and a window of at least five.                   *)
(***************************************************************************)
MinOf(a, b) == IF a <= b THEN a ELSE b
MaxOf(a, b) == IF a <= b THEN b ELSE a

(* The first place of the window, before the top three are taken out. *)
MingCiBegin(k) ==
  LET self == GetPaiMing(k) IN
  IF self = NoRank THEN PaiMingCount - TiaoZhanMingCiNum - 1
  ELSE IF self >= TiaoZhanMingCiNum THEN self - TiaoZhanMingCiNum
  ELSE 0

(* Mutated: the window ends where twice the reach ends. *)
MingCiEndTwice(k) == MinOf(MingCiBegin(k) + 2 * TiaoZhanMingCiNum, Last)

(* The product with 1.2 is cut to an integer. *)
MingCiEnd(k) == MinOf(MingCiBegin(k) + (6 * TiaoZhanMingCiNum) \div 5, Last)

Offer(k) == 0 .. 2 \cup MaxOf(MingCiBegin(k), 3) .. MingCiEnd(k)

(* nAddNumber, the entries written. *)
OfferNum(k) ==
  3 + (MingCiEnd(k) + 1 - MinOf(MaxOf(MingCiBegin(k), 3), MingCiEnd(k) + 1))

(***************************************************************************)
(* The specification.                                                      *)
(***************************************************************************)
FightStep(f) ==
  \/ \E dst \in Key \cup {NoKey}, r \in Rank : TiaoZhan(f, dst, r)
  \/ AddDataByUseID(f)
  \/ Lose(f)

Next ==
  \/ \E k \in Key : ReadRecord(k)
  \/ ReadPlace
  \/ \E f \in Fight : FightStep(f)

Spec == Init /\ [][Next]_vars

(***************************************************************************)
(* Properties.                                                             *)
(***************************************************************************)
(* A cell knows its place: the assertions of lines 57 and 79 of AddData    *)
(* test it whenever cells move.                                            *)
CellKnowsPlace == \A i \in Rank : cell[paiMing[i]].mingCi = i

(* Besides, the map leads to the cell of the player, and to every cell     *)
(* that has a player, so nobody holds two places.                          *)
Consistent ==
  /\ CellKnowsPlace
  /\ \A k \in Key : mapData[k] # NoCell => cell[mapData[k]].key = k
  /\ \A c \in Cell : cell[c].key # NoKey => mapData[cell[c].key] = c

(* A player passes another one only by a fight of its own that ends in     *)
(* this step.                                                              *)
PassesByFight ==
  \A j, k \in Key :
    GetPaiMing(j) < GetPaiMing(k) /\ GetPaiMing(j)' > GetPaiMing(k)' =>
      \E f \in Fight : Player[f] = k /\ open[f] # NoFight /\ open'[f] = NoFight

(* Nobody passes another player but the winner of a fight: who is moved    *)
(* down by others keeps the order.                                         *)
OnlyWinnerOvertakes == [][PassesByFight]_vars

(* GetMoreThanSelf offers every target that TiaoZhan accepts, when the     *)
(* table is longer than the reach of a challenge.                          *)
OffersTargets ==
  \A k \in Key, t \in Rank :
    TiaoZhanMingCiNum < PaiMingCount /\ Accepted(k, t) => t \in Offer(k)

(* It writes into the first three places without a test, and stays within  *)
(* the entries the caller was asked for.                                   *)
OffersFit ==
  \A k \in Key :
    /\ TiaoZhanMingCiNum >= 5
    /\ PaiMingCount > TiaoZhanMingCiNum
    => Offer(k) \subseteq Rank /\ OfferNum(k) <= 2 * TiaoZhanMingCiNum

(***************************************************************************)
(* The inductive invariant behind Consistent.                              *)
(***************************************************************************)
(* While the table is loaded, each player waits in one place at most, and  *)
(* the places still to be filled are free.                                 *)
LoadInv ==
  /\ \A i, j \in Rank : loaded[i] = loaded[j] /\ loaded[i] # NoKey => i = j
  /\ \A k \in Key : stored[k] # NoRank =>
       next = 0 /\ \A i \in Rank : loaded[i] # k
  /\ \A i \in Rank : i >= next =>
       /\ KeyAt(i) = NoKey
       /\ \A k \in Key : loaded[i] = k => mapData[k] = NoCell
  /\ ~Serving => \A f \in Fight : open[f] = NoFight

(* The opponent of a fight, or the place, stays ahead of the challenger;   *)
(* who left the table is behind everybody who is on it.                    *)
FightInv ==
  \A f \in Fight :
    open[f] # NoFight =>
      Target(open[f].dst, open[f].rank) <= GetPaiMing(Player[f])

(* The place in a cell leads back to the cell. *)
EveryCellPlaced == \A c \in Cell : paiMing[cell[c].mingCi] = c

IInv == TypeOK /\ Consistent /\ EveryCellPlaced /\ LoadInv /\ FightInv

(***************************************************************************)
(* What the ranking promises.                                              *)
(***************************************************************************)
LadderOf == INSTANCE Ladder WITH ladder <- [i \in Rank |-> KeyAt(i)]

ImplementsLadder == LadderOf!Spec

=============================================================================
