------------------------------ MODULE MCRanking ------------------------------
(***************************************************************************)
(* Two rankings for TLC: the one of TiaoZhanPaiMing, on a short table with *)
(* fights, and one on a table that is longer than the reach of a challenge *)
(* on either side, which is loaded in every way and then asked what it     *)
(* offers.  Beside them the records of TiaoZhanRecords.  A behaviour is of *)
(* one of the three, and part says which; the others stay at their         *)
(* beginning.                                                              *)
(***************************************************************************)
EXTENDS MCTiaoZhanPaiMing, TiaoZhanRecords

VARIABLES
  part,
  longPaiMing, longCell, longMapData, longStored, longLoaded, longNext, longOpen

longVars ==
  <<longPaiMing, longCell, longMapData, longStored, longLoaded, longNext, longOpen>>

(* Three ask for two records of one player, a fourth for another player's. *)
FourAskers == <<k1, k1, k1, k2>>
TwoOfOne   == <<1, 2, 1, 3>>

Long == INSTANCE TiaoZhanPaiMing WITH
  Key <- {k1, k2}, PaiMingCount <- 12, TiaoZhanMingCiNum <- 5,
  Fight <- {}, Player <- <<>>,
  paiMing <- longPaiMing, cell <- longCell, mapData <- longMapData,
  stored <- longStored, loaded <- longLoaded, next <- longNext, open <- longOpen

RankingInit ==
  /\ Init
  /\ Long!Init
  /\ RecordsInit
  /\ \/ part = "fights" /\ longStored = [k \in {k1, k2} |-> Long!NoRank]
     \/ part = "offers" /\ stored = [k \in Key |-> NoRank]
     \/ /\ part = "records" /\ stored = [k \in Key |-> NoRank]
        /\ longStored = [k \in {k1, k2} |-> Long!NoRank]

(* On the long table there are no fights: when it is loaded, that is all. *)
RankingNext ==
  \/ part = "fights" /\ Next /\ UNCHANGED <<part, longVars, recordVars>>
  \/ part = "offers" /\ Long!Next /\ UNCHANGED <<part, vars, recordVars>>
  \/ part = "offers" /\ Long!Serving /\ UNCHANGED <<part, vars, longVars, recordVars>>
  \/ part = "records" /\ RecordsNext /\ UNCHANGED <<part, vars, longVars>>
  \/ part = "records" /\ Ended /\ UNCHANGED <<part, vars, longVars, recordVars>>

RankingSpec == RankingInit /\ [][RankingNext]_<<part, vars, longVars, recordVars>>

(* GetMoreThanSelf offers every target that TiaoZhan accepts, on the long  *)
(* table, and what it writes there fits (ctx_tiaozhanpaiming.cpp:236-272). *)
LongOffers == Long!OffersTargets /\ Long!OffersFit

=============================================================================
