--------------------------- MODULE TiaoZhanRecords ---------------------------
(***************************************************************************)
(* The records of challenges (paiming/ctx_tiaozhanpaiming_record.cpp): a   *)
(* cache of what is in a database.  A record has a number that no other    *)
(* record has, and of each player one record is kept, the one that was     *)
(* asked for last.                                                         *)
(*                                                                         *)
(* What reads the database is outside the repository: a function that is   *)
(* bound, and gets player, type, challenge and number in this order (line  *)
(* 58), whatever the declaration in the header calls them.  The model says *)
(* only that what it brings depends on these: it is named by player and    *)
(* number, for one type and one challenge.  The coroutine goes to another  *)
(* ctx for it and back, with a reference to the element of the map, and    *)
(* when it is back writes the record and returns in one handler.           *)
(*                                                                         *)
(* The ctxs that are asked and answered are there: where one is gone,      *)
(* MACRO_YieldToCtx returns false, and nothing here is different.          *)
(***************************************************************************)
EXTENDS Naturals

CONSTANTS
  KeyID,    \* players
  Asker,    \* coroutines in Ctx_GetTiaoZhanStoreData
  Of,       \* [Asker -> KeyID], nKeyID
  Wants,    \* [Asker -> Nat], nUniqueKey, the number of a record, not 0
  MaxMade   \* bound: elements that are made

ASSUME RecordsAssumption ==
  /\ Of \in [Asker -> KeyID]
  /\ Wants \in [Asker -> Nat \ {0}]
  /\ MaxMade \in Nat

Number == {Wants[a] : a \in Asker}

(* What ReadFromDB brings for a player and a number; a string is empty     *)
(* before.                                                                 *)
FromDB(k, n) == <<k, n>>
Record       == KeyID \X Number
NoRecord     == <<>>

VARIABLES
  m_mapTiaoZhan,  \* the element of a player
  made,           \* how many elements were made, which tells them apart
  pc,             \* where a coroutine is
  userIter,       \* the element it has a reference to
  storeData,      \* the struct of its caller, which it is to fill
  crashed         \* somebody wrote through a reference to an erased element

recordVars == <<m_mapTiaoZhan, made, pc, userIter, storeData, crashed>>

StoreData   == [m_nUniqueKey : Number \cup {0}, m_strRecord : Record \cup {NoRecord}]
NoStoreData == [m_nUniqueKey |-> 0, m_strRecord |-> NoRecord]
Element     == [id : 1..MaxMade, data : StoreData]
NoElement   == [id |-> 0, data |-> NoStoreData]

RecordsTypeOK ==
  /\ m_mapTiaoZhan \in [KeyID -> Element \cup {NoElement}]
  /\ made \in 0..MaxMade
  /\ pc \in [Asker -> {"idle", "reading", "done"}]
  /\ userIter \in [Asker -> 0..MaxMade]
  /\ storeData \in [Asker -> StoreData]
  /\ crashed \in BOOLEAN

RecordsInit ==
  /\ m_mapTiaoZhan = [k \in KeyID |-> NoElement]
  /\ made = 0
  /\ pc = [a \in Asker |-> "idle"]
  /\ userIter = [a \in Asker |-> 0]
  /\ storeData = [a \in Asker |-> NoStoreData]
  /\ crashed = FALSE

Has(k) == m_mapTiaoZhan[k] # NoElement

(* Ctx_GetTiaoZhanStoreData returns true, and has copied an element into  *)
(* the struct of its caller.                                               *)
ReturnWith(a, data) ==
  /\ pc' = [pc EXCEPT ![a] = "done"]
  /\ storeData' = [storeData EXCEPT ![a] = data]
  /\ userIter' = [userIter EXCEPT ![a] = 0]

(* Where it got no element it returns true as well, and leaves the struct  *)
(* as it was.                                                              *)
ReturnWithout(a) ==
  /\ pc' = [pc EXCEPT ![a] = "done"]
  /\ userIter' = [userIter EXCEPT ![a] = 0]
  /\ UNCHANGED storeData

Read(a, element) ==
  /\ pc' = [pc EXCEPT ![a] = "reading"]
  /\ userIter' = [userIter EXCEPT ![a] = element.id]
  /\ UNCHANGED storeData

(* Mutated: the element has the number of the record before it is read. *)
GetTiaoZhanStoreDataEarly(a) ==
  LET k == Of[a]
      element == IF Has(k) THEN m_mapTiaoZhan[k]
                           ELSE [NoElement EXCEPT !.id = made + 1] IN
  /\ ~crashed
  /\ pc[a] = "idle"
  /\ Has(k) \/ made < MaxMade
  /\ made' = IF Has(k) THEN made ELSE made + 1
  /\ m_mapTiaoZhan' = [m_mapTiaoZhan EXCEPT ![k] = [element EXCEPT !.data.m_nUniqueKey = Wants[a]]]
  /\ IF element.data.m_nUniqueKey = Wants[a]
     THEN ReturnWith(a, element.data)
     ELSE Read(a, element)
  /\ UNCHANGED crashed

(* GetTiaoZhanStoreData, until it reads the database.  An element that is  *)
(* not there is made, and then has no record.                              *)
GetTiaoZhanStoreData(a) ==
  LET k == Of[a]
      element == IF Has(k) THEN m_mapTiaoZhan[k]
                           ELSE [NoElement EXCEPT !.id = made + 1] IN
  /\ ~crashed
  /\ pc[a] = "idle"
  /\ Has(k) \/ made < MaxMade
  /\ made' = IF Has(k) THEN made ELSE made + 1
  /\ m_mapTiaoZhan' = [m_mapTiaoZhan EXCEPT ![k] = element]
  /\ IF element.data.m_nUniqueKey = Wants[a]
     THEN ReturnWith(a, element.data)
     ELSE Read(a, element)
  /\ UNCHANGED crashed

(* Nobody uses an element that was erased. *)
IsThere(a) == Has(Of[a]) /\ m_mapTiaoZhan[Of[a]].id = userIter[a]

(* ReadFromDB returns true: the record is in the element, or was written   *)
(* to where the element had been.                                          *)
ReadSucceeds(a) ==
  LET data == [m_nUniqueKey |-> Wants[a], m_strRecord |-> FromDB(Of[a], Wants[a])] IN
  /\ ~crashed
  /\ pc[a] = "reading"
  /\ IF IsThere(a)
     THEN /\ m_mapTiaoZhan' = [m_mapTiaoZhan EXCEPT ![Of[a]] = [@ EXCEPT !.data = data]]
          /\ ReturnWith(a, data)
          /\ UNCHANGED crashed
     ELSE crashed' = TRUE /\ UNCHANGED <<m_mapTiaoZhan, pc, storeData, userIter>>
  /\ UNCHANGED made

(* It returns false, and whatever element the player has is erased.        *)
ReadFails(a) ==
  /\ ~crashed
  /\ pc[a] = "reading"
  /\ m_mapTiaoZhan' = [m_mapTiaoZhan EXCEPT ![Of[a]] = NoElement]
  /\ ReturnWithout(a)
  /\ UNCHANGED <<made, crashed>>

(* Two hours after an element was made it is erased.  Its time is never    *)
(* set again, so that says nothing of when it was used.                    *)
OnTimer ==
  /\ ~crashed
  /\ \E old \in SUBSET {k \in KeyID : Has(k)} :
       /\ old # {}
       /\ m_mapTiaoZhan' = [k \in KeyID |-> IF k \in old THEN NoElement ELSE m_mapTiaoZhan[k]]
  /\ UNCHANGED <<made, pc, userIter, storeData, crashed>>

RecordsNext ==
  \/ \E a \in Asker : GetTiaoZhanStoreData(a) \/ ReadSucceeds(a) \/ ReadFails(a)
  \/ OnTimer

(* Everybody has returned, or somebody wrote into memory that was freed:   *)
(* what is after that no model can say.                                    *)
Ended == crashed \/ \A a \in Asker : pc[a] = "done"

RecordsSpec == RecordsInit /\ [][RecordsNext]_recordVars

(***************************************************************************)
(* Properties.                                                             *)
(***************************************************************************)
(* Who has returned has, in the struct of its caller, nothing or the       *)
(* record it asked for, with its number, never the number of the one with  *)
(* the text of another and never somebody else's: although two records of  *)
(* a player may be read into one element at once, and the element may be   *)
(* replaced meanwhile (ctx_tiaozhanpaiming_record.cpp:58).  The result     *)
(* true says nothing of it (lines 70-76): the number is how the caller can *)
(* tell.  Before anybody writes to an element that was erased, that is.    *)
OwnRecord ==
  \A a \in Asker :
    pc[a] = "done" =>
      storeData[a] \in {NoStoreData, [m_nUniqueKey |-> Wants[a],
                                   m_strRecord  |-> FromDB(Of[a], Wants[a])]}

=============================================================================
