----------------------------- MODULE FrameFilter -----------------------------
(***************************************************************************)
(* The packet filter (net/ccframedefaultfilter.cpp), which cuts the bytes  *)
(* of a connection into the packets that were sent: four bytes with the    *)
(* length, then the content.  One filter serves all the connections of a   *)
(* client one after the other.                                             *)
(*                                                                         *)
(* The session is a library.  It calls OnPreReceive with what has arrived, *)
(* calls it again without data as long as the answer is PACK_FILTER_NEXT,  *)
(* closes the connection at PACK_FILTER_FAIL, and calls ResetPreSend       *)
(* before a connection is used.                                            *)
(***************************************************************************)
EXTENDS Naturals, Sequences, FiniteSets

CONSTANTS
  Length,     \* what may be sent, in bytes
  MaxLength,  \* m_dwLength
  MaxSend,    \* bound: packets of a connection
  MaxConn     \* bound: connections

ASSUME FilterAssumption ==
  /\ Length \subseteq Nat
  /\ MaxLength \in Nat /\ MaxSend \in Nat /\ MaxConn \in Nat \ {0}

HeadSize == 4

VARIABLES
  session,          \* state of the connection
  conn,             \* its number
  packetsSent,      \* the lengths of the packets that were sent on it
  wire,             \* bytes on their way
  m_data,           \* bytes that were received and not delivered
  m_nPacketLength,  \* the length that was read, 0 for none
  more,             \* OnPreReceive is called again
  received,         \* contents that were delivered
  stale             \* auxiliary: a connection began with the length of another

filterVars ==
  <<session, conn, packetsSent, wire, m_data, m_nPacketLength, more, received, stale>>

(* A byte is known by the connection and the packet it is of, and its place. *)
Byte == (1..MaxConn) \X (1..MaxSend) \X Nat

FilterTypeOK ==
  /\ session \in {"up", "failed", "down"}
  /\ conn \in 1..MaxConn
  /\ packetsSent \in Seq(Length)
  /\ wire \in Seq(Byte) /\ m_data \in Seq(Byte)
  /\ m_nPacketLength \in Nat
  /\ more \in BOOLEAN /\ stale \in BOOLEAN
  /\ received \in Seq(Seq(Byte))

FilterInit ==
  /\ session = "up" /\ conn = 1
  /\ packetsSent = <<>> /\ wire = <<>> /\ m_data = <<>>
  /\ m_nPacketLength = 0
  /\ more = FALSE
  /\ received = <<>>
  /\ stale = FALSE

(* A packet as it is sent, and its content. *)
Bytes(k, length) == [i \in 1..HeadSize + length |-> <<conn, k, i>>]
Content(k) == [i \in 1..packetsSent[k] |-> <<conn, k, HeadSize + i>>]

(* Of the peer, whose limit may be another. *)
OnPreSend(length) ==
  /\ session = "up"
  /\ Len(packetsSent) < MaxSend
  /\ packetsSent' = Append(packetsSent, length)
  /\ wire' = wire \o Bytes(Len(packetsSent) + 1, length)
  /\ UNCHANGED <<session, conn, m_data, m_nPacketLength, more, received, stale>>

(* What four bytes mean as a number.  When they are not the head of a      *)
(* packet that may be any number.                                          *)
UnSerialize(data) ==
  LET k == data[1][2] IN
  IF \A i \in 1..HeadSize : data[i] = <<conn, k, i>>
  THEN {packetsSent[k]}
  ELSE 0..MaxLength + 1

PacketLength(data) ==
  IF m_nPacketLength = 0 THEN UnSerialize(data) ELSE {m_nPacketLength}

NotAllowed(length) == length > MaxLength \/ length = 0

(* Mutated: the length of the packet that was delivered is kept. *)
ResetHeaderKeep(data, length) ==
  /\ m_data' = SubSeq(data, HeadSize + length + 1, Len(data))
  /\ m_nPacketLength' = length

ResetHeader(data, length) ==
  /\ m_data' = SubSeq(data, HeadSize + length + 1, Len(data))
  /\ m_nPacketLength' = 0

(* OnPreReceive with what is in m_data then, by the answer of IsPacketFull. *)
HeaderNoEnough(data) ==
  /\ m_data' = data
  /\ more' = FALSE
  /\ \/ Len(data) < HeadSize /\ UNCHANGED m_nPacketLength
     \/ /\ Len(data) >= HeadSize
        /\ \E length \in PacketLength(data) :
             /\ ~NotAllowed(length) /\ Len(data) < HeadSize + length
             /\ m_nPacketLength' = length
  /\ UNCHANGED <<session, received>>

HeaderNotAllowed(data) ==
  /\ Len(data) >= HeadSize
  /\ \E length \in PacketLength(data) :
       NotAllowed(length) /\ m_nPacketLength' = length
  /\ m_data' = data
  /\ more' = FALSE
  /\ session' = "failed"
  /\ UNCHANGED received

HeaderFind(data) ==
  /\ Len(data) >= HeadSize
  /\ \E length \in PacketLength(data) :
       /\ ~NotAllowed(length) /\ Len(data) >= HeadSize + length
       /\ received' = Append(received, SubSeq(data, HeadSize + 1, HeadSize + length))
       /\ ResetHeader(data, length)
  /\ more' = TRUE
  /\ UNCHANGED session

Filter(data) == HeaderNoEnough(data) \/ HeaderNotAllowed(data) \/ HeaderFind(data)

OnPreReceive(cbData) ==
  /\ session = "up" /\ ~more
  /\ cbData \in 1..Len(wire)
  /\ wire' = SubSeq(wire, cbData + 1, Len(wire))
  /\ Filter(m_data \o SubSeq(wire, 1, cbData))
  /\ UNCHANGED <<conn, packetsSent, stale>>

OnPreReceiveNext ==
  /\ session = "up" /\ more
  /\ Filter(m_data)
  /\ UNCHANGED <<conn, packetsSent, wire, stale>>

(* The connection ends, and what is on its way is lost. *)
Disconnect ==
  /\ session # "down" /\ ~more
  /\ session' = "down"
  /\ wire' = <<>>
  /\ UNCHANGED <<conn, packetsSent, m_data, m_nPacketLength, more, received, stale>>

(* The next connection.  The length is not in what Free empties. *)
ResetPreSend ==
  /\ session = "down"
  /\ conn < MaxConn
  /\ session' = "up" /\ conn' = conn + 1
  /\ m_data' = <<>>
  /\ packetsSent' = <<>> /\ received' = <<>>
  /\ stale' = (stale \/ m_nPacketLength # 0)
  /\ UNCHANGED <<wire, m_nPacketLength, more>>

FilterNext ==
  \/ \E length \in Length : OnPreSend(length)
  \/ \E cbData \in 1..Len(wire) : OnPreReceive(cbData)
  \/ OnPreReceiveNext \/ Disconnect \/ ResetPreSend

FilterSpec == FilterInit /\ [][FilterNext]_filterVars

(***************************************************************************)
(* Properties.                                                             *)
(***************************************************************************)
(* What was delivered is what was sent on this connection, from the first  *)
(* packet on and each whole; and the connection fails only at a packet     *)
(* that is empty or too long.                                              *)
InOrder ==
  /\ Len(received) <= Len(packetsSent)
  /\ \A k \in 1..Len(received) : received[k] = Content(k)
  /\ session = "failed" =>
       /\ Len(received) < Len(packetsSent)
       /\ NotAllowed(packetsSent[Len(received) + 1])

(* A packet that has arrived as a whole does not wait for the next one.    *)
NoneWithheld ==
  session = "up" /\ ~more =>
    \A k \in 1..Len(packetsSent) :
      (\A j \in 1..k : ~NotAllowed(packetsSent[j])) /\ Len(received) < k =>
        \E i \in 1..Len(wire) : wire[i][2] <= k

(* "Reset the state of the filter" (ccframedefaultfilter.h:52): nothing of *)
(* a connection matters to the next.                                       *)
Framed == InOrder /\ NoneWithheld

(* The same, as long as no length was left behind. *)
FramedUnlessStale == stale \/ Framed

=============================================================================
