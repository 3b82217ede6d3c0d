------------------------- MODULE PubSubClientProofs -------------------------
(***************************************************************************)
(* Proofs about PubSubClient: the inductive invariant IInv, and from it    *)
(* the type invariant, the session property, the two keep-alive bounds and *)
(* the acknowledgement property, for every value of the constants.         *)
(***************************************************************************)
EXTENDS PubSubClient, SequenceTheorems, TLAPS

\* The waits add up byte by byte and stay within ReadTime.
LEMMA WaitedFacts ==
  /\ Waited(0) = 0
  /\ ReadTime \in Nat
  /\ \A n \in 0 .. Stalls : Waited(n) \in Nat /\ Waited(n) <= ReadTime
  /\ \A n \in 0 .. Stalls : n < Stalls => Waited(n + 1) = Waited(n) + SocketTimeout
<1>1. /\ Stalls \in Nat /\ SocketTimeout \in Nat
  BY DurationsAssumption
<1>2. \A n \in 0 .. Stalls : (Stalls - n) * SocketTimeout \in Nat
  BY <1>1
<1>3. \A n \in 0 .. Stalls :
        Stalls * SocketTimeout = n * SocketTimeout + (Stalls - n) * SocketTimeout
  BY <1>1
<1>4. \A n \in 0 .. Stalls : n * SocketTimeout \in Nat
  BY <1>1
<1>5. \A n \in 0 .. Stalls : (n + 1) * SocketTimeout = n * SocketTimeout + SocketTimeout
  BY <1>1
<1>6. 0 * SocketTimeout = 0 /\ Stalls * SocketTimeout \in Nat
  BY <1>1
<1> QED
  BY <1>2, <1>3, <1>4, <1>5, <1>6 DEF Waited, ReadTime

\* The bounds of the properties cover each single wait they are made of.
LEMMA BoundFacts ==
  /\ Longest \in Nat /\ Longest >= KeepAlive /\ Longest >= SocketTimeout
  /\ PingAfter \in Nat
  /\ PingAfter >= LoopGap + KeepAlive + ReadTime
  /\ PingAfter >= LoopGap + CallbackTime
BY WaitedFacts, DurationsAssumption DEF Longest, PingAfter

\* The id of a packet is one of the 2^16 values of its two bytes.
LEMMA PacketId == \A p \in Packet : p.id \in 0 .. IdSpace - 1
BY IdSpaceAssumption DEF Packet

LEMMA EmptyQueues == <<>> \in Seq(Packet) /\ <<>> \in Seq({"CONNECT", "PINGREQ"})
OBVIOUS

LEMMA AppendRequest ==
  ASSUME NEW q \in Seq({"CONNECT", "PINGREQ"})
  PROVE  Append(q, "PINGREQ") \in Seq({"CONNECT", "PINGREQ"})
OBVIOUS

\* While readPacket runs there is a packet to read.
LEMMA InboxParts ==
  ASSUME TypeOK, ControlOK, InCall
  PROVE  <<Head(inbox)>> \in Seq(Packet) /\ Tail(inbox) \in Seq(Packet)
<1>1. inbox # <<>> /\ inbox \in Seq(Packet)
  BY DEF ControlOK, TypeOK, QueueType
<1>2. Head(inbox) \in Packet
  BY <1>1
<1> QED
  BY <1>1, <1>2

\* The invariant holds initially.
LEMMA InitIInv == Init => IInv
<1> SUFFICES ASSUME Init PROVE IInv
  OBVIOUS
<1>1. inbox = <<>> /\ inbox \in Seq(Packet) /\ outbox \in Seq({"CONNECT", "PINGREQ"})
  BY DEF Init
<1>2. TypeOK
  <2>1. FlagType
    BY DEF Init, FlagType
  <2>2. QueueType /\ TimeType
    BY <1>1 DEF Init, QueueType, TimeType
  <2>3. ControlType
    BY DurationsAssumption, IdSpaceAssumption
       DEF Init, ControlType, States, Places, MsgId
  <2>4. SetType
    BY DEF Init, SetType
  <2> QED
    BY <2>1, <2>2, <2>3, <2>4 DEF TypeOK
<1>3. SessionConsistent /\ ControlOK /\ WaitOK /\ ConnectOK /\ SendOK /\ ReceiveOK
  BY DEF Init, SessionConsistent, ControlOK, WaitOK, ConnectOK, SendOK, ReceiveOK,
         CanCall, InCall
<1> QED
  BY <1>2, <1>3 DEF IInv

-----------------------------------------------------------------------------
(* Each part of the invariant is kept by every step *)

\* Booleans stay Booleans (Zenon does these; the other parts are for SMT).
LEMMA FlagStep == TypeOK /\ [Next]_vars => FlagType'
<1> SUFFICES ASSUME TypeOK, [Next]_vars PROVE FlagType'
  OBVIOUS
<1> USE DEF TypeOK, FlagType, transport, timers, object, control, session, truth
<1>1. CASE Connect
  BY <1>1 DEF Connect, CanCall, Lose
<1>2. CASE ConnectFails
  BY <1>2 DEF ConnectFails, CanCall, Stop
<1>3. CASE NotConnected
  BY <1>3 DEF NotConnected, CanCall, Lose, Stop
<1>4. CASE Publish
  BY <1>4 DEF Publish, CanCall, WriteOutcomes, Wrote
<1>5. CASE Subscribe
  BY <1>5 DEF Subscribe, CanCall, WriteOutcomes, Wrote, NextId
<1>6. CASE Disconnect
  BY <1>6 DEF Disconnect, CanCall, WriteOutcomes, Wrote, Stop
<1>7. CASE ConnectTimeout
  BY <1>7 DEF ConnectTimeout, Available, Stop, BackFromConnect
<1>8. CASE ConnectAvailable
  BY <1>8 DEF ConnectAvailable, Available
<1>9. CASE ConnackRead
  BY <1>9 DEF ConnackRead, BackFromConnect, Stop
<1>10. CASE ConnackStall
  BY <1>10 DEF ConnackStall, Stop, BackFromConnect
<1>11. CASE LoopTimeout
  BY <1>11 DEF LoopTimeout, Stop
<1>12. CASE Loop
  BY <1>12 DEF Loop, KeepAliveExpired, Ping, WriteOutcomes, WroteRequest, Wrote,
         Available
<1>13. CASE ReadByte
  BY <1>13 DEF ReadByte, InCall
<1>14. CASE LoopStall
  BY <1>14 DEF LoopStall, BackFromLoop
<1>15. CASE CallbackReturn
  BY <1>15 DEF CallbackReturn, BackFromLoop, WriteOutcomes, Wrote, AckId
<1>16. ASSUME NEW p \in Packet, LoopOversized(p) PROVE FlagType'
  BY <1>16 DEF LoopOversized, ReadWhole, BackFromLoop, NextPackets, AfterRead
<1>17. ASSUME NEW p \in Packet, LoopPublish(p) PROVE FlagType'
  BY <1>17 DEF LoopPublish, ReadWhole, BackFromLoop, NextPackets, AfterRead
<1>18. ASSUME NEW p \in Packet, LoopPingReq(p) PROVE FlagType'
  BY <1>18 DEF LoopPingReq, ReadWhole, BackFromLoop, NextPackets, AfterRead,
         WriteOutcomes, Wrote
<1>19. ASSUME NEW p \in Packet, LoopPingResp(p) PROVE FlagType'
  BY <1>19 DEF LoopPingResp, ReadWhole, BackFromLoop, NextPackets, AfterRead
<1>20. ASSUME NEW p \in Packet, LoopOther(p) PROVE FlagType'
  BY <1>20 DEF LoopOther, ReadWhole, BackFromLoop, NextPackets, AfterRead
<1>21. CASE BrokerAnswer
  BY <1>21 DEF BrokerAnswer
<1>22. CASE BrokerSend
  BY <1>22 DEF BrokerSend
<1>23. CASE NetStall
  BY <1>23 DEF NetStall, InCall
<1>24. CASE NetResume
  BY <1>24 DEF NetResume
<1>25. CASE PeerClose
  BY <1>25 DEF PeerClose, InCall
<1>26. CASE Tick
  BY <1>26 DEF Tick, Available, InCall
<1>27. CASE UNCHANGED vars
  BY <1>27 DEF vars
<1> QED
  BY <1>1, <1>2, <1>3, <1>4, <1>5, <1>6, <1>7, <1>8, <1>9, <1>10, <1>11, <1>12,
         <1>13, <1>14, <1>15, <1>16, <1>17, <1>18, <1>19, <1>20, <1>21, <1>22,
         <1>23, <1>24, <1>25, <1>26, <1>27 DEF Next, Sketch, ConnectCall, LoopCall,
         Environment

\* Times stay natural numbers.
LEMMA TimeStep == TypeOK /\ [Next]_vars => TimeType'
<1> SUFFICES ASSUME TypeOK, [Next]_vars PROVE TimeType'
  OBVIOUS
<1> USE DEF TypeOK, TimeType, transport, timers, object, control, session, truth
<1>1. CASE Connect
  BY <1>1 DEF Connect, CanCall, Lose
<1>2. CASE ConnectFails
  BY <1>2 DEF ConnectFails, CanCall, Stop
<1>3. CASE NotConnected
  BY <1>3 DEF NotConnected, CanCall, Lose, Stop
<1>4. CASE Publish
  BY <1>4 DEF Publish, CanCall, WriteOutcomes, Wrote
<1>5. CASE Subscribe
  BY <1>5 DEF Subscribe, CanCall, WriteOutcomes, Wrote, NextId
<1>6. CASE Disconnect
  BY <1>6 DEF Disconnect, CanCall, WriteOutcomes, Wrote, Stop
<1>7. CASE ConnectTimeout
  BY <1>7 DEF ConnectTimeout, Available, Stop, BackFromConnect
<1>8. CASE ConnectAvailable
  BY <1>8 DEF ConnectAvailable, Available
<1>9. CASE ConnackRead
  BY <1>9 DEF ConnackRead, BackFromConnect, Stop
<1>10. CASE ConnackStall
  BY <1>10 DEF ConnackStall, Stop, BackFromConnect
<1>11. CASE LoopTimeout
  BY <1>11 DEF LoopTimeout, Stop
<1>12. CASE Loop
  BY <1>12 DEF Loop, KeepAliveExpired, Ping, WriteOutcomes, WroteRequest, Wrote,
         Available
<1>13. CASE ReadByte
  BY <1>13 DEF ReadByte, InCall
<1>14. CASE LoopStall
  BY <1>14 DEF LoopStall, BackFromLoop
<1>15. CASE CallbackReturn
  BY <1>15 DEF CallbackReturn, BackFromLoop, WriteOutcomes, Wrote, AckId
<1>16. ASSUME NEW p \in Packet, LoopOversized(p) PROVE TimeType'
  BY <1>16 DEF LoopOversized, ReadWhole, BackFromLoop, NextPackets, AfterRead
<1>17. ASSUME NEW p \in Packet, LoopPublish(p) PROVE TimeType'
  BY <1>17 DEF LoopPublish, ReadWhole, BackFromLoop, NextPackets, AfterRead
<1>18. ASSUME NEW p \in Packet, LoopPingReq(p) PROVE TimeType'
  BY <1>18 DEF LoopPingReq, ReadWhole, BackFromLoop, NextPackets, AfterRead,
         WriteOutcomes, Wrote
<1>19. ASSUME NEW p \in Packet, LoopPingResp(p) PROVE TimeType'
  BY <1>19 DEF LoopPingResp, ReadWhole, BackFromLoop, NextPackets, AfterRead
<1>20. ASSUME NEW p \in Packet, LoopOther(p) PROVE TimeType'
  BY <1>20 DEF LoopOther, ReadWhole, BackFromLoop, NextPackets, AfterRead
<1>21. CASE BrokerAnswer
  BY <1>21 DEF BrokerAnswer
<1>22. CASE BrokerSend
  BY <1>22 DEF BrokerSend
<1>23. CASE NetStall
  BY <1>23 DEF NetStall, InCall
<1>24. CASE NetResume
  BY <1>24 DEF NetResume
<1>25. CASE PeerClose
  BY <1>25 DEF PeerClose, InCall
<1>26. CASE Tick
  BY <1>26 DEF Tick, Available, InCall
<1>27. CASE UNCHANGED vars
  BY <1>27 DEF vars
<1> QED
  BY <1>1, <1>2, <1>3, <1>4, <1>5, <1>6, <1>7, <1>8, <1>9, <1>10, <1>11, <1>12,
         <1>13, <1>14, <1>15, <1>16, <1>17, <1>18, <1>19, <1>20, <1>21, <1>22,
         <1>23, <1>24, <1>25, <1>26, <1>27 DEF Next, Sketch, ConnectCall, LoopCall,
         Environment

\* The control state and the packet ids stay in their ranges.
LEMMA ControlStep == TypeOK /\ [Next]_vars => ControlType'
<1> SUFFICES ASSUME TypeOK, [Next]_vars PROVE ControlType'
  OBVIOUS
<1> USE DurationsAssumption, IdSpaceAssumption
<1> USE DEF TypeOK, ControlType, States, Places, MsgId, transport, timers, object,
       control, session, truth
<1>1. CASE Connect
  BY <1>1 DEF Connect, CanCall, Lose
<1>2. CASE ConnectFails
  BY <1>2 DEF ConnectFails, CanCall, Stop
<1>3. CASE NotConnected
  BY <1>3 DEF NotConnected, CanCall, Lose, Stop
<1>4. CASE Publish
  BY <1>4 DEF Publish, CanCall, WriteOutcomes, Wrote
<1>5. CASE Subscribe
  BY <1>5 DEF Subscribe, CanCall, WriteOutcomes, Wrote, NextId
<1>6. CASE Disconnect
  BY <1>6 DEF Disconnect, CanCall, WriteOutcomes, Wrote, Stop
<1>7. CASE ConnectTimeout
  BY <1>7 DEF ConnectTimeout, Available, Stop, BackFromConnect
<1>8. CASE ConnectAvailable
  BY <1>8 DEF ConnectAvailable, Available
<1>9. CASE ConnackRead
  BY <1>9 DEF ConnackRead, BackFromConnect, Stop
<1>10. CASE ConnackStall
  BY <1>10 DEF ConnackStall, Stop, BackFromConnect
<1>11. CASE LoopTimeout
  BY <1>11 DEF LoopTimeout, Stop
<1>12. CASE Loop
  BY <1>12 DEF Loop, KeepAliveExpired, Ping, WriteOutcomes, WroteRequest, Wrote,
         Available
<1>13. CASE ReadByte
  BY <1>13 DEF ReadByte, InCall
<1>14. CASE LoopStall
  BY <1>14 DEF LoopStall, BackFromLoop
<1>15. CASE CallbackReturn
  BY <1>15 DEF CallbackReturn, BackFromLoop, WriteOutcomes, Wrote, AckId
<1>16. ASSUME NEW p \in Packet, LoopOversized(p) PROVE ControlType'
  BY <1>16 DEF LoopOversized, ReadWhole, BackFromLoop, NextPackets, AfterRead
<1>17. ASSUME NEW p \in Packet, LoopPublish(p) PROVE ControlType'
  <2>1. p.id \in 0 .. IdSpace - 1
    BY PacketId
  <2> QED
    BY <1>17, <2>1, DurationsAssumption, IdSpaceAssumption
       DEF TypeOK, ControlType, States, Places, LoopPublish, ReadWhole, BackFromLoop
<1>18. ASSUME NEW p \in Packet, LoopPingReq(p) PROVE ControlType'
  BY <1>18 DEF LoopPingReq, ReadWhole, BackFromLoop, NextPackets, AfterRead,
         WriteOutcomes, Wrote
<1>19. ASSUME NEW p \in Packet, LoopPingResp(p) PROVE ControlType'
  BY <1>19 DEF LoopPingResp, ReadWhole, BackFromLoop, NextPackets, AfterRead
<1>20. ASSUME NEW p \in Packet, LoopOther(p) PROVE ControlType'
  BY <1>20 DEF LoopOther, ReadWhole, BackFromLoop, NextPackets, AfterRead
<1>21. CASE BrokerAnswer
  BY <1>21 DEF BrokerAnswer
<1>22. CASE BrokerSend
  BY <1>22 DEF BrokerSend
<1>23. CASE NetStall
  BY <1>23 DEF NetStall, InCall
<1>24. CASE NetResume
  BY <1>24 DEF NetResume
<1>25. CASE PeerClose
  BY <1>25 DEF PeerClose, InCall
<1>26. CASE Tick
  BY <1>26 DEF Tick, Available, InCall
<1>27. CASE UNCHANGED vars
  BY <1>27 DEF vars
<1> QED
  BY <1>1, <1>2, <1>3, <1>4, <1>5, <1>6, <1>7, <1>8, <1>9, <1>10, <1>11, <1>12,
         <1>13, <1>14, <1>15, <1>16, <1>17, <1>18, <1>19, <1>20, <1>21, <1>22,
         <1>23, <1>24, <1>25, <1>26, <1>27 DEF Next, Sketch, ConnectCall, LoopCall,
         Environment

\* The broker's session holds packet ids.
LEMMA SetStep == TypeOK /\ [Next]_vars => SetType'
<1> SUFFICES ASSUME TypeOK, [Next]_vars PROVE SetType'
  OBVIOUS
<1> USE DEF TypeOK, SetType, transport, timers, object, control, session, truth
<1>1. CASE Connect
  BY <1>1 DEF Connect, CanCall, Lose
<1>2. CASE ConnectFails
  BY <1>2 DEF ConnectFails, CanCall, Stop
<1>3. CASE NotConnected
  BY <1>3 DEF NotConnected, CanCall, Lose, Stop
<1>4. CASE Publish
  BY <1>4 DEF Publish, CanCall, WriteOutcomes, Wrote
<1>5. CASE Subscribe
  BY <1>5 DEF Subscribe, CanCall, WriteOutcomes, Wrote, NextId
<1>6. CASE Disconnect
  BY <1>6 DEF Disconnect, CanCall, WriteOutcomes, Wrote, Stop
<1>7. CASE ConnectTimeout
  BY <1>7 DEF ConnectTimeout, Available, Stop, BackFromConnect
<1>8. CASE ConnectAvailable
  BY <1>8 DEF ConnectAvailable, Available
<1>9. CASE ConnackRead
  BY <1>9 DEF ConnackRead, BackFromConnect, Stop
<1>10. CASE ConnackStall
  BY <1>10 DEF ConnackStall, Stop, BackFromConnect
<1>11. CASE LoopTimeout
  BY <1>11 DEF LoopTimeout, Stop
<1>12. CASE Loop
  BY <1>12 DEF Loop, KeepAliveExpired, Ping, WriteOutcomes, WroteRequest, Wrote,
         Available
<1>13. CASE ReadByte
  BY <1>13 DEF ReadByte, InCall
<1>14. CASE LoopStall
  BY <1>14 DEF LoopStall, BackFromLoop
<1>15. CASE CallbackReturn
  BY <1>15 DEF CallbackReturn, BackFromLoop, WriteOutcomes, Wrote, AckId
<1>16. ASSUME NEW p \in Packet, LoopOversized(p) PROVE SetType'
  BY <1>16 DEF LoopOversized, ReadWhole, BackFromLoop, NextPackets, AfterRead
<1>17. ASSUME NEW p \in Packet, LoopPublish(p) PROVE SetType'
  <2>1. {p.id} \ {0} \subseteq MsgId
    BY PacketId, IdSpaceAssumption DEF MsgId
  <2> QED
    BY <1>17, <2>1 DEF TypeOK, SetType, LoopPublish, ReadWhole
<1>18. ASSUME NEW p \in Packet, LoopPingReq(p) PROVE SetType'
  BY <1>18 DEF LoopPingReq, ReadWhole, BackFromLoop, NextPackets, AfterRead,
         WriteOutcomes, Wrote
<1>19. ASSUME NEW p \in Packet, LoopPingResp(p) PROVE SetType'
  BY <1>19 DEF LoopPingResp, ReadWhole, BackFromLoop, NextPackets, AfterRead
<1>20. ASSUME NEW p \in Packet, LoopOther(p) PROVE SetType'
  BY <1>20 DEF LoopOther, ReadWhole, BackFromLoop, NextPackets, AfterRead
<1>21. CASE BrokerAnswer
  BY <1>21 DEF BrokerAnswer
<1>22. CASE BrokerSend
  <2>1. PICK p \in Packet : /\ unacked' = unacked \cup ({p.id} \ {0})
                           /\ handled' = handled \ {p.id}
    BY <1>22 DEF BrokerSend
  <2>2. {p.id} \ {0} \subseteq MsgId
    BY PacketId, IdSpaceAssumption DEF MsgId
  <2> QED
    BY <1>22, <2>1, <2>2 DEF TypeOK, SetType, BrokerSend
<1>23. CASE NetStall
  BY <1>23 DEF NetStall, InCall
<1>24. CASE NetResume
  BY <1>24 DEF NetResume
<1>25. CASE PeerClose
  BY <1>25 DEF PeerClose, InCall
<1>26. CASE Tick
  BY <1>26 DEF Tick, Available, InCall
<1>27. CASE UNCHANGED vars
  BY <1>27 DEF vars
<1> QED
  BY <1>1, <1>2, <1>3, <1>4, <1>5, <1>6, <1>7, <1>8, <1>9, <1>10, <1>11, <1>12,
         <1>13, <1>14, <1>15, <1>16, <1>17, <1>18, <1>19, <1>20, <1>21, <1>22,
         <1>23, <1>24, <1>25, <1>26, <1>27 DEF Next, Sketch, ConnectCall, LoopCall,
         Environment

\* The packets under way are well formed.
LEMMA QueueStep == TypeOK /\ ControlOK /\ [Next]_vars => QueueType'
<1> SUFFICES ASSUME TypeOK, ControlOK, [Next]_vars PROVE QueueType'
  OBVIOUS
<1> USE DEF TypeOK, QueueType, transport, timers, object, control, session, truth
<1>1. CASE Connect
  <2>1. <<"CONNECT">> \in Seq({"CONNECT", "PINGREQ"})
    OBVIOUS
  <2>2. inbox' = <<>> /\ outbox' \in {<<>>, <<"CONNECT">>}
    BY <1>1 DEF Connect
  <2> QED
    BY <2>1, <2>2, EmptyQueues DEF QueueType
<1>2. CASE ConnectFails
  <2>1. inbox' \in {<<>>, inbox} /\ outbox' \in {<<>>, outbox}
    BY <1>2 DEF ConnectFails, Stop, transport
  <2> QED
    BY <2>1, EmptyQueues DEF TypeOK, QueueType
<1>3. CASE NotConnected
  BY <1>3 DEF NotConnected, CanCall, Lose, Stop
<1>4. CASE Publish
  BY <1>4 DEF Publish, CanCall, WriteOutcomes, Wrote
<1>5. CASE Subscribe
  BY <1>5 DEF Subscribe, CanCall, WriteOutcomes, Wrote, NextId
<1>6. CASE Disconnect
  BY <1>6 DEF Disconnect, CanCall, WriteOutcomes, Wrote, Stop
<1>7. CASE ConnectTimeout
  BY <1>7 DEF ConnectTimeout, Available, Stop, BackFromConnect
<1>8. CASE ConnectAvailable
  BY <1>8 DEF ConnectAvailable, Available
<1>9. CASE ConnackRead
  <2>1. inbox' \in {<<>>, Tail(inbox)} /\ outbox' \in {<<>>, outbox}
    BY <1>9 DEF ConnackRead, Stop
  <2>2. Tail(inbox) \in Seq(Packet)
    BY <1>9, InboxParts DEF ConnackRead, InCall
  <2> QED
    BY <2>1, <2>2, EmptyQueues DEF TypeOK, QueueType
<1>10. CASE ConnackStall
  BY <1>10 DEF ConnackStall, Stop, BackFromConnect
<1>11. CASE LoopTimeout
  BY <1>11 DEF LoopTimeout, Stop
<1>12. CASE Loop
  <2>1. inbox' = inbox /\ outbox' \in {outbox, Append(outbox, "PINGREQ")}
    BY <1>12 DEF Loop, Ping, WroteRequest
  <2>2. Append(outbox, "PINGREQ") \in Seq({"CONNECT", "PINGREQ"})
    BY AppendRequest
  <2> QED
    BY <2>1, <2>2
<1>13. CASE ReadByte
  BY <1>13 DEF ReadByte, InCall
<1>14. CASE LoopStall
  BY <1>14 DEF LoopStall, BackFromLoop
<1>15. CASE CallbackReturn
  BY <1>15 DEF CallbackReturn, BackFromLoop, WriteOutcomes, Wrote, AckId
<1>16. ASSUME NEW p \in Packet, LoopOversized(p) PROVE QueueType'
  <2>1. outbox' = outbox /\ inbox' \in {inbox, Tail(inbox)}
    BY <1>16 DEF LoopOversized, ReadWhole, AfterRead
  <2>2. Tail(inbox) \in Seq(Packet)
    BY <1>16, InboxParts DEF LoopOversized, ReadWhole, InCall
  <2> QED
    BY <2>1, <2>2 DEF TypeOK, QueueType
<1>17. ASSUME NEW p \in Packet, LoopPublish(p) PROVE QueueType'
  <2>1. outbox' = outbox /\ inbox' \in {inbox, Tail(inbox)}
    BY <1>17 DEF LoopPublish, ReadWhole, AfterRead
  <2>2. Tail(inbox) \in Seq(Packet)
    BY <1>17, InboxParts DEF LoopPublish, ReadWhole, InCall
  <2> QED
    BY <2>1, <2>2 DEF TypeOK, QueueType
<1>18. ASSUME NEW p \in Packet, LoopPingReq(p) PROVE QueueType'
  <2>1. outbox' = outbox /\ inbox' \in {inbox, Tail(inbox)}
    BY <1>18 DEF LoopPingReq, ReadWhole, AfterRead
  <2>2. Tail(inbox) \in Seq(Packet)
    BY <1>18, InboxParts DEF LoopPingReq, ReadWhole, InCall
  <2> QED
    BY <2>1, <2>2 DEF TypeOK, QueueType
<1>19. ASSUME NEW p \in Packet, LoopPingResp(p) PROVE QueueType'
  <2>1. outbox' = outbox /\ inbox' \in {inbox, Tail(inbox)}
    BY <1>19 DEF LoopPingResp, ReadWhole, AfterRead
  <2>2. Tail(inbox) \in Seq(Packet)
    BY <1>19, InboxParts DEF LoopPingResp, ReadWhole, InCall
  <2> QED
    BY <2>1, <2>2 DEF TypeOK, QueueType
<1>20. ASSUME NEW p \in Packet, LoopOther(p) PROVE QueueType'
  <2>1. outbox' = outbox /\ inbox' \in {inbox, Tail(inbox)}
    BY <1>20 DEF LoopOther, ReadWhole, AfterRead
  <2>2. Tail(inbox) \in Seq(Packet)
    BY <1>20, InboxParts DEF LoopOther, ReadWhole, InCall
  <2> QED
    BY <2>1, <2>2 DEF TypeOK, QueueType
<1>21. CASE BrokerAnswer
  <2>1. PICK p \in Packet : inbox' = Append(inbox, p)
    BY <1>21 DEF BrokerAnswer, Packet, Connack, PingResp
  <2>2. outbox' = Tail(outbox) /\ outbox # <<>>
    BY <1>21 DEF BrokerAnswer
  <2> QED
    BY <2>1, <2>2 DEF TypeOK, QueueType
<1>22. CASE BrokerSend
  BY <1>22 DEF BrokerSend
<1>23. CASE NetStall
  BY <1>23 DEF NetStall, InCall
<1>24. CASE NetResume
  BY <1>24 DEF NetResume
<1>25. CASE PeerClose
  <2>1. outbox' = <<>> /\ inbox' = IF InCall THEN <<Head(inbox)>> ELSE <<>>
    BY <1>25 DEF PeerClose
  <2>2. InCall => <<Head(inbox)>> \in Seq(Packet)
    BY InboxParts
  <2> QED
    BY <2>1, <2>2, EmptyQueues DEF QueueType
<1>26. CASE Tick
  BY <1>26 DEF Tick, Available, InCall
<1>27. CASE UNCHANGED vars
  BY <1>27 DEF vars
<1> QED
  BY <1>1, <1>2, <1>3, <1>4, <1>5, <1>6, <1>7, <1>8, <1>9, <1>10, <1>11, <1>12,
         <1>13, <1>14, <1>15, <1>16, <1>17, <1>18, <1>19, <1>20, <1>21, <1>22,
         <1>23, <1>24, <1>25, <1>26, <1>27 DEF Next, Sketch, ConnectCall, LoopCall,
         Environment

\* The type invariant is kept.
LEMMA TypeStep == IInv /\ [Next]_vars => TypeOK'
BY FlagStep, TimeStep, ControlStep, SetStep, QueueStep DEF IInv, TypeOK

\* A connection the sketch sees up has an accepted session.
LEMMA SessionStep == IInv /\ [Next]_vars => SessionConsistent'
<1> SUFFICES ASSUME IInv, [Next]_vars PROVE SessionConsistent'
  OBVIOUS
<1> USE DEF IInv, SessionConsistent, ControlOK, CanCall, InCall, transport, timers,
       object, control, session, truth
<1>1. CASE Connect
  BY <1>1 DEF Connect, Lose
<1>2. CASE ConnectFails
  BY <1>2 DEF ConnectFails, Stop
<1>3. CASE NotConnected
  BY <1>3 DEF NotConnected, Lose, Stop
<1>4. CASE Publish
  BY <1>4 DEF Publish, WriteOutcomes, Wrote
<1>5. CASE Subscribe
  BY <1>5 DEF Subscribe, WriteOutcomes, Wrote, NextId
<1>6. CASE Disconnect
  BY <1>6 DEF Disconnect, WriteOutcomes, Wrote, Stop
<1>7. CASE ConnectTimeout
  BY <1>7 DEF ConnectTimeout, Available, Stop, BackFromConnect
<1>8. CASE ConnectAvailable
  BY <1>8 DEF ConnectAvailable, Available
<1>9. CASE ConnackRead
  BY <1>9 DEF ConnackRead, BackFromConnect, Stop
<1>10. CASE ConnackStall
  BY <1>10 DEF ConnackStall, Stop, BackFromConnect
<1>11. CASE LoopTimeout
  BY <1>11 DEF LoopTimeout, Stop
<1>12. CASE Loop
  BY <1>12 DEF Loop, KeepAliveExpired, Ping, WriteOutcomes, WroteRequest, Wrote,
         Available
<1>13. CASE ReadByte
  BY <1>13 DEF ReadByte
<1>14. CASE LoopStall
  BY <1>14 DEF LoopStall, BackFromLoop
<1>15. CASE CallbackReturn
  BY <1>15 DEF CallbackReturn, BackFromLoop, WriteOutcomes, Wrote, AckId
<1>16. ASSUME NEW p \in Packet, LoopOversized(p) PROVE SessionConsistent'
  BY <1>16 DEF LoopOversized, ReadWhole, BackFromLoop, NextPackets, AfterRead
<1>17. ASSUME NEW p \in Packet, LoopPublish(p) PROVE SessionConsistent'
  BY <1>17 DEF LoopPublish, ReadWhole, BackFromLoop, NextPackets, AfterRead
<1>18. ASSUME NEW p \in Packet, LoopPingReq(p) PROVE SessionConsistent'
  BY <1>18 DEF LoopPingReq, ReadWhole, BackFromLoop, NextPackets, AfterRead,
         WriteOutcomes, Wrote
<1>19. ASSUME NEW p \in Packet, LoopPingResp(p) PROVE SessionConsistent'
  BY <1>19 DEF LoopPingResp, ReadWhole, BackFromLoop, NextPackets, AfterRead
<1>20. ASSUME NEW p \in Packet, LoopOther(p) PROVE SessionConsistent'
  BY <1>20 DEF LoopOther, ReadWhole, BackFromLoop, NextPackets, AfterRead
<1>21. CASE BrokerAnswer
  BY <1>21 DEF BrokerAnswer
<1>22. CASE BrokerSend
  BY <1>22 DEF BrokerSend
<1>23. CASE NetStall
  BY <1>23 DEF NetStall
<1>24. CASE NetResume
  BY <1>24 DEF NetResume
<1>25. CASE PeerClose
  BY <1>25 DEF PeerClose
<1>26. CASE Tick
  BY <1>26 DEF Tick, Available
<1>27. CASE UNCHANGED vars
  BY <1>27 DEF vars
<1> QED
  BY <1>1, <1>2, <1>3, <1>4, <1>5, <1>6, <1>7, <1>8, <1>9, <1>10, <1>11, <1>12,
         <1>13, <1>14, <1>15, <1>16, <1>17, <1>18, <1>19, <1>20, <1>21, <1>22,
         <1>23, <1>24, <1>25, <1>26, <1>27 DEF Next, Sketch, ConnectCall, LoopCall,
         Environment

\* The control location agrees with the locals and the packet being read.
LEMMA ControlOKStep == IInv /\ [Next]_vars => ControlOK'
<1> SUFFICES ASSUME IInv, [Next]_vars PROVE ControlOK'
  OBVIOUS
<1> USE DurationsAssumption
<1> USE DEF IInv, TypeOK, FlagType, TimeType, ControlType, SessionConsistent,
       ControlOK, CanCall, InCall, transport, timers, object, control, session,
       truth
<1>1. CASE Connect
  BY <1>1 DEF Connect, Lose
<1>2. CASE ConnectFails
  BY <1>2 DEF ConnectFails, Stop
<1>3. CASE NotConnected
  BY <1>3 DEF NotConnected, Lose, Stop
<1>4. CASE Publish
  BY <1>4 DEF Publish, WriteOutcomes, Wrote
<1>5. CASE Subscribe
  BY <1>5 DEF Subscribe, WriteOutcomes, Wrote, NextId
<1>6. CASE Disconnect
  BY <1>6 DEF Disconnect, WriteOutcomes, Wrote, Stop
<1>7. CASE ConnectTimeout
  BY <1>7 DEF ConnectTimeout, Available, Stop, BackFromConnect
<1>8. CASE ConnectAvailable
  BY <1>8 DEF ConnectAvailable, Available
<1>9. CASE ConnackRead
  BY <1>9 DEF ConnackRead, BackFromConnect, Stop
<1>10. CASE ConnackStall
  BY <1>10 DEF ConnackStall, Stop, BackFromConnect
<1>11. CASE LoopTimeout
  BY <1>11 DEF LoopTimeout, Stop
<1>12. CASE Loop
  BY <1>12 DEF Loop, KeepAliveExpired, Ping, WriteOutcomes, WroteRequest, Wrote,
         Available
<1>13. CASE ReadByte
  BY <1>13 DEF ReadByte
<1>14. CASE LoopStall
  BY <1>14 DEF LoopStall, BackFromLoop
<1>15. CASE CallbackReturn
  BY <1>15 DEF CallbackReturn, BackFromLoop, WriteOutcomes, Wrote, AckId
<1>16. ASSUME NEW p \in Packet, LoopOversized(p) PROVE ControlOK'
  BY <1>16 DEF LoopOversized, ReadWhole, BackFromLoop, NextPackets, AfterRead
<1>17. ASSUME NEW p \in Packet, LoopPublish(p) PROVE ControlOK'
  BY <1>17 DEF LoopPublish, ReadWhole, BackFromLoop, NextPackets, AfterRead
<1>18. ASSUME NEW p \in Packet, LoopPingReq(p) PROVE ControlOK'
  BY <1>18 DEF LoopPingReq, ReadWhole, BackFromLoop, NextPackets, AfterRead,
         WriteOutcomes, Wrote
<1>19. ASSUME NEW p \in Packet, LoopPingResp(p) PROVE ControlOK'
  BY <1>19 DEF LoopPingResp, ReadWhole, BackFromLoop, NextPackets, AfterRead
<1>20. ASSUME NEW p \in Packet, LoopOther(p) PROVE ControlOK'
  BY <1>20 DEF LoopOther, ReadWhole, BackFromLoop, NextPackets, AfterRead
<1>21. CASE BrokerAnswer
  BY <1>21 DEF BrokerAnswer
<1>22. CASE BrokerSend
  BY <1>22 DEF BrokerSend
<1>23. CASE NetStall
  BY <1>23 DEF NetStall
<1>24. CASE NetResume
  BY <1>24 DEF NetResume
<1>25. CASE PeerClose
  BY <1>25 DEF PeerClose
<1>26. CASE Tick
  BY <1>26 DEF Tick, Available
<1>27. CASE UNCHANGED vars
  BY <1>27 DEF vars
<1> QED
  BY <1>1, <1>2, <1>3, <1>4, <1>5, <1>6, <1>7, <1>8, <1>9, <1>10, <1>11, <1>12,
         <1>13, <1>14, <1>15, <1>16, <1>17, <1>18, <1>19, <1>20, <1>21, <1>22,
         <1>23, <1>24, <1>25, <1>26, <1>27 DEF Next, Sketch, ConnectCall, LoopCall,
         Environment

\* No wait outlasts its timer.
LEMMA WaitStep == IInv /\ [Next]_vars => WaitOK'
<1> SUFFICES ASSUME IInv, [Next]_vars PROVE WaitOK'
  OBVIOUS
<1> USE WaitedFacts, BoundFacts, DurationsAssumption
<1> USE DEF IInv, TypeOK, FlagType, TimeType, ControlType, ControlOK, WaitOK,
       InCall, transport, timers, object, control, session, truth
<1>1. CASE Connect
  BY <1>1 DEF Connect, CanCall, Lose
<1>2. CASE ConnectFails
  BY <1>2 DEF ConnectFails, CanCall, Stop
<1>3. CASE NotConnected
  BY <1>3 DEF NotConnected, CanCall, Lose, Stop
<1>4. CASE Publish
  BY <1>4 DEF Publish, CanCall, WriteOutcomes, Wrote
<1>5. CASE Subscribe
  BY <1>5 DEF Subscribe, CanCall, WriteOutcomes, Wrote, NextId
<1>6. CASE Disconnect
  BY <1>6 DEF Disconnect, CanCall, WriteOutcomes, Wrote, Stop
<1>7. CASE ConnectTimeout
  BY <1>7 DEF ConnectTimeout, Available, Stop, BackFromConnect
<1>8. CASE ConnectAvailable
  BY <1>8 DEF ConnectAvailable, Available
<1>9. CASE ConnackRead
  BY <1>9 DEF ConnackRead, BackFromConnect, Stop
<1>10. CASE ConnackStall
  BY <1>10 DEF ConnackStall, Stop, BackFromConnect
<1>11. CASE LoopTimeout
  BY <1>11 DEF LoopTimeout, Stop
<1>12. CASE Loop
  BY <1>12 DEF Loop, KeepAliveExpired, Ping, WriteOutcomes, WroteRequest, Wrote,
         Available
<1>13. CASE ReadByte
  BY <1>13 DEF ReadByte
<1>14. CASE LoopStall
  BY <1>14 DEF LoopStall, BackFromLoop
<1>15. CASE CallbackReturn
  BY <1>15 DEF CallbackReturn, BackFromLoop, WriteOutcomes, Wrote, AckId
<1>16. ASSUME NEW p \in Packet, LoopOversized(p) PROVE WaitOK'
  BY <1>16 DEF LoopOversized, ReadWhole, BackFromLoop, NextPackets, AfterRead
<1>17. ASSUME NEW p \in Packet, LoopPublish(p) PROVE WaitOK'
  BY <1>17 DEF LoopPublish, ReadWhole, BackFromLoop, NextPackets, AfterRead
<1>18. ASSUME NEW p \in Packet, LoopPingReq(p) PROVE WaitOK'
  BY <1>18 DEF LoopPingReq, ReadWhole, BackFromLoop, NextPackets, AfterRead,
         WriteOutcomes, Wrote
<1>19. ASSUME NEW p \in Packet, LoopPingResp(p) PROVE WaitOK'
  BY <1>19 DEF LoopPingResp, ReadWhole, BackFromLoop, NextPackets, AfterRead
<1>20. ASSUME NEW p \in Packet, LoopOther(p) PROVE WaitOK'
  BY <1>20 DEF LoopOther, ReadWhole, BackFromLoop, NextPackets, AfterRead
<1>21. CASE BrokerAnswer
  BY <1>21 DEF BrokerAnswer
<1>22. CASE BrokerSend
  BY <1>22 DEF BrokerSend
<1>23. CASE NetStall
  BY <1>23 DEF NetStall
<1>24. CASE NetResume
  BY <1>24 DEF NetResume
<1>25. CASE PeerClose
  BY <1>25 DEF PeerClose
<1>26. CASE Tick
  BY <1>26 DEF Tick, Available
<1>27. CASE UNCHANGED vars
  BY <1>27 DEF vars
<1> QED
  BY <1>1, <1>2, <1>3, <1>4, <1>5, <1>6, <1>7, <1>8, <1>9, <1>10, <1>11, <1>12,
         <1>13, <1>14, <1>15, <1>16, <1>17, <1>18, <1>19, <1>20, <1>21, <1>22,
         <1>23, <1>24, <1>25, <1>26, <1>27 DEF Next, Sketch, ConnectCall, LoopCall,
         Environment

\* connect() knows how old its CONNECT is.
LEMMA ConnectStep == IInv /\ [Next]_vars => ConnectOK'
<1> SUFFICES ASSUME IInv, [Next]_vars PROVE ConnectOK'
  OBVIOUS
<1> USE WaitedFacts, BoundFacts, DurationsAssumption
<1> USE DEF IInv, TypeOK, FlagType, TimeType, ControlType, ControlOK, WaitOK,
       InCall, ConnectOK, transport, timers, object, control, session, truth
<1>1. CASE Connect
  BY <1>1 DEF Connect, CanCall, Lose
<1>2. CASE ConnectFails
  BY <1>2 DEF ConnectFails, CanCall, Stop
<1>3. CASE NotConnected
  BY <1>3 DEF NotConnected, CanCall, Lose, Stop
<1>4. CASE Publish
  BY <1>4 DEF Publish, CanCall, WriteOutcomes, Wrote
<1>5. CASE Subscribe
  BY <1>5 DEF Subscribe, CanCall, WriteOutcomes, Wrote, NextId
<1>6. CASE Disconnect
  BY <1>6 DEF Disconnect, CanCall, WriteOutcomes, Wrote, Stop
<1>7. CASE ConnectTimeout
  BY <1>7 DEF ConnectTimeout, Available, Stop, BackFromConnect
<1>8. CASE ConnectAvailable
  BY <1>8 DEF ConnectAvailable, Available
<1>9. CASE ConnackRead
  BY <1>9 DEF ConnackRead, BackFromConnect, Stop
<1>10. CASE ConnackStall
  BY <1>10 DEF ConnackStall, Stop, BackFromConnect
<1>11. CASE LoopTimeout
  BY <1>11 DEF LoopTimeout, Stop
<1>12. CASE Loop
  BY <1>12 DEF Loop, KeepAliveExpired, Ping, WriteOutcomes, WroteRequest, Wrote,
         Available
<1>13. CASE ReadByte
  BY <1>13 DEF ReadByte
<1>14. CASE LoopStall
  BY <1>14 DEF LoopStall, BackFromLoop
<1>15. CASE CallbackReturn
  BY <1>15 DEF CallbackReturn, BackFromLoop, WriteOutcomes, Wrote, AckId
<1>16. ASSUME NEW p \in Packet, LoopOversized(p) PROVE ConnectOK'
  BY <1>16 DEF LoopOversized, ReadWhole, BackFromLoop, NextPackets, AfterRead
<1>17. ASSUME NEW p \in Packet, LoopPublish(p) PROVE ConnectOK'
  BY <1>17 DEF LoopPublish, ReadWhole, BackFromLoop, NextPackets, AfterRead
<1>18. ASSUME NEW p \in Packet, LoopPingReq(p) PROVE ConnectOK'
  BY <1>18 DEF LoopPingReq, ReadWhole, BackFromLoop, NextPackets, AfterRead,
         WriteOutcomes, Wrote
<1>19. ASSUME NEW p \in Packet, LoopPingResp(p) PROVE ConnectOK'
  BY <1>19 DEF LoopPingResp, ReadWhole, BackFromLoop, NextPackets, AfterRead
<1>20. ASSUME NEW p \in Packet, LoopOther(p) PROVE ConnectOK'
  BY <1>20 DEF LoopOther, ReadWhole, BackFromLoop, NextPackets, AfterRead
<1>21. CASE BrokerAnswer
  BY <1>21 DEF BrokerAnswer
<1>22. CASE BrokerSend
  BY <1>22 DEF BrokerSend
<1>23. CASE NetStall
  BY <1>23 DEF NetStall
<1>24. CASE NetResume
  BY <1>24 DEF NetResume
<1>25. CASE PeerClose
  BY <1>25 DEF PeerClose
<1>26. CASE Tick
  BY <1>26 DEF Tick, Available
<1>27. CASE UNCHANGED vars
  BY <1>27 DEF vars
<1> QED
  BY <1>1, <1>2, <1>3, <1>4, <1>5, <1>6, <1>7, <1>8, <1>9, <1>10, <1>11, <1>12,
         <1>13, <1>14, <1>15, <1>16, <1>17, <1>18, <1>19, <1>20, <1>21, <1>22,
         <1>23, <1>24, <1>25, <1>26, <1>27 DEF Next, Sketch, ConnectCall, LoopCall,
         Environment

\* The client's silence stays within what is left of the keep-alive.
LEMMA SendStep == IInv /\ [Next]_vars => SendOK'
<1> SUFFICES ASSUME IInv, [Next]_vars PROVE SendOK'
  OBVIOUS
<1> USE WaitedFacts, BoundFacts, DurationsAssumption
<1> USE DEF IInv, TypeOK, FlagType, TimeType, ControlType, ControlOK, WaitOK,
       InCall, ConnectOK, SendOK, transport, timers, object, control, session, truth
<1>1. CASE Connect
  BY <1>1 DEF Connect, CanCall, Lose
<1>2. CASE ConnectFails
  BY <1>2 DEF ConnectFails, CanCall, Stop
<1>3. CASE NotConnected
  BY <1>3 DEF NotConnected, CanCall, Lose, Stop
<1>4. CASE Publish
  BY <1>4 DEF Publish, CanCall, WriteOutcomes, Wrote
<1>5. CASE Subscribe
  BY <1>5 DEF Subscribe, CanCall, WriteOutcomes, Wrote, NextId
<1>6. CASE Disconnect
  BY <1>6 DEF Disconnect, CanCall, WriteOutcomes, Wrote, Stop
<1>7. CASE ConnectTimeout
  BY <1>7 DEF ConnectTimeout, Available, Stop, BackFromConnect
<1>8. CASE ConnectAvailable
  BY <1>8 DEF ConnectAvailable, Available
<1>9. CASE ConnackRead
  <2>1. up /\ intact => now <= lastSent + Longest + ReadTime
    <3>1. now <= since /\ Waited(got) <= ReadTime
      BY <1>9 DEF ConnackRead
    <3>2. up => since <= lastInActivity + SocketTimeout + Waited(got)
      BY <1>9 DEF ConnackRead
    <3>3. up /\ intact => lastInActivity <= lastSent
      BY <1>9 DEF ConnackRead
    <3> QED
      BY <3>1, <3>2, <3>3
  <2>2. up' /\ intact' => up /\ intact
    BY <1>9 DEF ConnackRead, Stop
  <2>3. pc' \in {"idle", "callback"} /\ since' = now
    BY <1>9 DEF ConnackRead, BackFromConnect
  <2>4. lastSent' = lastSent /\ lastOutActivity' = lastOutActivity
    BY <1>9 DEF ConnackRead
  <2>5. up /\ intact => lastOutActivity <= lastSent
    BY DEF IInv, SendOK
  <2>6. lastSent \in Nat /\ CallbackTime \in Nat
    BY DurationsAssumption DEF IInv, TypeOK, TimeType
  <2> QED
    BY <2>1, <2>2, <2>3, <2>4, <2>5, <2>6, BoundFacts, WaitedFacts DEF SendOK
<1>10. CASE ConnackStall
  BY <1>10 DEF ConnackStall, Stop, BackFromConnect
<1>11. CASE LoopTimeout
  BY <1>11 DEF LoopTimeout, Stop
<1>12. CASE Loop
  <2>1. CASE KeepAliveExpired
    <3>1. intact' => lastSent' = now
      BY <1>12, <2>1 DEF Loop, Ping, WroteRequest, Wrote
    <3>2. lastOutActivity' = now /\ since' = now
      BY <1>12, <2>1 DEF Loop, Ping
    <3>3. pc' \in {"idle", "reading"} /\ (pc' = "reading" => t' = now)
      BY <1>12 DEF Loop
    <3>4. now \in Nat /\ CallbackTime \in Nat /\ KeepAlive \in Nat
      BY DurationsAssumption DEF IInv, TypeOK, TimeType
    <3> QED
      BY <3>1, <3>2, <3>3, <3>4, BoundFacts, WaitedFacts DEF SendOK
  <2>2. CASE ~KeepAliveExpired
    <3>1. up /\ intact => now <= lastSent + KeepAlive
      BY <2>2, DurationsAssumption
         DEF KeepAliveExpired, IInv, TypeOK, TimeType, SendOK
    <3>2. UNCHANGED <<up, intact, lastSent, lastOutActivity>> /\ since' = now
      BY <1>12, <2>2 DEF Loop, timers
    <3>3. pc' \in {"idle", "reading"} /\ (pc' = "reading" => t' = now)
      BY <1>12 DEF Loop
    <3>4. up /\ intact => lastOutActivity <= lastSent
      BY DEF IInv, SendOK
    <3>5. now \in Nat /\ lastSent \in Nat /\ CallbackTime \in Nat /\ KeepAlive \in Nat
      BY DurationsAssumption DEF IInv, TypeOK, TimeType
    <3> QED
      BY <3>1, <3>2, <3>3, <3>4, <3>5, BoundFacts, WaitedFacts DEF SendOK
  <2> QED
    BY <2>1, <2>2
<1>13. CASE ReadByte
  BY <1>13 DEF ReadByte
<1>14. CASE LoopStall
  BY <1>14 DEF LoopStall, BackFromLoop
<1>15. CASE CallbackReturn
  <2>1. up /\ intact => now <= lastSent + Longest + ReadTime + CallbackTime
    BY <1>15, WaitedFacts, BoundFacts, DurationsAssumption
       DEF IInv, TypeOK, TimeType, ControlType, ControlOK, WaitOK, InCall, SendOK, CallbackReturn
  <2>2. up' = up /\ pc' = "idle" /\ since' = now
    BY <1>15 DEF CallbackReturn, BackFromLoop, transport
  <2>3. t <= now /\ lastSent <= now /\ t \in Nat /\ lastSent \in Nat /\ now \in Nat
    BY DEF IInv, WaitOK, TypeOK, TimeType
  <2>4. up /\ intact => lastOutActivity <= lastSent
    BY DEF IInv, SendOK
  <2>5. CallbackTime \in Nat
    BY DurationsAssumption
  <2>6. CASE msgId # 0
    <3>1. intact' => lastSent' = now
      BY <1>15, <2>6 DEF CallbackReturn, Wrote
    <3>2. lastOutActivity' = t
      BY <1>15, <2>6 DEF CallbackReturn
    <3> QED
      BY <3>1, <3>2, <2>2, <2>3, <2>5, BoundFacts, WaitedFacts DEF SendOK
  <2>7. CASE msgId = 0
    <3>1. UNCHANGED <<lastOutActivity, lastSent, intact>>
      BY <1>15, <2>7 DEF CallbackReturn
    <3> QED
      BY <3>1, <2>1, <2>2, <2>4 DEF SendOK
  <2> QED
    BY <2>6, <2>7
<1>16. ASSUME NEW p \in Packet, LoopOversized(p) PROVE SendOK'
  BY <1>16 DEF LoopOversized, ReadWhole, BackFromLoop, NextPackets, AfterRead
<1>17. ASSUME NEW p \in Packet, LoopPublish(p) PROVE SendOK'
  BY <1>17 DEF LoopPublish, ReadWhole, BackFromLoop, NextPackets, AfterRead
<1>18. ASSUME NEW p \in Packet, LoopPingReq(p) PROVE SendOK'
  BY <1>18 DEF LoopPingReq, ReadWhole, BackFromLoop, NextPackets, AfterRead,
         WriteOutcomes, Wrote
<1>19. ASSUME NEW p \in Packet, LoopPingResp(p) PROVE SendOK'
  BY <1>19 DEF LoopPingResp, ReadWhole, BackFromLoop, NextPackets, AfterRead
<1>20. ASSUME NEW p \in Packet, LoopOther(p) PROVE SendOK'
  BY <1>20 DEF LoopOther, ReadWhole, BackFromLoop, NextPackets, AfterRead
<1>21. CASE BrokerAnswer
  BY <1>21 DEF BrokerAnswer
<1>22. CASE BrokerSend
  BY <1>22 DEF BrokerSend
<1>23. CASE NetStall
  BY <1>23 DEF NetStall
<1>24. CASE NetResume
  BY <1>24 DEF NetResume
<1>25. CASE PeerClose
  BY <1>25 DEF PeerClose
<1>26. CASE Tick
  BY <1>26 DEF Tick, Available
<1>27. CASE UNCHANGED vars
  BY <1>27 DEF vars
<1> QED
  BY <1>1, <1>2, <1>3, <1>4, <1>5, <1>6, <1>7, <1>8, <1>9, <1>10, <1>11, <1>12,
         <1>13, <1>14, <1>15, <1>16, <1>17, <1>18, <1>19, <1>20, <1>21, <1>22,
         <1>23, <1>24, <1>25, <1>26, <1>27 DEF Next, Sketch, ConnectCall, LoopCall,
         Environment

\* The peer's silence stays within what loop() tolerates.
LEMMA ReceiveStep == IInv /\ [Next]_vars => ReceiveOK'
<1> SUFFICES ASSUME IInv, [Next]_vars PROVE ReceiveOK'
  OBVIOUS
<1> USE WaitedFacts, BoundFacts, DurationsAssumption
<1> USE DEF IInv, TypeOK, FlagType, TimeType, ControlType, ControlOK, WaitOK,
       InCall, ConnectOK, ReceiveOK, transport, timers, object, control, session,
       truth
<1>1. CASE Connect
  BY <1>1 DEF Connect, CanCall, Lose
<1>2. CASE ConnectFails
  BY <1>2 DEF ConnectFails, CanCall, Stop
<1>3. CASE NotConnected
  BY <1>3 DEF NotConnected, CanCall, Lose, Stop
<1>4. CASE Publish
  BY <1>4 DEF Publish, CanCall, WriteOutcomes, Wrote
<1>5. CASE Subscribe
  BY <1>5 DEF Subscribe, CanCall, WriteOutcomes, Wrote, NextId
<1>6. CASE Disconnect
  BY <1>6 DEF Disconnect, CanCall, WriteOutcomes, Wrote, Stop
<1>7. CASE ConnectTimeout
  BY <1>7 DEF ConnectTimeout, Available, Stop, BackFromConnect
<1>8. CASE ConnectAvailable
  BY <1>8 DEF ConnectAvailable, Available
<1>9. CASE ConnackRead
  <2>1. pc' \in {"idle", "callback"} /\ since' = now /\ lastRead' = now
    BY <1>9 DEF ConnackRead, BackFromConnect
  <2>2. up' => lastInActivity' = now /\ ~pingOutstanding'
    BY <1>9 DEF ConnackRead, Stop
  <2>3. now \in Nat /\ CallbackTime \in Nat
    BY DurationsAssumption DEF IInv, TypeOK, TimeType
  <2> QED
    BY <2>1, <2>2, <2>3 DEF ReceiveOK
<1>10. CASE ConnackStall
  BY <1>10 DEF ConnackStall, Stop, BackFromConnect
<1>11. CASE LoopTimeout
  BY <1>11 DEF LoopTimeout, Stop
<1>12. CASE Loop
  BY <1>12 DEF Loop, KeepAliveExpired, Ping, WriteOutcomes, WroteRequest, Wrote,
         Available
<1>13. CASE ReadByte
  BY <1>13 DEF ReadByte
<1>14. CASE LoopStall
  <2>1. up => now <= lastInActivity + KeepAlive + ReadTime
    <3>1. got < Stalls /\ now <= since + SocketTimeout /\ since <= t + Waited(got)
      BY <1>14 DEF LoopStall
    <3>2. Waited(got) + SocketTimeout <= ReadTime
      BY <3>1
    <3>3. up => t <= lastInActivity + KeepAlive
      BY <1>14 DEF LoopStall
    <3> QED
      BY <3>1, <3>2, <3>3
  <2>2. pc' = "idle" /\ since' = now
    BY <1>14 DEF LoopStall, BackFromLoop
  <2>3. UNCHANGED <<up, pingOutstanding, lastInActivity, lastRead>>
    BY <1>14 DEF LoopStall, object, timers, truth
  <2>4. up => lastInActivity <= lastRead + (IF pingOutstanding THEN PingAfter ELSE 0)
    BY <1>14 DEF IInv, ReceiveOK, LoopStall
  <2> QED
    BY <2>1, <2>2, <2>3, <2>4 DEF ReceiveOK
<1>15. CASE CallbackReturn
  BY <1>15 DEF CallbackReturn, BackFromLoop, WriteOutcomes, Wrote, AckId
<1>16. ASSUME NEW p \in Packet, LoopOversized(p) PROVE ReceiveOK'
  BY <1>16 DEF LoopOversized, ReadWhole, BackFromLoop, NextPackets, AfterRead
<1>17. ASSUME NEW p \in Packet, LoopPublish(p) PROVE ReceiveOK'
  BY <1>17 DEF LoopPublish, ReadWhole, BackFromLoop, NextPackets, AfterRead
<1>18. ASSUME NEW p \in Packet, LoopPingReq(p) PROVE ReceiveOK'
  BY <1>18 DEF LoopPingReq, ReadWhole, BackFromLoop, NextPackets, AfterRead,
         WriteOutcomes, Wrote
<1>19. ASSUME NEW p \in Packet, LoopPingResp(p) PROVE ReceiveOK'
  BY <1>19 DEF LoopPingResp, ReadWhole, BackFromLoop, NextPackets, AfterRead
<1>20. ASSUME NEW p \in Packet, LoopOther(p) PROVE ReceiveOK'
  BY <1>20 DEF LoopOther, ReadWhole, BackFromLoop, NextPackets, AfterRead
<1>21. CASE BrokerAnswer
  BY <1>21 DEF BrokerAnswer
<1>22. CASE BrokerSend
  BY <1>22 DEF BrokerSend
<1>23. CASE NetStall
  BY <1>23 DEF NetStall
<1>24. CASE NetResume
  BY <1>24 DEF NetResume
<1>25. CASE PeerClose
  BY <1>25 DEF PeerClose
<1>26. CASE Tick
  BY <1>26 DEF Tick, Available
<1>27. CASE UNCHANGED vars
  BY <1>27 DEF vars
<1> QED
  BY <1>1, <1>2, <1>3, <1>4, <1>5, <1>6, <1>7, <1>8, <1>9, <1>10, <1>11, <1>12,
         <1>13, <1>14, <1>15, <1>16, <1>17, <1>18, <1>19, <1>20, <1>21, <1>22,
         <1>23, <1>24, <1>25, <1>26, <1>27 DEF Next, Sketch, ConnectCall, LoopCall,
         Environment

\* The invariant is inductive.
LEMMA NextIInv == IInv /\ [Next]_vars => IInv'
BY TypeStep, SessionStep, ControlOKStep, WaitStep, ConnectStep, SendStep, ReceiveStep
   DEF IInv

-----------------------------------------------------------------------------
(* Acknowledgements, for a sketch that does not reconnect in its callback *)

\* The id that loop() saved is that of the message the callback handles.
AckOK ==
  /\ ~nested
  /\ pc = "callback" /\ up /\ aligned => msgId = 0 \/ pending = {msgId}

\* loop()'s copy of the id survives whatever the callback does.
LEMMA AckOKStep == IInv /\ AckOK /\ ~CallbackMayReconnect /\ [Next]_vars => AckOK'
<1> SUFFICES ASSUME IInv, AckOK, ~CallbackMayReconnect, [Next]_vars PROVE AckOK'
  OBVIOUS
<1> USE DEF IInv, ControlOK, AckOK, transport, timers, object, control, session,
       truth
<1>1. CASE Connect
  BY <1>1 DEF Connect, CanCall, Lose
<1>2. CASE ConnectFails
  BY <1>2 DEF ConnectFails, CanCall, Stop
<1>3. CASE NotConnected
  BY <1>3 DEF NotConnected, CanCall, Lose, Stop
<1>4. CASE Publish
  BY <1>4 DEF Publish, CanCall, WriteOutcomes, Wrote
<1>5. CASE Subscribe
  BY <1>5 DEF Subscribe, CanCall, WriteOutcomes, Wrote, NextId
<1>6. CASE Disconnect
  BY <1>6 DEF Disconnect, CanCall, WriteOutcomes, Wrote, Stop
<1>7. CASE ConnectTimeout
  BY <1>7 DEF ConnectTimeout, Available, Stop, BackFromConnect
<1>8. CASE ConnectAvailable
  BY <1>8 DEF ConnectAvailable, Available
<1>9. CASE ConnackRead
  BY <1>9 DEF ConnackRead, BackFromConnect, Stop
<1>10. CASE ConnackStall
  BY <1>10 DEF ConnackStall, Stop, BackFromConnect
<1>11. CASE LoopTimeout
  BY <1>11 DEF LoopTimeout, Stop
<1>12. CASE Loop
  BY <1>12 DEF Loop, KeepAliveExpired, Ping, WriteOutcomes, WroteRequest, Wrote,
         Available
<1>13. CASE ReadByte
  BY <1>13 DEF ReadByte, InCall
<1>14. CASE LoopStall
  BY <1>14 DEF LoopStall, BackFromLoop
<1>15. CASE CallbackReturn
  BY <1>15 DEF CallbackReturn, BackFromLoop, WriteOutcomes, Wrote, AckId
<1>16. ASSUME NEW p \in Packet, LoopOversized(p) PROVE AckOK'
  BY <1>16 DEF LoopOversized, ReadWhole, BackFromLoop, NextPackets, AfterRead
<1>17. ASSUME NEW p \in Packet, LoopPublish(p) PROVE AckOK'
  BY <1>17 DEF LoopPublish, ReadWhole, BackFromLoop, NextPackets, AfterRead
<1>18. ASSUME NEW p \in Packet, LoopPingReq(p) PROVE AckOK'
  BY <1>18 DEF LoopPingReq, ReadWhole, BackFromLoop, NextPackets, AfterRead,
         WriteOutcomes, Wrote
<1>19. ASSUME NEW p \in Packet, LoopPingResp(p) PROVE AckOK'
  BY <1>19 DEF LoopPingResp, ReadWhole, BackFromLoop, NextPackets, AfterRead
<1>20. ASSUME NEW p \in Packet, LoopOther(p) PROVE AckOK'
  BY <1>20 DEF LoopOther, ReadWhole, BackFromLoop, NextPackets, AfterRead
<1>21. CASE BrokerAnswer
  BY <1>21 DEF BrokerAnswer
<1>22. CASE BrokerSend
  BY <1>22 DEF BrokerSend
<1>23. CASE NetStall
  BY <1>23 DEF NetStall, InCall
<1>24. CASE NetResume
  BY <1>24 DEF NetResume
<1>25. CASE PeerClose
  BY <1>25 DEF PeerClose, InCall
<1>26. CASE Tick
  BY <1>26 DEF Tick, Available, InCall
<1>27. CASE UNCHANGED vars
  BY <1>27 DEF vars
<1> QED
  BY <1>1, <1>2, <1>3, <1>4, <1>5, <1>6, <1>7, <1>8, <1>9, <1>10, <1>11, <1>12,
         <1>13, <1>14, <1>15, <1>16, <1>17, <1>18, <1>19, <1>20, <1>21, <1>22,
         <1>23, <1>24, <1>25, <1>26, <1>27 DEF Next, Sketch, ConnectCall, LoopCall,
         Environment

\* What AckOnlyHandled asks of one step.
AckGuarantee ==
  aligned /\ pc' # "connecting" => unacked \ unacked' \subseteq handled'

\* A step that makes the broker forget a message follows its callback.
LEMMA AckStep == AckOK /\ [Next]_vars => AckGuarantee
<1> SUFFICES ASSUME AckOK, [Next]_vars PROVE AckGuarantee
  OBVIOUS
<1> USE DEF AckOK, AckGuarantee, transport, timers, object, control, session, truth
<1>1. CASE Connect
  BY <1>1 DEF Connect, CanCall, Lose
<1>2. CASE ConnectFails
  BY <1>2 DEF ConnectFails, CanCall, Stop
<1>3. CASE NotConnected
  BY <1>3 DEF NotConnected, CanCall, Lose, Stop
<1>4. CASE Publish
  BY <1>4 DEF Publish, CanCall, WriteOutcomes, Wrote
<1>5. CASE Subscribe
  BY <1>5 DEF Subscribe, CanCall, WriteOutcomes, Wrote, NextId
<1>6. CASE Disconnect
  BY <1>6 DEF Disconnect, CanCall, WriteOutcomes, Wrote, Stop
<1>7. CASE ConnectTimeout
  BY <1>7 DEF ConnectTimeout, Available, Stop, BackFromConnect
<1>8. CASE ConnectAvailable
  BY <1>8 DEF ConnectAvailable, Available
<1>9. CASE ConnackRead
  BY <1>9 DEF ConnackRead, BackFromConnect, Stop
<1>10. CASE ConnackStall
  BY <1>10 DEF ConnackStall, Stop, BackFromConnect
<1>11. CASE LoopTimeout
  BY <1>11 DEF LoopTimeout, Stop
<1>12. CASE Loop
  BY <1>12 DEF Loop, KeepAliveExpired, Ping, WriteOutcomes, WroteRequest, Wrote,
         Available
<1>13. CASE ReadByte
  BY <1>13 DEF ReadByte, InCall
<1>14. CASE LoopStall
  BY <1>14 DEF LoopStall, BackFromLoop
<1>15. CASE CallbackReturn
  BY <1>15 DEF CallbackReturn, BackFromLoop, WriteOutcomes, Wrote, AckId
<1>16. ASSUME NEW p \in Packet, LoopOversized(p) PROVE AckGuarantee
  BY <1>16 DEF LoopOversized, ReadWhole, BackFromLoop, NextPackets, AfterRead
<1>17. ASSUME NEW p \in Packet, LoopPublish(p) PROVE AckGuarantee
  BY <1>17 DEF LoopPublish, ReadWhole, BackFromLoop, NextPackets, AfterRead
<1>18. ASSUME NEW p \in Packet, LoopPingReq(p) PROVE AckGuarantee
  BY <1>18 DEF LoopPingReq, ReadWhole, BackFromLoop, NextPackets, AfterRead,
         WriteOutcomes, Wrote
<1>19. ASSUME NEW p \in Packet, LoopPingResp(p) PROVE AckGuarantee
  BY <1>19 DEF LoopPingResp, ReadWhole, BackFromLoop, NextPackets, AfterRead
<1>20. ASSUME NEW p \in Packet, LoopOther(p) PROVE AckGuarantee
  BY <1>20 DEF LoopOther, ReadWhole, BackFromLoop, NextPackets, AfterRead
<1>21. CASE BrokerAnswer
  BY <1>21 DEF BrokerAnswer
<1>22. CASE BrokerSend
  BY <1>22 DEF BrokerSend
<1>23. CASE NetStall
  BY <1>23 DEF NetStall, InCall
<1>24. CASE NetResume
  BY <1>24 DEF NetResume
<1>25. CASE PeerClose
  BY <1>25 DEF PeerClose, InCall
<1>26. CASE Tick
  BY <1>26 DEF Tick, Available, InCall
<1>27. CASE UNCHANGED vars
  BY <1>27 DEF vars
<1> QED
  BY <1>1, <1>2, <1>3, <1>4, <1>5, <1>6, <1>7, <1>8, <1>9, <1>10, <1>11, <1>12,
         <1>13, <1>14, <1>15, <1>16, <1>17, <1>18, <1>19, <1>20, <1>21, <1>22,
         <1>23, <1>24, <1>25, <1>26, <1>27 DEF Next, Sketch, ConnectCall, LoopCall,
         Environment

-----------------------------------------------------------------------------
(* One ping under way *)

\* OnePing, and no ping at all while a connection is being set up.
PingOK ==
  up /\ aligned =>
    /\ pc \in {"connecting", "connack"} \/ ~pingOutstanding => InFlightPings = {}
    /\ \A x, y \in InFlightPings : x = y

LEMMA PingPlaces ==
  ASSUME TypeOK
  PROVE  \A x : x \in InFlightPings <=>
           \/ \E i \in 1 .. Len(outbox) : x = <<"out", i>> /\ outbox[i] = "PINGREQ"
           \/ \E i \in 1 .. Len(inbox) : x = <<"in", i>> /\ inbox[i] = PingResp
BY DEF InFlightPings

\* Queues that keep their contents keep their pings.
LEMMA PingsKept ==
  inbox' = inbox /\ outbox' = outbox => InFlightPings' = InFlightPings
BY DEF InFlightPings, PingResp

\* A packet that is no ping's answer joins the inbox.
LEMMA PingsAppend ==
  ASSUME TypeOK, NEW p \in Packet, p # PingResp,
         inbox' = Append(inbox, p), outbox' = outbox
  PROVE  InFlightPings' = InFlightPings
<1>1. inbox \in Seq(Packet)
  BY DEF TypeOK, QueueType
<1>2. Len(inbox') = Len(inbox) + 1 /\ inbox'[Len(inbox) + 1] = p
      /\ \A i \in 1 .. Len(inbox) : inbox'[i] = inbox[i]
  BY <1>1
<1>3. Len(inbox) \in Nat
  BY <1>1
<1>4. {j \in 1 .. Len(inbox') : inbox'[j] = PingResp}
        = {j \in 1 .. Len(inbox) : inbox[j] = PingResp}
  BY <1>2, <1>3
<1> QED
  BY <1>4 DEF InFlightPings, PingResp

\* The first packet leaves the inbox: every ping left was one place behind.
LEMMA PingsTail ==
  ASSUME TypeOK, inbox # <<>>, inbox' = Tail(inbox), outbox' = outbox
  PROVE  /\ InFlightPings = {} => InFlightPings' = {}
         /\ (\A x, y \in InFlightPings : x = y) =>
              /\ \A x, y \in InFlightPings' : x = y
              /\ Head(inbox) = PingResp => InFlightPings' = {}
<1>1. inbox \in Seq(Packet) /\ Len(inbox) \in Nat
  BY DEF TypeOK, QueueType
<1>2. /\ Len(inbox') = Len(inbox) - 1 /\ Len(inbox) >= 1 /\ Head(inbox) = inbox[1]
      /\ \A i \in 1 .. Len(inbox) - 1 : inbox'[i] = inbox[i + 1]
  BY <1>1
<1>3. ASSUME NEW x \in InFlightPings'
      PROVE  \/ x \in InFlightPings /\ x[1] = "out"
             \/ \E i \in 1 .. Len(inbox) - 1 :
                  x = <<"in", i>> /\ <<"in", i + 1>> \in InFlightPings
  BY <1>1, <1>2 DEF InFlightPings, PingResp
<1>4. Head(inbox) = PingResp => <<"in", 1>> \in InFlightPings
  BY <1>1, <1>2 DEF InFlightPings
<1>5. InFlightPings = {} => InFlightPings' = {}
  BY <1>3
<1>6. ASSUME \A x, y \in InFlightPings : x = y,
             NEW x \in InFlightPings', NEW y \in InFlightPings'
      PROVE  x = y
  <2>1. CASE x[1] = "out" /\ x \in InFlightPings
    <3>1. CASE y \in InFlightPings
      BY <1>6, <2>1, <3>1
    <3>2. ASSUME NEW i \in 1 .. Len(inbox) - 1, <<"in", i + 1>> \in InFlightPings
          PROVE  FALSE
      BY <1>6, <2>1, <3>2
    <3> QED
      BY <1>3, <3>1, <3>2
  <2>2. ASSUME NEW i \in 1 .. Len(inbox) - 1,
               x = <<"in", i>>, <<"in", i + 1>> \in InFlightPings
        PROVE  x = y
    <3>1. CASE y \in InFlightPings /\ y[1] = "out"
      BY <1>6, <2>2, <3>1
    <3>2. ASSUME NEW k \in 1 .. Len(inbox) - 1,
                 y = <<"in", k>>, <<"in", k + 1>> \in InFlightPings
          PROVE  x = y
      <4>1. <<"in", i + 1>> = <<"in", k + 1>>
        BY <1>6, <2>2, <3>2
      <4>2. i + 1 = k + 1
        BY <4>1
      <4> QED
        BY <4>2, <2>2, <3>2, <1>1
    <3> QED
      BY <1>3, <3>1, <3>2
  <2> QED
    BY <1>3, <2>1, <2>2
<1>7. ASSUME \A x, y \in InFlightPings : x = y, Head(inbox) = PingResp,
             NEW x \in InFlightPings'
      PROVE  FALSE
  <2>1. <<"in", 1>> \in InFlightPings
    BY <1>4, <1>7
  <2>2. CASE x \in InFlightPings /\ x[1] = "out"
    BY <1>7, <2>1, <2>2
  <2>3. ASSUME NEW i \in 1 .. Len(inbox) - 1, <<"in", i + 1>> \in InFlightPings
        PROVE  FALSE
    <3>1. <<"in", i + 1>> = <<"in", 1>>
      BY <1>7, <2>1, <2>3
    <3>2. i + 1 = 1
      BY <3>1
    <3> QED
      BY <3>2, <1>1
  <2> QED
    BY <1>3, <1>7, <2>2, <2>3
<1> QED
  BY <1>5, <1>6, <1>7

\* loop() sends a ping only when none is under way.
LEMMA PingsSent ==
  ASSUME TypeOK, InFlightPings = {},
         outbox' = Append(outbox, "PINGREQ"), inbox' = inbox
  PROVE  \A x, y \in InFlightPings' : x = y
<1>1. outbox \in Seq({"CONNECT", "PINGREQ"}) /\ Len(outbox) \in Nat
  BY DEF TypeOK, QueueType
<1>2. /\ Len(outbox') = Len(outbox) + 1
      /\ \A i \in 1 .. Len(outbox) : outbox'[i] = outbox[i]
  BY <1>1
<1>3. ASSUME NEW x \in InFlightPings' PROVE x = <<"out", Len(outbox) + 1>>
  <2>1. CASE \E i \in 1 .. Len(inbox) : x = <<"in", i>> /\ inbox[i] = PingResp
    BY <2>1 DEF InFlightPings
  <2>2. ASSUME NEW i \in 1 .. Len(outbox'), x = <<"out", i>>, outbox'[i] = "PINGREQ"
        PROVE  x = <<"out", Len(outbox) + 1>>
    <3>1. CASE i \in 1 .. Len(outbox)
      BY <1>2, <2>2, <3>1 DEF InFlightPings
    <3>2. CASE i = Len(outbox) + 1
      BY <2>2, <3>2
    <3> QED
      BY <1>1, <1>2, <3>1, <3>2
  <2> QED
    BY <2>1, <2>2 DEF InFlightPings, PingResp
<1> QED
  BY <1>3

\* The broker takes a request and puts its answer in the inbox.
LEMMA PingsAnswered ==
  ASSUME TypeOK, outbox # <<>>, outbox' = Tail(outbox), NEW p \in Packet,
         inbox' = Append(inbox, p),
         p = PingResp => Head(outbox) = "PINGREQ"
  PROVE  /\ InFlightPings = {} => InFlightPings' = {}
         /\ (\A x, y \in InFlightPings : x = y) => \A x, y \in InFlightPings' : x = y
<1>1. /\ outbox \in Seq({"CONNECT", "PINGREQ"}) /\ Len(outbox) \in Nat
      /\ inbox \in Seq(Packet) /\ Len(inbox) \in Nat
  BY DEF TypeOK, QueueType
<1>2. /\ Len(outbox') = Len(outbox) - 1 /\ Len(outbox) >= 1 /\ Head(outbox) = outbox[1]
      /\ \A i \in 1 .. Len(outbox) - 1 : outbox'[i] = outbox[i + 1]
  BY <1>1
<1>3. /\ Len(inbox') = Len(inbox) + 1 /\ inbox'[Len(inbox) + 1] = p
      /\ \A i \in 1 .. Len(inbox) : inbox'[i] = inbox[i]
  BY <1>1
<1> DEFINE Was(x) == CASE x[1] = "in" /\ x[2] = Len(inbox) + 1 -> <<"out", 1>>
                       [] x[1] = "in" /\ x[2] # Len(inbox) + 1 -> x
                       [] OTHER -> <<"out", x[2] + 1>>
<1>4. ASSUME NEW x \in InFlightPings' PROVE Was(x) \in InFlightPings
  <2>1. ASSUME NEW i \in 1 .. Len(outbox'), x = <<"out", i>>, outbox'[i] = "PINGREQ"
        PROVE  Was(x) \in InFlightPings
    <3>1. i + 1 \in 1 .. Len(outbox) /\ outbox[i + 1] = "PINGREQ"
      BY <1>1, <1>2, <2>1
    <3> QED
      BY <2>1, <3>1 DEF InFlightPings
  <2>2. ASSUME NEW i \in 1 .. Len(inbox'), x = <<"in", i>>, inbox'[i] = PingResp
        PROVE  Was(x) \in InFlightPings
    <3>1. CASE i = Len(inbox) + 1
      <4>1. 1 \in 1 .. Len(outbox) /\ outbox[1] = "PINGREQ"
        BY <1>1, <1>2, <1>3, <2>2, <3>1
      <4> QED
        BY <2>2, <3>1, <4>1 DEF InFlightPings
    <3>2. CASE i \in 1 .. Len(inbox)
      <4>1. inbox[i] = PingResp /\ i # Len(inbox) + 1
        BY <1>1, <1>3, <2>2, <3>2
      <4> QED
        BY <2>2, <3>2, <4>1 DEF InFlightPings
    <3> QED
      BY <1>1, <1>3, <3>1, <3>2
  <2> QED
    BY <2>1, <2>2 DEF InFlightPings, PingResp
<1>5. ASSUME NEW x \in InFlightPings', NEW y \in InFlightPings', Was(x) = Was(y)
      PROVE  x = y
  <2>1. ASSUME NEW z \in InFlightPings'
        PROVE  \/ \E i \in 1 .. Len(outbox') : z = <<"out", i>> /\ Was(z) = <<"out", i + 1>>
               \/ z = <<"in", Len(inbox) + 1>> /\ Was(z) = <<"out", 1>>
               \/ \E i \in 1 .. Len(inbox) : z = <<"in", i>> /\ Was(z) = z
    BY <1>1, <1>3, SMTT(30) DEF InFlightPings
  <2>2. \A i \in 1 .. Len(outbox') : i + 1 # 1
    BY <1>1, <1>2
  <2>3. \A i, k \in 1 .. Len(outbox') : <<"out", i + 1>> = <<"out", k + 1>> => i = k
    BY <1>1, <1>2
  <2> HIDE DEF Was
  <2> QED
    BY <1>5, <2>1, <2>2, <2>3, SMTT(30)
<1> HIDE DEF Was
<1> QED
  BY <1>4, <1>5

\* A step that leaves the packets alone and neither starts a connection,
\* nor leaves its set-up, nor forgets an outstanding ping.
LEMMA PingCalm ==
  ASSUME PingOK, inbox' = inbox, outbox' = outbox,
         up' /\ aligned' => up /\ aligned,
         pingOutstanding' = pingOutstanding,
         pc' \in {"connecting", "connack"} => pc \in {"connecting", "connack"}
  PROVE  PingOK'
BY PingsKept DEF PingOK

\* The number of pings under way never exceeds one.
LEMMA PingStep == IInv /\ PingOK /\ [Next]_vars => PingOK'
<1> SUFFICES ASSUME IInv, PingOK, [Next]_vars PROVE PingOK'
  OBVIOUS
<1> USE DEF transport, timers, object, control, session, truth
<1>1. TypeOK /\ ControlOK
  BY DEF IInv
<1>2. CASE ~up' \/ ~aligned'
  BY <1>2 DEF PingOK
<1>3. CASE Connect
  <2>1. inbox' = <<>> /\ outbox' \in {<<>>, <<"CONNECT">>}
    BY <1>3 DEF Connect
  <2>2. Len(inbox') = 0
    BY <2>1
  <2>3. \A i \in 1 .. Len(outbox') : outbox'[i] = "CONNECT"
    BY <2>1
  <2>4. InFlightPings' = {}
    BY <2>2, <2>3 DEF InFlightPings
  <2> QED
    BY <2>4 DEF PingOK
<1>4. CASE \/ ConnectFails \/ NotConnected \/ Disconnect \/ ConnectTimeout
           \/ ConnackStall \/ LoopTimeout \/ LoopStall \/ PeerClose
  <2>1. ~up' \/ ~aligned'
    BY <1>4 DEF ConnectFails, NotConnected, Disconnect, ConnectTimeout, ConnackStall,
                LoopTimeout, LoopStall, PeerClose, Stop
  <2> QED
    BY <1>2, <2>1
<1>5. CASE \/ Publish \/ Subscribe \/ ConnectAvailable \/ ReadByte \/ CallbackReturn
           \/ NetStall \/ NetResume \/ Tick \/ UNCHANGED vars
  <2>1. /\ inbox' = inbox /\ outbox' = outbox /\ up' = up /\ aligned' = aligned
        /\ pingOutstanding' = pingOutstanding
    BY <1>5 DEF Publish, Subscribe, ConnectAvailable, ReadByte, CallbackReturn,
                NetStall, NetResume, Tick, vars
  <2>2. pc' \in {"connecting", "connack"} => pc \in {"connecting", "connack"}
    BY <1>5 DEF Publish, Subscribe, ConnectAvailable, ReadByte, CallbackReturn,
                NetStall, NetResume, Tick, vars, CanCall, BackFromLoop
  <2> QED
    BY <2>1, <2>2, PingCalm
<1>6. CASE ConnackRead /\ up' /\ aligned'
  <2>1. /\ inbox' = Tail(inbox) /\ outbox' = outbox
        /\ up' = up /\ aligned' = aligned /\ pc = "connack"
    BY <1>6 DEF ConnackRead, Stop
  <2>2. inbox # <<>>
    BY <1>1, <2>1 DEF ControlOK, InCall
  <2>3. InFlightPings = {}
    BY <1>6, <2>1 DEF PingOK
  <2> QED
    BY <1>1, <2>1, <2>2, <2>3, PingsTail DEF PingOK
<1>7. CASE Loop
  <2>1. /\ inbox' = inbox /\ up' = up /\ aligned' = aligned /\ pc = "idle"
        /\ pc' \in {"idle", "reading"}
    BY <1>7 DEF Loop
  <2>2. CASE outbox' = outbox /\ pingOutstanding' = pingOutstanding
    BY <2>1, <2>2, PingCalm
  <2>3. CASE ~pingOutstanding /\ Ping
    <3>1. /\ outbox' \in {outbox, Append(outbox, "PINGREQ")}
          /\ pingOutstanding' = TRUE
      BY <2>3 DEF Ping, WroteRequest
    <3>2. CASE up /\ aligned
      <4>1. InFlightPings = {}
        BY <2>3, <3>2 DEF PingOK
      <4>2. \A x, y \in InFlightPings' : x = y
        BY <1>1, <2>1, <3>1, <4>1, PingsSent, PingsKept
      <4> QED
        BY <2>1, <3>1, <4>2 DEF PingOK
    <3> QED
      BY <2>1, <3>2 DEF PingOK
  <2> QED
    BY <1>7, <2>2, <2>3 DEF Loop
<1>8. ASSUME NEW p \in Packet, up', aligned',
             \/ LoopOversized(p) \/ LoopPublish(p) \/ LoopPingReq(p)
             \/ LoopPingResp(p) \/ LoopOther(p)
      PROVE  PingOK'
  <2>1. ReadWhole(p) /\ pc' \in {"idle", "callback"}
    BY <1>8 DEF LoopOversized, LoopPublish, LoopPingReq, LoopPingResp, LoopOther,
                BackFromLoop
  <2>2. up /\ aligned /\ p = Head(inbox) /\ inbox' = Tail(inbox) /\ pc = "reading"
    BY <1>8, <2>1 DEF ReadWhole, NextPackets, AfterRead
  <2>3. outbox' = outbox
    BY <1>8 DEF LoopOversized, LoopPublish, LoopPingReq, LoopPingResp, LoopOther
  <2>4. inbox # <<>>
    BY <1>1, <2>2 DEF ControlOK, InCall
  <2>5. pingOutstanding' # pingOutstanding =>
          pingOutstanding' = FALSE /\ p.type = "PINGRESP"
    BY <1>8 DEF LoopOversized, LoopPublish, LoopPingReq, LoopPingResp, LoopOther
  <2>6. p.type = "PINGRESP" => p = PingResp
    BY DEF Packet, PingResp
  <2>7. pingOutstanding' \in BOOLEAN /\ pingOutstanding \in BOOLEAN
    BY <1>1, <1>8 DEF TypeOK, FlagType, LoopOversized, LoopPublish, LoopPingReq,
                      LoopPingResp, LoopOther
  <2>8. /\ InFlightPings = {} => InFlightPings' = {}
        /\ \A x, y \in InFlightPings' : x = y
        /\ Head(inbox) = PingResp => InFlightPings' = {}
    BY <1>1, <2>2, <2>3, <2>4, PingsTail DEF PingOK
  <2>9. ~pingOutstanding' => InFlightPings' = {}
    BY <2>2, <2>5, <2>6, <2>7, <2>8 DEF PingOK
  <2> QED
    BY <2>1, <2>8, <2>9 DEF PingOK
<1>9. CASE BrokerAnswer
  <2>1. outbox # <<>> /\ outbox' = Tail(outbox)
        /\ up' = up /\ aligned' = aligned /\ pc' = pc
        /\ pingOutstanding' = pingOutstanding
    BY <1>9 DEF BrokerAnswer
  <2>2. PICK p \in Packet : /\ inbox' = Append(inbox, p)
                            /\ p = PingResp => Head(outbox) = "PINGREQ"
    <3>1. CASE Head(outbox) = "CONNECT"
      <4>1. PICK code \in {0, 1} : inbox' = Append(inbox, Connack(code))
        BY <1>9, <3>1 DEF BrokerAnswer
      <4>2. Connack(code) \in Packet /\ Connack(code) # PingResp
        BY DEF Connack, Packet, PingResp
      <4> QED
        BY <4>1, <4>2
    <3>2. CASE Head(outbox) # "CONNECT"
      <4>1. inbox' = Append(inbox, PingResp)
        BY <1>9, <3>2 DEF BrokerAnswer
      <4>2. outbox \in Seq({"CONNECT", "PINGREQ"})
        BY <1>1 DEF TypeOK, QueueType
      <4>3. Head(outbox) = "PINGREQ"
        BY <2>1, <3>2, <4>2
      <4>4. PingResp \in Packet
        BY DEF PingResp, Packet
      <4> QED
        BY <4>1, <4>3, <4>4
    <3> QED
      BY <3>1, <3>2
  <2>3. /\ InFlightPings = {} => InFlightPings' = {}
        /\ (\A x, y \in InFlightPings : x = y) => \A x, y \in InFlightPings' : x = y
    BY <1>1, <2>1, <2>2, PingsAnswered
  <2> QED
    BY <2>1, <2>3 DEF PingOK
<1>10. CASE BrokerSend
  <2>1. PICK p \in Packet : /\ p.type \in {"PUBLISH", "BIG", "PINGREQ", "OTHER"}
                            /\ inbox' = Append(inbox, p)
    BY <1>10 DEF BrokerSend
  <2>2. p # PingResp
    BY <2>1 DEF PingResp
  <2>3. /\ outbox' = outbox /\ up' = up /\ aligned' = aligned /\ pc' = pc
        /\ pingOutstanding' = pingOutstanding
    BY <1>10 DEF BrokerSend
  <2> QED
    BY <1>1, <2>1, <2>2, <2>3, PingsAppend DEF PingOK
<1> QED
  BY <1>2, <1>3, <1>4, <1>5, <1>6, <1>7, <1>8, <1>9, <1>10
     DEF Next, Sketch, ConnectCall, LoopCall, Environment

-----------------------------------------------------------------------------
(* Theorems *)

\* Every reachable state satisfies the inductive invariant.
THEOREM Inductive == Spec => []IInv
BY InitIInv, NextIInv, PTL DEF Spec

\* Every variable keeps its type: in particular no request of subscribe()
\* or unsubscribe() carries the reserved packet id 0.
THEOREM TypeCorrect == Spec => []TypeOK
<1>1. IInv => TypeOK
  BY DEF IInv
<1> QED
  BY <1>1, Inductive, PTL

\* connected() tells the truth about the MQTT session.
THEOREM SessionTheorem == Spec => []SessionConsistent
<1>1. IInv => SessionConsistent
  BY DEF IInv
<1> QED
  BY <1>1, Inductive, PTL

\* The keep-alive promised to the broker in CONNECT is honoured up to one
\* turn of the sketch.
THEOREM KeepAliveTheorem == Spec => []KeepAliveHonoured
<1>1. IInv => KeepAliveHonoured
  <2> SUFFICES ASSUME IInv, up, state = "CONNECTED", intact
               PROVE  now - lastSent <= Longest + ReadTime + CallbackTime + LoopGap
    BY DEF KeepAliveHonoured
  <2> USE WaitedFacts, BoundFacts, DurationsAssumption
  <2>1. pc \in {"idle", "callback", "reading"}
    BY DEF IInv, TypeOK, ControlType, Places, SessionConsistent
  <2>2. CASE pc = "idle"
    BY <2>2 DEF IInv, TypeOK, TimeType, WaitOK, SendOK
  <2>3. CASE pc = "callback"
    BY <2>3 DEF IInv, TypeOK, TimeType, WaitOK, SendOK
  <2>4. CASE pc = "reading"
    BY <2>4 DEF IInv, TypeOK, TimeType, ControlType, WaitOK, SendOK, InCall
  <2> QED
    BY <2>1, <2>2, <2>3, <2>4
<1> QED
  BY <1>1, Inductive, PTL

\* A peer that stopped sending is given up within the two silences.
THEOREM DeadPeerTheorem == Spec => []DeadPeerDetected
<1>1. IInv => DeadPeerDetected
  <2> SUFFICES ASSUME IInv, up, state = "CONNECTED"
               PROVE  now - lastRead <= PingAfter + DropAfter
    BY DEF DeadPeerDetected
  <2> USE WaitedFacts, BoundFacts, DurationsAssumption
  <2>1. pc \in {"idle", "callback", "reading"}
    BY DEF IInv, TypeOK, ControlType, Places, SessionConsistent
  <2>2. lastInActivity <= lastRead + PingAfter
    BY <2>1 DEF IInv, TypeOK, TimeType, ReceiveOK
  <2>3. CASE pc = "idle"
    BY <2>2, <2>3 DEF IInv, TypeOK, TimeType, WaitOK, ReceiveOK, DropAfter
  <2>4. CASE pc = "callback"
    BY <2>2, <2>4 DEF IInv, TypeOK, TimeType, WaitOK, ReceiveOK, DropAfter
  <2>5. CASE pc = "reading"
    BY <2>2, <2>5
       DEF IInv, TypeOK, TimeType, ControlType, WaitOK, ReceiveOK, DropAfter, InCall
  <2> QED
    BY <2>1, <2>3, <2>4, <2>5
<1> QED
  BY <1>1, Inductive, PTL

\* No QoS 1 message is acknowledged, and so forgotten by the broker, before
\* its callback has returned, provided the callback does not reconnect.
THEOREM AckTheorem == ASSUME ~CallbackMayReconnect PROVE Spec => AckOnlyHandled
<1>1. Init => AckOK
  BY DEF Init, AckOK
<1>2. IInv /\ AckOK /\ [Next]_vars => AckOK'
  BY AckOKStep
<1>3. AckOK /\ [Next]_vars =>
        [aligned /\ pc' # "connecting" => unacked \ unacked' \subseteq handled']_vars
  BY AckStep DEF AckGuarantee
<1> QED
  BY <1>1, <1>2, <1>3, Inductive, PTL DEF Spec, AckOnlyHandled

\* At most one ping is under way on a link that is still in step, and none
\* while none is outstanding: an answer can only clear its own ping's flag.
THEOREM OnePingTheorem == Spec => []OnePing
<1>1. Init => PingOK
  BY DEF Init, PingOK
<1>2. IInv /\ PingOK /\ [Next]_vars => PingOK'
  BY PingStep
<1>3. PingOK => OnePing
  BY DEF PingOK, OnePing
<1> QED
  BY <1>1, <1>2, <1>3, Inductive, PTL DEF Spec

-----------------------------------------------------------------------------
(* Which keep-alive is long enough.  loop() looks at its timers before it  *)
(* reads, and reads one packet a call; so the answer to a ping waits       *)
(* behind a backlog, one turn of the sketch for each packet.  If the       *)
(* keep-alive covers a turn for each packet that may be under way, a peer  *)
(* that answers at once is never given up.                                 *)

\* One call of loop(), its callback, and the time until the next.
Turn == LoopGap + CallbackTime

PromptPeer ==
  /\ Prompt /\ ~WriteMayFail
  /\ MaxInbox > 0 /\ MaxInbox * Turn <= KeepAlive

\* How long a ping may have been out when its answer is the k-th packet.
Lag(k) == (MaxInbox + 1 - k) * Turn

\* The answer is, or will be, the k-th packet to read.
PongAt(k) ==
  \/ k \in 1 .. Len(inbox) /\ inbox[k] = PingResp
  \/ k = Len(inbox) + 1 /\ outbox # <<>>

\* The time stamp x is young enough for an answer that is the k-th packet.
Near(k, x) ==
  /\ pc = "idle" => since + LoopGap <= x + Lag(k)
  /\ pc = "reading" => t <= x + Lag(k)
  /\ pc = "callback" => t + Turn <= x + Lag(k)

Due(k) ==
  /\ PongAt(k)
  /\ pc # "reading" => k <= MaxInbox
  /\ Near(k, lastInActivity) /\ Near(k, lastOutActivity)

\* No time passes inside connect() and readPacket.
LinkOK ==
  /\ state # "TIMEOUT" /\ ~stalled /\ aligned
  /\ pc \in {"connecting", "connack", "reading"} => up
  /\ pc = "connecting" => /\ lastInActivity = now
                          /\ \/ outbox = <<"CONNECT">> /\ inbox = <<>>
                             \/ outbox = <<>> /\ Len(inbox) = 1
  /\ pc = "connack" => outbox = <<>> /\ Len(inbox) = 1
  /\ pc = "reading" => since = now /\ t = now

\* The backlog is bounded, and a ping that is outstanding is due.
PongOK ==
  /\ Len(inbox) + Len(outbox) <= MaxInbox + (IF pingOutstanding THEN 1 ELSE 0)
  /\ outbox # <<>> =>
       /\ outbox = <<"PINGREQ">> /\ pingOutstanding
       /\ lastInActivity = now /\ lastOutActivity = now
       /\ pc = "callback" => t = now
  /\ pc = "callback" /\ pingOutstanding => since = t
  /\ pingOutstanding => \E k \in 1 .. MaxInbox + 1 : Due(k)

Session == up /\ pc \in {"idle", "callback", "reading"}

PromptOK == LinkOK /\ (Session => PongOK)

-----------------------------------------------------------------------------
(* The times *)

LEMMA LagFacts ==
  ASSUME PromptPeer
  PROVE  /\ Turn \in Nat /\ LoopGap \in Nat /\ CallbackTime \in Nat
         /\ Turn = LoopGap + CallbackTime /\ KeepAlive \in Nat
         /\ MaxInbox \in Nat /\ MaxInbox > 0
         /\ \A k \in 1 .. MaxInbox + 1 : Lag(k) \in Nat /\ Lag(k) <= KeepAlive
         /\ \A k \in 1 .. MaxInbox : Lag(k) = Lag(k + 1) + Turn /\ Lag(k) >= Turn
<1>1. /\ Turn \in Nat /\ LoopGap \in Nat /\ CallbackTime \in Nat
      /\ Turn = LoopGap + CallbackTime /\ KeepAlive \in Nat
      /\ MaxInbox \in Nat /\ MaxInbox > 0 /\ MaxInbox * Turn <= KeepAlive
  BY DurationsAssumption, BoundsAssumption DEF Turn, PromptPeer
<1> HIDE DEF Turn
<1>2. \A k \in 1 .. MaxInbox + 1 : Lag(k) \in Nat /\ Lag(k) <= MaxInbox * Turn
  <2>1. TAKE k \in 1 .. MaxInbox + 1
  <2>2. PICK n \in Nat : n = MaxInbox + 1 - k /\ n <= MaxInbox
    BY <1>1
  <2>3. n * Turn \in Nat /\ n * Turn <= MaxInbox * Turn
    <3>1. PICK m \in Nat : m = MaxInbox - n
      BY <1>1, <2>2
    <3>2. m * Turn \in Nat /\ n * Turn \in Nat
      BY <1>1
    <3>3. MaxInbox * Turn = n * Turn + m * Turn
      BY <1>1, <3>1
    <3> QED
      BY <3>2, <3>3
  <2> QED
    BY <2>2, <2>3 DEF Lag
<1>3. \A k \in 1 .. MaxInbox : Lag(k) = Lag(k + 1) + Turn
  BY <1>1 DEF Lag
<1>4. \A k \in 1 .. MaxInbox : Lag(k + 1) \in Nat
  BY <1>1, <1>2
<1>5. \A k \in 1 .. MaxInbox + 1 : Lag(k) \in Nat /\ Lag(k) <= KeepAlive
  <2>1. MaxInbox * Turn \in Nat
    BY <1>1
  <2> QED
    BY <1>1, <1>2, <2>1
<1> QED
  BY <1>1, <1>3, <1>4, <1>5

\* loop() finds a ping outstanding only while its timers have not run out.
LEMMA NotExpired ==
  ASSUME PromptPeer, IInv, PromptOK, up, pc = "idle", pingOutstanding
  PROVE  ~KeepAliveExpired
<1>1. PICK k \in 1 .. MaxInbox + 1 : Due(k)
  BY DEF PromptOK, PongOK, Session
<1>2. Lag(k) \in Nat /\ Lag(k) <= KeepAlive /\ LoopGap \in Nat /\ KeepAlive \in Nat
  BY LagFacts, <1>1
<1>3. /\ since + LoopGap <= lastInActivity + Lag(k)
      /\ since + LoopGap <= lastOutActivity + Lag(k)
  BY <1>1 DEF Due, Near
<1>4. now <= since + LoopGap
  BY DEF IInv, WaitOK
<1>5. now \in Nat /\ since \in Nat /\ lastInActivity \in Nat /\ lastOutActivity \in Nat
  BY DEF IInv, TypeOK, TimeType
<1> QED
  BY <1>2, <1>3, <1>4, <1>5 DEF KeepAliveExpired

\* An answer is not behind another.
LEMMA OnlyPong ==
  ASSUME IInv, PingOK, up, aligned, inbox # <<>>, Head(inbox) = PingResp
  PROVE  outbox # <<"PINGREQ">>
<1> SUFFICES ASSUME outbox = <<"PINGREQ">> PROVE FALSE
  OBVIOUS
<1>1. inbox \in Seq(Packet)
  BY DEF IInv, TypeOK, QueueType
<1>2. 1 \in 1 .. Len(inbox) /\ inbox[1] = PingResp
  BY <1>1, HeadTailProperties
<1>3. 1 \in 1 .. Len(outbox) /\ outbox[1] = "PINGREQ"
  OBVIOUS
<1>4. <<"in", 1>> \in InFlightPings /\ <<"out", 1>> \in InFlightPings
  BY <1>2, <1>3, PingPlaces DEF IInv
<1> QED
  BY <1>4 DEF PingOK

-----------------------------------------------------------------------------
(* The link *)

\* The CONNACK is there before any time passes.
LEMMA NoConnectTimeout ==
  ASSUME IInv, PromptOK PROVE ~ConnectTimeout
<1> SUFFICES ASSUME ConnectTimeout PROVE FALSE
  OBVIOUS
<1>1. /\ pc = "connecting" /\ now - lastInActivity >= SocketTimeout
  BY DEF ConnectTimeout
<1>2. now = lastInActivity /\ now \in Nat
  BY <1>1 DEF PromptOK, LinkOK, IInv, TypeOK, TimeType
<1> QED
  BY <1>1, <1>2, DurationsAssumption

LEMMA NoLoopTimeout ==
  ASSUME PromptPeer, IInv, PromptOK PROVE ~LoopTimeout
BY NotExpired DEF LoopTimeout

LEMMA LinkStep ==
  ASSUME PromptPeer, IInv, PromptOK, [Next]_vars
  PROVE  LinkOK'
<1> USE DEF PromptOK, LinkOK, transport, timers, object, control, session, truth
<1>1. CASE Connect
  <2>1. outbox' = <<"CONNECT">> /\ inbox' = <<>>
    BY <1>1 DEF Connect, PromptPeer
  <2> QED
    BY <1>1, <2>1 DEF Connect, Lose
<1>2. CASE ConnectFails
  BY <1>2 DEF ConnectFails, CanCall, Stop
<1>3. CASE NotConnected
  BY <1>3 DEF NotConnected, CanCall, Lose, Stop
<1>4. CASE Publish
  BY <1>4 DEF Publish, CanCall
<1>5. CASE Subscribe
  BY <1>5 DEF Subscribe, CanCall
<1>6. CASE Disconnect
  BY <1>6 DEF Disconnect, CanCall, Stop
<1>7. CASE ConnectTimeout
  BY <1>7, NoConnectTimeout
<1>8. CASE ConnectAvailable
  BY <1>8 DEF ConnectAvailable, Available
<1>9. CASE ConnackRead
  BY <1>9 DEF ConnackRead, BackFromConnect, Stop
<1>10. CASE ConnackStall
  BY <1>10 DEF ConnackStall
<1>11. CASE LoopTimeout
  BY <1>11, NoLoopTimeout
<1>12. CASE Loop
  BY <1>12 DEF Loop
<1>13. CASE ReadByte
  BY <1>13 DEF ReadByte, InCall
<1>14. CASE LoopStall
  BY <1>14 DEF LoopStall
<1>15. CASE CallbackReturn
  BY <1>15 DEF CallbackReturn, BackFromLoop
<1>16. ASSUME NEW p \in Packet, LoopOversized(p) PROVE LinkOK'
  BY <1>16 DEF LoopOversized, ReadWhole, BackFromLoop
<1>17. ASSUME NEW p \in Packet, LoopPublish(p) PROVE LinkOK'
  BY <1>17 DEF LoopPublish, ReadWhole, BackFromLoop
<1>18. ASSUME NEW p \in Packet, LoopPingReq(p) PROVE LinkOK'
  BY <1>18 DEF LoopPingReq, ReadWhole, BackFromLoop
<1>19. ASSUME NEW p \in Packet, LoopPingResp(p) PROVE LinkOK'
  BY <1>19 DEF LoopPingResp, ReadWhole, BackFromLoop
<1>20. ASSUME NEW p \in Packet, LoopOther(p) PROVE LinkOK'
  BY <1>20 DEF LoopOther, ReadWhole, BackFromLoop
<1>21. CASE BrokerAnswer
  <2>1. CASE pc = "connecting"
    <3>1. outbox = <<"CONNECT">> /\ inbox = <<>> /\ outbox' = Tail(outbox)
      BY <1>21, <2>1 DEF BrokerAnswer
    <3>2. outbox' = <<>>
      BY <3>1
    <3>3. PICK code \in {0, 1} : inbox' = Append(inbox, Connack(code))
      BY <1>21, <3>1 DEF BrokerAnswer
    <3>4. Len(inbox') = 1
      BY <3>1, <3>3
    <3> QED
      BY <1>21, <2>1, <3>2, <3>4 DEF BrokerAnswer
  <2>2. CASE pc # "connecting"
    BY <1>21, <2>2 DEF BrokerAnswer
  <2> QED
    BY <2>1, <2>2
<1>22. CASE BrokerSend
  BY <1>22 DEF BrokerSend, IInv, SessionConsistent
<1>23. CASE NetStall
  BY <1>23 DEF NetStall, PromptPeer
<1>24. CASE NetResume
  BY <1>24 DEF NetResume
<1>25. CASE PeerClose
  BY <1>25 DEF PeerClose, PromptPeer
<1>26. CASE Tick
  <2>1. pc # "reading" /\ pc # "connack"
    BY <1>26 DEF Tick, InCall
  <2>2. pc # "connecting"
    BY <1>26 DEF Tick, PromptPeer, Available
  <2> QED
    BY <1>26, <2>1, <2>2 DEF Tick
<1>27. CASE UNCHANGED vars
  BY <1>27 DEF vars
<1> QED
  BY <1>1, <1>2, <1>3, <1>4, <1>5, <1>6, <1>7, <1>8, <1>9, <1>10, <1>11, <1>12,
     <1>13, <1>14, <1>15, <1>16, <1>17, <1>18, <1>19, <1>20, <1>21, <1>22,
     <1>23, <1>24, <1>25, <1>26, <1>27 DEF Next, Sketch, ConnectCall, LoopCall,
     Environment

-----------------------------------------------------------------------------
(* The backlog and the answer *)

LEMMA QueueFacts ==
  ASSUME IInv
  PROVE  /\ inbox \in Seq(Packet) /\ Len(inbox) \in Nat
         /\ outbox \in Seq({"CONNECT", "PINGREQ"}) /\ Len(outbox) \in Nat
BY DEF IInv, TypeOK, QueueType

\* Reading the first packet brings the answer one place forward.
LEMMA PongMoves ==
  ASSUME IInv, NEW k \in Nat, PongAt(k), inbox # <<>>, Head(inbox) # PingResp \/ k # 1,
         inbox' = Tail(inbox), outbox' = outbox
  PROVE  k - 1 \in Nat \ {0} /\ PongAt(k - 1)'
<1>1. inbox \in Seq(Packet) /\ Len(inbox) \in Nat /\ Len(inbox) > 0 /\ Head(inbox) = inbox[1]
  BY QueueFacts, EmptySeq
<1>2. Len(Tail(inbox)) = Len(inbox) - 1 /\ \A i \in 1 .. Len(inbox) - 1 : Tail(inbox)[i] = inbox[i + 1]
  BY <1>1, HeadTailProperties
<1>3. k # 1
  BY <1>1 DEF PongAt
<1>4. k > 1
  BY <1>1, <1>3 DEF PongAt
<1>5. PICK j \in Nat : j = k - 1 /\ j > 0
  BY <1>4
<1>6. CASE k \in 1 .. Len(inbox) /\ inbox[k] = PingResp
  <2>1. j \in 1 .. Len(Tail(inbox)) /\ Tail(inbox)[j] = PingResp
    BY <1>1, <1>2, <1>5, <1>6
  <2>2. PongAt(j)'
    BY <2>1 DEF PongAt, PingResp
  <2> QED
    BY <1>5, <2>2
<1>7. CASE k = Len(inbox) + 1 /\ outbox # <<>>
  <2>1. j = Len(Tail(inbox)) + 1 /\ outbox # <<>>
    BY <1>1, <1>2, <1>5, <1>7
  <2>2. PongAt(j)'
    BY <2>1 DEF PongAt
  <2> QED
    BY <1>5, <2>2
<1> QED
  BY <1>6, <1>7 DEF PongAt

LEMMA PongKept ==
  ASSUME PongOK,
         UNCHANGED <<inbox, outbox, pingOutstanding, timers, pc, since, t>>,
         outbox = <<>> \/ now' = now
  PROVE  PongOK'
<1>1. \A k : Due(k)' <=> Due(k)
  BY DEF Due, Near, PongAt, timers
<1> QED
  BY <1>1 DEF PongOK, timers

\* publish() and subscribe()
LEMMA WriteKeeps ==
  ASSUME PromptPeer, IInv, PongOK, Session,
         UNCHANGED <<inbox, outbox, pingOutstanding, lastInActivity, pc, since, t, now>>,
         lastOutActivity' = now, CanCall
  PROVE  PongOK'
<1>1. ASSUME NEW k \in 1 .. MaxInbox + 1, Due(k) PROVE Due(k)'
  <2>1. pc \in {"idle", "callback"} /\ k \in 1 .. MaxInbox
    BY <1>1, LagFacts DEF CanCall, Due
  <2>2. PICK l \in Nat : l = Lag(k) /\ l >= Turn
    BY <2>1, LagFacts
  <2>3. now \in Nat /\ since \in Nat /\ since <= now /\ t \in Nat /\ t <= now
    BY DEF IInv, TypeOK, TimeType, WaitOK
  <2>4. since + LoopGap <= now + l /\ t + Turn <= now + l
    BY <2>2, <2>3, LagFacts
  <2>5. Near(k, lastInActivity)'
    BY <1>1 DEF Due, Near
  <2>6. Near(k, lastOutActivity)'
    BY <2>1, <2>2, <2>4 DEF Near
  <2>7. PongAt(k)'
    BY <1>1 DEF Due, PongAt
  <2> QED
    BY <1>1, <2>5, <2>6, <2>7 DEF Due
<1> QED
  BY <1>1 DEF PongOK

LEMMA LoopKeeps ==
  ASSUME PromptPeer, IInv, PromptOK, Loop
  PROVE  PongOK'
<1>1. /\ pc = "idle" /\ up /\ PongOK /\ ~stalled
      /\ UNCHANGED <<inbox, now>> /\ since' = now
      /\ pc' = (IF inbox # <<>> THEN "reading" ELSE "idle")
      /\ t' = (IF inbox # <<>> THEN now ELSE t)
  BY DEF Loop, Available, PromptOK, LinkOK, Session
<1>2. /\ now \in Nat /\ since \in Nat /\ lastInActivity \in Nat /\ lastOutActivity \in Nat
      /\ now <= since + LoopGap
  BY <1>1 DEF IInv, TypeOK, TimeType, WaitOK
<1>3. CASE KeepAliveExpired
  <2>1. ~pingOutstanding /\ outbox = <<>>
    BY <1>1, <1>3 DEF Loop, PongOK
  <2>2. /\ outbox' = <<"PINGREQ">> /\ pingOutstanding'
        /\ lastInActivity' = now /\ lastOutActivity' = now
    <3>1. PICK ok \in WriteOutcomes : outbox' = IF ok THEN Append(outbox, "PINGREQ") ELSE outbox
      BY <1>3 DEF Loop, Ping, WroteRequest
    <3>2. ok
      BY <1>1 DEF WriteOutcomes, PromptPeer
    <3> QED
      BY <1>3, <2>1, <3>1, <3>2 DEF Loop, Ping
  <2>3. Len(inbox) + 0 <= MaxInbox + 0 /\ Len(inbox) \in Nat /\ Len(outbox') = 1
    BY <1>1, <2>1, <2>2, QueueFacts, EmptySeq DEF PongOK
  <2>4. PICK k \in 1 .. MaxInbox + 1 : k = Len(inbox) + 1
    BY <2>3, LagFacts
  <2>5. Lag(k) \in Nat
    BY LagFacts
  <2>6. Due(k)'
    <3>1. PongAt(k)'
      BY <1>1, <2>2, <2>4 DEF PongAt
    <3>2. CASE inbox # <<>>
      BY <1>1, <1>2, <2>2, <2>5, <3>1, <3>2 DEF Due, Near
    <3>3. CASE inbox = <<>>
      <4>1. k = 1 /\ k \in 1 .. MaxInbox
        BY <2>4, <3>3, LagFacts
      <4>2. now + LoopGap <= now + Lag(k)
        BY <1>2, <2>5, <4>1, LagFacts
      <4> QED
        BY <1>1, <2>2, <3>1, <3>3, <4>1, <4>2 DEF Due, Near
    <3> QED
      BY <3>2, <3>3
  <2>7. Len(inbox) + 1 <= MaxInbox + 1
    BY <2>3, LagFacts
  <2> QED
    BY <1>1, <2>2, <2>3, <2>6, <2>7 DEF PongOK
<1>4. CASE ~KeepAliveExpired
  <2>1. UNCHANGED <<outbox, timers, pingOutstanding>>
    BY <1>4 DEF Loop
  <2>2. ASSUME NEW k \in 1 .. MaxInbox + 1, Due(k) PROVE Due(k)'
    <3>1. PongAt(k)' /\ k \in 1 .. MaxInbox
      BY <1>1, <2>1, <2>2, LagFacts DEF Due, PongAt
    <3>2. since + LoopGap <= lastInActivity + Lag(k) /\ since + LoopGap <= lastOutActivity + Lag(k)
      BY <1>1, <2>2 DEF Due, Near
    <3>3. PICK l \in Nat : l = Lag(k) /\ l >= Turn
      BY <3>1, LagFacts
    <3>4. now <= lastInActivity + l /\ now <= lastOutActivity + l
      BY <1>2, <3>2, <3>3, LagFacts
    <3>5. CASE inbox # <<>>
      BY <1>1, <2>1, <3>1, <3>3, <3>4, <3>5 DEF Due, Near, timers
    <3>6. CASE inbox = <<>>
      <4>1. outbox # <<>>
        BY <2>2, <3>6 DEF Due, PongAt
      <4>2. lastInActivity = now /\ lastOutActivity = now
        BY <1>1, <4>1 DEF PongOK
      <4>3. now + LoopGap <= now + l
        BY <1>2, <3>3, LagFacts
      <4> QED
        BY <1>1, <2>1, <3>1, <3>3, <3>6, <4>2, <4>3 DEF Due, Near, timers
    <3> QED
      BY <3>5, <3>6
  <2> QED
    BY <1>1, <2>1, <2>2 DEF PongOK, timers
<1> QED
  BY <1>3, <1>4

\* A packet p has been read and loop() goes on to its callback or returns.
\* The ping is still outstanding unless p was its answer.
LEMMA ReadKeeps ==
  ASSUME PromptPeer, IInv, PingOK, PromptOK, NEW p \in Packet, ReadWhole(p),
         outbox' = outbox,
         lastInActivity' \in {lastInActivity, t}, lastOutActivity' = lastOutActivity,
         IF p = PingResp THEN pingOutstanding' = FALSE
                         ELSE pingOutstanding' = pingOutstanding,
         \/ pc' = "idle" /\ since' = now /\ t' = 0
         \/ pc' = "callback" /\ since' = now /\ t' = t /\ lastInActivity' = t
  PROVE  PongOK'
<1>1. /\ pc = "reading" /\ up /\ aligned /\ PongOK /\ since = now /\ t = now
      /\ inbox # <<>> /\ p = Head(inbox) /\ inbox' = Tail(inbox) /\ now' = now
  BY DEF ReadWhole, NextPackets, AfterRead, PromptOK, LinkOK, Session, IInv, ControlOK, InCall
<1>2. Len(inbox') = Len(inbox) - 1 /\ Len(inbox) \in Nat /\ Len(outbox) \in Nat
  BY <1>1, QueueFacts, HeadTailProperties
<1>3. /\ now \in Nat /\ t \in Nat /\ lastInActivity \in Nat /\ lastOutActivity \in Nat
  BY DEF IInv, TypeOK, TimeType
<1>4. CASE p = PingResp
  <2>1. outbox = <<>>
    BY <1>1, <1>4, OnlyPong DEF PongOK
  <2>2. Len(inbox) - 1 + Len(outbox) <= MaxInbox + 0
    BY <1>1, <1>2, LagFacts DEF PongOK
  <2> QED
    BY <1>2, <1>4, <2>1, <2>2 DEF PongOK
<1>5. CASE p # PingResp
  <2>1. pingOutstanding' = pingOutstanding
    BY <1>5
  <2>2. Len(inbox) - 1 + Len(outbox) <= MaxInbox + (IF pingOutstanding THEN 1 ELSE 0)
    BY <1>1, <1>2, LagFacts DEF PongOK
  <2>3. outbox # <<>> => lastInActivity = now /\ lastOutActivity = now
                         /\ outbox = <<"PINGREQ">> /\ pingOutstanding
    BY <1>1 DEF PongOK
  <2>4. ASSUME NEW k \in 1 .. MaxInbox + 1, Due(k)
        PROVE  \E j \in 1 .. MaxInbox + 1 : Due(j)'
    <3>1. k \in Nat /\ PongAt(k)
      BY <2>4, LagFacts DEF Due
    <3>2. k - 1 \in Nat \ {0} /\ PongAt(k - 1)'
      BY <1>1, <1>5, <3>1, PongMoves
    <3>3. PICK j \in 1 .. MaxInbox : j = k - 1 /\ k = j + 1 /\ PongAt(j)'
      BY <3>2, LagFacts
    <3>4. Lag(j) = Lag(k) + Turn /\ Lag(j) >= Turn
      BY <3>3, LagFacts
    <3>5. PICK l \in Nat, m \in Nat : l = Lag(j) /\ m = Lag(k)
      BY <3>3, LagFacts
    <3>6. t <= lastInActivity + m /\ t <= lastOutActivity + m
      BY <1>1, <2>4, <3>5 DEF Due, Near
    <3>7. /\ t + Turn <= lastInActivity + l /\ t + Turn <= lastOutActivity + l
          /\ t + LoopGap <= lastInActivity + l /\ t + LoopGap <= lastOutActivity + l
          /\ t + Turn <= t + l /\ t + LoopGap <= t + l
      BY <1>3, <3>4, <3>5, <3>6, LagFacts
    <3>8. Near(j, lastInActivity)'
      <4>1. CASE lastInActivity' = lastInActivity
        BY <1>1, <3>5, <3>7, <4>1 DEF Near
      <4>2. CASE lastInActivity' = t
        BY <1>1, <3>5, <3>7, <4>2 DEF Near
      <4> QED
        BY <4>1, <4>2
    <3>9. Near(j, lastOutActivity)'
      BY <1>1, <3>5, <3>7 DEF Near
    <3>10. Due(j)'
      BY <3>3, <3>8, <3>9, LagFacts DEF Due
    <3> QED
      BY <3>3, <3>10, LagFacts
  <2> QED
    BY <1>1, <1>2, <2>1, <2>2, <2>3, <2>4 DEF PongOK
<1> QED
  BY <1>4, <1>5

LEMMA CallbackKeeps ==
  ASSUME PromptPeer, IInv, PromptOK, up, CallbackReturn
  PROVE  PongOK'
<1>1. /\ pc = "callback" /\ PongOK /\ pc' = "idle" /\ since' = now /\ t' = 0
      /\ UNCHANGED <<inbox, outbox, pingOutstanding, lastInActivity, now>>
      /\ lastOutActivity' \in {lastOutActivity, t}
  BY DEF CallbackReturn, BackFromLoop, transport, PromptOK, Session
<1>2. /\ now \in Nat /\ t \in Nat /\ lastInActivity \in Nat /\ lastOutActivity \in Nat
      /\ since \in Nat /\ now <= since + CallbackTime
  BY <1>1 DEF IInv, TypeOK, TimeType, WaitOK
<1>3. ASSUME pingOutstanding, NEW k \in 1 .. MaxInbox + 1, Due(k) PROVE Due(k)'
  <2>1. k \in 1 .. MaxInbox /\ PongAt(k) /\ since = t
    BY <1>1, <1>3, LagFacts DEF Due, PongOK
  <2>2. PICK l \in Nat : l = Lag(k) /\ l >= Turn
    BY <2>1, LagFacts
  <2>3. t + Turn <= lastInActivity + l /\ t + Turn <= lastOutActivity + l
    BY <1>1, <1>3, <2>2 DEF Due, Near
  <2>4. now + LoopGap <= t + Turn /\ t + Turn <= t + l
    BY <1>2, <2>1, <2>2, LagFacts
  <2>5. now + LoopGap <= lastInActivity + l /\ now + LoopGap <= lastOutActivity + l
        /\ now + LoopGap <= t + l
    BY <1>2, <2>2, <2>3, <2>4, LagFacts
  <2>6. Near(k, lastInActivity)'
    BY <1>1, <2>2, <2>5 DEF Near
  <2>7. Near(k, lastOutActivity)'
    BY <1>1, <2>2, <2>5 DEF Near
  <2>8. PongAt(k)'
    BY <1>1, <2>1 DEF PongAt
  <2> QED
    BY <2>1, <2>6, <2>7, <2>8 DEF Due
<1> QED
  BY <1>1, <1>3 DEF PongOK

\* The answer goes to the end of the backlog.
LEMMA AnswerKeeps ==
  ASSUME IInv, PongOK, Session, BrokerAnswer
  PROVE  PongOK'
<1>1. /\ outbox = <<"PINGREQ">> /\ outbox' = Tail(outbox) /\ inbox' = Append(inbox, PingResp)
      /\ UNCHANGED <<pingOutstanding, timers, pc, since, t, now>>
  BY DEF BrokerAnswer, PongOK, object, control
<1>2. outbox' = <<>> /\ Len(outbox) = 1
  BY <1>1
<1>3. /\ inbox \in Seq(Packet) /\ Len(inbox) \in Nat /\ PingResp \in Packet
  BY QueueFacts DEF PingResp, Packet
<1>4. /\ Len(inbox') = Len(inbox) + 1 /\ inbox'[Len(inbox) + 1] = PingResp
      /\ \A i \in 1 .. Len(inbox) : inbox'[i] = inbox[i]
  BY <1>1, <1>3, AppendProperties
<1>5. \A k : Near(k, lastInActivity)' <=> Near(k, lastInActivity)
  BY <1>1 DEF Near, timers
<1>6. \A k : Near(k, lastOutActivity)' <=> Near(k, lastOutActivity)
  BY <1>1 DEF Near, timers
<1>7. ASSUME NEW k, PongAt(k) PROVE PongAt(k)'
  <2>1. k \in 1 .. Len(inbox) + 1 /\ inbox'[k] = PingResp
    BY <1>3, <1>4, <1>7 DEF PongAt
  <2> QED
    BY <1>4, <2>1 DEF PongAt, PingResp
<1>8. \A k : Due(k) => Due(k)'
  BY <1>1, <1>5, <1>6, <1>7 DEF Due
<1>9. Len(inbox') + Len(outbox') = Len(inbox) + Len(outbox)
  BY <1>2, <1>3, <1>4, EmptySeq
<1> QED
  BY <1>1, <1>2, <1>8, <1>9 DEF PongOK

\* A message does so too, and only while the backlog is within its bound.
LEMMA SendKeeps ==
  ASSUME IInv, PongOK, Session, BrokerSend
  PROVE  PongOK'
<1>1. /\ outbox = <<>> /\ outbox' = outbox /\ Len(inbox) < MaxInbox
      /\ UNCHANGED <<pingOutstanding, timers, pc, since, t, now>>
  BY DEF BrokerSend, object, control
<1>2. PICK p \in Packet : inbox' = Append(inbox, p)
  BY DEF BrokerSend
<1>3. inbox \in Seq(Packet) /\ Len(inbox) \in Nat /\ Len(outbox) = 0
  BY <1>1, QueueFacts, EmptySeq
<1>4. /\ Len(inbox') = Len(inbox) + 1
      /\ \A i \in 1 .. Len(inbox) : inbox'[i] = inbox[i]
  BY <1>2, <1>3, AppendProperties
<1>5. \A k : Near(k, lastInActivity)' <=> Near(k, lastInActivity)
  BY <1>1 DEF Near, timers
<1>6. \A k : Near(k, lastOutActivity)' <=> Near(k, lastOutActivity)
  BY <1>1 DEF Near, timers
<1>7. ASSUME NEW k, PongAt(k) PROVE PongAt(k)'
  <2>1. k \in 1 .. Len(inbox) /\ inbox[k] = PingResp
    BY <1>1, <1>7 DEF PongAt
  <2>2. k \in 1 .. Len(inbox) + 1 /\ inbox'[k] = PingResp
    BY <1>3, <1>4, <2>1
  <2> QED
    BY <1>4, <2>2 DEF PongAt, PingResp
<1>8. \A k : Due(k) => Due(k)'
  BY <1>1, <1>5, <1>6, <1>7 DEF Due
<1>9. Len(inbox) + 1 + Len(outbox) <= MaxInbox + (IF pingOutstanding THEN 1 ELSE 0)
  BY <1>1, <1>3, BoundsAssumption
<1> QED
  BY <1>1, <1>4, <1>8, <1>9 DEF PongOK

\* A session begins with its timers fresh and nothing under way.
LEMMA SessionBegins ==
  ASSUME IInv, PromptOK, ConnackRead, up'
  PROVE  PongOK'
<1>1. /\ pc = "connack" /\ outbox = <<>> /\ Len(inbox) = 1
      /\ inbox' = Tail(inbox) /\ outbox' = outbox /\ pingOutstanding' = FALSE
  BY DEF ConnackRead, Stop, PromptOK, LinkOK
<1>2. inbox # <<>> /\ inbox \in Seq(Packet)
  BY <1>1, QueueFacts
<1>3. Len(inbox') = 0
  BY <1>1, <1>2, HeadTailProperties
<1>4. Len(outbox') = 0 /\ 0 + 0 <= MaxInbox + 0
  BY <1>1, BoundsAssumption
<1> QED
  BY <1>1, <1>3, <1>4 DEF PongOK

LEMMA PongStep ==
  ASSUME PromptPeer, IInv, PingOK, PromptOK, [Next]_vars, Session'
  PROVE  PongOK'
<1> USE DEF Session, PromptOK
<1>1. CASE Connect
  BY <1>1 DEF Connect
<1>2. CASE ConnectFails
  BY <1>2 DEF ConnectFails, Stop, transport
<1>3. CASE NotConnected
  BY <1>3 DEF NotConnected, Stop
<1>4. CASE Publish
  BY <1>4, WriteKeeps DEF Publish, CanCall, transport, control
<1>5. CASE Subscribe
  BY <1>5, WriteKeeps DEF Subscribe, CanCall, transport, control
<1>6. CASE Disconnect
  BY <1>6 DEF Disconnect, Stop
<1>7. CASE ConnectTimeout
  BY <1>7, NoConnectTimeout
<1>8. CASE ConnectAvailable
  BY <1>8 DEF ConnectAvailable
<1>9. CASE ConnackRead
  BY <1>9, SessionBegins
<1>10. CASE ConnackStall
  BY <1>10 DEF ConnackStall, Stop
<1>11. CASE LoopTimeout
  BY <1>11, NoLoopTimeout
<1>12. CASE Loop
  BY <1>12, LoopKeeps
<1>13. CASE ReadByte
  <2>1. pc = "reading" /\ up /\ since' = since
    BY <1>13 DEF ReadByte, InCall, LinkOK
  <2>2. UNCHANGED <<inbox, outbox, pingOutstanding, timers, pc, since, t, now>>
    BY <1>13, <2>1 DEF ReadByte, transport, object
  <2> QED
    BY <2>1, <2>2, PongKept
<1>14. CASE LoopStall
  BY <1>14 DEF LoopStall, LinkOK
<1>15. CASE CallbackReturn
  BY <1>15, CallbackKeeps DEF CallbackReturn, transport
<1>16. ASSUME NEW p \in Packet, LoopOversized(p) PROVE PongOK'
  <2>1. ReadWhole(p) /\ p # PingResp /\ pingOutstanding' = pingOutstanding
    BY <1>16 DEF LoopOversized, PingResp
  <2>2. /\ outbox' = outbox /\ lastOutActivity' = lastOutActivity
        /\ lastInActivity' \in {lastInActivity, t}
    BY <1>16 DEF LoopOversized, timers
  <2>3. pc' = "idle" /\ since' = now /\ t' = 0
    BY <1>16 DEF LoopOversized, BackFromLoop
  <2> QED
    BY <2>1, <2>2, <2>3, ReadKeeps
<1>17. ASSUME NEW p \in Packet, LoopPublish(p) PROVE PongOK'
  <2>1. ReadWhole(p) /\ p # PingResp /\ pingOutstanding' = pingOutstanding
    BY <1>17 DEF LoopPublish, PingResp
  <2>2. /\ outbox' = outbox /\ lastOutActivity' = lastOutActivity
        /\ lastInActivity' \in {lastInActivity, t}
    BY <1>17 DEF LoopPublish, timers
  <2>3. \/ pc' = "idle" /\ since' = now /\ t' = 0
        \/ pc' = "callback" /\ since' = now /\ t' = t /\ lastInActivity' = t
    BY <1>17 DEF LoopPublish, BackFromLoop
  <2> QED
    BY <2>1, <2>2, <2>3, ReadKeeps
<1>18. ASSUME NEW p \in Packet, LoopPingReq(p) PROVE PongOK'
  <2>1. ReadWhole(p) /\ p # PingResp /\ pingOutstanding' = pingOutstanding
    BY <1>18 DEF LoopPingReq, PingResp
  <2>2. /\ outbox' = outbox /\ lastOutActivity' = lastOutActivity
        /\ lastInActivity' \in {lastInActivity, t}
    BY <1>18 DEF LoopPingReq, timers
  <2>3. pc' = "idle" /\ since' = now /\ t' = 0
    BY <1>18 DEF LoopPingReq, BackFromLoop
  <2> QED
    BY <2>1, <2>2, <2>3, ReadKeeps
<1>19. ASSUME NEW p \in Packet, LoopPingResp(p) PROVE PongOK'
  <2>1. ReadWhole(p) /\ p = PingResp /\ pingOutstanding' = FALSE
    BY <1>19 DEF LoopPingResp, Packet, PingResp
  <2>2. /\ outbox' = outbox /\ lastOutActivity' = lastOutActivity
        /\ lastInActivity' \in {lastInActivity, t}
    BY <1>19 DEF LoopPingResp
  <2>3. pc' = "idle" /\ since' = now /\ t' = 0
    BY <1>19 DEF LoopPingResp, BackFromLoop
  <2> QED
    BY <2>1, <2>2, <2>3, ReadKeeps
<1>20. ASSUME NEW p \in Packet, LoopOther(p) PROVE PongOK'
  <2>1. ReadWhole(p) /\ p # PingResp /\ pingOutstanding' = pingOutstanding
    BY <1>20 DEF LoopOther, PingResp
  <2>2. /\ outbox' = outbox /\ lastOutActivity' = lastOutActivity
        /\ lastInActivity' \in {lastInActivity, t}
    BY <1>20 DEF LoopOther, timers
  <2>3. pc' = "idle" /\ since' = now /\ t' = 0
    BY <1>20 DEF LoopOther, BackFromLoop
  <2> QED
    BY <2>1, <2>2, <2>3, ReadKeeps
<1>21. CASE BrokerAnswer
  BY <1>21, AnswerKeeps DEF BrokerAnswer, control
<1>22. CASE BrokerSend
  BY <1>22, SendKeeps DEF BrokerSend, control
<1>23. CASE NetStall
  BY <1>23 DEF NetStall, PromptPeer
<1>24. CASE NetResume
  BY <1>24 DEF NetResume, LinkOK
<1>25. CASE PeerClose
  BY <1>25 DEF PeerClose
<1>26. CASE Tick
  <2>1. outbox = <<>> /\ up /\ Session
    BY <1>26 DEF Tick, PromptPeer, transport, control
  <2>2. UNCHANGED <<inbox, outbox, pingOutstanding, timers, pc, since, t>>
    BY <1>26 DEF Tick, transport, object, control
  <2> QED
    BY <2>1, <2>2, PongKept
<1>27. CASE UNCHANGED vars
  <2>1. UNCHANGED <<inbox, outbox, pingOutstanding, timers, pc, since, t, now, up>>
    BY <1>27 DEF vars, transport, object, control
  <2> QED
    BY <2>1, PongKept
<1> QED
  BY <1>1, <1>2, <1>3, <1>4, <1>5, <1>6, <1>7, <1>8, <1>9, <1>10, <1>11, <1>12,
     <1>13, <1>14, <1>15, <1>16, <1>17, <1>18, <1>19, <1>20, <1>21, <1>22,
     <1>23, <1>24, <1>25, <1>26, <1>27 DEF Next, Sketch, ConnectCall, LoopCall,
     Environment

\* A peer that answers at once is never given up, if the keep-alive covers
\* one turn of the sketch for each packet that may be under way.
THEOREM PromptTheorem == ASSUME PromptPeer PROVE Spec => []NoSpuriousTimeout
<1>1. Init => PingOK /\ PromptOK
  BY DEF Init, PingOK, PromptOK, LinkOK, Session
<1>2. IInv /\ PingOK /\ PromptOK /\ [Next]_vars => PingOK' /\ PromptOK'
  <2> SUFFICES ASSUME IInv, PingOK, PromptOK, [Next]_vars PROVE PingOK' /\ PromptOK'
    OBVIOUS
  <2>1. PingOK'
    BY PingStep
  <2>2. LinkOK' /\ (Session' => PongOK')
    BY LinkStep, PongStep
  <2> QED
    BY <2>1, <2>2 DEF PromptOK
<1>3. PromptOK => NoSpuriousTimeout
  BY DEF PromptOK, LinkOK, NoSpuriousTimeout
<1> QED
  BY <1>1, <1>2, <1>3, Inductive, PTL DEF Spec
=============================================================================
