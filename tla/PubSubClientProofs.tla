-------------------------- MODULE PubSubClientProofs --------------------------
(***************************************************************************)
(* The MQTT client, for every keep-alive, timeout, period of loop() and    *)
(* set of messages: its socket, its types, a keep-alive that is long       *)
(* enough for the packets that may lie before the answer to a ping, the    *)
(* session that a sketch sees, and the time in which a silence is noticed. *)
(***************************************************************************)
EXTENDS PubSubClient, SequenceTheorems, TLAPS

InConnect == pc = "connack" \/ (pc = "read" /\ caller = "connect")

\* The socket in the middle of a call, where SocketFollowsState does not look.
SocketInv ==
  /\ IF InConnect THEN link # "none" /\ state # "connected" /\ nextMsgId # 0
                  ELSE link # "none" <=> state = "connected"
  /\ pc \in {"callback", "ack"} => caller = "loop"
  /\ pc = "connack" => caller = "connect"
  /\ pc = "read" => link # "none"

\* A new connection begins with nothing but the answer of the broker.
StreamInv ==
  /\ link = "none" => rx = << >> /\ wire = << >> /\ ~torn /\ framed
  /\ InConnect => framed /\ Len(rx) + Len(wire) <= 1
  /\ link \in {"stalled", "broken"} => lapse

\* While the connection is up, no call of loop() waits.
NoWait ==
  ~lapse =>
    /\ framed
    /\ torn => wire # << >>
    /\ pc \in {"read", "callback", "ack"} /\ caller = "loop" => waited = 0 /\ tAge = 0
    /\ pc = "read" => rx # << >> \/ torn

\* The answer to the ping is packet i: the periods that have gone by at most.
Room(i) == (MaxQueue + 1 - i) * LoopPeriod

\* The time since the last packet was read, if a call is not reading one.
Slack == IF pc = "read" THEN LoopPeriod ELSE pause

InTime(age, i) == age <= Room(i) + Slack

PongArrived ==
  \E i \in 1 .. Len(rx) :
    /\ i <= MaxQueue + 1 /\ rx[i].type = "PINGRESP"
    /\ InTime(inAge, i) /\ InTime(outAge, i)

PongOnItsWay ==
  /\ inAge = 0 /\ outAge = 0
  /\ \E i \in 1 .. Len(wire) :
       Len(rx) + i <= MaxQueue + 1 /\ wire[i].type = "PINGRESP"

PingInv ==
  ~lapse /\ state = "connected" =>
    /\ Len(rx) + Len(wire) <= MaxQueue + (IF pingOutstanding THEN 1 ELSE 0)
    /\ pingOutstanding => PongArrived \/ PongOnItsWay

Inv == TypeOK /\ SocketInv /\ StreamInv /\ NoWait /\ PingInv
-----------------------------------------------------------------------------
(* Packets and queues                                                      *)

LEMMA Limits ==
  /\ KeepAlive \in Nat /\ LoopPeriod \in Nat /\ MaxQueue \in Nat
  /\ SocketTimeout \in Nat /\ SocketTimeout > 0 /\ IdLimit \in Nat /\ IdLimit > 1
  /\ Pieces \in Nat /\ Pieces > 0
BY ClientAssumption

LEMMA PacketTypes ==
  /\ \A p \in Packets : p.type = "PUBLISH" => p \in Messages
  /\ \A t \in {"CONNACK", "REFUSED", "PINGRESP", "OTHER", "BADLEN"} :
       Packet(t) \in Packets /\ Packet(t).type = t
  /\ Messages \subseteq Packets
  /\ \A m \in Messages : m.id \in 0 .. IdLimit - 1
<1>1. \A m \in Messages : m.id \in 0 .. IdLimit - 1
  BY ClientAssumption
<1>2. \A t \in {"CONNACK", "REFUSED", "PINGRESP", "OTHER", "BADLEN"} :
        Packet(t) \in Packets /\ Packet(t).type = t
  BY DEF Packet, Packets, Connacks
<1> QED
  BY <1>1, <1>2 DEF Packet, Packets, Connacks

LEMMA Products == \A x, y \in Nat : x * y \in Nat /\ (x > 0 /\ y > 0 => x * y > 0)
OBVIOUS

LEMMA BytesType ==
  ASSUME NEW q \in Seq(Packets)
  PROVE  Bytes(q) \in Seq(Packets) /\ (Len(q) > 0 => Len(Bytes(q)) > 0)
<1>1. Packet("OTHER") \in Packets
  BY PacketTypes
<1>2. Pieces * Len(q) \in Nat /\ (Len(q) > 0 => Pieces * Len(q) > 0)
  BY Limits, Products
<1>3. PICK n \in Nat : n = Pieces * Len(q)
  BY <1>2
<1>4. Bytes(q) = [i \in 1 .. n |-> Packet("OTHER")]
  BY <1>3 DEF Bytes
<1>5. Bytes(q) \in Seq(Packets) /\ Len(Bytes(q)) = n
  BY <1>1, <1>4
<1> QED
  BY <1>2, <1>3, <1>5

\* What the broker sends comes behind what is on its way: one packet, as long as
\* the client knows where packets begin.
LEMMA SentType ==
  ASSUME NEW q \in Seq(Packets), NEW p \in Packets
  PROVE  /\ q \o Sent(p) \in Seq(Packets) /\ Len(q \o Sent(p)) > 0
         /\ framed => q \o Sent(p) = Append(q, p)
<1>1. << p >> \in Seq(Packets) /\ Len(<< p >>) = 1
  OBVIOUS
<1>2. Sent(p) \in Seq(Packets) /\ Len(Sent(p)) > 0
  <2>1. PICK one \in Seq(Packets) : one = << p >>
    BY <1>1
  <2>2. Len(one) > 0
    BY <2>1
  <2>3. Bytes(one) \in Seq(Packets) /\ Len(Bytes(one)) > 0
    BY <2>2, BytesType, Zenon
  <2>4. Sent(p) = one \/ Sent(p) = Bytes(one)
    BY <2>1 DEF Sent
  <2> QED
    BY <2>2, <2>3, <2>4, Zenon
<1>3. q \o Sent(p) \in Seq(Packets) /\ Len(q \o Sent(p)) = Len(q) + Len(Sent(p))
  BY <1>2, ConcatProperties
<1>4. framed => q \o Sent(p) = Append(q, p)
  BY DEF Sent
<1> QED
  BY <1>2, <1>3, <1>4

LEMMA StopType ==
  ASSUME Stop
  PROVE  /\ link' = "none" /\ wire' = << >> /\ rx' = << >> /\ ~torn' /\ framed'
         /\ wire' \in Seq(Packets) /\ rx' \in Seq(Packets)
         /\ torn' \in BOOLEAN /\ framed' \in BOOLEAN
<1>1. link' = "none" /\ wire' = << >> /\ rx' = << >> /\ ~torn' /\ framed'
  BY DEF Stop
<1>2. torn' \in BOOLEAN /\ framed' \in BOOLEAN
  BY DEF Stop
<1>3. wire' \in Seq(Packets) /\ rx' \in Seq(Packets)
  BY <1>1
<1> QED
  BY <1>1, <1>2, <1>3

\* What readPacket() read, and what it left.
LEMMA PacketRead ==
  ASSUME TypeOK, ReadPacket
  PROVE  \E p \in Packets :
           /\ framed => p = rx[1]
           /\ IF caller = "connect" THEN Connack(p) ELSE Dispatch(p)
           /\ IF p.type = "BADLEN" \/ (caller = "connect" /\ p.type # "CONNACK")
              THEN Stop
              ELSE /\ rx' \in Seq(Packets) /\ Len(rx') < Len(rx)
                   /\ framed => /\ Len(rx') = Len(rx) - 1
                                /\ \A i \in 1 .. Len(rx') : rx'[i] = rx[i + 1]
                   /\ UNCHANGED << link, wire, torn, framed >>
<1>1. rx \in Seq(Packets) /\ Len(rx) \in Nat /\ Len(rx) > 0 /\ Head(rx) = rx[1] /\ rx[1] \in Packets
  BY DEF ReadPacket, TypeOK
<1>2. PICK p \in IF framed THEN {Head(rx)} ELSE Packets :
        /\ IF caller = "connect" THEN Connack(p) ELSE Dispatch(p)
        /\ IF p.type = "BADLEN" \/ (caller = "connect" /\ p.type # "CONNACK")
           THEN Stop
           ELSE /\ \E n \in IF framed THEN {2} ELSE 2 .. Len(rx) + 1 :
                     rx' = SubSeq(rx, n, Len(rx))
                /\ UNCHANGED << link, wire, torn, framed >>
  BY DEF ReadPacket
<1>3. p \in Packets /\ (framed => p = rx[1])
  BY <1>1, <1>2
<1>4. ASSUME NEW n \in IF framed THEN {2} ELSE 2 .. Len(rx) + 1, rx' = SubSeq(rx, n, Len(rx))
      PROVE  /\ rx' \in Seq(Packets) /\ Len(rx') < Len(rx)
             /\ framed => /\ Len(rx') = Len(rx) - 1
                          /\ \A i \in 1 .. Len(rx') : rx'[i] = rx[i + 1]
  <2>1. n \in 2 .. Len(rx) + 1 /\ (framed => n = 2)
    BY <1>1, <1>4
  <2>2. /\ SubSeq(rx, n, Len(rx)) \in Seq(Packets)
        /\ Len(SubSeq(rx, n, Len(rx))) = Len(rx) - n + 1
        /\ \A i \in 1 .. Len(rx) - n + 1 : SubSeq(rx, n, Len(rx))[i] = rx[n + i - 1]
    BY <1>1, <2>1, SubSeqProperties
  <2> QED
    BY <1>1, <1>4, <2>1, <2>2
<1> QED
  BY <1>2, <1>3, <1>4

-----------------------------------------------------------------------------
(* Types, and the socket                                                   *)

LEMMA SafeInit == Init => TypeOK /\ SocketInv
<1> SUFFICES ASSUME Init PROVE TypeOK /\ SocketInv
  OBVIOUS
<1>1. /\ pingOutstanding \in BOOLEAN /\ torn \in BOOLEAN
      /\ framed \in BOOLEAN /\ lapse \in BOOLEAN
  BY DEF Init
<1> QED
  BY <1>1, Limits DEF Init, TypeOK, States, SocketInv, InConnect

LEMMA NextId == nextMsgId \in 0 .. IdLimit - 1 =>
                  (IF (nextMsgId + 1) % IdLimit = 0 THEN 1 ELSE nextMsgId + 1)
                    \in (0 .. IdLimit - 1) \ {0}
<1> SUFFICES ASSUME nextMsgId \in 0 .. IdLimit - 1
             PROVE  (IF (nextMsgId + 1) % IdLimit = 0 THEN 1 ELSE nextMsgId + 1)
                      \in (0 .. IdLimit - 1) \ {0}
  OBVIOUS
<1>1. IdLimit % IdLimit = 0
  BY Limits
<1> QED
  BY <1>1, Limits

LEMMA SafeStep == TypeOK /\ SocketInv /\ [Next]_vars => TypeOK' /\ SocketInv'
<1> SUFFICES ASSUME TypeOK, SocketInv, [Next]_vars PROVE TypeOK' /\ SocketInv'
  OBVIOUS
<1> USE Limits
    DEF States, InConnect, timers, socket, session, message
<1>1. CASE NoticeLost
  BY <1>1, StopType DEF NoticeLost, TypeOK, SocketInv
<1>2. CASE ConnectFails
  BY <1>2 DEF ConnectFails, TypeOK, SocketInv, Alive
<1>3. CASE ConnectTooLong
  BY <1>3, StopType DEF ConnectTooLong, TypeOK, SocketInv
<1>4. CASE ConnectSent
  <2>1. PICK reply \in { << >> } \cup { << r >> : r \in Connacks } : wire' = wire \o reply
    BY <1>4 DEF ConnectSent
  <2>2. Connacks \subseteq Packets
    BY DEF Packets
  <2>3. reply \in Seq(Packets)
    <3>1. CASE reply = << >>
      BY <3>1
    <3>2. CASE \E p \in Connacks : reply = << p >>
      BY <2>2, <3>2
    <3> QED
      BY <2>1, <3>1, <3>2
  <2>4. wire' \in Seq(Packets)
    BY <2>1, <2>3 DEF TypeOK
  <2>5. lapse' \in BOOLEAN
    BY <1>4 DEF ConnectSent
  <2> QED
    BY <1>4, <2>4, <2>5 DEF ConnectSent, TypeOK, SocketInv, Alive
<1>5. CASE ConnackCame
  BY <1>5 DEF ConnackCame, TypeOK, SocketInv
<1>6. CASE ConnackTimeout
  BY <1>6, StopType DEF ConnackTimeout, TypeOK, SocketInv
<1>7. CASE LoopTimeout
  BY <1>7, StopType DEF LoopTimeout, TypeOK, SocketInv
<1>8. CASE LoopPing
  <2>1. PICK p \in Packets : wire' = Append(wire, p)
    BY <1>8, PacketTypes DEF LoopPing
  <2>2. wire' \in Seq(Packets)
    BY <2>1 DEF TypeOK
  <2>3. pingOutstanding' \in BOOLEAN
    BY <1>8 DEF LoopPing
  <2> QED
    BY <1>8, <2>2, <2>3 DEF LoopPing, LookForPacket, Up, TypeOK, SocketInv
<1>9. CASE LoopQuiet
  BY <1>9 DEF LoopQuiet, LookForPacket, Up, TypeOK, SocketInv
<1>10. CASE ReadPacket
  <2>1. PICK p \in Packets :
          /\ IF caller = "connect" THEN Connack(p) ELSE Dispatch(p)
          /\ IF p.type = "BADLEN" \/ (caller = "connect" /\ p.type # "CONNACK")
             THEN Stop
             ELSE rx' \in Seq(Packets) /\ UNCHANGED << link, wire, torn, framed >>
    BY <1>10, PacketRead
  <2>2. /\ pc = "read" /\ UNCHANGED << caller, nextMsgId, outAge, pause, lapse >>
        /\ waited' = 0 /\ tAge' = IF pc' = "idle" THEN 0 ELSE tAge
    BY <1>10 DEF ReadPacket
  <2>3. p.type = "PUBLISH" => p \in Messages /\ p.id \in 0 .. IdLimit - 1
    BY PacketTypes
  <2>4. /\ link' \in {"none", "up", "stalled", "broken"}
        /\ wire' \in Seq(Packets) /\ rx' \in Seq(Packets)
        /\ torn' \in BOOLEAN /\ framed' \in BOOLEAN
    BY <2>1, StopType DEF TypeOK
  <2>5. CASE caller = "connect"
    <3>1. Connack(p)
      BY <2>1, <2>5
    <3>2. pingOutstanding' \in BOOLEAN
      BY <3>1 DEF Connack
    <3>3. /\ pc' = "idle" /\ state' \in States
          /\ state' = "connected" <=> p.type = "CONNACK"
      BY <2>2, <2>5, <3>1 DEF Connack, TypeOK, SocketInv
    <3>4. link' # "none" <=> state' = "connected"
      BY <2>1, <2>2, <2>5, <3>3, StopType DEF SocketInv
    <3>5. nextMsgId # 0
      BY <2>2, <2>5 DEF SocketInv
    <3>6. /\ UNCHANGED << msgId, buffer, handing >>
          /\ inAge' \in {0, inAge} /\ acked' \in {0, acked}
      BY <3>1 DEF Connack
    <3> QED
      BY <2>2, <2>4, <2>5, <3>2, <3>3, <3>4, <3>5, <3>6 DEF TypeOK, SocketInv
  <2>6. CASE caller = "loop"
    <3>1. Dispatch(p)
      BY <2>1, <2>6
    <3>2. pingOutstanding' \in BOOLEAN
      BY <3>1 DEF Dispatch
    <3>3. /\ pc' \in {"idle", "callback"}
          /\ state' = IF p.type = "BADLEN" THEN "disconnected" ELSE state
      BY <3>1 DEF Dispatch
    <3>4. link' # "none" <=> state' = "connected"
      BY <2>1, <2>2, <2>6, <3>3, StopType DEF SocketInv
    <3> QED
      BY <2>2, <2>3, <2>4, <2>6, <3>1, <3>2, <3>3, <3>4 DEF Dispatch, TypeOK, SocketInv
  <2> QED
    BY <2>5, <2>6 DEF TypeOK
<1>11. CASE ReadOn
  <2>1. rx' \in Seq(Packets)
    BY <1>11 DEF ReadOn
  <2>2. torn' \in BOOLEAN
    BY <1>11 DEF ReadOn
  <2> QED
    BY <1>11, <2>1, <2>2 DEF ReadOn, TypeOK, SocketInv
<1>12. CASE ReadTimeout
  <2>1. CASE caller = "connect" \/ link = "broken"
    BY <1>12, <2>1, StopType DEF ReadTimeout, TypeOK, SocketInv
  <2>2. CASE ~(caller = "connect" \/ link = "broken")
    <3>1. wire' \in Seq(Packets)
      BY <1>12, <2>2, BytesType DEF ReadTimeout, TypeOK
    <3>2. torn' \in BOOLEAN /\ framed' \in BOOLEAN
      BY <1>12, <2>2 DEF ReadTimeout
    <3> QED
      BY <1>12, <2>2, <3>1, <3>2 DEF ReadTimeout, TypeOK, SocketInv
  <2> QED
    BY <2>1, <2>2
<1>13. CASE Callback
  <2>0. buffer' \in {buffer, NoMessage} /\ outAge' \in {outAge, 0}
    BY <1>13 DEF Callback
  <2>1. CASE Stop /\ state' = "lost"
    BY <1>13, <2>0, <2>1, StopType DEF Callback, TypeOK, SocketInv
  <2>2. CASE UNCHANGED << state, socket >>
    BY <1>13, <2>0, <2>2 DEF Callback, TypeOK, SocketInv
  <2> QED
    BY <1>13, <2>1, <2>2 DEF Callback
<1>14. CASE Ack
  BY <1>14 DEF Ack, TypeOK, SocketInv
<1>15. CASE Publish
  BY <1>15 DEF Publish, TypeOK, SocketInv
<1>16. CASE Subscribe
  <2>1. wire' \in Seq(Packets)
    BY <1>16, PacketTypes, SentType DEF Subscribe, TypeOK
  <2>2. nextMsgId' \in 0 .. IdLimit - 1 /\ nextMsgId' # 0
    BY <1>16, NextId DEF Subscribe, TypeOK
  <2> QED
    BY <1>16, <2>1, <2>2 DEF Subscribe, TypeOK, SocketInv
<1>17. CASE Disconnect
  BY <1>17, StopType DEF Disconnect, TypeOK, SocketInv
<1>18. CASE BrokerSend
  <2>1. PICK p \in Packets : wire' = wire \o Sent(p)
    BY <1>18, PacketTypes DEF BrokerSend
  <2>3. wire' \in Seq(Packets)
    BY <2>1, SentType DEF TypeOK
  <2> QED
    BY <1>18, <2>3 DEF BrokerSend, TypeOK, SocketInv
<1>19. CASE Arrive
  <2>1. rx' \in Seq(Packets) /\ wire' \in Seq(Packets)
    BY <1>19 DEF Arrive, TypeOK
  <2>2. torn' \in BOOLEAN
    BY <1>19 DEF Arrive
  <2> QED
    BY <1>19, <2>1, <2>2 DEF Arrive, TypeOK, SocketInv
<1>20. CASE ArrivePart
  <2>1. torn' \in BOOLEAN
    BY <1>20 DEF ArrivePart
  <2> QED
    BY <1>20, <2>1 DEF ArrivePart, TypeOK, SocketInv
<1>21. CASE Stall
  <2>1. lapse' \in BOOLEAN
    BY <1>21 DEF Stall
  <2> QED
    BY <1>21, <2>1 DEF Stall, TypeOK, SocketInv
<1>22. CASE Resume
  BY <1>22 DEF Resume, TypeOK, SocketInv
<1>23. CASE Break
  <2>1. lapse' \in BOOLEAN
    BY <1>23 DEF Break
  <2>2. wire' \in Seq(Packets)
    BY <1>23 DEF Break
  <2> QED
    BY <1>23, <2>1, <2>2 DEF Break, Alive, TypeOK, SocketInv
<1>24. CASE Tick
  BY <1>24 DEF Tick, Older, TypeOK, SocketInv
<1>25. CASE UNCHANGED vars
  BY <1>25 DEF vars, TypeOK, SocketInv
<1> QED
  BY <1>1, <1>2, <1>3, <1>4, <1>5, <1>6, <1>7, <1>8, <1>9, <1>10, <1>11, <1>12, <1>13,
     <1>14, <1>15, <1>16, <1>17, <1>18, <1>19, <1>20, <1>21, <1>22, <1>23, <1>24, <1>25
  DEF Next, InCall, Calls, LoopCall, Surroundings
-----------------------------------------------------------------------------
(* Nothing waits while the connection is up                                *)

LEMMA StreamInit == Init => StreamInv /\ NoWait
BY DEF Init, StreamInv, NoWait, InConnect

LEMMA StreamStep ==
  TypeOK /\ SocketInv /\ StreamInv /\ NoWait /\ [Next]_vars => StreamInv' /\ NoWait'
<1> SUFFICES ASSUME TypeOK, SocketInv, StreamInv, NoWait, [Next]_vars
             PROVE  StreamInv' /\ NoWait'
  OBVIOUS
<1> USE Limits
    DEF InConnect, timers, socket, session, message, StreamInv, NoWait
<1>1. CASE NoticeLost \/ ConnectTooLong \/ ConnackTimeout \/ LoopTimeout \/ Disconnect
  <2>1. Stop /\ pc' = "idle" /\ UNCHANGED lapse
    BY <1>1 DEF NoticeLost, ConnectTooLong, ConnackTimeout, LoopTimeout, Disconnect
  <2> QED
    BY <2>1, StopType
<1>2. CASE ConnectFails
  BY <1>2 DEF ConnectFails
<1>3. CASE ConnectSent
  <2>1. PICK reply \in { << >> } \cup { << r >> : r \in Connacks } : wire' = wire \o reply
    BY <1>3 DEF ConnectSent
  <2>2. link = "none" /\ link' = "up" /\ pc' = "connack" /\ caller' = "connect"
        /\ UNCHANGED << rx, torn, framed >>
    BY <1>3 DEF ConnectSent, SocketInv, Alive
  <2>3. wire' = reply
    BY <2>1, <2>2
  <2>4. Len(wire') <= 1
    <3>1. CASE reply = << >>
      BY <2>3, <3>1
    <3>2. CASE \E p \in Connacks : reply = << p >>
      BY <2>3, <3>2
    <3> QED
      BY <2>1, <3>1, <3>2
  <2> QED
    BY <2>2, <2>3, <2>4
<1>4. CASE ConnackCame
  BY <1>4 DEF ConnackCame, SocketInv, Available
<1>5. CASE LoopPing
  <2>1. PICK p \in Packets : wire' = Append(wire, p) /\ link # "none"
    BY <1>5, PacketTypes DEF LoopPing, Up, Alive
  <2>2. Len(wire') > 0
    BY <2>1 DEF TypeOK
  <2> QED
    BY <1>5, <2>1, <2>2 DEF LoopPing, LookForPacket, Available
<1>6. CASE LoopQuiet
  BY <1>6 DEF LoopQuiet, LookForPacket, Available, Up, Alive
<1>7. CASE ReadPacket
  <2>1. PICK p \in Packets :
          /\ IF caller = "connect" THEN Connack(p) ELSE Dispatch(p)
          /\ \/ Stop
             \/ UNCHANGED << link, wire, torn, framed >> /\ rx' \in Seq(Packets)
    BY <1>7, PacketRead
  <2>2. pc' \in {"idle", "callback"} /\ pc = "read" /\ rx # << >>
        /\ UNCHANGED << caller, lapse >> /\ waited' = 0
        /\ tAge' = IF pc' = "idle" THEN 0 ELSE tAge
    BY <1>7, <2>1 DEF ReadPacket, Connack, Dispatch
  <2>3. link # "none"
    BY <2>2
  <2>4. pc' = "callback" => caller = "loop"
    BY <2>1 DEF Connack, TypeOK
  <2>5. CASE Stop
    <3>1. link' = "none" /\ rx' = << >> /\ wire' = << >> /\ ~torn' /\ framed'
      BY <2>5, StopType
    <3> QED
      BY <2>2, <2>4, <3>1
  <2>6. CASE UNCHANGED << link, wire, torn, framed >>
    BY <2>2, <2>3, <2>4, <2>6
  <2> QED
    BY <2>1, <2>5, <2>6
<1>8. CASE ReadOn
  BY <1>8 DEF ReadOn, SocketInv
<1>9. CASE ReadTimeout
  <2>1. CASE caller = "connect" \/ link = "broken"
    <3>1. Stop /\ pc' = "idle" /\ UNCHANGED lapse
      BY <1>9, <2>1 DEF ReadTimeout
    <3> QED
      BY <3>1, StopType
  <2>2. CASE ~(caller = "connect" \/ link = "broken")
    <3>1. lapse /\ UNCHANGED << lapse, link >> /\ link # "none" /\ pc' = "idle"
      BY <1>9, <2>2 DEF ReadTimeout, SocketInv, TypeOK
    <3> QED
      BY <3>1
  <2> QED
    BY <2>1, <2>2
<1>10. CASE Callback
  <2>1. pc = "callback" /\ pc' \in {"ack", "idle"} /\ caller' = caller
        /\ waited' = waited /\ lapse' = lapse /\ caller = "loop"
        /\ tAge' = IF pc' = "ack" THEN tAge ELSE 0
    BY <1>10 DEF Callback, SocketInv
  <2>2. CASE Stop
    BY <2>1, <2>2, StopType
  <2>3. CASE UNCHANGED socket
    BY <2>1, <2>3
  <2> QED
    BY <1>10, <2>2, <2>3 DEF Callback
<1>11. CASE Ack
  BY <1>11 DEF Ack
<1>12. CASE Publish
  BY <1>12 DEF Publish
<1>13. CASE Subscribe
  <2>1. Len(wire') > 0 /\ pc = "idle" /\ link # "none"
    BY <1>13, PacketTypes, SentType DEF Subscribe, Up, Alive, TypeOK
  <2> QED
    BY <1>13, <2>1 DEF Subscribe
<1>14. CASE BrokerSend
  <2>1. PICK p \in Packets : wire' = wire \o Sent(p)
    BY <1>14, PacketTypes DEF BrokerSend
  <2>3. Len(wire') > 0
    BY <2>1, SentType DEF TypeOK
  <2>4. ~InConnect /\ link # "none"
    BY <1>14 DEF BrokerSend, Up, Alive, SocketInv
  <2> QED
    BY <1>14, <2>3, <2>4 DEF BrokerSend
<1>15. CASE Arrive
  <2>1. Len(rx') + Len(wire') = Len(rx) + Len(wire) /\ Len(rx') > 0
    BY <1>15 DEF Arrive, TypeOK
  <2>2. ~torn' /\ link' = "up" /\ UNCHANGED << pc, caller, timers, link, framed, lapse >>
    BY <1>15 DEF Arrive
  <2>3. rx' # << >>
    BY <2>1
  <2> QED
    BY <2>1, <2>2, <2>3
<1>16. CASE ArrivePart
  BY <1>16 DEF ArrivePart
<1>17. CASE Stall
  BY <1>17 DEF Stall
<1>18. CASE Resume
  BY <1>18 DEF Resume
<1>19. CASE Break
  <2>1. /\ lapse' /\ link' = "broken" /\ wire' = << >>
        /\ UNCHANGED << pc, caller, rx, framed >>
    BY <1>19 DEF Break
  <2>2. Len(wire') = 0 /\ Len(wire) \in Nat
    BY <2>1 DEF TypeOK
  <2> QED
    BY <2>1, <2>2 DEF TypeOK
<1>20. CASE Tick
  <2>1. /\ UNCHANGED << pc, caller, socket, lapse >> /\ link # "none"
        /\ link = "up" => wire = << >>
        /\ pc = "idle" \/ pc = "connack" \/ (pc = "read" /\ rx = << >>)
    BY <1>20 DEF Tick
  <2>2. ~lapse => pc # "read" \/ caller = "connect"
    BY <2>1 DEF TypeOK
  <2>3. ~lapse /\ pc = "read" => rx # << >> \/ torn
    OBVIOUS
  <2> QED
    BY <2>1, <2>2, <2>3 DEF SocketInv
<1>21. CASE UNCHANGED vars
  BY <1>21 DEF vars
<1> QED
  BY <1>1, <1>2, <1>3, <1>4, <1>5, <1>6, <1>7, <1>8, <1>9, <1>10, <1>11, <1>12, <1>13,
     <1>14, <1>15, <1>16, <1>17, <1>18, <1>19, <1>20, <1>21
  DEF Next, InCall, Calls, LoopCall, Surroundings
-----------------------------------------------------------------------------
(* The answer to a ping is in time                                         *)

\* Multiplication, as far as it is needed.
LEMMA Periods ==
  /\ \A a \in Nat : a * LoopPeriod \in Nat /\ (a + 1) * LoopPeriod = a * LoopPeriod + LoopPeriod
  /\ \A a, b \in Nat : a <= b => a * LoopPeriod <= b * LoopPeriod
<1>1. \A a \in Nat : a * LoopPeriod \in Nat /\ (a + 1) * LoopPeriod = a * LoopPeriod + LoopPeriod
  BY Limits
<1>2. ASSUME NEW a \in Nat, NEW b \in Nat, a <= b
      PROVE  a * LoopPeriod <= b * LoopPeriod
  <2>1. b - a \in Nat /\ b * LoopPeriod = a * LoopPeriod + (b - a) * LoopPeriod
    BY <1>2, Limits
  <2> QED
    BY <1>1, <2>1, <1>2, Limits
<1> QED
  BY <1>1, <1>2

LEMMA RoomType ==
  ASSUME NEW i \in 1 .. MaxQueue + 1
  PROVE  /\ Room(i) \in Nat /\ Room(i) + LoopPeriod <= (MaxQueue + 1) * LoopPeriod
         /\ i > 1 => Room(i - 1) = Room(i) + LoopPeriod
<1>1. MaxQueue + 1 - i \in Nat /\ MaxQueue + 1 - i <= MaxQueue
  BY Limits
<1>2. i > 1 => MaxQueue + 1 - (i - 1) = (MaxQueue + 1 - i) + 1
  BY Limits
<1> QED
  BY <1>1, <1>2, Periods, Limits DEF Room

Numbers == /\ inAge \in Nat /\ outAge \in Nat /\ pause \in Nat /\ pause <= LoopPeriod
           /\ Len(rx) \in Nat /\ Len(wire) \in Nat /\ Slack \in Nat

LEMMA NumbersType == TypeOK => Numbers
<1> SUFFICES ASSUME TypeOK PROVE Numbers
  OBVIOUS
<1>1. /\ inAge \in Nat /\ outAge \in Nat /\ pause \in Nat /\ pause <= LoopPeriod
  BY Limits DEF TypeOK
<1>2. Len(rx) \in Nat /\ Len(wire) \in Nat
  BY DEF TypeOK
<1> QED
  BY <1>1, <1>2, Limits DEF Numbers, Slack

\* An answer that is there or on its way stays so when nothing is read and the
\* ages do not grow.
LEMMA PongKept ==
  ASSUME Numbers, Numbers', PongArrived \/ PongOnItsWay, rx' = rx,
         Len(wire') >= Len(wire), \A i \in 1 .. Len(wire) : wire'[i] = wire[i],
         inAge' <= inAge, outAge' <= outAge, Slack <= Slack'
  PROVE  PongArrived' \/ PongOnItsWay'
<1>1. CASE PongArrived
  <2>1. PICK i \in 1 .. Len(rx) : /\ i <= MaxQueue + 1 /\ rx[i].type = "PINGRESP"
                                  /\ inAge <= Room(i) + Slack
                                  /\ outAge <= Room(i) + Slack
    BY <1>1 DEF PongArrived, InTime
  <2>3. Room(i) \in Nat
    <3>1. i \in 1 .. MaxQueue + 1
      BY <2>1, Limits DEF Numbers
    <3> QED
      BY <3>1, RoomType
  <2>5. /\ inAge' <= Room(i) + Slack'
        /\ outAge' <= Room(i) + Slack'
    <3>1. /\ inAge \in Nat /\ inAge' \in Nat /\ outAge \in Nat /\ outAge' \in Nat
          /\ Slack \in Nat /\ Slack' \in Nat
      BY DEF Numbers
    <3> QED
      BY <2>1, <2>3, <3>1
  <2> QED
    BY <2>1, <2>5 DEF PongArrived, InTime
<1>2. CASE PongOnItsWay
  <2>1. PICK i \in 1 .. Len(wire) : Len(rx) + i <= MaxQueue + 1 /\ wire[i].type = "PINGRESP"
    BY <1>2 DEF PongOnItsWay
  <2>2. i \in 1 .. Len(wire') /\ wire'[i].type = "PINGRESP"
    BY <2>1 DEF Numbers
  <2>3. inAge' = 0 /\ outAge' = 0
    BY <1>2 DEF PongOnItsWay, Numbers
  <2> QED
    BY <2>1, <2>2, <2>3 DEF PongOnItsWay
<1> QED
  BY <1>1, <1>2

LEMMA PingInit == Init => PingInv
BY DEF Init, PingInv

\* A step of time: everything has arrived, and the pause grows as the ages do.
LEMMA PongTick ==
  ASSUME TypeOK, Numbers, Numbers', NoWait, StreamInv, ~lapse, PongArrived \/ PongOnItsWay,
         state = "connected", SocketInv, Tick
  PROVE  PongArrived' \/ PongOnItsWay'
<1>1. link = "up" /\ wire = << >>
  BY DEF Tick, StreamInv, TypeOK
<1>2. PICK i \in 1 .. Len(rx) : /\ i <= MaxQueue + 1 /\ rx[i].type = "PINGRESP"
                                /\ inAge <= Room(i) + Slack
                                /\ outAge <= Room(i) + Slack
  BY <1>1 DEF PongArrived, PongOnItsWay, InTime
<1>3. pc = "idle" /\ pc' = pc /\ pause' = pause + 1
  <2>1. rx # << >>
    BY <1>2
  <2> QED
    BY <2>1 DEF Tick, SocketInv, InConnect
<1>4. inAge' <= inAge + 1 /\ outAge' <= outAge + 1 /\ rx' = rx
  BY Limits DEF Tick, Older, socket, TypeOK
<1>5. i \in 1 .. MaxQueue + 1
  BY <1>2, Limits DEF Numbers
<1>6. Room(i) \in Nat
  BY <1>5, RoomType
<1>7. Slack' = Slack + 1
  BY <1>3 DEF Slack
<1>8. /\ inAge' <= Room(i) + Slack'
      /\ outAge' <= Room(i) + Slack'
  BY <1>2, <1>4, <1>6, <1>7 DEF Numbers
<1> QED
  BY <1>2, <1>4, <1>8 DEF PongArrived, InTime

\* A call of loop() reads a packet: either the answer, or one that lay before it.
LEMMA PongRead ==
  ASSUME TypeOK, Numbers, Numbers', NoWait, ~lapse, PingInv, state = "connected",
         SocketInv, ReadPacket, state' = "connected"
  PROVE  PingInv'
<1>1. /\ pc = "read" /\ caller = "loop" /\ framed /\ tAge = 0 /\ rx # << >>
      /\ outAge' = outAge /\ pause' = pause
  BY DEF ReadPacket, SocketInv, InConnect, TypeOK, NoWait
<1>2. PICK p \in Packets :
        /\ p = rx[1] /\ Dispatch(p)
        /\ p.type # "BADLEN" =>
             /\ Len(rx') = Len(rx) - 1 /\ \A i \in 1 .. Len(rx') : rx'[i] = rx[i + 1]
             /\ wire' = wire
  BY <1>1, PacketRead
<1>3. /\ p.type # "BADLEN" /\ inAge' \in {0, inAge} /\ pc' # "read"
      /\ pingOutstanding' <=> pingOutstanding /\ p.type # "PINGRESP"
  BY <1>1, <1>2 DEF Dispatch
<1>4. Len(rx) \in Nat /\ Len(wire) \in Nat /\ Len(rx') = Len(rx) - 1 /\ Len(rx') \in Nat
  BY <1>2, <1>3 DEF Numbers
<1>5. pingOutstanding' => PongArrived' \/ PongOnItsWay'
  <2> SUFFICES ASSUME pingOutstanding, p.type # "PINGRESP"
               PROVE  PongArrived' \/ PongOnItsWay'
    BY <1>3
  <2>1. CASE PongArrived
    <3>1. PICK i \in 1 .. Len(rx) : /\ i <= MaxQueue + 1 /\ rx[i].type = "PINGRESP"
                                    /\ inAge <= Room(i) + LoopPeriod
                                    /\ outAge <= Room(i) + LoopPeriod
      BY <1>1, <2>1 DEF PongArrived, InTime, Slack
    <3> DEFINE j == i - 1
    <3>2. i # 1
      BY <1>2, <3>1
    <3>3. j \in 1 .. Len(rx') /\ rx'[j].type = "PINGRESP" /\ j <= MaxQueue + 1
      BY <1>2, <1>3, <1>4, <3>1, <3>2, Limits
    <3>4. i \in 1 .. MaxQueue + 1 /\ i > 1
      BY <1>4, <3>1, <3>2, Limits
    <3>5. Room(j) = Room(i) + LoopPeriod /\ Room(j) \in Nat
      BY <3>4, RoomType, Limits
    <3>6. /\ inAge' <= Room(j) + pause'
          /\ outAge' <= Room(j) + pause'
      BY <1>1, <1>3, <3>1, <3>4, <3>5 DEF Numbers
    <3> HIDE DEF j
    <3> QED
      BY <1>3, <3>3, <3>6 DEF PongArrived, InTime, Slack
  <2>2. CASE PongOnItsWay
    BY <1>1, <1>2, <1>3, <1>4, <2>2, Limits DEF PongOnItsWay
  <2> QED
    BY <2>1, <2>2 DEF PingInv
<1>6. Len(rx') + Len(wire') <= MaxQueue + (IF pingOutstanding' THEN 1 ELSE 0)
  BY <1>2, <1>3, <1>4, Limits DEF PingInv
<1> QED
  BY <1>5, <1>6 DEF PingInv

LEMMA PingStep ==
  ASSUME TypeOK, TypeOK', SocketInv, SocketInv', StreamInv, NoWait, NoWait', PingInv, [Next]_vars
  PROVE  PingInv'
<1>1. Numbers /\ Numbers'
  <2>1. Numbers
    BY NumbersType
  <2>2. TypeOK' => Numbers'
    BY NumbersType, PTL
  <2> QED
    BY <2>1, <2>2
<1> SUFFICES ASSUME ~lapse', state' = "connected" PROVE PingInv'
  BY DEF PingInv
<1> USE DEF timers, socket, session, message
\* The steps that keep to the packets and to what is known of them.
<1>2. ASSUME state = "connected", ~lapse, UNCHANGED << rx, wire, pingOutstanding >>,
             inAge' <= inAge, outAge' <= outAge, Slack <= Slack'
      PROVE  PingInv'
  BY <1>1, <1>2, PongKept DEF PingInv, Numbers
\* The steps that put something behind them.
<1>3. ASSUME state = "connected", ~lapse, UNCHANGED << rx, pingOutstanding, pc, pause >>,
             inAge' <= inAge, outAge' <= outAge,
             Len(rx) + Len(wire) < MaxQueue,
             NEW p, wire' = Append(wire, p)
      PROVE  PingInv'
  <2>1. Len(wire') = Len(wire) + 1 /\ \A i \in 1 .. Len(wire) : wire'[i] = wire[i]
    BY <1>3 DEF TypeOK
  <2>2. Slack <= Slack'
    BY <1>1, <1>3 DEF Slack, Numbers
  <2>3. pingOutstanding' => PongArrived' \/ PongOnItsWay'
    BY <1>1, <1>3, <2>1, <2>2, PongKept DEF PingInv, Numbers
  <2>4. Len(rx') + Len(wire') <= MaxQueue + (IF pingOutstanding' THEN 1 ELSE 0)
    BY <1>1, <1>3, <2>1, Limits DEF Numbers
  <2> QED
    BY <2>3, <2>4 DEF PingInv
<1>4. CASE LoopPing
  <2>1. state = "connected" /\ ~lapse /\ framed /\ ~pingOutstanding /\ pingOutstanding'
        /\ rx' = rx /\ inAge' = 0 /\ outAge' = 0
    BY <1>4 DEF LoopPing, NoWait
  <2>2. wire' = Append(wire, Packet("PINGRESP"))
    BY <1>4, <2>1 DEF LoopPing
  <2>3. /\ Len(wire') = Len(wire) + 1
        /\ wire'[Len(wire) + 1].type = "PINGRESP"
    BY <2>2, PacketTypes DEF TypeOK
  <2>4. Len(rx) + Len(wire) <= MaxQueue
    BY <1>1, <2>1, Limits DEF PingInv, Numbers
  <2>5. PongOnItsWay'
    BY <1>1, <2>1, <2>3, <2>4, Limits DEF PongOnItsWay, Numbers
  <2> QED
    BY <1>1, <2>1, <2>3, <2>4, <2>5, Limits DEF PingInv, Numbers
<1>5. CASE LoopQuiet
  <2>1. /\ state = "connected" /\ ~lapse /\ pc = "idle" /\ pause' = 0
        /\ UNCHANGED << rx, wire, pingOutstanding, inAge, outAge >>
        /\ pc' = IF Available THEN "read" ELSE "idle"
    BY <1>5 DEF LoopQuiet, LookForPacket
  <2>2. CASE Available
    <3>1. Slack <= Slack'
      BY <1>1, <2>1, <2>2 DEF Slack, Numbers
    <3> QED
      BY <1>1, <1>2, <2>1, <3>1 DEF Numbers
  <2>3. CASE ~Available
    <3>1. ~PongArrived
      BY <2>3 DEF Available, PongArrived
    <3> QED
      BY <2>1, <3>1 DEF PingInv, PongOnItsWay
  <2> QED
    BY <2>2, <2>3
<1>6. CASE ReadPacket
  <2>1. CASE caller = "connect"
    <3>1. PICK p \in Packets :
            /\ Connack(p)
            /\ p.type = "CONNACK" => Len(rx') < Len(rx) /\ wire' = wire
      BY <1>6, <2>1, PacketRead
    <3>2. pc = "read" /\ state # "connected"
      BY <1>6, <2>1 DEF ReadPacket, SocketInv, InConnect
    <3>3. p.type = "CONNACK" /\ ~pingOutstanding'
      BY <3>1, <3>2 DEF Connack
    <3>4. Len(rx) + Len(wire) <= 1
      BY <2>1, <3>2 DEF StreamInv, InConnect
    <3>5. Len(rx') + Len(wire') <= 0
      BY <1>1, <3>1, <3>3, <3>4 DEF Numbers
    <3> QED
      BY <1>1, <3>3, <3>5, Limits DEF PingInv, Numbers
  <2>2. CASE caller = "loop"
    <3>1. ~lapse /\ pc = "read"
      BY <1>6 DEF ReadPacket
    <3>2. state = "connected"
      BY <2>2, <3>1 DEF SocketInv, InConnect
    <3> QED
      BY <1>1, <1>6, <3>1, <3>2, PongRead
  <2> QED
    BY <2>1, <2>2 DEF TypeOK
<1>7. CASE ReadOn
  BY <1>7 DEF ReadOn, NoWait
<1>8. CASE ReadTimeout
  <2>1. pc = "read" /\ ~lapse /\ waited >= SocketTimeout /\ waited \in Nat
    BY <1>8 DEF ReadTimeout, TypeOK
  <2>2. caller = "connect"
    BY <2>1, Limits DEF NoWait, TypeOK
  <2> QED
    BY <1>8, <2>1, <2>2 DEF ReadTimeout, SocketInv, InConnect
<1>9. CASE Callback
  <2>1. /\ state = "connected" /\ ~lapse /\ pc = "callback" /\ pc' # "read" /\ pause' = pause
        /\ UNCHANGED << rx, wire, pingOutstanding, inAge >> /\ outAge' \in {0, outAge}
    BY <1>9 DEF Callback
  <2>2. inAge' <= inAge /\ outAge' <= outAge /\ Slack <= Slack'
    BY <1>1, <2>1 DEF Slack, Numbers
  <2> QED
    BY <1>2, <2>1, <2>2
<1>10. CASE Ack
  <2>1. /\ state = "connected" /\ ~lapse /\ pc = "ack" /\ pc' = "idle" /\ pause' = pause
        /\ UNCHANGED << rx, wire, pingOutstanding, inAge >> /\ outAge' = tAge
    BY <1>10 DEF Ack
  <2>2. tAge = 0
    BY <2>1 DEF NoWait, SocketInv
  <2>3. inAge' <= inAge /\ outAge' <= outAge /\ Slack <= Slack'
    BY <1>1, <2>1, <2>2 DEF Slack, Numbers
  <2> QED
    BY <1>2, <2>1, <2>3
<1>11. CASE Publish
  <2>1. /\ state = "connected" /\ ~lapse
        /\ UNCHANGED << pc, pause, rx, wire, pingOutstanding, inAge >> /\ outAge' = 0
    BY <1>11 DEF Publish
  <2>2. inAge' <= inAge /\ outAge' <= outAge /\ Slack <= Slack'
    BY <1>1, <2>1 DEF Slack, Numbers
  <2> QED
    BY <1>2, <2>1, <2>2
<1>12. CASE Subscribe
  <2>1. /\ state = "connected" /\ ~lapse
        /\ UNCHANGED << pc, pause, rx, pingOutstanding, inAge >> /\ outAge' = 0
        /\ Len(wire) + Len(rx) < MaxQueue /\ wire' = Append(wire, Packet("OTHER"))
    BY <1>12, PacketTypes, SentType DEF Subscribe, Space, NoWait, TypeOK
  <2> QED
    BY <1>1, <1>3, <2>1 DEF Numbers
<1>13. CASE BrokerSend
  <2>1. /\ state = "connected" /\ ~lapse /\ framed
        /\ UNCHANGED << pc, pause, rx, pingOutstanding, inAge, outAge >>
        /\ Len(wire) + Len(rx) < MaxQueue
    BY <1>13 DEF BrokerSend, Space, NoWait
  <2>2. PICK p : wire' = Append(wire, p)
    <3>1. PICK p \in Packets : wire' = wire \o Sent(p)
      BY <1>13, PacketTypes DEF BrokerSend
    <3>2. wire \in Seq(Packets)
      BY DEF TypeOK
    <3> QED
      BY <2>1, <3>1, <3>2, SentType
  <2> QED
    BY <1>1, <1>3, <2>1, <2>2 DEF Numbers
<1>14. CASE Arrive
  <2>1. /\ state = "connected" /\ ~lapse
        /\ UNCHANGED << pc, pause, pingOutstanding, inAge, outAge >>
        /\ wire # << >> /\ rx' = Append(rx, Head(wire)) /\ wire' = Tail(wire)
    BY <1>14 DEF Arrive
  <2>2. /\ Len(rx') = Len(rx) + 1 /\ Len(wire') = Len(wire) - 1
        /\ \A i \in 1 .. Len(rx) : rx'[i] = rx[i]
        /\ rx'[Len(rx) + 1] = wire[1]
        /\ \A i \in 1 .. Len(wire') : wire'[i] = wire[i + 1]
    <3>1. rx \in Seq(Packets) /\ wire \in Seq(Packets) /\ wire # << >> /\ Head(wire) = wire[1]
      BY <2>1 DEF TypeOK
    <3>2. /\ Len(rx') = Len(rx) + 1 /\ \A i \in 1 .. Len(rx) : rx'[i] = rx[i]
          /\ rx'[Len(rx) + 1] = wire[1]
      BY <2>1, <3>1
    <3>3. Len(wire') = Len(wire) - 1 /\ \A i \in 1 .. Len(wire') : wire'[i] = wire[i + 1]
      BY <2>1, <3>1, HeadTailProperties
    <3> QED
      BY <3>2, <3>3
  <2>3. Slack' = Slack
    BY <2>1 DEF Slack
  <2>4. PongArrived => PongArrived'
    BY <1>1, <2>1, <2>2, <2>3 DEF PongArrived, InTime, Numbers
  <2>5. PongOnItsWay => PongArrived' \/ PongOnItsWay'
    <3> SUFFICES ASSUME PongOnItsWay PROVE PongArrived' \/ PongOnItsWay'
      OBVIOUS
    <3>1. PICK i \in 1 .. Len(wire) : Len(rx) + i <= MaxQueue + 1 /\ wire[i].type = "PINGRESP"
      BY DEF PongOnItsWay
    <3>2. CASE i = 1
      <4>1. PICK k \in 1 .. MaxQueue + 1 : k = Len(rx) + 1 /\ k \in 1 .. Len(rx')
        BY <1>1, <2>2, <3>1, <3>2, Limits DEF Numbers
      <4>2. Room(k) \in Nat
        BY <4>1, RoomType
      <4>3. 0 <= Room(k) + Slack'
        BY <1>1, <4>2 DEF Numbers
      <4>4. inAge' = 0 /\ outAge' = 0 /\ rx'[k].type = "PINGRESP"
        BY <2>1, <2>2, <3>1, <3>2, <4>1 DEF PongOnItsWay
      <4> QED
        BY <4>1, <4>3, <4>4 DEF PongArrived, InTime
    <3>3. CASE i # 1
      <4>1. PICK j \in 1 .. Len(wire') : i = j + 1
        BY <1>1, <2>2, <3>1, <3>3 DEF Numbers
      <4>2. wire'[j].type = "PINGRESP" /\ Len(rx') + j <= MaxQueue + 1
        BY <1>1, <2>2, <3>1, <4>1, Limits DEF Numbers
      <4> QED
        BY <2>1, <4>1, <4>2 DEF PongOnItsWay
    <3> QED
      BY <3>2, <3>3
  <2> QED
    BY <1>1, <2>1, <2>2, <2>4, <2>5, Limits DEF PingInv, Numbers
<1>15. CASE ArrivePart
  <2>1. /\ state = "connected" /\ ~lapse
        /\ UNCHANGED << pc, pause, rx, wire, pingOutstanding, inAge, outAge >>
    BY <1>15 DEF ArrivePart
  <2> QED
    BY <2>1 DEF PingInv, PongArrived, PongOnItsWay, InTime, Slack
<1>16. CASE Tick
  <2>1. state = "connected" /\ ~lapse /\ UNCHANGED << rx, wire, pingOutstanding >>
    BY <1>16 DEF Tick
  <2> QED
    BY <1>1, <1>16, <2>1, PongTick DEF PingInv
<1>17. CASE NoticeLost \/ ConnectFails \/ ConnectTooLong \/ ConnectSent \/ ConnackCame
            \/ ConnackTimeout \/ LoopTimeout \/ Disconnect
  BY <1>17 DEF NoticeLost, ConnectFails, ConnectTooLong, ConnectSent, ConnackCame,
               ConnackTimeout, LoopTimeout, Disconnect, SocketInv, InConnect
<1>18. CASE Stall \/ Resume \/ Break
  BY <1>18 DEF Stall, Resume, Break, StreamInv
<1>19. CASE UNCHANGED vars
  BY <1>19 DEF vars, PingInv, PongArrived, PongOnItsWay, InTime, Slack
<1> QED
  BY <1>4, <1>5, <1>6, <1>7, <1>8, <1>9, <1>10, <1>11, <1>12, <1>13, <1>14, <1>15, <1>16,
     <1>17, <1>18, <1>19
  DEF Next, InCall, Calls, LoopCall, Surroundings

-----------------------------------------------------------------------------
(* What the sketch sees                                                    *)

\* The callback has a message just while it runs or its acknowledgement is due,
\* and loop() still has the id of that message.
HandInv ==
  IF pc \in {"callback", "ack"}
  THEN handing \in Messages /\ handing.id = msgId /\ (pc = "ack" => msgId # 0)
  ELSE handing = NoMessage

LEMMA HandStep == TypeOK /\ HandInv /\ [Next]_vars => HandInv'
<1> SUFFICES ASSUME TypeOK, HandInv, [Next]_vars PROVE HandInv'
  OBVIOUS
<1> USE DEF HandInv, message
<1>1. CASE ReadPacket
  <2>1. PICK p \in Packets : IF caller = "connect" THEN Connack(p) ELSE Dispatch(p)
    BY <1>1, PacketRead
  <2>2. pc = "read" /\ handing = NoMessage
    BY <1>1 DEF ReadPacket
  <2>3. ASSUME Connack(p) PROVE HandInv'
    BY <2>2, <2>3 DEF Connack
  <2>4. ASSUME Dispatch(p) PROVE HandInv'
    BY <2>2, <2>4, PacketTypes DEF Dispatch
  <2> QED
    BY <2>1, <2>3, <2>4
<1>2. CASE ConnackCame \/ ConnackTimeout \/ ReadOn \/ ReadTimeout
  BY <1>2 DEF ConnackCame, ConnackTimeout, ReadOn, ReadTimeout
<1>3. CASE Callback
  BY <1>3 DEF Callback
<1>4. CASE Ack
  BY <1>4 DEF Ack
<1>5. CASE Calls
  BY <1>5 DEF Calls, LoopCall, NoticeLost, ConnectFails, ConnectTooLong, ConnectSent,
              LoopTimeout, LoopPing, LoopQuiet, LookForPacket, Publish, Subscribe, Disconnect
<1>6. CASE Surroundings
  BY <1>6 DEF Surroundings, BrokerSend, Arrive, ArrivePart, Stall, Resume, Break, Tick
<1>7. CASE UNCHANGED vars
  BY <1>7 DEF vars
<1> QED
  BY <1>1, <1>2, <1>3, <1>4, <1>5, <1>6, <1>7 DEF Next, InCall

\* The four variables of the session, open and closed.
LEMMA SessionView ==
  /\ ~IsOpen => /\ SessionOpen = "closed" /\ SessionQueue = << >>
                /\ SessionLast = NoMessage /\ SessionAcked = 0
  /\ IsOpen  => /\ SessionOpen = IF Alive THEN "open" ELSE "cut"
                /\ SessionQueue = Concern(rx \o wire)
                /\ SessionLast = handing /\ SessionAcked = acked
BY DEF SessionOpen, SessionQueue, SessionLast, SessionAcked

Concerns == Messages \cup {NoMessage}

LEMMA ConcernType ==
  \A q \in Seq(Packets) :
    /\ Concern(q) \in Seq(Concerns) /\ Len(Concern(q)) = Len(q)
    /\ \A i \in 1 .. Len(q) :
         Concern(q)[i] = IF q[i].type = "PUBLISH" THEN q[i] ELSE NoMessage
<1> SUFFICES ASSUME NEW q \in Seq(Packets)
             PROVE  /\ Concern(q) \in Seq(Concerns) /\ Len(Concern(q)) = Len(q)
                    /\ \A i \in 1 .. Len(q) :
                         Concern(q)[i] = IF q[i].type = "PUBLISH" THEN q[i] ELSE NoMessage
  OBVIOUS
<1>1. Concern(q) = [i \in 1 .. Len(q) |-> IF q[i].type = "PUBLISH" THEN q[i] ELSE NoMessage]
  BY DEF Concern
<1>2. \A i \in 1 .. Len(q) : (IF q[i].type = "PUBLISH" THEN q[i] ELSE NoMessage) \in Concerns
  BY PacketTypes DEF Concerns
<1> QED
  BY <1>1, <1>2

LEMMA ConcernEqual ==
  \A s, t \in Seq(Concerns) :
    Len(s) = Len(t) /\ (\A i \in 1 .. Len(s) : s[i] = t[i]) => s = t
BY SeqEqual

\* One packet more at the end is one entry more.
LEMMA ConcernAppend ==
  ASSUME NEW q \in Seq(Packets), NEW p \in Packets
  PROVE  \E m \in Concerns : Concern(Append(q, p)) = Append(Concern(q), m)
<1>1. PICK m \in Concerns : m = IF p.type = "PUBLISH" THEN p ELSE NoMessage
  <2>1. (IF p.type = "PUBLISH" THEN p ELSE NoMessage) \in Concerns
    BY PacketTypes DEF Concerns
  <2> QED
    BY <2>1
<1>2. PICK c \in Seq(Packets) : c = Append(q, p)
  <2>1. Append(q, p) \in Seq(Packets)
    OBVIOUS
  <2> QED
    BY <2>1
<1>3. /\ Len(q) \in Nat /\ Len(c) = Len(q) + 1
      /\ c[Len(q) + 1] = p /\ \A i \in 1 .. Len(q) : c[i] = q[i]
  BY <1>2
<1>4. /\ Concern(q) \in Seq(Concerns) /\ Len(Concern(q)) = Len(q)
      /\ Concern(c) \in Seq(Concerns) /\ Len(Concern(c)) = Len(q) + 1
      /\ \A i \in 1 .. Len(q) : Concern(c)[i] = Concern(q)[i]
      /\ Concern(c)[Len(q) + 1] = m
  BY <1>1, <1>3, ConcernType
<1>5. PICK d \in Seq(Concerns) : d = Append(Concern(q), m)
  BY <1>4
<1>6. /\ Len(d) = Len(q) + 1 /\ d[Len(q) + 1] = m
      /\ \A i \in 1 .. Len(q) : d[i] = Concern(q)[i]
  BY <1>4, <1>5
<1>7. \A i \in 1 .. Len(q) + 1 : Concern(c)[i] = d[i]
  BY <1>3, <1>4, <1>6
<1>8. Concern(c) = d
  BY <1>4, <1>6, <1>7, ConcernEqual
<1> QED
  BY <1>2, <1>5, <1>8

\* Without the first packet: without the first entry.
LEMMA ConcernTail ==
  ASSUME NEW q \in Seq(Packets), NEW c \in Seq(Packets), q # << >>,
         Len(c) = Len(q) - 1, \A i \in 1 .. Len(c) : c[i] = q[i + 1]
  PROVE  /\ Concern(q) # << >> /\ Concern(c) = Tail(Concern(q))
         /\ Head(Concern(q)) = IF q[1].type = "PUBLISH" THEN q[1] ELSE NoMessage
<1>1. Len(q) \in Nat /\ Len(q) > 0
  OBVIOUS
<1>2. /\ Concern(q) \in Seq(Concerns) /\ Len(Concern(q)) = Len(q)
      /\ Concern(c) \in Seq(Concerns) /\ Len(Concern(c)) = Len(q) - 1
      /\ Concern(q)[1] = IF q[1].type = "PUBLISH" THEN q[1] ELSE NoMessage
  BY <1>1, ConcernType
<1>3. ASSUME NEW i \in 1 .. Len(q) - 1 PROVE Concern(c)[i] = Concern(q)[i + 1]
  <2>1. i \in 1 .. Len(c) /\ i + 1 \in 1 .. Len(q) /\ c[i] = q[i + 1]
    BY <1>1
  <2> QED
    BY <2>1, ConcernType
<1>4. Concern(q) # << >> /\ Head(Concern(q)) = Concern(q)[1]
  BY <1>1, <1>2
<1>5. /\ Tail(Concern(q)) \in Seq(Concerns) /\ Len(Tail(Concern(q))) = Len(q) - 1
      /\ \A i \in 1 .. Len(q) - 1 : Tail(Concern(q))[i] = Concern(q)[i + 1]
  BY <1>2, <1>4, HeadTailProperties
<1>6. Concern(c) = Tail(Concern(q))
  <2>1. PICK d \in Seq(Concerns) : d = Tail(Concern(q))
    BY <1>5
  <2>2. Len(d) = Len(Concern(c)) /\ \A i \in 1 .. Len(Concern(c)) : Concern(c)[i] = d[i]
    BY <1>1, <1>2, <1>3, <1>5, <2>1
  <2> QED
    BY <1>2, <2>1, <2>2, ConcernEqual
<1> QED
  BY <1>2, <1>4, <1>6

\* Without what has not arrived: a beginning.
LEMMA ConcernPrefix ==
  ASSUME NEW q \in Seq(Packets), NEW r \in Seq(Packets),
         Len(r) <= Len(q), \A i \in 1 .. Len(r) : r[i] = q[i]
  PROVE  \E n \in 0 .. Len(Concern(q)) : Concern(r) = SubSeq(Concern(q), 1, n)
<1>1. Len(q) \in Nat /\ Len(r) \in Nat
  OBVIOUS
<1>2. /\ Concern(q) \in Seq(Concerns) /\ Len(Concern(q)) = Len(q)
      /\ Concern(r) \in Seq(Concerns) /\ Len(Concern(r)) = Len(r)
  BY ConcernType
<1>3. \A i \in 1 .. Len(r) : Concern(r)[i] = Concern(q)[i] /\ Concern(q)[i] \in Concerns
  BY <1>1, <1>2, ConcernType
<1>4. /\ SubSeq(Concern(q), 1, Len(r)) \in Seq(Concerns)
      /\ Len(SubSeq(Concern(q), 1, Len(r))) = Len(r)
      /\ \A i \in 1 .. Len(r) : SubSeq(Concern(q), 1, Len(r))[i] = Concern(q)[i]
  BY <1>1, <1>3, SubSeqProperties
<1>5. Concern(r) = SubSeq(Concern(q), 1, Len(r))
  BY <1>2, <1>3, <1>4, ConcernEqual
<1> QED
  BY <1>1, <1>2, <1>5

\* Closed on both sides, or closed by the step.
LEMMA ClosedMaps ==
  ~IsOpen' => Session!Next \/ UNCHANGED Session!sessionVars
<1> SUFFICES ASSUME ~IsOpen' PROVE Session!Next \/ UNCHANGED Session!sessionVars
  OBVIOUS
<1>1. /\ SessionOpen' = "closed" /\ SessionQueue' = << >>
      /\ SessionLast' = NoMessage /\ SessionAcked' = 0
  BY DEF SessionOpen, SessionQueue, SessionLast, SessionAcked
<1>2. CASE IsOpen
  <2>1. SessionOpen # "closed"
    BY <1>2, SessionView
  <2> QED
    BY <1>1, <2>1 DEF Session!Next, Session!Close, Session!Fresh
<1>3. CASE ~IsOpen
  BY <1>1, <1>3, SessionView DEF Session!sessionVars
<1> QED
  BY <1>2, <1>3

\* A socket that was just closed is no session.
LEMMA StopCloses == SocketInv' /\ Stop => ~IsOpen'
BY StopType DEF SocketInv, InConnect, IsOpen

\* The steps that neither move a packet nor touch what the callback has.
LEMMA StutterMaps ==
  ASSUME IsOpen, IsOpen', rx' \o wire' = rx \o wire, Alive' = Alive, UNCHANGED << handing, acked >>
  PROVE  UNCHANGED Session!sessionVars
<1>1. /\ SessionOpen' = IF Alive' THEN "open" ELSE "cut"
      /\ SessionQueue' = Concern(rx' \o wire')
      /\ SessionLast' = handing' /\ SessionAcked' = acked'
  BY DEF SessionOpen, SessionQueue, SessionLast, SessionAcked
<1> QED
  BY <1>1, SessionView DEF Session!sessionVars

\* A packet more on its way.
LEMMA SendMaps ==
  ASSUME TypeOK, IsOpen, IsOpen', Alive, UNCHANGED << link, rx, handing, acked >>,
         NEW p \in Packets, wire' = Append(wire, p)
  PROVE  Session!Next
<1>1. /\ SessionOpen' = "open" /\ SessionQueue' = Concern(rx' \o wire')
      /\ SessionLast' = handing' /\ SessionAcked' = acked'
  BY DEF SessionOpen, SessionQueue, SessionLast, SessionAcked, Alive
<1>2. rx \in Seq(Packets) /\ wire \in Seq(Packets)
  BY DEF TypeOK
<1>3. PICK q \in Seq(Packets) : q = rx \o wire
  <2>1. rx \o wire \in Seq(Packets)
    BY <1>2, ConcatProperties
  <2> QED
    BY <2>1
<1>4. rx' \o wire' = Append(q, p)
  BY <1>2, <1>3
<1>5. PICK m \in Concerns : Concern(rx' \o wire') = Append(Concern(q), m)
  BY <1>4, ConcernAppend
<1>6. SessionOpen = "open" /\ SessionQueue' = Append(SessionQueue, m)
  BY <1>1, <1>3, <1>5, SessionView
<1>7. UNCHANGED << SessionOpen, SessionLast, SessionAcked >>
  BY <1>1, <1>6, SessionView
<1>8. Session!Send
  BY <1>6, <1>7 DEF Session!Send, Concerns
<1> QED
  BY <1>8 DEF Session!Next

LEMMA BreakMaps ==
  ASSUME TypeOK, Break, IsOpen
  PROVE  Session!Next
<1>1. /\ Alive /\ ~Alive' /\ wire' = << >>
      /\ UNCHANGED << rx, state, framed, handing, acked >>
  BY DEF Break, Alive, session, message
<1>2. /\ SessionOpen' = "cut" /\ SessionQueue' = Concern(rx \o << >>)
      /\ SessionLast' = handing /\ SessionAcked' = acked
  BY <1>1 DEF SessionOpen, SessionQueue, SessionLast, SessionAcked, IsOpen
<1>3. rx \in Seq(Packets) /\ wire \in Seq(Packets)
  BY DEF TypeOK
<1>4. PICK q \in Seq(Packets) : q = rx \o wire
  <2>1. rx \o wire \in Seq(Packets)
    BY <1>3, ConcatProperties
  <2> QED
    BY <2>1
<1>5. Len(rx) <= Len(q) /\ \A i \in 1 .. Len(rx) : rx[i] = q[i]
  BY <1>3, <1>4, ConcatProperties
<1>6. rx \o << >> = rx
  BY <1>3, ConcatEmptySeq
<1>7. PICK n \in 0 .. Len(Concern(q)) : Concern(rx) = SubSeq(Concern(q), 1, n)
  BY <1>3, <1>5, ConcernPrefix
<1>8. SessionOpen = "open" /\ SessionQueue = Concern(q)
  BY <1>1, <1>4, SessionView
<1>9. UNCHANGED << SessionLast, SessionAcked >>
  BY <1>2, SessionView
<1>10. Session!CutOff
  BY <1>2, <1>6, <1>7, <1>8, <1>9 DEF Session!CutOff
<1> QED
  BY <1>10 DEF Session!Next

\* The answer that opens a session is the only packet there is.
LEMMA AcceptedMaps ==
  ASSUME TypeOK, StreamInv, HandInv, ReadPacket, caller = "connect", ~IsOpen, IsOpen',
         SocketInv'
  PROVE  Session!Next
<1>1. PICK p \in Packets :
        /\ Connack(p)
        /\ IF p.type = "BADLEN" \/ p.type # "CONNACK"
           THEN Stop
           ELSE /\ rx' \in Seq(Packets) /\ (framed => Len(rx') = Len(rx) - 1)
                /\ UNCHANGED << link, wire, torn, framed >>
  BY PacketRead
<1>2. p.type = "CONNACK"
  BY <1>1, StopCloses
<1>3. framed /\ Len(rx) + Len(wire) <= 1 /\ handing = NoMessage
  BY DEF StreamInv, InConnect, ReadPacket, HandInv
<1>4. /\ rx \in Seq(Packets) /\ wire \in Seq(Packets) /\ rx # << >>
      /\ Len(rx) \in Nat /\ Len(wire) \in Nat /\ Len(rx) > 0
  BY DEF TypeOK, ReadPacket
<1>5. rx' = << >> /\ wire' = << >>
  <2>1. wire' = wire /\ rx' \in Seq(Packets) /\ Len(rx') = Len(rx) - 1
    BY <1>1, <1>2, <1>3
  <2>2. Len(rx') = 0 /\ Len(wire) = 0
    BY <1>3, <1>4, <2>1
  <2> QED
    BY <1>4, <2>1, <2>2
<1>6. acked' = 0 /\ handing' = NoMessage
  BY <1>1, <1>2, <1>3 DEF Connack
<1>7. Concern(<< >> \o << >>) = << >>
  <2>1. << >> \in Seq(Packets) /\ << >> \o << >> = << >>
    OBVIOUS
  <2>2. Concern(<< >>) \in Seq(Concerns) /\ Len(Concern(<< >>)) = 0
    BY <2>1, ConcernType
  <2> QED
    BY <2>1, <2>2
<1>8. /\ SessionOpen' \in {"open", "cut"} /\ SessionQueue' = << >>
      /\ SessionLast' = NoMessage /\ SessionAcked' = 0
  BY <1>5, <1>6, <1>7 DEF SessionOpen, SessionQueue, SessionLast, SessionAcked
<1>9. Session!Open
  BY <1>8, SessionView DEF Session!Open, Session!Fresh
<1> QED
  BY <1>9 DEF Session!Next

\* loop() reads a packet: the first of those that wait.
LEMMA ReadMaps ==
  ASSUME TypeOK, HandInv, ReadPacket, caller = "loop", IsOpen, IsOpen', SocketInv'
  PROVE  Session!Next
<1>1. PICK p \in Packets :
        /\ p = rx[1] /\ Dispatch(p)
        /\ IF p.type = "BADLEN"
           THEN Stop
           ELSE /\ rx' \in Seq(Packets) /\ Len(rx') = Len(rx) - 1
                /\ \A i \in 1 .. Len(rx') : rx'[i] = rx[i + 1]
                /\ UNCHANGED << link, wire, torn, framed >>
  BY PacketRead DEF IsOpen
<1>2. p.type # "BADLEN"
  BY <1>1, StopCloses
<1>3. handing = NoMessage /\ rx # << >>
  BY DEF ReadPacket, HandInv
<1>4. /\ rx \in Seq(Packets) /\ wire \in Seq(Packets) /\ rx' \in Seq(Packets)
      /\ Len(rx) \in Nat /\ Len(rx) > 0 /\ Len(wire) \in Nat
  BY <1>1, <1>2, <1>3 DEF TypeOK
<1>5. /\ rx \o wire \in Seq(Packets) /\ rx' \o wire \in Seq(Packets)
      /\ rx \o wire # << >> /\ (rx \o wire)[1] = rx[1]
      /\ Len(rx' \o wire) = Len(rx \o wire) - 1
      /\ \A i \in 1 .. Len(rx' \o wire) : (rx' \o wire)[i] = (rx \o wire)[i + 1]
  <2>1. PICK q \in Seq(Packets) : q = rx \o wire
    <3>1. rx \o wire \in Seq(Packets)
      BY <1>4, ConcatProperties
    <3> QED
      BY <3>1
  <2>2. PICK c \in Seq(Packets) : c = rx' \o wire
    <3>1. rx' \o wire \in Seq(Packets)
      BY <1>4, ConcatProperties
    <3> QED
      BY <3>1
  <2>3. /\ Len(q) = Len(rx) + Len(wire)
        /\ \A i \in 1 .. Len(rx) + Len(wire) :
             q[i] = IF i <= Len(rx) THEN rx[i] ELSE wire[i - Len(rx)]
    BY <1>4, <2>1, ConcatProperties
  <2>4. /\ Len(c) = Len(rx') + Len(wire)
        /\ \A i \in 1 .. Len(rx') + Len(wire) :
             c[i] = IF i <= Len(rx') THEN rx'[i] ELSE wire[i - Len(rx')]
    BY <1>4, <2>2, ConcatProperties
  <2>5. Len(rx') = Len(rx) - 1 /\ \A i \in 1 .. Len(rx') : rx'[i] = rx[i + 1]
    BY <1>1, <1>2
  <2>6. q # << >> /\ q[1] = rx[1] /\ Len(c) = Len(q) - 1
    BY <1>4, <2>3, <2>4, <2>5
  <2>7. ASSUME NEW i \in 1 .. Len(c) PROVE c[i] = q[i + 1]
    <3>1. i \in 1 .. Len(rx') + Len(wire) /\ i + 1 \in 1 .. Len(rx) + Len(wire)
      BY <1>4, <2>4, <2>5
    <3>2. CASE i <= Len(rx')
      BY <1>4, <2>3, <2>4, <2>5, <3>1, <3>2
    <3>3. CASE ~(i <= Len(rx'))
      <4>1. i - Len(rx') = (i + 1) - Len(rx) /\ ~(i + 1 <= Len(rx))
        BY <1>4, <2>5, <3>1, <3>3
      <4> QED
        BY <2>3, <2>4, <3>1, <3>3, <4>1
    <3> QED
      BY <3>2, <3>3
  <2> QED
    BY <2>1, <2>2, <2>6, <2>7
<1>6. /\ SessionQueue # << >> /\ SessionQueue' = Tail(SessionQueue)
      /\ Head(SessionQueue) = IF p.type = "PUBLISH" THEN p ELSE NoMessage
  <2>1. SessionQueue = Concern(rx \o wire)
    BY SessionView
  <2>2. SessionQueue' = Concern(rx' \o wire)
    BY <1>1, <1>2 DEF SessionQueue
  <2> QED
    BY <1>1, <1>5, <2>1, <2>2, ConcernTail
<1>7. /\ SessionLast' = IF p.type = "PUBLISH" /\ p.fits THEN p ELSE NoMessage
      /\ SessionAcked' = acked
  BY <1>1, <1>3 DEF SessionLast, SessionAcked, Dispatch
<1>8. /\ SessionOpen # "closed" /\ SessionLast = NoMessage /\ SessionOpen' = SessionOpen
      /\ SessionAcked' = SessionAcked
  <2>1. SessionOpen' = IF Alive' THEN "open" ELSE "cut"
    BY DEF SessionOpen
  <2>2. Alive' = Alive
    BY <1>1, <1>2 DEF Alive
  <2> QED
    BY <1>3, <1>7, <2>1, <2>2, SessionView
<1>9. SessionLast' = IF Head(SessionQueue) # NoMessage /\ Head(SessionQueue).fits
                     THEN Head(SessionQueue) ELSE NoMessage
  <2>1. p.type = "PUBLISH" => p # NoMessage
    BY PacketTypes, ClientAssumption
  <2> QED
    BY <1>6, <1>7, <2>1
<1>10. Session!Hand
  BY <1>6, <1>8, <1>9 DEF Session!Hand
<1> QED
  BY <1>10 DEF Session!Next

\* The callback is over: with the acknowledgement, if there is one.
LEMMA DoneMaps ==
  ASSUME HandInv, IsOpen, IsOpen', UNCHANGED << link, rx, wire >>,
         \/ pc = "callback" /\ msgId = 0 /\ handing' = NoMessage /\ acked' = acked
         \/ pc = "ack" /\ handing' = NoMessage /\ acked' = IF Alive THEN msgId ELSE acked
  PROVE  Session!Next
<1>1. handing # NoMessage /\ handing.id = msgId
  BY ClientAssumption DEF HandInv
<1>2. /\ SessionOpen' = IF Alive' THEN "open" ELSE "cut"
      /\ SessionQueue' = Concern(rx \o wire)
      /\ SessionLast' = NoMessage /\ SessionAcked' = acked'
  BY DEF SessionOpen, SessionQueue, SessionLast, SessionAcked
<1>3. Alive' = Alive
  BY DEF Alive
<1>4. UNCHANGED << SessionOpen, SessionQueue >>
  BY <1>2, <1>3, SessionView
<1>5. acked' = IF msgId # 0 /\ Alive THEN msgId ELSE acked
  BY DEF HandInv
<1>6. Session!Done
  BY <1>1, <1>2, <1>4, <1>5, SessionView DEF Session!Done
<1> QED
  BY <1>6 DEF Session!Next

LEMMA SessionInitMaps == Init => Session!Init
<1> SUFFICES ASSUME Init PROVE Session!Init
  OBVIOUS
<1>1. ~IsOpen
  BY DEF Init, IsOpen
<1> QED
  BY <1>1, SessionView DEF Session!Init

LEMMA SessionStepMaps ==
  TypeOK /\ SocketInv /\ StreamInv /\ HandInv /\ SocketInv' /\ [Next]_vars
    => [Session!Next]_(Session!sessionVars)
<1> SUFFICES ASSUME TypeOK, SocketInv, StreamInv, HandInv, SocketInv', [Next]_vars
             PROVE  Session!Next \/ UNCHANGED Session!sessionVars
  OBVIOUS
<1> USE DEF timers, socket, session, message
<1>1. CASE ~IsOpen'
  BY <1>1, ClosedMaps
<1>2. CASE IsOpen'
  <2> USE <1>2
  <2>1. CASE ~IsOpen
    <3>1. framed /\ state # "connected"
      <4>1. ~framed => ~framed'
        BY StopCloses
        DEF Next, InCall, Calls, LoopCall, Surroundings, vars, ConnackCame, ConnackTimeout,
            ReadPacket, ReadOn, ReadTimeout, Callback, Ack, NoticeLost, ConnectFails,
            ConnectTooLong, ConnectSent, LoopTimeout, LoopPing, LoopQuiet, Publish,
            Subscribe, Disconnect, BrokerSend, Arrive, ArrivePart, Stall, Resume, Break, Tick
      <4> QED
        BY <2>1, <4>1 DEF IsOpen
    <3>2. state' = "connected"
      BY DEF IsOpen
    <3>3. ReadPacket
      BY <3>1, <3>2, StopCloses
      DEF Next, InCall, Calls, LoopCall, Surroundings, vars, ConnackCame, ConnackTimeout,
          ReadOn, ReadTimeout, Callback, Ack, NoticeLost, ConnectFails,
          ConnectTooLong, ConnectSent, LoopTimeout, LoopPing, LoopQuiet, Publish,
          Subscribe, Disconnect, BrokerSend, Arrive, ArrivePart, Stall, Resume, Break, Tick
    <3>4. caller = "connect"
      BY <3>1, <3>3 DEF ReadPacket, SocketInv, InConnect, TypeOK
    <3> QED
      BY <2>1, <3>3, <3>4, AcceptedMaps
  <2>2. CASE IsOpen
    <3> USE <2>2
    <3>1. state = "connected" /\ link # "none" /\ framed /\ ~InConnect /\ ~Stop
      BY StopCloses DEF IsOpen, SocketInv
    <3>2. CASE ReadPacket
      BY <3>1, <3>2, ReadMaps DEF ReadPacket, InConnect, TypeOK
    <3>3. CASE Callback
      <4>1. UNCHANGED socket
        BY <3>1, <3>3 DEF Callback
      <4>2. CASE msgId = 0
        BY <3>3, <4>1, <4>2, DoneMaps DEF Callback
      <4>3. CASE msgId # 0
        BY <3>3, <4>1, <4>3, StutterMaps DEF Callback, Alive
      <4> QED
        BY <4>2, <4>3
    <3>4. CASE Ack
      BY <3>4, DoneMaps DEF Ack
    <3>5. CASE LoopPing
      <4>1. wire' = Append(wire, Packet("PINGRESP")) /\ Packet("PINGRESP") \in Packets
        BY <3>1, <3>5, PacketTypes DEF LoopPing, IsOpen
      <4> QED
        BY <3>5, <4>1, SendMaps DEF LoopPing, Up
    <3>6. CASE Subscribe
      <4>1. wire' = Append(wire, Packet("OTHER")) /\ Packet("OTHER") \in Packets
        BY <3>1, <3>6, PacketTypes, SentType DEF Subscribe, IsOpen, TypeOK
      <4> QED
        BY <3>6, <4>1, SendMaps DEF Subscribe, Up
    <3>7. CASE BrokerSend
      <4>1. PICK p \in Packets : wire' = Append(wire, p)
        <5>1. PICK p \in Packets : wire' = wire \o Sent(p)
          BY <3>7, PacketTypes DEF BrokerSend
        <5>2. wire \in Seq(Packets) /\ framed
          BY <3>1 DEF TypeOK, IsOpen
        <5> QED
          BY <5>1, <5>2, SentType
      <4> QED
        BY <3>7, <4>1, SendMaps DEF BrokerSend, Up
    <3>8. CASE Arrive
      <4>1. rx' \o wire' = rx \o wire
        <5>1. rx \in Seq(Packets) /\ wire \in Seq(Packets) /\ wire # << >>
          BY <3>8 DEF TypeOK, Arrive
        <5>2. rx' = rx \o << Head(wire) >> /\ wire' = Tail(wire)
              /\ << Head(wire) >> \in Seq(Packets) /\ Tail(wire) \in Seq(Packets)
          BY <3>8, <5>1 DEF Arrive
        <5>3. wire = << Head(wire) >> \o Tail(wire)
          BY <5>1
        <5> QED
          BY <5>1, <5>2, <5>3, ConcatAssociative
      <4> QED
        BY <3>8, <4>1, StutterMaps DEF Arrive, Alive
    <3>9. CASE Break
      BY <3>9, BreakMaps
    <3>10. CASE LoopQuiet \/ Publish \/ ArrivePart \/ Stall \/ Resume \/ Tick
      BY <3>10, StutterMaps
      DEF LoopQuiet, LookForPacket, Publish, ArrivePart, Stall, Resume, Tick, Alive
    <3>11. CASE UNCHANGED vars
      BY <3>11, StutterMaps DEF vars, Alive
    <3>12. ~ReadTimeout /\ ~ReadOn
      BY <3>1 DEF ReadTimeout, ReadOn, IsOpen
    <3>13. ~ConnackCame /\ ~ConnackTimeout
      BY <3>1 DEF ConnackCame, ConnackTimeout, InConnect
    <3>14. ~NoticeLost /\ ~ConnectFails /\ ~ConnectTooLong /\ ~ConnectSent
           /\ ~LoopTimeout /\ ~Disconnect
      BY <3>1 DEF NoticeLost, ConnectFails, ConnectTooLong, ConnectSent, LoopTimeout, Disconnect
    <3> QED
      BY <3>2, <3>3, <3>4, <3>5, <3>6, <3>7, <3>8, <3>9, <3>10, <3>11, <3>12, <3>13, <3>14
      DEF Next, InCall, Calls, LoopCall, Surroundings
  <2> QED
    BY <2>1, <2>2
<1> QED
  BY <1>1, <1>2

-----------------------------------------------------------------------------
(* A connection that has gone silent                                       *)

Hung == Up /\ link = "stalled"

\* What has arrived and is still to be read, by one call of loop() each at most:
\* packets, or pieces of two bytes, the shortest that readPacket() returns, once
\* the client has lost its place in the stream.
Unread == Len(rx) + (IF torn THEN 1 ELSE 0)

\* The longest that loop() lets pass before it notices a silence, the rest of
\* that now, and the time until it gives up if nothing is left to read.
Period     == KeepAlive + 1 + LoopPeriod
ThisPeriod == IF inAge > KeepAlive THEN LoopPeriod - pause
                                   ELSE KeepAlive + 1 - inAge + LoopPeriod
TimeLeft   == IF pingOutstanding THEN ThisPeriod ELSE ThisPeriod + Period

\* The time until the next packet is read, or the connection given up.
Patience ==
  IF pc = "read" THEN 2 * Period + (SocketTimeout - waited)
  ELSE IF Unread = 0 THEN TimeLeft
  ELSE TimeLeft + (2 * Period + SocketTimeout)

PatienceBounded == Patience \in 0 .. 4 * Period + SocketTimeout

\* Nothing that the sketch does, and nothing in what had arrived, gives a hung
\* connection more time: what is unread gets no more, with as much of it unread
\* there is no more patience, and time uses it up.
PatienceWears ==
  [][Hung /\ Hung' =>
       /\ Unread' <= Unread
       /\ Unread' = Unread => Patience' <= Patience
       /\ Tick => Unread' = Unread /\ Patience' < Patience]_vars

\* readPacket() is called when there is something to read.
ReadHas == pc = "read" => rx # << >> \/ torn

LEMMA ReadHasStep == ReadHas /\ [Next]_vars => ReadHas'
<1> SUFFICES ASSUME ReadHas, [Next]_vars PROVE ReadHas'
  OBVIOUS
<1> USE DEF ReadHas, timers, socket
<1>1. CASE ConnackCame \/ ReadOn
  BY <1>1 DEF ConnackCame, ReadOn, Available
<1>2. CASE LoopPing \/ LoopQuiet
  BY <1>2 DEF LoopPing, LoopQuiet, LookForPacket, Available
<1>3. CASE ReadPacket
  BY <1>3 DEF ReadPacket, Connack, Dispatch
<1>4. CASE Arrive
  BY <1>4 DEF Arrive
<1>5. CASE ArrivePart \/ BrokerSend \/ Stall \/ Resume \/ Break \/ Tick
  BY <1>5 DEF ArrivePart, BrokerSend, Stall, Resume, Break, Tick
<1>6. pc' # "read" \/ <1>1!1 \/ <1>2!1 \/ <1>3!1 \/ <1>4!1 \/ <1>5!1 \/ UNCHANGED vars
  BY DEF Next, InCall, Calls, LoopCall, Surroundings, ConnackTimeout, ReadTimeout, Callback,
         Ack, NoticeLost, ConnectFails, ConnectTooLong, ConnectSent, LoopTimeout, Publish,
         Subscribe, Disconnect
<1>7. CASE UNCHANGED vars
  BY <1>7 DEF vars
<1> QED
  BY <1>1, <1>2, <1>3, <1>4, <1>5, <1>6, <1>7

Ages ==
  /\ inAge \in 0 .. KeepAlive + 1 /\ pause \in 0 .. LoopPeriod /\ waited \in 0 .. SocketTimeout
  /\ pingOutstanding \in BOOLEAN /\ torn \in BOOLEAN
  /\ Len(rx) \in Nat /\ (Len(rx) = 0 <=> rx = << >>)

LEMMA TimesType ==
  TypeOK => /\ Ages
            /\ Period \in Nat /\ ThisPeriod \in 0 .. Period /\ TimeLeft \in 0 .. 2 * Period
            /\ Unread \in Nat /\ Patience \in 0 .. 4 * Period + SocketTimeout
<1> SUFFICES ASSUME TypeOK
             PROVE  /\ Ages
                    /\ Period \in Nat /\ ThisPeriod \in 0 .. Period /\ TimeLeft \in 0 .. 2 * Period
                    /\ Unread \in Nat /\ Patience \in 0 .. 4 * Period + SocketTimeout
  OBVIOUS
<1>1. Ages
  <2>1. rx \in Seq(Packets)
    BY DEF TypeOK
  <2>2. Len(rx) \in Nat /\ (Len(rx) = 0 <=> rx = << >>)
    BY <2>1
  <2> QED
    BY <2>2 DEF TypeOK, Ages
<1>2. Period \in Nat /\ ThisPeriod \in 0 .. Period
  BY <1>1, Limits DEF Ages, Period, ThisPeriod
<1>3. TimeLeft \in 0 .. 2 * Period /\ Unread \in Nat
  BY <1>1, <1>2 DEF Ages, TimeLeft, Unread
<1>4. Patience \in 0 .. 4 * Period + SocketTimeout
  BY <1>1, <1>2, <1>3, Limits DEF Ages, Patience
<1> QED
  BY <1>1, <1>2, <1>3, <1>4

\* A packet, or what is taken for one, is read.
LEMMA FewerUnread ==
  ASSUME TypeOK, ReadPacket, caller = "loop", Hung, Hung'
  PROVE  Unread' < Unread
<1>1. PICK p \in Packets :
        /\ Dispatch(p)
        /\ IF p.type = "BADLEN"
           THEN Stop
           ELSE /\ rx' \in Seq(Packets) /\ Len(rx') < Len(rx)
                /\ UNCHANGED << link, wire, torn, framed >>
  BY PacketRead
<1>2. p.type # "BADLEN"
  BY <1>1, StopType DEF Hung
<1>3. torn' = torn /\ Len(rx') \in Nat /\ Len(rx) \in Nat /\ Len(rx') < Len(rx)
  BY <1>1, <1>2 DEF TypeOK
<1> QED
  BY <1>3 DEF Unread

LEMMA Sums == \A x, y, z \in Int : x < y => x + z < y + z
OBVIOUS

\* Time that passes takes some of the patience away.
LEMMA PatienceTick ==
  ASSUME TypeOK, TypeOK', SocketInv, Hung, Tick
  PROVE  Unread' = Unread /\ Patience' < Patience
<1> USE Limits DEF timers, socket, session, message
<1>1. /\ Ages /\ Period \in Nat /\ Period' = Period
      /\ ThisPeriod \in 0 .. Period /\ TimeLeft \in 0 .. 2 * Period
      /\ Ages' /\ ThisPeriod' \in 0 .. Period /\ TimeLeft' \in 0 .. 2 * Period
  <2>1. Period' = Period
    BY DEF Period
  <2>2. (TypeOK => Ages /\ ThisPeriod \in 0 .. Period /\ TimeLeft \in 0 .. 2 * Period
                   /\ Unread \in Nat)'
    BY TimesType, PTL
  <2> QED
    BY <2>1, <2>2, TimesType
<1>2. pc' = pc /\ (pingOutstanding' <=> pingOutstanding) /\ ~InConnect
  BY DEF Tick, Hung, Up, SocketInv
<1>3. Unread' = Unread
  BY DEF Tick, Unread
<1>6. /\ Period \in Int /\ ThisPeriod \in Int /\ ThisPeriod' \in Int
      /\ TimeLeft \in Int /\ TimeLeft' \in Int
  BY <1>1
<1>4. CASE pc = "read"
  <2>1. waited' = waited + 1
    BY <1>4 DEF Tick
  <2> QED
    BY <1>1, <1>2, <1>3, <1>4, <2>1 DEF Patience, Ages
<1>5. CASE pc # "read"
  <2>1. pause' = pause + 1 /\ inAge' = Older(inAge)
    BY <1>2, <1>5 DEF Tick, InConnect
  <2>2. ThisPeriod' < ThisPeriod
    BY <1>1, <2>1 DEF ThisPeriod, Ages, Older
  <2>3. TimeLeft' < TimeLeft
    <3>1. CASE pingOutstanding
      <4>1. TimeLeft = ThisPeriod /\ TimeLeft' = ThisPeriod'
        BY <1>2, <3>1 DEF TimeLeft
      <4> QED
        BY <2>2, <4>1
    <3>2. CASE ~pingOutstanding
      <4>1. TimeLeft = ThisPeriod + Period /\ TimeLeft' = ThisPeriod' + Period
        BY <1>1, <1>2, <3>2 DEF TimeLeft
      <4> QED
        BY <1>6, <2>2, <4>1, Sums
    <3> QED
      BY <3>1, <3>2
  <2>4. PICK more \in Int : more = 2 * Period + SocketTimeout
    BY <1>6
  <2>5. /\ Patience = IF Unread = 0 THEN TimeLeft ELSE TimeLeft + more
        /\ Patience' = IF Unread = 0 THEN TimeLeft' ELSE TimeLeft' + more
    BY <1>1, <1>2, <1>3, <1>5, <2>4 DEF Patience
  <2>6. CASE Unread = 0
    BY <1>3, <2>3, <2>5, <2>6
  <2>7. CASE Unread # 0
    <3>1. TimeLeft' + more < TimeLeft + more
      BY <1>6, <2>3, <2>4, Sums
    <3> QED
      BY <1>3, <2>5, <2>7, <3>1
  <2> QED
    BY <2>6, <2>7
<1> QED
  BY <1>4, <1>5

LEMMA PatienceStep ==
  ASSUME TypeOK, TypeOK', SocketInv, ReadHas, Hung, Hung', [Next]_vars
  PROVE  Unread' <= Unread /\ (Unread' = Unread => Patience' <= Patience)
<1> USE Limits DEF timers, socket, session, message
<1>1. /\ Ages /\ Period \in Nat /\ Period' = Period
      /\ ThisPeriod \in 0 .. Period /\ TimeLeft \in 0 .. 2 * Period
      /\ Unread \in Nat /\ Unread' \in Nat
      /\ Ages' /\ ThisPeriod' \in 0 .. Period /\ TimeLeft' \in 0 .. 2 * Period
  <2>1. Period' = Period
    BY DEF Period
  <2>2. (TypeOK => Ages /\ ThisPeriod \in 0 .. Period /\ TimeLeft \in 0 .. 2 * Period
                   /\ Unread \in Nat)'
    BY TimesType, PTL
  <2> QED
    BY <2>1, <2>2, TimesType
<1>2. state = "connected" /\ state' = "connected" /\ link = "stalled" /\ link' = "stalled"
      /\ ~Stop /\ ~InConnect
  BY StopType DEF Hung, Up, SocketInv
\* Neither what is unread nor the clock of the silence is touched.
<1>3. ASSUME UNCHANGED << rx, torn, inAge, pingOutstanding, pause >>,
             pc # "read" /\ pc' # "read"
      PROVE  Unread' = Unread /\ Patience' = Patience
  BY <1>3 DEF Patience, Unread, TimeLeft, ThisPeriod, Period
<1>4. CASE LoopPing
  <2>1. /\ UNCHANGED << rx, torn >> /\ inAge' = 0 /\ pause' = 0 /\ waited' = 0 /\ pingOutstanding'
        /\ pc = "idle" /\ ~pingOutstanding
        /\ pc' = IF rx # << >> \/ torn THEN "read" ELSE "idle"
    BY <1>4 DEF LoopPing, LookForPacket, Available
  <2>2. Unread' = Unread /\ (Unread = 0 <=> ~(rx # << >> \/ torn))
    BY <1>1, <2>1 DEF Unread, Ages
  <2>3. TimeLeft' = Period /\ TimeLeft = ThisPeriod + Period
    BY <1>1, <2>1 DEF TimeLeft, ThisPeriod, Period
  <2> QED
    BY <1>1, <2>1, <2>2, <2>3 DEF Patience
<1>5. CASE LoopQuiet
  <2>1. /\ UNCHANGED << rx, torn, inAge, pingOutstanding >> /\ pause' = 0 /\ waited' = 0
        /\ pc = "idle" /\ pc' = IF rx # << >> \/ torn THEN "read" ELSE "idle"
        /\ ~(inAge > KeepAlive)
    BY <1>5 DEF LoopQuiet, LookForPacket, Available, Silent
  <2>2. Unread' = Unread /\ (Unread = 0 <=> ~(rx # << >> \/ torn))
    BY <1>1, <2>1 DEF Unread, Ages
  <2>3. TimeLeft' = TimeLeft
    BY <1>1, <2>1 DEF TimeLeft, ThisPeriod, Period
  <2> QED
    BY <1>1, <2>1, <2>2, <2>3 DEF Patience
<1>6. CASE ReadPacket
  <2>1. caller = "loop"
    BY <1>2, <1>6 DEF ReadPacket, InConnect, TypeOK
  <2> QED
    BY <1>1, <1>6, <2>1, FewerUnread
<1>7. CASE ReadOn
  <2>1. rx # << >> /\ rx' = << >> /\ torn' = TRUE
    BY <1>7 DEF ReadOn
  <2>2. Unread' <= Unread
    BY <1>1, <2>1 DEF Unread, Ages
  <2>3. pc = "read" /\ pc' = "read" /\ waited' = waited
    BY <1>7 DEF ReadOn
  <2> QED
    BY <1>1, <2>2, <2>3 DEF Patience, Ages
<1>8. CASE ReadTimeout
  <2>1. pc = "read" /\ rx = << >> /\ rx' = rx /\ torn' = FALSE
    BY <1>2, <1>8 DEF ReadTimeout
  <2>2. torn
    BY <2>1 DEF ReadHas
  <2>3. Unread' < Unread
    BY <1>1, <2>1, <2>2 DEF Unread, Ages
  <2> QED
    BY <1>1, <2>3
<1>9. CASE Callback
  <2>1. /\ UNCHANGED << rx, torn, inAge, pingOutstanding, pause >>
        /\ pc = "callback" /\ pc' \in {"ack", "idle"}
    BY <1>2, <1>9 DEF Callback
  <2> QED
    BY <1>1, <1>3, <2>1, TimesType
<1>10. CASE Ack
  BY <1>1, <1>3, <1>10, TimesType DEF Ack
<1>11. CASE Publish
  BY <1>1, <1>3, <1>11, TimesType DEF Publish
<1>12. CASE Subscribe
  BY <1>1, <1>3, <1>12, TimesType DEF Subscribe
<1>13. CASE BrokerSend \/ UNCHANGED vars
  <2>1. UNCHANGED << rx, torn, pc, timers, pingOutstanding >>
    BY <1>13 DEF BrokerSend, vars
  <2>2. Unread' = Unread /\ Patience' = Patience
    BY <2>1 DEF Patience, Unread, TimeLeft, ThisPeriod, Period
  <2> QED
    BY <1>1, <2>2, TimesType
<1>14. CASE Tick
  <2>1. Unread' = Unread /\ Patience' < Patience
    BY <1>14, PatienceTick
  <2>2. Patience \in Int /\ Patience' \in Int
    <3>1. (TypeOK => Patience \in 0 .. 4 * Period + SocketTimeout)'
      BY TimesType, PTL
    <3> QED
      BY <1>1, <3>1, TimesType
  <2> QED
    BY <1>1, <2>1, <2>2
<1>15. CASE NoticeLost \/ ConnectFails \/ ConnectTooLong \/ ConnectSent \/ ConnackCame
            \/ ConnackTimeout \/ LoopTimeout \/ Disconnect
  BY <1>2, <1>15 DEF NoticeLost, ConnectFails, ConnectTooLong, ConnectSent, ConnackCame,
               ConnackTimeout, LoopTimeout, Disconnect, InConnect
<1>16. CASE Arrive \/ ArrivePart \/ Stall \/ Resume \/ Break
  BY <1>2, <1>16 DEF Arrive, ArrivePart, Stall, Resume, Break
<1> QED
  BY <1>4, <1>5, <1>6, <1>7, <1>8, <1>9, <1>10, <1>11, <1>12, <1>13, <1>14, <1>15, <1>16
  DEF Next, InCall, Calls, LoopCall, Surroundings

-----------------------------------------------------------------------------
(* The theorems                                                            *)

LEMMA InvAlways == Spec => []Inv
<1>1. Init => Inv
  BY SafeInit, StreamInit, PingInit DEF Inv
<1>2. Inv /\ [Next]_vars => Inv'
  BY SafeStep, StreamStep, PingStep DEF Inv
<1> QED
  BY <1>1, <1>2, PTL DEF Spec

\* Every variable of the client has its type, and a connected client has a
\* message id that MQTT allows.
THEOREM TypeCorrect == Spec => []TypeOK
<1>1. Inv => TypeOK
  BY DEF Inv
<1> QED
  BY InvAlways, <1>1, PTL

\* Between two calls there is a TCP connection if and only if the client's state
\* is MQTT_CONNECTED.
THEOREM SocketInStep == Spec => []SocketFollowsState
<1>1. Inv => SocketFollowsState
  BY DEF Inv, SocketInv, InConnect, SocketFollowsState
<1> QED
  BY InvAlways, <1>1, PTL

\* The keep-alive is at least as long as loop() takes to read the packets that
\* may lie before an answer, and the answer.
LongEnough == (MaxQueue + 1) * LoopPeriod <= KeepAlive

\* Then a connection over which the broker answers is never given up.
THEOREM AnswersAreInTime == ASSUME LongEnough PROVE Spec => NoFalseTimeout
<1>1. ASSUME Inv, [Next]_vars, state = "connected", state' = "timeout", ~lapse
      PROVE  FALSE
  <2>1. LoopTimeout
    <3>1. ~ConnackTimeout
      BY <1>1 DEF ConnackTimeout, Inv, SocketInv, InConnect
    <3>2. ASSUME NEW p, Connack(p) PROVE state' # "timeout"
      BY <1>1, <3>2 DEF Connack
    <3>3. ASSUME NEW p, Dispatch(p) PROVE state' # "timeout"
      BY <1>1, <3>3 DEF Dispatch
    <3>4. ~ReadPacket
      BY <1>1, <3>2, <3>3 DEF ReadPacket
    <3> QED
      BY <1>1, <3>1, <3>4
      DEF Next, InCall, Calls, LoopCall, Surroundings, vars, session, ConnackCame, ReadOn,
          ReadTimeout, Callback, Ack, NoticeLost, ConnectFails, ConnectTooLong,
          ConnectSent, LoopPing, LoopQuiet, Publish, Subscribe, Disconnect, BrokerSend,
          Arrive, ArrivePart, Stall, Resume, Break, Tick
  <2>2. Numbers /\ Silent /\ pingOutstanding /\ pc = "idle"
    BY <1>1, <2>1, NumbersType DEF LoopTimeout, Inv
  <2>3. CASE PongArrived
    <3>1. PICK i \in 1 .. Len(rx) : i <= MaxQueue + 1 /\ InTime(inAge, i) /\ InTime(outAge, i)
      BY <2>3 DEF PongArrived
    <3>2. i \in 1 .. MaxQueue + 1
      BY <2>2, <3>1, Limits DEF Numbers
    <3>3. Room(i) \in Nat /\ Room(i) + LoopPeriod <= KeepAlive
      <4>1. Room(i) \in Nat /\ Room(i) + LoopPeriod <= (MaxQueue + 1) * LoopPeriod
        BY <3>2, RoomType
      <4>2. (MaxQueue + 1) * LoopPeriod \in Nat
        BY Periods, Limits
      <4> QED
        BY <4>1, <4>2, Limits DEF LongEnough
    <3>4. Slack <= LoopPeriod
      BY <2>2 DEF Slack, Numbers
    <3> QED
      BY <2>2, <3>1, <3>3, <3>4, Limits DEF InTime, Silent, Numbers
  <2>4. CASE PongOnItsWay
    BY <2>2, <2>4, Limits DEF PongOnItsWay, Silent
  <2> QED
    BY <1>1, <2>2, <2>3, <2>4 DEF Inv, PingInv
<1>2. Inv /\ [Next]_vars => [state = "connected" /\ state' = "timeout" => lapse]_vars
  BY <1>1
<1> QED
  BY InvAlways, <1>2, PTL DEF NoFalseTimeout, Spec

\* Packets in parts, pings, broken connections and replies from inside the
\* callback, which overwrite the buffer that its argument is in, do for a sketch
\* what the abstract session promises: its messages, in their order, and to each
\* the acknowledgement that is its own.
THEOREM ImplementsMqttSession == Spec => ImplementsSession
<1>1. Init => HandInv
  BY DEF Init, HandInv
<1>2. Inv /\ HandInv /\ [Next]_vars => HandInv'
  BY HandStep DEF Inv
<1>3. Inv /\ HandInv /\ Inv' /\ [Next]_vars => [Session!Next]_(Session!sessionVars)
  BY SessionStepMaps DEF Inv
<1> QED
  BY InvAlways, SessionInitMaps, <1>1, <1>2, <1>3, PTL
  DEF Spec, ImplementsSession, Session!Spec

\* A connection over which nothing comes any more is given up in a time that the
\* keep-alive, the period of loop() and what had arrived bound: four periods and a
\* socket timeout for each packet that is still to be read, or, once the client has
\* lost its place, for each two bytes, since each may look like a packet and move
\* lastInActivity; publish() and replies do not put it off.
THEOREM SilenceIsNoticedInTime == Spec => []PatienceBounded /\ PatienceWears
<1>1. Init => ReadHas
  BY DEF Init, ReadHas
<1>2. Inv => PatienceBounded
  BY TimesType DEF Inv, PatienceBounded
<1>3. Inv /\ ReadHas /\ Inv' /\ [Next]_vars =>
        [Hung /\ Hung' =>
           /\ Unread' <= Unread
           /\ Unread' = Unread => Patience' <= Patience
           /\ Tick => Unread' = Unread /\ Patience' < Patience]_vars
  BY PatienceStep, PatienceTick DEF Inv
<1> QED
  BY InvAlways, ReadHasStep, <1>1, <1>2, <1>3, PTL DEF PatienceWears, Spec
=============================================================================
