---------------------------- MODULE PubSubClient ----------------------------
(***************************************************************************)
(* libraries/PubSubClient, the MQTT client of every sketch that has one:   *)
(* its socket, its state, the keep-alive, and the one buffer it has.       *)
(*                                                                         *)
(* Time is counted in the pauses between two calls of loop(), and kept as  *)
(* the ages of the client's timestamps, which stop to grow once they are   *)
(* beyond every limit.  A call runs in steps only where it waits for the   *)
(* network or runs the callback.                                           *)
(***************************************************************************)
EXTENDS Integers, Sequences

CONSTANTS
  Messages,       \* what others publish: type, id (0 for QoS 0), fits
  NoMessage,
  KeepAlive,      \* MQTT_KEEPALIVE
  SocketTimeout,  \* MQTT_SOCKET_TIMEOUT
  LoopPeriod,     \* the longest time between two calls of loop()
  IdLimit,        \* message ids are counted modulo this: 65536
  Pieces,         \* half the bytes of the longest packet: as many packets as a
                  \* client that has lost its place can find in one, at the most
  MaxQueue        \* bound: packets, or pieces, on their way when the broker
                  \* sends another packet

Packet(type) == [type |-> type]
Connacks == { Packet("CONNACK"), Packet("REFUSED") }
\* A packet whose length takes more than four bytes is a BADLEN; SUBACK and
\* what else loop() has no use for are an OTHER.
Packets  == Messages \cup Connacks
              \cup { Packet(t) : t \in {"PINGRESP", "OTHER", "BADLEN"} }

ASSUME ClientAssumption ==
  /\ Messages \subseteq [type : {"PUBLISH"}, id : 0 .. IdLimit - 1, fits : BOOLEAN]
  /\ NoMessage \notin Messages
  /\ KeepAlive \in Nat /\ LoopPeriod \in Nat /\ MaxQueue \in Nat
  /\ SocketTimeout \in Nat \ {0} /\ IdLimit \in Nat \ {0, 1} /\ Pieces \in Nat \ {0}

VARIABLES
  pc,      \* "idle" between calls, or where a call waits: "connack", "read",
           \* "callback", "ack"
  caller,  \* the call that readPacket() returns to: "connect" or "loop"
  state,   \* _state
  pingOutstanding,
  nextMsgId,
  msgId,   \* loop()'s local
  buffer,  \* the message in this->buffer, NoMessage once it is written over or
           \* of no more use
  inAge,   \* the time since lastInActivity
  outAge,  \* the time since lastOutActivity
  tAge,    \* the time since loop() looked at the clock
  waited,  \* the time that this wait has taken
  pause,   \* the time since the last call of loop()
  link,    \* the TCP connection: "none", "up", "stalled", "broken"
  wire,    \* packets, or pieces, that the broker sent and that have not arrived
  rx,      \* packets, or pieces, that have arrived and are unread
  torn,    \* more bytes have arrived, but not the whole next packet or piece
  framed   \* the client has not lost its place between the packets

\* History.
VARIABLES
  handing, \* the message that the callback was called with, or NoMessage
  acked,   \* the id in the last PUBACK of this session
  lapse    \* since connect() the connection has not always been up

timers  == << inAge, outAge, tAge, waited, pause >>
socket  == << link, wire, rx, torn, framed >>
session == << state, pingOutstanding, nextMsgId >>
message == << msgId, buffer, handing, acked >>

vars == << pc, caller, session, message, timers, socket, lapse >>

Init ==
  /\ pc = "idle" /\ caller = "loop"
  /\ state = "disconnected" /\ pingOutstanding = FALSE /\ nextMsgId = 0
  /\ msgId = 0 /\ buffer = NoMessage /\ handing = NoMessage /\ acked = 0
  /\ inAge = 0 /\ outAge = 0 /\ tAge = 0 /\ waited = 0 /\ pause = 0
  /\ link = "none" /\ wire = << >> /\ rx = << >> /\ torn = FALSE /\ framed = TRUE
  /\ lapse = FALSE

-----------------------------------------------------------------------------
Alive     == link \in {"up", "stalled"}   \* _client->connected()
Up        == Alive /\ state = "connected" \* connected()
Available == rx # << >> \/ torn           \* _client->available()

\* _client->stop(), and what was in flight is gone.
Stop == link' = "none" /\ wire' = << >> /\ rx' = << >> /\ torn' = FALSE /\ framed' = TRUE

\* To a client that has lost its place the packets q are bytes, whatever they say.
\* They are counted in pieces of two: no packet is shorter.
Bytes(q) == [i \in 1 .. Pieces * Len(q) |-> Packet("OTHER")]

\* What the packet p that the broker sends is to the client.
Sent(p) == IF framed THEN << p >> ELSE Bytes(<< p >>)

\* The bound on what is on its way when the broker sends more.
Space == Len(wire) + Len(rx) < MaxQueue

\* connected(), in whatever call, finds that the connection is gone.
NoticeLost ==
  /\ pc = "idle" /\ link = "broken" /\ state = "connected"
  /\ state' = "lost"
  /\ Stop
  /\ UNCHANGED << pc, caller, pingOutstanding, nextMsgId, message, timers, lapse >>

-----------------------------------------------------------------------------
(* connect()                                                               *)

ConnectFails ==
  /\ pc = "idle" /\ state # "connected" /\ ~Alive
  /\ state' = "failed"
  /\ UNCHANGED << pc, caller, pingOutstanding, nextMsgId, message, timers, socket, lapse >>

\* CHECK_STRING_LENGTH: an id, a user or a password that is too long.
ConnectTooLong ==
  /\ pc = "idle" /\ state # "connected"
  /\ nextMsgId' = 1
  /\ Stop
  /\ UNCHANGED << pc, caller, state, pingOutstanding, message, timers, lapse >>

\* A socket that is open is used as it is.  The broker may accept, refuse, or
\* say nothing.
ConnectSent ==
  /\ pc = "idle" /\ state # "connected"
  /\ nextMsgId' = 1
  /\ inAge' = 0 /\ outAge' = 0 /\ waited' = 0
  /\ pc' = "connack" /\ caller' = "connect"
  /\ link' = IF Alive THEN link ELSE "up"
  /\ \E reply \in { << >> } \cup { << r >> : r \in Connacks } : wire' = wire \o reply
  /\ lapse' = FALSE
  /\ UNCHANGED << state, pingOutstanding, message, tAge, pause, rx, torn, framed >>

ConnackCame ==
  /\ pc = "connack" /\ Available
  /\ pc' = "read" /\ waited' = 0
  /\ UNCHANGED << caller, session, message, inAge, outAge, tAge, pause, socket, lapse >>

\* MUTANT: the socket stays open.
ConnackTimeoutOpen ==
  /\ pc = "connack" /\ ~Available /\ waited >= SocketTimeout
  /\ state' = "timeout"
  /\ pc' = "idle" /\ waited' = 0
  /\ UNCHANGED << caller, pingOutstanding, nextMsgId, message, inAge, outAge, tAge,
                  pause, socket, lapse >>

ConnackTimeout ==
  /\ pc = "connack" /\ ~Available /\ waited >= SocketTimeout
  /\ state' = "timeout"
  /\ Stop
  /\ pc' = "idle" /\ waited' = 0
  /\ UNCHANGED << caller, pingOutstanding, nextMsgId, message, inAge, outAge, tAge,
                  pause, lapse >>

-----------------------------------------------------------------------------
(* loop()                                                                  *)

Silent == inAge > KeepAlive \/ outAge > KeepAlive

\* The rest of loop(): at most one packet.
LookForPacket ==
  /\ tAge' = 0 /\ waited' = 0 /\ pause' = 0
  /\ caller' = "loop"
  /\ pc' = IF Available THEN "read" ELSE "idle"

LoopTimeout ==
  /\ pc = "idle" /\ Up /\ Silent /\ pingOutstanding
  /\ state' = "timeout"
  /\ Stop
  /\ pause' = 0
  /\ UNCHANGED << pc, caller, pingOutstanding, nextMsgId, message, inAge, outAge,
                  tAge, waited, lapse >>

\* The broker answers a ping at once, with two bytes; whether and when they arrive
\* is up to the network.
LoopPing ==
  /\ pc = "idle" /\ Up /\ Silent /\ ~pingOutstanding
  /\ inAge' = 0 /\ outAge' = 0
  /\ pingOutstanding' = TRUE
  /\ wire' = Append(wire, Packet(IF framed THEN "PINGRESP" ELSE "OTHER"))
  /\ LookForPacket
  /\ UNCHANGED << state, nextMsgId, message, link, rx, torn, framed, lapse >>

\* MUTANT: every look at the socket counts as activity.
LoopQuietActive ==
  /\ pc = "idle" /\ Up /\ ~Silent
  /\ LookForPacket
  /\ inAge' = 0 /\ outAge' = 0
  /\ UNCHANGED << session, message, socket, lapse >>

LoopQuiet ==
  /\ pc = "idle" /\ Up /\ ~Silent
  /\ LookForPacket
  /\ UNCHANGED << session, message, inAge, outAge, socket, lapse >>

LoopCall == LoopTimeout \/ LoopPing \/ LoopQuiet

-----------------------------------------------------------------------------
(* readPacket(), and what its two callers do with what it returns          *)

\* connect(): the type of the packet is not looked at, only its length and its
\* fourth byte.
Connack(p) ==
  /\ state' = CASE p.type = "CONNACK" -> "connected"
                [] p.type = "REFUSED" -> "refused"
                [] p.type = "BADLEN"  -> "disconnected"
                [] OTHER         -> state
  /\ pingOutstanding' = (pingOutstanding /\ p.type # "CONNACK")
  /\ inAge' = IF p.type = "CONNACK" THEN 0 ELSE inAge
  /\ acked' = IF p.type = "CONNACK" THEN 0 ELSE acked
  /\ pc' = "idle"
  /\ UNCHANGED << msgId, buffer, handing >>

\* MUTANT: an answered ping stays outstanding.
DispatchNoPong(p) ==
  /\ state' = IF p.type = "BADLEN" THEN "disconnected" ELSE state
  /\ inAge' = IF p.type = "BADLEN" THEN inAge ELSE tAge
  /\ IF p.type = "PUBLISH" /\ p.fits
     THEN msgId' = p.id /\ buffer' = p /\ handing' = p /\ pc' = "callback"
     ELSE pc' = "idle" /\ UNCHANGED << msgId, buffer, handing >>
  /\ UNCHANGED << acked, pingOutstanding >>

\* loop(): a message that does not fit is not even noted as activity.
Dispatch(p) ==
  /\ state' = IF p.type = "BADLEN" THEN "disconnected" ELSE state
  /\ pingOutstanding' = (pingOutstanding /\ p.type # "PINGRESP")
  /\ inAge' = IF p.type = "BADLEN" \/ (p.type = "PUBLISH" /\ ~p.fits) THEN inAge ELSE tAge
  /\ IF p.type = "PUBLISH" /\ p.fits
     THEN msgId' = p.id /\ buffer' = p /\ handing' = p /\ pc' = "callback"
     ELSE pc' = "idle" /\ UNCHANGED << msgId, buffer, handing >>
  /\ UNCHANGED acked

\* A whole packet; or, once the place in the stream is lost, what the bytes there
\* look like: any packet, of one piece or more.  (The client may find its place
\* again by chance; what it reads then is among these.)
ReadPacket ==
  /\ pc = "read" /\ rx # << >>
  /\ \E p \in IF framed THEN {Head(rx)} ELSE Packets :
       /\ IF caller = "connect" THEN Connack(p) ELSE Dispatch(p)
       /\ IF p.type = "BADLEN" \/ (caller = "connect" /\ p.type # "CONNACK")
          THEN Stop
          ELSE /\ \E n \in IF framed THEN {2} ELSE 2 .. Len(rx) + 1 :
                    rx' = SubSeq(rx, n, Len(rx))
               /\ UNCHANGED << link, wire, torn, framed >>
  /\ waited' = 0 /\ tAge' = IF pc' = "idle" THEN 0 ELSE tAge
  /\ UNCHANGED << caller, nextMsgId, outAge, pause, lapse >>

\* In the middle of a packet the length can be one that takes all there is.
ReadOn ==
  /\ pc = "read" /\ ~framed /\ rx # << >>
  /\ rx' = << >> /\ torn' = TRUE
  /\ UNCHANGED << pc, caller, session, message, timers, link, wire, framed, lapse >>

\* readByte() gives up: readPacket() returns 0, in the middle of a packet.
ReadTimeout ==
  /\ pc = "read" /\ rx = << >> /\ waited >= SocketTimeout
  /\ pc' = "idle"
  /\ IF caller = "connect" \/ link = "broken"
     THEN Stop /\ state' = IF caller = "connect" THEN state ELSE "lost"
     ELSE /\ framed' = FALSE /\ torn' = FALSE
          /\ wire' = IF framed THEN Bytes(wire) ELSE wire
          /\ UNCHANGED << link, rx, state >>
  /\ waited' = 0 /\ tAge' = 0
  /\ UNCHANGED << caller, pingOutstanding, nextMsgId, message, inAge, outAge, pause, lapse >>

\* The callback publishes a reply, over the buffer its argument is in, or not.
\* Nobody looks at a message in the buffer that wants no acknowledgement.
Callback ==
  /\ pc = "callback"
  /\ LET kept == IF msgId # 0 THEN buffer ELSE NoMessage
     IN  \/ buffer' = kept /\ UNCHANGED << state, outAge, socket >>
         \/ Up /\ buffer' = NoMessage /\ outAge' = 0 /\ UNCHANGED << state, socket >>
         \/ link = "broken" /\ state' = "lost" /\ Stop /\ buffer' = kept /\ UNCHANGED outAge
  /\ pc' = IF msgId # 0 THEN "ack" ELSE "idle"
  /\ handing' = IF msgId # 0 THEN handing ELSE NoMessage
  /\ tAge' = IF msgId # 0 THEN tAge ELSE 0
  /\ UNCHANGED << caller, pingOutstanding, nextMsgId, msgId, acked, inAge,
                  waited, pause, lapse >>

\* MUTANT: the id is read from the buffer after the callback.
AckFromBuffer ==
  /\ pc = "ack"
  /\ acked' = IF Alive /\ buffer # NoMessage THEN buffer.id ELSE acked
  /\ buffer' = NoMessage /\ handing' = NoMessage /\ msgId' = 0
  /\ outAge' = tAge /\ tAge' = 0
  /\ pc' = "idle"
  /\ UNCHANGED << caller, session, inAge, waited, pause, socket, lapse >>

\* PUBACK, with loop()'s old idea of the time.
Ack ==
  /\ pc = "ack"
  /\ acked' = IF Alive THEN msgId ELSE acked
  /\ buffer' = NoMessage /\ handing' = NoMessage /\ msgId' = 0
  /\ outAge' = tAge /\ tAge' = 0
  /\ pc' = "idle"
  /\ UNCHANGED << caller, session, inAge, waited, pause, socket, lapse >>

\* The steps of a call that is under way.
InCall ==
  \/ ConnackCame \/ ConnackTimeout \/ ReadPacket \/ ReadOn \/ ReadTimeout
  \/ Callback \/ Ack

-----------------------------------------------------------------------------
(* The other calls                                                         *)

Publish ==
  /\ pc = "idle" /\ Up
  /\ outAge' = 0
  /\ UNCHANGED << pc, caller, session, message, inAge, tAge, waited, pause, socket, lapse >>

\* MUTANT: the id after the last one is 0.
SubscribeZero ==
  /\ pc = "idle" /\ Up
  /\ Space
  /\ nextMsgId' = (nextMsgId + 1) % IdLimit
  /\ outAge' = 0
  /\ wire' = wire \o Sent(Packet("OTHER"))
  /\ UNCHANGED << pc, caller, state, pingOutstanding, message, inAge, tAge, waited,
                  pause, link, rx, torn, framed, lapse >>

\* subscribe() and unsubscribe().
Subscribe ==
  /\ pc = "idle" /\ Up
  /\ Space
  /\ nextMsgId' = IF (nextMsgId + 1) % IdLimit = 0 THEN 1 ELSE nextMsgId + 1
  /\ outAge' = 0
  /\ wire' = wire \o Sent(Packet("OTHER"))
  /\ UNCHANGED << pc, caller, state, pingOutstanding, message, inAge, tAge, waited,
                  pause, link, rx, torn, framed, lapse >>

Disconnect ==
  /\ pc = "idle"
  /\ state' = "disconnected"
  /\ Stop
  /\ inAge' = 0 /\ outAge' = 0
  /\ UNCHANGED << pc, caller, pingOutstanding, nextMsgId, message, tAge, waited,
                  pause, lapse >>

Calls ==
  \/ NoticeLost \/ ConnectFails \/ ConnectTooLong \/ ConnectSent
  \/ LoopCall \/ Publish \/ Subscribe \/ Disconnect

-----------------------------------------------------------------------------
(* Broker, network and time                                                *)

BrokerSend ==
  /\ Up
  /\ Space
  /\ \E p \in Messages \cup {Packet("OTHER"), Packet("BADLEN")} : wire' = wire \o Sent(p)
  /\ UNCHANGED << pc, caller, session, message, timers, link, rx, torn, framed, lapse >>

Arrive ==
  /\ link = "up" /\ wire # << >>
  /\ rx' = Append(rx, Head(wire)) /\ wire' = Tail(wire)
  /\ torn' = FALSE
  /\ UNCHANGED << pc, caller, session, message, timers, link, framed, lapse >>

ArrivePart ==
  /\ link = "up" /\ wire # << >>
  /\ ~torn \/ (pc = "read" /\ waited > 0)
  /\ torn' = TRUE /\ waited' = 0
  /\ UNCHANGED << pc, caller, session, message, inAge, outAge, tAge, pause, link, wire,
                  rx, framed, lapse >>

Stall ==
  /\ link = "up"
  /\ link' = "stalled" /\ lapse' = TRUE
  /\ UNCHANGED << pc, caller, session, message, timers, wire, rx, torn, framed >>

Resume ==
  /\ link = "stalled"
  /\ link' = "up"
  /\ UNCHANGED << pc, caller, session, message, timers, wire, rx, torn, framed, lapse >>

Break ==
  /\ Alive
  /\ link' = "broken" /\ wire' = << >> /\ lapse' = TRUE
  /\ UNCHANGED << pc, caller, session, message, timers, rx, torn, framed >>

Older(age) == IF age > KeepAlive THEN age ELSE age + 1

\* Time passes between two calls and while a call waits; what is on its way over
\* a connection that is up arrives before it does.
Tick ==
  /\ link # "none" /\ (link = "up" => wire = << >>)
  /\ \/ pc = "idle" /\ pause < LoopPeriod /\ pause' = pause + 1 /\ UNCHANGED waited
     \/ /\ pc \in {"connack", "read"} /\ waited < SocketTimeout
        /\ rx = << >> /\ (pc = "connack" => ~torn)
        /\ waited' = waited + 1 /\ UNCHANGED pause
  /\ inAge' = Older(inAge) /\ outAge' = Older(outAge)
  /\ tAge' = IF pc = "idle" THEN tAge ELSE Older(tAge)
  /\ UNCHANGED << pc, caller, session, message, socket, lapse >>

Surroundings ==
  BrokerSend \/ Arrive \/ ArrivePart \/ Stall \/ Resume \/ Break \/ Tick

Next == InCall \/ Calls \/ Surroundings

Spec == Init /\ [][Next]_vars
-----------------------------------------------------------------------------
(* Properties                                                              *)

States == { "disconnected", "connected", "timeout", "lost", "failed", "refused" }

\* Every variable has a value of its type; a connected client never uses the
\* message id 0, which MQTT forbids.
TypeOK ==
  /\ pc \in {"idle", "connack", "read", "callback", "ack"}
  /\ caller \in {"connect", "loop"}
  /\ state \in States
  /\ pingOutstanding \in BOOLEAN
  /\ nextMsgId \in 0 .. IdLimit - 1
  /\ state = "connected" => nextMsgId # 0
  /\ msgId \in 0 .. IdLimit - 1 /\ acked \in 0 .. IdLimit - 1
  /\ buffer \in Messages \cup {NoMessage} /\ handing \in Messages \cup {NoMessage}
  /\ inAge \in 0 .. KeepAlive + 1 /\ outAge \in 0 .. KeepAlive + 1 /\ tAge \in 0 .. KeepAlive + 1
  /\ waited \in 0 .. SocketTimeout /\ pause \in 0 .. LoopPeriod
  /\ link \in {"none", "up", "stalled", "broken"}
  /\ wire \in Seq(Packets) /\ rx \in Seq(Packets)
  /\ torn \in BOOLEAN /\ framed \in BOOLEAN /\ lapse \in BOOLEAN

\* Between two calls the client has a TCP connection if and only if its state is
\* MQTT_CONNECTED: on every way out of every call that fails the socket is
\* closed, so that the next connect() starts from a fresh one.
SocketFollowsState == pc = "idle" => (link # "none" <=> state = "connected")

\* The client as the sketches see it, for as long as it has not lost its place
\* in the stream.
IsOpen == state = "connected" /\ framed

\* What concerns a sketch in the packets q.
Concern(q) == [i \in DOMAIN q |-> IF q[i].type = "PUBLISH" THEN q[i] ELSE NoMessage]

SessionOpen  == CASE ~IsOpen          -> "closed"
                  [] IsOpen /\ Alive  -> "open"
                  [] IsOpen /\ ~Alive -> "cut"
SessionQueue == IF IsOpen THEN Concern(rx \o wire) ELSE << >>
SessionLast  == IF IsOpen THEN handing ELSE NoMessage
SessionAcked == IF IsOpen THEN acked ELSE 0

Session == INSTANCE MqttSession WITH
  open <- SessionOpen, queue <- SessionQueue, last <- SessionLast, acked <- SessionAcked

\* Through packets in parts, pings, replies sent from inside the callback and
\* broken connections, the callback gets the messages that the broker sent, in
\* their order, and each acknowledgement is of the message just handled.
ImplementsSession == Session!Spec

\* A connection over which the broker answers in time is never given up for
\* want of an answer: with at most MaxQueue packets before the PINGRESP, which
\* loop() reads one per call.
NoFalseTimeout ==
  [][state = "connected" /\ state' = "timeout" => lapse]_vars

\* Time does pass, calls go on, and the sketch calls loop() again and again.
FairSpec == Spec /\ WF_vars(InCall) /\ WF_vars(LoopCall) /\ SF_vars(Tick)

\* A connection that goes silent is given up, whatever the sketch publishes
\* and whatever had arrived before.
HungNoticed ==
  Up /\ link = "stalled" ~> ~Up \/ link # "stalled"
=============================================================================
