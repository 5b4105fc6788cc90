---------------------------- MODULE MqttSession ----------------------------
(***************************************************************************)
(* What a sketch relies on when it says that an MQTT session is open:      *)
(* messages reach its callback one at a time, in the order in which the    *)
(* broker sent them and without a gap or a repetition, except that one     *)
(* which is larger than the client's buffer is left out and that the end   *)
(* of the sequence is lost with the session; and a message that wants an   *)
(* acknowledgement gets its own once the callback has returned.  What else *)
(* travels takes its place in the queue and is of no concern to the sketch.*)
(***************************************************************************)
EXTENDS Naturals, Sequences

CONSTANTS
  Messages,  \* records: the message id (0 for QoS 0), and whether it fits
  NoMessage  \* nothing, or in the queue a packet that is no message

VARIABLES
  open,   \* "closed", "open", or "cut": no more comes, what came is still read
  queue,  \* sent by the broker and not handed to the callback
  last,   \* what the callback is at work on, or NoMessage
  acked   \* the id of the last acknowledgement in this session

sessionVars == << open, queue, last, acked >>

Fresh == queue' = << >> /\ last' = NoMessage /\ acked' = 0

Init == open = "closed" /\ queue = << >> /\ last = NoMessage /\ acked = 0

\* The connection may be gone before the answer that opens the session is read.
Open  == open = "closed" /\ open' \in {"open", "cut"} /\ Fresh
Close == open # "closed" /\ open' = "closed" /\ Fresh

Send ==
  /\ open = "open"
  /\ \E m \in Messages \cup {NoMessage} : queue' = Append(queue, m)
  /\ UNCHANGED << open, last, acked >>

\* The connection breaks; what had arrived by then can still be read.
CutOff ==
  /\ open = "open"
  /\ open' = "cut"
  /\ \E n \in 0 .. Len(queue) : queue' = SubSeq(queue, 1, n)
  /\ UNCHANGED << last, acked >>

Hand ==
  /\ open # "closed" /\ last = NoMessage /\ queue # << >>
  /\ queue' = Tail(queue)
  /\ last' = IF Head(queue) # NoMessage /\ Head(queue).fits THEN Head(queue) ELSE NoMessage
  /\ UNCHANGED << open, acked >>

\* The callback has returned.
Done ==
  /\ last # NoMessage
  /\ last' = NoMessage
  /\ acked' = IF last.id # 0 /\ open = "open" THEN last.id ELSE acked
  /\ UNCHANGED << open, queue >>

Next == Open \/ Close \/ Send \/ CutOff \/ Hand \/ Done

Spec == Init /\ [][Next]_sessionVars
=============================================================================
