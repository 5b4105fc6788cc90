--------------------------- MODULE MCPubSubClient ---------------------------
(***************************************************************************)
(* PubSubClient with a message of each kind.                               *)
(***************************************************************************)
EXTENDS PubSubClient

Command     == [type |-> "PUBLISH", id |-> 0, fits |-> TRUE]
AtLeastOnce == [type |-> "PUBLISH", id |-> 2, fits |-> TRUE]
TooLarge    == [type |-> "PUBLISH", id |-> 0, fits |-> FALSE]

MCMessages == { Command, AtLeastOnce, TooLarge }
=============================================================================
