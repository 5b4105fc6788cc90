---------------------------- MODULE MCBleClient ----------------------------
(***************************************************************************)
(* BleClient with two servers and three client objects: the one that the   *)
(* characteristic belongs to, the one of the attempt under way, and one    *)
(* whose disconnection is still to be reported.                            *)
(***************************************************************************)
EXTENDS BleClient, TLC

CONSTANTS s1, s2, c1, c2, c3

MCServers == {s1, s2}
MCClients == {c1, c2, c3}

\* The servers are interchangeable, and so are the clients.  Only for runs
\* without liveness.
Interchangeable == Permutations(MCServers) \cup Permutations(MCClients)
=============================================================================
