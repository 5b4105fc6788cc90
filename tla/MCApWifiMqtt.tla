---------------------------- MODULE MCApWifiMqtt ----------------------------
(***************************************************************************)
(* ApWifiMqtt on small sets: two networks, two brokers, a text that is too *)
(* long for its buffer, a port that is too large for 16 bits.              *)
(***************************************************************************)
EXTENDS ApWifiMqtt, TLC

MCStrings == { "", "a", "b", "long", "cut" }
MCCut     == [s \in MCStrings |-> IF s = "long" THEN "cut" ELSE s]
MCPorts   == { 0, 1883, 67419 }   \* 67419 % 65536 = 1883

Configuration(s, p, srv, u, q, port) ==
  [k \in Keys |-> CASE k = "ssid"          -> s
                    [] k = "password"      -> p
                    [] k = "mqtt_server"   -> srv
                    [] k = "mqtt_username" -> u
                    [] k = "mqtt_password" -> q
                    [] k = "mqtt_port"     -> port]

MCDefault == Configuration("", "", "a", "a", "a", 1883)
Home      == Configuration("a", "a", "a", "a", "a", 1883)
Away      == Configuration("b", "b", "b", "b", "b", 67419)

\* A new board; a provisioned one; one that clear_preference emptied; one whose
\* password another sketch stored uncut; one whose network has no password.
MCInitialStores ==
  { EmptyStore, Home, Configuration("", "", "", "", "", 0),
    [Away EXCEPT !["password"] = "long"], [Home EXCEPT !["password"] = ""] }

NoKeys      == [k \in {} |-> Empty]
Portless    == [k \in TextKeys |-> Away[k]]
LongAway    == [Away EXCEPT !["ssid"] = "long"]
JustNetwork == [k \in {"ssid", "password"} |-> Home[k]]
BadServer   == [k \in {"ssid", "mqtt_server"} |-> IF k = "ssid" THEN "b" ELSE Bad]
BadPort     == [k \in {"mqtt_port"} |-> Bad]

MCRequests ==
  { [uri |-> "/", doc |-> NoBody],
    [uri |-> "/config", doc |-> Home],
    [uri |-> "/config", doc |-> LongAway],
    [uri |-> "/config", doc |-> Portless],
    [uri |-> "/update_config", doc |-> NotJson],
    [uri |-> "/update_config", doc |-> JustNetwork],
    [uri |-> "/update_config", doc |-> BadServer] }

MCMessages ==
  { [topic |-> "config",  doc |-> Away,    action |-> "missing"],
    [topic |-> "config",  doc |-> BadPort, action |-> "missing"],
    [topic |-> "config",  doc |-> BadServer, action |-> "missing"],
    [topic |-> "config",  doc |-> NotJson, action |-> "missing"],
    [topic |-> "command", doc |-> NoKeys,  action |-> "ON"],
    [topic |-> "command", doc |-> NoKeys,  action |-> "OFF"],
    [topic |-> "command", doc |-> NoKeys,  action |-> "other"] }

\* For the runs with power failures and for the temporal ones.
FewStores   == { EmptyStore, Home }
FewRequests == { [uri |-> "/", doc |-> NoBody],
                 [uri |-> "/config", doc |-> LongAway],
                 [uri |-> "/update_config", doc |-> JustNetwork] }
FewMessages == { [topic |-> "config",  doc |-> BadPort, action |-> "missing"],
                 [topic |-> "command", doc |-> NoKeys,  action |-> "ON"] }

MCJoins   == { << "a", "a" >>, << "b", "b" >> }
\* Every login the configurations above lead to.
AllBrokers == { "a", "b" } \X { 0, 1883 } \X { "a", "b" } \X { "a", "b" }
MCBrokers == { << "a", 1883, "a", "a" >>, << "b", 1883, "b", "b" >> }
=============================================================================
