-------------------------- MODULE MCWifiServerMqtt --------------------------
(***************************************************************************)
(* WifiServerMqtt on small sets.                                           *)
(***************************************************************************)
EXTENDS WifiServerMqtt

MCStrings == { "", "a", "b", "long", "cut" }
MCCut     == [s \in MCStrings |-> IF s = "long" THEN "cut" ELSE s]
MCPorts   == { 0, 1883, 67419 }

Configuration(s, p, srv, u, q, port) ==
  [k \in Keys |-> CASE k = "ssid"          -> s
                    [] k = "password"      -> p
                    [] k = "mqtt_server"   -> srv
                    [] k = "mqtt_username" -> u
                    [] k = "mqtt_password" -> q
                    [] k = "mqtt_port"     -> port]

MCDefault == Configuration("", "", "a", "a", "a", 1883)
Home      == Configuration("a", "a", "a", "a", "a", 1883)
Away      == Configuration("b", "b", "b", "b", "b", 67419)

\* A new board; two provisioned ones; one whose password another sketch
\* stored uncut.
MCInitialStores == { EmptyStore, Home, Away, [Away EXCEPT !["password"] = "long"] }

LongHome    == [Home EXCEPT !["ssid"] = "long"]
Portless    == [k \in TextKeys |-> Away[k]]
JustNetwork == [k \in {"ssid", "password"} |-> Home[k]]
JustName    == [k \in {"ssid", "mqtt_port"} |-> IF k = "ssid" THEN "b" ELSE Bad]
BadServer   == [k \in {"mqtt_server"} |-> Bad]

MCRequests ==
  { [uri |-> "/", doc |-> NoBody],
    [uri |-> "/current_config", doc |-> NoBody],
    [uri |-> "/config", doc |-> Away],
    [uri |-> "/config", doc |-> LongHome],
    [uri |-> "/config", doc |-> Portless],
    [uri |-> "/config_with_payload", doc |-> NotJson],
    [uri |-> "/config_with_payload", doc |-> JustNetwork],
    [uri |-> "/config_with_payload", doc |-> JustName],
    [uri |-> "/config_with_payload", doc |-> BadServer] }

MCJoins   == { << "a", "a" >>, << "b", "b" >>, << "b", "cut" >> }
MCBrokers == { << "a", 1883, "a", "a" >>, << "b", 1883, "b", "b" >> }
=============================================================================
