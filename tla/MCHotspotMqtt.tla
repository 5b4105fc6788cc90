--------------------------- MODULE MCHotspotMqtt ---------------------------
(***************************************************************************)
(* HotspotMqtt on small sets.                                              *)
(***************************************************************************)
EXTENDS HotspotMqtt

MCStrings == { "", "a", "b", "long", "cut" }
MCCut     == [s \in MCStrings |-> IF s = "long" THEN "cut" ELSE s]
MCPorts   == { 0, 1883, 67419 }

Configuration(text, port) == [k \in Keys |-> IF k = "mqtt_port" THEN port ELSE text]

MCDefault == Configuration("b", 1883)
MCGlobals == [Configuration("", 0) EXCEPT !["ssid"] = "a", !["password"] = "a"]
Home      == Configuration("a", 1883)

\* A new board, a provisioned one, and one whose port does not fit 16 bits.
MCInitialStores == { EmptyStore, Home, Configuration("a", 67419) }

Renamed  == [k \in {"mqtt_server"} |-> "b"]
TooLong  == [k \in {"password", "mqtt_port"} |-> IF k = "password" THEN "long" ELSE Bad]
BadSsid  == [k \in {"ssid"} |-> Bad]
NoKeys   == [k \in {} |-> Empty]

\* "missing" also stands for the texts that are no action.
MCActions == { "ON", "OFF", "missing" }

Message(t, d, a) == [topic |-> t, doc |-> d, action |-> a]

MCMessages ==
  { Message("command", NoKeys, "ON"), Message("command", NoKeys, "OFF"),
    Message("command", NoKeys, "missing"), Message("command", NotJson, "missing"),
    Message("config", Renamed, "missing"), Message("config", TooLong, "missing"),
    Message("config", BadSsid, "missing"), Message("config", NoKeys, "missing") }

\* One store.
MCHome == { Home }

MCJoins   == { << "a", "a" >> }
MCBrokers == { << "a", 1883, "a", "a" >>, << "b", 1883, "a", "a" >> }
=============================================================================
