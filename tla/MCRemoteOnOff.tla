---------------------------- MODULE MCRemoteOnOff ----------------------------
(***************************************************************************)
(* RemoteOnOff with a home, another broker, and documents of each kind.    *)
(***************************************************************************)
EXTENDS RemoteOnOff

MCDefault == [k \in Keys |-> IF k = "mqtt_port" THEN 1883 ELSE "home"]

\* Another server; and a network that is not there, with a text that does not
\* fit, a value of the wrong type, and no port.
Moved == [k \in {"mqtt_server", "mqtt_port"} |->
            IF k = "mqtt_port" THEN 8883 ELSE "other"]
Wrong == [k \in {"ssid", "password", "mqtt_user"} |->
            CASE k = "ssid" -> "other" [] k = "password" -> Bad [] OTHER -> "long"]

MCDocuments == { Moved, Wrong }

MCJoins   == { << "home", "home" >> }
MCBrokers == { << "home", 1883, "home", "home" >>, << "other", 8883, "home", "home" >> }
=============================================================================
