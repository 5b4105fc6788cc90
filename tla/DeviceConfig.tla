---------------------------- MODULE DeviceConfig ----------------------------
(***************************************************************************)
(* The configuration record that the provisioning sketches keep in RAM and *)
(* in the "config" namespace of the ESP32's non-volatile storage: five     *)
(* texts and a port number.  This module has no state; the sketches and    *)
(* the abstract store are written over its operators.                      *)
(*                                                                         *)
(* Texts are members of a finite set.  What matters about one is whether   *)
(* it is empty and whether it fits the 32-byte global it is copied to.     *)
(***************************************************************************)
EXTENDS Integers

CONSTANTS
  Strings,  \* the texts a client may send or a store may hold
  Empty,    \* ""
  Cut,      \* Cut[s]: what strncpy(dst, s, sizeof(dst) - 1) leaves in dst
  Ports,    \* the values of mqtt_port, an int
  Bad,      \* a JSON value of the wrong type for its key
  Absent,   \* the key is not in the store
  None      \* no configuration (a value that is not one)

\* The keys, in the order saveConfiguration() writes them.
SaveOrder == << "ssid", "password", "mqtt_server",
                "mqtt_username", "mqtt_password", "mqtt_port" >>

Keys == { "ssid", "password", "mqtt_server",
          "mqtt_username", "mqtt_password", "mqtt_port" }

TextKeys == Keys \ {"mqtt_port"}

ValuesOf(k) == IF k = "mqtt_port" THEN Ports ELSE Strings

ASSUME ConfigAssumption ==
  /\ Empty \in Strings
  /\ Cut \in [Strings -> Strings]
  /\ Cut[Empty] = Empty
  /\ \A s \in Strings : Cut[Cut[s]] = Cut[s]
  /\ Ports \subseteq Int
  /\ 0 \in Ports
  /\ Bad \notin Strings /\ Bad \notin Ports
  /\ Absent \notin Strings /\ Absent \notin Ports
  /\ None \notin [Keys -> Strings \cup Int]

\* c is a complete configuration.
IsConfig(c) ==
  /\ c = [k \in Keys |-> c[k]]
  /\ \A k \in Keys : c[k] \in ValuesOf(k)

\* s is a possible content of the "config" namespace.
IsStore(s) ==
  /\ s = [k \in Keys |-> s[k]]
  /\ \A k \in Keys : s[k] \in ValuesOf(k) \cup {Absent}

EmptyStore == [k \in Keys |-> Absent]

-----------------------------------------------------------------------------
\* The value of key k as the 32-byte global of that name holds it.
Fit(k, v) == IF k = "mqtt_port" THEN v ELSE Cut[v]

Fitted(c) == [k \in Keys |-> Fit(k, c[k])]

\* A configuration that fits the globals.
Fits(c) == IsConfig(c) /\ Fitted(c) = c

\* loadConfiguration(): each key from the store, or its default.
Load(s, default) ==
  [k \in Keys |-> IF s[k] = Absent THEN Fit(k, default[k]) ELSE Fit(k, s[k])]

\* A number expected, something else found: ArduinoJson converts to 0.
Number(v) == IF v = Bad THEN 0 ELSE v

\* The configuration the document asks for: the keys it has replace ours.
Requested(c, doc) ==
  [k \in Keys |-> IF k \notin DOMAIN doc THEN c[k]
                  ELSE IF k = "mqtt_port" THEN Number(doc[k])
                  ELSE doc[k]]

\* A text expected, something else found: the conversion to const char*
\* yields a null pointer, and strncpy() from it is a panic, i.e. a reboot.
Panics(doc) == \E k \in TextKeys \cap DOMAIN doc : doc[k] = Bad

\* A document with values of the types its keys have, or Bad.
IsDoc(doc) ==
  /\ DOMAIN doc \subseteq Keys
  /\ \A k \in DOMAIN doc : doc[k] \in ValuesOf(k) \cup {Bad}
=============================================================================
