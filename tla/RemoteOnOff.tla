----------------------------- MODULE RemoteOnOff -----------------------------
(***************************************************************************)
(* The switches without a web server, four sketches of one family, and the *)
(* sketch that clears the configuration.  They are flashed one after the   *)
(* other on the same board, and flashing leaves the "config" namespace as  *)
(* it is; two of them are configured over Bluetooth serial as well, and    *)
(* the broker may keep a configuration document (a retained message).      *)
(*                                                                         *)
(*   blth_or_mqtt  mqtt_remote_on_off_with_config_from_blth_or_mqtt.ino    *)
(*   mqtt          mqtt_remote_on_off_with_config.ino                      *)
(*   blth          remote_on_off_with_config_from_blth.ino                 *)
(*   fixed         mqtt_remote_on_off.ino                                  *)
(*   clear         clear_preference_and_wifi_credentials.ino               *)
(***************************************************************************)
EXTENDS Integers, Sequences

CONSTANTS
  Strings,      \* texts that a document or the store may hold
  Empty,        \* ""
  TooLong,      \* the texts that do not fit their global
  Overrun,      \* what a global then reads as: the text and what lies behind it
  Ports,        \* the values of mqtt_port
  Bad,          \* a JSON value of the wrong type for its key
  Absent,       \* the key is not in the store
  None,
  NotJson,      \* a line or a message that does not parse
  Default,      \* the default of every key, the same in the four switches
  DefaultPort,  \* DEFAULT_MQTT_PORT of clear
  Documents,    \* configuration documents: functions from some of the keys
  Actions,      \* the "action" of a command, "missing" if it has no text there
  Joins,        \* the << ssid, password >> that the network lets in
  Brokers,      \* the << server, port, user, password >> a broker lets in
  MaxInbox,     \* bound: messages waiting in the TCP stream
  MaxOutages,   \* bound: power failures
  MaxFlashes    \* bound: sketches flashed after the first

Switches == { "blth_or_mqtt", "mqtt", "blth", "fixed" }
Sketches == Switches \cup { "clear" }
HasSerial(s) == s \in { "blth_or_mqtt", "blth" }

\* The keys in the order in which they are saved; clear has other names for two.
SaveOrder(s) ==
  IF s = "clear"
  THEN << "ssid", "password", "mqtt_server", "mqtt_username", "mqtt_password", "mqtt_port" >>
  ELSE << "ssid", "password", "mqtt_server", "mqtt_user", "mqtt_pass", "mqtt_port" >>

TextKeys == { "ssid", "password", "mqtt_server", "mqtt_user", "mqtt_pass" }
Keys     == TextKeys \cup { "mqtt_port" }
AllKeys  == Keys \cup { "mqtt_username", "mqtt_password" }

ValuesOf(k) == IF k = "mqtt_port" THEN Ports ELSE Strings

Topics(s) == IF s = "fixed" THEN { "command" } ELSE { "command", "config" }

\* What others publish.
Messages ==
  [topic : {"command"}, action : Actions \cup {NotJson}]
    \cup [topic : {"config"}, doc : Documents \cup {NotJson}]

ASSUME RemoteAssumption ==
  /\ Empty \in Strings /\ TooLong \subseteq Strings \ {Empty}
  /\ Overrun \notin Strings
  /\ Ports \subseteq Int /\ {0, DefaultPort} \subseteq Ports
  /\ Bad \notin Strings /\ Bad \notin Ports
  /\ Absent \notin Strings /\ Absent \notin Ports
  /\ Default = [k \in Keys |-> Default[k]]
  /\ \A k \in TextKeys : Default[k] \in Strings \ TooLong
  /\ Default["mqtt_port"] \in Ports
  /\ \A d \in Documents :
       DOMAIN d \subseteq Keys /\ \A k \in DOMAIN d : d[k] \in ValuesOf(k) \cup {Bad}
  /\ None \notin Documents \cup {NotJson} /\ NotJson \notin Documents /\ NotJson \notin Actions
  /\ MaxInbox \in Nat /\ MaxOutages \in Nat /\ MaxFlashes \in Nat

VARIABLES
  sketch,   \* the program in flash
  pc,       \* where setup() or loop() is; "off": clear has nothing left to do
  nvs,      \* the "config" namespace
  cfg,      \* ssid, password, ... in RAM
  update,   \* the document that saveConfig() was called with, or None
  saved,    \* the keys it has written
  sta,      \* WL_CONNECTED: "off", "trying" or "up"
  session,  \* client.connected(), and then subscribed to Topics(sketch)
  inbox,    \* messages delivered to the socket and not read yet
  serial,   \* the line that SerialBT has received, or None
  pin,      \* PIN32 is HIGH
  retained  \* the document that the broker keeps on esp32/config, or None

\* History.
VARIABLES
  settled,  \* the document whose save was the last thing done to nvs, or None
  cleared,  \* preferences.clear() returned TRUE, since the last boot
  wiped,    \* clear was the last to write to nvs, cleared it and came to its end
  outages, flashes

config  == << nvs, cfg, update, saved >>
broker  == << session, inbox >>
history == << settled, cleared, wiped, outages, flashes >>

vars == << sketch, pc, config, sta, broker, serial, pin, retained, history >>

\* Nothing reads the globals before loadConfig(); only those of blth have these
\* initial values.
PowerOn ==
  /\ pc' = "setup"
  /\ cfg' = Default /\ update' = None /\ saved' = 0
  /\ sta' = "off" /\ session' = FALSE /\ inbox' = << >> /\ serial' = None
  /\ pin' = FALSE
  /\ cleared' = FALSE

Init ==
  /\ sketch \in Switches
  /\ pc = "setup"
  /\ nvs = [k \in AllKeys |-> Absent]
  /\ cfg = Default /\ update = None /\ saved = 0
  /\ sta = "off" /\ session = FALSE /\ inbox = << >> /\ serial = None
  /\ pin = FALSE /\ retained = None
  /\ settled = None /\ cleared = FALSE /\ wiped = FALSE /\ outages = 0 /\ flashes = 0

-----------------------------------------------------------------------------
(* The configuration                                                       *)

\* loadConfig().  blth leaves a global as it is if the text does not fit; the
\* others copy what fits, without the terminator.
LoadOf(s, store) ==
  [k \in Keys |->
    IF store[k] = Absent THEN Default[k]
    ELSE IF k \in TextKeys /\ store[k] \in TooLong
         THEN IF s = "blth" THEN Default[k] ELSE Overrun
    ELSE store[k]]

\* MUTANT: what a document does not name is stored as an empty text.
WrittenEmpty(k) ==
  IF sketch = "clear" THEN IF k = "mqtt_port" THEN DefaultPort ELSE Empty
  ELSE IF k \in DOMAIN update /\ update[k] # Bad THEN update[k]
  ELSE IF sketch = "blth" THEN cfg[k]
  ELSE IF k = "mqtt_port" THEN 0 ELSE Empty

\* The value that saveConfig() leaves under the key k: putString() of a null
\* pointer writes nothing, a missing port is 0, and blth falls back on RAM.
Written(k) ==
  IF sketch = "clear" THEN IF k = "mqtt_port" THEN DefaultPort ELSE Empty
  ELSE IF k \in DOMAIN update /\ update[k] # Bad THEN update[k]
  ELSE IF sketch = "blth" THEN cfg[k]
  ELSE IF k = "mqtt_port" THEN 0 ELSE nvs[k]

Take(doc) ==
  /\ update' = doc /\ saved' = 0
  /\ pc' = "saveConfig"
  /\ settled' = IF settled = doc THEN doc ELSE None
  /\ wiped' = FALSE
  /\ UNCHANGED << sketch, nvs, cfg, sta, session, pin, retained, cleared, outages, flashes >>

\* MUTANTS: the last key is left out; one round too many.
LastKeyShort == Len(SaveOrder(sketch)) - 1

LastKeyLong == Len(SaveOrder(sketch)) + 1

LastKey == Len(SaveOrder(sketch))

\* MUTANT: the namespace is cleared first.
SaveKeyCleared ==
  /\ pc = "saveConfig"
  /\ saved' = saved + 1
  /\ nvs' = [IF saved = 0 THEN [k \in AllKeys |-> Absent] ELSE nvs EXCEPT
              ![SaveOrder(sketch)[saved']] = Written(SaveOrder(sketch)[saved'])]
  /\ pc' = IF saved' < LastKey THEN pc
           ELSE IF sketch = "clear" THEN "off" ELSE "restart"
  /\ wiped' = (pc' = "off" /\ cleared)
  /\ UNCHANGED << sketch, cfg, update, sta, broker, serial, pin, retained,
                  settled, cleared, outages, flashes >>

SaveKey ==
  /\ pc = "saveConfig"
  /\ saved' = saved + 1
  /\ nvs' = [nvs EXCEPT ![SaveOrder(sketch)[saved']] = Written(SaveOrder(sketch)[saved'])]
  /\ pc' = IF saved' < LastKey THEN pc
           ELSE IF sketch = "clear" THEN "off" ELSE "restart"
  /\ wiped' = (pc' = "off" /\ cleared)
  /\ UNCHANGED << sketch, cfg, update, sta, broker, serial, pin, retained,
                  settled, cleared, outages, flashes >>

Restart ==
  /\ pc = "restart"
  /\ PowerOn
  /\ settled' = update
  /\ UNCHANGED << sketch, nvs, retained, wiped, outages, flashes >>

-----------------------------------------------------------------------------
(* setup()                                                                 *)

\* MUTANT: nothing is cleared, only the keys that clear itself uses.
ClearNot ==
  /\ pc = "setup" /\ sketch = "clear"
  /\ pc' = "saveConfig"
  /\ settled' = None /\ cleared' = TRUE
  /\ UNCHANGED << sketch, config, sta, broker, serial, pin, retained, wiped, outages,
                  flashes >>

\* preferences.clear(); what is saved next are clear's own defaults.
Clear ==
  /\ pc = "setup" /\ sketch = "clear"
  /\ nvs' = [k \in AllKeys |-> Absent]
  /\ pc' = "saveConfig"
  /\ settled' = None /\ cleared' = TRUE
  /\ UNCHANGED << sketch, cfg, update, saved, sta, broker, serial, pin, retained, wiped,
                  outages, flashes >>

\* clear() fails: that is printed, and the defaults are saved all the same.
ClearFails ==
  /\ pc = "setup" /\ sketch = "clear"
  /\ pc' = "saveConfig"
  /\ settled' = None
  /\ UNCHANGED << sketch, config, sta, broker, serial, pin, retained, cleared, wiped,
                  outages, flashes >>

Setup ==
  /\ pc = "setup" /\ sketch # "clear"
  /\ cfg' = IF sketch = "fixed" THEN Default ELSE LoadOf(sketch, nvs)
  /\ sta' = "trying"
  /\ pc' = "wifi"
  /\ UNCHANGED << sketch, nvs, update, saved, broker, serial, pin, retained, history >>

\* while (WiFi.status() != WL_CONNECTED), without a limit.
WifiDone ==
  /\ pc = "wifi" /\ sta = "up"
  /\ pc' = "loop"
  /\ UNCHANGED << sketch, config, sta, broker, serial, pin, retained, history >>

-----------------------------------------------------------------------------
(* loop()                                                                  *)

LoopStart ==
  /\ pc = "loop"
  /\ pc' = IF session THEN "mqttLoop" ELSE "reconnectMQTT"
  /\ UNCHANGED << sketch, config, sta, broker, serial, pin, retained, history >>

\* connect() succeeds, and the subscriptions; the broker sends what it keeps.  A
\* connect() that fails changes nothing.  (The MQTT client has a 16-bit port.)
Connect ==
  /\ pc = "reconnectMQTT" /\ ~session
  /\ sta = "up"
  /\ << cfg["mqtt_server"], cfg["mqtt_port"] % 65536, cfg["mqtt_user"], cfg["mqtt_pass"] >>
       \in Brokers
  /\ session' = TRUE
  /\ inbox' = IF retained # None /\ "config" \in Topics(sketch)
              THEN << [topic |-> "config", doc |-> retained] >> ELSE << >>
  /\ UNCHANGED << sketch, pc, config, sta, serial, pin, retained, history >>

Reconnected ==
  /\ pc = "reconnectMQTT" /\ session
  /\ pc' = "mqttLoop"
  /\ UNCHANGED << sketch, config, sta, broker, serial, pin, retained, history >>

AfterMqtt == IF HasSerial(sketch) THEN "serial" ELSE "loop"

MqttIdle ==
  /\ pc = "mqttLoop" /\ (~session \/ inbox = << >>)
  /\ pc' = AfterMqtt
  /\ UNCHANGED << sketch, config, sta, broker, serial, pin, retained, history >>

Receive == pc = "mqttLoop" /\ session /\ inbox # << >> /\ inbox' = Tail(inbox)

\* The document may also be too large for the JSON pool.
MqttNotJson ==
  /\ Receive
  /\ pc' = AfterMqtt
  /\ UNCHANGED << sketch, config, sta, session, serial, pin, retained, history >>

MqttConfig ==
  /\ Receive
  /\ Head(inbox).topic = "config" /\ Head(inbox).doc # NotJson
  /\ Take(Head(inbox).doc)
  /\ UNCHANGED serial

\* To blth every action but ON is OFF.  The report that is published next
\* changes nothing here.
MqttCommand ==
  /\ Receive
  /\ Head(inbox).topic = "command" /\ Head(inbox).action # NotJson
  /\ LET action == Head(inbox).action
     IN  pin' = IF action \in {"ON", "OFF"} \/ (sketch = "blth" /\ action # "missing")
                THEN action = "ON" ELSE pin
  /\ pc' = AfterMqtt
  /\ UNCHANGED << sketch, config, sta, session, serial, retained, history >>

\* MUTANT: a line is looked at only while there is no session.
SerialIdleOften ==
  /\ pc = "serial" /\ (serial = None \/ session)
  /\ pc' = "loop"
  /\ UNCHANGED << sketch, config, sta, broker, serial, pin, retained, history >>

SerialIdle ==
  /\ pc = "serial" /\ serial = None
  /\ pc' = "loop"
  /\ UNCHANGED << sketch, config, sta, broker, serial, pin, retained, history >>

SerialNotJson ==
  /\ pc = "serial" /\ serial # None
  /\ serial' = None
  /\ pc' = "loop"
  /\ UNCHANGED << sketch, config, sta, broker, pin, retained, history >>

SerialConfig ==
  /\ pc = "serial" /\ serial \notin {None, NotJson}
  /\ serial' = None
  /\ Take(serial)
  /\ UNCHANGED inbox

Thread ==
  \/ Clear \/ ClearFails \/ Setup \/ WifiDone \/ LoopStart \/ Reconnected
  \/ MqttIdle \/ MqttNotJson \/ MqttConfig \/ MqttCommand
  \/ SerialIdle \/ SerialNotJson \/ SerialConfig
  \/ SaveKey \/ Restart

-----------------------------------------------------------------------------
(* The surroundings                                                        *)

StaUp ==
  /\ sta = "trying"
  /\ << cfg["ssid"], cfg["password"] >> \in Joins
  /\ sta' = "up"
  /\ UNCHANGED << sketch, pc, config, broker, serial, pin, retained, history >>

StaDown ==
  /\ sta = "up"
  /\ sta' = "trying"
  /\ UNCHANGED << sketch, pc, config, broker, serial, pin, retained, history >>

SessionDrop ==
  /\ session
  /\ session' = FALSE /\ inbox' = << >>
  /\ UNCHANGED << sketch, pc, config, sta, serial, pin, retained, history >>

Deliver ==
  /\ session /\ Len(inbox) < MaxInbox
  /\ \E m \in Messages : m.topic \in Topics(sketch) /\ inbox' = Append(inbox, m)
  /\ UNCHANGED << sketch, pc, config, sta, session, serial, pin, retained, history >>

\* Somebody replaces or removes what the broker keeps, while the board is away;
\* what it does while the board is there is Deliver's as well.
Retain ==
  /\ ~session
  /\ retained' \in Documents \cup {None}
  /\ UNCHANGED << sketch, pc, config, sta, broker, serial, pin, history >>

SerialSend ==
  /\ HasSerial(sketch) /\ pc # "setup" /\ serial = None
  /\ serial' \in Documents \cup {NotJson}
  /\ UNCHANGED << sketch, pc, config, sta, broker, pin, retained, history >>

\* The history knows no more what nvs is if a save is cut short.
Cut == settled' = IF pc = "saveConfig" THEN None ELSE settled

PowerLoss ==
  /\ outages < MaxOutages
  /\ outages' = outages + 1
  /\ PowerOn /\ Cut
  /\ UNCHANGED << sketch, nvs, retained, wiped, flashes >>

Flash ==
  /\ flashes < MaxFlashes
  /\ flashes' = flashes + 1
  /\ sketch' \in Sketches \ {sketch}
  /\ settled' = None
  /\ PowerOn
  /\ UNCHANGED << nvs, retained, wiped, outages >>

Surroundings ==
  \/ StaUp \/ StaDown \/ SessionDrop \/ Deliver \/ Retain \/ SerialSend
  \/ PowerLoss \/ Flash

Next == Thread \/ Connect \/ Surroundings

Spec == Init /\ [][Next]_vars
-----------------------------------------------------------------------------
(* Properties                                                              *)

Places == { "setup", "wifi", "loop", "reconnectMQTT", "mqttLoop", "serial",
            "saveConfig", "restart", "off" }

IsStore(s) ==
  s = [k \in AllKeys |-> s[k]] /\ \A k \in AllKeys : s[k] \in ValuesOf(k) \cup {Absent}

IsRam(c) ==
  /\ c = [k \in Keys |-> c[k]]
  /\ \A k \in Keys : c[k] \in ValuesOf(k) \/ (k \in TextKeys /\ c[k] = Overrun)

\* Every variable has a value of its type; a session goes with a configuration
\* that was loaded, and only clear comes to an end.
TypeOK ==
  /\ sketch \in Sketches /\ pc \in Places
  /\ pc = "off" => sketch = "clear"
  /\ sketch = "clear" => pc \in {"setup", "saveConfig", "off"}
  /\ IsStore(nvs) /\ IsRam(cfg)
  /\ update \in Documents \cup {None}
  /\ pc \in {"saveConfig", "restart"} /\ sketch # "clear" => update # None
  /\ saved \in 0 .. 6
  /\ pc = "saveConfig" => saved < 6
  /\ sta \in {"off", "trying", "up"}
  /\ session \in BOOLEAN /\ pin \in BOOLEAN
  /\ cleared \in BOOLEAN /\ wiped \in BOOLEAN
  /\ inbox \in Seq(Messages)
  /\ serial \in Documents \cup {None, NotJson}
  /\ retained \in Documents \cup {None} /\ settled \in Documents \cup {None}
  /\ outages \in 0 .. MaxOutages /\ flashes \in 0 .. MaxFlashes

\* Whatever sketches ran before and wherever power fails, no step changes a text
\* that the running sketch would load, unless the document being saved names it.
\* (A port that is not named becomes 0 in two of the sketches.)
UnnamedKept ==
  [][sketch' = sketch /\ sketch \notin {"clear", "fixed"} =>
       \A k \in TextKeys :
         LoadOf(sketch, nvs')[k] # LoadOf(sketch, nvs)[k] =>
           pc = "saveConfig" /\ k \in DOMAIN update /\ update[k] # Bad]_vars

\* When the board restarts after an update, everything in the document that has
\* the right type and fits is what the sketch is going to load.
TakenInForce ==
  pc = "restart" =>
    \A k \in DOMAIN update :
      update[k] # Bad /\ (k \in TextKeys => update[k] \notin TooLong) =>
        LoadOf(sketch, nvs)[k] = update[k]

\* A retained document that is delivered again after every restart changes
\* nothing any more.
RetainedSettles ==
  [][pc = "saveConfig" /\ update # None /\ update = settled =>
       LoadOf(sketch, nvs') = LoadOf(sketch, nvs)]_vars

\* After clear has run and its clear() has not failed, and until the next update,
\* no key of any sketch has what was stored before.
NothingOldAfterClear ==
  wiped => \A k \in AllKeys :
    nvs[k] \in {Absent, IF k = "mqtt_port" THEN DefaultPort ELSE Empty}

-----------------------------------------------------------------------------
(* Progress                                                                *)

FairSpec == Spec /\ WF_vars(Thread)

\* The network and the broker stop refusing.
Calm ==
  /\ <>[][~StaDown /\ ~SessionDrop]_vars
  /\ WF_vars(StaUp)
  /\ WF_vars(Connect)

Usable ==
  /\ << cfg["ssid"], cfg["password"] >> \in Joins
  /\ << cfg["mqtt_server"], cfg["mqtt_port"] % 65536, cfg["mqtt_user"], cfg["mqtt_pass"] >>
       \in Brokers

\* With a configuration that works, and a calm network, a line sent over
\* Bluetooth is taken (or lost in a restart).
SerialTaken ==
  Calm => (serial # None /\ Usable ~> serial = None)

\* handleBluetoothConfig() is there to correct a configuration that does not.
SerialAlwaysTaken ==
  Calm => (serial # None ~> serial = None)
=============================================================================
