----------------------------- MODULE ApWifiMqtt -----------------------------
(***************************************************************************)
(* ap_wifi_plus_mqtt_connection_after_config.ino: a switch that is         *)
(* provisioned over its own access point and commanded over MQTT.          *)
(*                                                                         *)
(* The sketch is one thread, setup() and then loop() for ever; pc is the   *)
(* place where it is.  Around it, and between any two of its steps, the    *)
(* radio gains and loses the network, the broker delivers messages and     *)
(* drops the session, HTTP clients ask and give up, somebody presses the   *)
(* reset button, and the power fails.                                      *)
(***************************************************************************)
EXTENDS DeviceConfig, Sequences

CONSTANTS
  Default,        \* the DEFAULT_... configuration
  InitialStores,  \* what the "config" namespace may hold at the first power-on
  Requests,       \* the HTTP requests that clients send: [uri, doc]
  Messages,       \* the MQTT messages that others publish: [topic, doc, action]
  NoBody,         \* the doc of a request without a body
  NotJson,        \* the doc of a body that does not parse
  NoRequest,      \* no HTTP client is waiting
  Joins,          \* the << ssid, password >> that the network lets in
  Brokers,        \* the << server, port, username, password >> a broker lets in
  MaxAttempts,    \* 20: the attempts connectToWiFi() makes
  TimeoutTicks,   \* 40: its timeout of 20 s, in delays of 500 ms
  DelayTicks,     \* what one delay(500) may take, in the same unit
  MaxInbox,       \* bound: messages waiting in the TCP stream
  MaxOutages      \* bound: power failures

ASSUME SketchAssumption ==
  /\ Fits(Default)
  /\ \A s \in InitialStores : IsStore(s)
  /\ \A r \in Requests : r.doc \in {NoBody, NotJson} \/ IsDoc(r.doc)
  /\ \A m \in Messages : m.doc = NotJson \/ IsDoc(m.doc)
  /\ NoRequest \notin Requests
  /\ MaxAttempts \in Nat \ {0}
  /\ TimeoutTicks \in Nat
  /\ DelayTicks \subseteq Nat \ {0}
  /\ MaxInbox \in Nat
  /\ MaxOutages \in Nat

VARIABLES
  pc,          \* where setup() or loop() is
  nvs,         \* the "config" namespace in flash
  cfg,         \* ssid, password, mqtt_server, ... in RAM
  brokerPort,  \* the port setServer() copied into the MQTT client
  begun,       \* the << ssid, password >> WiFi.begin() was called with, or None
  sta,         \* the station: "off", "trying" or "up" (WL_CONNECTED)
  ap,          \* the access point ESP32_Config is on the air
  attempts,    \* connectToWiFi()'s counter
  elapsed,     \* the time since it started
  session,     \* mqttClient.connected()
  subs,        \* the topics subscribed to in this session
  inbox,       \* messages delivered to the socket and not read yet
  report,      \* the last thing published on esp32/status in this session
  pin,         \* OUTPUT_PIN is HIGH
  answer,      \* what publish() is about to send
  button,      \* RESET_PIN is LOW
  request,     \* the request of the HTTP client that is waiting, or NoRequest
  reply,       \* what the last HTTP client was told
  saved,       \* the keys saveConfiguration() has written, a prefix of SaveOrder
  caller       \* who called handleConfigurationUpdate(): "mqtt", "http", or
               \* "gone", an HTTP client that did not wait for the reply

\* History: what the outside may rely on.  No step of the sketch reads it.
VARIABLES
  committed,   \* nvs as it was before the save that is under way, if one is
  asked,       \* the configuration that an update in progress was asked for
  promised,    \* the configuration the last "updated" reply was about
  outages      \* power failures so far

radio   == << begun, sta, ap, attempts, elapsed >>
broker  == << session, subs, inbox, report >>
config  == << nvs, cfg, brokerPort, saved, caller >>
client  == << request, reply >>
history == << committed, asked, promised, outages >>

vars == << pc, config, radio, broker, pin, answer, button, client, history >>

-----------------------------------------------------------------------------
\* The MQTT client keeps the port in a uint16_t.
PortLimit == 65536

Login == << cfg["mqtt_server"], brokerPort, cfg["mqtt_username"], cfg["mqtt_password"] >>

\* RAM and radio after a reset of any kind.
PowerOn ==
  /\ pc' = "setup"
  /\ cfg' = [k \in Keys |-> IF k = "mqtt_port" THEN Default[k] ELSE Empty]
  /\ brokerPort' = 0
  /\ saved' = 0
  /\ caller' = "none"
  /\ begun' = None
  /\ sta' = "off"
  /\ ap' = FALSE
  /\ attempts' = 0
  /\ elapsed' = 0
  /\ session' = FALSE
  /\ subs' = {}
  /\ inbox' = << >>
  /\ report' = "none"
  /\ pin' = FALSE
  /\ answer' = "none"

\* ESP.restart(), or the panic handler's.  The HTTP client's connection ends.
Reboot ==
  /\ PowerOn
  /\ request' = NoRequest
  /\ asked' = None
  /\ UNCHANGED << nvs, button, reply, committed, promised, outages >>

Init ==
  /\ pc = "setup"
  /\ nvs \in InitialStores
  /\ cfg = [k \in Keys |-> IF k = "mqtt_port" THEN Default[k] ELSE Empty]
  /\ brokerPort = 0
  /\ saved = 0
  /\ caller = "none"
  /\ begun = None
  /\ sta = "off"
  /\ ap = FALSE
  /\ attempts = 0
  /\ elapsed = 0
  /\ session = FALSE
  /\ subs = {}
  /\ inbox = << >>
  /\ report = "none"
  /\ pin = FALSE
  /\ answer = "none"
  /\ button = FALSE
  /\ request = NoRequest
  /\ reply = "none"
  /\ committed = nvs
  /\ asked = None
  /\ promised = None
  /\ outages = 0

-----------------------------------------------------------------------------
(* setup()                                                                 *)

\* MUTANT: only an empty ssid is looked for.
SetupSsidOnly ==
  /\ pc = "setup"
  /\ cfg' = Load(nvs, Default)
  /\ IF cfg'["ssid"] = Empty
     THEN /\ ap' = TRUE
          /\ pc' = "setupMQTT"
          /\ UNCHANGED << begun, sta >>
     ELSE /\ begun' = << cfg'["ssid"], cfg'["password"] >>
          /\ sta' = "trying"
          /\ pc' = "connectToWiFi"
          /\ UNCHANGED ap
  /\ UNCHANGED << nvs, brokerPort, saved, caller, attempts, elapsed,
                  broker, pin, answer, button, client, history >>

\* loadConfiguration(), and the choice between access point and station.
Setup ==
  /\ pc = "setup"
  /\ cfg' = Load(nvs, Default)
  /\ IF Empty \in {cfg'["ssid"], cfg'["password"]}
     THEN /\ ap' = TRUE
          /\ pc' = "setupMQTT"
          /\ UNCHANGED << begun, sta >>
     ELSE /\ begun' = << cfg'["ssid"], cfg'["password"] >>
          /\ sta' = "trying"
          /\ pc' = "connectToWiFi"
          /\ UNCHANGED ap
  /\ UNCHANGED << nvs, brokerPort, saved, caller, attempts, elapsed,
                  broker, pin, answer, button, client, history >>

\* connectToWiFi(): the guard of its loop.
WifiGuard ==
  /\ pc = "connectToWiFi"
  /\ pc' = IF sta # "up" /\ elapsed < TimeoutTicks THEN "delay" ELSE "connectDone"
  /\ UNCHANGED << config, radio, broker, pin, answer, button, client, history >>

\* The body: delay(500), and the access point after the last attempt whatever
\* the station's status is by now.
WifiAttempt ==
  /\ pc = "delay"
  /\ attempts' = attempts + 1
  /\ \E d \in DelayTicks : elapsed' = elapsed + d
  /\ IF attempts' >= MaxAttempts
     THEN ap' = TRUE /\ pc' = "setupMQTT"
     ELSE pc' = "connectToWiFi" /\ UNCHANGED ap
  /\ UNCHANGED << begun, sta, config, broker, pin, answer, button, client, history >>

\* MUTANT: no access point after a timeout.
WifiDoneNoElse ==
  /\ pc = "connectDone"
  /\ ap' = ap
  /\ pc' = "setupMQTT"
  /\ UNCHANGED << begun, sta, attempts, elapsed, config, broker, pin, answer,
                  button, client, history >>

\* After the loop: the status is read once more.
WifiDone ==
  /\ pc = "connectDone"
  /\ ap' = (sta # "up")
  /\ pc' = "setupMQTT"
  /\ UNCHANGED << begun, sta, attempts, elapsed, config, broker, pin, answer,
                  button, client, history >>

\* MUTANT: the port is not cut to 16 bits.
SetupMQTTWide ==
  /\ pc = "setupMQTT"
  /\ brokerPort' = cfg["mqtt_port"]
  /\ attempts' = 0  \* these two were locals of connectToWiFi()
  /\ elapsed' = 0
  /\ pc' = "loop"
  /\ UNCHANGED << nvs, cfg, saved, caller, begun, sta, ap, broker, pin, answer,
                  button, client, history >>

\* setServer() keeps a pointer to the server's name and a uint16_t of the port.
SetupMQTT ==
  /\ pc = "setupMQTT"
  /\ brokerPort' = cfg["mqtt_port"] % PortLimit
  /\ attempts' = 0  \* these two were locals of connectToWiFi()
  /\ elapsed' = 0
  /\ pc' = "loop"
  /\ UNCHANGED << nvs, cfg, saved, caller, begun, sta, ap, broker, pin, answer,
                  button, client, history >>

-----------------------------------------------------------------------------
(* loop() and reconnectMQTT()                                              *)

\* MUTANT: reconnectMQTT() with no network.
LoopStartAnyNetwork ==
  /\ pc = "loop"
  /\ pc' = IF session THEN "mqttLoop" ELSE "reconnectMQTT"
  /\ UNCHANGED << config, radio, broker, pin, answer, button, client, history >>

LoopStart ==
  /\ pc = "loop"
  /\ pc' = CASE sta # "up"            -> "handleClient"
             [] sta = "up" /\ session -> "mqttLoop"
             [] OTHER                 -> "reconnectMQTT"
  /\ UNCHANGED << config, radio, broker, pin, answer, button, client, history >>

\* A successful connect().  A failing one delays 5 s and changes nothing.
Connect ==
  /\ pc = "reconnectMQTT"
  /\ ~session
  /\ sta = "up"
  /\ Login \in Brokers
  /\ session' = TRUE
  /\ subs' = {}
  /\ inbox' = << >>
  /\ report' = "none"
  /\ pc' = "subscribeCommand"
  /\ UNCHANGED << config, radio, pin, answer, button, client, history >>

\* subscribe() does nothing when the session is gone, and nobody looks.
Subscribe(at, topic, next) ==
  /\ pc = at
  /\ subs' = IF session THEN subs \cup {topic} ELSE subs
  /\ pc' = next
  /\ UNCHANGED << session, inbox, report, config, radio, pin, answer, button,
                  client, history >>

\* MUTANT: the second subscribe() is missing.
SubscribeCommandOnly == Subscribe("subscribeCommand", "command", "reconnectMQTT")

SubscribeCommand == Subscribe("subscribeCommand", "command", "subscribeConfig")
SubscribeConfig  == Subscribe("subscribeConfig", "config", "reconnectMQTT")

\* while (!mqttClient.connected()) is over.
Reconnected ==
  /\ pc = "reconnectMQTT"
  /\ session
  /\ pc' = "mqttLoop"
  /\ UNCHANGED << config, radio, broker, pin, answer, button, client, history >>

-----------------------------------------------------------------------------
(* handleConfigurationUpdate(), called from two places                     *)

\* The keys present are copied to RAM; the save starts.  A value that is not a
\* text panics before anything is saved.  rest is what is left in the socket.
Update(doc, who, rest) ==
  IF Panics(doc)
  THEN Reboot
  ELSE /\ asked' = Requested(cfg, doc)
       /\ cfg' = Fitted(asked')
       /\ caller' = who
       /\ saved' = 0
       /\ promised' = None
       /\ inbox' = rest
       /\ request' = IF who = "http" THEN NoRequest ELSE request
       /\ pc' = "saveConfiguration"
       /\ UNCHANGED << nvs, brokerPort, radio, session, subs, report, pin,
                       answer, button, reply, committed, outages >>

\* MUTANT: the port is not written.
SaveKeyNoPort ==
  /\ pc = "saveConfiguration"
  /\ saved' = saved + 1
  /\ nvs' = [nvs EXCEPT ![SaveOrder[saved']] = cfg[SaveOrder[saved']]]
  /\ IF saved' = Len(SaveOrder) - 1
     THEN committed' = nvs' /\ pc' = "updated"
     ELSE UNCHANGED << committed, pc >>
  /\ UNCHANGED << cfg, brokerPort, caller, radio, broker, pin, answer, button,
                  client, asked, promised, outages >>

\* saveConfiguration(): one putString() or putInt() after the other.
SaveKey ==
  /\ pc = "saveConfiguration"
  /\ saved' = saved + 1
  /\ nvs' = [nvs EXCEPT ![SaveOrder[saved']] = cfg[SaveOrder[saved']]]
  /\ IF saved' = Len(SaveOrder)
     THEN committed' = nvs' /\ pc' = "updated"
     ELSE UNCHANGED << committed, pc >>
  /\ UNCHANGED << cfg, brokerPort, caller, radio, broker, pin, answer, button,
                  client, asked, promised, outages >>

\* setupMQTT() again; the HTTP handler then replies "updated".
Updated ==
  /\ pc = "updated"
  /\ brokerPort' = cfg["mqtt_port"] % PortLimit
  /\ IF caller = "http"
     THEN reply' = "updated" /\ promised' = asked
     ELSE UNCHANGED << reply, promised >>
  /\ pc' = "restart"
  /\ UNCHANGED << nvs, cfg, saved, caller, radio, broker, pin, answer, button,
                  request, committed, asked, outages >>

\* MUTANT: no restart after an update.
RestartNot ==
  /\ pc = "restart"
  /\ pc' = "loop"
  /\ asked' = None
  /\ UNCHANGED << config, radio, broker, pin, answer, button, client, committed,
                  promised, outages >>

\* delay(1000); ESP.restart()
Restart == pc = "restart" /\ Reboot

-----------------------------------------------------------------------------
(* mqttClient.loop() and mqttCallback()                                    *)

\* Nothing to read, or the session is gone.
MqttIdle ==
  /\ pc = "mqttLoop"
  /\ ~session \/ inbox = << >>
  /\ pc' = "handleClient"
  /\ UNCHANGED << config, radio, broker, pin, answer, button, client, history >>

\* loop() reads one message.
Receive(topic) ==
  /\ pc = "mqttLoop"
  /\ session
  /\ inbox # << >>
  /\ Head(inbox).topic = topic

MqttNotJson ==
  /\ \E t \in {"command", "config"} : Receive(t)
  /\ Head(inbox).doc = NotJson
  /\ inbox' = Tail(inbox)
  /\ pc' = "handleClient"
  /\ UNCHANGED << session, subs, report, config, radio, pin, answer, button,
                  client, history >>

MqttConfig ==
  /\ Receive("config")
  /\ Head(inbox).doc # NotJson
  /\ Update(Head(inbox).doc, "mqtt", Tail(inbox))

\* MUTANT: OFF does not reach the pin.
MqttCommandNoOff ==
  /\ Receive("command")
  /\ Head(inbox).doc # NotJson
  /\ inbox' = Tail(inbox)
  /\ LET action == Head(inbox).action
     IN  IF action \in {"ON", "OFF"}
         THEN pin' = (pin \/ action = "ON") /\ answer' = action
         ELSE answer' = "error" /\ UNCHANGED pin
  /\ pc' = "publish"
  /\ UNCHANGED << session, subs, report, config, radio, button, client, history >>

\* The pin is set; the status is still to be published.
MqttCommand ==
  /\ Receive("command")
  /\ Head(inbox).doc # NotJson
  /\ inbox' = Tail(inbox)
  /\ LET action == Head(inbox).action
     IN  IF action \in {"ON", "OFF"}
         THEN pin' = (action = "ON") /\ answer' = action
         ELSE answer' = "error" /\ UNCHANGED pin
  /\ pc' = "publish"
  /\ UNCHANGED << session, subs, report, config, radio, button, client, history >>

\* publish() does nothing when the session is gone, and nobody looks.
Publish ==
  /\ pc = "publish"
  /\ report' = IF session THEN answer ELSE report
  /\ answer' = "none"
  /\ pc' = "handleClient"
  /\ UNCHANGED << session, subs, inbox, config, radio, pin, button, client, history >>

-----------------------------------------------------------------------------
(* server.handleClient() and handleReset()                                 *)

\* MUTANT: handleReset() is not called.
HttpIdleAgain ==
  /\ pc = "handleClient"
  /\ request = NoRequest
  /\ pc' = "loop"
  /\ UNCHANGED << config, radio, broker, pin, answer, button, client, history >>

HttpIdle ==
  /\ pc = "handleClient"
  /\ request = NoRequest
  /\ pc' = "handleReset"
  /\ UNCHANGED << config, radio, broker, pin, answer, button, client, history >>

\* A handler that replies and changes nothing.
HttpAnswer(what) ==
  /\ reply' = what
  /\ request' = NoRequest
  /\ pc' = "handleReset"
  /\ UNCHANGED << config, radio, broker, pin, answer, button, history >>

HttpRoot ==
  /\ pc = "handleClient"
  /\ request # NoRequest
  /\ request.uri = "/"
  /\ HttpAnswer("running")

\* GET /config has all six arguments; POST /update_config has a JSON body.
Acceptable(r) ==
  /\ r.doc \notin {NoBody, NotJson}
  /\ r.uri = "/config" => DOMAIN r.doc = Keys

HttpRefused ==
  /\ pc = "handleClient"
  /\ request # NoRequest
  /\ request.uri \in {"/config", "/update_config"}
  /\ ~Acceptable(request)
  /\ HttpAnswer("error")

HttpConfig ==
  /\ pc = "handleClient"
  /\ request # NoRequest
  /\ request.uri \in {"/config", "/update_config"}
  /\ Acceptable(request)
  /\ Update(request.doc, "http", inbox)

ResetIdle ==
  /\ pc = "handleReset"
  /\ ~button
  /\ pc' = "loop"
  /\ UNCHANGED << config, radio, broker, pin, answer, button, client, history >>

\* MUTANT: no restart after the clear().
ResetConfigNoRestart ==
  /\ pc = "handleReset"
  /\ button
  /\ nvs' = EmptyStore
  /\ committed' = nvs'
  /\ promised' = None
  /\ pc' = "loop"
  /\ UNCHANGED << cfg, brokerPort, saved, caller, radio, broker, pin, answer,
                  button, client, asked, outages >>

\* preferences.clear(), then ESP.restart().
ResetConfig ==
  /\ pc = "handleReset"
  /\ button
  /\ nvs' = EmptyStore
  /\ committed' = nvs'
  /\ promised' = None
  /\ pc' = "restart"
  /\ UNCHANGED << cfg, brokerPort, saved, caller, radio, broker, pin, answer,
                  button, client, asked, outages >>

Thread ==
  \/ Setup \/ WifiGuard \/ WifiAttempt \/ WifiDone \/ SetupMQTT
  \/ LoopStart \/ SubscribeCommand \/ SubscribeConfig \/ Reconnected
  \/ SaveKey \/ Updated \/ Restart
  \/ MqttIdle \/ MqttNotJson \/ MqttConfig \/ MqttCommand \/ Publish
  \/ HttpIdle \/ HttpRoot \/ HttpRefused \/ HttpConfig
  \/ ResetIdle \/ ResetConfig

-----------------------------------------------------------------------------
(* The surroundings                                                        *)

\* The station gets an address, at the first try or when it tries again.
StaUp ==
  /\ sta = "trying"
  /\ begun \in Joins
  /\ sta' = "up"
  /\ UNCHANGED << pc, begun, ap, attempts, elapsed, config, broker, pin, answer,
                  button, client, history >>

StaDown ==
  /\ sta = "up"
  /\ sta' = "trying"
  /\ UNCHANGED << pc, begun, ap, attempts, elapsed, config, broker, pin, answer,
                  button, client, history >>

\* The MQTT session ends, and with it what was in flight.
SessionDrop ==
  /\ session
  /\ session' = FALSE
  /\ subs' = {}
  /\ inbox' = << >>
  /\ report' = "none"
  /\ UNCHANGED << pc, config, radio, pin, answer, button, client, history >>

Deliver ==
  /\ session
  /\ sta = "up"
  /\ Len(inbox) < MaxInbox
  /\ \E m \in Messages : m.topic \in subs /\ inbox' = Append(inbox, m)
  /\ UNCHANGED << pc, session, subs, report, config, radio, pin, answer, button,
                  client, history >>

\* server.begin() has been called and a client can reach the board.
HttpRequest ==
  /\ pc \notin {"setup", "connectToWiFi", "delay", "connectDone", "setupMQTT"}
  /\ request = NoRequest
  /\ ap \/ sta = "up"
  /\ request' \in Requests
  /\ reply' = "none"
  /\ UNCHANGED << pc, config, radio, broker, pin, answer, button, history >>

\* The client that waits, or the one being served, closes its connection.
HttpGiveUp ==
  /\ \/ request # NoRequest /\ request' = NoRequest /\ UNCHANGED caller
     \/ caller = "http" /\ caller' = "gone" /\ UNCHANGED request
  /\ UNCHANGED << pc, nvs, cfg, brokerPort, saved, radio, broker, pin, answer,
                  button, reply, history >>

Press ==
  /\ ~button
  /\ button' = TRUE
  /\ UNCHANGED << pc, config, radio, broker, pin, answer, client, history >>

Release ==
  /\ button
  /\ button' = FALSE
  /\ UNCHANGED << pc, config, radio, broker, pin, answer, client, history >>

PowerLoss ==
  /\ outages < MaxOutages
  /\ outages' = outages + 1
  /\ PowerOn
  /\ request' = NoRequest
  /\ asked' = None
  /\ committed' = nvs
  /\ UNCHANGED << nvs, button, reply, promised >>

Surroundings ==
  \/ StaUp \/ StaDown \/ SessionDrop \/ Deliver
  \/ HttpRequest \/ HttpGiveUp \/ Press \/ Release \/ PowerLoss

Next == Thread \/ Connect \/ Surroundings

Spec == Init /\ [][Next]_vars
-----------------------------------------------------------------------------
(* Properties                                                              *)

SetupPlaces  == { "setup", "connectToWiFi", "delay", "connectDone", "setupMQTT" }
LoopPlaces   == { "loop", "reconnectMQTT", "subscribeCommand", "subscribeConfig",
                  "mqttLoop", "publish", "handleClient", "handleReset" }
UpdatePlaces == { "saveConfiguration", "updated", "restart" }

Topics  == { "command", "config" }
Answers == { "none", "ON", "OFF", "error" }

PlaceType ==
  /\ pc \in SetupPlaces \cup LoopPlaces \cup UpdatePlaces
  /\ pc \in {"setup", "connectToWiFi", "delay"} => attempts < MaxAttempts
  /\ pc = "saveConfiguration" => saved < Len(SaveOrder)

ConfigType ==
  /\ IsStore(nvs)
  /\ IsConfig(cfg)
  /\ brokerPort \in 0 .. PortLimit - 1
  /\ saved \in 0 .. Len(SaveOrder)
  /\ caller \in {"none", "http", "mqtt", "gone"}

RadioType ==
  /\ begun = None \/ begun \in Strings \X Strings
  /\ sta \in {"off", "trying", "up"}
  /\ ap \in BOOLEAN
  /\ attempts \in 0 .. MaxAttempts
  /\ elapsed \in Nat

BrokerType ==
  /\ session \in BOOLEAN
  /\ subs \subseteq Topics
  /\ inbox \in Seq(Messages)
  /\ Len(inbox) <= MaxInbox
  /\ report \in Answers

PinType == pin \in BOOLEAN /\ answer \in Answers /\ button \in BOOLEAN

ClientType ==
  /\ request \in Requests \cup {NoRequest}
  /\ reply \in {"none", "running", "updated", "error"}

HistoryType ==
  /\ IsStore(committed)
  /\ asked = None \/ IsConfig(asked)
  /\ promised = None \/ IsConfig(promised)
  /\ outages \in 0 .. MaxOutages

\* Every variable has a value of its type, the counters stay below the limits
\* that end their loops, and the broker's port fits the 16 bits it is given.
TypeOK ==
  /\ PlaceType /\ ConfigType /\ RadioType /\ BrokerType
  /\ PinType /\ ClientType /\ HistoryType

\* An update is all in RAM before the first key is written; a save that has
\* come to any key leaves the keys up to there new and the others as they were;
\* no promise is made, and none is outstanding, before the last key is written.
UpdateInv ==
  /\ asked # None => pc \in UpdatePlaces
  /\ pc \in {"saveConfiguration", "updated"} =>
       asked # None /\ cfg = Fitted(asked) /\ promised = None
  /\ pc = "saveConfiguration" =>
       \A i \in 1 .. Len(SaveOrder) :
         nvs[SaveOrder[i]] = IF i <= saved THEN cfg[SaveOrder[i]]
                                           ELSE committed[SaveOrder[i]]
  /\ pc \in {"updated", "restart"} /\ asked # None => nvs = Fitted(asked)
  /\ pc # "saveConfiguration" => committed = nvs

\* A client that was told "updated" finds its configuration in flash, cut to
\* the buffers' size, through restarts, power failures and partial or broken
\* documents, until another update or the reset button.
PromiseKept == promised # None => nvs = Fitted(promised)

\* While loop() runs, RAM holds what flash holds: no handler leaves an update
\* in RAM that the next boot would not find, or the other way round.
RamMirrorsFlash == pc \in LoopPlaces => cfg = Load(nvs, Default)

\* Whenever the sketch serves, the MQTT client is configured from the
\* configuration in flash, and an open session was accepted for it.
SessionUsesConfig ==
  pc \in LoopPlaces =>
    /\ brokerPort = Load(nvs, Default)["mqtt_port"] % PortLimit
    /\ session => Login \in Brokers

\* A session that loop() works with is subscribed to both topics, whatever
\* drops of the session came between connect() and the two subscribe() calls.
SubscribedWhenServing ==
  /\ session
  /\ pc \in LoopPlaces \ {"subscribeCommand", "subscribeConfig"}
  => subs = Topics

\* The last switch state published in this session is the state of the pin.
ReportTrue ==
  session /\ pc # "publish" =>
    (report = "ON" => pin) /\ (report = "OFF" => ~pin)

\* The station only ever uses credentials that were in flash at boot, and a
\* board without credentials does not leave setup() without its access point.
WayIn ==
  pc \in LoopPlaces =>
    IF Empty \in {cfg["ssid"], cfg["password"]}
    THEN ap /\ sta = "off"
    ELSE sta # "off" /\ begun = << cfg["ssid"], cfg["password"] >>

\* connectToWiFi() ends with the network or with the access point: its last
\* step leaves the access point down only if the station is up in that step.
NeverStranded ==
  [][(pc # "setupMQTT" /\ pc' = "setupMQTT") => (ap' \/ sta' = "up")]_vars

\* The store as the outside sees it: a save takes effect when it is complete.
Stored == IF pc = "saveConfiguration" THEN committed ELSE nvs

Store == INSTANCE ConfigStore WITH stored <- Stored

\* Six separate writes to flash, two callers, restarts and power failures do
\* for a client what ConfigStore promises it.
ImplementsStore == Store!Spec

-----------------------------------------------------------------------------
(* Progress.  The sketch's thread runs on: that is all its code can give.  *)
(* A connect() that fails is a stuttering step, so Thread is without it.   *)

FairSpec == Spec /\ WF_vars(Thread)

\* A configuration for which a client was told "updated" is what the board
\* then loads and gives to its radio, unless something replaces it before.
PromiseApplied ==
  promised # None ~>
    \/ promised = None
    \/ /\ pc \in LoopPlaces
       /\ cfg = Fitted(promised)
       /\ begun = IF Empty \in {cfg["ssid"], cfg["password"]} THEN None
                  ELSE << cfg["ssid"], cfg["password"] >>

\* reconnectMQTT() has no way out but success, so what comes after it in loop()
\* needs a network and a broker that stop refusing.
Calm ==
  /\ <>[][~StaDown /\ ~SessionDrop]_vars
  /\ WF_vars(StaUp)
  /\ WF_vars(Connect)

\* With a calm network every HTTP request is taken off the queue.
HttpAnswered == Calm => (request # NoRequest ~> request = NoRequest)

\* Configurations, good or bad, stop coming: each restarts the board before
\* its loop() gets to the button.
Quiet == <>[][~MqttConfig /\ ~HttpConfig]_vars

\* With a calm and quiet network a reset button that is held empties the store.
ResetHonoured == Calm /\ Quiet => (button ~> (~button \/ nvs = EmptyStore))

=============================================================================
