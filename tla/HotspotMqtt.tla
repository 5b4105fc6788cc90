---------------------------- MODULE HotspotMqtt ----------------------------
(***************************************************************************)
(* esp32_hotspot_mqtt_remote_on_off.ino (from line 509 on; what is above   *)
(* is commented out): access point and station at the same time, and a     *)
(* switch that MQTT and HTTP both work.  loop() begins with reconnectMQTT(),*)
(* network or no network.                                                  *)
(***************************************************************************)
EXTENDS DeviceConfig, Sequences

CONSTANTS
  Default,        \* the DEFAULT_... configuration
  Globals,        \* what the globals hold before loadConfiguration()
  InitialStores,  \* what the "config" namespace may hold at the first power-on
  Actions,        \* the "action" of a document, "missing" if it has no text there
  Messages,       \* the MQTT messages that others publish: [topic, doc, action]
  NotJson,        \* a body or a message that does not parse
  NoRequest,      \* no HTTP client is waiting
  Joins,          \* the << ssid, password >> that the network lets in
  Brokers,        \* the << server, port, username, password >> a broker lets in
  TimeoutTicks,   \* 40: the timeout of 20 s, in delays of 500 ms
  MaxInbox,       \* bound: messages waiting in the TCP stream
  MaxOutages      \* bound: power failures

\* What an HTTP client asks for: GET / or POST /action.
Requests == { "/", NotJson } \cup Actions

ASSUME HotspotAssumption ==
  /\ Fits(Default) /\ IsConfig(Globals)
  /\ \A s \in InitialStores : IsStore(s)
  /\ {"ON", "OFF"} \subseteq Actions /\ "/" \notin Actions /\ NotJson \notin Actions
  /\ \A m \in Messages : m.doc = NotJson \/ (IsDoc(m.doc) /\ m.action \in Actions)
  /\ NoRequest \notin Requests
  /\ TimeoutTicks \in Nat /\ MaxInbox \in Nat /\ MaxOutages \in Nat

VARIABLES
  pc,        \* where setup() or loop() is
  nvs,       \* the "config" namespace in flash
  cfg,       \* ssid, password, mqtt_server, ... in RAM
  saved,     \* the keys saveConfiguration() has written
  begun,     \* the << ssid, password >> WiFi.begin() was called with, or None
  sta,       \* the station: "off", "trying" or "up" (WL_CONNECTED)
  ap,        \* softAP() was called
  elapsed,   \* the time since setupWiFiDualMode() started
  session,   \* mqttClient.connected()
  subs,      \* the topics subscribed to in this session
  inbox,     \* messages delivered to the socket and not read yet
  report,    \* the last thing published on esp32/status in this session
  pin,       \* PIN32 is HIGH
  answer,    \* what publish() is about to send
  button,    \* PIN23 is LOW
  request,   \* the request of the HTTP client that is waiting, or NoRequest
  serving,   \* handleActionCommand() was called by the HTTP handler
  reply      \* what the HTTP client was sent, until the next one comes

\* History: no step of the sketch reads it.
VARIABLES
  committed, \* nvs as it was before the save that is under way, if one is
  asked,     \* the configuration that an update in progress was asked for
  outages    \* power failures so far

config  == << nvs, cfg, saved >>
radio   == << begun, sta, ap, elapsed >>
broker  == << session, subs, inbox, report >>
output  == << pin, answer >>
client  == << request, serving, reply >>
history == << committed, asked, outages >>

vars == << pc, config, radio, broker, output, button, client, history >>

-----------------------------------------------------------------------------
\* The MQTT client keeps the port in a uint16_t.
PortLimit == 65536

Login == << cfg["mqtt_server"], cfg["mqtt_port"] % PortLimit,
            cfg["mqtt_username"], cfg["mqtt_password"] >>

PowerOn ==
  /\ pc' = "setup"
  /\ cfg' = Globals
  /\ saved' = 0
  /\ begun' = None /\ sta' = "off" /\ ap' = FALSE /\ elapsed' = 0
  /\ session' = FALSE /\ subs' = {} /\ inbox' = << >> /\ report' = "none"
  /\ pin' = FALSE /\ answer' = "none"
  /\ request' = NoRequest /\ serving' = FALSE
  /\ asked' = None

\* ESP.restart(), or the panic handler's.
Reboot == PowerOn /\ UNCHANGED << nvs, button, reply, committed, outages >>

Init ==
  /\ pc = "setup"
  /\ nvs \in InitialStores
  /\ cfg = Globals
  /\ saved = 0
  /\ begun = None /\ sta = "off" /\ ap = FALSE /\ elapsed = 0
  /\ session = FALSE /\ subs = {} /\ inbox = << >> /\ report = "none"
  /\ pin = FALSE /\ answer = "none" /\ button = FALSE
  /\ request = NoRequest /\ serving = FALSE /\ reply = "none"
  /\ committed = nvs
  /\ asked = None
  /\ outages = 0

-----------------------------------------------------------------------------
(* setup()                                                                 *)

Setup ==
  /\ pc = "setup"
  /\ cfg' = Load(nvs, Default)
  /\ begun' = << cfg'["ssid"], cfg'["password"] >>
  /\ sta' = "trying"
  /\ pc' = "setupWiFiDualMode"
  /\ UNCHANGED << nvs, saved, ap, elapsed, broker, output, button, client, history >>

\* MUTANT: the timeout is tested one round too late.
WifiWaitOnce ==
  /\ pc = "setupWiFiDualMode"
  /\ sta # "up"
  /\ elapsed <= TimeoutTicks
  /\ elapsed' = elapsed + 1
  /\ UNCHANGED << pc, config, begun, sta, ap, broker, output, button, client, history >>

WifiWait ==
  /\ pc = "setupWiFiDualMode"
  /\ sta # "up"
  /\ elapsed < TimeoutTicks
  /\ elapsed' = elapsed + 1
  /\ UNCHANGED << pc, config, begun, sta, ap, broker, output, button, client, history >>

WifiLeave ==
  /\ pc = "setupWiFiDualMode"
  /\ sta = "up" \/ elapsed >= TimeoutTicks
  /\ elapsed' = 0
  /\ pc' = "wifiDone"
  /\ UNCHANGED << config, begun, sta, ap, broker, output, button, client, history >>

\* The status is read again; then setupMQTT() and the HTTP server.
WifiDone ==
  /\ pc = "wifiDone"
  /\ ap' = (sta # "up")
  /\ pc' = "loop"
  /\ UNCHANGED << config, begun, sta, elapsed, broker, output, button, client, history >>

-----------------------------------------------------------------------------
(* loop() and reconnectMQTT()                                              *)

LoopStart ==
  /\ pc = "loop"
  /\ pc' = IF session THEN "mqttLoop" ELSE "reconnectMQTT"
  /\ UNCHANGED << config, radio, broker, output, button, client, history >>

\* A successful connect().  A failing one delays 5 s and changes nothing.
Connect ==
  /\ pc = "reconnectMQTT"
  /\ ~session
  /\ sta = "up"
  /\ Login \in Brokers
  /\ session' = TRUE
  /\ subs' = {} /\ inbox' = << >> /\ report' = "none"
  /\ pc' = "subscribeCommand"
  /\ UNCHANGED << config, radio, output, button, client, history >>

Subscribe(at, topic, next) ==
  /\ pc = at
  /\ subs' = IF session THEN subs \cup {topic} ELSE subs
  /\ pc' = next
  /\ UNCHANGED << config, radio, session, inbox, report, output, button, client, history >>

SubscribeCommand == Subscribe("subscribeCommand", "command", "subscribeConfig")
SubscribeConfig  == Subscribe("subscribeConfig", "config", "reconnectMQTT")

Reconnected ==
  /\ pc = "reconnectMQTT"
  /\ session
  /\ pc' = "mqttLoop"
  /\ UNCHANGED << config, radio, broker, output, button, client, history >>

-----------------------------------------------------------------------------
(* handleActionCommand(), called from two places                           *)

\* The pin, and the answer that is still to be published.
Switch(action) ==
  /\ IF action \in {"ON", "OFF"}
     THEN pin' = (action = "ON") /\ answer' = action
     ELSE answer' = "error" /\ UNCHANGED pin
  /\ pc' = "publish"

\* MUTANT: what HTTP clients switch is not published.
PublishMqttOnly ==
  /\ pc = "publish"
  /\ report' = IF session /\ ~serving THEN answer ELSE report
  /\ answer' = "none"
  /\ pc' = IF serving THEN "send" ELSE "handleClient"
  /\ UNCHANGED << config, radio, session, subs, inbox, pin, button, client, history >>

\* publish() does nothing when the session is gone, and nobody looks.
Publish ==
  /\ pc = "publish"
  /\ report' = IF session THEN answer ELSE report
  /\ answer' = "none"
  /\ pc' = IF serving THEN "send" ELSE "handleClient"
  /\ UNCHANGED << config, radio, session, subs, inbox, pin, button, client, history >>

-----------------------------------------------------------------------------
(* handleConfigurationUpdate()                                             *)

\* MUTANT: the port is not saved.
SaveKeyNoPort ==
  /\ pc = "saveConfiguration"
  /\ saved' = saved + 1
  /\ nvs' = IF SaveOrder[saved'] = "mqtt_port" THEN nvs
            ELSE [nvs EXCEPT ![SaveOrder[saved']] = cfg[SaveOrder[saved']]]
  /\ IF saved' = Len(SaveOrder)
     THEN committed' = nvs' /\ pc' = "restart"
     ELSE UNCHANGED << committed, pc >>
  /\ UNCHANGED << cfg, radio, broker, output, button, client, asked, outages >>

SaveKey ==
  /\ pc = "saveConfiguration"
  /\ saved' = saved + 1
  /\ nvs' = [nvs EXCEPT ![SaveOrder[saved']] = cfg[SaveOrder[saved']]]
  /\ IF saved' = Len(SaveOrder)
     THEN committed' = nvs' /\ pc' = "restart"
     ELSE UNCHANGED << committed, pc >>
  /\ UNCHANGED << cfg, radio, broker, output, button, client, asked, outages >>

Restart == pc = "restart" /\ Reboot

-----------------------------------------------------------------------------
(* mqttClient.loop() and mqttCallback()                                    *)

MqttIdle ==
  /\ pc = "mqttLoop"
  /\ ~session \/ inbox = << >>
  /\ pc' = "handleClient"
  /\ UNCHANGED << config, radio, broker, output, button, client, history >>

Receive ==
  /\ pc = "mqttLoop"
  /\ session
  /\ inbox # << >>

MqttNotJson ==
  /\ Receive
  /\ Head(inbox).doc = NotJson
  /\ inbox' = Tail(inbox)
  /\ pc' = "handleClient"
  /\ UNCHANGED << config, radio, session, subs, report, output, button, client, history >>

MqttCommand ==
  /\ Receive
  /\ Head(inbox).doc # NotJson
  /\ Head(inbox).topic = "command"
  /\ Switch(Head(inbox).action)
  /\ inbox' = Tail(inbox)
  /\ UNCHANGED << config, radio, session, subs, report, button, client, history >>

\* MUTANT: the keys the document does not have get their defaults back.
MqttConfigDefaults ==
  /\ Receive
  /\ Head(inbox).doc # NotJson
  /\ Head(inbox).topic = "config"
  /\ IF Panics(Head(inbox).doc)
     THEN Reboot
     ELSE /\ asked' = Requested(cfg, Head(inbox).doc)
          /\ cfg' = Fitted(Requested(Default, Head(inbox).doc))
          /\ saved' = 0
          /\ inbox' = Tail(inbox)
          /\ pc' = "saveConfiguration"
          /\ UNCHANGED << nvs, radio, session, subs, report, output, button,
                          client, committed, outages >>

\* To RAM, then saveConfiguration(); a value that is not a text panics.
MqttConfig ==
  /\ Receive
  /\ Head(inbox).doc # NotJson
  /\ Head(inbox).topic = "config"
  /\ IF Panics(Head(inbox).doc)
     THEN Reboot
     ELSE /\ asked' = Requested(cfg, Head(inbox).doc)
          /\ cfg' = Fitted(asked')
          /\ saved' = 0
          /\ inbox' = Tail(inbox)
          /\ pc' = "saveConfiguration"
          /\ UNCHANGED << nvs, radio, session, subs, report, output, button,
                          client, committed, outages >>

-----------------------------------------------------------------------------
(* server.handleClient() and handleReset()                                 *)

HttpIdle ==
  /\ pc = "handleClient"
  /\ request = NoRequest
  /\ pc' = "handleReset"
  /\ UNCHANGED << config, radio, broker, output, button, client, history >>

\* send(): the client that asked for what gets its reply.
Tell(what) ==
  /\ reply' = what
  /\ request' = NoRequest
  /\ serving' = FALSE
  /\ pc' = "handleReset"
  /\ UNCHANGED << config, radio, broker, output, button, history >>

HttpRoot ==
  /\ pc = "handleClient"
  /\ request = "/"
  /\ Tell("running")

\* MUTANT: a body that does not parse is dropped without an answer.
HttpNotJsonSilent ==
  /\ pc = "handleClient"
  /\ request = NotJson
  /\ pc' = "handleReset"
  /\ UNCHANGED << config, radio, broker, output, button, client, history >>

HttpNotJson ==
  /\ pc = "handleClient"
  /\ request = NotJson
  /\ Tell("error")

HttpAction ==
  /\ pc = "handleClient"
  /\ request \in Actions
  /\ Switch(request)
  /\ serving' = TRUE
  /\ UNCHANGED << config, radio, broker, button, request, reply, history >>

\* After handleActionCommand(), whatever it made of the action.
HttpSend ==
  /\ pc = "send"
  /\ Tell("success")

ResetIdle ==
  /\ pc = "handleReset"
  /\ ~button
  /\ pc' = "loop"
  /\ UNCHANGED << config, radio, broker, output, button, client, history >>

Reset ==
  /\ pc = "handleReset"
  /\ button
  /\ nvs' = EmptyStore
  /\ committed' = nvs'
  /\ pc' = "restart"
  /\ UNCHANGED << cfg, saved, radio, broker, output, button, client, asked, outages >>

Thread ==
  \/ Setup \/ WifiWait \/ WifiLeave \/ WifiDone
  \/ LoopStart \/ SubscribeCommand \/ SubscribeConfig \/ Reconnected
  \/ Publish \/ SaveKey \/ Restart
  \/ MqttIdle \/ MqttNotJson \/ MqttCommand \/ MqttConfig
  \/ HttpIdle \/ HttpRoot \/ HttpNotJson \/ HttpAction \/ HttpSend
  \/ ResetIdle \/ Reset

-----------------------------------------------------------------------------
(* The surroundings                                                        *)

StaUp ==
  /\ sta = "trying"
  /\ begun \in Joins
  /\ sta' = "up"
  /\ UNCHANGED << pc, config, begun, ap, elapsed, broker, output, button, client, history >>

StaDown ==
  /\ sta = "up"
  /\ sta' = "trying"
  /\ UNCHANGED << pc, config, begun, ap, elapsed, broker, output, button, client, history >>

SessionDrop ==
  /\ session
  /\ session' = FALSE /\ subs' = {} /\ inbox' = << >> /\ report' = "none"
  /\ UNCHANGED << pc, config, radio, output, button, client, history >>

Deliver ==
  /\ session
  /\ sta = "up"
  /\ Len(inbox) < MaxInbox
  /\ \E m \in Messages : m.topic \in subs /\ inbox' = Append(inbox, m)
  /\ UNCHANGED << pc, config, radio, session, subs, report, output, button, client, history >>

HttpRequest ==
  /\ pc \notin {"setup", "setupWiFiDualMode", "wifiDone"}
  /\ request = NoRequest
  /\ ap \/ sta = "up"
  /\ request' \in Requests
  /\ reply' = "none"
  /\ UNCHANGED << pc, config, radio, broker, output, button, serving, history >>

\* The client that waits closes its connection.  If it is already being served
\* that makes no difference to the board.
HttpGiveUp ==
  /\ request # NoRequest
  /\ ~serving
  /\ request' = NoRequest
  /\ UNCHANGED << pc, config, radio, broker, output, button, serving, reply, history >>

Press ==
  /\ ~button
  /\ button' = TRUE
  /\ UNCHANGED << pc, config, radio, broker, output, client, history >>

Release ==
  /\ button
  /\ button' = FALSE
  /\ UNCHANGED << pc, config, radio, broker, output, client, history >>

PowerLoss ==
  /\ outages < MaxOutages
  /\ outages' = outages + 1
  /\ PowerOn
  /\ committed' = nvs
  /\ UNCHANGED << nvs, button, reply >>

Surroundings ==
  \/ StaUp \/ StaDown \/ SessionDrop \/ Deliver
  \/ HttpRequest \/ HttpGiveUp \/ Press \/ Release \/ PowerLoss

Next == Thread \/ Connect \/ Surroundings

Spec == Init /\ [][Next]_vars
-----------------------------------------------------------------------------
(* Properties                                                              *)

SetupPlaces == { "setup", "setupWiFiDualMode", "wifiDone" }
LoopPlaces  == { "loop", "reconnectMQTT", "subscribeCommand", "subscribeConfig",
                 "mqttLoop", "publish", "handleClient", "send", "handleReset" }
SavePlaces  == { "saveConfiguration", "restart" }

Topics  == { "command", "config" }
Answers == { "none", "ON", "OFF", "error" }

\* Every variable has a value of its type, the wait for the network keeps to its
\* timeout, and a save that is not over has a key to write.
TypeOK ==
  /\ pc \in SetupPlaces \cup LoopPlaces \cup SavePlaces
  /\ IsStore(nvs) /\ IsStore(committed) /\ IsConfig(cfg)
  /\ saved \in 0 .. Len(SaveOrder)
  /\ pc = "saveConfiguration" => saved < Len(SaveOrder)
  /\ begun = None \/ begun \in Strings \X Strings
  /\ sta \in {"off", "trying", "up"}
  /\ ap \in BOOLEAN /\ session \in BOOLEAN /\ pin \in BOOLEAN
  /\ button \in BOOLEAN /\ serving \in BOOLEAN
  /\ elapsed \in 0 .. TimeoutTicks
  /\ subs \subseteq Topics
  /\ inbox \in Seq(Messages) /\ Len(inbox) <= MaxInbox
  /\ report \in Answers /\ answer \in Answers
  /\ request \in Requests \cup {NoRequest}
  /\ reply \in {"none", "running", "error", "success"}
  /\ asked = None \/ IsConfig(asked)
  /\ outages \in 0 .. MaxOutages

\* The last switch state published in this session is the state of the pin,
\* though HTTP clients switch it as well.
ReportTrue ==
  session /\ pc # "publish" =>
    (report = "ON" => pin) /\ (report = "OFF" => ~pin)

\* A configuration is saved for the update that asked for it and no other, key
\* by key, and the rest is what flash held before.
SaveInv ==
  /\ pc = "saveConfiguration" =>
       /\ cfg = Fitted(asked)
       /\ \A i \in 1 .. Len(SaveOrder) :
            nvs[SaveOrder[i]] = IF i <= saved THEN cfg[SaveOrder[i]]
                                ELSE committed[SaveOrder[i]]
  /\ pc = "restart" /\ asked # None => nvs = Fitted(asked)
  /\ pc # "saveConfiguration" => committed = nvs

\* The store as the outside sees it: a save takes effect when it is complete.
\* Nobody is promised anything: an update is not confirmed to who sent it.
Stored == IF pc = "saveConfiguration" THEN committed ELSE nvs

Store == INSTANCE ConfigStore WITH stored <- Stored, promised <- None

\* Updates, resets and power failures change the store as ConfigStore allows.
ImplementsStore == Store!Spec

-----------------------------------------------------------------------------
(* Progress                                                                *)

FairSpec == Spec /\ WF_vars(Thread)

\* The network and the broker stop refusing.
Calm ==
  /\ <>[][~StaDown /\ ~SessionDrop]_vars
  /\ WF_vars(StaUp)
  /\ WF_vars(Connect)

\* The stored configuration is one that the network and the broker let in.
Usable ==
  LET c == Load(nvs, Default)
  IN  /\ << c["ssid"], c["password"] >> \in Joins
      /\ << c["mqtt_server"], c["mqtt_port"] % PortLimit,
            c["mqtt_username"], c["mqtt_password"] >> \in Brokers

\* With a usable configuration and a calm network every HTTP request is taken
\* off the queue.
HttpAnswered ==
  Calm => (request # NoRequest /\ Usable ~> request = NoRequest \/ ~Usable)

=============================================================================
