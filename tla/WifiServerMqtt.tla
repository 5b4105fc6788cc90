--------------------------- MODULE WifiServerMqtt ---------------------------
(***************************************************************************)
(* esp32_wifi_server_with_mqtt_remote_on_off.ino: the same provisioning as *)
(* ApWifiMqtt, with one difference that matters.  Its Preferences object   *)
(* is opened once, in setup(), and closed by reconnectMQTT() and by GET    *)
(* /current_config; nothing opens it again.  A begin() of an open object   *)
(* does nothing, and on a closed object every put and clear() does         *)
(* nothing and every get returns its default.                              *)
(*                                                                         *)
(* mqttCallback() only prints, so messages are left out.                   *)
(***************************************************************************)
EXTENDS DeviceConfig, Sequences

CONSTANTS
  Default,        \* the DEFAULT_... configuration
  InitialStores,  \* what the "config" namespace may hold at the first power-on
  Requests,       \* the HTTP requests that clients send: [uri, doc]
  NoBody,         \* the doc of a request without a body
  NotJson,        \* the doc of a body that does not parse
  NoRequest,      \* no HTTP client is waiting
  Joins,          \* the << ssid, password >> that the network lets in
  Brokers,        \* the << server, port, username, password >> a broker lets in
  TimeoutTicks,   \* 40: the timeout of 20 s, in delays of 500 ms
  MaxOutages      \* bound: power failures

ASSUME ServerAssumption ==
  /\ Fits(Default)
  /\ \A s \in InitialStores : IsStore(s)
  /\ \A r \in Requests : r.doc \in {NoBody, NotJson} \/ IsDoc(r.doc)
  /\ NoRequest \notin Requests
  /\ \A b \in Brokers : b[1] # Empty
  /\ TimeoutTicks \in Nat
  /\ MaxOutages \in Nat

VARIABLES
  pc,          \* where setup() or loop() is
  nvs,         \* the "config" namespace in flash
  open,        \* preferences is open, on "config", read and write
  cfg,         \* ssid, password, mqtt_server, ... in RAM
  login,       \* what reconnectMQTT() last read to log in with
  begun,       \* the << ssid, password >> WiFi.begin() was called with, or None
  sta,         \* the station: "off", "trying" or "up" (WL_CONNECTED)
  ap,          \* the access point is on the air
  elapsed,     \* the time since connectToWiFi() started
  session,     \* mqttClient.connected()
  button,      \* RESET_PIN is LOW
  request,     \* the request of the HTTP client that is waiting, or NoRequest
  reply,       \* what the last HTTP client was told
  saved,       \* the keys saveConfiguration() has been through
  caller       \* who is saving: "reset", "http" or "gone", a client that left

\* History: what the outside may rely on.  No step of the sketch reads it.
VARIABLES
  committed,   \* nvs as it was before the save that is under way, if one is
  asked,       \* the configuration that an update in progress was asked for
  told,        \* the configuration the last "updated" reply was about
  kept,        \* the last one of them that preferences was open for
  outages      \* power failures so far

config  == << nvs, open, cfg, saved, caller >>
radio   == << begun, sta, ap, elapsed >>
mqtt    == << login, session >>
client  == << request, reply >>
history == << committed, asked, told, kept, outages >>

vars == << pc, config, radio, mqtt, button, client, history >>

-----------------------------------------------------------------------------
NoLogin == << Empty, 0, Empty, Empty >>

\* getString() and getInt() on preferences, as reconnectMQTT() calls them.
StoredLogin ==
  LET get(k, default) == IF open /\ nvs[k] # Absent THEN nvs[k] ELSE default
  IN  << get("mqtt_server", Empty), get("mqtt_port", 1883),
         get("mqtt_username", Empty), get("mqtt_password", Empty) >>

PowerOn ==
  /\ pc' = "setup"
  /\ open' = FALSE
  /\ cfg' = [k \in Keys |-> IF k = "mqtt_port" THEN Default[k] ELSE Empty]
  /\ login' = NoLogin
  /\ begun' = None
  /\ sta' = "off"
  /\ ap' = FALSE
  /\ elapsed' = 0
  /\ session' = FALSE
  /\ saved' = 0
  /\ caller' = "none"
  /\ request' = NoRequest
  /\ asked' = None

\* ESP.restart(), or the panic handler's.
Reboot == PowerOn /\ UNCHANGED << nvs, button, reply, committed, told, kept, outages >>

Init ==
  /\ pc = "setup"
  /\ nvs \in InitialStores
  /\ open = FALSE
  /\ cfg = [k \in Keys |-> IF k = "mqtt_port" THEN Default[k] ELSE Empty]
  /\ login = NoLogin
  /\ begun = None
  /\ sta = "off"
  /\ ap = FALSE
  /\ elapsed = 0
  /\ session = FALSE
  /\ button = FALSE
  /\ request = NoRequest
  /\ reply = "none"
  /\ saved = 0
  /\ caller = "none"
  /\ committed = nvs
  /\ asked = None
  /\ told = None
  /\ kept = None
  /\ outages = 0

-----------------------------------------------------------------------------
(* setup()                                                                 *)

\* MUTANT: the configuration is read before preferences is open.
SetupTooSoon ==
  /\ pc = "setup"
  /\ open' = TRUE
  /\ cfg' = Default
  /\ IF Empty \in {cfg'["ssid"], cfg'["password"]}
     THEN ap' = TRUE /\ pc' = "loop" /\ UNCHANGED << begun, sta >>
     ELSE /\ begun' = << cfg'["ssid"], cfg'["password"] >>
          /\ sta' = "trying"
          /\ pc' = "connectToWiFi"
          /\ UNCHANGED ap
  /\ UNCHANGED << nvs, saved, caller, elapsed, mqtt, button, client, history >>

Setup ==
  /\ pc = "setup"
  /\ open' = TRUE
  /\ cfg' = Load(nvs, Default)
  /\ IF Empty \in {cfg'["ssid"], cfg'["password"]}
     THEN ap' = TRUE /\ pc' = "loop" /\ UNCHANGED << begun, sta >>
     ELSE /\ begun' = << cfg'["ssid"], cfg'["password"] >>
          /\ sta' = "trying"
          /\ pc' = "connectToWiFi"
          /\ UNCHANGED ap
  /\ UNCHANGED << nvs, saved, caller, elapsed, mqtt, button, client, history >>

\* MUTANT: one delay too many.
WifiWaitOnce ==
  /\ pc = "connectToWiFi"
  /\ sta # "up"
  /\ elapsed <= TimeoutTicks
  /\ elapsed' = elapsed + 1
  /\ UNCHANGED << pc, begun, sta, ap, config, mqtt, button, client, history >>

WifiWait ==
  /\ pc = "connectToWiFi"
  /\ sta # "up"
  /\ elapsed < TimeoutTicks
  /\ elapsed' = elapsed + 1
  /\ UNCHANGED << pc, begun, sta, ap, config, mqtt, button, client, history >>

WifiLeave ==
  /\ pc = "connectToWiFi"
  /\ sta = "up" \/ elapsed >= TimeoutTicks
  /\ elapsed' = 0
  /\ pc' = "connectDone"
  /\ UNCHANGED << begun, sta, ap, config, mqtt, button, client, history >>

\* MUTANT: the access point is started without WiFi.mode(WIFI_AP).
WifiDoneBoth ==
  /\ pc = "connectDone"
  /\ ap' = (sta # "up")
  /\ pc' = "loop"
  /\ UNCHANGED << begun, sta, elapsed, config, mqtt, button, client, history >>

\* The status is read again; WiFi.mode(WIFI_AP) ends the station for good.
WifiDone ==
  /\ pc = "connectDone"
  /\ IF sta = "up" THEN UNCHANGED << sta, ap >> ELSE sta' = "off" /\ ap' = TRUE
  /\ pc' = "loop"
  /\ UNCHANGED << begun, elapsed, config, mqtt, button, client, history >>

-----------------------------------------------------------------------------
(* loop() and reconnectMQTT()                                              *)

LoopStart ==
  /\ pc = "loop"
  /\ pc' = IF sta # "up" THEN "handleClient"
           ELSE IF session THEN "mqttLoop" ELSE "reconnectMQTT"
  /\ UNCHANGED << config, radio, mqtt, button, client, history >>

\* MUTANT: the credentials that are compiled in, and not those stored.
RetrieveDefaults ==
  /\ pc = "reconnectMQTT"
  /\ login' = << Default["mqtt_server"], Default["mqtt_port"],
                 Default["mqtt_username"], Default["mqtt_password"] >>
  /\ open' = FALSE
  /\ pc' = "connecting"
  /\ UNCHANGED << nvs, cfg, saved, caller, radio, session, button, client, history >>

\* begin("mqtt", true) is refused: "config" is still open, or, when it is not,
\* flash has no namespace "mqtt".  Then the four reads, and end().
Retrieve ==
  /\ pc = "reconnectMQTT"
  /\ login' = StoredLogin
  /\ open' = FALSE
  /\ pc' = "connecting"
  /\ UNCHANGED << nvs, cfg, saved, caller, radio, session, button, client, history >>

\* A successful connect().  A failing one delays 5 s and changes nothing.
Connect ==
  /\ pc = "connecting"
  /\ ~session
  /\ sta = "up"
  /\ << login[1], login[2] % 65536, login[3], login[4] >> \in Brokers
  /\ session' = TRUE
  /\ UNCHANGED << pc, login, config, radio, button, client, history >>

Reconnected ==
  /\ pc = "connecting"
  /\ session
  /\ pc' = "mqttLoop"
  /\ UNCHANGED << config, radio, mqtt, button, client, history >>

MqttLoop ==
  /\ pc = "mqttLoop"
  /\ pc' = "handleClient"
  /\ UNCHANGED << config, radio, mqtt, button, client, history >>

-----------------------------------------------------------------------------
(* Updates                                                                 *)

\* ssid and password count only together; the other keys one by one.
Pair == {"ssid", "password"}

\* MUTANT: ssid and password are taken one by one.
TakenSingly(doc) == doc

Taken(doc) == [k \in DOMAIN doc \ (IF Pair \subseteq DOMAIN doc THEN {} ELSE Pair) |-> doc[k]]

\* handleConfigurationUpdate(): to RAM, then saveConfiguration().
Update(doc) ==
  IF Panics(Taken(doc))
  THEN Reboot
  ELSE /\ asked' = Requested(cfg, Taken(doc))
       /\ cfg' = Fitted(asked')
       /\ saved' = 0
       /\ caller' = "http"
       /\ request' = NoRequest
       /\ pc' = "saveConfiguration"
       /\ told' = None
       /\ kept' = IF open THEN None ELSE kept
       /\ UNCHANGED << nvs, open, radio, mqtt, button, reply, committed, outages >>

\* MUTANT: the port is not written.
SaveKeyNoPort ==
  /\ pc = "saveConfiguration"
  /\ saved' = saved + 1
  /\ nvs' = IF open THEN [nvs EXCEPT ![SaveOrder[saved']] = cfg[SaveOrder[saved']]]
                    ELSE nvs
  /\ IF saved' = Len(SaveOrder) - 1
     THEN committed' = nvs' /\ pc' = "saveDone"
     ELSE UNCHANGED << committed, pc >>
  /\ UNCHANGED << open, cfg, caller, radio, mqtt, button, client, asked, told,
                  kept, outages >>

\* One putString() or putInt(): nothing, if preferences is closed.
SaveKey ==
  /\ pc = "saveConfiguration"
  /\ saved' = saved + 1
  /\ nvs' = IF open THEN [nvs EXCEPT ![SaveOrder[saved']] = cfg[SaveOrder[saved']]]
                    ELSE nvs
  /\ IF saved' = Len(SaveOrder)
     THEN committed' = nvs' /\ pc' = "saveDone"
     ELSE UNCHANGED << committed, pc >>
  /\ UNCHANGED << open, cfg, caller, radio, mqtt, button, client, asked, told,
                  kept, outages >>

\* The HTTP handler replies "updated"; handleReset() says on the serial line
\* that the configuration is reset.
SaveDone ==
  /\ pc = "saveDone"
  /\ IF caller = "http"
     THEN /\ reply' = "updated"
          /\ told' = asked
          /\ kept' = IF open THEN asked ELSE kept
     ELSE UNCHANGED << reply, told, kept >>
  /\ pc' = "restart"
  /\ UNCHANGED << config, radio, mqtt, button, request, committed, asked, outages >>

\* MUTANT: no restart after a save.
RestartNot ==
  /\ pc = "restart"
  /\ pc' = "loop"
  /\ caller' = "none"
  /\ asked' = None
  /\ UNCHANGED << nvs, open, cfg, saved, radio, mqtt, button, client, committed,
                  told, kept, outages >>

Restart == pc = "restart" /\ Reboot

-----------------------------------------------------------------------------
(* server.handleClient() and handleReset()                                 *)

HttpIdle ==
  /\ pc = "handleClient"
  /\ request = NoRequest
  /\ pc' = "handleReset"
  /\ UNCHANGED << config, radio, mqtt, button, client, history >>

Serve(uris) == pc = "handleClient" /\ request # NoRequest /\ request.uri \in uris

HttpAnswer(what) ==
  /\ reply' = what
  /\ request' = NoRequest
  /\ pc' = "handleReset"
  /\ UNCHANGED << nvs, cfg, saved, caller, radio, mqtt, button, history >>

\* "/" and "/current_config_former" answer from RAM.
HttpInfo ==
  /\ Serve({"/", "/current_config_former"})
  /\ HttpAnswer("running")
  /\ UNCHANGED open

\* begin("config", true), which is refused while it is open, the reads, end().
HttpCurrent ==
  /\ Serve({"/current_config"})
  /\ HttpAnswer("current")
  /\ open' = FALSE

Acceptable(r) ==
  /\ r.doc \notin {NoBody, NotJson}
  /\ r.uri = "/config" => DOMAIN r.doc = Keys

HttpRefused ==
  /\ Serve({"/config", "/config_with_payload"})
  /\ ~Acceptable(request)
  /\ HttpAnswer("error")
  /\ UNCHANGED open

HttpConfig ==
  /\ Serve({"/config", "/config_with_payload"})
  /\ Acceptable(request)
  /\ Update(request.doc)

ResetIdle ==
  /\ pc = "handleReset"
  /\ ~button
  /\ pc' = "loop"
  /\ UNCHANGED << config, radio, mqtt, button, client, history >>

\* clear(), which does nothing if preferences is closed.
ResetClear ==
  /\ pc = "handleReset"
  /\ button
  /\ nvs' = IF open THEN EmptyStore ELSE nvs
  /\ committed' = nvs'
  /\ kept' = IF open THEN None ELSE kept
  /\ told' = None
  /\ pc' = "resetDefaults"
  /\ UNCHANGED << open, cfg, saved, caller, radio, mqtt, button, client, asked, outages >>

\* The defaults to RAM, then saveConfiguration().
ResetDefaults ==
  /\ pc = "resetDefaults"
  /\ asked' = Default
  /\ cfg' = Default
  /\ saved' = 0
  /\ caller' = "reset"
  /\ pc' = "saveConfiguration"
  /\ UNCHANGED << nvs, open, radio, mqtt, button, client, committed, told, kept, outages >>

Thread ==
  \/ Setup \/ WifiWait \/ WifiLeave \/ WifiDone
  \/ LoopStart \/ Retrieve \/ Reconnected \/ MqttLoop
  \/ SaveKey \/ SaveDone \/ Restart
  \/ HttpIdle \/ HttpInfo \/ HttpCurrent \/ HttpRefused \/ HttpConfig
  \/ ResetIdle \/ ResetClear \/ ResetDefaults

-----------------------------------------------------------------------------
(* The surroundings                                                        *)

StaUp ==
  /\ sta = "trying"
  /\ begun \in Joins
  /\ sta' = "up"
  /\ UNCHANGED << pc, begun, ap, elapsed, config, mqtt, button, client, history >>

StaDown ==
  /\ sta = "up"
  /\ sta' = "trying"
  /\ UNCHANGED << pc, begun, ap, elapsed, config, mqtt, button, client, history >>

SessionDrop ==
  /\ session
  /\ session' = FALSE
  /\ UNCHANGED << pc, login, config, radio, button, client, history >>

HttpRequest ==
  /\ pc \notin {"setup", "connectToWiFi", "connectDone"}
  /\ request = NoRequest
  /\ ap \/ sta = "up"
  /\ request' \in Requests
  /\ reply' = "none"
  /\ UNCHANGED << pc, config, radio, mqtt, button, history >>

HttpGiveUp ==
  /\ \/ request # NoRequest /\ request' = NoRequest /\ UNCHANGED caller
     \/ caller = "http" /\ caller' = "gone" /\ UNCHANGED request
  /\ UNCHANGED << pc, nvs, open, cfg, saved, radio, mqtt, button, reply, history >>

Press ==
  /\ ~button
  /\ button' = TRUE
  /\ UNCHANGED << pc, config, radio, mqtt, client, history >>

Release ==
  /\ button
  /\ button' = FALSE
  /\ UNCHANGED << pc, config, radio, mqtt, client, history >>

PowerLoss ==
  /\ outages < MaxOutages
  /\ outages' = outages + 1
  /\ PowerOn
  /\ committed' = nvs
  /\ UNCHANGED << nvs, button, reply, told, kept >>

Surroundings ==
  \/ StaUp \/ StaDown \/ SessionDrop
  \/ HttpRequest \/ HttpGiveUp \/ Press \/ Release \/ PowerLoss

Next == Thread \/ Connect \/ Surroundings

Spec == Init /\ [][Next]_vars
-----------------------------------------------------------------------------
(* Properties                                                              *)

SetupPlaces == { "setup", "connectToWiFi", "connectDone" }
LoopPlaces  == { "loop", "reconnectMQTT", "connecting", "mqttLoop", "handleClient",
                 "handleReset" }
SavePlaces  == { "resetDefaults", "saveConfiguration", "saveDone", "restart" }

Logins == Strings \X (Ports \cup {1883}) \X Strings \X Strings

\* Every variable has a value of its type, connectToWiFi() keeps to its timeout,
\* and a save that is not over has a key to write.
TypeOK ==
  /\ pc \in SetupPlaces \cup LoopPlaces \cup SavePlaces
  /\ IsStore(nvs) /\ IsStore(committed)
  /\ IsConfig(cfg)
  /\ login \in Logins
  /\ begun = None \/ begun \in Strings \X Strings
  /\ sta \in {"off", "trying", "up"}
  /\ open \in BOOLEAN /\ ap \in BOOLEAN /\ session \in BOOLEAN /\ button \in BOOLEAN
  /\ pc = "saveConfiguration" => saved < Len(SaveOrder)
  /\ elapsed \in 0 .. TimeoutTicks
  /\ request \in Requests \cup {NoRequest}
  /\ reply \in {"none", "running", "current", "updated", "error"}
  /\ saved \in 0 .. Len(SaveOrder)
  /\ caller \in {"none", "reset", "http", "gone"}
  /\ asked = None \/ IsConfig(asked)
  /\ told = None \/ IsConfig(told)
  /\ kept = None \/ IsConfig(kept)
  /\ outages \in 0 .. MaxOutages

\* While loop() runs, RAM holds what flash holds, also after an update that
\* could not be written: the restart takes it back.
RamMirrorsFlash == pc \in LoopPlaces => cfg = Load(nvs, Default)

LoginIn(store) ==
  LET get(k, default) == IF store[k] # Absent THEN store[k] ELSE default
  IN  << get("mqtt_server", Empty), get("mqtt_port", 1883),
         get("mqtt_username", Empty), get("mqtt_password", Empty) >>

\* A session that loop() works with was opened with what flash still holds.
SessionUsesStored == session /\ pc \in LoopPlaces => login = LoginIn(nvs)

\* The access point ends the station for good: with it on the air there is no
\* station and no MQTT session, and without it the station is tried for ever.
OneNetwork ==
  /\ ap => sta = "off" /\ ~session
  /\ pc \in LoopPlaces => (ap <=> sta = "off")

Credentials(c) == << c["ssid"], c["password"] >>

\* The network and its password came from one source.
GivenTogether(c) ==
  \/ Credentials(c) = Credentials(Default)
  \/ \E s \in InitialStores : Credentials(c) = Credentials(Load(s, Default))
  \/ \E r \in Requests : /\ r.doc \notin {NoBody, NotJson}
                         /\ Pair \subseteq DOMAIN r.doc
                         /\ ~Panics(r.doc)
                         /\ \A k \in Pair : c[k] = Fit(k, r.doc[k])

\* As long as power has not failed, no sequence of partial updates makes a network
\* name and a password that nobody gave together.  (The user and the password for
\* the broker are taken one by one.)
PairsStayTogether == pc \in LoopPlaces /\ outages = 0 => GivenTogether(cfg)

\* The store as the outside sees it, and the updates it can see at all.
Stored  == IF pc = "saveConfiguration" THEN committed ELSE nvs
Written == IF open THEN asked ELSE None

Store == INSTANCE ConfigStore WITH stored <- Stored, asked <- Written, promised <- kept

\* As long as preferences is open the sketch implements ConfigStore; what it
\* does when preferences is closed leaves the store alone.
ImplementsStoreWhileOpen == Store!Spec

-----------------------------------------------------------------------------
(* Progress                                                                *)

FairSpec == Spec /\ WF_vars(Thread)

\* An update that was written is what the board then loads.
UpdateApplied ==
  kept # None ~> (kept = None \/ (pc \in LoopPlaces /\ cfg = Fitted(kept) /\ asked = None))

-----------------------------------------------------------------------------
(* What the source says of itself and its steps do not keep                *)

\* Lines 217 and 308, "Configuration updated. Rebooting...": what the client
\* sent is stored, as far as it fits.
UpdatedIsStored == told # None => nvs = Fitted(told)

\* Line 161, "Retrieve MQTT credentials from preferences": every connection is
\* attempted with the credentials stored.
ConnectsWithStored == pc = "connecting" => login = LoginIn(nvs)
=============================================================================
