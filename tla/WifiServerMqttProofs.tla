------------------------- MODULE WifiServerMqttProofs -------------------------
(***************************************************************************)
(* Theorems about WifiServerMqtt for every set of texts, requests, networks *)
(* and brokers, every timeout and every number of power failures.          *)
(***************************************************************************)
EXTENDS WifiServerMqtt, DeviceConfigTheorems

LEMMA Limits == TimeoutTicks \in Nat /\ MaxOutages \in Nat
BY ServerAssumption

LEMMA DefaultType == IsConfig(Default) /\ Fitted(Default) = Default
BY ServerAssumption DEF Fits

LEMMA BlankType == IsConfig([k \in Keys |-> IF k = "mqtt_port" THEN Default[k] ELSE Empty])
BY DefaultType, ConfigAssumption DEF IsConfig, ValuesOf, Keys

LEMMA NoLoginType == NoLogin \in Logins
BY ConfigAssumption DEF NoLogin, Logins

\* What is left of a document of the right types is one.
LEMMA TakenType == ASSUME NEW doc, IsDoc(doc) PROVE IsDoc(Taken(doc))
BY DEF IsDoc, Taken

-----------------------------------------------------------------------------
(* Types                                                                   *)

\* The parts of the state that most steps leave alone.
StoreType ==
  /\ IsStore(nvs) /\ IsStore(committed) /\ IsConfig(cfg)
  /\ asked = None \/ IsConfig(asked)
  /\ told = None \/ IsConfig(told)
  /\ kept = None \/ IsConfig(kept)
  /\ outages \in 0 .. MaxOutages

RadioType ==
  /\ begun = None \/ begun \in Strings \X Strings
  /\ sta \in {"off", "trying", "up"}
  /\ ap \in BOOLEAN
  /\ elapsed \in 0 .. TimeoutTicks

MqttType == login \in Logins /\ session \in BOOLEAN

ClientType ==
  /\ button \in BOOLEAN
  /\ request \in Requests \cup {NoRequest}
  /\ reply \in {"none", "running", "current", "updated", "error"}

PlaceType ==
  /\ pc \in SetupPlaces \cup LoopPlaces \cup SavePlaces
  /\ open \in BOOLEAN
  /\ saved \in 0 .. Len(SaveOrder)
  /\ pc = "saveConfiguration" => saved < Len(SaveOrder)
  /\ caller \in {"none", "reset", "http", "gone"}

LEMMA TypeParts ==
  TypeOK <=> StoreType /\ RadioType /\ MqttType /\ ClientType /\ PlaceType
BY DEF TypeOK, StoreType, RadioType, MqttType, ClientType, PlaceType

\* What a step leaves alone keeps its type.
LEMMA Frames ==
  /\ StoreType /\ UNCHANGED << nvs, cfg, history >> => StoreType'
  /\ RadioType /\ UNCHANGED radio => RadioType'
  /\ MqttType /\ UNCHANGED mqtt => MqttType'
  /\ ClientType /\ UNCHANGED << button, client >> => ClientType'
<1>1. StoreType /\ UNCHANGED << nvs, cfg, history >> => StoreType'
  BY DEF StoreType, history
<1>2. RadioType /\ UNCHANGED radio => RadioType'
  BY DEF RadioType, radio
<1>3. MqttType /\ UNCHANGED mqtt => MqttType'
  BY DEF MqttType, mqtt
<1>4. ClientType /\ UNCHANGED << button, client >> => ClientType'
  BY DEF ClientType, client
<1> QED
  BY <1>1, <1>2, <1>3, <1>4

LEMMA PowerOnType ==
  ASSUME PowerOn, button \in BOOLEAN, button' = button,
         reply \in {"none", "running", "current", "updated", "error"}, reply' = reply
  PROVE  RadioType' /\ MqttType' /\ ClientType' /\ PlaceType' /\ IsConfig(cfg')
<1>1. RadioType'
  <2>1. begun' = None /\ sta' = "off" /\ elapsed' = 0
    BY DEF PowerOn
  <2>2. ap' \in BOOLEAN
    BY DEF PowerOn
  <2> QED
    BY <2>1, <2>2, Limits DEF RadioType
<1>2. MqttType'
  <2>1. session' \in BOOLEAN
    BY DEF PowerOn
  <2>2. login' \in Logins
    BY NoLoginType DEF PowerOn
  <2> QED
    BY <2>1, <2>2 DEF MqttType
<1>3. ClientType'
  <2>1. request' \in Requests \cup {NoRequest}
    BY DEF PowerOn
  <2> QED
    BY <2>1 DEF ClientType
<1>4. PlaceType'
  <2>1. open' \in BOOLEAN
    BY DEF PowerOn
  <2>2. pc' = "setup" /\ saved' = 0 /\ caller' = "none"
    BY DEF PowerOn
  <2> QED
    BY <2>1, <2>2, SaveOrderKeys DEF PlaceType, SetupPlaces
<1>5. IsConfig(cfg')
  BY BlankType DEF PowerOn
<1> QED
  BY <1>1, <1>2, <1>3, <1>4, <1>5

LEMMA FromParts ==
  StoreType' /\ RadioType' /\ MqttType' /\ ClientType' /\ PlaceType' => TypeOK'
BY DEF TypeOK, StoreType, RadioType, MqttType, ClientType, PlaceType

LEMMA RebootType == TypeOK /\ Reboot => TypeOK'
<1> SUFFICES ASSUME TypeOK, Reboot PROVE TypeOK'
  OBVIOUS
<1>1. PowerOn /\ UNCHANGED << nvs, button, reply, committed, told, kept, outages >>
  BY DEF Reboot
<1>2. RadioType' /\ MqttType' /\ ClientType' /\ PlaceType' /\ IsConfig(cfg')
  BY <1>1, PowerOnType DEF TypeOK
<1>3. asked' = None
  BY <1>1 DEF PowerOn
<1>4. StoreType'
  BY <1>1, <1>2, <1>3, TypeParts DEF StoreType
<1> QED
  BY <1>2, <1>4, FromParts

LEMMA TypeInit == Init => TypeOK
<1> SUFFICES ASSUME Init PROVE TypeOK
  OBVIOUS
<1>1. StoreType
  <2>1. IsStore(nvs) /\ IsStore(committed) /\ IsConfig(cfg)
    BY ServerAssumption, BlankType DEF Init
  <2>2. asked = None /\ told = None /\ kept = None /\ outages = 0
    BY DEF Init
  <2> QED
    BY <2>1, <2>2, Limits DEF StoreType
<1>2. RadioType
  <2>1. begun = None /\ sta = "off" /\ elapsed = 0
    BY DEF Init
  <2>2. ap \in BOOLEAN
    BY DEF Init
  <2> QED
    BY <2>1, <2>2, Limits DEF RadioType
<1>3. MqttType
  <2>1. session \in BOOLEAN
    BY DEF Init
  <2>2. login \in Logins
    BY NoLoginType DEF Init
  <2> QED
    BY <2>1, <2>2 DEF MqttType
<1>4. ClientType
  <2>1. button \in BOOLEAN
    BY DEF Init
  <2>2. request = NoRequest /\ reply = "none"
    BY DEF Init
  <2> QED
    BY <2>1, <2>2 DEF ClientType
<1>5. PlaceType
  <2>1. open \in BOOLEAN
    BY DEF Init
  <2>2. pc = "setup" /\ saved = 0 /\ caller = "none"
    BY DEF Init
  <2> QED
    BY <2>1, <2>2, SaveOrderKeys DEF PlaceType, SetupPlaces
<1> QED
  BY <1>1, <1>2, <1>3, <1>4, <1>5, TypeParts

\* What reconnectMQTT() reads.
LEMMA StoredLoginType == ASSUME StoreType PROVE StoredLogin \in Logins
<1>1. \A k \in Keys : nvs[k] # Absent => nvs[k] \in ValuesOf(k)
  BY DEF StoreType, IsStore
<1>2. \A k \in TextKeys : nvs[k] # Absent => nvs[k] \in Strings
  BY <1>1 DEF TextKeys, ValuesOf
<1>3. nvs["mqtt_port"] # Absent => nvs["mqtt_port"] \in Ports
  BY <1>1 DEF Keys, ValuesOf
<1>4. {"mqtt_server", "mqtt_username", "mqtt_password"} \subseteq TextKeys
  BY DEF TextKeys, Keys
<1> QED
  BY <1>2, <1>3, <1>4, ConfigAssumption DEF StoredLogin, Logins

LEMMA SaveKeyType == TypeOK /\ SaveKey => TypeOK'
<1> SUFFICES ASSUME TypeOK, SaveKey PROVE TypeOK'
  OBVIOUS
<1> USE TypeParts
<1>1. saved \in 0 .. 5 /\ saved' = saved + 1
  BY SaveOrderKeys DEF SaveKey, PlaceType
<1>2. SaveOrder[saved'] \in Keys
  BY <1>1, SaveOrderKeys
<1>3. IsStore([nvs EXCEPT ![SaveOrder[saved']] = cfg[SaveOrder[saved']]])
  BY <1>2 DEF StoreType, IsStore, IsConfig
<1>4. IsStore(nvs')
  BY <1>3 DEF SaveKey, StoreType
<1>5. StoreType'
  BY <1>4 DEF SaveKey, StoreType
<1>6. PlaceType'
  BY <1>1, SaveOrderKeys DEF SaveKey, PlaceType, SavePlaces
<1> QED
  BY <1>5, <1>6, Frames, FromParts DEF SaveKey

LEMMA TypeStep == TypeOK /\ [Next]_vars => TypeOK'
<1> SUFFICES ASSUME TypeOK, [Next]_vars PROVE TypeOK'
  OBVIOUS
<1> USE TypeParts
<1>1. CASE Setup
  <2>1. IsConfig(cfg')
    BY <1>1, LoadType, DefaultType DEF Setup, StoreType
  <2>2. << cfg'["ssid"], cfg'["password"] >> \in Strings \X Strings
    BY <2>1 DEF IsConfig, ValuesOf, Keys
  <2>3. StoreType'
    BY <1>1, <2>1 DEF Setup, StoreType, history
  <2>4. PlaceType'
    <3>1. open' \in BOOLEAN
      BY <1>1 DEF Setup
    <3>2. pc' \in {"loop", "connectToWiFi"} /\ UNCHANGED << saved, caller >>
      BY <1>1 DEF Setup
    <3> QED
      BY <3>1, <3>2 DEF PlaceType, SetupPlaces, LoopPlaces
  <2>5. RadioType'
    <3>1. ap' \in BOOLEAN
      BY <1>1 DEF Setup, RadioType
    <3>2. elapsed' = elapsed /\ sta' \in {sta, "trying"}
          /\ begun' \in {begun, << cfg'["ssid"], cfg'["password"] >>}
      BY <1>1 DEF Setup
    <3> QED
      BY <2>2, <3>1, <3>2 DEF RadioType
  <2> QED
    BY <1>1, <2>3, <2>4, <2>5, Frames, FromParts DEF Setup
<1>2. CASE WifiWait
  <2>1. RadioType'
    BY <1>2, Limits DEF WifiWait, RadioType
  <2> QED
    BY <1>2, <2>1, Frames, FromParts DEF WifiWait, config, PlaceType
<1>3. CASE WifiLeave
  <2>1. RadioType'
    BY <1>3, Limits DEF WifiLeave, RadioType
  <2> QED
    BY <1>3, <2>1, Frames, FromParts DEF WifiLeave, config, PlaceType, SetupPlaces
<1>4. CASE WifiDone
  <2>1. RadioType'
    <3>1. ap' \in BOOLEAN
      BY <1>4 DEF WifiDone, RadioType
    <3> QED
      BY <1>4, <3>1 DEF WifiDone, RadioType
  <2> QED
    BY <1>4, <2>1, Frames, FromParts DEF WifiDone, config, PlaceType, LoopPlaces
<1>5. CASE LoopStart \/ Reconnected \/ MqttLoop \/ HttpIdle \/ ResetIdle
  BY <1>5, Frames, FromParts
  DEF LoopStart, Reconnected, MqttLoop, HttpIdle, ResetIdle, config, PlaceType, LoopPlaces
<1>6. CASE Retrieve
  <2>1. login' \in Logins
    BY <1>6, StoredLoginType DEF Retrieve
  <2>2. MqttType'
    BY <1>6, <2>1 DEF Retrieve, MqttType
  <2>3. open' \in BOOLEAN
    BY <1>6 DEF Retrieve
  <2>4. PlaceType'
    BY <1>6, <2>3 DEF Retrieve, PlaceType, LoopPlaces
  <2> QED
    BY <1>6, <2>2, <2>4, Frames, FromParts DEF Retrieve
<1>7. CASE Connect
  <2>1. session' \in BOOLEAN
    BY <1>7 DEF Connect
  <2>2. MqttType'
    BY <1>7, <2>1 DEF Connect, MqttType
  <2> QED
    BY <1>7, <2>2, Frames, FromParts DEF Connect, config, PlaceType
<1>8. CASE SaveKey
  BY <1>8, SaveKeyType
<1>9. CASE SaveDone
  <2>1. StoreType' /\ ClientType'
    BY <1>9 DEF SaveDone, config, StoreType, ClientType
  <2> QED
    BY <1>9, <2>1, Frames, FromParts DEF SaveDone, config, PlaceType, SavePlaces
<1>10. CASE Restart
  BY <1>10, RebootType DEF Restart
<1>11. CASE HttpInfo \/ HttpCurrent \/ HttpRefused
  <2>1. open' \in BOOLEAN
    BY <1>11 DEF HttpInfo, HttpCurrent, HttpRefused, PlaceType
  <2>2. ClientType' /\ PlaceType'
    BY <1>11, <2>1
    DEF HttpInfo, HttpCurrent, HttpRefused, HttpAnswer, ClientType, PlaceType, LoopPlaces
  <2> QED
    BY <1>11, <2>2, Frames, FromParts DEF HttpInfo, HttpCurrent, HttpRefused, HttpAnswer
<1>12. CASE HttpConfig
  <2>1. IsDoc(Taken(request.doc))
    BY <1>12, ServerAssumption, TakenType DEF HttpConfig, Serve, Acceptable, ClientType
  <2>2. CASE Panics(Taken(request.doc))
    BY <1>12, <2>2, RebootType DEF HttpConfig, Update
  <2>3. CASE ~Panics(Taken(request.doc))
    <3>1. IsConfig(asked') /\ IsConfig(cfg')
      BY <1>12, <2>1, <2>3, RequestedType, FittedType DEF HttpConfig, Update, StoreType
    <3>2. StoreType' /\ ClientType'
      BY <1>12, <2>3, <3>1 DEF HttpConfig, Update, StoreType, ClientType
    <3>3. PlaceType'
      BY <1>12, <2>3, SaveOrderKeys DEF HttpConfig, Update, PlaceType, SavePlaces
    <3> QED
      BY <1>12, <2>3, <3>2, <3>3, Frames, FromParts DEF HttpConfig, Update
  <2> QED
    BY <2>2, <2>3
<1>13. CASE ResetClear
  <2>1. IsStore(nvs')
    BY <1>13 DEF ResetClear, StoreType, IsStore, EmptyStore
  <2>2. StoreType' /\ PlaceType'
    BY <1>13, <2>1 DEF ResetClear, StoreType, PlaceType, SavePlaces
  <2> QED
    BY <1>13, <2>2, Frames, FromParts DEF ResetClear
<1>14. CASE ResetDefaults
  <2>1. StoreType' /\ PlaceType'
    BY <1>14, DefaultType, SaveOrderKeys DEF ResetDefaults, StoreType, PlaceType, SavePlaces
  <2> QED
    BY <1>14, <2>1, Frames, FromParts DEF ResetDefaults
<1>15. CASE StaUp \/ StaDown
  <2>1. RadioType'
    BY <1>15 DEF StaUp, StaDown, RadioType
  <2> QED
    BY <1>15, <2>1, Frames, FromParts DEF StaUp, StaDown, config, PlaceType
<1>16. CASE SessionDrop
  <2>1. session' \in BOOLEAN
    BY <1>16 DEF SessionDrop
  <2>2. MqttType'
    BY <1>16, <2>1 DEF SessionDrop, MqttType
  <2> QED
    BY <1>16, <2>2, Frames, FromParts DEF SessionDrop, config, PlaceType
<1>17. CASE HttpRequest \/ HttpGiveUp
  <2>1. ClientType' /\ PlaceType'
    BY <1>17 DEF HttpRequest, HttpGiveUp, ClientType, PlaceType, config
  <2> QED
    BY <1>17, <2>1, Frames, FromParts DEF HttpRequest, HttpGiveUp, config
<1>18. CASE Press \/ Release
  <2>1. button' \in BOOLEAN
    BY <1>18 DEF Press, Release
  <2>2. ClientType'
    BY <1>18, <2>1 DEF Press, Release, ClientType, client
  <2> QED
    BY <1>18, <2>2, Frames, FromParts DEF Press, Release, config, PlaceType
<1>19. CASE PowerLoss
  <2>1. PowerOn /\ UNCHANGED << nvs, button, reply, told, kept >> /\ committed' = nvs
    BY <1>19 DEF PowerLoss
  <2>2. RadioType' /\ MqttType' /\ ClientType' /\ PlaceType' /\ IsConfig(cfg')
    BY <2>1, PowerOnType DEF TypeOK
  <2>3. outages' \in 0 .. MaxOutages
    BY <1>19, Limits DEF PowerLoss, StoreType
  <2>4. asked' = None
    BY <2>1 DEF PowerOn
  <2>5. StoreType'
    BY <2>1, <2>2, <2>3, <2>4 DEF StoreType
  <2> QED
    BY <2>2, <2>5, FromParts
<1>20. CASE UNCHANGED vars
  BY <1>20, Frames, FromParts DEF vars, config, PlaceType
<1> QED
  BY <1>1, <1>2, <1>3, <1>4, <1>5, <1>6, <1>7, <1>8, <1>9, <1>10, <1>11, <1>12, <1>13,
     <1>14, <1>15, <1>16, <1>17, <1>18, <1>19, <1>20
  DEF Next, Thread, Surroundings

\* Every variable keeps to its type, and a save to its six keys.
THEOREM TypeCorrect == Spec => []TypeOK
BY TypeInit, TypeStep, PTL DEF Spec

-----------------------------------------------------------------------------
(* RAM, the MQTT login and the radio                                       *)

\* Places after loadConfiguration() and before an update, a reset or a restart.
Loaded == { "connectToWiFi", "connectDone" } \cup LoopPlaces

\* A login that was read while preferences was closed has no server, and so no
\* session comes of it.
LoginInv ==
  /\ pc \in Loaded => cfg = Load(nvs, Default)
  /\ SessionUsesStored
  /\ session => pc \notin SetupPlaces \cup {"reconnectMQTT"}
  /\ pc = "connecting" => login = LoginIn(nvs) \/ login[1] = Empty

LEMMA PowerOnPlace == PowerOn => pc' = "setup" /\ ~session' /\ ~ap' /\ sta' = "off"
BY DEF PowerOn

LEMMA LoginStep == TypeOK /\ LoginInv /\ [Next]_vars => LoginInv'
<1> SUFFICES ASSUME TypeOK, LoginInv, [Next]_vars PROVE LoginInv'
  OBVIOUS
<1> USE DEF LoginInv, SessionUsesStored
<1>1. ASSUME pc' = "setup", ~session' PROVE LoginInv'
  BY <1>1 DEF Loaded, LoopPlaces
<1>2. ASSUME pc' \in SavePlaces PROVE LoginInv'
  BY <1>2 DEF Loaded, LoopPlaces, SetupPlaces, SavePlaces
<1>3. ASSUME UNCHANGED << nvs, cfg, login >>, session' => session,
             pc' = pc \/ (pc \in Loaded /\ pc' \in Loaded
                          /\ pc' \notin {"reconnectMQTT", "connecting"}),
             pc' \in SetupPlaces => pc \in SetupPlaces,
             pc \in SetupPlaces => ~session
      PROVE  LoginInv'
  BY <1>3 DEF Loaded, LoopPlaces, SetupPlaces
<1>4. CASE Setup
  <2>1. cfg' = Load(nvs', Default) /\ session' = session /\ pc = "setup"
    BY <1>4 DEF Setup, mqtt
  <2>2. pc' \in {"loop", "connectToWiFi"}
    BY <1>4 DEF Setup
  <2> QED
    BY <2>1, <2>2 DEF Loaded, LoopPlaces, SetupPlaces
<1>5. CASE WifiWait \/ WifiLeave \/ WifiDone
  BY <1>3, <1>5 DEF WifiWait, WifiLeave, WifiDone, config, mqtt, SetupPlaces, Loaded, LoopPlaces
<1>6. CASE LoopStart
  <2>1. UNCHANGED << nvs, cfg, login, session >> /\ pc = "loop"
    BY <1>6 DEF LoopStart, config, mqtt
  <2>2. \/ pc' \in {"handleClient", "mqttLoop"}
        \/ pc' = "reconnectMQTT" /\ ~session
    BY <1>6 DEF LoopStart
  <2> QED
    BY <2>1, <2>2 DEF Loaded, LoopPlaces, SetupPlaces
<1>7. CASE Retrieve
  <2>1. UNCHANGED << nvs, cfg, session >> /\ pc = "reconnectMQTT" /\ pc' = "connecting"
    BY <1>7 DEF Retrieve
  <2>2. CASE open
    <3>1. login' = LoginIn(nvs)
      BY <1>7, <2>2 DEF Retrieve, StoredLogin, LoginIn
    <3> QED
      BY <2>1, <3>1 DEF Loaded, LoopPlaces, SetupPlaces
  <2>3. CASE ~open
    <3>1. login'[1] = Empty
      BY <1>7, <2>3 DEF Retrieve, StoredLogin
    <3> QED
      BY <2>1, <3>1 DEF Loaded, LoopPlaces, SetupPlaces
  <2> QED
    BY <2>2, <2>3
<1>8. CASE Connect
  <2>1. UNCHANGED << pc, nvs, cfg, login >> /\ pc = "connecting"
    BY <1>8 DEF Connect, config
  <2>2. << login[1], login[2] % 65536, login[3], login[4] >> \in Brokers
    BY <1>8 DEF Connect
  <2>3. login[1] # Empty
    BY <2>2, ServerAssumption
  <2> QED
    BY <2>1, <2>3 DEF Loaded, LoopPlaces, SetupPlaces
<1>9. CASE Reconnected \/ MqttLoop \/ HttpIdle \/ ResetIdle
  BY <1>3, <1>9
  DEF Reconnected, MqttLoop, HttpIdle, ResetIdle, config, mqtt, Loaded, LoopPlaces, SetupPlaces
<1>10. CASE HttpInfo \/ HttpCurrent \/ HttpRefused
  BY <1>3, <1>10
  DEF HttpInfo, HttpCurrent, HttpRefused, HttpAnswer, Serve, mqtt, Loaded, LoopPlaces, SetupPlaces
<1>11. CASE SaveKey \/ SaveDone \/ ResetClear \/ ResetDefaults
  BY <1>2, <1>11 DEF SaveKey, SaveDone, ResetClear, ResetDefaults, SavePlaces
<1>12. CASE HttpConfig
  BY <1>1, <1>2, <1>12, PowerOnPlace DEF HttpConfig, Update, Reboot, SavePlaces
<1>13. CASE Restart \/ PowerLoss
  BY <1>1, <1>13, PowerOnPlace DEF Restart, Reboot, PowerLoss
<1>14. CASE StaUp \/ StaDown \/ SessionDrop \/ HttpRequest \/ HttpGiveUp \/ Press \/ Release
  BY <1>3, <1>14
  DEF StaUp, StaDown, SessionDrop, HttpRequest, HttpGiveUp, Press, Release, config, mqtt
<1>15. CASE UNCHANGED vars
  BY <1>3, <1>15 DEF vars, config, mqtt
<1> QED
  BY <1>4, <1>5, <1>6, <1>7, <1>8, <1>9, <1>10, <1>11, <1>12, <1>13, <1>14, <1>15
  DEF Next, Thread, Surroundings

LEMMA LoginInit == Init => LoginInv
BY DEF Init, LoginInv, SessionUsesStored, Loaded, LoopPlaces

\* Also an update that could not be written is gone from RAM when loop() runs.
THEOREM RamFollowsFlash == Spec => []RamMirrorsFlash
<1>1. LoginInv => RamMirrorsFlash
  BY DEF LoginInv, RamMirrorsFlash, Loaded
<1> QED
  BY TypeInit, TypeStep, LoginInit, LoginStep, <1>1, PTL DEF Spec

\* Every session that comes about was opened with what flash holds, whoever
\* closed preferences.
THEOREM SessionsUseFlash == Spec => []SessionUsesStored
<1>1. LoginInv => SessionUsesStored
  BY DEF LoginInv
<1> QED
  BY TypeInit, TypeStep, LoginInit, LoginStep, <1>1, PTL DEF Spec

\* The access point is there for the boards that have given up on a station.
NetworkInv ==
  /\ OneNetwork
  /\ session => pc \notin SetupPlaces
  /\ pc \in SetupPlaces => ~ap
  /\ pc = "setup" => sta = "off"
  /\ pc \in {"connectToWiFi", "connectDone"} => sta # "off"

LEMMA NetworkStep == NetworkInv /\ [Next]_vars => NetworkInv'
<1> SUFFICES ASSUME NetworkInv, [Next]_vars PROVE NetworkInv'
  OBVIOUS
<1> USE DEF NetworkInv, OneNetwork
<1>1. ASSUME PowerOn PROVE NetworkInv'
  BY <1>1, PowerOnPlace DEF LoopPlaces, SetupPlaces
<1>2. ASSUME UNCHANGED << sta, ap >>, session' => session,
             pc' = pc \/ (pc \notin SetupPlaces /\ pc' \notin SetupPlaces
                          /\ (pc \in LoopPlaces \/ pc' \notin LoopPlaces))
      PROVE  NetworkInv'
  BY <1>2 DEF SetupPlaces
<1>3. CASE Setup
  <2>1. pc = "setup" /\ session' = session
    BY <1>3 DEF Setup, mqtt
  <2>2. \/ pc' = "loop" /\ ap' = TRUE /\ sta' = sta
        \/ pc' = "connectToWiFi" /\ sta' = "trying" /\ ap' = ap
    BY <1>3 DEF Setup
  <2>3. CASE pc' = "loop" /\ ap' = TRUE /\ sta' = sta
    <3>1. ap'
      BY <2>3
    <3> QED
      BY <2>1, <2>3, <3>1 DEF SetupPlaces
  <2>4. CASE pc' = "connectToWiFi" /\ sta' = "trying" /\ ap' = ap
    BY <2>1, <2>4 DEF SetupPlaces, LoopPlaces
  <2> QED
    BY <2>2, <2>3, <2>4
<1>4. CASE WifiWait \/ WifiLeave
  <2>1. UNCHANGED << sta, ap, session >> /\ pc = "connectToWiFi"
        /\ pc' \in {"connectToWiFi", "connectDone"}
    BY <1>4 DEF WifiWait, WifiLeave, mqtt
  <2> QED
    BY <2>1 DEF SetupPlaces, LoopPlaces
<1>5. CASE WifiDone
  <2>1. pc = "connectDone" /\ pc' = "loop" /\ session' = session
    BY <1>5 DEF WifiDone, mqtt
  <2>2. CASE sta = "up"
    BY <1>5, <2>1, <2>2 DEF WifiDone, SetupPlaces
  <2>3. CASE sta # "up"
    <3>1. sta' = "off" /\ ap' = TRUE
      BY <1>5, <2>3 DEF WifiDone
    <3>2. ap'
      BY <3>1
    <3> QED
      BY <2>1, <3>1, <3>2 DEF SetupPlaces
  <2> QED
    BY <2>2, <2>3
<1>6. CASE LoopStart \/ Retrieve \/ Reconnected \/ MqttLoop \/ HttpIdle \/ ResetIdle
  BY <1>2, <1>6
  DEF LoopStart, Retrieve, Reconnected, MqttLoop, HttpIdle, ResetIdle, radio, mqtt,
      LoopPlaces, SetupPlaces
<1>7. CASE Connect
  <2>1. UNCHANGED << pc, sta, ap >> /\ sta = "up" /\ pc = "connecting"
    BY <1>7 DEF Connect, radio
  <2> QED
    BY <2>1 DEF SetupPlaces
<1>8. CASE HttpInfo \/ HttpCurrent \/ HttpRefused
  BY <1>2, <1>8
  DEF HttpInfo, HttpCurrent, HttpRefused, HttpAnswer, Serve, radio, mqtt, LoopPlaces, SetupPlaces
<1>9. CASE SaveKey \/ SaveDone \/ ResetClear \/ ResetDefaults
  BY <1>2, <1>9
  DEF SaveKey, SaveDone, ResetClear, ResetDefaults, radio, mqtt, LoopPlaces, SetupPlaces
<1>10. CASE HttpConfig
  BY <1>1, <1>2, <1>10
  DEF HttpConfig, Serve, Update, Reboot, radio, mqtt, LoopPlaces, SetupPlaces
<1>11. CASE Restart \/ PowerLoss
  BY <1>1, <1>11 DEF Restart, Reboot, PowerLoss
<1>12. CASE StaUp \/ StaDown
  <2>1. UNCHANGED << pc, ap, session >> /\ sta # "off" /\ sta' # "off"
    BY <1>12 DEF StaUp, StaDown, mqtt
  <2> QED
    BY <2>1 DEF SetupPlaces
<1>13. CASE SessionDrop \/ HttpRequest \/ HttpGiveUp \/ Press \/ Release \/ UNCHANGED vars
  BY <1>2, <1>13
  DEF SessionDrop, HttpRequest, HttpGiveUp, Press, Release, vars, radio, mqtt
<1> QED
  BY <1>3, <1>4, <1>5, <1>6, <1>7, <1>8, <1>9, <1>10, <1>11, <1>12, <1>13
  DEF Next, Thread, Surroundings

\* A board serves on its access point or tries its station, never both.
THEOREM NetworksAreExclusive == Spec => []OneNetwork
<1>1. Init => NetworkInv
  BY DEF Init, NetworkInv, OneNetwork, LoopPlaces
<1>2. NetworkInv => OneNetwork
  BY DEF NetworkInv
<1> QED
  BY NetworkStep, <1>1, <1>2, PTL DEF Spec

-----------------------------------------------------------------------------
(* The store, as long as preferences is open                               *)

\* An update or a reset to the defaults is in RAM before it is saved; a save with
\* preferences closed leaves flash alone.
UpdateInv ==
  /\ asked # None => pc \in {"saveConfiguration", "saveDone", "restart"}
  /\ pc \in {"saveConfiguration", "saveDone"} => asked # None /\ cfg = Fitted(asked)
  /\ pc = "resetDefaults" /\ open => kept = None
  /\ pc = "saveConfiguration" /\ ~open => nvs = committed
  /\ pc = "saveConfiguration" /\ open =>
       \A i \in 1 .. Len(SaveOrder) :
         nvs[SaveOrder[i]] = IF i <= saved THEN cfg[SaveOrder[i]]
                                           ELSE committed[SaveOrder[i]]
  /\ pc \in {"saveDone", "restart"} /\ open /\ asked # None => nvs = Fitted(asked)
  /\ pc # "saveConfiguration" => committed = nvs

SilentStep ==
  /\ UNCHANGED << nvs, history >>
  /\ \/ pc' = pc /\ UNCHANGED << cfg, saved, open >>
     \/ pc \notin SavePlaces /\ pc' \notin SavePlaces

\* A client's update, and the defaults of a reset: both get into RAM to be saved.
Accept ==
  /\ pc \in {"handleClient", "resetDefaults"}
  /\ pc' = "saveConfiguration"
  /\ asked' # None /\ IsConfig(asked')
  /\ cfg' = Fitted(asked')
  /\ saved' = 0
  /\ open => kept' = None
  /\ ~open => kept' = kept
  /\ UNCHANGED << nvs, open, committed, outages >>

\* A document of the wrong types restarts the board.
Panic == pc = "handleClient" /\ Reboot

LEMMA HttpConfigKinds == TypeOK /\ HttpConfig => Panic \/ Accept
<1> SUFFICES ASSUME TypeOK, HttpConfig PROVE Panic \/ Accept
  OBVIOUS
<1>1. pc = "handleClient" /\ Update(request.doc)
  BY DEF HttpConfig, Serve
<1>2. IsDoc(Taken(request.doc))
  BY ServerAssumption, TakenType, TypeParts DEF HttpConfig, Serve, Acceptable, ClientType
<1>3. CASE Panics(Taken(request.doc))
  BY <1>1, <1>3 DEF Update, Panic
<1>4. CASE ~Panics(Taken(request.doc))
  <2>1. IsConfig(asked')
    BY <1>1, <1>2, <1>4, RequestedType DEF Update, TypeOK
  <2> QED
    BY <1>1, <1>4, <2>1, NoneIsNoConfig DEF Update, Accept
<1> QED
  BY <1>3, <1>4

LEMMA ResetDefaultsKind == UpdateInv /\ ResetDefaults => Accept
BY DefaultType, NoneIsNoConfig DEF UpdateInv, ResetDefaults, Accept

LEMMA StepKinds ==
  TypeOK /\ UpdateInv /\ [Next]_vars =>
    \/ SilentStep
    \/ Accept /\ (HttpConfig \/ ResetDefaults)
    \/ Panic \/ SaveKey \/ SaveDone \/ Restart \/ ResetClear \/ PowerLoss
<1> SUFFICES ASSUME TypeOK, UpdateInv, [Next]_vars
             PROVE  \/ SilentStep
                    \/ Accept /\ (HttpConfig \/ ResetDefaults)
                    \/ Panic \/ SaveKey \/ SaveDone \/ Restart \/ ResetClear \/ PowerLoss
  OBVIOUS
<1>1. ASSUME Setup \/ WifiWait \/ WifiLeave \/ WifiDone PROVE SilentStep
  BY <1>1 DEF Setup, WifiWait, WifiLeave, WifiDone, SilentStep, SavePlaces, config
<1>2. ASSUME LoopStart \/ Retrieve \/ Connect \/ Reconnected \/ MqttLoop PROVE SilentStep
  BY <1>2 DEF LoopStart, Retrieve, Connect, Reconnected, MqttLoop, SilentStep, SavePlaces, config
<1>3. ASSUME HttpIdle \/ HttpInfo \/ HttpCurrent \/ HttpRefused \/ ResetIdle
      PROVE  SilentStep
  BY <1>3 DEF HttpIdle, HttpInfo, HttpCurrent, HttpRefused, HttpAnswer, Serve, ResetIdle,
              SilentStep, SavePlaces, config
<1>4. ASSUME StaUp \/ StaDown \/ SessionDrop \/ HttpRequest \/ HttpGiveUp PROVE SilentStep
  BY <1>4 DEF StaUp, StaDown, SessionDrop, HttpRequest, HttpGiveUp, SilentStep, config
<1>5. ASSUME Press \/ Release \/ UNCHANGED vars PROVE SilentStep
  BY <1>5 DEF Press, Release, vars, SilentStep, config
<1> QED
  BY <1>1, <1>2, <1>3, <1>4, <1>5, HttpConfigKinds, ResetDefaultsKind
  DEF Next, Thread, Surroundings

LEMMA RebootEffect == Reboot => /\ pc' = "setup" /\ asked' = None /\ ~open'
                                /\ UNCHANGED << nvs, kept, committed, outages >>
BY DEF Reboot, PowerOn

LEMMA PowerLossEffect == PowerLoss => /\ pc' = "setup" /\ asked' = None /\ ~open'
                                      /\ UNCHANGED << nvs, kept >>
                                      /\ committed' = nvs /\ outages' = outages + 1
BY DEF PowerLoss, PowerOn

LEMMA UpdateInit == Init => UpdateInv
BY DEF Init, UpdateInv

\* One more key with preferences open: it is new, the keys before it stay new,
\* the others stay old.
LEMMA SaveKeyKeepsPrefix ==
  ASSUME TypeOK, UpdateInv, SaveKey, open
  PROVE  /\ saved' \in 1 .. 6
         /\ nvs' = [k \in Keys |-> nvs'[k]]
         /\ \A i \in 1 .. 6 :
              nvs'[SaveOrder[i]] = IF i <= saved' THEN cfg[SaveOrder[i]]
                                                  ELSE committed[SaveOrder[i]]
<1>1. /\ saved \in 0 .. 5 /\ saved' = saved + 1
      /\ nvs' = [nvs EXCEPT ![SaveOrder[saved']] = cfg[SaveOrder[saved']]]
      /\ pc = "saveConfiguration"
  BY SaveOrderKeys DEF SaveKey, TypeOK
<1>2. nvs = [k \in Keys |-> nvs[k]]
  BY DEF TypeOK, IsStore
<1>3. \A i \in 1 .. 6 :
        nvs[SaveOrder[i]] = IF i <= saved THEN cfg[SaveOrder[i]]
                                          ELSE committed[SaveOrder[i]]
  BY <1>1, SaveOrderKeys DEF UpdateInv
<1>4. saved' \in 1 .. 6
  BY <1>1
<1>5. nvs' = [k \in Keys |-> nvs'[k]]
  BY <1>1, <1>2
<1>6. ASSUME NEW i \in 1 .. 6
      PROVE  nvs'[SaveOrder[i]] = IF i <= saved' THEN cfg[SaveOrder[i]]
                                                 ELSE committed[SaveOrder[i]]
  <2>1. SaveOrder[i] \in Keys /\ SaveOrder[saved'] \in Keys
    BY <1>4, SaveOrderKeys
  <2>2. CASE i = saved'
    BY <1>1, <1>2, <2>1, <2>2
  <2>3. CASE i # saved'
    <3>1. SaveOrder[i] # SaveOrder[saved']
      BY <1>4, <2>3, SaveOrderKeys
    <3>2. nvs'[SaveOrder[i]] = nvs[SaveOrder[i]]
      BY <1>1, <1>2, <2>1, <3>1
    <3>3. i <= saved' <=> i <= saved
      BY <1>1, <2>3
    <3> QED
      BY <1>3, <3>2, <3>3
  <2> QED
    BY <2>2, <2>3
<1> QED
  BY <1>4, <1>5, <1>6

\* The sixth key completes the configuration.
LEMMA LastKey == ASSUME TypeOK, UpdateInv, SaveKey, open, saved' = 6
                 PROVE  nvs' = Fitted(asked)
<1>1. cfg = Fitted(asked)
  BY DEF UpdateInv, SaveKey
<1>2. ASSUME NEW k \in Keys PROVE nvs'[k] = Fitted(asked)[k]
  <2>1. PICK i \in 1 .. 6 : k = SaveOrder[i]
    BY SaveOrderKeys
  <2>2. i <= saved'
    BY <2>1
  <2> QED
    BY <1>1, <2>1, <2>2, SaveKeyKeepsPrefix
<1>3. Fitted(asked) = [k \in Keys |-> Fitted(asked)[k]]
  BY DEF Fitted
<1>4. nvs' = [k \in Keys |-> nvs'[k]]
  BY SaveKeyKeepsPrefix
<1> QED
  BY <1>2, <1>3, <1>4

LEMMA SaveKeyEffect ==
  ASSUME TypeOK, UpdateInv, SaveKey
  PROVE  /\ pc = "saveConfiguration" /\ asked # None /\ cfg = Fitted(asked)
         /\ UNCHANGED << open, cfg, asked, kept, outages >>
         /\ \/ saved' = 6 /\ pc' = "saveDone" /\ committed' = nvs'
            \/ saved' # 6 /\ pc' = "saveConfiguration" /\ committed' = committed
         /\ ~open => nvs' = nvs /\ nvs = committed
<1>1. UNCHANGED << open, cfg, asked, kept, outages >> /\ pc = "saveConfiguration"
  BY DEF SaveKey
<1>2. asked # None /\ cfg = Fitted(asked) /\ (~open => nvs = committed)
  BY <1>1 DEF UpdateInv
<1>3. IF saved' = 6 THEN committed' = nvs' /\ pc' = "saveDone"
      ELSE UNCHANGED << committed, pc >>
  BY SaveOrderKeys DEF SaveKey
<1>4. ~open => nvs' = nvs
  BY DEF SaveKey
<1> QED
  BY <1>1, <1>2, <1>3, <1>4

LEMMA UpdateStep == TypeOK /\ UpdateInv /\ [Next]_vars => UpdateInv'
<1> SUFFICES ASSUME TypeOK, UpdateInv, [Next]_vars PROVE UpdateInv'
  OBVIOUS
<1> USE DEF UpdateInv
<1>1. CASE SilentStep
  <2>1. UNCHANGED << nvs, committed, asked, kept >>
    BY <1>1 DEF SilentStep, history
  <2>2. CASE pc' = pc /\ UNCHANGED << cfg, saved, open >>
    BY <2>1, <2>2
  <2>3. CASE pc \notin SavePlaces /\ pc' \notin SavePlaces
    BY <2>1, <2>3 DEF SavePlaces
  <2> QED
    BY <1>1, <2>2, <2>3 DEF SilentStep
<1>2. CASE Accept
  <2>1. nvs' = committed' /\ saved' = 0
    BY <1>2 DEF Accept
  <2>2. ASSUME NEW i \in 1 .. Len(SaveOrder)
        PROVE  nvs'[SaveOrder[i]] = IF i <= saved' THEN cfg'[SaveOrder[i]]
                                                   ELSE committed'[SaveOrder[i]]
    BY <2>1, <2>2
  <2> QED
    BY <1>2, <2>1, <2>2 DEF Accept
<1>3. CASE Panic
  BY <1>3, RebootEffect DEF Panic
<1>4. CASE Restart
  BY <1>4, RebootEffect DEF Restart
<1>5. CASE SaveKey
  <2>1. CASE open
    <3>1. saved' = 6 => nvs' = Fitted(asked)
      BY <1>5, <2>1, LastKey
    <3>2. /\ saved' \in 1 .. 6
          /\ \A i \in 1 .. 6 :
               nvs'[SaveOrder[i]] = IF i <= saved' THEN cfg[SaveOrder[i]]
                                                   ELSE committed[SaveOrder[i]]
      BY <1>5, <2>1, SaveKeyKeepsPrefix
    <3>3. open'
      BY <1>5, <2>1, SaveKeyEffect
    <3> QED
      BY <1>5, <3>1, <3>2, <3>3, SaveKeyEffect, SaveOrderKeys
  <2>2. CASE ~open
    <3>1. ~open'
      BY <1>5, <2>2, SaveKeyEffect
    <3> QED
      BY <1>5, <2>2, <3>1, SaveKeyEffect
  <2> QED
    BY <2>1, <2>2
<1>6. CASE SaveDone
  <2>1. /\ pc = "saveDone" /\ pc' = "restart"
        /\ UNCHANGED << nvs, asked, committed >>
    BY <1>6 DEF SaveDone, config
  <2>2. open' <=> open
    BY <1>6 DEF SaveDone, config
  <2> QED
    BY <2>1, <2>2
<1>7. CASE ResetClear
  <2>1. /\ pc = "handleReset" /\ pc' = "resetDefaults" /\ committed' = nvs'
        /\ asked' = asked
    BY <1>7 DEF ResetClear
  <2>2. open' => kept' = None
    BY <1>7 DEF ResetClear
  <2> QED
    BY <2>1, <2>2
<1>8. CASE PowerLoss
  BY <1>8, PowerLossEffect
<1> QED
  BY <1>1, <1>2, <1>3, <1>4, <1>5, <1>6, <1>7, <1>8, StepKinds

-----------------------------------------------------------------------------
\* The instance's operators are this module's.
LEMMA StoreOperators ==
  /\ Store!Keys = Keys
  /\ Store!EmptyStore = EmptyStore
  /\ \A c : Store!IsConfig(c) <=> IsConfig(c)
  /\ \A c : Store!IsStore(c) <=> IsStore(c)
  /\ \A c : Store!Fitted(c) = Fitted(c)
<1>1. Store!Keys = Keys
  BY DEF Store!Keys, Keys
<1>2. \A k : Store!ValuesOf(k) = ValuesOf(k)
  BY DEF Store!ValuesOf, ValuesOf
<1>3. \A c : Store!IsConfig(c) <=> IsConfig(c)
  BY <1>1, <1>2 DEF Store!IsConfig, IsConfig
<1>4. \A c : Store!IsStore(c) <=> IsStore(c)
  BY <1>1, <1>2 DEF Store!IsStore, IsStore
<1>5. \A c : Store!Fitted(c) = Fitted(c)
  BY <1>1 DEF Store!Fitted, Fitted, Store!Fit, Fit
<1> QED
  BY <1>1, <1>3, <1>4, <1>5 DEF Store!EmptyStore, EmptyStore

LEMMA StoreInitMaps == TypeOK /\ Init => Store!Init
<1> SUFFICES ASSUME TypeOK, Init PROVE Store!Init
  OBVIOUS
<1>1. pc = "setup" /\ asked = None /\ kept = None /\ outages = 0
  BY DEF Init
<1> QED
  BY <1>1, StoreOperators DEF Stored, Written, Store!Init, TypeOK

LEMMA StoreStepMaps ==
  TypeOK /\ UpdateInv /\ [Next]_vars => [Store!Next]_(Store!storeVars)
<1> SUFFICES ASSUME TypeOK, UpdateInv, [Next]_vars
             PROVE  Store!Next \/ UNCHANGED Store!storeVars
  OBVIOUS
<1> USE DEF Store!storeVars
<1>1. CASE SilentStep
  <2>1. Stored' = Stored /\ Written' = Written
    <3>1. UNCHANGED << nvs, committed, asked >>
      BY <1>1 DEF SilentStep, history
    <3>2. CASE pc' = pc /\ UNCHANGED open
      BY <3>1, <3>2 DEF Stored, Written
    <3>3. CASE pc \notin SavePlaces /\ pc' \notin SavePlaces
      BY <3>1, <3>3 DEF Stored, Written, SavePlaces, UpdateInv
    <3> QED
      BY <1>1, <3>2, <3>3 DEF SilentStep
  <2> QED
    BY <1>1, <2>1 DEF SilentStep, history
<1>2. CASE Accept
  <2>1. asked = None
    BY <1>2 DEF Accept, UpdateInv
  <2>2. Stored' = Stored
    BY <1>2 DEF Accept, Stored, UpdateInv
  <2>3. CASE open
    <3>1. Written = None /\ Written' = asked' /\ kept' = None /\ outages' = outages
      BY <1>2, <2>1, <2>3 DEF Accept, Written
    <3>2. Store!Ask
      BY <1>2, <2>2, <3>1, StoreOperators DEF Accept, Store!Ask
    <3> QED
      BY <3>2 DEF Store!Next
  <2>4. CASE ~open
    <3>1. Written = None /\ Written' = None /\ UNCHANGED << kept, outages >>
      BY <1>2, <2>4 DEF Accept, Written
    <3> QED
      BY <2>2, <3>1
  <2> QED
    BY <2>3, <2>4
<1>3. CASE Panic
  <2>1. asked = None /\ asked' = None
    BY <1>3, RebootEffect DEF Panic, UpdateInv
  <2>2. Stored' = Stored /\ Written' = Written
    BY <1>3, <2>1, RebootEffect DEF Panic, Stored, Written
  <2> QED
    BY <1>3, <2>2, RebootEffect DEF Panic
<1>4. CASE SaveKey
  <2>1. Written' = Written
    BY <1>4, SaveKeyEffect DEF Written
  <2>2. CASE open /\ saved' = 6
    <3>1. Stored' = Fitted(asked)
      BY <1>4, <2>2, LastKey, SaveKeyEffect DEF Stored
    <3>2. Written = asked
      BY <2>2 DEF Written
    <3>3. Store!Commit
      BY <1>4, <2>1, <3>1, <3>2, SaveKeyEffect, StoreOperators DEF Store!Commit
    <3> QED
      BY <3>3 DEF Store!Next
  <2>3. CASE ~open \/ saved' # 6
    <3>1. Stored' = Stored
      BY <1>4, <2>3, SaveKeyEffect DEF Stored
    <3> QED
      BY <1>4, <2>1, <3>1, SaveKeyEffect
  <2> QED
    BY <2>2, <2>3
<1>5. CASE SaveDone
  <2>1. /\ pc = "saveDone" /\ pc' = "restart" /\ UNCHANGED << nvs, asked, outages >>
        /\ open' = open
    BY <1>5 DEF SaveDone, config
  <2>2. Stored' = Stored /\ Written' = Written
    BY <2>1 DEF Stored, Written
  <2>3. kept' = kept \/ (open /\ kept' = asked)
    BY <1>5 DEF SaveDone
  <2>4. CASE open /\ kept' = asked
    <3>1. Written = asked /\ asked # None /\ Stored = Fitted(asked)
      BY <2>1, <2>4 DEF Written, Stored, UpdateInv
    <3>2. Store!Promise
      BY <2>1, <2>2, <2>4, <3>1, StoreOperators DEF Store!Promise
    <3> QED
      BY <3>2 DEF Store!Next
  <2> QED
    BY <2>1, <2>2, <2>3, <2>4
<1>6. CASE Restart
  <2>1. Stored' = Stored /\ Written' = None
    BY <1>6, RebootEffect DEF Restart, Stored, Written
  <2>2. CASE Written = None
    BY <1>6, <2>1, <2>2, RebootEffect DEF Restart
  <2>3. CASE Written # None
    <3>1. open /\ asked # None /\ Written = asked
      BY <2>3 DEF Written
    <3>2. Stored = Fitted(asked)
      BY <1>6, <3>1 DEF Restart, UpdateInv, Stored
    <3>3. Store!Finish
      BY <1>6, <2>1, <2>3, <3>1, <3>2, RebootEffect, StoreOperators DEF Restart, Store!Finish
    <3> QED
      BY <3>3 DEF Store!Next
  <2> QED
    BY <2>2, <2>3
<1>7. CASE ResetClear
  <2>1. asked = None /\ asked' = None /\ outages' = outages /\ pc = "handleReset"
    BY <1>7 DEF ResetClear, UpdateInv
  <2>2. Written = None /\ Written' = None
    BY <2>1 DEF Written
  <2>3. Stored' = nvs' /\ Stored = nvs
    BY <1>7 DEF ResetClear, Stored
  <2>4. CASE open
    <3>1. Store!Erase
      BY <1>7, <2>1, <2>2, <2>3, <2>4, StoreOperators DEF ResetClear, Store!Erase
    <3> QED
      BY <3>1 DEF Store!Next
  <2>5. CASE ~open
    BY <1>7, <2>1, <2>2, <2>3, <2>5 DEF ResetClear
  <2> QED
    BY <2>4, <2>5
<1>8. CASE PowerLoss
  <2>1. Stored' = nvs /\ Written' = None
    BY <1>8, PowerLossEffect DEF Stored, Written
  <2>2. CASE Stored = nvs
    <3>1. Store!Outage
      BY <1>8, <2>1, <2>2, PowerLossEffect DEF Store!Outage
    <3> QED
      BY <3>1 DEF Store!Next
  <2>3. CASE Stored # nvs
    <3>1. pc = "saveConfiguration" /\ open /\ Stored = committed
      BY <2>3 DEF Stored, UpdateInv
    <3>2. asked # None /\ cfg = Fitted(asked) /\ Written = asked
      BY <3>1 DEF UpdateInv, Written
    <3>3. nvs = [k \in Keys |-> nvs[k]]
      BY DEF TypeOK, IsStore
    <3>4. ASSUME NEW k \in Keys PROVE nvs[k] \in {Stored[k], Fitted(asked)[k]}
      <4>1. PICK i \in 1 .. 6 : k = SaveOrder[i]
        BY SaveOrderKeys
      <4>2. nvs[SaveOrder[i]] = IF i <= saved THEN cfg[SaveOrder[i]]
                                              ELSE committed[SaveOrder[i]]
        BY <3>1, SaveOrderKeys DEF UpdateInv
      <4> QED
        BY <3>1, <3>2, <4>1, <4>2
    <3>5. Store!Outage
      BY <1>8, <2>1, <3>2, <3>3, <3>4, PowerLossEffect, StoreOperators DEF Store!Outage
    <3> QED
      BY <3>5 DEF Store!Next
  <2> QED
    BY <2>2, <2>3
<1> QED
  BY <1>1, <1>2, <1>3, <1>4, <1>5, <1>6, <1>7, <1>8, StepKinds

\* What gets written gets written as the abstract store allows, and what is tried
\* with preferences closed leaves the store alone.
THEOREM ImplementsConfigStore == Spec => ImplementsStoreWhileOpen
<1>1. Init => Store!Init
  BY TypeInit, StoreInitMaps
<1> QED
  BY TypeInit, TypeStep, UpdateInit, UpdateStep, <1>1, StoreStepMaps, PTL
  DEF Spec, ImplementsStoreWhileOpen, Store!Spec

-----------------------------------------------------------------------------
(* What the abstract store keeps, its implementation keeps.                *)

Promises == INSTANCE ConfigStoreProofs
              WITH stored <- Stored, asked <- Written, promised <- kept

LEMMA StoreSteps ==
  /\ Store!Init => Promises!Init
  /\ [Store!Next]_(Store!storeVars) => [Promises!Next]_(Promises!storeVars)
BY DEF Store!Init, Promises!Init, Store!Next, Promises!Next,
       Store!storeVars, Promises!storeVars,
       Store!Ask, Promises!Ask, Store!Commit, Promises!Commit,
       Store!Promise, Promises!Promise, Store!Finish, Promises!Finish,
       Store!Erase, Promises!Erase, Store!Outage, Promises!Outage,
       Store!IsStore, Promises!IsStore, Store!IsConfig, Promises!IsConfig,
       Store!Fitted, Promises!Fitted, Store!Fit, Promises!Fit, Store!Keys, Promises!Keys,
       Store!ValuesOf, Promises!ValuesOf, Store!EmptyStore, Promises!EmptyStore

\* The update that could be written and was answered "updated" is in flash.
WrittenIsKept == kept # None => Stored = Fitted(kept)

\* And it is in RAM when loop() works.
WrittenIsUsed == kept # None /\ pc \in LoopPlaces => cfg = Fitted(kept) /\ asked = None

\* The proof is ConfigStore's, carried over by the refinement.
LEMMA PromisesHold == Spec => []WrittenIsKept
<1>1. Promises!StoreInv => WrittenIsKept
  BY DEF Promises!StoreInv, Promises!PromiseKept, Promises!Fitted, Fitted,
         Promises!Fit, Fit, Promises!Keys, Keys, WrittenIsKept
<1>2. Promises!Init => Promises!StoreInv
  BY Promises!StoreInit, ConfigAssumption DEF Keys, Promises!Keys
<1>3. Promises!StoreInv /\ [Promises!Next]_(Promises!storeVars) => Promises!StoreInv'
  BY Promises!StoreStep, ConfigAssumption DEF Keys, Promises!Keys
<1>4. Init => Promises!Init
  BY TypeInit, StoreInitMaps, StoreSteps
<1>5. TypeOK /\ UpdateInv /\ [Next]_vars => [Promises!Next]_(Promises!storeVars)
  BY StoreStepMaps, StoreSteps
<1> QED
  BY TypeInit, TypeStep, UpdateInit, UpdateStep, <1>1, <1>2, <1>3, <1>4, <1>5, PTL DEF Spec

\* An "updated" that was sent with preferences open can be relied on: until another
\* update is written or the store is reset, the configuration stays in flash through
\* lost updates, restarts and power failures, and loop() works with no other.
THEOREM WrittenUpdatesLast == Spec => []WrittenIsKept /\ []WrittenIsUsed
<1>1. TypeOK /\ LoginInv /\ UpdateInv /\ WrittenIsKept => WrittenIsUsed
  <2> SUFFICES ASSUME TypeOK, LoginInv, UpdateInv, WrittenIsKept,
                      kept # None, pc \in LoopPlaces
               PROVE  cfg = Fitted(kept) /\ asked = None
    BY DEF WrittenIsUsed
  <2>1. pc \in Loaded /\ pc \notin {"saveConfiguration", "saveDone", "restart"}
    BY DEF Loaded, LoopPlaces
  <2>2. cfg = Load(nvs, Default) /\ asked = None /\ Stored = nvs
    BY <2>1 DEF LoginInv, UpdateInv, Stored
  <2>3. IsConfig(kept)
    BY DEF TypeOK
  <2> QED
    BY <2>2, <2>3, LoadSaved DEF WrittenIsKept
<1> QED
  BY TypeInit, TypeStep, LoginInit, LoginStep, UpdateInit, UpdateStep, PromisesHold,
     <1>1, PTL DEF Spec

-----------------------------------------------------------------------------
(* A network and its password                                              *)

\* What is stored was given together, and so is what is on its way to the store.
PairsInv ==
  outages = 0 =>
    /\ GivenTogether(Load(Stored, Default))
    /\ pc = "saveConfiguration" => GivenTogether(cfg)

LEMMA DefaultTogether == GivenTogether(Default) /\ GivenTogether(Load(EmptyStore, Default))
<1>1. GivenTogether(Default)
  BY DEF GivenTogether
<1>2. Load(EmptyStore, Default) = Fitted(Default)
  BY DEF Load, EmptyStore, Fitted
<1> QED
  BY <1>1, <1>2, DefaultType

\* What is loaded fits the buffers.
LEMMA LoadFits == ASSUME NEW s, IsStore(s), NEW k \in Keys
                  PROVE  Fit(k, Load(s, Default)[k]) = Load(s, Default)[k]
<1>1. Default[k] \in ValuesOf(k)
  BY DefaultType DEF IsConfig
<1>2. CASE s[k] = Absent
  BY <1>1, <1>2, FitTwice DEF Load
<1>3. CASE s[k] # Absent
  <2>1. s[k] \in ValuesOf(k)
    BY <1>3 DEF IsStore
  <2> QED
    BY <1>3, <2>1, FitTwice DEF Load
<1> QED
  BY <1>2, <1>3

\* An update brings a network with its password, or leaves both as they are.
LEMMA UpdateTogether ==
  ASSUME TypeOK, LoginInv, HttpConfig, ~Panics(Taken(request.doc)),
         GivenTogether(Load(nvs, Default))
  PROVE  GivenTogether(cfg')
<1> DEFINE doc == request.doc
<1>1. /\ cfg = Load(nvs, Default) /\ cfg' = Fitted(Requested(cfg, Taken(doc)))
      /\ request \in Requests /\ doc \notin {NoBody, NotJson}
  BY TypeParts DEF HttpConfig, Serve, Acceptable, Update, LoginInv, Loaded, LoopPlaces, ClientType
<1>2. Pair \subseteq Keys /\ "mqtt_port" \notin Pair
  BY DEF Pair, Keys
<1>3. CASE Pair \subseteq DOMAIN doc
  <2>1. DOMAIN Taken(doc) = DOMAIN doc /\ \A k \in DOMAIN doc : Taken(doc)[k] = doc[k]
    BY <1>3 DEF Taken
  <2>2. ~Panics(doc)
    BY <2>1 DEF Panics
  <2>3. \A k \in Pair : cfg'[k] = Fit(k, doc[k])
    BY <1>1, <1>2, <1>3, <2>1 DEF Fitted, Requested
  <2> QED
    BY <1>1, <1>3, <2>2, <2>3 DEF GivenTogether
<1>4. CASE ~(Pair \subseteq DOMAIN doc)
  <2>1. \A k \in Pair : k \notin DOMAIN Taken(doc)
    BY <1>4 DEF Taken
  <2>2. \A k \in Pair : cfg'[k] = Fit(k, cfg[k])
    BY <1>1, <1>2, <2>1 DEF Fitted, Requested
  <2>3. \A k \in Pair : cfg'[k] = cfg[k]
    BY <1>1, <1>2, <2>2, LoadFits DEF TypeOK
  <2>4. cfg'["ssid"] = cfg["ssid"] /\ cfg'["password"] = cfg["password"]
    BY <2>3 DEF Pair
  <2> QED
    BY <1>1, <2>3, <2>4 DEF GivenTogether, Credentials
<1> QED
  BY <1>3, <1>4

LEMMA PairsStep ==
  TypeOK /\ LoginInv /\ UpdateInv /\ PairsInv /\ [Next]_vars => PairsInv'
<1> SUFFICES ASSUME TypeOK, LoginInv, UpdateInv, PairsInv, [Next]_vars, outages' = 0
             PROVE  /\ GivenTogether(Load(Stored', Default))
                    /\ pc' = "saveConfiguration" => GivenTogether(cfg')
  BY DEF PairsInv, Stored
<1>0. outages \in Nat /\ MaxOutages \in Nat
  BY Limits DEF TypeOK
<1>1. CASE SilentStep
  <2>1. outages = 0 /\ UNCHANGED << nvs, committed >>
    BY <1>1 DEF SilentStep, history
  <2>2. Stored' = Stored
    BY <1>1, <2>1 DEF SilentStep, Stored, SavePlaces
  <2>3. pc' = "saveConfiguration" => pc = "saveConfiguration" /\ cfg' = cfg
    BY <1>1 DEF SilentStep, SavePlaces
  <2> QED
    BY <2>1, <2>2, <2>3 DEF PairsInv
<1>2. CASE HttpConfig /\ ~Panics(Taken(request.doc))
  <2>1. pc = "handleClient" /\ outages = 0 /\ nvs' = nvs /\ committed' = committed
        /\ pc' = "saveConfiguration"
    BY <1>2 DEF HttpConfig, Serve, Update
  <2>2. Stored = nvs /\ Stored' = nvs
    BY <2>1 DEF Stored, UpdateInv
  <2>3. GivenTogether(Load(nvs, Default))
    BY <2>1, <2>2 DEF PairsInv
  <2> QED
    BY <1>2, <2>2, <2>3, UpdateTogether
<1>3. CASE ResetDefaults
  <2>1. pc = "resetDefaults" /\ outages = 0 /\ nvs' = nvs /\ committed' = committed
        /\ cfg' = Default
    BY <1>3 DEF ResetDefaults
  <2>2. Stored = nvs /\ Stored' = nvs
    BY <2>1 DEF Stored, UpdateInv
  <2> QED
    BY <2>1, <2>2, DefaultTogether DEF PairsInv
<1>4. CASE Panic \/ Restart
  <2>1. Stored' = Stored /\ outages = 0 /\ pc' = "setup"
    BY <1>4, RebootEffect DEF Panic, Restart, Stored
  <2> QED
    BY <2>1 DEF PairsInv
<1>5. CASE SaveKey
  <2>1. outages = 0 /\ GivenTogether(cfg) /\ cfg' = cfg
    BY <1>5, SaveKeyEffect DEF PairsInv
  <2>2. CASE open /\ saved' = 6
    <3>1. Stored' = Fitted(asked) /\ cfg = Fitted(asked)
      BY <1>5, <2>2, LastKey, SaveKeyEffect DEF Stored
    <3>2. IsConfig(asked)
      BY <1>5, SaveKeyEffect DEF TypeOK
    <3>3. Load(Stored', Default) = cfg
      BY <3>1, <3>2, LoadSaved
    <3> QED
      BY <2>1, <3>3
  <2>3. CASE ~open \/ saved' # 6
    <3>1. Stored' = Stored
      BY <1>5, <2>3, SaveKeyEffect DEF Stored
    <3> QED
      BY <2>1, <3>1 DEF PairsInv
  <2> QED
    BY <2>2, <2>3
<1>6. CASE SaveDone
  <2>1. Stored' = Stored /\ outages = 0 /\ pc' = "restart"
    BY <1>6 DEF SaveDone, config, Stored
  <2> QED
    BY <2>1 DEF PairsInv
<1>7. CASE ResetClear
  <2>1. Stored' \in {Stored, EmptyStore} /\ outages = 0 /\ pc' = "resetDefaults"
    BY <1>7 DEF ResetClear, Stored
  <2> QED
    BY <2>1, DefaultTogether DEF PairsInv
<1>8. CASE PowerLoss
  <2>1. outages' = outages + 1
    BY <1>8 DEF PowerLoss
  <2> QED
    BY <1>0, <2>1
<1>9. CASE HttpConfig /\ Panics(Taken(request.doc))
  BY <1>4, <1>9 DEF HttpConfig, Serve, Update, Panic
<1> QED
  BY <1>1, <1>2, <1>3, <1>4, <1>5, <1>6, <1>7, <1>8, <1>9, StepKinds

\* As long as power has not failed, no sequence of partial updates, lost updates and
\* resets puts a network's name and a password for it together that nobody gave
\* together.  Nothing is claimed of the login for the broker, whose user and
\* password handleConfigurationUpdate() takes one by one.
THEOREM PairsAreTogether == Spec => []PairsStayTogether
<1>1. Init => PairsInv
  <2> SUFFICES ASSUME Init PROVE PairsInv
    OBVIOUS
  <2>1. Stored = nvs /\ nvs \in InitialStores /\ pc = "setup"
    BY DEF Init, Stored
  <2> QED
    BY <2>1 DEF PairsInv, GivenTogether
<1>2. LoginInv /\ PairsInv => PairsStayTogether
  BY DEF LoginInv, PairsInv, PairsStayTogether, Stored, Loaded, LoopPlaces
<1> QED
  BY TypeInit, TypeStep, LoginInit, LoginStep, UpdateInit, UpdateStep, PairsStep,
     <1>1, <1>2, PTL DEF Spec

-----------------------------------------------------------------------------
(* Every round ends, but for the broker.                                   *)

\* The steps that are left of setup(), or of this round of loop(), at the most.
Left ==
  CASE pc = "setup"             -> TimeoutTicks + 3
    [] pc = "connectToWiFi"     -> TimeoutTicks - elapsed + 2
    [] pc = "connectDone"       -> 1
    [] pc = "loop"              -> 20
    [] pc = "reconnectMQTT"     -> 19
    [] pc = "connecting"        -> IF session THEN 17 ELSE 18
    [] pc = "mqttLoop"          -> 16
    [] pc = "handleClient"      -> 15
    [] pc = "handleReset"       -> 14
    [] pc = "resetDefaults"     -> 12
    [] pc = "saveConfiguration" -> 10 - saved
    [] pc = "saveDone"          -> 3
    [] OTHER                    -> 2

\* The round or setup() is over, the session was lost as soon as it was there, or
\* there is less left to do; nothing that happens around the thread makes it more.
Advances ==
  \/ pc' \in {"loop", "setup"}
  \/ pc' = "connecting" /\ ~session'
  \/ Left' < Left
  \/ Left' <= Left /\ (Surroundings \/ UNCHANGED vars)

LEMMA LeftStep == TypeOK /\ [Next]_vars => Advances
<1> SUFFICES ASSUME TypeOK, [Next]_vars PROVE Advances
  OBVIOUS
<1> USE DEF Advances
<1>1. /\ TimeoutTicks \in Nat /\ elapsed \in 0 .. TimeoutTicks /\ saved \in 0 .. 6
      /\ pc = "saveConfiguration" => saved < 6
  BY Limits, SaveOrderKeys DEF TypeOK
<1>2. ASSUME UNCHANGED << pc, elapsed, saved >>, Surroundings \/ UNCHANGED vars,
             UNCHANGED session \/ ~session'
      PROVE  Advances
  <2>1. CASE pc = "connecting" /\ ~session'
    BY <1>2, <2>1
  <2>2. CASE UNCHANGED session \/ pc # "connecting"
    <3>1. Left' = Left /\ Left \in Int
      BY <1>1, <1>2, <2>2 DEF Left
    <3> QED
      BY <1>2, <3>1
  <2> QED
    BY <1>2, <2>1, <2>2
<1>3. CASE Setup
  <2>1. pc = "setup" /\ pc' \in {"connectToWiFi", "loop"} /\ elapsed' = elapsed
    BY <1>3 DEF Setup
  <2> QED
    BY <1>1, <2>1 DEF Left
<1>4. CASE WifiWait
  <2>1. pc = "connectToWiFi" /\ pc' = pc /\ elapsed' = elapsed + 1
    BY <1>4 DEF WifiWait
  <2> QED
    BY <1>1, <2>1 DEF Left
<1>5. CASE WifiLeave
  <2>1. pc = "connectToWiFi" /\ pc' = "connectDone"
    BY <1>5 DEF WifiLeave
  <2> QED
    BY <1>1, <2>1 DEF Left
<1>6. CASE WifiDone \/ ResetIdle \/ Restart \/ PowerLoss
  BY <1>6 DEF WifiDone, ResetIdle, Restart, PowerLoss, Reboot, PowerOn
<1>7. CASE LoopStart \/ Retrieve \/ Reconnected \/ MqttLoop
  BY <1>7 DEF LoopStart, Retrieve, Reconnected, MqttLoop, mqtt, Left
<1>8. CASE Connect
  <2>1. pc = "connecting" /\ pc' = pc /\ ~session /\ session'
    BY <1>8 DEF Connect
  <2> QED
    BY <2>1 DEF Left
<1>9. CASE HttpIdle \/ HttpInfo \/ HttpCurrent \/ HttpRefused
  BY <1>9 DEF HttpIdle, HttpInfo, HttpCurrent, HttpRefused, Serve, HttpAnswer, Left
<1>10. CASE HttpConfig
  <2>1. /\ pc = "handleClient"
        /\ pc' = "setup" \/ (pc' = "saveConfiguration" /\ saved' = 0)
    BY <1>10 DEF HttpConfig, Serve, Update, Reboot, PowerOn
  <2> QED
    BY <2>1 DEF Left
<1>11. CASE ResetClear \/ ResetDefaults \/ SaveDone
  BY <1>11 DEF ResetClear, ResetDefaults, SaveDone, Left
<1>12. CASE SaveKey
  <2>1. /\ pc = "saveConfiguration" /\ saved' = saved + 1
        /\ pc' \in {"saveConfiguration", "saveDone"}
    BY <1>12 DEF SaveKey
  <2> QED
    BY <1>1, <2>1 DEF Left
<1>13. CASE StaUp \/ StaDown \/ SessionDrop
  <2>1. UNCHANGED << pc, elapsed, saved >> /\ (UNCHANGED session \/ ~session')
    BY <1>13 DEF StaUp, StaDown, SessionDrop, config, radio, mqtt
  <2> QED
    BY <1>2, <1>13, <2>1 DEF Surroundings
<1>14. CASE HttpRequest \/ HttpGiveUp \/ Press \/ Release
  BY <1>2, <1>14
  DEF HttpRequest, HttpGiveUp, Press, Release, config, radio, mqtt, Surroundings
<1>15. CASE UNCHANGED vars
  BY <1>2, <1>15 DEF vars, config, radio, mqtt
<1> QED
  BY <1>3, <1>4, <1>5, <1>6, <1>7, <1>8, <1>9, <1>10, <1>11, <1>12, <1>13, <1>14, <1>15
  DEF Next, Thread, Surroundings

\* Whatever the surroundings do, the thread takes at most TimeoutTicks + 20 steps to the
\* end of setup() or of the round, unless a session is lost as soon as it is there: only
\* the wait for the broker has no bound.
THEOREM RoundsAreBounded ==
  Spec => [](Left \in 1 .. TimeoutTicks + 20) /\ [][Advances]_vars
<1>1. TypeOK => Left \in 1 .. TimeoutTicks + 20
  <2> SUFFICES ASSUME TypeOK PROVE Left \in 1 .. TimeoutTicks + 20
    OBVIOUS
  <2>1. /\ TimeoutTicks \in Nat /\ elapsed \in Int /\ saved \in Int
        /\ 0 <= elapsed /\ elapsed <= TimeoutTicks /\ 0 <= saved /\ saved <= 6
    BY Limits, SaveOrderKeys DEF TypeOK
  <2>2. Left \in Int
    BY <2>1 DEF Left
  <2>3. 1 <= Left /\ Left <= TimeoutTicks + 20
    BY <2>1 DEF Left
  <2> QED
    BY <2>1, <2>2, <2>3
<1> QED
  BY TypeInit, TypeStep, LeftStep, <1>1, PTL DEF Spec

-----------------------------------------------------------------------------
(* What comes of preferences being closed                                  *)

\* reconnectMQTT() waits for a connection that was refused from the start: the login
\* it read has no server.
WaitsInVain == pc = "connecting" /\ ~session /\ login[1] = Empty

\* Whoever has a session has closed preferences to get it.
OpenInv == pc = "connecting" \/ session => ~open

\* Until the next boot it stays closed, and flash as it is.
StaysClosed == ~open /\ pc # "setup" => ~open' /\ nvs' = nvs

\* The next connection is attempted without a login, and that attempt never ends.
NoWayBack ==
  /\ Retrieve /\ ~open => WaitsInVain'
  /\ WaitsInVain => WaitsInVain' \/ PowerLoss

LEMMA ClosedStep == TypeOK /\ LoginInv /\ OpenInv /\ [Next]_vars =>
                      OpenInv' /\ StaysClosed /\ NoWayBack
<1> SUFFICES ASSUME TypeOK, LoginInv, OpenInv, [Next]_vars
             PROVE  OpenInv' /\ StaysClosed /\ NoWayBack
  OBVIOUS
<1> USE DEF OpenInv, StaysClosed, NoWayBack, WaitsInVain
<1>1. ASSUME PowerOn, nvs' = nvs, pc # "connecting" \/ PowerLoss
      PROVE  OpenInv' /\ StaysClosed /\ NoWayBack
  <2>1. ~open' /\ pc' = "setup" /\ ~session'
    BY <1>1 DEF PowerOn
  <2>2. ~Retrieve
    BY <2>1 DEF Retrieve
  <2> QED
    BY <1>1, <2>1, <2>2
<1>2. ASSUME UNCHANGED << nvs, open, login >>, session' => session, pc' = pc, ~Retrieve
      PROVE  OpenInv' /\ StaysClosed /\ NoWayBack
  BY <1>2
<1>3. ASSUME pc # "connecting", pc' # "connecting", session' => session,
             open' => open \/ (pc = "setup" /\ ~session), nvs' = nvs \/ open
      PROVE  OpenInv' /\ StaysClosed /\ NoWayBack
  <2>1. ~Retrieve
    BY <1>3 DEF Retrieve
  <2> QED
    BY <1>3, <2>1
<1>4. CASE Setup
  <2>1. ~session /\ pc = "setup" /\ pc' # "connecting" /\ UNCHANGED << nvs, session >>
    BY <1>4 DEF Setup, LoginInv, SetupPlaces, mqtt
  <2> QED
    BY <1>3, <2>1
<1>5. CASE WifiWait \/ WifiLeave \/ WifiDone \/ LoopStart \/ MqttLoop
  BY <1>3, <1>5 DEF WifiWait, WifiLeave, WifiDone, LoopStart, MqttLoop, config, mqtt
<1>6. CASE Retrieve
  <2>1. /\ pc = "reconnectMQTT" /\ pc' = "connecting" /\ login' = StoredLogin
        /\ ~open' /\ UNCHANGED << nvs, session >>
    BY <1>6 DEF Retrieve
  <2>2. ~session
    BY <2>1 DEF LoginInv
  <2>3. ~open => StoredLogin[1] = Empty
    BY DEF StoredLogin
  <2> QED
    BY <2>1, <2>2, <2>3
<1>7. CASE Connect
  <2>1. pc = "connecting" /\ pc' = pc /\ UNCHANGED << nvs, open >>
    BY <1>7 DEF Connect, config
  <2>2. login[1] # Empty
    BY <1>7, ServerAssumption DEF Connect
  <2>3. ~Retrieve
    BY <2>1 DEF Retrieve
  <2> QED
    BY <2>1, <2>2, <2>3
<1>8. CASE Reconnected
  <2>1. pc = "connecting" /\ session /\ pc' = "mqttLoop" /\ UNCHANGED << nvs, open, session >>
    BY <1>8 DEF Reconnected, config, mqtt
  <2>2. ~Retrieve
    BY <2>1 DEF Retrieve
  <2> QED
    BY <2>1, <2>2
<1>9. CASE HttpIdle \/ HttpInfo \/ HttpCurrent \/ HttpRefused
  BY <1>3, <1>9
  DEF HttpIdle, HttpInfo, HttpCurrent, HttpRefused, Serve, HttpAnswer, config, mqtt
<1>10. CASE HttpConfig
  <2>1. CASE Reboot
    BY <1>1, <1>10, <2>1 DEF HttpConfig, Serve, Reboot
  <2>2. CASE ~Reboot
    BY <1>3, <1>10, <2>2 DEF HttpConfig, Serve, Update, mqtt
  <2> QED
    BY <2>1, <2>2
<1>11. CASE ResetIdle \/ ResetClear \/ ResetDefaults \/ SaveKey \/ SaveDone
  BY <1>3, <1>11
  DEF ResetIdle, ResetClear, ResetDefaults, SaveKey, SaveDone, config, mqtt
<1>12. CASE Restart \/ PowerLoss
  BY <1>1, <1>12 DEF Restart, Reboot, PowerLoss
<1>13. CASE StaUp \/ StaDown \/ SessionDrop \/ HttpRequest \/ HttpGiveUp \/ Press \/ Release
  <2>1. UNCHANGED << nvs, open, login, pc >> /\ (session' => session)
    BY <1>13 DEF StaUp, StaDown, SessionDrop, HttpRequest, HttpGiveUp, Press, Release,
                 config, mqtt
  <2>2. ~Retrieve
    BY <2>1 DEF Retrieve
  <2> QED
    BY <1>2, <2>1, <2>2
<1>14. CASE UNCHANGED vars
  <2>1. UNCHANGED << nvs, open, login, pc, session >>
    BY <1>14 DEF vars, config, mqtt
  <2>2. ~Retrieve
    BY <2>1 DEF Retrieve
  <2> QED
    BY <1>2, <2>1, <2>2
<1> QED
  BY <1>4, <1>5, <1>6, <1>7, <1>8, <1>9, <1>10, <1>11, <1>12, <1>13, <1>14
  DEF Next, Thread, Surroundings

\* How far the two findings about preferences reach, for every configuration: after
\* the first connection, or the first GET /current_config, nothing can be written until
\* the next boot; and a session that is lost after its loop() was reached is the last
\* one until the power fails, for reconnectMQTT() does not return.
THEOREM ClosedForGood ==
  Spec => []OpenInv /\ [][StaysClosed]_vars /\ [][NoWayBack]_vars
<1>1. Init => OpenInv
  BY DEF Init, OpenInv
<1> QED
  BY TypeInit, TypeStep, LoginInit, LoginStep, ClosedStep, <1>1, PTL DEF Spec
=============================================================================
