-------------------------- MODULE ApWifiMqttProofs --------------------------
(***************************************************************************)
(* Theorems about ApWifiMqtt for every set of texts, requests, messages,   *)
(* networks and brokers, and every number of attempts and power failures.  *)
(***************************************************************************)
EXTENDS ApWifiMqtt, DeviceConfigTheorems

\* The limits are numbers.
LEMMA Limits == /\ MaxAttempts \in Nat \ {0} /\ DelayTicks \subseteq Nat \ {0}
                /\ MaxInbox \in Nat /\ MaxOutages \in Nat
BY SketchAssumption

LEMMA AttemptLimit == MaxAttempts \in Nat /\ 0 < MaxAttempts /\ 0 \in 0 .. MaxAttempts
<1>1. MaxAttempts \in Nat \ {0}
  BY SketchAssumption
<1> QED
  BY <1>1

LEMMA DefaultType == IsConfig(Default)
BY SketchAssumption DEF Fits

\* RAM before setup() has loaded anything.
LEMMA BlankType == IsConfig([k \in Keys |-> IF k = "mqtt_port" THEN Default[k] ELSE Empty])
BY DefaultType, ConfigAssumption DEF IsConfig, ValuesOf, Keys

LEMMA PowerOnType == PowerOn => RadioType' /\ BrokerType' /\ pin' \in BOOLEAN
                                /\ answer' \in Answers /\ IsConfig(cfg')
                                /\ brokerPort' = 0 /\ saved' = 0
                                /\ caller' = "none" /\ pc' = "setup" /\ attempts' = 0
                                /\ attempts' = 0
<1> SUFFICES ASSUME PowerOn
             PROVE  RadioType' /\ BrokerType' /\ pin' \in BOOLEAN
                    /\ answer' \in Answers /\ IsConfig(cfg')
                    /\ brokerPort' = 0 /\ saved' = 0
                    /\ caller' = "none" /\ pc' = "setup" /\ attempts' = 0
  OBVIOUS
<1>1. RadioType'
  <2>1. begun' = None /\ sta' = "off" /\ ap' = FALSE /\ attempts' = 0 /\ elapsed' = 0
    BY DEF PowerOn
  <2> QED
    BY <2>1, AttemptLimit DEF RadioType
<1>2. BrokerType'
  <2>1. inbox' = << >> /\ subs' = {} /\ session' = FALSE /\ report' = "none"
    BY DEF PowerOn
  <2>2. inbox' \in Seq(Messages) /\ Len(inbox') <= MaxInbox
    BY <2>1, Limits
  <2> QED
    BY <2>1, <2>2 DEF BrokerType, Answers
<1>3. IsConfig(cfg')
  BY BlankType DEF PowerOn
<1>4. pin' = FALSE /\ answer' = "none" /\ brokerPort' = 0 /\ saved' = 0
      /\ caller' = "none" /\ pc' = "setup" /\ attempts' = 0
  BY DEF PowerOn
<1> QED
  BY <1>1, <1>2, <1>3, <1>4 DEF Answers

LEMMA PortLimitType == PortLimit \in Nat \ {0}
BY SMT DEF PortLimit

LEMMA PortType == ASSUME NEW c, IsConfig(c)
                  PROVE  c["mqtt_port"] % PortLimit \in 0 .. PortLimit - 1
BY ConfigAssumption, PortLimitType DEF IsConfig, ValuesOf, Keys

LEMMA ZeroIsPort == 0 \in 0 .. PortLimit - 1
BY PortLimitType


\* What a step leaves alone keeps its type.
LEMMA Frames ==
  /\ ConfigType /\ UNCHANGED config => ConfigType'
  /\ RadioType /\ UNCHANGED radio => RadioType'
  /\ BrokerType /\ UNCHANGED broker => BrokerType'
  /\ PinType /\ UNCHANGED << pin, answer, button >> => PinType'
  /\ ClientType /\ UNCHANGED client => ClientType'
  /\ HistoryType /\ UNCHANGED history => HistoryType'
<1>1. ConfigType /\ UNCHANGED config => ConfigType'
  BY DEF ConfigType, config
<1>2. RadioType /\ UNCHANGED radio => RadioType'
  BY DEF RadioType, radio
<1>3. BrokerType /\ UNCHANGED broker => BrokerType'
  BY DEF BrokerType, broker
<1>4. PinType /\ UNCHANGED << pin, answer, button >> => PinType'
  BY DEF PinType
<1>5. ClientType /\ UNCHANGED client => ClientType'
  BY DEF ClientType, client
<1>6. HistoryType /\ UNCHANGED history => HistoryType'
  BY DEF HistoryType, history
<1> QED
  BY <1>1, <1>2, <1>3, <1>4, <1>5, <1>6

LEMMA TypeInit == Init => TypeOK
<1> SUFFICES ASSUME Init PROVE TypeOK
  OBVIOUS
<1>1. PlaceType
  BY AttemptLimit DEF Init, PlaceType, SetupPlaces, LoopPlaces, UpdatePlaces
<1>2. ConfigType
  <2>1. IsStore(nvs) /\ IsConfig(cfg)
    BY SketchAssumption, BlankType DEF Init
  <2>2. brokerPort = 0 /\ saved = 0 /\ caller = "none"
    BY DEF Init
  <2> QED
    BY <2>1, <2>2, SaveOrderKeys, ZeroIsPort DEF ConfigType
<1>3. RadioType
  <2>1. begun = None /\ sta = "off" /\ ap = FALSE /\ attempts = 0 /\ elapsed = 0
    BY DEF Init
  <2> QED
    BY <2>1, AttemptLimit DEF RadioType
<1>4. BrokerType
  <2>1. inbox = << >> /\ subs = {} /\ session = FALSE /\ report = "none"
    BY DEF Init
  <2>2. inbox \in Seq(Messages) /\ Len(inbox) <= MaxInbox
    BY <2>1, Limits
  <2> QED
    BY <2>1, <2>2 DEF BrokerType, Answers
<1>5. PinType /\ ClientType
  BY DEF Init, PinType, ClientType, Answers
<1>6. HistoryType
  <2>1. IsStore(committed)
    BY SketchAssumption DEF Init
  <2> QED
    BY <2>1, Limits DEF Init, HistoryType
<1> QED
  BY <1>1, <1>2, <1>3, <1>4, <1>5, <1>6 DEF TypeOK

LEMMA RebootType == TypeOK /\ Reboot => TypeOK'
<1> SUFFICES ASSUME TypeOK, Reboot PROVE TypeOK'
  OBVIOUS
<1>1. PowerOn /\ request' = NoRequest /\ asked' = None
      /\ UNCHANGED << nvs, button, reply, committed, promised, outages >>
  BY DEF Reboot
<1>2. PlaceType' /\ ConfigType' /\ PinType'
  BY <1>1, PowerOnType, SaveOrderKeys, ZeroIsPort, AttemptLimit
  DEF TypeOK, PlaceType, SetupPlaces, LoopPlaces, UpdatePlaces, ConfigType, PinType
<1>3. ClientType' /\ HistoryType'
  BY <1>1 DEF TypeOK, ClientType, HistoryType
<1> QED
  BY <1>1, <1>2, <1>3, PowerOnType DEF TypeOK

LEMMA UpdateType ==
  ASSUME TypeOK, NEW doc, IsDoc(doc), NEW who \in {"http", "mqtt"},
         NEW rest \in Seq(Messages), Len(rest) <= MaxInbox, Update(doc, who, rest)
  PROVE  TypeOK'
<1>1. CASE Panics(doc)
  BY <1>1, RebootType DEF Update
<1>2. CASE ~Panics(doc)
  <2>1. IsConfig(asked') /\ IsConfig(cfg')
    BY <1>2, RequestedType, FittedType DEF Update, TypeOK, ConfigType
  <2>2. PlaceType'
    BY <1>2, SaveOrderKeys
    DEF Update, TypeOK, PlaceType, SetupPlaces, LoopPlaces, UpdatePlaces
  <2>3. ConfigType'
    BY <1>2, <2>1, SaveOrderKeys DEF Update, TypeOK, ConfigType
  <2>4. BrokerType' /\ PinType'
    BY <1>2 DEF Update, TypeOK, BrokerType, PinType
  <2>5. ClientType' /\ HistoryType'
    BY <1>2, <2>1 DEF Update, TypeOK, ClientType, HistoryType, client
  <2> QED
    BY <1>2, <2>2, <2>3, <2>4, <2>5, Frames DEF Update, TypeOK
<1> QED
  BY <1>1, <1>2

LEMMA InboxHead == ASSUME BrokerType, inbox # << >>
                   PROVE  /\ Head(inbox) \in Messages
                          /\ Tail(inbox) \in Seq(Messages)
                          /\ Len(Tail(inbox)) <= MaxInbox
BY Limits DEF BrokerType

LEMMA TypeStep == TypeOK /\ [Next]_vars => TypeOK'
<1> SUFFICES ASSUME TypeOK, [Next]_vars PROVE TypeOK'
  OBVIOUS
<1>1. CASE Setup
  <2>1. IsConfig(cfg')
    BY <1>1, LoadType, DefaultType DEF Setup, TypeOK, ConfigType
  <2>2. << cfg'["ssid"], cfg'["password"] >> \in Strings \X Strings
    BY <2>1 DEF IsConfig, ValuesOf, Keys
  <2>3. PlaceType'
    BY <1>1, Limits DEF Setup, TypeOK, RadioType, PlaceType, SetupPlaces, LoopPlaces, UpdatePlaces
  <2>4. ConfigType'
    BY <1>1, <2>1 DEF Setup, TypeOK, ConfigType
  <2>5. RadioType'
    BY <1>1, <2>2 DEF Setup, TypeOK, RadioType
  <2> QED
    BY <1>1, <2>3, <2>4, <2>5, Frames DEF Setup, TypeOK
<1>2. CASE WifiGuard
  BY <1>2, Frames, Limits DEF WifiGuard, TypeOK, PlaceType, SetupPlaces, LoopPlaces, UpdatePlaces, radio, config
<1>3. CASE WifiAttempt
  <2>1. PlaceType'
    BY <1>3, Limits DEF WifiAttempt, TypeOK, RadioType, PlaceType, SetupPlaces, LoopPlaces, UpdatePlaces, radio, config
  <2>2. RadioType'
    <3>1. PICK d \in DelayTicks : elapsed' = elapsed + d
      BY <1>3 DEF WifiAttempt
    <3>2. d \in Nat /\ elapsed \in Nat
      BY <3>1, Limits DEF TypeOK, RadioType
    <3>3. attempts' \in 0 .. MaxAttempts
      BY <1>3, AttemptLimit DEF WifiAttempt, TypeOK, PlaceType, RadioType
    <3>4. ap' \in BOOLEAN /\ UNCHANGED << begun, sta >>
      BY <1>3 DEF WifiAttempt, TypeOK, RadioType
    <3> QED
      BY <3>1, <3>2, <3>3, <3>4 DEF TypeOK, RadioType
  <2> QED
    BY <1>3, <2>1, <2>2, Frames DEF WifiAttempt, TypeOK
<1>4. CASE WifiDone
  <2>1. PlaceType' /\ RadioType'
    BY <1>4 DEF WifiDone, TypeOK, RadioType, PlaceType, SetupPlaces, LoopPlaces, UpdatePlaces, radio, config
  <2> QED
    BY <1>4, <2>1, Frames DEF WifiDone, TypeOK
<1>5. CASE SetupMQTT
  <2>1. PlaceType'
    BY <1>5 DEF SetupMQTT, TypeOK, PlaceType, SetupPlaces, LoopPlaces, UpdatePlaces
  <2>2. ConfigType'
    BY <1>5, PortType DEF SetupMQTT, TypeOK, ConfigType
  <2>3. RadioType'
    BY <1>5, Limits DEF SetupMQTT, TypeOK, RadioType
  <2> QED
    BY <1>5, <2>1, <2>2, <2>3, Frames DEF SetupMQTT, TypeOK
<1>6. CASE LoopStart
  BY <1>6, Frames, Limits DEF LoopStart, TypeOK, PlaceType, SetupPlaces, LoopPlaces, UpdatePlaces, radio, config
<1>7. CASE Connect
  <2>1. PlaceType'
    BY <1>7 DEF Connect, TypeOK, PlaceType, SetupPlaces, LoopPlaces, UpdatePlaces, radio, config
  <2>2. BrokerType'
    <3>1. inbox' = << >> /\ subs' = {} /\ session' = TRUE /\ report' = "none"
      BY <1>7 DEF Connect
    <3>2. inbox' \in Seq(Messages) /\ Len(inbox') <= MaxInbox
      BY <3>1, Limits
    <3> QED
      BY <3>1, <3>2 DEF BrokerType, Answers
  <2> QED
    BY <1>7, <2>1, <2>2, Frames DEF Connect, TypeOK
<1>8. CASE SubscribeCommand
  <2>1. PlaceType'
    BY <1>8 DEF SubscribeCommand, Subscribe, TypeOK, PlaceType, SetupPlaces, LoopPlaces, UpdatePlaces, radio, config
  <2>2. BrokerType'
    BY <1>8 DEF SubscribeCommand, Subscribe, TypeOK, BrokerType, Topics
  <2> QED
    BY <1>8, <2>1, <2>2, Frames DEF SubscribeCommand, Subscribe, TypeOK
<1>9. CASE SubscribeConfig
  <2>1. PlaceType'
    BY <1>9 DEF SubscribeConfig, Subscribe, TypeOK, PlaceType, SetupPlaces, LoopPlaces, UpdatePlaces, radio, config
  <2>2. BrokerType'
    BY <1>9 DEF SubscribeConfig, Subscribe, TypeOK, BrokerType, Topics
  <2> QED
    BY <1>9, <2>1, <2>2, Frames DEF SubscribeConfig, Subscribe, TypeOK
<1>10. CASE Reconnected
  BY <1>10, Frames, Limits DEF Reconnected, TypeOK, PlaceType, SetupPlaces, LoopPlaces, UpdatePlaces, radio, config
<1>11. CASE SaveKey
  <2>1. saved' \in 1 .. 6
    BY <1>11, SaveOrderKeys DEF SaveKey, TypeOK, PlaceType, ConfigType
  <2>2. IsStore(nvs')
    <3>1. SaveOrder[saved'] \in Keys
      BY <2>1, SaveOrderKeys
    <3>2. cfg[SaveOrder[saved']] \in ValuesOf(SaveOrder[saved'])
      BY <3>1 DEF TypeOK, ConfigType, IsConfig
    <3> QED
      BY <1>11, <3>1, <3>2 DEF SaveKey, TypeOK, ConfigType, IsStore
  <2>3. PlaceType'
    BY <1>11, <2>1, SaveOrderKeys DEF SaveKey, TypeOK, PlaceType, SetupPlaces, LoopPlaces, UpdatePlaces
  <2>4. ConfigType'
    BY <1>11, <2>1, <2>2, SaveOrderKeys DEF SaveKey, TypeOK, ConfigType
  <2>5. HistoryType'
    BY <1>11, <2>2 DEF SaveKey, TypeOK, HistoryType
  <2> QED
    BY <1>11, <2>3, <2>4, <2>5, Frames DEF SaveKey, TypeOK
<1>12. CASE Updated
  <2>1. PlaceType'
    BY <1>12 DEF Updated, TypeOK, PlaceType, SetupPlaces, LoopPlaces, UpdatePlaces
  <2>2. ConfigType'
    BY <1>12, PortType DEF Updated, TypeOK, ConfigType
  <2>3. ClientType'
    BY <1>12 DEF Updated, TypeOK, ClientType
  <2>4. HistoryType'
    BY <1>12 DEF Updated, TypeOK, HistoryType
  <2> QED
    BY <1>12, <2>1, <2>2, <2>3, <2>4, Frames DEF Updated, TypeOK
<1>13. CASE Restart
  BY <1>13, RebootType DEF Restart
<1>14. CASE MqttIdle
  BY <1>14, Frames, Limits DEF MqttIdle, TypeOK, PlaceType, SetupPlaces, LoopPlaces, UpdatePlaces, radio, config
<1>15. CASE MqttNotJson
  <2>1. PlaceType'
    BY <1>15 DEF MqttNotJson, TypeOK, PlaceType, SetupPlaces, LoopPlaces, UpdatePlaces, radio, config
  <2>2. BrokerType'
    BY <1>15, InboxHead DEF MqttNotJson, TypeOK, BrokerType, Receive
  <2> QED
    BY <1>15, <2>1, <2>2, Frames DEF MqttNotJson, TypeOK
<1>16. CASE MqttConfig
  <2>1. IsDoc(Head(inbox).doc)
    BY <1>16, InboxHead, SketchAssumption DEF MqttConfig, Receive, TypeOK
  <2> QED
    BY <1>16, <2>1, InboxHead, UpdateType DEF MqttConfig, Receive, TypeOK
<1>17. CASE MqttCommand
  <2>1. PlaceType'
    BY <1>17 DEF MqttCommand, TypeOK, PlaceType, SetupPlaces, LoopPlaces, UpdatePlaces, radio, config
  <2>2. BrokerType'
    BY <1>17, InboxHead DEF MqttCommand, TypeOK, BrokerType, Receive
  <2>3. PinType'
    BY <1>17 DEF MqttCommand, TypeOK, PinType, Answers
  <2> QED
    BY <1>17, <2>1, <2>2, <2>3, Frames DEF MqttCommand, TypeOK
<1>18. CASE Publish
  <2>1. PlaceType'
    BY <1>18 DEF Publish, TypeOK, PlaceType, SetupPlaces, LoopPlaces, UpdatePlaces, radio, config
  <2>2. BrokerType'
    BY <1>18 DEF Publish, TypeOK, BrokerType, PinType, Answers
  <2>3. PinType'
    BY <1>18 DEF Publish, TypeOK, PinType, Answers
  <2> QED
    BY <1>18, <2>1, <2>2, <2>3, Frames DEF Publish, TypeOK
<1>19. CASE HttpIdle
  BY <1>19, Frames, Limits DEF HttpIdle, TypeOK, PlaceType, SetupPlaces, LoopPlaces, UpdatePlaces, radio, config
<1>20. CASE HttpRoot
  <2>1. PlaceType'
    BY <1>20 DEF HttpRoot, HttpAnswer, TypeOK, PlaceType, SetupPlaces, LoopPlaces, UpdatePlaces, radio, config
  <2>2. ClientType'
    BY <1>20 DEF HttpRoot, HttpAnswer, TypeOK, ClientType
  <2> QED
    BY <1>20, <2>1, <2>2, Frames DEF HttpRoot, HttpAnswer, TypeOK
<1>21. CASE HttpRefused
  <2>1. PlaceType'
    BY <1>21 DEF HttpRefused, HttpAnswer, TypeOK, PlaceType, SetupPlaces, LoopPlaces, UpdatePlaces, radio, config
  <2>2. ClientType'
    BY <1>21 DEF HttpRefused, HttpAnswer, TypeOK, ClientType
  <2> QED
    BY <1>21, <2>1, <2>2, Frames DEF HttpRefused, HttpAnswer, TypeOK
<1>22. CASE HttpConfig
  <2>1. IsDoc(request.doc)
    BY <1>22, SketchAssumption DEF HttpConfig, Acceptable, TypeOK, ClientType
  <2> QED
    BY <1>22, <2>1, UpdateType DEF HttpConfig, TypeOK, BrokerType
<1>23. CASE ResetIdle
  BY <1>23, Frames, Limits DEF ResetIdle, TypeOK, PlaceType, SetupPlaces, LoopPlaces, UpdatePlaces, radio, config
<1>24. CASE ResetConfig
  <2>1. IsStore(nvs')
    BY <1>24 DEF ResetConfig, EmptyStore, IsStore
  <2>2. PlaceType'
    BY <1>24 DEF ResetConfig, TypeOK, PlaceType, SetupPlaces, LoopPlaces, UpdatePlaces, radio
  <2>3. ConfigType' /\ HistoryType'
    BY <1>24, <2>1 DEF ResetConfig, TypeOK, ConfigType, HistoryType
  <2> QED
    BY <1>24, <2>2, <2>3, Frames DEF ResetConfig, TypeOK
<1>25. CASE StaUp
  <2>1. PlaceType'
    BY <1>25 DEF StaUp, TypeOK, PlaceType, config
  <2>2. RadioType'
    BY <1>25 DEF StaUp, TypeOK, RadioType
  <2> QED
    BY <1>25, <2>1, <2>2, Frames DEF StaUp, TypeOK
<1>26. CASE StaDown
  <2>1. PlaceType'
    BY <1>26 DEF StaDown, TypeOK, PlaceType, config
  <2>2. RadioType'
    BY <1>26 DEF StaDown, TypeOK, RadioType
  <2> QED
    BY <1>26, <2>1, <2>2, Frames DEF StaDown, TypeOK
<1>27. CASE SessionDrop
  <2>1. PlaceType'
    BY <1>27 DEF SessionDrop, TypeOK, PlaceType, radio, config
  <2>2. BrokerType'
    <3>1. inbox' = << >> /\ subs' = {} /\ session' = FALSE /\ report' = "none"
      BY <1>27 DEF SessionDrop
    <3>2. inbox' \in Seq(Messages) /\ Len(inbox') <= MaxInbox
      BY <3>1, Limits
    <3> QED
      BY <3>1, <3>2 DEF BrokerType, Answers
  <2> QED
    BY <1>27, <2>1, <2>2, Frames DEF SessionDrop, TypeOK
<1>28. CASE Deliver
  <2>1. PlaceType'
    BY <1>28 DEF Deliver, TypeOK, PlaceType, radio, config
  <2>2. BrokerType'
    BY <1>28, Limits DEF Deliver, TypeOK, BrokerType
  <2> QED
    BY <1>28, <2>1, <2>2, Frames DEF Deliver, TypeOK
<1>29. CASE HttpRequest
  <2>1. PlaceType'
    BY <1>29 DEF HttpRequest, TypeOK, PlaceType, radio, config
  <2>2. ClientType'
    BY <1>29 DEF HttpRequest, TypeOK, ClientType
  <2> QED
    BY <1>29, <2>1, <2>2, Frames DEF HttpRequest, TypeOK
<1>30. CASE HttpGiveUp
  <2>1. PlaceType'
    BY <1>30 DEF HttpGiveUp, TypeOK, PlaceType, radio
  <2>2. ConfigType'
    BY <1>30 DEF HttpGiveUp, TypeOK, ConfigType
  <2>3. ClientType'
    BY <1>30 DEF HttpGiveUp, TypeOK, ClientType
  <2> QED
    BY <1>30, <2>1, <2>2, <2>3, Frames DEF HttpGiveUp, TypeOK
<1>31. CASE Press
  <2>1. PlaceType'
    BY <1>31 DEF Press, TypeOK, PlaceType, radio, config
  <2>2. PinType'
    BY <1>31 DEF Press, TypeOK, PinType
  <2> QED
    BY <1>31, <2>1, <2>2, Frames DEF Press, TypeOK
<1>32. CASE Release
  <2>1. PlaceType'
    BY <1>32 DEF Release, TypeOK, PlaceType, radio, config
  <2>2. PinType'
    BY <1>32 DEF Release, TypeOK, PinType
  <2> QED
    BY <1>32, <2>1, <2>2, Frames DEF Release, TypeOK
<1>33. CASE PowerLoss
  <2>1. PlaceType' /\ ConfigType' /\ PinType'
    BY <1>33, PowerOnType, SaveOrderKeys, ZeroIsPort, AttemptLimit
    DEF PowerLoss, TypeOK, PlaceType, SetupPlaces, LoopPlaces, UpdatePlaces, ConfigType, PinType
  <2>2. ClientType' /\ HistoryType'
    BY <1>33, Limits DEF PowerLoss, TypeOK, ClientType, HistoryType, ConfigType
  <2> QED
    BY <1>33, <2>1, <2>2, PowerOnType DEF PowerLoss, TypeOK
<1>34. CASE UNCHANGED vars
  BY <1>34, Frames DEF vars, TypeOK, PlaceType, radio, config
<1> QED
  BY <1>1, <1>2, <1>3, <1>4, <1>5, <1>6, <1>7, <1>8, <1>9, <1>10, <1>11,
     <1>12, <1>13, <1>14, <1>15, <1>16, <1>17, <1>18, <1>19, <1>20, <1>21,
     <1>22, <1>23, <1>24, <1>25, <1>26, <1>27, <1>28, <1>29, <1>30, <1>31,
     <1>32, <1>33, <1>34
  DEF Next, Thread, Surroundings

\* Every variable keeps its type: the port given to the MQTT client fits 16
\* bits, the attempts and the save stay within their bounds.
THEOREM TypeCorrect == Spec => []TypeOK
BY TypeInit, TypeStep, PTL DEF Spec

-----------------------------------------------------------------------------
(* The store: ApWifiMqtt implements ConfigStore, and so keeps its promises. *)
(*                                                                         *)
(* Most steps are silent: they touch neither the store nor the update in   *)
(* progress.  Seven are not, and each is a step of ConfigStore or a        *)
(* stuttering step of it.                                                  *)

SilentStep ==
  /\ UNCHANGED << nvs, history >>
  /\ \/ pc' = pc /\ UNCHANGED << cfg, saved >>
     \/ pc \notin UpdatePlaces /\ pc' \notin UpdatePlaces

\* An update from either source is accepted: it was complete enough to start.
Accept ==
  /\ pc \in {"mqttLoop", "handleClient"}
  /\ pc' = "saveConfiguration"
  /\ asked' # None /\ IsConfig(asked')
  /\ cfg' = Fitted(asked')
  /\ saved' = 0
  /\ promised' = None
  /\ UNCHANGED << nvs, committed, outages >>

\* A document of the wrong types restarts the board.
Panic == pc \in {"mqttLoop", "handleClient"} /\ Reboot

LEMMA UpdateKinds ==
  ASSUME TypeOK, pc \in {"mqttLoop", "handleClient"}, NEW doc, IsDoc(doc),
         NEW who, NEW rest, Update(doc, who, rest)
  PROVE  Panic \/ Accept
<1>1. CASE Panics(doc)
  BY <1>1 DEF Update, Panic
<1>2. CASE ~Panics(doc)
  <2>1. IsConfig(asked')
    BY <1>2, RequestedType DEF Update, TypeOK, ConfigType
  <2> QED
    BY <1>2, <2>1, NoneIsNoConfig DEF Update, Accept
<1> QED
  BY <1>1, <1>2

LEMMA StepKinds ==
  TypeOK /\ [Next]_vars =>
    SilentStep \/ Accept \/ Panic \/ SaveKey \/ Updated \/ Restart \/ ResetConfig \/ PowerLoss
<1> SUFFICES ASSUME TypeOK, [Next]_vars
             PROVE  SilentStep \/ Accept \/ Panic \/ SaveKey \/ Updated \/ Restart
                    \/ ResetConfig \/ PowerLoss
  OBVIOUS
<1>1. ASSUME Setup \/ WifiGuard \/ WifiAttempt \/ WifiDone \/ SetupMQTT PROVE SilentStep
  BY <1>1 DEF Setup, WifiGuard, WifiAttempt, WifiDone, SetupMQTT, SilentStep,
              UpdatePlaces, config
<1>2. ASSUME LoopStart \/ Connect \/ SubscribeCommand \/ SubscribeConfig \/ Reconnected
      PROVE  SilentStep
  BY <1>2 DEF LoopStart, Connect, SubscribeCommand, SubscribeConfig, Subscribe,
              Reconnected, SilentStep, UpdatePlaces, config
<1>3. ASSUME MqttIdle \/ MqttNotJson \/ MqttCommand \/ Publish PROVE SilentStep
  BY <1>3 DEF MqttIdle, MqttNotJson, MqttCommand, Publish, Receive, SilentStep,
              UpdatePlaces, config
<1>4. ASSUME HttpIdle \/ HttpRoot \/ HttpRefused \/ ResetIdle PROVE SilentStep
  BY <1>4 DEF HttpIdle, HttpRoot, HttpRefused, HttpAnswer, ResetIdle, SilentStep,
              UpdatePlaces, config
<1>5. ASSUME StaUp \/ StaDown \/ SessionDrop \/ Deliver PROVE SilentStep
  BY <1>5 DEF StaUp, StaDown, SessionDrop, Deliver, SilentStep, config
<1>6. ASSUME HttpRequest \/ HttpGiveUp \/ Press \/ Release PROVE SilentStep
  BY <1>6 DEF HttpRequest, HttpGiveUp, Press, Release, SilentStep, config
<1>7. ASSUME UNCHANGED vars PROVE SilentStep
  BY <1>7 DEF vars, SilentStep, config
<1>8. ASSUME MqttConfig PROVE Panic \/ Accept
  <2>1. IsDoc(Head(inbox).doc) /\ pc = "mqttLoop"
    BY <1>8, InboxHead, SketchAssumption DEF MqttConfig, Receive, TypeOK
  <2> QED
    BY <1>8, <2>1, UpdateKinds DEF MqttConfig
<1>9. ASSUME HttpConfig PROVE Panic \/ Accept
  <2>1. IsDoc(request.doc) /\ pc = "handleClient"
    BY <1>9, SketchAssumption DEF HttpConfig, Acceptable, TypeOK, ClientType
  <2> QED
    BY <1>9, <2>1, UpdateKinds DEF HttpConfig
<1> QED
  BY <1>1, <1>2, <1>3, <1>4, <1>5, <1>6, <1>7, <1>8, <1>9 DEF Next, Thread, Surroundings

-----------------------------------------------------------------------------
LEMMA RebootEffect == Reboot => /\ pc' = "setup" /\ asked' = None
                                /\ UNCHANGED << nvs, promised, committed, outages >>
BY DEF Reboot, PowerOn

LEMMA PowerLossEffect == PowerLoss => /\ pc' = "setup" /\ asked' = None
                                      /\ UNCHANGED << nvs, promised >>
                                      /\ committed' = nvs /\ outages' = outages + 1
BY DEF PowerLoss, PowerOn

LEMMA UpdateInit == Init => UpdateInv
BY DEF Init, UpdateInv, UpdatePlaces

\* One more key: it is new, the keys before it stay new, the others stay old.
LEMMA SaveKeyKeepsPrefix ==
  ASSUME TypeOK, UpdateInv, SaveKey
  PROVE  /\ saved' \in 1 .. 6 /\ UNCHANGED << cfg, asked, promised >>
         /\ asked # None /\ cfg = Fitted(asked) /\ promised = None
         /\ nvs' = [k \in Keys |-> nvs'[k]]
         /\ \A i \in 1 .. 6 :
              nvs'[SaveOrder[i]] = IF i <= saved' THEN cfg[SaveOrder[i]]
                                                  ELSE committed[SaveOrder[i]]
<1>1. /\ saved \in 0 .. 5 /\ saved' = saved + 1
      /\ nvs' = [nvs EXCEPT ![SaveOrder[saved']] = cfg[SaveOrder[saved']]]
      /\ pc = "saveConfiguration" /\ UNCHANGED << cfg, asked, promised >>
  BY SaveOrderKeys DEF SaveKey, TypeOK, PlaceType, ConfigType
<1>2. nvs = [k \in Keys |-> nvs[k]]
  BY DEF TypeOK, ConfigType, IsStore
<1>3. \A i \in 1 .. 6 :
        nvs[SaveOrder[i]] = IF i <= saved THEN cfg[SaveOrder[i]]
                                          ELSE committed[SaveOrder[i]]
  BY <1>1, SaveOrderKeys DEF UpdateInv
<1>4. saved' \in 1 .. 6
  BY <1>1
<1>5. nvs' = [k \in Keys |-> nvs'[k]]
  BY <1>1, <1>2
<1>6. ASSUME NEW i \in 1 .. 6
      PROVE  nvs'[SaveOrder[i]] = IF i <= saved' THEN cfg[SaveOrder[i]]
                                                 ELSE committed[SaveOrder[i]]
  <2>1. SaveOrder[i] \in Keys /\ SaveOrder[saved'] \in Keys
    BY <1>4, SaveOrderKeys
  <2>2. CASE i = saved'
    BY <1>1, <1>2, <2>1, <2>2
  <2>3. CASE i # saved'
    <3>1. SaveOrder[i] # SaveOrder[saved']
      BY <1>4, <2>3, SaveOrderKeys
    <3>2. nvs'[SaveOrder[i]] = nvs[SaveOrder[i]]
      BY <1>1, <1>2, <2>1, <3>1
    <3>3. i <= saved' <=> i <= saved
      BY <1>1, <2>3
    <3> QED
      BY <1>3, <3>2, <3>3
  <2> QED
    BY <2>2, <2>3
<1>7. asked # None /\ cfg = Fitted(asked) /\ promised = None
  BY <1>1 DEF UpdateInv
<1> QED
  BY <1>1, <1>4, <1>5, <1>6, <1>7

\* The sixth key completes the configuration.
LEMMA LastKey == ASSUME TypeOK, UpdateInv, SaveKey, saved' = 6
                 PROVE  nvs' = Fitted(asked)
<1>1. ASSUME NEW k \in Keys PROVE nvs'[k] = Fitted(asked)[k]
  <2>1. PICK i \in 1 .. 6 : k = SaveOrder[i]
    BY SaveOrderKeys
  <2>2. i <= saved'
    BY <2>1
  <2> QED
    BY <2>1, <2>2, SaveKeyKeepsPrefix
<1>2. Fitted(asked) = [k \in Keys |-> Fitted(asked)[k]]
  BY DEF Fitted
<1>3. nvs' = [k \in Keys |-> nvs'[k]]
  BY SaveKeyKeepsPrefix
<1> QED
  BY <1>1, <1>2, <1>3

LEMMA UpdateStep == TypeOK /\ UpdateInv /\ [Next]_vars => UpdateInv'
<1> SUFFICES ASSUME TypeOK, UpdateInv, [Next]_vars PROVE UpdateInv'
  OBVIOUS
<1>1. CASE SilentStep
  <2>1. UNCHANGED << nvs, committed, asked, promised >>
    BY <1>1 DEF SilentStep, history
  <2>2. CASE pc' = pc /\ UNCHANGED << cfg, saved >>
    BY <2>1, <2>2 DEF UpdateInv
  <2>3. CASE pc \notin UpdatePlaces /\ pc' \notin UpdatePlaces
    BY <2>1, <2>3 DEF UpdateInv, UpdatePlaces
  <2> QED
    BY <1>1, <2>2, <2>3 DEF SilentStep
<1>2. CASE Accept
  <2>1. nvs' = committed' /\ saved' = 0
    BY <1>2 DEF Accept, UpdateInv
  <2>2. ASSUME NEW i \in 1 .. Len(SaveOrder)
        PROVE  nvs'[SaveOrder[i]] = IF i <= saved' THEN cfg'[SaveOrder[i]]
                                                   ELSE committed'[SaveOrder[i]]
    BY <2>1, <2>2
  <2> QED
    BY <1>2, <2>1, <2>2 DEF Accept, UpdateInv, UpdatePlaces
<1>3. CASE Panic \/ Restart
  BY <1>3, RebootEffect DEF Panic, Restart, UpdateInv, UpdatePlaces
<1>4. CASE SaveKey
  <2>1. CASE saved' = 6
    <3>1. nvs' = Fitted(asked)
      BY <1>4, <2>1, LastKey
    <3>2. pc' = "updated" /\ committed' = nvs'
      BY <1>4, <2>1, SaveOrderKeys DEF SaveKey
    <3> QED
      BY <1>4, <3>1, <3>2, SaveKeyKeepsPrefix DEF UpdateInv, UpdatePlaces
  <2>2. CASE saved' # 6
    <3>1. pc' = "saveConfiguration" /\ committed' = committed
      BY <1>4, <2>2, SaveOrderKeys DEF SaveKey
    <3> QED
      BY <1>4, <3>1, SaveKeyKeepsPrefix, SaveOrderKeys DEF UpdateInv, UpdatePlaces
  <2> QED
    BY <2>1, <2>2
<1>5. CASE Updated
  BY <1>5 DEF Updated, UpdateInv, UpdatePlaces
<1>6. CASE ResetConfig
  BY <1>6 DEF ResetConfig, UpdateInv, UpdatePlaces
<1>7. CASE PowerLoss
  BY <1>7, PowerLossEffect DEF UpdateInv, UpdatePlaces
<1> QED
  BY <1>1, <1>2, <1>3, <1>4, <1>5, <1>6, <1>7, StepKinds

-----------------------------------------------------------------------------
\* The instance's operators are this module's.
LEMMA StoreOperators ==
  /\ Store!Keys = Keys
  /\ Store!EmptyStore = EmptyStore
  /\ \A c : Store!IsConfig(c) <=> IsConfig(c)
  /\ \A c : Store!IsStore(c) <=> IsStore(c)
  /\ \A c : Store!Fitted(c) = Fitted(c)
<1>1. Store!Keys = Keys
  BY DEF Store!Keys, Keys
<1>2. \A k : Store!ValuesOf(k) = ValuesOf(k)
  BY DEF Store!ValuesOf, ValuesOf
<1>3. \A c : Store!IsConfig(c) <=> IsConfig(c)
  BY <1>1, <1>2 DEF Store!IsConfig, IsConfig
<1>4. \A c : Store!IsStore(c) <=> IsStore(c)
  BY <1>1, <1>2 DEF Store!IsStore, IsStore
<1>5. \A c : Store!Fitted(c) = Fitted(c)
  BY <1>1 DEF Store!Fitted, Fitted, Store!Fit, Fit
<1> QED
  BY <1>1, <1>3, <1>4, <1>5 DEF Store!EmptyStore, EmptyStore

LEMMA StoreInitMaps == TypeOK /\ Init => Store!Init
<1> SUFFICES ASSUME TypeOK, Init PROVE Store!Init
  OBVIOUS
<1>1. pc = "setup" /\ asked = None /\ promised = None /\ outages = 0
  BY DEF Init
<1> QED
  BY <1>1, StoreOperators DEF Stored, Store!Init, TypeOK, ConfigType

LEMMA StoreStepMaps ==
  TypeOK /\ UpdateInv /\ UpdateInv' /\ [Next]_vars => [Store!Next]_(Store!storeVars)
<1> SUFFICES ASSUME TypeOK, UpdateInv, UpdateInv', [Next]_vars
             PROVE  Store!Next \/ UNCHANGED Store!storeVars
  OBVIOUS
<1> USE DEF Store!storeVars
<1>1. CASE SilentStep
  <2>1. Stored' = Stored
    BY <1>1 DEF SilentStep, Stored, UpdatePlaces, history
  <2> QED
    BY <1>1, <2>1 DEF SilentStep, history
<1>2. CASE Accept
  <2>1. asked = None
    BY <1>2 DEF Accept, UpdateInv, UpdatePlaces
  <2>2. Stored' = Stored
    BY <1>2 DEF Accept, Stored, UpdateInv
  <2>3. Store!Ask
    BY <1>2, <2>1, <2>2, StoreOperators DEF Accept, Store!Ask
  <2> QED
    BY <2>3 DEF Store!Next
<1>3. CASE Panic
  <2>1. asked = None /\ asked' = None
    BY <1>3, RebootEffect DEF Panic, UpdateInv, UpdatePlaces
  <2>2. Stored' = Stored
    BY <1>3, RebootEffect DEF Panic, Stored
  <2> QED
    BY <1>3, <2>1, <2>2, RebootEffect DEF Panic
<1>4. CASE SaveKey
  <2>1. pc = "saveConfiguration" /\ outages' = outages
    BY <1>4 DEF SaveKey
  <2>2. CASE saved' = 6
    <3>1. Stored' = Fitted(asked)
      BY <1>4, <2>2, LastKey, SaveOrderKeys DEF SaveKey, Stored
    <3>2. Store!Commit
      BY <1>4, <2>1, <3>1, SaveKeyKeepsPrefix, StoreOperators DEF Store!Commit
    <3> QED
      BY <3>2 DEF Store!Next
  <2>3. CASE saved' # 6
    <3>1. Stored' = Stored
      BY <1>4, <2>3, SaveOrderKeys DEF SaveKey, Stored
    <3> QED
      BY <1>4, <2>1, <3>1, SaveKeyKeepsPrefix
  <2> QED
    BY <2>2, <2>3
<1>5. CASE Updated
  <2>1. asked # None /\ Stored = Fitted(asked) /\ Stored' = Stored
    BY <1>5 DEF Updated, UpdateInv, Stored
  <2>2. UNCHANGED << asked, outages >> /\ promised' \in {asked, promised}
    BY <1>5 DEF Updated
  <2>3. CASE promised' = asked
    BY <2>1, <2>2, <2>3, StoreOperators DEF Store!Next, Store!Promise
  <2>4. CASE promised' = promised
    BY <2>1, <2>2, <2>4
  <2> QED
    BY <2>2, <2>3, <2>4
<1>6. CASE Restart
  <2>1. Stored' = Stored
    BY <1>6, RebootEffect DEF Restart, Stored
  <2>2. CASE asked = None
    BY <1>6, <2>1, <2>2, RebootEffect DEF Restart
  <2>3. CASE asked # None
    <3>1. Stored = Fitted(asked)
      BY <1>6, <2>3 DEF Restart, UpdateInv, Stored
    <3> QED
      BY <1>6, <2>1, <2>3, <3>1, RebootEffect, StoreOperators
      DEF Restart, Store!Next, Store!Finish
  <2> QED
    BY <2>2, <2>3
<1>7. CASE ResetConfig
  <2>1. asked = None /\ Stored' = EmptyStore
    BY <1>7 DEF ResetConfig, UpdateInv, UpdatePlaces, Stored
  <2> QED
    BY <1>7, <2>1, StoreOperators DEF ResetConfig, Store!Next, Store!Erase
<1>8. CASE PowerLoss
  <2>1. Stored' = nvs
    BY <1>8, PowerLossEffect DEF Stored
  <2>2. CASE pc # "saveConfiguration"
    BY <1>8, <2>1, <2>2, PowerLossEffect DEF Stored, Store!Next, Store!Outage
  <2>3. CASE pc = "saveConfiguration"
    <3>1. nvs = [k \in Keys |-> nvs[k]]
      BY DEF TypeOK, ConfigType, IsStore
    <3>2. asked # None /\ cfg = Fitted(asked) /\ Stored = committed
      BY <2>3 DEF UpdateInv, Stored
    <3>3. ASSUME NEW k \in Keys PROVE nvs[k] \in {Stored[k], Fitted(asked)[k]}
      <4>1. PICK i \in 1 .. 6 : k = SaveOrder[i]
        BY SaveOrderKeys
      <4>2. nvs[SaveOrder[i]] = IF i <= saved THEN cfg[SaveOrder[i]]
                                              ELSE committed[SaveOrder[i]]
        BY <2>3, SaveOrderKeys DEF UpdateInv
      <4> QED
        BY <3>2, <4>1, <4>2
    <3> QED
      BY <1>8, <2>1, <3>1, <3>2, <3>3, PowerLossEffect, StoreOperators
      DEF Store!Next, Store!Outage
  <2> QED
    BY <2>2, <2>3
<1> QED
  BY <1>1, <1>2, <1>3, <1>4, <1>5, <1>6, <1>7, <1>8, StepKinds

-----------------------------------------------------------------------------
\* An update is in RAM before it is saved, and a save that stops anywhere leaves
\* a prefix of the new keys before a suffix of the old ones.
THEOREM UpdatesAreOrderly == Spec => []UpdateInv
BY TypeInit, TypeStep, UpdateInit, UpdateStep, PTL DEF Spec

\* Key-by-key saving, two callers, panics, restarts and power failures do for a
\* client what the abstract store promises.
THEOREM ImplementsConfigStore == Spec => ImplementsStore
<1>1. Init => Store!Init
  BY TypeInit, StoreInitMaps
<1> QED
  BY TypeInit, TypeStep, UpdateInit, UpdateStep, <1>1, StoreStepMaps, PTL
  DEF Spec, ImplementsStore, Store!Spec

\* A promise is about the update in progress as long as there is one.
PromiseInv ==
  /\ PromiseKept
  /\ promised # None /\ asked # None => promised = asked

LEMMA PromiseStep == TypeOK /\ UpdateInv /\ PromiseInv /\ [Next]_vars => PromiseInv'
<1> SUFFICES ASSUME TypeOK, UpdateInv, PromiseInv, [Next]_vars PROVE PromiseInv'
  OBVIOUS
<1> USE DEF PromiseInv, PromiseKept
<1>1. CASE SilentStep
  BY <1>1 DEF SilentStep, history
<1>2. CASE Accept
  BY <1>2 DEF Accept
<1>3. CASE Panic \/ Restart \/ PowerLoss
  BY <1>3, RebootEffect, PowerLossEffect DEF Panic, Restart
<1>4. CASE SaveKey
  BY <1>4, SaveKeyKeepsPrefix
<1>5. CASE Updated
  BY <1>5 DEF Updated, UpdateInv
<1>6. CASE ResetConfig
  BY <1>6 DEF ResetConfig
<1> QED
  BY <1>1, <1>2, <1>3, <1>4, <1>5, <1>6, StepKinds

\* A client that was told "updated" finds its configuration in flash, whatever
\* comes between: restarts, power failures, refused and broken documents.
THEOREM PromisesAreKept == Spec => []PromiseKept
<1>1. Init => PromiseInv
  BY DEF Init, PromiseInv, PromiseKept
<1>2. PromiseInv => PromiseKept
  BY DEF PromiseInv
<1> QED
  BY TypeInit, TypeStep, UpdateInit, UpdateStep, PromiseStep, <1>1, <1>2, PTL DEF Spec

-----------------------------------------------------------------------------
(* The loop: RAM, the MQTT client and the radio follow flash.              *)

\* Places after loadConfiguration() and before an update or a restart.
Loaded == { "connectToWiFi", "delay", "connectDone", "setupMQTT" } \cup LoopPlaces

\* What is loaded is what is stored, and a session belongs to it.
ServingInv ==
  /\ pc \in Loaded => cfg = Load(nvs, Default)
  /\ SessionUsesConfig
  /\ session => pc \notin SetupPlaces

LEMMA PowerOnPlace == PowerOn => pc' = "setup" /\ ~session' /\ report' = "none"
BY DEF PowerOn

\* An update or a panic leaves the places where RAM must follow flash.
LEMMA UpdateLeaves ==
  ASSUME NEW doc, NEW who, NEW rest, Update(doc, who, rest)
  PROVE  /\ pc' \in {"setup", "saveConfiguration"}
         /\ pc' = "setup" => ~session'
BY PowerOnPlace DEF Update, Reboot

LEMMA ServingStep == ServingInv /\ [Next]_vars => ServingInv'
<1> SUFFICES ASSUME ServingInv, [Next]_vars PROVE ServingInv'
  OBVIOUS
<1> USE DEF ServingInv, SessionUsesConfig
<1> DEFINE Away == { "saveConfiguration", "updated", "restart" }
<1>1. ASSUME pc' = "setup", ~session' PROVE ServingInv'
  BY <1>1 DEF Loaded, LoopPlaces
<1>2. ASSUME pc' \in Away PROVE ServingInv'
  BY <1>2 DEF Loaded, LoopPlaces, SetupPlaces
<1>3. ASSUME UNCHANGED << nvs, cfg, brokerPort >>, session' => session,
             pc' = pc \/ (pc \in LoopPlaces /\ pc' \in LoopPlaces)
      PROVE  ServingInv'
  BY <1>3 DEF Loaded, LoopPlaces, SetupPlaces, Login
<1>4. ASSUME UNCHANGED << nvs, cfg, brokerPort, session >>,
             pc \in SetupPlaces, pc' \in SetupPlaces,
             pc \in Loaded
      PROVE  ServingInv'
  BY <1>4 DEF Loaded, LoopPlaces, SetupPlaces
<1>5. CASE Setup
  <2>1. cfg' = Load(nvs', Default) /\ session' = session /\ pc = "setup"
    BY <1>5 DEF Setup, broker
  <2>2. pc' \in {"setupMQTT", "connectToWiFi"}
    BY <1>5 DEF Setup
  <2> QED
    BY <2>1, <2>2 DEF Loaded, LoopPlaces, SetupPlaces
<1>6. CASE WifiGuard \/ WifiAttempt \/ WifiDone
  BY <1>4, <1>6 DEF WifiGuard, WifiAttempt, WifiDone, config, broker, SetupPlaces, Loaded
<1>7. CASE SetupMQTT
  <2>1. /\ brokerPort' = cfg["mqtt_port"] % PortLimit
        /\ UNCHANGED << nvs, cfg, session >> /\ pc = "setupMQTT" /\ pc' = "loop"
    BY <1>7 DEF SetupMQTT, broker
  <2>2. cfg = Load(nvs, Default) /\ ~session
    BY <2>1 DEF Loaded, SetupPlaces
  <2> QED
    BY <2>1, <2>2 DEF LoopPlaces, SetupPlaces
<1>8. CASE LoopStart \/ SubscribeCommand \/ SubscribeConfig \/ Reconnected
  BY <1>3, <1>8
  DEF LoopStart, SubscribeCommand, SubscribeConfig, Subscribe, Reconnected, config,
      broker, LoopPlaces
<1>9. CASE Connect
  <2>1. /\ UNCHANGED << nvs, cfg, brokerPort >> /\ Login \in Brokers
        /\ pc = "reconnectMQTT" /\ pc' = "subscribeCommand"
    BY <1>9 DEF Connect, config
  <2> QED
    BY <2>1 DEF Loaded, LoopPlaces, SetupPlaces, Login
<1>10. CASE SaveKey \/ Updated
  BY <1>2, <1>10 DEF SaveKey, Updated
<1>11. CASE MqttIdle \/ MqttNotJson \/ MqttCommand \/ Publish
  BY <1>3, <1>11
  DEF MqttIdle, MqttNotJson, MqttCommand, Publish, Receive, config, broker, LoopPlaces
<1>12. CASE HttpIdle \/ HttpRoot \/ HttpRefused \/ ResetIdle
  BY <1>3, <1>12
  DEF HttpIdle, HttpRoot, HttpRefused, HttpAnswer, ResetIdle, config, broker, LoopPlaces
<1>13. CASE MqttConfig \/ HttpConfig
  BY <1>1, <1>2, <1>13, UpdateLeaves DEF MqttConfig, HttpConfig
<1>14. CASE ResetConfig
  BY <1>2, <1>14 DEF ResetConfig
<1>15. CASE Restart \/ PowerLoss
  BY <1>1, <1>15, PowerOnPlace DEF Restart, Reboot, PowerLoss
<1>16. CASE StaUp \/ StaDown \/ SessionDrop \/ Deliver
  BY <1>3, <1>16 DEF StaUp, StaDown, SessionDrop, Deliver, config, broker
<1>17. CASE HttpRequest \/ HttpGiveUp \/ Press \/ Release \/ UNCHANGED vars
  BY <1>3, <1>17 DEF HttpRequest, HttpGiveUp, Press, Release, vars, config, broker
<1> QED
  BY <1>5, <1>6, <1>7, <1>8, <1>9, <1>10, <1>11, <1>12, <1>13, <1>14, <1>15, <1>16, <1>17
  DEF Next, Thread, Surroundings

LEMMA ServingInit == Init => ServingInv
BY DEF Init, ServingInv, SessionUsesConfig, Loaded, LoopPlaces

\* No handler leaves an update in RAM that the next boot would not find, or the
\* other way round.
THEOREM RamFollowsFlash == Spec => []RamMirrorsFlash
<1>1. ServingInv => RamMirrorsFlash
  BY DEF ServingInv, RamMirrorsFlash, Loaded
<1> QED
  BY ServingInit, ServingStep, <1>1, PTL DEF Spec

\* The MQTT client's address, port and login are those in flash.
THEOREM SessionsUseFlash == Spec => []SessionUsesConfig
<1>1. ServingInv => SessionUsesConfig
  BY DEF ServingInv
<1> QED
  BY ServingInit, ServingStep, <1>1, PTL DEF Spec

-----------------------------------------------------------------------------
(* What a session has been told, and what it hears.                        *)

\* Between connect() and the second subscribe() one topic may be there already;
\* between switching and publishing it is the answer that is right.
TalkInv ==
  /\ SubscribedWhenServing
  /\ session /\ pc = "subscribeConfig" => "command" \in subs
  /\ subs \subseteq Topics
  /\ session => pc \notin SetupPlaces
  /\ ReportTrue
  /\ pc = "publish" => (answer = "ON" => pin) /\ (answer = "OFF" => ~pin)

LEMMA TalkStep == TalkInv /\ [Next]_vars => TalkInv'
<1> SUFFICES ASSUME TalkInv, [Next]_vars PROVE TalkInv'
  OBVIOUS
<1> USE DEF TalkInv, SubscribedWhenServing, ReportTrue
<1>1. ASSUME ~session', pc' # "publish", subs' \subseteq Topics PROVE TalkInv'
  BY <1>1
<1>2. ASSUME PowerOn PROVE TalkInv'
  <2>1. pc' = "setup" /\ subs' = {}
    BY <1>2 DEF PowerOn
  <2> QED
    BY <1>1, <1>2, <2>1, PowerOnPlace
<1> DEFINE Same == UNCHANGED << session, subs, report, pin, answer >>
<1>3. ASSUME Same, pc' = pc PROVE TalkInv'
  BY <1>3
<1>4. ASSUME Same, pc' \notin SetupPlaces,
             pc \notin {"publish", "subscribeCommand", "subscribeConfig"},
             pc' \notin {"publish", "subscribeCommand", "subscribeConfig"},
             pc \in LoopPlaces \/ pc' \notin LoopPlaces
      PROVE  TalkInv'
  BY <1>4
<1>5. CASE Setup \/ WifiGuard \/ WifiAttempt \/ WifiDone \/ SetupMQTT
  <2>1. ~session /\ Same
    BY <1>5 DEF Setup, WifiGuard, WifiAttempt, WifiDone, SetupMQTT, broker, SetupPlaces
  <2>2. pc' # "publish"
    BY <1>5 DEF Setup, WifiGuard, WifiAttempt, WifiDone, SetupMQTT
  <2> QED
    BY <1>1, <2>1, <2>2
<1>6. CASE LoopStart
  <2>1. Same /\ pc = "loop" /\ pc' \in {"handleClient", "mqttLoop", "reconnectMQTT"}
    BY <1>6 DEF LoopStart, broker
  <2> QED
    BY <1>4, <2>1 DEF LoopPlaces, SetupPlaces
<1>7. CASE Connect
  <2>1. subs' = {} /\ report' = "none" /\ pc' = "subscribeCommand"
    BY <1>7 DEF Connect
  <2> QED
    BY <2>1 DEF SetupPlaces
<1>8. CASE SubscribeCommand
  <2>1. /\ pc = "subscribeCommand" /\ pc' = "subscribeConfig"
        /\ subs' = IF session THEN subs \cup {"command"} ELSE subs
        /\ UNCHANGED << session, report, pin >>
    BY <1>8 DEF SubscribeCommand, Subscribe
  <2> QED
    BY <2>1 DEF Topics, SetupPlaces
<1>9. CASE SubscribeConfig
  <2>1. /\ pc = "subscribeConfig" /\ pc' = "reconnectMQTT"
        /\ subs' = IF session THEN subs \cup {"config"} ELSE subs
        /\ UNCHANGED << session, report, pin >>
    BY <1>9 DEF SubscribeConfig, Subscribe
  <2>2. session' => subs' = Topics
    BY <2>1 DEF Topics
  <2> QED
    BY <2>1, <2>2 DEF Topics, SetupPlaces
<1>10. CASE Reconnected \/ MqttIdle \/ HttpIdle \/ ResetIdle
  BY <1>4, <1>10
  DEF Reconnected, MqttIdle, HttpIdle, ResetIdle, broker, LoopPlaces, SetupPlaces
<1>11. CASE MqttNotJson \/ HttpRoot \/ HttpRefused
  BY <1>4, <1>11
  DEF MqttNotJson, Receive, HttpRoot, HttpRefused, HttpAnswer, broker, LoopPlaces, SetupPlaces
<1>12. CASE SaveKey \/ Updated
  BY <1>3, <1>4, <1>12
  DEF SaveKey, Updated, broker, LoopPlaces, SetupPlaces
<1>13. CASE ResetConfig
  BY <1>4, <1>13 DEF ResetConfig, broker, LoopPlaces, SetupPlaces
<1>14. CASE MqttCommand
  <2>1. pc = "mqttLoop" /\ pc' = "publish" /\ UNCHANGED << session, subs, report >>
    BY <1>14 DEF MqttCommand, Receive
  <2>2. answer' = "ON" => pin'
    BY <1>14 DEF MqttCommand
  <2>3. answer' = "OFF" => ~pin'
    BY <1>14 DEF MqttCommand
  <2> QED
    BY <2>1, <2>2, <2>3 DEF LoopPlaces, SetupPlaces
<1>15. CASE Publish
  <2>1. /\ pc = "publish" /\ pc' = "handleClient" /\ UNCHANGED << session, subs, pin >>
        /\ report' = IF session THEN answer ELSE report
    BY <1>15 DEF Publish
  <2> QED
    BY <2>1 DEF LoopPlaces, SetupPlaces
<1>16. CASE MqttConfig \/ HttpConfig
  <2>1. PICK doc, who, rest : Update(doc, who, rest)
    BY <1>16 DEF MqttConfig, HttpConfig
  <2>2. pc \in {"mqttLoop", "handleClient"}
    BY <1>16 DEF MqttConfig, HttpConfig, Receive
  <2>3. CASE Panics(doc)
    BY <1>2, <2>1, <2>3 DEF Update, Reboot
  <2>4. CASE ~Panics(doc)
    BY <1>4, <2>1, <2>2, <2>4 DEF Update, LoopPlaces, SetupPlaces
  <2> QED
    BY <2>3, <2>4
<1>17. CASE Restart \/ PowerLoss
  BY <1>2, <1>17 DEF Restart, Reboot, PowerLoss
<1>18. CASE SessionDrop
  <2>1. ~session' /\ subs' = {} /\ UNCHANGED << pc, pin, answer >>
    BY <1>18 DEF SessionDrop
  <2> QED
    BY <2>1
<1>19. CASE StaUp \/ StaDown \/ Deliver \/ HttpRequest \/ HttpGiveUp \/ Press \/ Release
  BY <1>3, <1>19
  DEF StaUp, StaDown, Deliver, HttpRequest, HttpGiveUp, Press, Release, broker
<1>20. CASE UNCHANGED vars
  BY <1>3, <1>20 DEF vars, broker
<1> QED
  BY <1>5, <1>6, <1>7, <1>8, <1>9, <1>10, <1>11, <1>12, <1>13, <1>14, <1>15, <1>16,
     <1>17, <1>18, <1>19, <1>20
  DEF Next, Thread, Surroundings

LEMMA TalkInit == Init => TalkInv
BY DEF Init, TalkInv, SubscribedWhenServing, ReportTrue

\* Wherever a session breaks, one that loop() works with has both topics.
THEOREM SessionsAreSubscribed == Spec => []SubscribedWhenServing
<1>1. TalkInv => SubscribedWhenServing
  BY DEF TalkInv
<1> QED
  BY TalkInit, TalkStep, <1>1, PTL DEF Spec

\* What a session was told last of the switch is true.
THEOREM ReportsAreTrue == Spec => []ReportTrue
<1>1. TalkInv => ReportTrue
  BY DEF TalkInv
<1> QED
  BY TalkInit, TalkStep, <1>1, PTL DEF Spec

-----------------------------------------------------------------------------
(* The way in.                                                             *)

\* WayIn from the moment that the configuration is loaded; connectToWiFi() is
\* for configurations with a network.
WayInv ==
  /\ pc \in Loaded =>
       IF Empty \in {cfg["ssid"], cfg["password"]}
       THEN ap /\ sta = "off" /\ begun = None
       ELSE sta # "off" /\ begun = << cfg["ssid"], cfg["password"] >>
  /\ pc \in {"connectToWiFi", "delay", "connectDone"} =>
       Empty \notin {cfg["ssid"], cfg["password"]}
  /\ pc = "setup" => sta = "off" /\ begun = None

LEMMA WayStep == WayInv /\ [Next]_vars => WayInv'
<1> SUFFICES ASSUME WayInv, [Next]_vars PROVE WayInv'
  OBVIOUS
<1> USE DEF WayInv
<1> DEFINE Waiting == { "connectToWiFi", "delay", "connectDone" }
<1>1. ASSUME pc' \in {"saveConfiguration", "updated", "restart"} PROVE WayInv'
  BY <1>1 DEF Loaded, LoopPlaces
<1>2. ASSUME PowerOn PROVE WayInv'
  BY <1>2 DEF PowerOn, Loaded, LoopPlaces
<1>3. ASSUME UNCHANGED << cfg, begun, sta, ap >>,
             pc' = pc \/ (pc \in Loaded /\ pc' \notin Waiting \cup {"setup"})
      PROVE  WayInv'
  BY <1>3
<1>4. CASE Setup
  <2>1. CASE Empty \in {cfg'["ssid"], cfg'["password"]}
    <3>1. pc' = "setupMQTT" /\ ap' = TRUE
      BY <1>4, <2>1 DEF Setup
    <3>2. sta' = "off" /\ begun' = None
      BY <1>4, <2>1 DEF Setup
    <3>3. ap'
      BY <3>1
    <3> QED
      BY <2>1, <3>1, <3>2, <3>3
  <2>2. CASE Empty \notin {cfg'["ssid"], cfg'["password"]}
    <3>1. pc' = "connectToWiFi" /\ sta' = "trying"
          /\ begun' = << cfg'["ssid"], cfg'["password"] >>
      BY <1>4, <2>2 DEF Setup
    <3> QED
      BY <2>2, <3>1
  <2> QED
    BY <2>1, <2>2
<1>5. CASE WifiGuard \/ WifiAttempt \/ WifiDone
  <2>1. UNCHANGED << cfg, begun, sta >> /\ pc \in Waiting
    BY <1>5 DEF WifiGuard, WifiAttempt, WifiDone, config, radio
  <2>2. pc' \in Waiting \cup {"setupMQTT"}
    BY <1>5 DEF WifiGuard, WifiAttempt, WifiDone
  <2>3. Empty \notin {cfg["ssid"], cfg["password"]}
    BY <2>1
  <2>4. sta # "off" /\ begun = << cfg["ssid"], cfg["password"] >>
    BY <2>1, <2>3 DEF Loaded
  <2> QED
    BY <2>1, <2>2, <2>3, <2>4
<1>6. CASE SetupMQTT
  BY <1>3, <1>6 DEF SetupMQTT, Loaded
<1>7. CASE LoopStart \/ Connect \/ SubscribeCommand \/ SubscribeConfig \/ Reconnected
  BY <1>3, <1>7
  DEF LoopStart, Connect, SubscribeCommand, SubscribeConfig, Subscribe, Reconnected,
      config, radio, Loaded, LoopPlaces
<1>8. CASE SaveKey \/ Updated \/ ResetConfig
  BY <1>1, <1>8 DEF SaveKey, Updated, ResetConfig
<1>9. CASE MqttIdle \/ MqttNotJson \/ MqttCommand \/ Publish
  BY <1>3, <1>9
  DEF MqttIdle, MqttNotJson, MqttCommand, Publish, Receive, config, radio, Loaded, LoopPlaces
<1>10. CASE HttpIdle \/ HttpRoot \/ HttpRefused \/ ResetIdle
  BY <1>3, <1>10
  DEF HttpIdle, HttpRoot, HttpRefused, HttpAnswer, ResetIdle, config, radio, Loaded, LoopPlaces
<1>11. CASE MqttConfig \/ HttpConfig
  BY <1>1, <1>2, <1>11 DEF MqttConfig, HttpConfig, Update, Reboot
<1>12. CASE Restart \/ PowerLoss
  BY <1>2, <1>12 DEF Restart, Reboot, PowerLoss
<1>13. CASE StaUp \/ StaDown
  <2>1. /\ UNCHANGED << pc, cfg, begun, ap >>
        /\ sta # "off" /\ sta' # "off"
    BY <1>13 DEF StaUp, StaDown, config
  <2> QED
    BY <2>1 DEF Loaded, LoopPlaces
<1>14. CASE SessionDrop \/ Deliver \/ HttpRequest \/ HttpGiveUp \/ Press \/ Release
  BY <1>3, <1>14
  DEF SessionDrop, Deliver, HttpRequest, HttpGiveUp, Press, Release, config, radio
<1>15. CASE UNCHANGED vars
  BY <1>3, <1>15 DEF vars, config, radio
<1> QED
  BY <1>4, <1>5, <1>6, <1>7, <1>8, <1>9, <1>10, <1>11, <1>12, <1>13, <1>14, <1>15
  DEF Next, Thread, Surroundings

LEMMA WayInit == Init => WayInv
BY DEF Init, WayInv, Loaded, LoopPlaces

\* The radio works for the configuration in RAM, and a board without a network
\* name or a password serves on its access point.
THEOREM ThereIsAWayIn == Spec => []WayIn
<1>1. WayInv => WayIn
  BY DEF WayInv, WayIn, Loaded
<1> QED
  BY WayInit, WayStep, <1>1, PTL DEF Spec

\* The wait for the network ends with the network or with the access point.
THEOREM NobodyIsStranded == Spec => NeverStranded
<1> DEFINE Safe == pc # "setupMQTT" /\ pc' = "setupMQTT" => ap' \/ sta' = "up"
<1>1. [Next]_vars => Safe
  <2> SUFFICES ASSUME [Next]_vars, pc # "setupMQTT", pc' = "setupMQTT"
               PROVE  ap' \/ sta' = "up"
    OBVIOUS
  <2>1. CASE Setup
    <3>1. ap' = TRUE
      BY <2>1 DEF Setup
    <3> QED
      BY <3>1
  <2>2. CASE WifiAttempt
    <3>1. ap' = TRUE
      BY <2>2 DEF WifiAttempt
    <3> QED
      BY <3>1
  <2>3. CASE WifiDone
    <3>1. ap' = (sta # "up") /\ sta' = sta
      BY <2>3 DEF WifiDone
    <3> QED
      BY <3>1
  <2>4. ASSUME NEW doc, NEW who, NEW rest, Update(doc, who, rest) PROVE FALSE
    BY <2>4, UpdateLeaves
  <2>5. ASSUME Restart \/ PowerLoss PROVE FALSE
    BY <2>5, PowerOnPlace DEF Restart, Reboot, PowerLoss
  <2>6. ASSUME WifiGuard \/ SetupMQTT \/ LoopStart \/ Connect \/ SubscribeCommand
               \/ SubscribeConfig \/ Reconnected
        PROVE  FALSE
    BY <2>6 DEF WifiGuard, SetupMQTT, LoopStart, Connect, SubscribeCommand,
                SubscribeConfig, Subscribe, Reconnected
  <2>7. ASSUME SaveKey \/ Updated \/ MqttIdle \/ MqttNotJson \/ MqttCommand \/ Publish
               \/ HttpIdle \/ HttpRoot \/ HttpRefused \/ ResetIdle \/ ResetConfig
        PROVE  FALSE
    BY <2>7 DEF SaveKey, Updated, MqttIdle, MqttNotJson, MqttCommand, Publish, HttpIdle,
                HttpRoot, HttpRefused, HttpAnswer, ResetIdle, ResetConfig
  <2>8. ASSUME StaUp \/ StaDown \/ SessionDrop \/ Deliver \/ HttpRequest \/ HttpGiveUp
               \/ Press \/ Release \/ UNCHANGED vars
        PROVE  FALSE
    BY <2>8 DEF StaUp, StaDown, SessionDrop, Deliver, HttpRequest, HttpGiveUp, Press,
                Release, vars
  <2>9. ~MqttConfig /\ ~HttpConfig
    BY <2>4 DEF MqttConfig, HttpConfig
  <2> QED
    BY <2>1, <2>2, <2>3, <2>5, <2>6, <2>7, <2>8, <2>9 DEF Next, Thread, Surroundings
<1> QED
  BY <1>1, PTL DEF Spec, NeverStranded

-----------------------------------------------------------------------------
\* The configuration promised last, in RAM and in the radio.
PromisedIsUsed ==
  promised # None /\ pc \in LoopPlaces =>
    /\ cfg = Fitted(promised)
    /\ begun = IF Empty \in {cfg["ssid"], cfg["password"]} THEN None
               ELSE << cfg["ssid"], cfg["password"] >>

\* After an "updated" loop() never works with another configuration, nor the
\* radio with another network: what is left to the scheduling, and to
\* PromiseApplied, is that loop() is reached.
THEOREM PromisesAreUsed == Spec => []PromisedIsUsed
<1>1. TypeOK /\ PromiseInv /\ ServingInv /\ WayInv => PromisedIsUsed
  <2> SUFFICES ASSUME TypeOK, PromiseInv, ServingInv, WayInv,
                      promised # None, pc \in LoopPlaces
               PROVE  /\ cfg = Fitted(promised)
                      /\ begun = IF Empty \in {cfg["ssid"], cfg["password"]} THEN None
                                 ELSE << cfg["ssid"], cfg["password"] >>
    BY DEF PromisedIsUsed
  <2>1. nvs = Fitted(promised) /\ IsConfig(promised)
    BY DEF PromiseInv, PromiseKept, TypeOK, HistoryType
  <2>2. pc \in Loaded
    BY DEF Loaded
  <2>3. cfg = Fitted(promised)
    BY <2>1, <2>2, LoadSaved DEF ServingInv
  <2> QED
    BY <2>2, <2>3 DEF WayInv
<1>2. Init => PromiseInv
  BY DEF Init, PromiseInv, PromiseKept
<1> QED
  BY TypeInit, TypeStep, UpdateInit, UpdateStep, PromiseStep, ServingInit, ServingStep,
     WayInit, WayStep, <1>1, <1>2, PTL DEF Spec

-----------------------------------------------------------------------------
(* Every round ends, but for the broker.                                   *)

\* The steps that are left of setup(), or of this round of loop(), at the most.
Left ==
  CASE pc = "setup"             -> 2 * MaxAttempts + 4
    [] pc = "connectToWiFi"     -> 2 * (MaxAttempts - attempts) + 3
    [] pc = "delay"             -> 2 * (MaxAttempts - attempts) + 2
    [] pc = "connectDone"       -> 2
    [] pc = "setupMQTT"         -> 1
    [] pc = "loop"              -> 20
    [] pc = "reconnectMQTT"     -> IF session THEN 16 ELSE 19
    [] pc = "subscribeCommand"  -> 18
    [] pc = "subscribeConfig"   -> 17
    [] pc = "mqttLoop"          -> 15
    [] pc = "publish"           -> 14
    [] pc = "handleClient"      -> 13
    [] pc = "handleReset"       -> 12
    [] pc = "saveConfiguration" -> 10 - saved
    [] pc = "updated"           -> 3
    [] OTHER                    -> 2

\* The round or setup() is over, the session was lost before its subscriptions, or
\* there is less left to do; nothing that happens around the thread makes it more.
Advances ==
  \/ pc' \in {"loop", "setup"}
  \/ pc' = "reconnectMQTT" /\ ~session'
  \/ Left' < Left
  \/ Left' <= Left /\ (Surroundings \/ UNCHANGED vars)

LEMMA LeftStep == TypeOK /\ [Next]_vars => Advances
<1> SUFFICES ASSUME TypeOK, [Next]_vars PROVE Advances
  OBVIOUS
<1> USE DEF Advances
<1>1. /\ MaxAttempts \in Nat /\ attempts \in 0 .. MaxAttempts /\ saved \in 0 .. 6
      /\ pc = "saveConfiguration" => saved < 6
      /\ pc \in {"setup", "connectToWiFi", "delay"} => attempts < MaxAttempts
  BY Limits, SaveOrderKeys DEF TypeOK, PlaceType, ConfigType, RadioType
<1>2. ASSUME UNCHANGED << pc, attempts, saved >>, Surroundings \/ UNCHANGED vars,
             UNCHANGED session \/ ~session'
      PROVE  Advances
  <2>1. CASE pc = "reconnectMQTT" /\ ~session'
    BY <1>2, <2>1
  <2>2. CASE UNCHANGED session \/ pc # "reconnectMQTT"
    <3>1. Left' = Left /\ Left \in Int
      BY <1>1, <1>2, <2>2 DEF Left
    <3> QED
      BY <1>2, <3>1
  <2> QED
    BY <1>2, <2>1, <2>2
<1>3. CASE Setup
  BY <1>1, <1>3 DEF Setup, Left
<1>4. CASE WifiGuard
  <2>1. pc = "connectToWiFi" /\ pc' \in {"delay", "connectDone"} /\ attempts' = attempts
    BY <1>4 DEF WifiGuard, radio
  <2> QED
    BY <1>1, <2>1 DEF Left
<1>5. CASE WifiAttempt
  <2>1. /\ pc = "delay" /\ pc' \in {"connectToWiFi", "setupMQTT"} /\ attempts' = attempts + 1
    BY <1>5 DEF WifiAttempt
  <2> QED
    BY <1>1, <2>1 DEF Left
<1>6. CASE WifiDone
  BY <1>6 DEF WifiDone, Left
<1>7. CASE SetupMQTT \/ ResetIdle
  BY <1>7 DEF SetupMQTT, ResetIdle
<1>8. CASE LoopStart \/ Connect \/ SubscribeCommand \/ Reconnected
  BY <1>8 DEF LoopStart, Connect, SubscribeCommand, Subscribe, Reconnected, broker, Left
<1>9. CASE SubscribeConfig
  <2>1. pc = "subscribeConfig" /\ pc' = "reconnectMQTT"
    BY <1>9 DEF SubscribeConfig, Subscribe
  <2> QED
    BY <2>1 DEF Left
<1>10. CASE SaveKey
  <2>1. /\ pc = "saveConfiguration" /\ saved' = saved + 1
        /\ pc' \in {"saveConfiguration", "updated"}
    BY <1>10 DEF SaveKey
  <2> QED
    BY <1>1, <2>1 DEF Left
<1>11. CASE Updated \/ ResetConfig
  BY <1>11 DEF Updated, ResetConfig, Left
<1>12. CASE MqttIdle \/ MqttNotJson \/ MqttCommand \/ Publish
  BY <1>12 DEF MqttIdle, MqttNotJson, MqttCommand, Publish, Receive, Left
<1>13. CASE HttpIdle \/ HttpRoot \/ HttpRefused
  BY <1>13 DEF HttpIdle, HttpRoot, HttpRefused, HttpAnswer, Left
<1>14. CASE MqttConfig \/ HttpConfig
  <2>1. PICK doc, who, rest : Update(doc, who, rest)
    BY <1>14 DEF MqttConfig, HttpConfig
  <2>2. pc \in {"mqttLoop", "handleClient"}
    BY <1>14 DEF MqttConfig, HttpConfig, Receive
  <2>3. pc' = "setup" \/ (pc' = "saveConfiguration" /\ saved' = 0)
    BY <2>1, PowerOnPlace DEF Update, Reboot
  <2> QED
    BY <2>2, <2>3 DEF Left
<1>15. CASE Restart \/ PowerLoss
  BY <1>15, PowerOnPlace DEF Restart, Reboot, PowerLoss
<1>16. CASE StaUp \/ StaDown \/ SessionDrop \/ Deliver
  <2>1. UNCHANGED << pc, attempts, saved >> /\ (UNCHANGED session \/ ~session')
    BY <1>16 DEF StaUp, StaDown, SessionDrop, Deliver, config, radio, broker
  <2> QED
    BY <1>2, <1>16, <2>1 DEF Surroundings
<1>17. CASE HttpRequest \/ HttpGiveUp \/ Press \/ Release
  BY <1>2, <1>17
  DEF HttpRequest, HttpGiveUp, Press, Release, config, radio, broker, Surroundings
<1>18. CASE UNCHANGED vars
  BY <1>2, <1>18 DEF vars, config, radio, broker
<1> QED
  BY <1>3, <1>4, <1>5, <1>6, <1>7, <1>8, <1>9, <1>10, <1>11, <1>12, <1>13, <1>14, <1>15,
     <1>16, <1>17, <1>18
  DEF Next, Thread, Surroundings

\* Whatever the surroundings do, the thread takes at most 2 * MaxAttempts + 20 steps to
\* the end of setup() or of the round, unless a session is lost before its subscriptions:
\* only the wait for the broker, which HttpAnswered and ResetHonoured assume to end, has
\* no bound.
THEOREM RoundsAreBounded ==
  Spec => [](Left \in 1 .. 2 * MaxAttempts + 20) /\ [][Advances]_vars
<1>1. TypeOK => Left \in 1 .. 2 * MaxAttempts + 20
  <2> SUFFICES ASSUME TypeOK PROVE Left \in 1 .. 2 * MaxAttempts + 20
    OBVIOUS
  <2>1. /\ MaxAttempts \in Nat /\ attempts \in Int /\ saved \in Int
        /\ 0 <= attempts /\ attempts <= MaxAttempts /\ 0 <= saved /\ saved <= 6
    BY Limits, SaveOrderKeys DEF TypeOK, ConfigType, RadioType
  <2>2. Left \in Int
    BY <2>1 DEF Left
  <2>3. 1 <= Left /\ Left <= 2 * MaxAttempts + 20
    BY <2>1 DEF Left
  <2> QED
    BY <2>1, <2>2, <2>3
<1> QED
  BY TypeInit, TypeStep, LeftStep, <1>1, PTL DEF Spec
=============================================================================
