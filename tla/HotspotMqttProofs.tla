-------------------------- MODULE HotspotMqttProofs --------------------------
(***************************************************************************)
(* Theorems about HotspotMqtt for every set of texts, requests, messages,  *)
(* networks and brokers, every timeout and every number of power failures. *)
(***************************************************************************)
EXTENDS HotspotMqtt, DeviceConfigTheorems

LEMMA Limits == TimeoutTicks \in Nat /\ MaxInbox \in Nat /\ MaxOutages \in Nat
BY HotspotAssumption

LEMMA DefaultType == IsConfig(Default)
BY HotspotAssumption DEF Fits

\* A message taken from the socket is one that somebody published.
LEMMA InboxHead == ASSUME TypeOK, inbox # << >>
                   PROVE  /\ Head(inbox) \in Messages
                          /\ Tail(inbox) \in Seq(Messages)
                          /\ Len(Tail(inbox)) <= MaxInbox
BY Limits DEF TypeOK

LEMMA HeadAction == ASSUME TypeOK, inbox # << >>, Head(inbox).doc # NotJson
                    PROVE  Head(inbox).action \in Actions /\ IsDoc(Head(inbox).doc)
BY InboxHead, HotspotAssumption

\* The parts of the state that most steps leave alone.
OutsideType ==
  /\ IsStore(nvs) /\ IsStore(committed) /\ IsConfig(cfg)
  /\ asked = None \/ IsConfig(asked)
  /\ outages \in 0 .. MaxOutages

RadioType ==
  /\ begun = None \/ begun \in Strings \X Strings
  /\ sta \in {"off", "trying", "up"}
  /\ ap \in BOOLEAN
  /\ elapsed \in 0 .. TimeoutTicks

BrokerType ==
  /\ session \in BOOLEAN
  /\ subs \subseteq Topics
  /\ inbox \in Seq(Messages)
  /\ Len(inbox) <= MaxInbox
  /\ report \in Answers

ClientType ==
  /\ pin \in BOOLEAN /\ button \in BOOLEAN /\ serving \in BOOLEAN
  /\ answer \in Answers
  /\ request \in Requests \cup {NoRequest}
  /\ reply \in {"none", "running", "error", "success"}

PlaceType ==
  /\ pc \in SetupPlaces \cup LoopPlaces \cup SavePlaces
  /\ saved \in 0 .. Len(SaveOrder)
  /\ pc = "saveConfiguration" => saved < Len(SaveOrder)

LEMMA TypeParts ==
  TypeOK <=> OutsideType /\ RadioType /\ BrokerType /\ ClientType /\ PlaceType
BY DEF TypeOK, OutsideType, RadioType, BrokerType, ClientType, PlaceType

\* What a step leaves alone keeps its type.
LEMMA Frames ==
  /\ OutsideType /\ UNCHANGED << nvs, cfg, history >> => OutsideType'
  /\ RadioType /\ UNCHANGED radio => RadioType'
  /\ BrokerType /\ UNCHANGED broker => BrokerType'
  /\ ClientType /\ UNCHANGED << output, button, client >> => ClientType'
<1>1. OutsideType /\ UNCHANGED << nvs, cfg, history >> => OutsideType'
  BY DEF OutsideType, history
<1>2. RadioType /\ UNCHANGED radio => RadioType'
  BY DEF RadioType, radio
<1>3. BrokerType /\ UNCHANGED broker => BrokerType'
  BY DEF BrokerType, broker
<1>4. ClientType /\ UNCHANGED << output, button, client >> => ClientType'
  BY DEF ClientType, output, client
<1> QED
  BY <1>1, <1>2, <1>3, <1>4

\* A session that begins or ends has nothing of the one before.
LEMMA FreshSession ==
  ASSUME session' \in BOOLEAN, subs' = {}, inbox' = << >>, report' = "none"
  PROVE  BrokerType'
<1>1. inbox' \in Seq(Messages) /\ Len(inbox') <= MaxInbox
  BY Limits
<1> QED
  BY <1>1 DEF BrokerType, Answers

LEMMA PowerOnType ==
  ASSUME PowerOn, button \in BOOLEAN, button' = button,
         reply \in {"none", "running", "error", "success"}, reply' = reply
  PROVE  RadioType' /\ BrokerType' /\ ClientType' /\ PlaceType' /\ IsConfig(cfg')
<1>1. RadioType'
  <2>1. begun' = None /\ sta' = "off" /\ elapsed' = 0
    BY DEF PowerOn
  <2>2. ap' \in BOOLEAN
    BY DEF PowerOn
  <2> QED
    BY <2>1, <2>2, Limits DEF RadioType
<1>2. BrokerType'
  <2>1. session' = FALSE
    BY DEF PowerOn
  <2>2. subs' = {} /\ inbox' = << >> /\ report' = "none"
    BY DEF PowerOn
  <2> QED
    BY <2>1, <2>2, FreshSession
<1>3. ClientType'
  <2>1. pin' \in BOOLEAN
    BY DEF PowerOn
  <2>2. serving' \in BOOLEAN
    BY DEF PowerOn
  <2>3. answer' = "none" /\ request' = NoRequest
    BY DEF PowerOn
  <2>4. answer' \in Answers /\ request' \in Requests \cup {NoRequest}
    BY <2>3 DEF Answers
  <2>5. reply' \in {"none", "running", "error", "success"}
    OBVIOUS
  <2> QED
    BY <2>1, <2>2, <2>4, <2>5 DEF ClientType
<1>4. PlaceType'
  BY SaveOrderKeys DEF PowerOn, PlaceType, SetupPlaces
<1>5. IsConfig(cfg')
  BY HotspotAssumption DEF PowerOn
<1> QED
  BY <1>1, <1>2, <1>3, <1>4, <1>5

LEMMA RebootType == TypeOK /\ Reboot => TypeOK'
<1> SUFFICES ASSUME TypeOK, Reboot PROVE TypeOK'
  OBVIOUS
<1>1. PowerOn /\ UNCHANGED << nvs, button, reply, committed, outages >>
  BY DEF Reboot
<1>2. RadioType' /\ BrokerType' /\ ClientType' /\ PlaceType' /\ IsConfig(cfg')
  BY <1>1, PowerOnType DEF TypeOK
<1>3. asked' = None
  BY <1>1 DEF PowerOn
<1>4. OutsideType'
  BY <1>1, <1>2, <1>3, TypeParts DEF OutsideType
<1> QED
  BY <1>2, <1>4, TypeParts DEF TypeOK, OutsideType, RadioType, BrokerType, ClientType, PlaceType

LEMMA TypeInit == Init => TypeOK
<1> SUFFICES ASSUME Init PROVE TypeOK
  OBVIOUS
<1>1. OutsideType
  BY HotspotAssumption, Limits DEF Init, OutsideType
<1>2. RadioType
  <2>1. begun = None /\ sta = "off" /\ elapsed = 0
    BY DEF Init
  <2>2. ap \in BOOLEAN
    BY DEF Init
  <2> QED
    BY <2>1, <2>2, Limits DEF RadioType
<1>3. BrokerType
  <2>1. session = FALSE
    BY DEF Init
  <2>2. subs = {} /\ inbox = << >> /\ report = "none"
    BY DEF Init
  <2>3. inbox \in Seq(Messages) /\ Len(inbox) <= MaxInbox
    BY <2>2, Limits
  <2> QED
    BY <2>1, <2>2, <2>3 DEF BrokerType, Answers
<1>4. ClientType
  <2>1. pin \in BOOLEAN /\ button \in BOOLEAN /\ serving \in BOOLEAN
    BY DEF Init
  <2>2. answer \in Answers /\ request \in Requests \cup {NoRequest}
    BY DEF Init, Answers
  <2>3. reply \in {"none", "running", "error", "success"}
    BY DEF Init
  <2> QED
    BY <2>1, <2>2, <2>3 DEF ClientType
<1>5. PlaceType
  BY SaveOrderKeys DEF Init, PlaceType, SetupPlaces
<1> QED
  BY <1>1, <1>2, <1>3, <1>4, <1>5, TypeParts

\* Switching touches the pin, the answer and the place.
LEMMA SwitchType ==
  ASSUME TypeOK, NEW action \in Actions, Switch(action)
  PROVE  /\ pin' \in BOOLEAN /\ answer' \in Answers
         /\ pc' = "publish"
<1>1. pin' \in BOOLEAN
  BY DEF Switch, TypeOK
<1>2. answer' \in Answers
  BY DEF Switch, Answers
<1> QED
  BY <1>1, <1>2 DEF Switch

LEMMA TypeStep == TypeOK /\ [Next]_vars => TypeOK'
<1> SUFFICES ASSUME TypeOK, [Next]_vars PROVE TypeOK'
  OBVIOUS
<1> USE TypeParts
<1> DEFINE Goal == OutsideType' /\ RadioType' /\ BrokerType' /\ ClientType' /\ PlaceType'
<1>0. Goal => TypeOK'
  BY DEF TypeOK, OutsideType, RadioType, BrokerType, ClientType, PlaceType
<1>1. CASE Setup
  <2>1. IsConfig(cfg')
    BY <1>1, LoadType, DefaultType DEF Setup, OutsideType
  <2>2. << cfg'["ssid"], cfg'["password"] >> \in Strings \X Strings
    BY <2>1 DEF IsConfig, ValuesOf, Keys
  <2>3. OutsideType' /\ PlaceType'
    BY <1>1, <2>1 DEF Setup, OutsideType, history, PlaceType, SetupPlaces
  <2>4. RadioType'
    BY <1>1, <2>2 DEF Setup, RadioType
  <2> QED
    BY <1>0, <1>1, <2>3, <2>4, Frames DEF Setup
<1>2. CASE WifiWait
  <2>1. RadioType'
    BY <1>2, Limits DEF WifiWait, RadioType
  <2> QED
    BY <1>0, <1>2, <2>1, Frames DEF WifiWait, config, PlaceType
<1>3. CASE WifiLeave
  <2>1. RadioType' /\ PlaceType'
    BY <1>3, Limits DEF WifiLeave, RadioType, PlaceType, SetupPlaces, config
  <2> QED
    BY <1>0, <1>3, <2>1, Frames DEF WifiLeave, config
<1>4. CASE WifiDone
  <2>1. RadioType'
    <3>1. ap' \in BOOLEAN
      BY <1>4 DEF WifiDone
    <3> QED
      BY <1>4, <3>1 DEF WifiDone, RadioType
  <2> QED
    BY <1>0, <1>4, <2>1, Frames DEF WifiDone, config, PlaceType, LoopPlaces
<1>5. CASE LoopStart \/ Reconnected \/ MqttIdle \/ HttpIdle \/ ResetIdle
  BY <1>0, <1>5, Frames
  DEF LoopStart, Reconnected, MqttIdle, HttpIdle, ResetIdle, config, PlaceType, LoopPlaces
<1>6. CASE Connect
  <2>1. session' \in BOOLEAN
    BY <1>6 DEF Connect
  <2>2. BrokerType'
    BY <1>6, <2>1, FreshSession DEF Connect
  <2> QED
    BY <1>0, <1>6, <2>2, Frames DEF Connect, config, PlaceType, LoopPlaces
<1>7. CASE SubscribeCommand \/ SubscribeConfig
  <2>1. BrokerType'
    BY <1>7 DEF SubscribeCommand, SubscribeConfig, Subscribe, BrokerType, Topics
  <2> QED
    BY <1>0, <1>7, <2>1, Frames
    DEF SubscribeCommand, SubscribeConfig, Subscribe, config, PlaceType, LoopPlaces
<1>8. CASE Publish
  <2>1. report' \in Answers /\ UNCHANGED << session, subs, inbox >>
    BY <1>8 DEF Publish, BrokerType, ClientType
  <2>2. BrokerType'
    BY <2>1 DEF BrokerType
  <2>3. ClientType'
    BY <1>8 DEF Publish, ClientType, client, Answers
  <2> QED
    BY <1>0, <1>8, <2>2, <2>3, Frames DEF Publish, config, PlaceType, LoopPlaces
<1>9. CASE MqttNotJson
  <2>1. BrokerType'
    BY <1>9, InboxHead DEF MqttNotJson, Receive, BrokerType
  <2> QED
    BY <1>0, <1>9, <2>1, Frames DEF MqttNotJson, config, PlaceType, LoopPlaces
<1>10. CASE MqttCommand
  <2>1. BrokerType'
    BY <1>10, InboxHead DEF MqttCommand, Receive, BrokerType
  <2>2. pin' \in BOOLEAN /\ answer' \in Answers /\ pc' = "publish"
    BY <1>10, HeadAction, SwitchType DEF MqttCommand, Receive
  <2>3. ClientType'
    BY <1>10, <2>2 DEF MqttCommand, ClientType, client
  <2> QED
    BY <1>0, <1>10, <2>1, <2>2, <2>3, Frames DEF MqttCommand, config, PlaceType, LoopPlaces
<1>11. CASE MqttConfig
  <2>1. CASE Panics(Head(inbox).doc)
    BY <1>11, <2>1, RebootType DEF MqttConfig
  <2>2. CASE ~Panics(Head(inbox).doc)
    <3>1. IsConfig(asked') /\ IsConfig(cfg')
      BY <1>11, <2>2, HeadAction, RequestedType, FittedType DEF MqttConfig, Receive, OutsideType
    <3>2. BrokerType'
      BY <1>11, <2>2, InboxHead DEF MqttConfig, Receive, BrokerType
    <3>3. OutsideType' /\ PlaceType'
      BY <1>11, <2>2, <3>1, SaveOrderKeys DEF MqttConfig, OutsideType, PlaceType, SavePlaces
    <3> QED
      BY <1>0, <1>11, <2>2, <3>2, <3>3, Frames DEF MqttConfig
  <2> QED
    BY <2>1, <2>2
<1>12. CASE HttpRoot \/ HttpNotJson \/ HttpSend
  <2>1. serving' \in BOOLEAN
    BY <1>12 DEF HttpRoot, HttpNotJson, HttpSend, Tell
  <2>2. ClientType'
    BY <1>12, <2>1 DEF HttpRoot, HttpNotJson, HttpSend, Tell, ClientType, output
  <2> QED
    BY <1>0, <1>12, <2>2, Frames
    DEF HttpRoot, HttpNotJson, HttpSend, Tell, config, PlaceType, LoopPlaces
<1>13. CASE HttpAction
  <2>1. pin' \in BOOLEAN /\ answer' \in Answers /\ pc' = "publish"
    BY <1>13, SwitchType DEF HttpAction
  <2>2. serving' \in BOOLEAN
    BY <1>13 DEF HttpAction
  <2>3. ClientType'
    BY <1>13, <2>1, <2>2 DEF HttpAction, ClientType
  <2> QED
    BY <1>0, <1>13, <2>1, <2>3, Frames DEF HttpAction, config, PlaceType, LoopPlaces
<1>14. CASE Reset
  <2>1. IsStore(EmptyStore)
    BY DEF IsStore, EmptyStore
  <2>2. OutsideType' /\ PlaceType'
    BY <1>14, <2>1 DEF Reset, OutsideType, PlaceType, SavePlaces
  <2> QED
    BY <1>0, <1>14, <2>2, Frames DEF Reset
<1>15. CASE Restart
  BY <1>15, RebootType DEF Restart
<1>16. CASE StaUp \/ StaDown
  <2>1. RadioType'
    BY <1>16 DEF StaUp, StaDown, RadioType
  <2> QED
    BY <1>0, <1>16, <2>1, Frames DEF StaUp, StaDown, config, PlaceType
<1>17. CASE SessionDrop
  <2>1. session' \in BOOLEAN
    BY <1>17 DEF SessionDrop
  <2>2. BrokerType'
    BY <1>17, <2>1, FreshSession DEF SessionDrop
  <2> QED
    BY <1>0, <1>17, <2>2, Frames DEF SessionDrop, config, PlaceType
<1>18. CASE Deliver
  <2>1. PICK m \in Messages : inbox' = Append(inbox, m)
    BY <1>18 DEF Deliver
  <2>2. inbox' \in Seq(Messages) /\ Len(inbox') = Len(inbox) + 1
    BY <2>1 DEF BrokerType
  <2>3. Len(inbox') <= MaxInbox
    BY <1>18, <2>2, Limits DEF Deliver, BrokerType
  <2>4. BrokerType'
    BY <1>18, <2>2, <2>3 DEF Deliver, BrokerType
  <2> QED
    BY <1>0, <1>18, <2>4, Frames DEF Deliver, config, PlaceType
<1>19. CASE HttpRequest \/ HttpGiveUp
  <2>1. ClientType'
    BY <1>19 DEF HttpRequest, HttpGiveUp, ClientType, output
  <2> QED
    BY <1>0, <1>19, <2>1, Frames DEF HttpRequest, HttpGiveUp, config, PlaceType
<1>20. CASE Press \/ Release
  <2>1. button' \in BOOLEAN
    BY <1>20 DEF Press, Release
  <2>2. ClientType'
    BY <1>20, <2>1 DEF Press, Release, ClientType, output, client
  <2> QED
    BY <1>0, <1>20, <2>2, Frames DEF Press, Release, config, PlaceType
<1>21. CASE PowerLoss
  <2>1. PowerOn /\ UNCHANGED << nvs, button, reply >> /\ committed' = nvs
    BY <1>21 DEF PowerLoss
  <2>2. RadioType' /\ BrokerType' /\ ClientType' /\ PlaceType' /\ IsConfig(cfg')
    BY <2>1, PowerOnType DEF TypeOK
  <2>3. outages' \in 0 .. MaxOutages
    BY <1>21, Limits DEF PowerLoss, OutsideType
  <2>4. asked' = None
    BY <2>1 DEF PowerOn
  <2> QED
    BY <1>0, <2>1, <2>2, <2>3, <2>4 DEF OutsideType
<1>22. CASE UNCHANGED vars
  BY <1>0, <1>22, Frames DEF vars, config, PlaceType
<1>23. CASE SaveKey
  <2>1. /\ saved \in 0 .. 5 /\ saved' = saved + 1
        /\ nvs' = [nvs EXCEPT ![SaveOrder[saved']] = cfg[SaveOrder[saved']]]
    BY <1>23, SaveOrderKeys DEF SaveKey, PlaceType
  <2>2. saved' \in 1 .. 6
    BY <2>1
  <2>3. SaveOrder[saved'] \in Keys
    BY <2>2, SaveOrderKeys
  <2>4. IsStore(nvs')
    BY <2>1, <2>3 DEF OutsideType, IsStore, IsConfig
  <2>5. PlaceType'
    BY <1>23, <2>2, SaveOrderKeys DEF SaveKey, PlaceType, SavePlaces
  <2>6. OutsideType'
    BY <1>23, <2>4 DEF SaveKey, OutsideType
  <2> QED
    BY <1>0, <1>23, <2>5, <2>6, Frames DEF SaveKey
<1> QED
  BY <1>1, <1>2, <1>3, <1>4, <1>5, <1>6, <1>7, <1>8, <1>9, <1>10, <1>11, <1>12, <1>13,
     <1>14, <1>15, <1>16, <1>17, <1>18, <1>19, <1>20, <1>21, <1>22, <1>23
  DEF Next, Thread, Surroundings

\* Every variable keeps to its type, and a save to its six keys.
THEOREM TypeCorrect == Spec => []TypeOK
BY TypeInit, TypeStep, PTL DEF Spec

-----------------------------------------------------------------------------
(* The published state of the pin                                          *)

\* Between switching and publishing it is the answer that is right.
ReportInv ==
  /\ ReportTrue
  /\ pc = "publish" => (answer = "ON" => pin) /\ (answer = "OFF" => ~pin)

LEMMA ReportStep == TypeOK /\ ReportInv /\ [Next]_vars => ReportInv'
<1> SUFFICES ASSUME TypeOK, ReportInv, [Next]_vars PROVE ReportInv'
  OBVIOUS
<1> USE DEF ReportInv, ReportTrue
<1>1. ASSUME PowerOn PROVE ReportInv'
  <2>1. report' = "none" /\ pc' = "setup"
    BY <1>1 DEF PowerOn
  <2> QED
    BY <2>1
<1>2. ASSUME UNCHANGED << session, report, pin, answer >>,
             pc' = pc \/ (pc # "publish" /\ pc' # "publish")
      PROVE  ReportInv'
  BY <1>2
<1>3. ASSUME NEW action, Switch(action) PROVE ReportInv'
  <2>1. pc' = "publish"
    BY <1>3 DEF Switch
  <2>2. answer' = "ON" => pin'
    BY <1>3 DEF Switch
  <2>3. answer' = "OFF" => ~pin'
    BY <1>3 DEF Switch
  <2> QED
    BY <2>1, <2>2, <2>3
<1>4. CASE Setup \/ WifiWait \/ WifiLeave \/ WifiDone \/ LoopStart \/ Reconnected
  BY <1>2, <1>4
  DEF Setup, WifiWait, WifiLeave, WifiDone, LoopStart, Reconnected, broker, output
<1>5. CASE SubscribeCommand \/ SubscribeConfig \/ MqttIdle \/ MqttNotJson
  BY <1>2, <1>5
  DEF SubscribeCommand, SubscribeConfig, Subscribe, MqttIdle, MqttNotJson, Receive,
      broker, output
<1>6. CASE HttpIdle \/ HttpRoot \/ HttpNotJson \/ HttpSend \/ ResetIdle \/ Reset \/ SaveKey
  BY <1>2, <1>6
  DEF HttpIdle, HttpRoot, HttpNotJson, HttpSend, Tell, ResetIdle, Reset, SaveKey,
      broker, output
<1>7. CASE StaUp \/ StaDown \/ Deliver \/ HttpRequest \/ HttpGiveUp \/ Press \/ Release
  BY <1>2, <1>7
  DEF StaUp, StaDown, Deliver, HttpRequest, HttpGiveUp, Press, Release, broker, output
<1>8. CASE Connect
  <2>1. report' = "none" /\ pc' = "subscribeCommand"
    BY <1>8 DEF Connect
  <2> QED
    BY <2>1
<1>9. CASE SessionDrop
  <2>1. report' = "none" /\ UNCHANGED << pc, output >>
    BY <1>9 DEF SessionDrop
  <2> QED
    BY <2>1 DEF output
<1>10. CASE Publish
  <2>1. pc = "publish" /\ pc' # "publish" /\ pin' = pin
    BY <1>10 DEF Publish
  <2>2. session' = session /\ report' = IF session THEN answer ELSE report
    BY <1>10 DEF Publish
  <2> QED
    BY <2>1, <2>2
<1>11. CASE MqttCommand
  BY <1>3, <1>11 DEF MqttCommand
<1>12. CASE HttpAction
  BY <1>3, <1>12 DEF HttpAction
<1>13. CASE MqttConfig
  BY <1>1, <1>2, <1>13 DEF MqttConfig, Receive, Reboot, output
<1>14. CASE Restart \/ PowerLoss
  BY <1>1, <1>14 DEF Restart, Reboot, PowerLoss
<1>15. CASE UNCHANGED vars
  BY <1>2, <1>15 DEF vars, broker, output
<1> QED
  BY <1>4, <1>5, <1>6, <1>7, <1>8, <1>9, <1>10, <1>11, <1>12, <1>13, <1>14, <1>15
  DEF Next, Thread, Surroundings

\* Two writers of one pin, and sessions that end between switching and
\* publishing: what a session was told last is still right.
THEOREM ReportsAreTrue == Spec => []ReportTrue
<1>1. Init => ReportInv
  BY DEF Init, ReportInv, ReportTrue
<1>2. ReportInv => ReportTrue
  BY DEF ReportInv
<1> QED
  BY TypeInit, TypeStep, ReportStep, <1>1, <1>2, PTL DEF Spec

-----------------------------------------------------------------------------
(* The store                                                               *)
(*                                                                         *)
(* Most steps touch neither the store nor the update in progress.  Six do, *)
(* and each is a step of ConfigStore or a stuttering step of it.           *)

\* A configuration is asked for exactly as long as it is being saved; a reset is
\* the other way to a restart.
UpdateInv ==
  /\ SaveInv
  /\ pc = "saveConfiguration" => asked # None
  /\ pc \notin SavePlaces => asked = None

SilentStep ==
  /\ UNCHANGED << nvs, history >>
  /\ \/ pc' = pc /\ UNCHANGED << cfg, saved >>
     \/ pc \notin SavePlaces /\ pc' \notin SavePlaces

\* A message brings a configuration.
Accept ==
  /\ pc = "mqttLoop"
  /\ pc' = "saveConfiguration"
  /\ asked' # None /\ IsConfig(asked')
  /\ cfg' = Fitted(asked')
  /\ saved' = 0
  /\ UNCHANGED << nvs, committed, outages >>

\* A message of the wrong types restarts the board.
Panic == pc = "mqttLoop" /\ Reboot

LEMMA StepKinds ==
  TypeOK /\ [Next]_vars =>
    SilentStep \/ Accept \/ Panic \/ SaveKey \/ Restart \/ Reset \/ PowerLoss
<1> SUFFICES ASSUME TypeOK, [Next]_vars
             PROVE  SilentStep \/ Accept \/ Panic \/ SaveKey \/ Restart \/ Reset \/ PowerLoss
  OBVIOUS
<1>1. ASSUME Setup \/ WifiWait \/ WifiLeave \/ WifiDone PROVE SilentStep
  BY <1>1 DEF Setup, WifiWait, WifiLeave, WifiDone, SilentStep, SavePlaces, config
<1>2. ASSUME LoopStart \/ Connect \/ SubscribeCommand \/ SubscribeConfig \/ Reconnected
      PROVE  SilentStep
  BY <1>2 DEF LoopStart, Connect, SubscribeCommand, SubscribeConfig, Subscribe,
              Reconnected, SilentStep, SavePlaces, config
<1>3. ASSUME MqttIdle \/ MqttNotJson \/ Publish PROVE SilentStep
  BY <1>3 DEF MqttIdle, MqttNotJson, Publish, Receive, SilentStep, SavePlaces, config
<1>4. ASSUME MqttCommand \/ HttpAction PROVE SilentStep
  BY <1>4 DEF MqttCommand, HttpAction, Receive, Switch, SilentStep, SavePlaces, config
<1>5. ASSUME HttpIdle \/ HttpRoot \/ HttpNotJson \/ HttpSend \/ ResetIdle PROVE SilentStep
  BY <1>5 DEF HttpIdle, HttpRoot, HttpNotJson, HttpSend, Tell, ResetIdle, SilentStep,
              SavePlaces, config
<1>6. ASSUME StaUp \/ StaDown \/ SessionDrop \/ Deliver PROVE SilentStep
  BY <1>6 DEF StaUp, StaDown, SessionDrop, Deliver, SilentStep, config
<1>7. ASSUME HttpRequest \/ HttpGiveUp \/ Press \/ Release \/ UNCHANGED vars
      PROVE  SilentStep
  BY <1>7 DEF HttpRequest, HttpGiveUp, Press, Release, vars, SilentStep, config
<1>8. ASSUME MqttConfig PROVE Panic \/ Accept
  <2>1. CASE Panics(Head(inbox).doc)
    BY <1>8, <2>1 DEF MqttConfig, Receive, Panic
  <2>2. CASE ~Panics(Head(inbox).doc)
    <3>1. IsConfig(asked')
      BY <1>8, <2>2, HeadAction, RequestedType DEF MqttConfig, Receive, TypeOK
    <3> QED
      BY <1>8, <2>2, <3>1, NoneIsNoConfig DEF MqttConfig, Receive, Accept
  <2> QED
    BY <2>1, <2>2
<1> QED
  BY <1>1, <1>2, <1>3, <1>4, <1>5, <1>6, <1>7, <1>8 DEF Next, Thread, Surroundings

LEMMA RebootEffect == Reboot => /\ pc' = "setup" /\ asked' = None
                                /\ UNCHANGED << nvs, committed, outages >>
BY DEF Reboot, PowerOn

LEMMA PowerLossEffect == PowerLoss => /\ pc' = "setup" /\ asked' = None /\ nvs' = nvs
                                      /\ committed' = nvs /\ outages' = outages + 1
BY DEF PowerLoss, PowerOn

LEMMA UpdateInit == Init => UpdateInv
BY DEF Init, UpdateInv, SaveInv, SavePlaces

\* One more key: it is new, the keys before it stay new, the others stay old.
LEMMA SaveKeyKeepsPrefix ==
  ASSUME TypeOK, UpdateInv, SaveKey
  PROVE  /\ saved' \in 1 .. 6 /\ UNCHANGED << cfg, asked >>
         /\ asked # None /\ cfg = Fitted(asked)
         /\ nvs' = [k \in Keys |-> nvs'[k]]
         /\ \A i \in 1 .. 6 :
              nvs'[SaveOrder[i]] = IF i <= saved' THEN cfg[SaveOrder[i]]
                                                  ELSE committed[SaveOrder[i]]
<1>1. /\ saved \in 0 .. 5 /\ saved' = saved + 1
      /\ nvs' = [nvs EXCEPT ![SaveOrder[saved']] = cfg[SaveOrder[saved']]]
      /\ pc = "saveConfiguration" /\ UNCHANGED << cfg, asked >>
  BY SaveOrderKeys DEF SaveKey, TypeOK
<1>2. nvs = [k \in Keys |-> nvs[k]]
  BY DEF TypeOK, IsStore
<1>3. \A i \in 1 .. 6 :
        nvs[SaveOrder[i]] = IF i <= saved THEN cfg[SaveOrder[i]]
                                          ELSE committed[SaveOrder[i]]
  BY <1>1, SaveOrderKeys DEF UpdateInv, SaveInv
<1>4. saved' \in 1 .. 6
  BY <1>1
<1>5. nvs' = [k \in Keys |-> nvs'[k]]
  BY <1>1, <1>2
<1>6. ASSUME NEW i \in 1 .. 6
      PROVE  nvs'[SaveOrder[i]] = IF i <= saved' THEN cfg[SaveOrder[i]]
                                                 ELSE committed[SaveOrder[i]]
  <2>1. SaveOrder[i] \in Keys /\ SaveOrder[saved'] \in Keys
    BY <1>4, SaveOrderKeys
  <2>2. CASE i = saved'
    BY <1>1, <1>2, <2>1, <2>2
  <2>3. CASE i # saved'
    <3>1. SaveOrder[i] # SaveOrder[saved']
      BY <1>4, <2>3, SaveOrderKeys
    <3>2. nvs'[SaveOrder[i]] = nvs[SaveOrder[i]]
      BY <1>1, <1>2, <2>1, <3>1
    <3>3. i <= saved' <=> i <= saved
      BY <1>1, <2>3
    <3> QED
      BY <1>3, <3>2, <3>3
  <2> QED
    BY <2>2, <2>3
<1>7. asked # None /\ cfg = Fitted(asked)
  BY <1>1 DEF UpdateInv, SaveInv
<1> QED
  BY <1>1, <1>4, <1>5, <1>6, <1>7

\* The sixth key completes the configuration.
LEMMA LastKey == ASSUME TypeOK, UpdateInv, SaveKey, saved' = 6
                 PROVE  nvs' = Fitted(asked)
<1>1. ASSUME NEW k \in Keys PROVE nvs'[k] = Fitted(asked)[k]
  <2>1. PICK i \in 1 .. 6 : k = SaveOrder[i]
    BY SaveOrderKeys
  <2>2. i <= saved'
    BY <2>1
  <2> QED
    BY <2>1, <2>2, SaveKeyKeepsPrefix
<1>2. Fitted(asked) = [k \in Keys |-> Fitted(asked)[k]]
  BY DEF Fitted
<1>3. nvs' = [k \in Keys |-> nvs'[k]]
  BY SaveKeyKeepsPrefix
<1> QED
  BY <1>1, <1>2, <1>3

LEMMA UpdateStep == TypeOK /\ UpdateInv /\ [Next]_vars => UpdateInv'
<1> SUFFICES ASSUME TypeOK, UpdateInv, [Next]_vars PROVE UpdateInv'
  OBVIOUS
<1> USE DEF UpdateInv, SaveInv
<1>1. CASE SilentStep
  <2>1. UNCHANGED << nvs, committed, asked >>
    BY <1>1 DEF SilentStep, history
  <2>2. CASE pc' = pc /\ UNCHANGED << cfg, saved >>
    BY <2>1, <2>2
  <2>3. CASE pc \notin SavePlaces /\ pc' \notin SavePlaces
    BY <2>1, <2>3 DEF SavePlaces
  <2> QED
    BY <1>1, <2>2, <2>3 DEF SilentStep
<1>2. CASE Accept
  <2>1. nvs' = committed' /\ saved' = 0
    BY <1>2 DEF Accept
  <2>2. ASSUME NEW i \in 1 .. Len(SaveOrder)
        PROVE  nvs'[SaveOrder[i]] = IF i <= saved' THEN cfg'[SaveOrder[i]]
                                                   ELSE committed'[SaveOrder[i]]
    BY <2>1, <2>2
  <2> QED
    BY <1>2, <2>1, <2>2 DEF Accept, SavePlaces
<1>3. CASE Panic
  BY <1>3, RebootEffect DEF Panic, SavePlaces
<1>4. CASE Restart
  BY <1>4, RebootEffect DEF Restart, SavePlaces
<1>5. CASE SaveKey
  <2>1. CASE saved' = 6
    <3>1. nvs' = Fitted(asked)
      BY <1>5, <2>1, LastKey
    <3>2. pc' = "restart" /\ committed' = nvs'
      BY <1>5, <2>1, SaveOrderKeys DEF SaveKey
    <3> QED
      BY <1>5, <3>1, <3>2, SaveKeyKeepsPrefix DEF SavePlaces
  <2>2. CASE saved' # 6
    <3>1. pc' = "saveConfiguration" /\ committed' = committed
      BY <1>5, <2>2, SaveOrderKeys DEF SaveKey
    <3> QED
      BY <1>5, <3>1, SaveKeyKeepsPrefix, SaveOrderKeys DEF SavePlaces
  <2> QED
    BY <2>1, <2>2
<1>6. CASE Reset
  BY <1>6 DEF Reset, SavePlaces
<1>7. CASE PowerLoss
  BY <1>7, PowerLossEffect DEF SavePlaces
<1> QED
  BY <1>1, <1>2, <1>3, <1>4, <1>5, <1>6, <1>7, StepKinds

\* A save writes what was asked for, key by key, and what it has not reached yet
\* is what flash held before.
THEOREM SavesAreOrderly == Spec => []SaveInv
<1>1. UpdateInv => SaveInv
  BY DEF UpdateInv
<1> QED
  BY TypeInit, TypeStep, UpdateInit, UpdateStep, <1>1, PTL DEF Spec

-----------------------------------------------------------------------------
\* The instance's operators are this module's.
LEMMA StoreOperators ==
  /\ Store!Keys = Keys
  /\ Store!EmptyStore = EmptyStore
  /\ \A c : Store!IsConfig(c) <=> IsConfig(c)
  /\ \A c : Store!IsStore(c) <=> IsStore(c)
  /\ \A c : Store!Fitted(c) = Fitted(c)
<1>1. Store!Keys = Keys
  BY DEF Store!Keys, Keys
<1>2. \A k : Store!ValuesOf(k) = ValuesOf(k)
  BY DEF Store!ValuesOf, ValuesOf
<1>3. \A c : Store!IsConfig(c) <=> IsConfig(c)
  BY <1>1, <1>2 DEF Store!IsConfig, IsConfig
<1>4. \A c : Store!IsStore(c) <=> IsStore(c)
  BY <1>1, <1>2 DEF Store!IsStore, IsStore
<1>5. \A c : Store!Fitted(c) = Fitted(c)
  BY <1>1 DEF Store!Fitted, Fitted, Store!Fit, Fit
<1> QED
  BY <1>1, <1>3, <1>4, <1>5 DEF Store!EmptyStore, EmptyStore

LEMMA StoreInitMaps == TypeOK /\ Init => Store!Init
<1> SUFFICES ASSUME TypeOK, Init PROVE Store!Init
  OBVIOUS
<1>1. pc = "setup" /\ asked = None /\ outages = 0
  BY DEF Init
<1> QED
  BY <1>1, StoreOperators DEF Stored, Store!Init, TypeOK

LEMMA StoreStepMaps ==
  TypeOK /\ UpdateInv /\ [Next]_vars => [Store!Next]_(Store!storeVars)
<1> SUFFICES ASSUME TypeOK, UpdateInv, [Next]_vars
             PROVE  Store!Next \/ UNCHANGED Store!storeVars
  OBVIOUS
<1> USE DEF Store!storeVars
<1>1. CASE SilentStep
  <2>1. Stored' = Stored
    BY <1>1 DEF SilentStep, Stored, SavePlaces, history
  <2> QED
    BY <1>1, <2>1 DEF SilentStep, history
<1>2. CASE Accept
  <2>1. asked = None
    BY <1>2 DEF Accept, UpdateInv, SavePlaces
  <2>2. Stored' = Stored
    BY <1>2 DEF Accept, Stored, UpdateInv, SaveInv
  <2>3. Store!Ask
    BY <1>2, <2>1, <2>2, StoreOperators DEF Accept, Store!Ask
  <2> QED
    BY <2>3 DEF Store!Next
<1>3. CASE Panic
  <2>1. asked = None /\ asked' = None
    BY <1>3, RebootEffect DEF Panic, UpdateInv, SavePlaces
  <2>2. Stored' = Stored
    BY <1>3, RebootEffect DEF Panic, Stored
  <2> QED
    BY <1>3, <2>1, <2>2, RebootEffect DEF Panic
<1>4. CASE SaveKey
  <2>1. pc = "saveConfiguration" /\ outages' = outages
    BY <1>4 DEF SaveKey
  <2>2. CASE saved' = 6
    <3>1. Stored' = Fitted(asked)
      BY <1>4, <2>2, LastKey, SaveOrderKeys DEF SaveKey, Stored
    <3>2. Store!Commit
      BY <1>4, <2>1, <3>1, SaveKeyKeepsPrefix, StoreOperators DEF Store!Commit
    <3> QED
      BY <3>2 DEF Store!Next
  <2>3. CASE saved' # 6
    <3>1. Stored' = Stored
      BY <1>4, <2>3, SaveOrderKeys DEF SaveKey, Stored
    <3> QED
      BY <1>4, <2>1, <3>1, SaveKeyKeepsPrefix
  <2> QED
    BY <2>2, <2>3
<1>5. CASE Restart
  <2>1. Stored' = Stored
    BY <1>5, RebootEffect DEF Restart, Stored
  <2>2. CASE asked = None
    BY <1>5, <2>1, <2>2, RebootEffect DEF Restart
  <2>3. CASE asked # None
    <3>1. Stored = Fitted(asked)
      BY <1>5, <2>3 DEF Restart, UpdateInv, SaveInv, Stored
    <3> QED
      BY <1>5, <2>1, <2>3, <3>1, RebootEffect, StoreOperators
      DEF Restart, Store!Next, Store!Finish
  <2> QED
    BY <2>2, <2>3
<1>6. CASE Reset
  <2>1. asked = None /\ Stored' = EmptyStore
    BY <1>6 DEF Reset, UpdateInv, SavePlaces, Stored
  <2> QED
    BY <1>6, <2>1, StoreOperators DEF Reset, Store!Next, Store!Erase
<1>7. CASE PowerLoss
  <2>1. Stored' = nvs
    BY <1>7, PowerLossEffect DEF Stored
  <2>2. CASE pc # "saveConfiguration"
    BY <1>7, <2>1, <2>2, PowerLossEffect DEF Stored, Store!Next, Store!Outage
  <2>3. CASE pc = "saveConfiguration"
    <3>1. nvs = [k \in Keys |-> nvs[k]]
      BY DEF TypeOK, IsStore
    <3>2. asked # None /\ cfg = Fitted(asked) /\ Stored = committed
      BY <2>3 DEF UpdateInv, SaveInv, Stored
    <3>3. ASSUME NEW k \in Keys PROVE nvs[k] \in {Stored[k], Fitted(asked)[k]}
      <4>1. PICK i \in 1 .. 6 : k = SaveOrder[i]
        BY SaveOrderKeys
      <4>2. nvs[SaveOrder[i]] = IF i <= saved THEN cfg[SaveOrder[i]]
                                              ELSE committed[SaveOrder[i]]
        BY <2>3, SaveOrderKeys DEF UpdateInv, SaveInv
      <4> QED
        BY <3>2, <4>1, <4>2
    <3> QED
      BY <1>7, <2>1, <3>1, <3>2, <3>3, PowerLossEffect, StoreOperators
      DEF Store!Next, Store!Outage
  <2> QED
    BY <2>2, <2>3
<1> QED
  BY <1>1, <1>2, <1>3, <1>4, <1>5, <1>6, <1>7, StepKinds

\* Key-by-key saving, panics, resets and power failures are, for whoever reads the
\* store, what the abstract store allows.
THEOREM ImplementsConfigStore == Spec => ImplementsStore
<1>1. Init => Store!Init
  BY TypeInit, StoreInitMaps
<1> QED
  BY TypeInit, TypeStep, UpdateInit, UpdateStep, <1>1, StoreStepMaps, PTL
  DEF Spec, ImplementsStore, Store!Spec

-----------------------------------------------------------------------------
(* RAM, the radio and the session follow flash.                            *)

\* Places after loadConfiguration() and before an update, a reset or a restart.
Loaded == { "setupWiFiDualMode", "wifiDone" } \cup LoopPlaces

\* setup() and loop() work with the configuration in flash, and the radio is on for
\* it.
FlashIsUsed ==
  pc \in Loaded =>
    /\ cfg = Load(nvs, Default)
    /\ begun = << cfg["ssid"], cfg["password"] >> /\ sta # "off"

\* An open session was accepted for that configuration, and one that loop() works
\* with has both of its subscriptions, wherever the one before it broke.
SessionIsUsable ==
  session /\ pc \in LoopPlaces =>
    /\ Login \in Brokers
    /\ pc \notin {"subscribeCommand", "subscribeConfig"} => subs = Topics

SessionInv ==
  /\ SessionIsUsable
  /\ session => pc \notin SetupPlaces
  /\ session /\ pc = "subscribeConfig" => "command" \in subs
  /\ subs \subseteq Topics

LEMMA FlashStep == FlashIsUsed /\ [Next]_vars => FlashIsUsed'
<1> SUFFICES ASSUME FlashIsUsed, [Next]_vars PROVE FlashIsUsed'
  OBVIOUS
<1> USE DEF FlashIsUsed
<1>1. ASSUME pc' \in {"setup", "saveConfiguration", "restart"} PROVE FlashIsUsed'
  BY <1>1 DEF Loaded, LoopPlaces
<1>2. ASSUME UNCHANGED << config, begun >>, sta' = sta \/ (sta # "off" /\ sta' # "off"),
             pc' = pc \/ pc \in Loaded
      PROVE  FlashIsUsed'
  BY <1>2 DEF config
<1>3. CASE Setup
  <2>1. /\ cfg' = Load(nvs, Default) /\ nvs' = nvs
        /\ begun' = << cfg'["ssid"], cfg'["password"] >> /\ sta' = "trying"
    BY <1>3 DEF Setup
  <2> QED
    BY <2>1
<1>4. CASE WifiWait \/ WifiLeave \/ WifiDone
  BY <1>2, <1>4 DEF WifiWait, WifiLeave, WifiDone, Loaded
<1>5. CASE LoopStart \/ Connect \/ SubscribeCommand \/ SubscribeConfig \/ Reconnected
  BY <1>2, <1>5
  DEF LoopStart, Connect, SubscribeCommand, SubscribeConfig, Subscribe, Reconnected, radio,
      Loaded, LoopPlaces
<1>6. CASE Publish \/ MqttIdle \/ MqttNotJson \/ MqttCommand
  BY <1>2, <1>6
  DEF Publish, MqttIdle, MqttNotJson, MqttCommand, Receive, radio, Loaded, LoopPlaces
<1>7. CASE HttpIdle \/ HttpRoot \/ HttpNotJson \/ HttpAction \/ HttpSend \/ ResetIdle
  BY <1>2, <1>7
  DEF HttpIdle, HttpRoot, HttpNotJson, HttpAction, HttpSend, Tell, ResetIdle, radio, Loaded,
      LoopPlaces
<1>8. CASE SaveKey \/ MqttConfig \/ Reset
  BY <1>1, <1>8 DEF SaveKey, MqttConfig, Reset, Reboot, PowerOn, Loaded, LoopPlaces
<1>9. CASE Restart \/ PowerLoss
  BY <1>1, <1>9 DEF Restart, Reboot, PowerLoss, PowerOn
<1>10. CASE StaUp \/ StaDown \/ SessionDrop \/ Deliver
  BY <1>2, <1>10 DEF StaUp, StaDown, SessionDrop, Deliver, radio
<1>11. CASE HttpRequest \/ HttpGiveUp \/ Press \/ Release \/ UNCHANGED vars
  BY <1>2, <1>11 DEF HttpRequest, HttpGiveUp, Press, Release, vars, radio
<1> QED
  BY <1>3, <1>4, <1>5, <1>6, <1>7, <1>8, <1>9, <1>10, <1>11 DEF Next, Thread, Surroundings

LEMMA SessionStep == SessionInv /\ [Next]_vars => SessionInv'
<1> SUFFICES ASSUME SessionInv, [Next]_vars PROVE SessionInv'
  OBVIOUS
<1> USE DEF SessionInv, SessionIsUsable
<1> DEFINE Subscribing == { "subscribeCommand", "subscribeConfig" }
<1>1. ASSUME ~session', subs' \subseteq Topics PROVE SessionInv'
  BY <1>1
<1>2. ASSUME UNCHANGED << session, subs, cfg >>,
             pc' = pc \/ (/\ pc \in LoopPlaces \ Subscribing
                         /\ pc' \notin Subscribing \cup SetupPlaces)
      PROVE  SessionInv'
  BY <1>2 DEF Login, LoopPlaces, SetupPlaces
<1>3. CASE Setup \/ WifiWait \/ WifiLeave \/ WifiDone
  BY <1>1, <1>3 DEF Setup, WifiWait, WifiLeave, WifiDone, broker, SetupPlaces
<1>4. CASE LoopStart \/ Reconnected \/ MqttIdle \/ MqttNotJson \/ Publish
  BY <1>2, <1>4
  DEF LoopStart, Reconnected, MqttIdle, MqttNotJson, Receive, Publish, broker, config,
      LoopPlaces, SetupPlaces
<1>5. CASE Connect
  <2>1. /\ pc' = "subscribeCommand" /\ subs' = {} /\ Login \in Brokers /\ cfg' = cfg
    BY <1>5 DEF Connect, config
  <2> QED
    BY <2>1 DEF Login, SetupPlaces
<1>6. CASE SubscribeCommand
  <2>1. /\ pc = "subscribeCommand" /\ pc' = "subscribeConfig" /\ UNCHANGED << session, cfg >>
        /\ subs' = IF session THEN subs \cup {"command"} ELSE subs
    BY <1>6 DEF SubscribeCommand, Subscribe, config
  <2> QED
    BY <2>1 DEF Topics, Login, LoopPlaces, SetupPlaces
<1>7. CASE SubscribeConfig
  <2>1. /\ pc = "subscribeConfig" /\ pc' = "reconnectMQTT" /\ UNCHANGED << session, cfg >>
        /\ subs' = IF session THEN subs \cup {"config"} ELSE subs
    BY <1>7 DEF SubscribeConfig, Subscribe, config
  <2>2. session' => subs' = Topics
    BY <2>1 DEF Topics
  <2> QED
    BY <2>1, <2>2 DEF Topics, Login, LoopPlaces, SetupPlaces
<1>8. CASE MqttCommand \/ HttpAction
  BY <1>2, <1>8
  DEF MqttCommand, HttpAction, Receive, Switch, broker, config, LoopPlaces, SetupPlaces
<1>9. CASE HttpIdle \/ HttpRoot \/ HttpNotJson \/ HttpSend \/ ResetIdle \/ Reset
  BY <1>2, <1>9
  DEF HttpIdle, HttpRoot, HttpNotJson, HttpSend, Tell, ResetIdle, Reset, broker, config,
      LoopPlaces, SetupPlaces
<1>10. CASE PowerOn
  BY <1>1, <1>10 DEF PowerOn
<1>11. CASE MqttConfig /\ ~PowerOn
  <2>1. pc' = "saveConfiguration" /\ UNCHANGED << session, subs >>
    BY <1>11 DEF MqttConfig, Reboot
  <2> QED
    BY <2>1 DEF LoopPlaces, SetupPlaces
<1>12. CASE SaveKey
  <2>1. pc' \in {"saveConfiguration", "restart"} /\ UNCHANGED << session, subs >>
    BY <1>12 DEF SaveKey, broker
  <2> QED
    BY <2>1 DEF LoopPlaces, SetupPlaces
<1>13. CASE SessionDrop
  BY <1>1, <1>13 DEF SessionDrop
<1>14. CASE StaUp \/ StaDown \/ Deliver \/ HttpRequest \/ HttpGiveUp \/ Press \/ Release
  BY <1>2, <1>14
  DEF StaUp, StaDown, Deliver, HttpRequest, HttpGiveUp, Press, Release, broker, config
<1>15. CASE UNCHANGED vars
  BY <1>2, <1>15 DEF vars, broker, config
<1> QED
  BY <1>3, <1>4, <1>5, <1>6, <1>7, <1>8, <1>9, <1>10, <1>11, <1>12, <1>13, <1>14, <1>15
  DEF Next, Thread, Surroundings, Restart, Reboot, PowerLoss

\* No handler leaves an update in RAM that the next boot would not find, or the other
\* way round; the session is one for the stored broker, and is subscribed.
THEOREM FlashIsInForce == Spec => []FlashIsUsed /\ []SessionIsUsable
<1>1. Init => FlashIsUsed /\ SessionInv
  BY DEF Init, FlashIsUsed, SessionInv, SessionIsUsable, Loaded, LoopPlaces
<1>2. SessionInv => SessionIsUsable
  BY DEF SessionInv
<1> QED
  BY <1>1, <1>2, FlashStep, SessionStep, PTL DEF Spec

-----------------------------------------------------------------------------
(* HTTP clients                                                            *)

\* handleActionCommand() is between an HTTP client's action and its reply, or it was
\* called for a message.
ServingInv ==
  /\ serving => pc \in {"publish", "send"} /\ request \in Actions
  /\ pc = "send" => serving

\* A client that is waiting is let go with the reply to what it asked, unless it
\* gives up or the board restarts.
Answered ==
  request # NoRequest /\ request' # request =>
    /\ request' = NoRequest
    /\ \/ request = "/" /\ reply' = "running"
       \/ request = NotJson /\ reply' = "error"
       \/ request \in Actions /\ reply' = "success"
       \/ HttpGiveUp
       \/ pc' = "setup"

LEMMA ServingStep == TypeOK /\ ServingInv /\ [Next]_vars => ServingInv' /\ Answered
<1> SUFFICES ASSUME TypeOK, ServingInv, [Next]_vars PROVE ServingInv' /\ Answered
  OBVIOUS
<1> USE DEF ServingInv, Answered
<1>1. ASSUME UNCHANGED << serving, request >>,
             pc' = pc \/ (pc \notin {"publish", "send"} /\ pc' # "send")
      PROVE  ServingInv' /\ Answered
  BY <1>1
<1>2. ASSUME PowerOn PROVE ServingInv' /\ Answered
  <2>1. ~serving' /\ pc' = "setup" /\ request' = NoRequest
    BY <1>2 DEF PowerOn
  <2> QED
    BY <2>1
<1>3. ASSUME NEW what, Tell(what) PROVE ServingInv' /\ request' = NoRequest /\ reply' = what
  BY <1>3 DEF Tell
<1>4. CASE Setup \/ WifiWait \/ WifiLeave \/ WifiDone \/ LoopStart \/ Connect
  BY <1>1, <1>4 DEF Setup, WifiWait, WifiLeave, WifiDone, LoopStart, Connect, client
<1>5. CASE SubscribeCommand \/ SubscribeConfig \/ Reconnected \/ MqttIdle \/ MqttNotJson
  BY <1>1, <1>5
  DEF SubscribeCommand, SubscribeConfig, Subscribe, Reconnected, MqttIdle, MqttNotJson,
      Receive, client
<1>6. CASE MqttCommand
  BY <1>1, <1>6 DEF MqttCommand, Receive, Switch, client
<1>7. CASE MqttConfig
  BY <1>1, <1>2, <1>7 DEF MqttConfig, Receive, Reboot, client
<1>8. CASE Publish
  BY <1>8 DEF Publish, client
<1>9. CASE SaveKey \/ HttpIdle \/ ResetIdle \/ Reset
  BY <1>1, <1>9 DEF SaveKey, HttpIdle, ResetIdle, Reset, client
<1>10. CASE HttpRoot
  BY <1>3, <1>10 DEF HttpRoot
<1>11. CASE HttpNotJson
  BY <1>3, <1>11 DEF HttpNotJson
<1>12. CASE HttpSend
  BY <1>3, <1>12 DEF HttpSend
<1>13. CASE HttpAction
  BY <1>13 DEF HttpAction, Switch
<1>14. CASE Restart \/ PowerLoss
  BY <1>2, <1>14 DEF Restart, Reboot, PowerLoss
<1>15. CASE HttpRequest
  <2>1. request = NoRequest /\ NoRequest \notin Actions
    BY <1>15, HotspotAssumption DEF HttpRequest, Requests
  <2>2. ~serving /\ UNCHANGED << pc, serving >>
    BY <1>15, <2>1 DEF HttpRequest
  <2> QED
    BY <2>1, <2>2
<1>16. CASE HttpGiveUp
  BY <1>16 DEF HttpGiveUp
<1>17. CASE StaUp \/ StaDown \/ SessionDrop \/ Deliver \/ Press \/ Release
  BY <1>1, <1>17 DEF StaUp, StaDown, SessionDrop, Deliver, Press, Release, client
<1>18. CASE UNCHANGED vars
  BY <1>1, <1>18 DEF vars, client
<1> QED
  BY <1>4, <1>5, <1>6, <1>7, <1>8, <1>9, <1>10, <1>11, <1>12, <1>13, <1>14, <1>15, <1>16,
     <1>17, <1>18
  DEF Next, Thread, Surroundings

\* The switch is shared by messages and HTTP clients, and publishing comes between
\* the request and the reply: still nobody gets somebody else's.
THEOREM ClientsAreAnswered == Spec => []ServingInv /\ [][Answered]_vars
<1>1. Init => ServingInv
  BY DEF Init, ServingInv
<1> QED
  BY TypeInit, TypeStep, ServingStep, <1>1, PTL DEF Spec

-----------------------------------------------------------------------------
(* Every round ends, but for the broker.                                   *)

\* The steps that are left of setup(), or of this round of loop(), at the most.
Left ==
  CASE pc = "setup"             -> TimeoutTicks + 3
    [] pc = "setupWiFiDualMode" -> TimeoutTicks - elapsed + 2
    [] pc = "wifiDone"          -> 1
    [] pc = "loop"              -> 20
    [] pc = "reconnectMQTT"     -> IF session THEN 16 ELSE 19
    [] pc = "subscribeCommand"  -> 18
    [] pc = "subscribeConfig"   -> 17
    [] pc = "mqttLoop"          -> 15
    [] pc = "publish"           -> IF serving THEN 12 ELSE 14
    [] pc = "handleClient"      -> 13
    [] pc = "send"              -> 11
    [] pc = "handleReset"       -> 10
    [] pc = "saveConfiguration" -> 9 - saved
    [] OTHER                    -> 2

\* The round or setup() is over, the session was lost before its subscriptions, or
\* there is less left to do; nothing that happens around the thread makes it more.
Advances ==
  \/ pc' \in {"loop", "setup"}
  \/ pc' = "reconnectMQTT" /\ ~session'
  \/ Left' < Left
  \/ Left' <= Left /\ (Surroundings \/ UNCHANGED vars)

LEMMA LeftStep == TypeOK /\ [Next]_vars => Advances
<1> SUFFICES ASSUME TypeOK, [Next]_vars PROVE Advances
  OBVIOUS
<1> USE DEF Advances
<1>1. /\ TimeoutTicks \in Nat /\ elapsed \in 0 .. TimeoutTicks /\ saved \in 0 .. 6
      /\ pc = "saveConfiguration" => saved < 6
  BY Limits, SaveOrderKeys DEF TypeOK
<1>2. ASSUME UNCHANGED << pc, elapsed, saved, serving >>, Surroundings \/ UNCHANGED vars,
             UNCHANGED session \/ ~session'
      PROVE  Advances
  <2>1. CASE pc = "reconnectMQTT" /\ ~session'
    BY <1>2, <2>1
  <2>2. CASE UNCHANGED session \/ pc # "reconnectMQTT"
    <3>1. Left' = Left /\ Left \in Int
      BY <1>1, <1>2, <2>2 DEF Left
    <3> QED
      BY <1>2, <3>1
  <2> QED
    BY <1>2, <2>1, <2>2
<1>3. CASE Setup
  <2>1. pc = "setup" /\ pc' = "setupWiFiDualMode" /\ elapsed' = elapsed
    BY <1>3 DEF Setup
  <2> QED
    BY <1>1, <2>1 DEF Left
<1>4. CASE WifiWait
  <2>1. pc = "setupWiFiDualMode" /\ pc' = pc /\ elapsed' = elapsed + 1
    BY <1>4 DEF WifiWait
  <2> QED
    BY <1>1, <2>1 DEF Left
<1>5. CASE WifiLeave
  <2>1. pc = "setupWiFiDualMode" /\ pc' = "wifiDone"
    BY <1>5 DEF WifiLeave
  <2> QED
    BY <1>1, <2>1 DEF Left
<1>6. CASE WifiDone \/ ResetIdle \/ Restart \/ PowerLoss
  BY <1>6 DEF WifiDone, ResetIdle, Restart, PowerLoss, Reboot, PowerOn
<1>7. CASE LoopStart \/ Connect \/ SubscribeCommand \/ Reconnected
  BY <1>7 DEF LoopStart, Connect, SubscribeCommand, Subscribe, Reconnected, broker, Left
<1>8. CASE SubscribeConfig
  <2>1. pc = "subscribeConfig" /\ pc' = "reconnectMQTT"
    BY <1>8 DEF SubscribeConfig, Subscribe
  <2> QED
    BY <2>1 DEF Left
<1>9. CASE MqttIdle \/ MqttNotJson \/ HttpIdle \/ HttpRoot \/ HttpNotJson \/ HttpSend
           \/ Reset
  BY <1>9 DEF MqttIdle, MqttNotJson, Receive, HttpIdle, HttpRoot, HttpNotJson, HttpSend,
              Tell, Reset, Left
<1>10. CASE MqttCommand
  <2>1. pc = "mqttLoop" /\ pc' = "publish"
    BY <1>10 DEF MqttCommand, Receive, Switch
  <2> QED
    BY <2>1 DEF Left
<1>11. CASE MqttConfig
  <2>1. pc = "mqttLoop" /\ (pc' = "setup" \/ (pc' = "saveConfiguration" /\ saved' = 0))
    BY <1>11 DEF MqttConfig, Receive, Reboot, PowerOn
  <2> QED
    BY <2>1 DEF Left
<1>12. CASE HttpAction
  <2>1. pc = "handleClient" /\ pc' = "publish" /\ serving'
    BY <1>12 DEF HttpAction, Switch
  <2> QED
    BY <2>1 DEF Left
<1>13. CASE Publish
  <2>1. pc = "publish" /\ pc' = IF serving THEN "send" ELSE "handleClient"
    BY <1>13 DEF Publish
  <2> QED
    BY <2>1 DEF Left
<1>14. CASE SaveKey
  <2>1. /\ pc = "saveConfiguration" /\ saved' = saved + 1
        /\ pc' \in {"saveConfiguration", "restart"}
    BY <1>14 DEF SaveKey
  <2> QED
    BY <1>1, <2>1 DEF Left
<1>15. CASE StaUp \/ StaDown \/ SessionDrop \/ Deliver
  <2>1. /\ UNCHANGED << pc, elapsed, saved, serving >> /\ (UNCHANGED session \/ ~session')
    BY <1>15 DEF StaUp, StaDown, SessionDrop, Deliver, config, radio, broker, client
  <2> QED
    BY <1>2, <1>15, <2>1 DEF Surroundings
<1>16. CASE HttpRequest \/ HttpGiveUp \/ Press \/ Release
  BY <1>2, <1>16
  DEF HttpRequest, HttpGiveUp, Press, Release, config, radio, broker, client, Surroundings
<1>17. CASE UNCHANGED vars
  BY <1>2, <1>17 DEF vars, config, radio, broker, client
<1> QED
  BY <1>3, <1>4, <1>5, <1>6, <1>7, <1>8, <1>9, <1>10, <1>11, <1>12, <1>13, <1>14, <1>15,
     <1>16, <1>17
  DEF Next, Thread, Surroundings

\* Whatever the surroundings do, the thread takes at most TimeoutTicks + 20 steps to the
\* end of setup() or of the round, unless a session is lost before its subscriptions:
\* only the wait for the broker, which HttpAnswered assumes to end, has no bound.
THEOREM RoundsAreBounded ==
  Spec => [](Left \in 1 .. TimeoutTicks + 20) /\ [][Advances]_vars
<1>1. TypeOK => Left \in 1 .. TimeoutTicks + 20
  <2> SUFFICES ASSUME TypeOK PROVE Left \in 1 .. TimeoutTicks + 20
    OBVIOUS
  <2>1. /\ TimeoutTicks \in Nat /\ elapsed \in Int /\ saved \in Int
        /\ 0 <= elapsed /\ elapsed <= TimeoutTicks /\ 0 <= saved /\ saved <= 6
    BY Limits, SaveOrderKeys DEF TypeOK
  <2>2. Left \in Int
    BY <2>1 DEF Left
  <2>3. 1 <= Left /\ Left <= TimeoutTicks + 20
    BY <2>1 DEF Left
  <2> QED
    BY <2>1, <2>2, <2>3
<1> QED
  BY TypeInit, TypeStep, LeftStep, <1>1, PTL DEF Spec
=============================================================================
