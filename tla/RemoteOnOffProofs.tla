-------------------------- MODULE RemoteOnOffProofs --------------------------
(***************************************************************************)
(* What the configuration of the switches goes through, for every set of   *)
(* texts, documents, networks and brokers, and any number of power         *)
(* failures and of sketches flashed one over the other.                    *)
(***************************************************************************)
EXTENDS RemoteOnOff, TLAPS

Names(doc, k) == k \in DOMAIN doc /\ doc[k] # Bad

\* blth never has a text in RAM that did not fit; nothing is saved or cleared at a
\* boot.
RamInv ==
  /\ sketch = "blth" => \A k \in Keys : cfg[k] \in ValuesOf(k)
  /\ pc = "setup" => saved = 0 /\ ~cleared
  /\ pc = "restart" => saved = 6 /\ sketch # "clear"

\* The keys that are written so far.
SaveInv ==
  pc \in {"saveConfig", "restart"} /\ sketch # "clear" =>
    \A i \in 1 .. saved :
      LET k == SaveOrder(sketch)[i]
      IN  /\ Names(update, k) => nvs[k] = update[k]
          /\ ~Names(update, k) /\ k = "mqtt_port" /\ sketch # "blth" => nvs[k] = 0

\* What blth falls back on is what is stored.
LoadedInv ==
  sketch = "blth" /\ pc \notin {"setup", "restart"} =>
    \A k \in Keys :
      (pc = "saveConfig" /\ Names(update, k)) \/ cfg[k] = LoadOf("blth", nvs)[k]

\* The document that settled is still what is stored.
SettledInv ==
  settled # None =>
    /\ pc = "saveConfig" => update = settled /\ sketch # "clear"
    /\ \A k \in Keys :
      /\ Names(settled, k) => nvs[k] = settled[k]
      /\ ~Names(settled, k) /\ k = "mqtt_port" /\ sketch # "blth" => nvs[k] = 0

\* Clear, if it could clear, from its first key to the next update.
CleanInv ==
  wiped \/ (sketch = "clear" /\ pc = "saveConfig" /\ cleared) =>
    \A k \in AllKeys :
      nvs[k] \in {Absent, IF k = "mqtt_port" THEN DefaultPort ELSE Empty}

StoreInv == SaveInv /\ LoadedInv /\ SettledInv /\ CleanInv
Inv == TypeOK /\ RamInv /\ StoreInv

-----------------------------------------------------------------------------
(* The keys of a save                                                      *)

LEMMA OrderLength == \A s \in Sketches : Len(SaveOrder(s)) = 6
BY DEF SaveOrder

LEMMA OrderKeys ==
  ASSUME NEW s \in Sketches, NEW i \in 1 .. 6
  PROVE  /\ SaveOrder(s)[i] \in AllKeys
         /\ s # "clear" => SaveOrder(s)[i] \in Keys
<1>1. i = 1 \/ i = 2 \/ i = 3 \/ i = 4 \/ i = 5 \/ i = 6
  OBVIOUS
<1> QED
  BY <1>1 DEF SaveOrder, AllKeys, Keys, TextKeys

LEMMA OrderInjective ==
  ASSUME NEW s \in Sketches, NEW i \in 1 .. 6, NEW j \in 1 .. 6,
         SaveOrder(s)[i] = SaveOrder(s)[j]
  PROVE  i = j
<1>1. i = 1 \/ i = 2 \/ i = 3 \/ i = 4 \/ i = 5 \/ i = 6
  OBVIOUS
<1>2. j = 1 \/ j = 2 \/ j = 3 \/ j = 4 \/ j = 5 \/ j = 6
  OBVIOUS
<1> QED
  BY <1>1, <1>2 DEF SaveOrder

LEMMA OrderOnto ==
  ASSUME NEW s \in Switches, NEW k \in Keys
  PROVE  \E i \in 1 .. 6 : SaveOrder(s)[i] = k
BY DEF SaveOrder, Switches, Keys, TextKeys

-----------------------------------------------------------------------------
(* What is loaded and what is written have their types                     *)

LEMMA DefaultType == IsRam(Default) /\ \A k \in Keys : Default[k] \in ValuesOf(k)
BY RemoteAssumption DEF IsRam, Keys, ValuesOf

LEMMA LoadType ==
  ASSUME TypeOK, NEW s
  PROVE  /\ IsRam(LoadOf(s, nvs))
         /\ s = "blth" => \A k \in Keys : LoadOf(s, nvs)[k] \in ValuesOf(k)
BY DefaultType DEF TypeOK, IsStore, IsRam, LoadOf, Keys, AllKeys

LEMMA WrittenType ==
  ASSUME TypeOK, RamInv, pc = "saveConfig", NEW k \in AllKeys,
         sketch # "clear" => k \in Keys
  PROVE  Written(k) \in ValuesOf(k) \cup {Absent}
<1>1. CASE sketch = "clear"
  BY <1>1, RemoteAssumption DEF Written, ValuesOf
<1>2. CASE sketch # "clear"
  <2>1. update \in Documents /\ k \in Keys
    BY <1>2 DEF TypeOK
  <2>2. k \in DOMAIN update => update[k] \in ValuesOf(k) \cup {Bad}
    BY <2>1, RemoteAssumption
  <2>3. sketch = "blth" => cfg[k] \in ValuesOf(k)
    BY <2>1 DEF RamInv
  <2>4. nvs[k] \in ValuesOf(k) \cup {Absent}
    BY DEF TypeOK, IsStore
  <2> QED
    BY <1>2, <2>2, <2>3, <2>4, RemoteAssumption DEF Written, ValuesOf
<1> QED
  BY <1>1, <1>2

LEMMA PowerOnType ==
  ASSUME PowerOn
  PROVE  /\ pc' = "setup" /\ cfg' = Default /\ update' = None /\ saved' = 0
         /\ ~cleared' /\ cleared' \in BOOLEAN
         /\ sta' = "off" /\ session' \in BOOLEAN /\ inbox' = << >>
         /\ serial' = None /\ pin' \in BOOLEAN
         /\ IsRam(cfg') /\ \A k \in Keys : cfg'[k] \in ValuesOf(k)
         /\ inbox' \in Seq(Messages)
<1>1. session' \in BOOLEAN /\ pin' \in BOOLEAN /\ ~cleared' /\ cleared' \in BOOLEAN
  BY DEF PowerOn
<1>2. /\ pc' = "setup" /\ cfg' = Default /\ update' = None /\ saved' = 0
      /\ sta' = "off" /\ inbox' = << >> /\ serial' = None
  BY DEF PowerOn
<1>3. inbox' \in Seq(Messages)
  BY <1>2
<1> QED
  BY <1>1, <1>2, <1>3, DefaultType

\* A document from the broker or from the serial port is going to be saved.
LEMMA TakeType ==
  ASSUME TypeOK, RamInv, NEW doc \in Documents, Take(doc),
         pc \in {"mqttLoop", "serial"},
         inbox' \in Seq(Messages), serial' \in Documents \cup {None, NotJson}
  PROVE  TypeOK' /\ RamInv'
<1>1. /\ update' = doc /\ saved' = 0 /\ pc' = "saveConfig" /\ wiped' \in BOOLEAN
      /\ settled' \in Documents \cup {None}
      /\ UNCHANGED << sketch, nvs, cfg, sta, session, pin, retained, cleared, outages,
                      flashes >>
  BY DEF Take
<1>2. sketch # "clear" /\ doc # None
  BY RemoteAssumption DEF TypeOK
<1> QED
  BY <1>1, <1>2 DEF TypeOK, RamInv, Places

-----------------------------------------------------------------------------
(* The type invariant                                                      *)

LEMMA TypeInit == Init => TypeOK /\ RamInv
<1> SUFFICES ASSUME Init PROVE TypeOK /\ RamInv
  OBVIOUS
<1>1. IsStore(nvs) /\ IsRam(cfg) /\ \A k \in Keys : cfg[k] \in ValuesOf(k)
  BY DefaultType DEF Init, IsStore
<1>2. /\ session \in BOOLEAN /\ pin \in BOOLEAN /\ wiped \in BOOLEAN
      /\ ~cleared /\ cleared \in BOOLEAN
  BY DEF Init
<1> QED
  BY <1>1, <1>2, RemoteAssumption DEF Init, TypeOK, RamInv, Places, Sketches, Switches

LEMMA TypeStep == TypeOK /\ RamInv /\ [Next]_vars => TypeOK' /\ RamInv'
<1> SUFFICES ASSUME TypeOK, RamInv, [Next]_vars PROVE TypeOK' /\ RamInv'
  OBVIOUS
<1> USE DEF vars, config, broker, history
<1>1. CASE Clear
  <2>1. IsStore(nvs')
    BY <1>1 DEF Clear, IsStore
  <2> QED
    BY <1>1, <2>1 DEF Clear, TypeOK, RamInv, Places
<1>1a. CASE ClearFails
  BY <1>1a DEF ClearFails, TypeOK, RamInv, Places
<1>2. CASE Setup
  <2>1. sketch = "fixed" => cfg' = Default
    BY <1>2 DEF Setup
  <2>2. sketch # "fixed" => cfg' = LoadOf(sketch, nvs)
    BY <1>2 DEF Setup
  <2>3. IsRam(cfg') /\ (sketch = "blth" => \A k \in Keys : cfg'[k] \in ValuesOf(k))
    BY <2>1, <2>2, DefaultType, LoadType
  <2> QED
    BY <1>2, <2>3 DEF Setup, TypeOK, RamInv, Places
<1>3. CASE WifiDone
  BY <1>3 DEF WifiDone, TypeOK, RamInv, Places
<1>4. CASE LoopStart
  BY <1>4 DEF LoopStart, TypeOK, RamInv, Places
<1>5. CASE Reconnected
  BY <1>5 DEF Reconnected, TypeOK, RamInv, Places
<1>6. CASE MqttIdle
  BY <1>6 DEF MqttIdle, AfterMqtt, TypeOK, RamInv, Places
<1>7. CASE MqttNotJson
  BY <1>7 DEF MqttNotJson, Receive, AfterMqtt, TypeOK, RamInv, Places
<1>8. CASE MqttConfig
  <2>1. Head(inbox) \in Messages /\ inbox' \in Seq(Messages)
    BY <1>8 DEF MqttConfig, Receive, TypeOK
  <2>2. Head(inbox).doc \in Documents
    BY <1>8, <2>1 DEF MqttConfig, Messages
  <2> QED
    BY <1>8, <2>1, <2>2, TakeType DEF MqttConfig, Receive, TypeOK
<1>9. CASE MqttCommand
  <2>1. pin' \in BOOLEAN
    BY <1>9, Zenon DEF MqttCommand, TypeOK
  <2>2. inbox' \in Seq(Messages)
    BY <1>9 DEF MqttCommand, Receive, TypeOK
  <2>3. /\ pc = "mqttLoop" /\ pc' \in {"serial", "loop"}
        /\ UNCHANGED << sketch, config, sta, session, serial, retained, history >>
    BY <1>9 DEF MqttCommand, Receive, AfterMqtt
  <2> QED
    BY <2>1, <2>2, <2>3 DEF TypeOK, RamInv, Places
<1>10. CASE SerialIdle
  BY <1>10 DEF SerialIdle, TypeOK, RamInv, Places
<1>11. CASE SerialNotJson
  BY <1>11 DEF SerialNotJson, TypeOK, RamInv, Places
<1>12. CASE SerialConfig
  <2>1. serial \in Documents /\ Take(serial) /\ serial' = None /\ inbox' = inbox
    BY <1>12 DEF SerialConfig, TypeOK
  <2>2. pc = "serial"
    BY <1>12 DEF SerialConfig
  <2> QED
    BY <2>1, <2>2, TakeType DEF TypeOK
<1>13. CASE SaveKey
  <2>1. saved' = saved + 1 /\ saved' \in 1 .. 6 /\ LastKey = 6 /\ sketch \in Sketches
    BY <1>13, OrderLength DEF SaveKey, TypeOK, LastKey
  <2>2. PICK key \in AllKeys : /\ key = SaveOrder(sketch)[saved']
                               /\ sketch # "clear" => key \in Keys
    BY <2>1, OrderKeys
  <2>3. Written(key) \in ValuesOf(key) \cup {Absent}
    BY <1>13, <2>2, WrittenType DEF SaveKey
  <2>4. nvs' = [nvs EXCEPT ![key] = Written(key)]
    BY <1>13, <2>2 DEF SaveKey
  <2>5. IsStore(nvs')
    BY <2>3, <2>4 DEF TypeOK, IsStore
  <2>6. pc' = IF saved' < 6 THEN "saveConfig" ELSE IF sketch = "clear" THEN "off" ELSE "restart"
    BY <1>13, <2>1 DEF SaveKey
  <2>7. UNCHANGED << sketch, cfg, update, sta, broker, serial, pin, retained,
                     settled, cleared, outages, flashes >> /\ wiped' \in BOOLEAN
    BY <1>13 DEF SaveKey
  <2> QED
    BY <1>13, <2>1, <2>5, <2>6, <2>7 DEF SaveKey, TypeOK, RamInv, Places
<1>14. CASE Restart
  <2>1. PowerOn /\ settled' = update /\ UNCHANGED << sketch, nvs, retained, wiped, outages, flashes >>
    BY <1>14 DEF Restart
  <2> QED
    BY <2>1, PowerOnType DEF TypeOK, RamInv, Places
<1>15. CASE Connect
  <2>1. retained # None => [topic |-> "config", doc |-> retained] \in Messages
    BY DEF TypeOK, Messages
  <2>2. inbox' \in Seq(Messages)
    BY <1>15, <2>1 DEF Connect
  <2> QED
    BY <1>15, <2>2 DEF Connect, TypeOK, RamInv, Places
<1>16. CASE StaUp
  BY <1>16 DEF StaUp, TypeOK, RamInv, Places
<1>17. CASE StaDown
  BY <1>17 DEF StaDown, TypeOK, RamInv, Places
<1>18. CASE SessionDrop
  <2>1. inbox' \in Seq(Messages)
    BY <1>18 DEF SessionDrop
  <2>2. session' \in BOOLEAN
    BY <1>18 DEF SessionDrop
  <2> QED
    BY <1>18, <2>1, <2>2 DEF SessionDrop, TypeOK, RamInv, Places
<1>19. CASE Deliver
  BY <1>19 DEF Deliver, TypeOK, RamInv, Places
<1>20. CASE Retain
  BY <1>20 DEF Retain, TypeOK, RamInv, Places
<1>21. CASE SerialSend
  BY <1>21 DEF SerialSend, TypeOK, RamInv, Places
<1>22. CASE PowerLoss
  <2>1. /\ PowerOn /\ settled' \in {None, settled} /\ outages' = outages + 1
        /\ outages < MaxOutages
        /\ UNCHANGED << sketch, nvs, retained, wiped, flashes >>
    BY <1>22 DEF PowerLoss, Cut
  <2> QED
    BY <2>1, PowerOnType, RemoteAssumption DEF TypeOK, RamInv, Places
<1>23. CASE Flash
  <2>1. /\ PowerOn /\ settled' = None /\ flashes' = flashes + 1 /\ flashes < MaxFlashes
        /\ sketch' \in Sketches /\ UNCHANGED << nvs, retained, wiped, outages >>
    BY <1>23 DEF Flash
  <2> QED
    BY <2>1, PowerOnType, RemoteAssumption DEF TypeOK, RamInv, Places
<1>24. CASE UNCHANGED vars
  BY <1>24 DEF TypeOK, RamInv, Places
<1> QED
  BY <1>1, <1>1a, <1>2, <1>3, <1>4, <1>5, <1>6, <1>7, <1>8, <1>9, <1>10, <1>11, <1>12,
     <1>13, <1>14, <1>15, <1>16, <1>17, <1>18, <1>19, <1>20, <1>21, <1>22, <1>23, <1>24
  DEF Next, Thread, Surroundings
-----------------------------------------------------------------------------
(* What is stored, and where it comes from                                 *)

\* A step that leaves the configuration alone, in a place where it is left alone.
Quiet ==
  /\ UNCHANGED << sketch, config, settled, cleared, wiped >>
  /\ \/ pc' = pc
     \/ pc \notin {"setup", "saveConfig", "restart"} /\ pc' \notin {"setup", "saveConfig", "restart"}

LEMMA QuietStep == StoreInv /\ Quiet => StoreInv'
<1> SUFFICES ASSUME StoreInv, Quiet PROVE StoreInv'
  OBVIOUS
<1> USE DEF Quiet, config, StoreInv
<1>1. SaveInv'
  BY DEF SaveInv
<1>2. LoadedInv'
  BY DEF LoadedInv
<1>3. SettledInv'
  BY DEF SettledInv
<1>4. CleanInv'
  BY DEF CleanInv
<1> QED
  BY <1>1, <1>2, <1>3, <1>4

\* Of the steps that change the configuration, each conjunct in turn.
Change ==
  \/ Clear \/ ClearFails \/ Setup \/ MqttConfig \/ SerialConfig \/ SaveKey \/ Restart
  \/ PowerLoss \/ Flash

LEMMA NextChangesOrNot == TypeOK /\ [Next]_vars => Change \/ Quiet
<1> SUFFICES ASSUME TypeOK, [Next]_vars, ~Change PROVE Quiet
  OBVIOUS
<1> USE DEF Quiet, config, history
<1>1. CASE UNCHANGED vars
  BY <1>1 DEF vars
<1>2. CASE Connect \/ StaUp \/ StaDown \/ SessionDrop \/ Deliver \/ Retain \/ SerialSend
  BY <1>2 DEF Connect, StaUp, StaDown, SessionDrop, Deliver, Retain, SerialSend
<1>3. CASE WifiDone \/ LoopStart \/ Reconnected \/ MqttIdle \/ SerialIdle \/ SerialNotJson
  BY <1>3 DEF WifiDone, LoopStart, Reconnected, MqttIdle, AfterMqtt, SerialIdle, SerialNotJson
<1>4. CASE MqttNotJson \/ MqttCommand
  BY <1>4 DEF MqttNotJson, MqttCommand, Receive, AfterMqtt
<1> QED
  BY <1>1, <1>2, <1>3, <1>4 DEF Next, Thread, Surroundings, Change

LEMMA StoreInit == Init => StoreInv
BY RemoteAssumption DEF Init, StoreInv, SaveInv, LoadedInv, SettledInv, CleanInv

\* Into a save: nothing of it is written, and what settled stays for the same
\* document only.
LEMMA TakeStore ==
  ASSUME TypeOK, StoreInv, NEW doc \in Documents, Take(doc), pc \in {"mqttLoop", "serial"}
  PROVE  StoreInv'
<1>1. /\ update' = doc /\ saved' = 0 /\ pc' = "saveConfig" /\ ~wiped'
      /\ settled' = None \/ (settled' = settled /\ settled = doc)
      /\ UNCHANGED << sketch, nvs, cfg >>
  BY DEF Take
<1>2. sketch # "clear"
  BY DEF TypeOK
<1>3. SaveInv'
  BY <1>1 DEF SaveInv
<1>4. LoadedInv'
  BY <1>1 DEF StoreInv, LoadedInv
<1>5. SettledInv'
  BY <1>1, <1>2 DEF StoreInv, SettledInv
<1>6. CleanInv'
  BY <1>1, <1>2 DEF CleanInv
<1> QED
  BY <1>3, <1>4, <1>5, <1>6 DEF StoreInv

\* One key more.
LEMMA SaveKeyStore == TypeOK /\ RamInv /\ StoreInv /\ SaveKey => StoreInv'
<1> SUFFICES ASSUME TypeOK, RamInv, StoreInv, SaveKey PROVE StoreInv'
  OBVIOUS
<1>1. saved' = saved + 1 /\ saved' \in 1 .. 6 /\ LastKey = 6 /\ sketch \in Sketches
  BY OrderLength DEF SaveKey, TypeOK, LastKey
<1>2. PICK key \in AllKeys : /\ key = SaveOrder(sketch)[saved']
                             /\ sketch # "clear" => key \in Keys
  BY <1>1, OrderKeys
<1>3. nvs' = [nvs EXCEPT ![key] = Written(key)] /\ DOMAIN nvs = AllKeys
  BY <1>2 DEF SaveKey, TypeOK, IsStore
<1>4. nvs'[key] = Written(key) /\ \A k \in AllKeys \ {key} : nvs'[k] = nvs[k]
  BY <1>2, <1>3
<1>5. /\ pc = "saveConfig"
      /\ pc' = IF saved' < 6 THEN "saveConfig" ELSE IF sketch = "clear" THEN "off" ELSE "restart"
      /\ wiped' = (pc' = "off" /\ cleared)
      /\ UNCHANGED << sketch, cfg, update, settled, cleared >>
  BY <1>1 DEF SaveKey
<1>6. SaveInv'
  <2> SUFFICES ASSUME sketch # "clear", NEW i \in 1 .. saved',
                      NEW k, k = SaveOrder(sketch)[i]
               PROVE  /\ Names(update, k) => nvs'[k] = update[k]
                      /\ ~Names(update, k) /\ k = "mqtt_port" /\ sketch # "blth" => nvs'[k] = 0
    BY <1>5 DEF SaveInv
  <2>1. CASE i = saved'
    BY <1>2, <1>4, <2>1 DEF Written, Names
  <2>2. CASE i < saved'
    <3>1. i \in 1 .. saved /\ i \in 1 .. 6
      BY <1>1, <2>2 DEF TypeOK
    <3>2. k # key /\ k \in AllKeys
      BY <1>1, <1>2, <2>2, <3>1, OrderInjective, OrderKeys
    <3> QED
      BY <1>4, <1>5, <3>1, <3>2 DEF StoreInv, SaveInv
  <2> QED
    BY <1>1, <2>1, <2>2
<1>7. LoadedInv'
  <2> SUFFICES ASSUME sketch = "blth", pc' = "saveConfig", NEW k \in Keys, ~Names(update, k)
               PROVE  cfg[k] = LoadOf("blth", nvs')[k]
    BY <1>5 DEF LoadedInv
  <2>1. cfg[k] = LoadOf("blth", nvs)[k]
    BY <1>5 DEF StoreInv, LoadedInv
  <2>2. CASE k = key
    <3>1. nvs'[k] = cfg[k]
      BY <1>4, <2>2 DEF Written, Names
    <3>2. cfg[k] # Absent
      BY RemoteAssumption DEF RamInv, ValuesOf
    <3>3. k \in TextKeys => cfg[k] \notin TooLong
      BY <2>1, RemoteAssumption DEF LoadOf
    <3> QED
      BY <3>1, <3>2, <3>3 DEF LoadOf
  <2>3. CASE k # key
    BY <1>4, <2>1, <2>3 DEF LoadOf, AllKeys
  <2> QED
    BY <2>2, <2>3
<1>8. SettledInv'
  <2>1. settled # None => update = settled /\ sketch # "clear"
    BY <1>5 DEF StoreInv, SettledInv
  <2> SUFFICES ASSUME settled # None, NEW k \in Keys
               PROVE  /\ Names(settled, k) => nvs'[k] = settled[k]
                      /\ ~Names(settled, k) /\ k = "mqtt_port" /\ sketch # "blth" => nvs'[k] = 0
    BY <1>5, <2>1 DEF SettledInv
  <2> QED
    BY <1>4, <2>1 DEF StoreInv, SettledInv, Written, Names, AllKeys
<1>9. CleanInv'
  <2>1. sketch = "clear" => Written(key) = IF key = "mqtt_port" THEN DefaultPort ELSE Empty
    BY DEF Written
  <2>2. wiped' \/ (sketch' = "clear" /\ pc' = "saveConfig" /\ cleared')
          => sketch = "clear" /\ cleared
    BY <1>5
  <2> QED
    BY <1>2, <1>4, <1>5, <2>1, <2>2 DEF StoreInv, CleanInv
<1> QED
  BY <1>6, <1>7, <1>8, <1>9 DEF StoreInv

LEMMA StoreStep == TypeOK /\ RamInv /\ StoreInv /\ [Next]_vars => StoreInv'
<1> SUFFICES ASSUME TypeOK, RamInv, StoreInv, [Next]_vars PROVE StoreInv'
  OBVIOUS
<1>1. CASE Quiet
  BY <1>1, QuietStep
<1>2. CASE Clear
  <2>1. /\ sketch = "clear" /\ sketch' = sketch /\ pc' = "saveConfig" /\ settled' = None
        /\ \A k \in AllKeys : nvs'[k] = Absent
    BY <1>2 DEF Clear
  <2> QED
    BY <2>1 DEF StoreInv, SaveInv, LoadedInv, SettledInv, CleanInv
<1>2a. CASE ClearFails
  <2>1. /\ sketch = "clear" /\ sketch' = sketch /\ pc' = "saveConfig" /\ settled' = None
        /\ ~cleared' /\ UNCHANGED << nvs, wiped >>
    BY <1>2a DEF ClearFails, RamInv, config
  <2> QED
    BY <2>1 DEF StoreInv, SaveInv, LoadedInv, SettledInv, CleanInv
<1>3. CASE Setup
  <2>1. /\ sketch # "clear" /\ pc = "setup" /\ pc' = "wifi"
        /\ sketch = "blth" => cfg' = LoadOf("blth", nvs)
        /\ UNCHANGED << sketch, nvs, settled, wiped >>
    BY <1>3 DEF Setup, history
  <2>2. SaveInv' /\ LoadedInv'
    BY <2>1 DEF SaveInv, LoadedInv
  <2>3. SettledInv' /\ CleanInv'
    BY <2>1 DEF StoreInv, SettledInv, CleanInv
  <2> QED
    BY <2>2, <2>3 DEF StoreInv
<1>4. CASE MqttConfig
  <2>1. Head(inbox) \in Messages /\ pc = "mqttLoop"
    BY <1>4 DEF MqttConfig, Receive, TypeOK
  <2>2. Head(inbox).doc \in Documents
    BY <1>4, <2>1 DEF MqttConfig, Messages
  <2> QED
    BY <1>4, <2>1, <2>2, TakeStore DEF MqttConfig
<1>5. CASE SerialConfig
  <2>1. serial \in Documents
    BY <1>5 DEF SerialConfig, TypeOK
  <2> QED
    BY <1>5, <2>1, TakeStore DEF SerialConfig
<1>6. CASE SaveKey
  BY <1>6, SaveKeyStore
<1>7. CASE Restart
  <2>1. /\ pc = "restart" /\ pc' = "setup" /\ settled' = update
        /\ UNCHANGED << sketch, nvs, wiped >>
    BY <1>7 DEF Restart, PowerOn
  <2>2. saved = 6 /\ sketch \in Switches
    BY <2>1 DEF RamInv, TypeOK, Sketches
  <2>3. SettledInv'
    <3> SUFFICES ASSUME NEW k \in Keys
                 PROVE  /\ Names(update, k) => nvs[k] = update[k]
                        /\ ~Names(update, k) /\ k = "mqtt_port" /\ sketch # "blth" => nvs[k] = 0
      BY <2>1 DEF SettledInv
    <3>1. PICK i \in 1 .. 6 : SaveOrder(sketch)[i] = k
      BY <2>2, OrderOnto
    <3> QED
      BY <2>1, <2>2, <3>1 DEF StoreInv, SaveInv, Switches
  <2>4. SaveInv' /\ LoadedInv' /\ CleanInv'
    BY <2>1 DEF StoreInv, SaveInv, LoadedInv, CleanInv
  <2> QED
    BY <2>3, <2>4 DEF StoreInv
<1>8. CASE PowerLoss
  <2>1. /\ pc' = "setup" /\ settled' \in {None, settled}
        /\ UNCHANGED << sketch, nvs, wiped >>
    BY <1>8 DEF PowerLoss, PowerOn, Cut
  <2> QED
    BY <2>1 DEF StoreInv, SaveInv, LoadedInv, SettledInv, CleanInv
<1>9. CASE Flash
  <2>1. pc' = "setup" /\ settled' = None /\ UNCHANGED << nvs, wiped >>
    BY <1>9 DEF Flash, PowerOn
  <2> QED
    BY <2>1 DEF StoreInv, SaveInv, LoadedInv, SettledInv, CleanInv
<1> QED
  BY <1>1, <1>2, <1>2a, <1>3, <1>4, <1>5, <1>6, <1>7, <1>8, <1>9, NextChangesOrNot DEF Change

-----------------------------------------------------------------------------
(* The theorems                                                            *)

LEMMA InvAlways == Spec => []Inv
<1>1. Init => Inv
  BY TypeInit, StoreInit DEF Inv
<1>2. Inv /\ [Next]_vars => Inv'
  BY TypeStep, StoreStep DEF Inv
<1> QED
  BY <1>1, <1>2, PTL DEF Spec

\* Every variable of the switches and of the clearing sketch has its type.
THEOREM TypeCorrect == Spec => []TypeOK
<1>1. Inv => TypeOK
  BY DEF Inv
<1> QED
  BY InvAlways, <1>1, PTL

\* The clearing sketch, unless its clear() fails, leaves nothing behind, whatever was
\* stored and under whichever keys.
THEOREM NothingOldIsLeft == Spec => []NothingOldAfterClear
<1>1. Inv => NothingOldAfterClear
  BY DEF Inv, StoreInv, CleanInv, NothingOldAfterClear
<1> QED
  BY InvAlways, <1>1, PTL

\* A board that restarts after an update loads what the document says.
THEOREM UpdatesTake == Spec => []TakenInForce
<1>1. Inv => TakenInForce
  <2> SUFFICES ASSUME Inv, pc = "restart", NEW k \in DOMAIN update, update[k] # Bad,
                      k \in TextKeys => update[k] \notin TooLong
               PROVE  LoadOf(sketch, nvs)[k] = update[k]
    BY DEF TakenInForce
  <2>1. saved = 6 /\ sketch \in Switches /\ update \in Documents
    BY DEF Inv, RamInv, TypeOK, Sketches
  <2>2. k \in Keys /\ update[k] \in ValuesOf(k)
    BY <2>1, RemoteAssumption
  <2>3. PICK i \in 1 .. 6 : SaveOrder(sketch)[i] = k
    BY <2>1, <2>2, OrderOnto
  <2>4. nvs[k] = update[k]
    BY <2>1, <2>3 DEF Inv, StoreInv, SaveInv, Names, Switches
  <2> QED
    BY <2>2, <2>4, RemoteAssumption DEF LoadOf, ValuesOf
<1> QED
  BY InvAlways, <1>1, PTL

\* The key that is written loads as it did, unless the document names it.
LEMMA UnnamedLoadsTheSame ==
  ASSUME Inv, SaveKey, sketch # "clear", NEW k \in Keys,
         ~Names(update, k), k \in TextKeys \/ sketch = "blth"
  PROVE  LoadOf(sketch, nvs')[k] = LoadOf(sketch, nvs)[k]
<1>1. saved + 1 \in 1 .. 6 /\ sketch \in Sketches
  BY DEF Inv, TypeOK, SaveKey
<1>2. PICK key \in AllKeys : key = SaveOrder(sketch)[saved + 1]
  BY <1>1, OrderKeys
<1>3. nvs'[key] = Written(key) /\ \A j \in AllKeys \ {key} : nvs'[j] = nvs[j]
  BY <1>2 DEF SaveKey, Inv, TypeOK, IsStore
<1>4. CASE k # key
  BY <1>3, <1>4 DEF LoadOf, AllKeys
<1>5. CASE k = key /\ sketch # "blth"
  BY <1>3, <1>5 DEF LoadOf, Written, Names, Keys, TextKeys
<1>6. CASE k = key /\ sketch = "blth"
  <2>1. nvs'[k] = cfg[k]
    BY <1>3, <1>6 DEF Written, Names
  <2>2. cfg[k] = LoadOf("blth", nvs)[k]
    BY <1>6 DEF SaveKey, Inv, StoreInv, LoadedInv
  <2>3. cfg[k] # Absent
    BY <1>6, RemoteAssumption DEF Inv, RamInv, ValuesOf
  <2>4. k \in TextKeys => cfg[k] \notin TooLong
    BY <2>2, RemoteAssumption DEF LoadOf
  <2> QED
    BY <1>6, <2>1, <2>2, <2>3, <2>4 DEF LoadOf
<1> QED
  BY <1>4, <1>5, <1>6

\* Whatever was flashed before and wherever the power fails, no text in force
\* changes without being named.
THEOREM UnnamedTextsKept == Spec => UnnamedKept
<1> DEFINE Kept ==
      sketch' = sketch /\ sketch \notin {"clear", "fixed"} =>
        \A k \in TextKeys :
          LoadOf(sketch, nvs')[k] # LoadOf(sketch, nvs)[k] =>
            pc = "saveConfig" /\ k \in DOMAIN update /\ update[k] # Bad
<1>1. Inv /\ [Next]_vars => Kept
  <2> SUFFICES ASSUME Inv, [Next]_vars, sketch \notin {"clear", "fixed"},
                      NEW k \in TextKeys, LoadOf(sketch, nvs')[k] # LoadOf(sketch, nvs)[k]
               PROVE  pc = "saveConfig" /\ k \in DOMAIN update /\ update[k] # Bad
    OBVIOUS
  <2>1. nvs' # nvs
    OBVIOUS
  <2>2. SaveKey
    BY <2>1, NextChangesOrNot
    DEF Inv, Quiet, config, Change, Clear, ClearFails, Setup, MqttConfig, SerialConfig, Take, Restart,
        PowerLoss, Flash
  <2>3. Names(update, k)
    BY <2>2, UnnamedLoadsTheSame DEF Keys
  <2> QED
    BY <2>2, <2>3 DEF SaveKey, Names
<1> QED
  BY InvAlways, <1>1, PTL DEF UnnamedKept, Spec

\* A retained document settles: saving it again changes nothing that is loaded.
THEOREM RetainedDocumentSettles == Spec => RetainedSettles
<1> DEFINE Settles ==
      pc = "saveConfig" /\ update # None /\ update = settled =>
        LoadOf(sketch, nvs') = LoadOf(sketch, nvs)
<1>1. Inv /\ [Next]_vars => Settles
  <2> SUFFICES ASSUME Inv, [Next]_vars, pc = "saveConfig", update # None, update = settled
               PROVE  LoadOf(sketch, nvs') = LoadOf(sketch, nvs)
    OBVIOUS
  <2>1. CASE ~SaveKey
    <3>1. nvs' = nvs
      BY <2>1, NextChangesOrNot
      DEF Inv, Quiet, config, Change, Clear, ClearFails, Setup, MqttConfig, SerialConfig, Receive,
          Restart, PowerLoss, Flash
    <3> QED
      BY <3>1
  <2>2. CASE SaveKey
    <3>1. sketch # "clear" /\ UNCHANGED << sketch, settled >>
      BY <2>2 DEF Inv, StoreInv, SettledInv, SaveKey
    <3>2. StoreInv'
      BY <2>2, SaveKeyStore DEF Inv
    <3>3. \A k \in Keys : LoadOf(sketch, nvs')[k] = LoadOf(sketch, nvs)[k]
      <4> SUFFICES ASSUME NEW k \in Keys
                   PROVE  LoadOf(sketch, nvs')[k] = LoadOf(sketch, nvs)[k]
        OBVIOUS
      <4>1. CASE ~Names(update, k) /\ (k \in TextKeys \/ sketch = "blth")
        BY <2>2, <3>1, <4>1, UnnamedLoadsTheSame
      <4>2. CASE Names(update, k) \/ (k = "mqtt_port" /\ sketch # "blth")
        <5>1. nvs'[k] = nvs[k]
          BY <3>1, <3>2, <4>2 DEF Inv, StoreInv, SettledInv
        <5> QED
          BY <5>1 DEF LoadOf
      <4> QED
        BY <4>1, <4>2 DEF Keys
    <3> QED
      BY <3>3 DEF LoadOf
  <2> QED
    BY <2>1, <2>2
<1> QED
  BY InvAlways, <1>1, PTL DEF RetainedSettles, Spec

-----------------------------------------------------------------------------
(* What a configuration that does not work leads to                        *)

\* The sketches whose configuration is the stored one.
UsesStore == sketch \notin {"clear", "fixed"}

\* Outside of setup(), saveConfig() and the restart after it, such a sketch works
\* with what is stored; a boot begins with no network and no session.
BootInv ==
  /\ UsesStore /\ pc \notin {"setup", "saveConfig", "restart"} => cfg = LoadOf(sketch, nvs)
  /\ pc = "setup" => sta = "off" /\ ~session

\* The stored network is not there and has not been joined, or the stored broker
\* does not let the board in, and the board has not come past them.
LockedOut ==
  LET c == LoadOf(sketch, nvs)
  IN  /\ UsesStore
      /\ pc \in {"setup", "wifi", "loop", "reconnectMQTT"}
      /\ ~session
      /\ \/ sta # "up" /\ << c["ssid"], c["password"] >> \notin Joins
         \/ << c["mqtt_server"], c["mqtt_port"] % 65536, c["mqtt_user"], c["mqtt_pass"] >>
              \notin Brokers

\* Only another sketch helps: no power failure does, and no line that was sent over
\* Bluetooth to correct the configuration is read.
LockoutLasts ==
  LockedOut /\ sketch' = sketch =>
    /\ LockedOut'
    /\ nvs' = nvs
    /\ serial # None => serial' = serial \/ PowerLoss

\* A board that starts with such a configuration is locked out from the first.
LockedOutAtBoot ==
  pc = "setup" /\ UsesStore =>
    \/ LockedOut
    \/ LET c == LoadOf(sketch, nvs)
       IN  /\ << c["ssid"], c["password"] >> \in Joins
           /\ << c["mqtt_server"], c["mqtt_port"] % 65536, c["mqtt_user"], c["mqtt_pass"] >>
                \in Brokers

LEMMA BootStep == Inv /\ BootInv /\ [Next]_vars => BootInv'
<1> SUFFICES ASSUME Inv, BootInv, [Next]_vars PROVE BootInv'
  OBVIOUS
<1> USE DEF BootInv, UsesStore
<1>1. CASE Quiet
  <2>1. UNCHANGED << sketch, nvs, cfg >>
    BY <1>1 DEF Quiet, config
  <2>2. CASE pc' = pc
    <3>1. pc = "setup" => sta' = "off" /\ ~session'
      <4>1. CASE UNCHANGED << sta, session >>
        BY <4>1
      <4>2. CASE ~UNCHANGED << sta, session >> /\ pc = "setup"
        <5>1. StaUp \/ StaDown \/ SessionDrop \/ Connect \/ Change
          BY <4>2 DEF Next, Thread, Surroundings, Change, vars, broker, WifiDone, LoopStart,
                      Reconnected, MqttIdle, SerialIdle, SerialNotJson, MqttNotJson, Receive,
                      MqttCommand, Deliver, Retain, SerialSend
        <5>2. CASE StaUp \/ StaDown \/ SessionDrop \/ Connect
          BY <4>2, <5>2 DEF StaUp, StaDown, SessionDrop, Connect
        <5>3. CASE Change
          BY <1>1, <2>2, <4>2, <5>3
          DEF Change, Clear, ClearFails, Setup, MqttConfig, SerialConfig, Receive, SaveKey, Restart,
              PowerLoss, Flash, PowerOn
        <5> QED
          BY <5>1, <5>2, <5>3
      <4> QED
        BY <4>1, <4>2
    <3> QED
      BY <2>1, <2>2, <3>1
  <2>3. CASE pc' # pc
    BY <1>1, <2>1, <2>3 DEF Quiet
  <2> QED
    BY <2>2, <2>3
<1>2. CASE Clear \/ ClearFails
  BY <1>2 DEF Clear, ClearFails
<1>3. CASE Setup
  BY <1>3 DEF Setup
<1>4. CASE MqttConfig \/ SerialConfig
  BY <1>4 DEF MqttConfig, SerialConfig, Take
<1>5. CASE SaveKey
  BY <1>5 DEF SaveKey, Inv, TypeOK
<1>6. CASE Restart \/ PowerLoss \/ Flash
  <2>1. PowerOn
    BY <1>6 DEF Restart, PowerLoss, Flash
  <2> QED
    BY <2>1 DEF PowerOn
<1> QED
  BY <1>1, <1>2, <1>3, <1>4, <1>5, <1>6, NextChangesOrNot DEF Inv, Change

LEMMA LockoutStep == Inv /\ BootInv /\ [Next]_vars => LockoutLasts
<1> SUFFICES ASSUME Inv, BootInv, [Next]_vars, LockedOut, sketch' = sketch
             PROVE  LockedOut' /\ nvs' = nvs /\ (serial # None => serial' = serial \/ PowerLoss)
  BY DEF LockoutLasts
<1> DEFINE Net == << LoadOf(sketch, nvs)["ssid"], LoadOf(sketch, nvs)["password"] >>
           Log == << LoadOf(sketch, nvs)["mqtt_server"],
                     LoadOf(sketch, nvs)["mqtt_port"] % 65536,
                     LoadOf(sketch, nvs)["mqtt_user"], LoadOf(sketch, nvs)["mqtt_pass"] >>
           Entry == { "setup", "wifi", "loop", "reconnectMQTT" }
<1>1. /\ UsesStore /\ pc \in Entry /\ ~session
      /\ (sta # "up" /\ Net \notin Joins) \/ Log \notin Brokers
  BY DEF LockedOut
<1>2. /\ pc # "setup" => cfg = LoadOf(sketch, nvs)
      /\ pc = "setup" => sta = "off"
  BY <1>1 DEF BootInv
<1>3. ASSUME nvs' = nvs, pc' \in Entry, ~session',
             sta' # "up" \/ sta' = sta \/ Log \notin Brokers
      PROVE  LockedOut' /\ nvs' = nvs
  <2>1. UsesStore' /\ Net' = Net /\ Log' = Log
    BY <1>1, <1>3 DEF UsesStore
  <2> QED
    BY <1>1, <1>3, <2>1 DEF LockedOut
<1> HIDE DEF Net, Log
<1>4. CASE Setup \/ WifiDone \/ LoopStart
  BY <1>1, <1>3, <1>4 DEF Setup, WifiDone, LoopStart, config, broker
<1>5. CASE Connect
  <2>1. Log \in Brokers /\ sta = "up"
    BY <1>2, <1>5 DEF Connect, Log
  <2> QED
    BY <1>1, <2>1
<1>6. CASE StaUp
  <2>1. Net \in Joins
    BY <1>2, <1>6 DEF StaUp, Net
  <2> QED
    BY <1>1, <1>3, <1>6, <2>1 DEF StaUp, config, broker
<1>7. CASE PowerLoss
  <2>1. pc' = "setup" /\ sta' = "off" /\ ~session' /\ nvs' = nvs
    BY <1>7 DEF PowerLoss, PowerOn
  <2> QED
    BY <1>3, <1>7, <2>1
<1>8. CASE StaDown \/ Retain \/ SerialSend
  BY <1>1, <1>3, <1>8 DEF StaDown, Retain, SerialSend, config, broker
<1>9. ~Clear /\ ~ClearFails /\ ~Restart /\ ~Flash
  BY <1>1 DEF UsesStore, Clear, ClearFails, Restart, Flash
<1>10. ~Reconnected /\ ~MqttIdle /\ ~MqttNotJson /\ ~MqttConfig /\ ~MqttCommand
       /\ ~SerialIdle /\ ~SerialNotJson /\ ~SerialConfig /\ ~SaveKey
       /\ ~SessionDrop /\ ~Deliver
  BY <1>1 DEF Reconnected, MqttIdle, MqttNotJson, MqttConfig, MqttCommand, Receive,
              SerialIdle, SerialNotJson, SerialConfig, SaveKey, SessionDrop, Deliver
<1>11. CASE UNCHANGED vars
  BY <1>1, <1>3, <1>11 DEF vars, config, broker
<1> QED
  BY <1>4, <1>5, <1>6, <1>7, <1>8, <1>9, <1>10, <1>11 DEF Next, Thread, Surroundings

\* Outside of an update every sketch that stores its configuration works with what
\* is stored; and a stored configuration that does not work locks the board out, for
\* as long as the sketch stays: what SerialAlwaysTaken misses, for every network,
\* broker and document, and through every power failure.
THEOREM WrongConfigurationLocksOut ==
  Spec => []BootInv /\ []LockedOutAtBoot /\ [][LockoutLasts]_vars
<1>1. Init => BootInv
  BY DEF Init, BootInv
<1>2. Inv /\ BootInv => LockedOutAtBoot
  BY DEF BootInv, LockedOutAtBoot, LockedOut
<1> QED
  BY InvAlways, BootStep, LockoutStep, <1>1, <1>2, PTL DEF Spec
=============================================================================
