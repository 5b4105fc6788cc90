-------------------------- MODULE BleClientProofs --------------------------
(***************************************************************************)
(* The Bluetooth LE client, for any number of servers and client objects:  *)
(* every safety invariant of BleClient follows from HandOver, the order    *)
(* that keeps its two tasks apart without a lock.                          *)
(***************************************************************************)
EXTENDS BleClient, TLAPS

Inv == TypeOK /\ HandOver /\ NoNullPointer /\ WritesToLast /\ NoDiscoveryWiped

\* The order holds at the start.
LEMMA InitInv == Init => Inv
<1> SUFFICES ASSUME Init PROVE Inv
  OBVIOUS
<1> QED
  BY BleAssumption
  DEF Init, Inv, TypeOK, HandOver, NoNullPointer, WritesToLast, NoDiscoveryWiped,
      Places, Attempting, Discovering

\* Every step of either task, and of the surroundings, keeps it.
LEMMA StepInv == Inv /\ [Next]_vars => Inv'
<1> SUFFICES ASSUME Inv, [Next]_vars PROVE Inv'
  OBVIOUS
<1> USE BleAssumption
    DEF Inv, TypeOK, HandOver, NoNullPointer, WritesToLast, NoDiscoveryWiped,
        Places, Attempting, Discovering, vars, flags, device, radio
<1>1. CASE Setup
  BY <1>1 DEF Setup
<1>2. CASE ScanEnded
  BY <1>2 DEF ScanEnded
<1>3. CASE LoopStart
  BY <1>3 DEF LoopStart
<1>4. CASE CreateClient
  BY <1>4 DEF CreateClient
<1>5. CASE Connect
  BY <1>5 DEF Connect
<1>6. CASE GetService
  BY <1>6 DEF GetService, GiveUp
<1>7. CASE GetCharacteristic
  BY <1>7 DEF GetCharacteristic, GiveUp
<1>8. CASE Register
  BY <1>8 DEF Register
<1>9. CASE ClearDoConnect
  BY <1>9 DEF ClearDoConnect
<1>10. CASE UpdateConnected
  BY <1>10 DEF UpdateConnected
<1>11. CASE UpdateScan
  BY <1>11 DEF UpdateScan
<1>12. CASE UpdateIdle
  BY <1>12 DEF UpdateIdle
<1>13. CASE WriteValue
  BY <1>13 DEF WriteValue
<1>14. CASE Delay
  BY <1>14 DEF Delay
<1>15. CASE OnResult
  BY <1>15 DEF OnResult
<1>16. CASE SetMyDevice
  BY <1>16 DEF SetMyDevice
<1>17. CASE SetDoConnect
  BY <1>17 DEF SetDoConnect
<1>18. CASE SetDoScan
  BY <1>18 DEF SetDoScan
<1>19. CASE OnDisconnect
  <2>1. PICK c \in Clients : link' = [link EXCEPT ![c] = "down"]
    BY <1>19 DEF OnDisconnect
  <2>2. link' \in [Clients -> {"none", "up", "lost", "down"}]
    BY <2>1
  <2>3. /\ at = "idle" /\ connected' = FALSE
        /\ UNCHANGED << pc, doConnect, doScan, device, pChar, pClient,
                        scanning, peer, advertising >>
    BY <1>19 DEF OnDisconnect
  <2>4. TypeOK'
    BY <2>2, <2>3
  <2>5. HandOver'
    BY <2>3
  <2>6. (NoNullPointer /\ WritesToLast /\ NoDiscoveryWiped)'
    BY <2>3
  <2>7. QED
    BY <2>4, <2>5, <2>6
<1>20. CASE ScanTimeout
  BY <1>20 DEF ScanTimeout
<1>21. CASE LinkLost
  BY <1>21 DEF LinkLost
<1>22. CASE Advertise
  BY <1>22 DEF Advertise
<1>23. CASE Leave
  BY <1>23 DEF Leave
<1>24. CASE UNCHANGED vars
  BY <1>24
<1> QED
  BY <1>1, <1>2, <1>3, <1>4, <1>5, <1>6, <1>7, <1>8, <1>9, <1>10, <1>11, <1>12,
     <1>13, <1>14, <1>15, <1>16, <1>17, <1>18, <1>19, <1>20, <1>21, <1>22, <1>23, <1>24
  DEF Next, ArduinoTask, Callbacks, Surroundings

\* The order holds for ever.
THEOREM InOrder == Spec => []HandOver
<1>1. Inv => HandOver
  BY DEF Inv
<1> QED
  BY InitInv, StepInv, <1>1, PTL DEF Spec

\* Every variable keeps to its type, and a scan runs only while the Arduino task
\* waits for it.
THEOREM TypeCorrect == Spec => []TypeOK
<1>1. Inv => TypeOK
  BY DEF Inv
<1> QED
  BY InitInv, StepInv, <1>1, PTL DEF Spec

\* No interleaving of onResult(), onDisconnect() and loop() makes loop() follow a
\* null pointer.
THEOREM NoNullPointerUsed == Spec => []NoNullPointer
<1>1. Inv => NoNullPointer
  BY DEF Inv
<1> QED
  BY InitInv, StepInv, <1>1, PTL DEF Spec

\* loop() writes to the client it connected last.
THEOREM WritesGoToLast == Spec => []WritesToLast
<1>1. Inv => WritesToLast
  BY DEF Inv
<1> QED
  BY InitInv, StepInv, <1>1, PTL DEF Spec

\* Clearing doConnect after an attempt loses no later discovery, and every
\* attempt is made with the device found last.
THEOREM DiscoveriesCount == Spec => [](NoDiscoveryWiped /\ FreshDevice)
<1>1. Inv => NoDiscoveryWiped /\ FreshDevice
  BY DEF Inv, NoDiscoveryWiped, FreshDevice, HandOver, Attempting
<1> QED
  BY InitInv, StepInv, <1>1, PTL DEF Spec

-----------------------------------------------------------------------------
(* Which losses are noticed.  A run shows that not all are; these say that *)
(* the one that is not comes before connected = true, and no other.        *)

\* The client believes in a link of which it will hear nothing more.
Deaf == connected /\ link[pClient] \notin {"up", "lost"}

\* That begins with the assignment in connectToServer(), or not at all.
DeafFromTheStart == [][~Deaf /\ Deaf' => Register]_vars

\* While the client says that it is connected, a loss stays to be reported until
\* onDisconnect() has reported it.
LossIsReported ==
  [][connected /\ link[pClient] = "lost" /\ connected' =>
       pClient' = pClient /\ link'[pClient] = "lost"]_vars

\* What a connected client's link can do in a step.
LEMMA LinkStep ==
  ASSUME Inv, [Next]_vars, ~Register, connected'
  PROVE  /\ connected /\ pClient \in Clients /\ pClient' = pClient
         /\ \/ link' = link
            \/ \E c \in Clients : link[c] = "up" /\ link' = [link EXCEPT ![c] = "lost"]
<1> USE DEF flags, device, radio
<1>1. connected /\ pc \notin Attempting \cup {"createClient"}
  BY DEF Inv, HandOver, Next, ArduinoTask, Callbacks, Surroundings, vars, Setup, ScanEnded,
         LoopStart, CreateClient, Connect, GetService, GetCharacteristic, ClearDoConnect,
         UpdateConnected, UpdateScan, UpdateIdle, WriteValue, Delay, OnResult, SetMyDevice,
         SetDoConnect, SetDoScan, OnDisconnect, ScanTimeout, LinkLost, Advertise, Leave
<1>2. pClient \in Clients
  BY <1>1 DEF Inv, TypeOK, NoNullPointer, WritesToLast
<1>3. ~CreateClient /\ ~Connect /\ ~GetService /\ ~GetCharacteristic /\ ~OnDisconnect
  BY <1>1 DEF CreateClient, Connect, GetService, GetCharacteristic, OnDisconnect, Attempting
<1>4. CASE LinkLost
  BY <1>1, <1>2, <1>4 DEF LinkLost
<1>5. CASE ~LinkLost
  BY <1>1, <1>2, <1>3, <1>5
  DEF Next, ArduinoTask, Callbacks, Surroundings, vars, Setup, ScanEnded,
      LoopStart, ClearDoConnect, UpdateConnected, UpdateScan, UpdateIdle, WriteValue, Delay,
      OnResult, SetMyDevice, SetDoConnect, SetDoScan, ScanTimeout, Advertise, Leave
<1> QED
  BY <1>4, <1>5

\* A link that is lost once the client has said that it is connected is reported;
\* only one that went down before, during connectToServer(), is believed in for
\* ever.
THEOREM LaterLossesAreReported == Spec => DeafFromTheStart /\ LossIsReported
<1>1. Inv /\ [Next]_vars => [~Deaf /\ Deaf' => Register]_vars
  <2> SUFFICES ASSUME Inv, [Next]_vars, Deaf', ~Register PROVE Deaf
    OBVIOUS
  <2>1. connected'
    BY DEF Deaf
  <2>2. link \in [Clients -> {"none", "up", "lost", "down"}]
    BY DEF Inv, TypeOK
  <2> QED
    BY <2>1, <2>2, LinkStep DEF Deaf
<1>2. Inv /\ [Next]_vars =>
        [connected /\ link[pClient] = "lost" /\ connected' =>
           pClient' = pClient /\ link'[pClient] = "lost"]_vars
  <2> SUFFICES ASSUME Inv, [Next]_vars, connected, link[pClient] = "lost", connected'
               PROVE  pClient' = pClient /\ link'[pClient] = "lost"
    OBVIOUS
  <2>1. ~Register
    BY DEF Register, Inv, HandOver, Attempting
  <2>2. link \in [Clients -> {"none", "up", "lost", "down"}]
    BY DEF Inv, TypeOK
  <2> QED
    BY <2>1, <2>2, LinkStep
<1> QED
  BY InitInv, StepInv, <1>1, <1>2, PTL DEF Spec, DeafFromTheStart, LossIsReported
=============================================================================
