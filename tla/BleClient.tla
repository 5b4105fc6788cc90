----------------------------- MODULE BleClient -----------------------------
(***************************************************************************)
(* SerialToSerialBT_Client.ino: a Bluetooth LE client that scans for a     *)
(* server of its service, connects to it, and once a second writes to one  *)
(* of its characteristics.                                                 *)
(*                                                                         *)
(* Two tasks share the sketch's globals without a lock: the Arduino task,  *)
(* which runs setup() and loop(), and the Bluetooth task, which runs the   *)
(* callbacks, one at a time.  A client object is made for every attempt to *)
(* connect and is never deleted; the model takes an object of which        *)
(* nothing is left to happen for a new one.                                *)
(***************************************************************************)
EXTENDS Naturals

CONSTANTS
  Servers,  \* the devices that advertise the service
  Clients,  \* the BLEClient objects
  Null      \* the null pointer

ASSUME BleAssumption == Null \notin Servers \cup Clients

VARIABLES
  pc,         \* where setup() or loop() is
  at,         \* where onResult() is, or "idle"
  doConnect,
  connected,
  doScan,
  myDevice,   \* the server that onResult() found last
  pChar,      \* the client whose characteristic pRemoteCharacteristic is
  pClient,    \* connectToServer()'s client
  found,      \* onResult()'s argument
  scanning,   \* a scan runs; start() returns when it does not
  link,       \* each client's link: "none", "up", "lost" (its onDisconnect() is
              \* still to be called) or "down"
  peer,       \* the server each client was connected to
  advertising \* the servers that can be heard

flags  == << doConnect, connected, doScan >>
device == << myDevice, found, at >>
radio  == << link, peer, advertising >>

vars == << pc, flags, device, pChar, pClient, scanning, radio >>

Init ==
  /\ pc = "setup"
  /\ at = "idle"
  /\ doConnect = FALSE /\ connected = FALSE /\ doScan = FALSE
  /\ myDevice = Null /\ found = Null
  /\ pChar = Null /\ pClient = Null
  /\ scanning = FALSE
  /\ link = [c \in Clients |-> "none"]
  /\ peer = [c \in Clients |-> Null]
  /\ advertising \in SUBSET Servers

-----------------------------------------------------------------------------
(* The Arduino task                                                        *)

\* start(5): setup() waits for the scan to end.
Setup ==
  /\ pc = "setup"
  /\ scanning' = TRUE
  /\ pc' = "setupScan"
  /\ UNCHANGED << flags, device, pChar, pClient, radio >>

\* start() returns.
ScanEnded ==
  /\ ~scanning
  /\ \/ pc = "setupScan" /\ pc' = "loop"
     \/ pc = "loopScan" /\ pc' = "delay"
  /\ UNCHANGED << flags, device, pChar, pClient, scanning, radio >>

LoopStart ==
  /\ pc = "loop"
  /\ pc' = IF doConnect THEN "createClient" ELSE "update"
  /\ UNCHANGED << flags, device, pChar, pClient, scanning, radio >>

\* An object that is neither connected nor waited for, nor pointed to.
CreateClient ==
  /\ pc = "createClient"
  /\ \E c \in Clients \ {pChar, pClient} :
       /\ link[c] \in {"none", "down"}
       /\ pClient' = c
       /\ link' = [link EXCEPT ![c] = "none"]
       /\ peer' = [peer EXCEPT ![c] = Null]
  /\ pc' = "connect"
  /\ UNCHANGED << flags, device, pChar, scanning, advertising >>

\* connect() and setMTU(), whose results nobody looks at.
Connect ==
  /\ pc = "connect"
  /\ \/ /\ myDevice \in advertising
        /\ link' = [link EXCEPT ![pClient] = "up"]
        /\ peer' = [peer EXCEPT ![pClient] = myDevice]
        /\ advertising' = advertising \ {myDevice}
     \/ UNCHANGED radio
  /\ pc' = "getService"
  /\ UNCHANGED << flags, device, pChar, pClient, scanning >>

\* connectToServer() calls disconnect() and returns false.
GiveUp ==
  /\ link' = IF link[pClient] = "up" THEN [link EXCEPT ![pClient] = "lost"] ELSE link
  /\ pc' = "handled"

GetService ==
  /\ pc = "getService"
  /\ \/ /\ link[pClient] = "up"
        /\ pc' = "getCharacteristic"
        /\ UNCHANGED link
     \/ GiveUp
  /\ UNCHANGED << flags, device, pChar, pClient, scanning, peer, advertising >>

\* MUTANT: the null pointer is not looked for.
GetCharacteristicUnchecked ==
  /\ pc = "getCharacteristic"
  /\ pChar' \in IF link[pClient] = "up" THEN {pClient, Null} ELSE {Null}
  /\ pc' = "register"
  /\ UNCHANGED << flags, device, pClient, scanning, radio >>

GetCharacteristic ==
  /\ pc = "getCharacteristic"
  /\ \/ /\ link[pClient] = "up"
        /\ pChar' = pClient
        /\ pc' = "register"
        /\ UNCHANGED link
     \/ pChar' = Null /\ GiveUp
  /\ UNCHANGED << flags, device, pClient, scanning, peer, advertising >>

\* readValue() and registerForNotify(); then the flag, whatever the link is now.
Register ==
  /\ pc = "register"
  /\ connected' = TRUE
  /\ pc' = "handled"
  /\ UNCHANGED << doConnect, doScan, device, pChar, pClient, scanning, radio >>

ClearDoConnect ==
  /\ pc = "handled"
  /\ doConnect' = FALSE
  /\ pc' = "update"
  /\ UNCHANGED << connected, doScan, device, pChar, pClient, scanning, radio >>

UpdateConnected ==
  /\ pc = "update"
  /\ connected
  /\ pc' = "writeValue"
  /\ UNCHANGED << flags, device, pChar, pClient, scanning, radio >>

\* MUTANT: a start() that does not wait.
UpdateScanAsync ==
  /\ pc = "update"
  /\ ~connected /\ doScan
  /\ scanning' = TRUE
  /\ pc' = "delay"
  /\ UNCHANGED << flags, device, pChar, pClient, radio >>

\* start(0): loop() waits until onResult() stops the scan.
UpdateScan ==
  /\ pc = "update"
  /\ ~connected /\ doScan
  /\ scanning' = TRUE
  /\ pc' = "loopScan"
  /\ UNCHANGED << flags, device, pChar, pClient, radio >>

UpdateIdle ==
  /\ pc = "update"
  /\ ~connected /\ ~doScan
  /\ pc' = "delay"
  /\ UNCHANGED << flags, device, pChar, pClient, scanning, radio >>

WriteValue ==
  /\ pc = "writeValue"
  /\ pc' = "delay"
  /\ UNCHANGED << flags, device, pChar, pClient, scanning, radio >>

\* delay(1000): by then an onResult() that had begun is over.
Delay ==
  /\ pc = "delay"
  /\ at = "idle"
  /\ pc' = "loop"
  /\ UNCHANGED << flags, device, pChar, pClient, scanning, radio >>

ArduinoTask ==
  \/ Setup \/ ScanEnded \/ LoopStart \/ CreateClient \/ Connect \/ GetService
  \/ GetCharacteristic \/ Register \/ ClearDoConnect
  \/ UpdateConnected \/ UpdateScan \/ UpdateIdle \/ WriteValue \/ Delay

-----------------------------------------------------------------------------
(* The Bluetooth task                                                      *)

\* MUTANT: the scan is not stopped.
OnResultNoStop ==
  /\ at = "idle"
  /\ scanning
  /\ \E s \in advertising : found' = s
  /\ at' = "myDevice"
  /\ UNCHANGED << pc, flags, myDevice, pChar, pClient, scanning, radio >>

\* onResult() of a server that has the service: stop().
OnResult ==
  /\ at = "idle"
  /\ scanning
  /\ \E s \in advertising : found' = s
  /\ scanning' = FALSE
  /\ at' = "myDevice"
  /\ UNCHANGED << pc, flags, myDevice, pChar, pClient, radio >>

SetMyDevice ==
  /\ at = "myDevice"
  /\ myDevice' = found
  /\ at' = "doConnect"
  /\ UNCHANGED << pc, flags, found, pChar, pClient, scanning, radio >>

SetDoConnect ==
  /\ at = "doConnect"
  /\ doConnect' = TRUE
  /\ at' = "doScan"
  /\ UNCHANGED << pc, connected, doScan, myDevice, found, pChar, pClient,
                  scanning, radio >>

SetDoScan ==
  /\ at = "doScan"
  /\ doScan' = TRUE
  /\ at' = "idle"
  /\ UNCHANGED << pc, doConnect, connected, myDevice, found, pChar, pClient,
                  scanning, radio >>

\* onDisconnect() does not say whose link it was about.
OnDisconnect ==
  /\ at = "idle"
  /\ \E c \in Clients : link[c] = "lost" /\ link' = [link EXCEPT ![c] = "down"]
  /\ connected' = FALSE
  /\ UNCHANGED << pc, doConnect, doScan, device, pChar, pClient, scanning,
                  peer, advertising >>

Callbacks == SetMyDevice \/ SetDoConnect \/ SetDoScan \/ OnDisconnect

-----------------------------------------------------------------------------
(* The surroundings                                                        *)

\* The five seconds of setup()'s scan are over.
ScanTimeout ==
  /\ pc = "setupScan"
  /\ scanning
  /\ scanning' = FALSE
  /\ UNCHANGED << pc, flags, device, pChar, pClient, radio >>

LinkLost ==
  /\ \E c \in Clients : link[c] = "up" /\ link' = [link EXCEPT ![c] = "lost"]
  /\ UNCHANGED << pc, flags, device, pChar, pClient, scanning, peer, advertising >>

\* A server without a client starts to advertise, or one goes away.
Advertise ==
  /\ \E s \in Servers \ advertising :
       /\ \A c \in Clients : ~(link[c] = "up" /\ peer[c] = s)
       /\ advertising' = advertising \cup {s}
  /\ UNCHANGED << pc, flags, device, pChar, pClient, scanning, link, peer >>

Leave ==
  /\ \E s \in advertising : advertising' = advertising \ {s}
  /\ UNCHANGED << pc, flags, device, pChar, pClient, scanning, link, peer >>

Surroundings == ScanTimeout \/ LinkLost \/ Advertise \/ Leave

Next == ArduinoTask \/ OnResult \/ Callbacks \/ Surroundings

Spec == Init /\ [][Next]_vars

-----------------------------------------------------------------------------
(* Properties                                                              *)

Places == { "setup", "setupScan", "loop", "createClient", "connect", "getService",
            "getCharacteristic", "register", "handled", "update", "writeValue",
            "loopScan", "delay" }

Attempting == { "connect", "getService", "getCharacteristic", "register" }

\* Every variable has a value of its type, and a scan runs only while the Arduino
\* task waits in start() for its end.
TypeOK ==
  /\ pc \in Places
  /\ at \in {"idle", "myDevice", "doConnect", "doScan"}
  /\ doConnect \in BOOLEAN /\ connected \in BOOLEAN /\ doScan \in BOOLEAN
  /\ myDevice \in Servers \cup {Null} /\ found \in Servers \cup {Null}
  /\ pChar \in Clients \cup {Null} /\ pClient \in Clients \cup {Null}
  /\ scanning \in BOOLEAN
  /\ scanning => pc \in {"setupScan", "loopScan"}
  /\ link \in [Clients -> {"none", "up", "lost", "down"}]
  /\ peer \in [Clients -> Servers \cup {Null}]
  /\ advertising \subseteq Servers

\* Neither task uses a pointer before the other one has set it: an attempt has
\* a device, and a write a characteristic.
NoNullPointer ==
  /\ pc \in Attempting \cup {"createClient"} => myDevice # Null
  /\ pc \in Attempting => pClient # Null
  /\ connected \/ pc = "writeValue" => pChar # Null

\* What is written goes to the client of the last attempt, not to one of the
\* older clients that are never deleted.
WritesToLast == connected \/ pc = "writeValue" => pChar = pClient

\* doConnect = false after an attempt cannot wipe out a later discovery: until
\* then no scan runs and no callback is about to set the flag.
NoDiscoveryWiped ==
  pc \in Attempting \cup {"createClient", "handled"} =>
    ~scanning /\ at \in {"idle", "doScan"}

\* An attempt is made with the device found last.
FreshDevice == pc \in Attempting => myDevice = found

\* The order that keeps the two tasks apart.  The Bluetooth task fills in a
\* discovery only while nobody is connected or attempts to be, and after the
\* first scan only while loop() waits for it; the discovery is complete when
\* doConnect shows it; and nobody is connected while a discovery is pending.
Discovering == at \in {"myDevice", "doConnect"}

HandOver ==
  /\ at # "idle" => ~scanning /\ found # Null
  /\ at # "idle" /\ doScan => pc \in {"loopScan", "delay"}
  /\ at # "myDevice" => myDevice = found
  /\ Discovering => ~connected
  /\ Discovering /\ doConnect => pc \in {"loopScan", "delay"}
  /\ pc = "setup" \/ (pc = "setupScan" /\ scanning) =>
       at = "idle" /\ ~doConnect /\ ~doScan /\ ~connected
  /\ doConnect => myDevice # Null /\ (connected => pc = "handled")
  /\ scanning \/ pc \in Attempting \cup {"createClient"} => ~connected
  /\ pc = "register" => pChar = pClient

-----------------------------------------------------------------------------
(* Progress.  Both tasks run on, and a scan that goes on for ever hears a  *)
(* server that comes back again and again.                                 *)

FairSpec ==
  /\ Spec
  /\ WF_vars(ArduinoTask)
  /\ WF_vars(Callbacks)
  /\ WF_vars(ScanTimeout)
  /\ SF_vars(OnResult)

\* Once a server was found, a client that knows that it is not connected tries
\* again, as long as servers keep coming.
TriesAgain ==
  []<>(advertising # {}) =>
    (doScan /\ ~connected ~> (connected \/ pc = "createClient"))

-----------------------------------------------------------------------------
(* What the source says of itself and its steps do not keep                *)

\* Line 152, "start scan after disconnect": a client whose link is gone does not
\* go on believing that it is connected.
NoticesLoss ==
  pc = "writeValue" /\ link[pClient] # "up" ~> ~connected

=============================================================================
