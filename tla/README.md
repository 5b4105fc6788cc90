# ESP32 automation: specifications, model checking and proofs

The repository holds Arduino sketches for ESP32 boards: switches commanded over
MQTT or HTTP, their provisioning over an access point, over Bluetooth or over
MQTT, and a Bluetooth LE client and server.  This directory holds TLA+ modules
for the sketches whose behaviour is hard to test, TLC configurations that check
them, and proofs that TLAPS checks.  Paths below are relative to `src/`; a
sketch `x` is the file `x/x.ino`.

## 1. The system

Each sketch is a program of its own.  A board runs one at a time, but boards are
flashed with one after the other, and flash memory stays.

| component | state | operations | who it talks to | what is hard |
|---|---|---|---|---|
| `ap_wifi_plus_mqtt_connection_after_config` | the `config` namespace in flash, its copy in RAM, station, access point, MQTT session, pin | provision over HTTP or MQTT, command over MQTT, button reset | network, broker, HTTP clients, button | updates from two sides saved key by key, power failures, 20 attempts against a 20 s timeout, a session that breaks between two calls |
| `esp32_wifi_server_with_mqtt_remote_on_off` | the same, and whether the `Preferences` object is open | HTTP information, read-back and update; button reset to defaults | the same | one object opened once and closed by two other handlers |
| `esp32_hotspot_mqtt_remote_on_off` (from line 509; the rest is commented out) | the same, without a refusal or a reply of its own for updates | switch over MQTT and HTTP, update over MQTT, button | the same | two writers of one pin, `loop()` that waits for the broker first |
| `SerialToSerialBT_Client` | three flags, two pointers, a BLE client per attempt | scan, connect, write once a second, notice a disconnection | BLE servers; two tasks of the board | two tasks over shared globals without a lock |
| `mqtt_remote_on_off_with_config_from_blth_or_mqtt`, `mqtt_remote_on_off_with_config`, `remote_on_off_with_config_from_blth` | configuration in flash and RAM, session, pin | update over Bluetooth serial or MQTT, command over MQTT | network, broker, a serial client | partial documents, waits without an end before the serial client is looked at, retained messages |
| `clear_preference_and_wifi_credentials` | the `config` and `dev_N` namespaces | clear, then store empty texts | the sketch flashed next | keys shared by sketches that name them differently |
| `mqtt_remote_on_off`, `mqtt_connection_with_username_and_password` | session, pin | command; publish a constant | network, broker | the wait for the broker |
| `SerialToSerialBT`, `connect_es32_with_bluetooth` | none that lasts | print what is written; copy bytes | a BLE or serial client | nothing |
| `toggle_on_off_with_delay` | all of it is commented out | | | |
| `libraries/PubSubClient` | socket, state, keep-alive timers, one buffer | connect, loop, publish, subscribe, disconnect | broker; the sketch's callback | packets in parts, a ping's answer behind other packets, a callback that writes over its own argument, a peer that goes silent |
| other `libraries/` | vendored; of these only ArduinoJson is used | | the sketches | |

What makes each correct: flash changes only from one whole configuration to
another whole one, and to the one that was asked for; what a client was told
matches flash; RAM matches flash whenever the board serves; the session and the
radio use the stored configuration; the published state of the pin is the
pin's; no wait leaves a person without a way in; the two Bluetooth tasks never
act on each other's half-done work; the MQTT client hands over messages in order
and closes a connection when it is dead and only then.

The hazards, each at its line, are in `PROJECT.json`, with the properties that
cover them, or a note why none does yet.

## 2. The modules

| module | what it models |
|---|---|
| `DeviceConfig` | data: keys, the order of saving, what loading, fitting into the buffers, and reading a JSON member yield |
| `ConfigStore` | abstract: what a provisioning sketch promises about its store |
| `ApWifiMqtt` | `ap_wifi_plus_mqtt_connection_after_config` |
| `WifiServerMqtt` | `esp32_wifi_server_with_mqtt_remote_on_off` |
| `HotspotMqtt` | `esp32_hotspot_mqtt_remote_on_off` |
| `RemoteOnOff` | the four switches without a web server and the clearing sketch, flashed one after the other over one namespace |
| `BleClient` | `SerialToSerialBT_Client` |
| `MqttSession` | abstract: what a sketch relies on when an MQTT session is open |
| `PubSubClient` | `libraries/PubSubClient/src/PubSubClient.cpp`, the MQTT client of all these sketches |
| `MC...` | the constants of the small instances |
| `...Proofs`, `DeviceConfigTheorems` | theorems and proofs |

`ApWifiMqtt`, `WifiServerMqtt` and `HotspotMqtt` extend `DeviceConfig` and each
implements `ConfigStore`.  `PubSubClient` implements `MqttSession`.  The sketch
modules know the MQTT client by the effects that `MqttSession` and the
properties of `PubSubClient` describe: messages come one per `loop()`, in order,
and a session may end at any time (`SessionDrop`), for a good reason or not.

**The three WiFi sketches** are one thread each, and `pc` is the place in it.  A
step is what happens between two points where something outside can matter: a
read of the station's status, of the session, of the button; a call into the
network; one write to flash.  `Thread` is the sketch, `Connect` the success of
`mqttClient.connect()` (a failure delays and changes nothing, so it is a
stuttering step), `Surroundings` what goes on around it between any two steps:
`StaUp`, `StaDown`, `SessionDrop`, `Deliver`, `HttpRequest`, `HttpGiveUp`,
`Press`, `Release`, `PowerLoss`.  A save is one `SaveKey` per `putString()` or
`putInt()`, so that power can fail between two of them.  `Reboot` is
`ESP.restart()` and, with the same effect, the panic that follows a read through
a null pointer: `strncpy()` from a JSON member that is there but is no text.

A document maps keys to values; a key that it does not have is not in its
domain, and `Bad` stands for a value of another type (a port then reads as 0).
`Cut` says what is left of a text in its buffer, so one string of the instances
is longer than a buffer.  The port is an `int` in RAM and flash and 16 bits in
the MQTT client: `% PortLimit`.

History variables (`committed`, `asked`, `promised`; `told` and `kept` in
`WifiServerMqtt`; `settled`, `cleared` and `wiped` in
`RemoteOnOff`; `handing`, `acked` and
`lapse` in `PubSubClient`) record what outside observers may rely on.  No guard
of the code reads them.

`WifiServerMqtt` has `open`: whether the `Preferences` object is.  A write while
it is closed does nothing and a read yields its default, which is how the
library answers.  `begin("mqtt", true)` on an open object is refused and leaves
it open on `config`; on a closed one it fails, for nobody ever creates that
namespace.  `HotspotMqtt` has the same structure with a pin that
`MqttCommand` and `HttpAction` both switch; `Publish` is a step of its own, since
the session can be gone by then.

**`RemoteOnOff`** has a variable `sketch`: which of five programs is on the
board.  The four switches share their actions and differ in `HasSerial` (is there
Bluetooth serial), `Topics` (what they subscribe to), `LoadOf` (a text too long
for its global is left out by one, copied without its terminator by the others,
and then reads on into what lies behind: `Overrun`), `Written` (what
`saveConfig()` leaves under a key that the document does not name) and what they
make of an unknown action.  `Flash` puts another program on the board and leaves
the `config` namespace as it is; `clear` writes two of its keys under other names
(`SaveOrder`), after `Clear` or, when `preferences.clear()` fails, which it prints
and takes no notice of, after `ClearFails`.  `retained` is the document that the
broker keeps, which `Connect` delivers after every restart.  Line numbers in `map`
are of the sketch in which the code is easiest to see; the others have the same
code.

**`BleClient`** has two tasks: `pc` is the Arduino task's place, `at` the
Bluetooth task's place in `onResult()`, whose three assignments are three steps.
`link` is one link per client object, as every attempt makes an object and none
is deleted; an object of which nothing is left to happen is used again, which
bounds them.  `onDisconnect()` does not say which client it is about, so
`OnDisconnect` clears `connected` for any of them.

**`PubSubClient`** is sequential, and its network is not.  `pc` is `idle`
between two calls, otherwise the place where a call waits for the network
(`connack`, `read`) or runs the callback (`callback`, `ack`).  Time is counted in
`Tick`s, and the client's timestamps are kept as ages that stop growing beyond
every limit.  Packets go from `wire` (sent) to `rx` (arrived); `torn` is a packet
of which only a part has arrived.  `readByte()` gives up after `SocketTimeout`
in the middle of a packet and leaves the connection open: from then on `framed`
is FALSE, what is on its way is counted in pieces of two bytes, the shortest packet
that `readPacket()` returns (`Bytes`; `Pieces` of them make the longest packet),
and what the client reads is any packet over one piece or more, until `Stop`
closes the socket.  An open connection delivers what was sent before time
passes (`Tick`), unless it is `stalled`.

**`ConfigStore`** knows no key-by-key writes: `Ask`, `Commit` in one step,
`Promise`, `Finish`, `Erase`, and `Outage`, which may leave a mixture only while
an update is under way.  The sketches implement it under the refinement mapping
`Stored == IF pc = "saveConfiguration" THEN committed ELSE nvs`: a save
takes effect with its last key.

**`MqttSession`** knows no packets, no time and no calls: `Send` puts a message
at the end of a queue, `Hand` gives the first one to the callback or leaves it
out if it is larger than the buffer, `Done` acknowledges it, `CutOff` loses a
tail of the queue, `Open` and `Close` start afresh.  The queue has an entry for
every packet, `NoMessage` for one that is none of the sketch's concern, so that
packet by packet (`Concern`) what has arrived and what is on its way is the queue
(`SessionQueue`).  The mapping takes the session to be open while the client is
connected and has not lost its place in the stream; what a client reads after
that, nobody can promise.

Assumed of what is not in `src/`: one NVS `put` is atomic, and so is one
`clear`, which either empties the namespace or fails and leaves it as it is; a
read through address 0 panics and the board restarts; a callback of the
Bluetooth task is over within `loop()`'s `delay(1000)`; `putString()` of a null
pointer writes nothing; TCP delivers bytes in order or breaks.

## 3. What TLC checks

Every property of a passing run also has a mutant, a plausible error in the
code's model that breaks it (`PROJECT.json`, "mutants"; in the modules each
mutant stands before the definition that it changes).

| run | shows |
|---|---|
| `ap_safety` | types and counters; RAM and flash, session and configuration, subscriptions, the published state and the pin agree; a board without credentials has its access point (`WayIn`), and the wait for the network does not strand it (`NeverStranded`) |
| `ap_store` | with a power failure at any step, a promise to a client is kept (`PromiseKept`), a save is key by key what was asked for (`UpdateInv`), and the sketch implements `ConfigStore`; a promised configuration is what the board then loads and gives to its radio (`PromiseApplied`); with a calm network HTTP requests and the button are served |
| `ws` | RAM, flash, session and radio agree, whoever closes `preferences`; without power failures, a network name and a password for it that nobody gave together are never put together; with them, what gets written at all gets written as `ConfigStore` says; an update that was written is loaded |
| `hs` | two writers of the pin do not make the published state wrong; a save is for the update that asked for it; with a power failure, the sketch implements `ConfigStore` (it promises nobody anything); HTTP is served if the stored configuration is usable and the network calm |
| `ble` | no null pointer is used, no discovery is wiped out; a client that knows it is not connected tries again |
| `mqtt` | the socket is open between two calls just when the client is connected (`SocketFollowsState`); the client implements `MqttSession`; a connection that works is not given up (`NoFalseTimeout`); one that has gone silent is (`HungNoticed`), also if the client has lost its place in the stream |
| `remote` | whatever was flashed before and wherever power fails: what a document names is in force after the restart (`TakenInForce`), a text that it does not name is not touched (`UnnamedKept`), a retained document changes nothing the second time (`RetainedSettles`), clearing, unless `clear()` fails, leaves nothing under any key that any sketch reads (`NothingOldAfterClear`); a Bluetooth line is taken while the configuration works (`SerialTaken`) |

### Disagreements found

Each is a run that must be violated, of what a line of the source says.

| run | what the source says | what happens |
|---|---|---|
| `ws_updated` | "Configuration updated. Rebooting..." | `GET /current_config` and `reconnectMQTT()` close `preferences`; later updates (and resets) are lost and confirmed |
| `ws_reconnect` | "Retrieve MQTT credentials from preferences" | the second connection of one run uses empty credentials |
| `ble_notices_loss` | "start scan after disconnect" | a link lost during `connectToServer()`, whose callback comes before `connected = true`, is never noticed |
| `mqtt_backlog` | "keeps a connection alive that only receives qos0" | with calls of `loop()` 5 s apart and a keep-alive of 15 s, the answer to a ping behind three packets is read too late, and a connection that works is closed |
| `remote_corrected` | "Handle Bluetooth configuration update" | a wrong network name keeps `setup()` waiting for ever, and Bluetooth, over which it could be corrected, is read in `loop()` only |

Read off the modules, without a run: in `ApWifiMqtt` a station that connects during
the twentieth delay gets the access point too (`WifiAttempt`), and a client whose
text was cut is told the same as any other (`Fitted`); in `HotspotMqtt` without a
broker neither HTTP nor the button is served, for which the access point of that
sketch is no help (why `HttpAnswered` has a premise), and an unknown action is
answered "success" (`HttpSend`); in `BleClient` a failed attempt is followed by
another, although the message says that nothing more is done; in `RemoteOnOff`
two of the switches store port 0 over the one that worked when a document does
not name a port (`Written`), one takes every action but `ON` for `OFF`
(`MqttCommand`), and its status is a retained message that outlives a restart.

### Bounds

- `TimeoutTicks` and `MaxAttempts` are at most 4 and 3 instead of 40 and 20: only
  which of the two limits comes first matters, and delays of one or two ticks
  (`DelayTicks`) let either.
- `MaxInbox` is 1: `loop()` reads one message per round, and a message is out of
  the inbox before its handler runs, so the next one can already wait there
  while a save or a restart is under way, and is lost with it.
- `MaxOutages` is 1 where what is in flash is the question, 0 in the other runs:
  after a failure the board starts from a mixture of two
  configurations, and a second failure starts from a store of the same kind.
- Strings: one empty, two ordinary, one too long and what is left of it.  Ports:
  0, 1883, and 67419, which 16 bits turn into 1883 (in `remote`: 0 and those of
  two brokers).
- Documents and messages: one per branch of the handlers (no body, not JSON,
  refused, complete, partial, too long, a member of the wrong type).  `ap_store`
  has the ones that get past the refusals only, which `ap_safety` has all of.
- Initial stores: empty, provisioned for the network, provisioned with a port
  that does not fit; in `hs` the provisioned one alone, which a half-finished
  save turns into others.  A mixture is reached by a power failure.
- `BleClient`: 2 servers and 3 client objects: one current, one older whose
  `onDisconnect()` is still to come, and one being made.
- `mqtt`: a `KeepAlive` of 3 calls of `loop()` (15 s and `delay(5000)` in the
  sketches that have the delay), one `Tick` of `SocketTimeout`, message ids
  counted modulo 3, which wraps round at once, and at most `MaxQueue` = 2 packets
  (or pieces, when the place is lost) on their way when another is sent, two
  pieces in a packet (`Pieces`): one would not let a packet be read as several.  A
  `MaxQueue` of 2 is as much as the keep-alive allows: `mqtt_backlog` is the same
  instance with 3, and `AnswersAreInTime` (below) proves that `(MaxQueue + 1) *
  LoopPeriod <= KeepAlive` is always enough.
- `remote`: two documents (one moves to another broker; one has a wrong network, a
  value of the wrong type and a text that is too long), two flashes after the
  first, which is what "a switch, the clearing sketch, another switch" takes, and
  one outage.  `CHECK_DEADLOCK FALSE`, because the clearing sketch, once it is
  done, has nothing left to do.

### Fairness

`WF_vars(Thread)`: a board that has power runs its thread; a step of it is
always finite.  That is all that the applied updates need.
`Thread` is without `Connect`: the code cannot make a broker accept.  Service
behind `reconnectMQTT()` therefore holds under `Calm`, a premise of the
property and not part of the specification: from some time on the station and
the session do not drop, and a network and a broker that could let the board in
do.  `ResetHonoured` also needs configurations to stop coming, because each
restarts the board before its `loop()` reaches the button; `SerialTaken` needs a
configuration that works, which is the hypothesis that `remote_corrected` drops.
In `BleClient` both tasks run (`WF` of the Arduino task and of the callbacks), the
scan's timer fires, and a scan that never stops hears a server that comes back
again and again (`SF` of `OnResult`).  In `PubSubClient` a call that is under way
goes on (`WF` of `InCall`), every sketch calls `loop()` in each round of its own
(`WF` of `LoopCall`), and time passes: `SF` of `Tick`, since packets that keep
arriving disable it now and then but do not stop the clock.

## 4. What is proved

TLAPS proves, for all values of the constants that satisfy the `ASSUME`s of the
modules, what `PROJECT.json` lists under "theorems".  Each argument is an inductive
invariant; the property as it stands seldom is one, and what is added says why
it holds.  Every invariant, action property and refinement that a passing run
checks is stated by a theorem there.

- **`ApWifiMqttProofs`.**  `TypeCorrect`: `TypeOK` says at which places the loop
  counters are below their limits, and so is inductive.  `UpdatesAreOrderly`:
  in a save, RAM is the fitted request, flash has the new values up to `saved` and
  those of `committed` behind it, and no promise is outstanding (`UpdateInv`).
  From it `ImplementsConfigStore`: `SaveKey` stutters but for the last key, which
  is `Commit`; a `PowerLoss` in a save is an `Outage` with the mixture.
  `PromisesAreKept`: a promise is of the update in progress as long as there is one.
  `RamFollowsFlash` and `SessionsUseFlash`: RAM follows flash from the load to the
  update or restart, and a session exists only behind `setup()` (`ServingInv`).
  `SessionsAreSubscribed` and `ReportsAreTrue`: between the two `subscribe()`s one
  topic is there, between switching and publishing it is the answer that is right
  (`TalkInv`).  `ThereIsAWayIn` and `NobodyIsStranded`: what the radio does from the
  load on (`WayInv`).  `PromisesAreUsed` joins these: where `loop()` works, RAM is
  the load of a flash that holds the promise, and the radio was started with RAM.
- **`HotspotMqttProofs`.**  `TypeCorrect`, `ReportsAreTrue`, `SavesAreOrderly` and
  `ImplementsConfigStore`, along the same lines.  `FlashIsInForce`: RAM and radio
  follow flash from the load on (`FlashIsUsed`), and the session was accepted for
  that login and gains its subscriptions one by one (`SessionInv`).
  `ClientsAreAnswered`: `serving` is TRUE only between an HTTP action and its
  reply, so the publish in between cannot send the reply to somebody else.
- **`WifiServerMqttProofs`.**  `SessionsUseFlash`: a login that was read from a
  closed object has no server, so no session comes of it (`LoginInv`; assumed is
  that no broker has an empty address).  `NetworksAreExclusive`: `NetworkInv`.
  `ImplementsConfigStore`: with the object closed, a save leaves flash alone and
  the mapped store does not move (`UpdateInv`).  `PairsAreTogether`: a document's
  `ssid` and `password` are taken together or not at all, and a save that no power
  failure cuts short stores both or neither (`PairsInv`); the user and the
  password for the broker are taken one by one, so nothing like it holds of them.
  `TypeCorrect`, `RamFollowsFlash`.  `WrittenUpdatesLast`: that a confirmed and
  written update stays in flash is proved of `ConfigStore`, and the refinement
  carries it over (`StoreSteps`, `PromisesHold`); with `LoginInv` it is then also
  in RAM.  `ClosedForGood`: whoever has a session, or is about to, has closed
  `preferences` (`OpenInv`); only a boot opens them, so until then flash stays as
  it is, and the next connection is attempted without a login and for ever.
- **`RemoteOnOffProofs`.**  One invariant of four parts: the keys written so far
  have their values (`SaveInv`), what the sketch that falls back on RAM falls back
  on is what is stored (`LoadedInv`), the settled document is still what is stored
  (`SettledInv`), and clearing, if it could clear, goes key by key (`CleanInv`).
  From it `UpdatesTake`, `RetainedDocumentSettles`, `NothingOldIsLeft`;
  `UnnamedTextsKept` because a key that is written without being named gets back
  what would be loaded anyway. `WrongConfigurationLocksOut`: outside of an update
  RAM is what is stored (`BootInv`); with a stored network or broker that does not
  let it in, a board is `LockedOut` from its start, and every step of the same
  sketch leaves it so, with flash unchanged and the Bluetooth line unread.
- **`PubSubClientProofs`.**  `SocketInStep`: what the socket is in the middle of
  `connect()`, on each of its ways out (`SocketInv`).  `AnswersAreInTime`: while a
  ping is outstanding its answer is packet i of those that wait, and the ages leave
  room for the i calls that it takes (`PingInv`), given that a connection that is
  up lets no call wait (`NoWait`).  `TypeCorrect`.  `ImplementsMqttSession`: the
  callback has a message just while it runs or its acknowledgement is due, and
  `loop()` still has that message's id, although the buffer has been written over
  (`HandInv`); reading a packet takes the first of the queue, arriving moves one
  between two parts of it, a broken connection cuts it off.
  `SilenceIsNoticedInTime`: a measure of what a hung connection has left, `Unread`
  (packets; pieces of two bytes once the place is lost, since each may be read as a
  packet that moves `lastInActivity`) and then `Patience`, is bounded and never
  grows, and a tick makes it smaller.  Losing the place needs a timeout with nothing
  left to read, so that a long packet does not turn into many pieces on the way.
- **`BleClientProofs`.**  `HandOver`, the order that keeps the two tasks apart, is
  inductive with the types (`InOrder`, `TypeCorrect`); from it `NoNullPointerUsed`,
  that writes go to the last client (`WritesGoToLast`), and that no discovery is
  lost or half done (`DiscoveriesCount`).  `LaterLossesAreReported`: a client
  begins to believe in a dead link with `connected = true` in `connectToServer()`
  and with no other step, and a loss while it is connected waits for
  `onDisconnect()`: `ble_notices_loss` shows the one case there is.
- **`ConfigStoreProofs`.**  The abstract store keeps its promises.
  **`DeviceConfigTheorems`.**  Lemmas: a configuration that fits comes back
  unchanged from a save and a load; fitting twice is fitting once; and the like.

**The safety in the liveness properties.**  What happens eventually is out of the
prover's reach; that nothing stands in its way but the scheduling is not, and is
proved.  `RoundsAreBounded`, for each of the three WiFi sketches: `Left`, the steps
that remain to the end of `setup()` or of a round of `loop()`, has a bound, every
step of the thread makes it smaller, and nothing around the thread makes it
larger.  The exception is part of the statement: a session that is lost before
`loop()` has it ready sends the thread back to `reconnectMQTT()`, and as long as
no broker lets the board in, nothing is said; hence the `Calm` of `HttpAnswered`
and `ResetHonoured`.  `PromisesAreUsed` and `WrittenUpdatesLast` are, in the same
way, what `PromiseApplied` and `UpdateApplied` need besides the thread's getting to
`loop()`; `SilenceIsNoticedInTime` is what `HungNoticed` needs besides the clock.

**Findings, for all constants.**  A run that is violated shows one case.
`ClosedForGood` (about two of them), `WrongConfigurationLocksOut` and
`LaterLossesAreReported` say how far a finding reaches, and `AnswersAreInTime` when
the fifth, `mqtt_backlog`, cannot happen.

Only model-checked: the properties under fairness themselves (`PromiseApplied`,
`HttpAnswered`, `ResetHonoured`, `UpdateApplied`, `TriesAgain`, `HungNoticed`,
`SerialTaken`).  They need `ENABLED` of the fair actions, or a well-founded
induction over the measures above, and the prover has neither.  `TriesAgain` and
`SerialTaken` have no theorem of their safety part either.

## 5. Not modelled

- **Vendored libraries** other than PubSubClient.  They are nearly all of the
  lines in this repository (Ethernet controllers' drivers, web and socket servers
  for boards that no sketch is for, other MQTT clients, clocks), and no sketch
  includes them: there is no use in `src/` that would say which of their calls
  come in which order.  The map's share of all lines therefore stays small; of
  the sketches, which are the program, and of the library behind them it names
  every handler.  ArduinoJson is a parser without state of its own; what
  reading a missing or ill-typed member yields is in `DeviceConfig`.
- **Of PubSubClient**: `publish_P()`, `beginPublish()` and the `Stream` variants, which
  no sketch calls, and the layout of packets.
- **Of the sketches**: logging, the texts of answers, document sizes (one that is too
  large for its buffer is one that does not parse); what the switches of
  `RemoteOnOff` publish, which changes nothing on the board (the one hazard there,
  a retained status, has no line of the source that promises better); the `dev_N`
  namespaces that the clearing sketch empties and nobody reads; the heap that
  `SerialToSerialBT_Client` uses up with each attempt (no line says how much there
  is).
- **Sketches without state of their own** (`connect_es32_with_bluetooth`,
  `SerialToSerialBT`, `mqtt_connection_with_username_and_password`: a wait for the
  broker and a constant every 10 s) or without code (`toggle_on_off_with_delay`).
- `BleClient` says nothing about a first scan that finds nobody in its 5 s, after
  which `doScan` is never set: no line says what should happen then.

The plan of this project is done.  What could be added: the pages of the web server
as `MqttSession`-like promises to HTTP clients, and the composition of a sketch
with `PubSubClient` step by step, for which the instances are too large and the
refinement above stands in.
