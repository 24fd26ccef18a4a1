# GPS tracker: a TLA+ model of the firmware

An ESP32 with a u-blox GPS receiver (the *sender*) transmits its position over
LoRa once a second. A second ESP32 (the *receiver*) publishes what it receives
as six Bluetooth LE characteristics, and a phone app shows it on a map. Both run
the same firmware; `RECEIVER` in `main/main.cpp:37` chooses the role. Both can be
updated over WiFi. This directory models the firmware, the Bluetooth library it
brings along and the phone app where tasks, events, the radio, the serial line
and the network interleave. TLC checks the models on small instances, TLAPS
proves the most important properties for all values of their constants.

Paths below are relative to `src/`; `ble/` stands for
`components/ESP32_BLE_Arduino/src/`. `PROJECT.json` maps every definition to the
lines it models.

## 1. The system

| Part | Source | State it keeps | Operations |
|------|--------|----------------|------------|
| GPS parser | `main/gps.c` | `GpsState`, `NumValidHdrBytes`, `PktReceivedBytes`, the shared `NavPvt` | `gps_stateMachine` |
| GPS configuration | `main/gps.c`, `main/cct.c` | baud rate, detection counters; the receiver keeps what it obeyed and what it saved | `gps_config`, `ubx_detectNMEA`, `ubx_detectUBX`, `cct_elapsedUs` |
| Sender loop | `main/main.cpp` 196-213 | `packet` | copy `NavPvt`, `lora_send_packet`, wait |
| LoRa driver | `components/lora/lora.c` | the SX1276: mode, interrupt flags, FIFO and its pointer | `lora_init`, `lora_send_packet`, `lora_receive`, `lora_received`, `lora_receive_packet` |
| Receiver loop | `main/main.cpp` 214-262 | packet buffer, `oldDeviceConnected` | poll, publish, re-advertise |
| BLE server | `ble/BLEServer`, `BLECharacteristic`, `BLEDescriptor`, `BLE2902`, `BLEValue`, `BLEAdvertising` | connected count, peer map, notification bits, values, offsets of long reads, parts of long writes | event handlers, `setValue`, `notify`, `indicate`, `startAdvertising` |
| GATT table | `ble/BLEService`, the maps, `ble/FreeRTOS` | handles, semaphores, `m_lastCreatedCharacteristic` | `createApp`, `createService`, `start`, `executeCreate` |
| Advertising data | `ble/BLEAdvertising`, `BLEAdvertisedDevice`, `BLEUUID` | payload, parsed fields | add a record, parse, convert and compare UUIDs |
| BLE client | `ble/BLEClient`, `BLERemote*`, `BLEScan`, `BLEDevice` | clients by application id, connection flags, semaphores | scan, connect, search, read, register, write |
| WiFi | `main/main.cpp` 108-143 | `CONNECTED_BIT` | event handler |
| OTA server | `components/ota_server/ota_server.c` | TCP session, partition being written | receive an image, check it, switch the boot partition, restart |
| Flutter app | `flutter/flutter_app/lib/main.dart` | scan, device, subscriptions, coordinates | scan, connect, subscribe, show, disconnect |
| Ionic apps | `app/*/src/pages/home/home.ts` | the same | the same |

How they interact:

- *Shared memory without locks.* `gpstask` (priority 20) writes `NavPvt` while
  `app_main` copies it. The Bluetooth task writes `deviceConnected`, the count,
  the peer map and the notification bits while `app_main` reads them.
- *Registers.* The driver talks to the radio one register at a time. The radio
  captures packets and ends transmissions in between.
- *Events.* Calls of the Bluetooth stack return at once; their results come as
  events to the Bluetooth task, which gives the semaphore the caller waits for.
- *Callbacks.* The library calls `MyServerCallbacks` in the middle of its
  connect and disconnect handlers.
- *Awaits.* In the phone app any callback may run between an await and what
  follows it.
- *Flash.* The update server writes a partition that the boot loader reads after
  the next restart, whenever that comes.

What is hard about it: a packet captured between two register accesses; a flag
read before and acted on after the thing it describes has changed; a phone that
comes or goes anywhere in the loop; events credited to the wrong object; a
semaphore given before it is taken; waits without a timeout; a serial line that
loses bytes, with a parser that has no checksum; an image of which half arrives;
a power failure between two steps of an update or of a configuration.
`PROJECT.json` lists these hazards line by line, with the properties about each.

What makes each part correct:

- *Parser:* stays inside its buffer; stores undisturbed frames exactly; gets
  back into step after a disturbance.
- *GPS configuration:* success means that the receiver talks as the parser
  expects; a receiver that can be heard is found if the UART works; it returns.
- *Sender:* each round puts its own packet on the air, whole; never stops.
- *Receive path:* never mixes two packets as far as the newest one reaches, never
  loses it; what it shows does not go back in time where packets are whole;
  publishes only what was received (it does not).
- *BLE server:* its records of connections agree with each other and with
  reality; the device stays reachable; subscribers are served; long reads and
  writes are whole; indications end when they are confirmed.
- *GATT table:* each handle credited to its object, each attribute created,
  initialisation ends.
- *Advertising:* the scanner sees what the advertiser put in.
- *BLE client:* a connection flag follows its connection, events reach one
  client, calls return.
- *Updates:* the boot partition is whole at every moment, a client is told the
  truth, the next update stays possible.
- *Phone app:* no listener survives its connection, the marker does not mix
  positions, a lasting connection is listened to.

## 2. Modules

| Module | Models | Extends |
|--------|--------|---------|
| `Sx1276` | the radio as a receiver, from how `lora.c` uses it (external) | |
| `LoraReceiver` | receive path of the driver and the receiver loop | `Sx1276` |
| `FreshestPacket` | abstract: atomic fetches of a prefix of the newest packet | |
| `LoraReceiverProofs` | theorems | `LoraReceiver` |
| `BleLink` | phones, Bluetooth task and receiver loop around connections and notifications | |
| `BleLinkProofs` | theorems | `BleLink` |
| `BleAccess` | reads, writes and indications of one characteristic | |
| `GattTable` | `init_ble`: creation of the GATT table by `app_main` and the Bluetooth task | |
| `GattTableProofs` | theorems | `GattTable` |
| `BleAdvert` | advertising payloads, composed and parsed | |
| `MCAdvert` | texts, names and data of the instance TLC checks | `BleAdvert` |
| `BleDataProofs` | theorems about what the library carries | `BleAdvert`, `BleAccess` |
| `BleClient` | the client half of the library under its example program | |
| `BleClientProofs` | theorems | `BleClient` |
| `GpsConfig` | `gps_config` against a receiver that keeps its settings | |
| `GpsParser` | `gps_stateMachine` on a faulty serial line | |
| `Sender` | sender loop and `lora_send_packet`, composed with `gpstask` | `GpsParser` |
| `SenderProofs` | theorems about the three modules of the board that sends | `Sender`, `GpsConfig` |
| `MCSender` | the packet layout of the instance TLC checks | `Sender` |
| `OtaServer` | WiFi events, update server, flash and boot loader | |
| `FirmwareUpdate` | abstract: updates that happen at once or not at all | |
| `OtaServerProofs` | theorems | `OtaServer` |
| `FlutterApp` | the phone app and the packets it is sent | |
| `FlutterAppProofs` | theorems | `FlutterApp` |

**LoraReceiver.** One action per register access: `ReadIrq`, `ClearIrq`,
`ReadLength`, `LoraIdle`, `SetPointer`, `ReadFifo` (one cell per step). The
radio's `Arrive` may come between any two while it is in continuous reception,
and writes a packet of any listed length, cell by cell, to any place of the ring
that the FIFO is; what lies behind it stays from earlier packets. A cell holds
the number of the packet it came from. The length is read before `LoraIdle` and
the address after it, so the copy may use the length of one packet on another and
run into those older cells. The loop publishes cell by cell while the Bluetooth
callbacks set and clear `deviceConnected` at any moment. The refinement mapping
to `FreshestPacket` lets a fetch take effect when the FIFO pointer is set: the
radio is in standby from there on. A fetch takes a prefix of the newest packet,
and may reach beyond its end only while RxDone still announces it.

**BleLink.** `Connect`, `Disconnect` and descriptor writes are posted to the
queue of the Bluetooth task. Its handlers are split at each access to shared
state (`HandleConnect`, `OnConnect`, `CountConnection`; `HandleDisconnect`,
`OnDisconnect`, `AdvertiseAgain`, `RemovePeer`). `notify` is split likewise
(`TestCount`, `TestEnabled`, `CopyPeers`, `Send` or `SendFails`), and so is the
comparison of `deviceConnected` with `oldDeviceConnected`. Both attempts to
advertise, the library's after a disconnection and `app_main`'s, may be turned
down by the stack (the three error returns of `BLEAdvertising::start`); `refused`
remembers it until the next connection.

**BleAccess.** The value, the offset of a long read, the parts of a long write
and the semaphore of indications belong to the characteristic, not to a phone.
Requests of two phones are handled one after the other in any order, while a
task of the program sets, notifies or indicates the value. `disturbed` says that
a read was crossed by another phone's read, changed value or not, or by a change
of the value, and `alone` that
an indication was not crossed by a second phone or an earlier confirmation: the
properties speak of the undisturbed case, since in the other one the code does
mix things up. `setValue`, copying a string, is one step.

**GattTable.** Each library call takes its semaphore, hands the request to the
stack or is rejected, and waits. The stack adds attributes while they fit into
the reserved handles and answers with handle 0 when they do not. The handlers
ignore the status of an event and credit it to `m_lastCreatedCharacteristic`.
The characteristics are walked in the order of a `std::map` over pointers,
which is any permutation. That the stack enforces the reservation, and with
which event it refuses, is an assumption about code outside the repository.

**BleAdvert.** `Add` appends a record to the payload being made, or drops it
when it does not fit; `Publish` hands the payload over; `ParseRecord` is one
turn of the loop of `parseAdvertisement`. Bytes are numbers and UUIDs are read
from and written to text digit by digit, because the properties are about them.
A UUID of 36 characters is assumed to have its dashes where `toString` puts them:
with any other number of dashes the constructor writes past its sixteen bytes.
`Starts` is the loop that skips the dashes.

**BleClient.** `loopTask` runs the example program and blocks in semaphores that
the Bluetooth task gives. Clients are found by application id in a map that the
code overwrites without looking (`AddPeerDevice`), and interfaces are handed out
again after a disconnection. `excuse` names the situations in which the code
leaves a caller waiting: its client was removed from the map, the answer came
before the semaphore was taken, the search failed, the link was lost during a
read or write, or the stack rejected a request.

**GpsConfig.** `SetUp` makes the three UART calls, each of which may fail: then
`gps_config` returns -1 to -3 (`"broken"`) without having listened, as against
-5 (`"undetected"`) after all detections. The receiver repeats a cycle of a sentence, a packet and a pause,
each if it is switched on. `ReadByte` is one turn of a detection loop: a timed
out read leaves `b` with its last value, a byte at the wrong speed is another
byte. `ConfigPort` and `ConfigMessage` may be lost. `Restart` starts the program
anew with the receiver as it is, `PowerCycle` with what the receiver saved. The
cycle counter wraps at `CounterSize`.

**GpsParser.** A byte is abstracted to its position in the header (0: not in
it), since the header bytes are pairwise different. A stored byte is known by
its frame and index. The line loses bytes, changes them, or inserts others
between frames. `clean` says that the parser met the current frame idle and that
no fault has touched the frame.

**Sender.** The copy of `NavPvt` takes one step per field, and every byte
`gpstask` stores may come between two. `Order` is the layout of `packet_t`. When
`gps_config` fails `gpstask` loops without a delay at priority 20 on the core of
`app_main`: state `"spin"`, in which no step of `app_main` is enabled.
`whole` and `quiet` are history: they say that `NavPvt` held one whole clean
frame when the copying began, and that nothing has been stored since.

**OtaServer.** A request is its header lines and the chunks of an image; each
`recv` returns any number of the items that follow, or the end of the
connection. `esp_ota_begin` erases, `esp_ota_write` appends or fails unseen,
`esp_ota_end` checks, `esp_ota_set_boot_partition` switches. `PowerFails` may
come at any step. The mapping to `FirmwareUpdate` looks only at the contents of
the boot partition and of the running one: everything before `SetBoot` stutters.

**FlutterApp.** `awaits` holds, for every connection so far, what its
subscription loop is waiting for; the loop of an ended connection goes on when
its answer comes. A listener is in the app's map or, when the map entry was
replaced, `stray`. The tracker publishes the latitude and the longitude of a
packet in two steps.

Some definitions carry a faulty variant next to them (`OneLate`, `NotTaken`,
...). No model uses it. Each is a plausible bug, and the mutants of
`PROJECT.json` substitute it to show that a property notices.

## 3. Runs

| Run | Instance | Shows |
|-----|----------|-------|
| `lora_receiver` | a FIFO of 4 cells, packets of 1 and 3 cells, good or bad CRC, 3 arrivals, a buffer of 2 cells | `TypeOK`, `NoTornPacket`, `NoLostPacket`, `DiscardsAreDamage`, the refinement of `FreshestPacket`, `LastPacketFetched` |
| `lora_published` | a FIFO of 3 cells, 3 arrivals | violated: an empty-handed call is published all the same |
| `ble_two` | 2 phones, 1 characteristic, queue of 2 | `PeersTrackLinks`, `FlagMeansPeer`, `AlwaysReachable`, `SubscriberServed` |
| `ble_access` | 2 phones, values of 3 and 4 bytes, answers of 2 | `ReadsWhole`, `CommitsUnfinished`, `WaitsForConfirmation`, `IndicationEnds` |
| `gatt_small` | 3 characteristics, 1 to 10 handles, 2 rejected calls | `HandlesMatchTable`, `CompleteWithRoom`, `InitReturns` |
| `ble_advert` | payloads of 31 bytes, 3 records, 5 texts | `ServicesFound`, `FieldsRead`, `TextKeepsUuid` |
| `ble_client` | 3 connections, 2 faults | `FlagFollowsLink`, `OneHearer`, `CallsReturn` |
| `gps_stream` | header of 3, payload of 3 bytes that may look like header bytes, 3 frames, 3 faults | `GpsTypeOK`, `CleanFrameStored`, `StaysInStep`, `Resynchronises` |
| `gps_config` | counter of 17, window of 14, 1 fault of each kind, 2 restarts | `OkMeansConfigured`, `UndetectedIsSilent`, `SilentOnlyIfCut`, `ConfigReturns` |
| `sender` | header of 2, 3 fields sent in another order than they arrive in, 2 frames, 1 fault | `SentWhole`, `TornOnlyByArrival`, `KeepsSending` |
| `ota` | 2 images besides the first, 2 chunks, declared lengths 0 to 3, 2 faults | `ToldTruth`, the refinement of `FirmwareUpdate`, `StaysUpdatable` |
| `flutter` | 4 characteristics, 3 connections, 2 packets | `RemovedUnlessInterrupted`, `MixesNeighbours`, `ComesToListen` |

Every module has a type invariant; all of them hold in the instances above, and
those of all modules are proved (of `BleAccess`, the part about the values). The runs name a type invariant only where it says something a reader
would doubt: in `LoraReceiver` and `GpsParser`, that no index leaves a buffer.
Likewise `CountMatchesPeers`, `BootsWhole`, `RunningUntouched`,
`RoundsHavePackets`, `NeverOlder` and `DisplayNeverOlder`, which are proved or
implied by the refinement, have no run of their own.

Deadlock is checked for `lora_*`, `ble_two` and `gps_stream`, which cannot stop.
The others may: initialisation ends, a spinning `gpstask` stops `app_main`, a
caller waits for an event that does not come, the parser has read everything, or
a bound on faults, connections or restarts is reached.

### Why the bounds are enough

- *Three packets, a buffer of two cells, a FIFO of four.* A torn buffer takes two
  packets and two cells, a stale one a packet before and one after. A damaged
  packet makes the third. Lengths 1 and 3 are shorter and longer than the buffer:
  a short packet read with the length of a long one is followed by cells of a
  third. A packet of three may lie anywhere in the ring, also across its end.
- *Two phones.* The flag, the bit, the count, the value and the offset are
  shared by all phones, so two already show every confusion between them.
  `notify` treats each characteristic alone. The safety properties are proved
  for any number of both.
- *Queue of 2.* The events of a phone that leaves and comes back fit behind the
  one being handled; the proofs have no bound.
- *Values of 3 and 4 bytes, answers of 2.* One value ends in the middle of a
  block, the other fills its last block.
- *Three characteristics.* A wrong credit needs a neighbour, an error in the
  middle needs one on either side. The limits put the end of the table at every
  kind of attribute.
- *31 bytes, 3 records.* Names of 3 and 29 bytes leave room for more records or
  fill the payload to the last byte; a scan response follows a payload that is
  full or not.
- *Three connections of a client.* Two clients get at the same entry of the peer
  map or at the same interface; the third comes after both.
- *Three faults on the serial line.* The first loses the header, the second
  disturbs the search, the third the frame that follows. The contents of the
  payload are never interpreted by a parser in step, so three bytes stand for
  94; the proofs have no bound.
- *Counter of 17, window of 14, cycle of 7.* The window is two cycles, as two
  seconds are two of the receiver's; the counter wraps within most windows. Two
  restarts: the first leaves the receiver half configured, the second finds it.
  The proofs have no bound on faults and restarts, nor on the counter and the
  window beyond those two facts.
- *Two frames in `sender`.* Tearing takes two.
- *Bounds of the library's and the app's modules.* The proofs about `GattTable`,
  `BleAccess`, `BleAdvert`, `BleClient` and `FlutterApp` hold for any number of
  characteristics, phones, records, connections, clients, packets and faults;
  those about `BleAdvert` for payloads of up to 127 bytes.
- *Two chunks, declared lengths 0 to 3.* A declared length may be unreadable,
  too small, right or too large; an image with a hole needs two chunks. One
  fault may fail a call, the second the power. The proofs have no bound.
- *Three connections, four characteristics.* A loop that outlives its connection
  meets the loop of the next, and a third connection comes after both. The two
  coordinates are the last two of the four, so the loop has work before them.

### Fairness

- `app_main` only ever waits for timeouts, or polls (`WF_vars(MainStep)`).
  In `GattTable` and `BleClient` it waits for semaphores, and a step that waits
  is not enabled.
- The Bluetooth task is scheduled and its handlers do not block.
- `BleLink` assumes that packets keep coming in when the loop looks for one
  again and again (`SF_vars(PacketReceived)`: the sender transmits forever), and
  that the stack does not reject every notification to a phone
  (`SF_vars(Send(...))`: congestion passes).
- `BleAccess`: the task that indicates goes on, and the stack reports every
  confirmation, a missing one as a timeout. `BleClient`: the stack answers what
  it accepted, and a scan finds the peer.
- Bytes of the GPS receiver keep arriving (`WF_gpsVars(Byte)`: ten messages a
  second). `gps_config` goes on, with or without bytes: its reads time out.
- A transmission ends (`WF_vars(RadioStep)`).
- `OtaServer`: both tasks are scheduled, the access point lets the station in
  sooner or later, and somebody tries another update.
- `FlutterApp`: scans and attempts to connect time out, and requests are
  answered while the link lasts; nobody need tap anything.
- Nothing is assumed of phones, arrivals in `LoraReceiver`, faults, restarts,
  clients of the update server that fall silent, or the outcome of `gps_config`
  in `Sender`.

The liveness properties name the outcomes in which the code really hangs or goes
wrong: `KeepsSending` excepts a `gpstask` that spins, `InitReturns` a rejected
registration or creation of the service, `Resynchronises` payload bytes that
keep being taken for header bytes, `SubscriberServed` a second phone,
`AlwaysReachable` an attempt to advertise that the stack turned down,
`CallsReturn` the situations listed under `BleClient`, `IndicationEnds` an
indication to a phone that did not connect last, `StaysUpdatable` a client that
falls silent without closing.

### Finding

**The number of received bytes is ignored** (`main.cpp:222`, run
`lora_published`). After a CRC error `lora_receive_packet` returns 0, and the
loop notifies the phone of the previous packet, or of what `malloc` returned.

### Known deviations

Where the code does something its reader would not expect, the models do the
same, and the properties are stated around it. These have no run:

- *The CRC flag may belong to an earlier packet* (`lora.c:424`). Flags are read
  first, length and address later, while the radio still receives.
- *The length may belong to an earlier packet* (`lora.c:433`). It is read before
  the radio is idle, the address after it (`lora.c:439`). When a shorter packet
  comes in between, bytes that earlier packets left in the FIFO are copied behind
  it, and the number returned is not the "number of bytes received" of
  `lora.c:414`. The short packet is announced again, so the next call fetches it
  with its own length (`NoTornPacket`); until then the buffer may have gone back
  to older bytes (`NeverOlder`). The tracker's own packets are all of one length,
  for which nothing of this happens (`DisplayNeverOlder`).
- *Advertising may be turned down* (`BLEAdvertising.cpp:215`, `226`, `241`), which
  is only logged. Nothing tries again unless `app_main` had seen the connection;
  hence the exception of `AlwaysReachable`.
- *A UART that cannot be set up* (`gps.c:231-248`) makes `gps_config` fail at a
  receiver that sends, and `gpstask` spin for good.
- *Long reads share one offset* (`BLECharacteristic.cpp:372-391`). Two phones that
  read a long value at the same time get parts of it in the wrong places, or
  twice, also when the value does not change; hence `disturbed` in `ReadsWhole`.
- *One flag for all phones* (`main.cpp:53`). A phone that leaves clears it for
  one that stays; hence `Alone` in `SubscriberServed`.
- *Notification bits outlive the connection* (`BLECharacteristic.cpp:501`).
- *15 handles for 19 attributes* (`main.cpp:65`). If the stack enforces the
  reservation, the characteristics that come last in heap order are missing;
  hence the condition of `CompleteWithRoom`.
- *The GPS checksum is a stub* (`gps.c:319`): damaged packets are reported.
- *A receiver can be silenced for good.* A restart between the message that
  turns the sentence off and the one that turns the packet on leaves nothing to
  detect (`SilentOnlyIfCut`). Without a restart the same happens when the
  message that turns NAV-PVT on is lost and the one that saves is not: then even
  a power cycle does not help.
- *A client displaced from the peer map* (`BLEClient.cpp:243`) keeps
  `m_isConnected` after its connection is gone. The one that was put into its
  entry is not removed from there by its own end (`BLEClient.cpp:194`), and
  hears the client that gets its interface next; hence the condition of
  `OneHearer`. A client whose registration was rejected stays in the map and
  hears the events of others.
- *Application number 255.* An event with no interface (`ESP_GATT_IF_NONE`, 255)
  is passed on to everybody (`BLEDevice.cpp:168`), and numbers of applications
  share the map with interfaces; `ClientAssumption` keeps below 255, which the
  example program never reaches.
- *Listeners lost by the app* (`main.dart:193`), when a loop outlives its
  connection and another begins: the comment at `main.dart:153` says that all of
  them are removed.
- *Service data* (`BLEAdvertisedDevice.cpp:316`): the UUID and the data are kept
  in two fields that need not be from the same record when one has no data.
- *`BLEUUID::fromString`* (`BLEUUID.cpp:251`) documents a form `0x<UUID>` that
  yields an unset UUID.
- Of lines that are not modelled: 24:00 stays on the same day
  (`gps.c:383`); bytes are sign-extended before they are combined
  (`main.dart:200`) and an `Int32Array` is read where bytes are sent
  (`home.ts:54`).

## 4. Proofs

The theorems hold for every value of the constants allowed by the named
assumptions (`RadioAssumption`, `SizeAssumption`, `BleAssumption`,
`GpsAssumption`, `SenderAssumption`, `ConfigAssumption`, `WindowAssumption`,
`GattAssumption`, `AccessAssumption`, `AdvertAssumption`, `ClientAssumption`,
`OtaAssumption`, `AppAssumption`). These say that sizes are positive, that sets of values lie in
their ranges, that there are finitely many phones, that the fields of a packet
are cells of `NavPvt`, that the first image is none of those sent, that a handle
is below 65535 (`GattAssumption`), that the latitude and the longitude are two
characteristics (`AppAssumption`), that a client's number is below 255, and that
a long UUID has its dashes in their places and two payloads fit into a count of
one byte (`AdvertAssumption`). For
`GpsConfig` they say that the cycle counter does not wrap twice within a window
(2^32 cycles are 18 s, a window is 2) and that a window is two cycles of the
receiver (2 s, its rate is 1 Hz).

**LoraReceiverProofs** (`TypeCorrect`, `NeverTorn`, `NeverLost`,
`RoundsAnswerPackets`, `NeverGoesBack`, `DisplayNeverGoesBack`, `DiscardsBounded`,
`Refinement`).
The properties are not inductive. What is added to the type invariant:

- from the address register on, the FIFO holds as many cells of the newest packet
  as the length register says (`RegistersNewest`), and a raised flag means that there was one
  (`FlagsMeanPackets`);
- from `LoraIdle` to the next `lora_receive` the radio is in standby, and the
  cells copied so far are those of the FIFO from that address on (`FifoFrozen`);
- the length the driver read is the newest packet's, or RxDone is set again
  (`LengthCurrent`);
- a pending RxDone belongs to a packet no round has answered (`RoundsCounted`),
  and where no packet is shorter than the buffer the characteristics are never
  newer than it (`ValueBehind`);
- for `DiscardsAreDamage`, a pending CrcError comes from a damaged packet that
  has not cost a call yet (`DiscardsCounted`).

`LengthCurrent` is what makes acknowledging before reading safe: a packet that
slips in between raises its flag again. It also confines the cells copied from
behind a short packet to the calls that are repeated. The refinement maps
`SetPointer` to `Fetch`, `Arrive` to `Capture`, `ClearIrq` to `Acknowledge`, and
every other step, the copying included, to stuttering.

**BleLinkProofs** (`BleTypeCorrect`, `CountIsPeers`, `PeersAreLinks`,
`FlagHasPeer`). The comings and goings of one phone in the queue alternate, the
first being the opposite of what the library knows of the phone, the last being
what is true of it (`QueueLeads`). Lemmas say that posting and taking an event
keeps this, for the phone it is about (`PostOwn`, `TakeOwn`) and for the others.
It follows that a connect event always finds its phone unknown and a disconnect
event always finds it known, and so that the count, one behind within a handler,
is the size of the map (`Counted`) and never goes below zero. Two phones that
share one flag are covered by `FlagJustified`: it is lowered for either before a
peer is removed.

**SenderProofs, the parser** (`GpsTypeCorrect`, `CleanFramesStored`,
`NeverLosesStep`). `InStep` ties the parser to the line while `clean` holds: the
number of matched header bytes, then the number of stored bytes, follows the
position in the frame, and the bytes stored so far are those of this frame.

**SenderProofs, the sender** (`SenderTypeCorrect`, `PacketsSentWhole`,
`NothingCutShort`, `CopiedInOnePiece`). `Round` has one part per owner. The
radio transmits only while `app_main` polls, and a TxDone flag means the
transmission of this round is over (`RadioInRound`). Up to the position reached
the FIFO holds the packet (`FifoInRound`), and the air holds a prefix of it
(`AirInRound`). The facts about the parser are reused: every step of `gpstask`
is a step of the parser or changes nothing of it. `CopiedInOnePiece` needs them:
`WholeStored` says that `whole` means one frame in `NavPvt`, from `InStep` at
the byte that completes it, and `QuietCopy` that a copy during which nothing
was stored has taken its fields from there.

**SenderProofs, the configuration** (`ConfigTypeCorrect`, `ConfiguredWhenOk`,
`UndetectedOnlyIfSilent`, `OnlyAnInterruptionSilences`). What makes `gps_config`
right is timing, and `Hearing` says so. (`SetUpFacts` is about the start: a UART
call that fails leaves the receiver and what was heard of it as they were.) A detection that fits the receiver has
read a number of bytes since its marker. Together with the phase of the
receiver's cycle, this number determines how much of the header is matched, but
for the first header, which may come too early or be spoilt by what `b` still
holds; and it is at most 13 where the window is 14. So a detection that times
out did not fit (`Unheard`), and when all six did not, nothing can be heard. A
header of two bytes or more is only matched at the right speed (`Matching`),
from which `Obeying` follows the messages one by one. `Audible` follows what the
receiver would still send, and what it would after losing power. The arithmetic
of `cct_elapsedUs` is in `OneMoreRead`: the counter may wrap once, and rounding
does not matter.

**OtaServerProofs** (`OtaTypeCorrect`, `AlwaysBootable`, `ClientsToldTruth`,
`UpdatesAreAtomic`, `RunningIsUntouched`). The partition that runs is the one to
boot until the very end, and both hold a whole image (`SwitchedLast`). The
server writes to the other one only, and what is there belongs to the client
being served; once the check has passed it is this client's whole image
(`Delivered`). A reply is of the last session that came to its end
(`Answered`). A power failure
keeps the flash and nothing else, and the invariant speaks of nothing else.
For the refinement, `SetBoot` maps to `Install`, the restarts and the power
failures to `Restart`, and every other step to stuttering.

**GattTableProofs** (`WellTyped`, `HandlesAreRight`, `NothingLeftOut`). The
handlers credit an event to `m_lastCreatedCharacteristic`, without a look at
what it is about. That is right because the calls are synchronous although the
stack is not: at most one request is on its way, it is the one `init_ble` waits
for, and its semaphore stays taken until its event is handled (`Synchronous`).
So what is worked on is what was created last (`Credited`), and the handles are
places in the stack's table (`Located`). With room and no rejected call the
table is filled in order (`Filled`), three attributes per characteristic.

**BleDataProofs, advertisements** (`AdvertTyped`, `ParserKeepsCount`,
`AdvertFindsServices`, `AdvertReadsFields`, `AdvertTextKeepsUuid`). Two arguments meet. The first is
about positions: what was added lies on the air record behind record, the k-th
between `cut[k - 1]` and `cut[k]` (`LaidOut`). A record that fits goes behind the
others and leaves them where they are (`LaidOutBehind`), handing a payload over
moves the border between payload and air and no byte. The parser stands at a cut
and has taken the first n records apart (`ScannedTo`): the services are those of
these records, every other field is that of the last of its kind. There it reads
the length, the type and the bytes of the next one (`RecordRead`), and the device
takes exactly this record (`RecordTaken`), whichever of the three sizes a UUID
has. The cuts are at most 254, so `sizeConsumed` is the position and not its
remainder. With no record at all the parser takes one turn over a zero byte.
The second is about UUIDs: the pairs of digits that the constructor finds by
skipping dashes are those that `toString` wrote (`PairsFollow`: both are functions
of a position up to 16, so the recursion unrolls and needs no induction), hence a
text that was written is read back in its long form (`RoundTrip`), and `equals`
says whether two long forms are the same (`EqualsIs`).

**BleDataProofs, access** (`ValuesTyped`, `ValuesReadWhole`, `WritesInOneRun`,
`IndicationsConfirmed`). `SoFar`: what a phone has read, when neither a change of
the value nor another phone's read crossed it, is the value up to the offset. The code tells the last block of a long read
by its length, and `Offsets` shows that the offset stays a multiple of the block
and so that a value of whole blocks ends, too. `Parts`: what is accumulated is
what no execute has ended. `Waiting`: while an undisturbed indication is
unconfirmed its semaphore is taken and no confirmation of another is on its
way.

**BleClientProofs** (`Consistent`, `FlagsRight`, `HeardByOne`). The peer map has
two kinds of keys, application numbers and interfaces. A client in an entry that
is not its own came there by its interface (`Squatting`), a client that is being
connected is in its own (`Holding`). The events of the connection under way are
counted and ordered: one registration (`RegPending`), then connect before open,
both before the end (`OpenPending`), one end (`OneEnd`); the interface they name
belongs to nobody else who is in the map as itself (`Unique`). From these a flag
is only raised for a live connection, and lowered at its end unless the client
was displaced (`Flags`). `OneHearer` turned out to be false without its second
condition: the proof failed at the disconnection of a client in another's entry.

**FlutterAppProofs** (`WellTyped`, `ListenersRemoved`, `MarkerMixesNeighbours`).
Unless a connection was interrupted in the middle of its loop, only the loop of
the present one waits, no listener is stray, and the loop has not listened to
what it still has to visit (`Alone`). For the type of `stray`, the listeners to
a characteristic are at most as many as the loops that have passed it
(`Counted`, by cardinalities).

Only model-checked:

- all liveness properties (no prover for fairness);
- in `BleAccess`, the type of the confirmations on their way: they are filtered
  with `SelectSeq`, which is recursive.

## 5. Not modelled

- *Radio settings* other than modes: single register writes before the loops
  start. RSSI, SNR, implicit headers, sleep and close are never used.
- *`BLEUtils`* (2033 lines) turns codes and events into log text; *`GeneralUtils`*
  formats strings, base64 and hex dumps; HID, beacons, Eddystone and security are
  getters and setters no program here calls. None of them keeps state that a
  property could be about. They are a good third of the library's lines,
  and most of the rest of it is logging around the calls that are modelled: this
  is why the map covers the control of the system and not most of its lines.
- *BLE:* MTU exchange, security, descriptors read by a client, a repeated search
  of one client, whitelists: unused by `main.cpp` and by the example program.
- *Memory-level races.* The peer map is copied by one task while another may be
  changing it (`BLECharacteristic.cpp:512`). The model makes the copy atomic;
  what a torn copy of a `std::map` contains is undefined.
- *Watchdogs.* `sdkconfig` enables the task watchdog without a panic, so it only
  prints and changes no state.
- *`gps_localDateTime`*: nothing calls it.
- *Ionic apps*: predecessors of the Flutter app that connect once and assign one
  field per callback.
- *Build output, vendored and generated code, widgets and layout, assets.*

## 6. Plan

Done, in the order of importance: receive path and its refinement; connections
and notifications; parser; sender; GATT table; updates and their refinement; GPS
configuration; phone app; client, access and advertising of the library; proofs
of every safety property the runs check.

Next, to prove: the confirmations on their way in `BleAccess`, for which the
removal of those of a phone has to be defined without recursion.

Next, to model: the composition of `BleLink` with `FlutterApp`, so that the
bits that outlive a connection meet the app's subscriptions.
