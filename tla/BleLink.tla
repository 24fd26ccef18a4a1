------------------------------ MODULE BleLink -------------------------------
(***************************************************************************)
(* The Bluetooth side of the receiver.  Two tasks share the state of the   *)
(* BLE server library (components/ESP32_BLE_Arduino/src):                  *)
(*                                                                         *)
(*   - the Bluetooth task takes events off its queue and runs the GATT     *)
(*     server handlers, which call MyServerCallbacks in main.cpp;          *)
(*   - app_main publishes packets with setValue/notify and, between        *)
(*     packets, compares deviceConnected with oldDeviceConnected to        *)
(*     restart advertising.                                                *)
(*                                                                         *)
(* Nothing locks, so the handlers and the loop are split at every access   *)
(* to shared state.  Phones connect while the device advertises, may leave *)
(* at any moment, and write the 0x2902 descriptor of a characteristic to   *)
(* turn its notifications on or off.  A phone is identified with its       *)
(* connection id.                                                          *)
(***************************************************************************)
EXTENDS Naturals, Sequences, FiniteSets

CONSTANTS
    Phones,     \* the phones around
    Chars,      \* number of characteristics of the service
    MaxQueue    \* bound on the events waiting for the Bluetooth task

ASSUME BleAssumption ==
    IsFiniteSet(Phones) /\ Chars \in Nat \ {0} /\ MaxQueue \in Nat

Channel == Phones \X (1 .. Chars)

VARIABLES
    \* the controller and the phones
    advertising,  \* the controller is connectable
    refused,      \* history: since a phone connected last, the last attempt
                  \* to advertise was turned down by the stack
    links,        \* phones with a connection
    request,      \* <<phone, char>> -> what the phone asked on this connection
    shown,        \* <<phone, char>> that the phone has a recent value of
    events,       \* queue of the Bluetooth task
    \* BLEServer, BLE2902
    btPc, btPhone,         \* where the Bluetooth task is, and for whom
    peers,                 \* m_connectedServersMap
    connectedCount,        \* m_connectedCount
    notifications,         \* char -> the notification bit of its 0x2902
    \* main.cpp
    deviceConnected, oldDeviceConnected,
    pc,                    \* where app_main is
    char,                  \* the characteristic app_main is publishing
    todo                   \* the copy of the peers notify() still has to serve

phoneVars  == <<advertising, refused, links, request, shown>>
serverVars == <<btPc, btPhone, peers, connectedCount, notifications>>
loopVars   == <<oldDeviceConnected, pc, char, todo>>
vars == <<phoneVars, events, serverVars, deviceConnected, loopVars>>

Connected(p)       == [kind |-> "connect", phone |-> p]
Disconnected(p)    == [kind |-> "disconnect", phone |-> p]
Written(p, ch, on) == [kind |-> "write", phone |-> p, char |-> ch, on |-> on]

Events == {Connected(p) : p \in Phones} \cup {Disconnected(p) : p \in Phones}
          \cup {Written(q[1], q[2], on) : q \in Channel, on \in BOOLEAN}

HandlerSteps == {"idle", "connect_callback", "connect_count",
                 "disconnect_callback", "disconnect_advertise",
                 "disconnect_remove"}
LoopSteps == {"poll", "check", "count", "enabled", "copy", "send",
              "was_connected", "readvertise", "forget",
              "is_connected", "remember"}

TypeOK ==
    /\ advertising \in BOOLEAN /\ refused \in BOOLEAN
    /\ links \subseteq Phones /\ peers \subseteq Phones
    /\ request \in [Channel -> {"none", "on", "off"}]
    /\ shown \subseteq Channel
    /\ events \in Seq(Events) /\ Len(events) <= MaxQueue
    /\ btPc \in HandlerSteps /\ btPhone \in Phones
    /\ connectedCount \in 0 .. Cardinality(Phones)
    /\ notifications \in [1 .. Chars -> BOOLEAN]
    /\ deviceConnected \in BOOLEAN /\ oldDeviceConnected \in BOOLEAN
    /\ pc \in LoopSteps
    /\ char \in 1 .. Chars
    /\ todo \subseteq Phones

(* After init_ble: service started, nobody connected, advertising unless   *)
(* the stack turned that down, which init_ble does not look at.            *)
Init ==
    /\ refused \in BOOLEAN /\ advertising = ~refused
    /\ links = {} /\ shown = {}
    /\ request = [q \in Channel |-> "none"]
    /\ events = << >>
    /\ btPc = "idle" /\ btPhone \in Phones
    /\ peers = {} /\ connectedCount = 0
    /\ notifications = [ch \in 1 .. Chars |-> FALSE]
    /\ deviceConnected = FALSE /\ oldDeviceConnected = FALSE
    /\ pc = "poll" /\ char = 1 /\ todo = {}

-----------------------------------------------------------------------------
(* Phones and controller                                                   *)

Post(e) ==
    /\ Len(events) < MaxQueue
    /\ events' = Append(events, e)

(* A phone connects: the controller stops advertising.                     *)
Connect(p) ==
    /\ advertising /\ p \notin links
    /\ links' = links \cup {p}
    /\ advertising' = FALSE /\ refused' = FALSE
    /\ Post(Connected(p))
    /\ UNCHANGED <<request, shown, serverVars, deviceConnected, loopVars>>

(* A connection ends, by the phone or by supervision timeout.              *)
Disconnect(p) ==
    /\ p \in links
    /\ links' = links \ {p}
    /\ request' = [q \in Channel |-> IF q[1] = p THEN "none" ELSE request[q]]
    /\ shown' = {q \in shown : q[1] # p}
    /\ Post(Disconnected(p))
    /\ UNCHANGED <<advertising, refused, serverVars, deviceConnected, loopVars>>

(* A connected phone turns the notifications of a characteristic on or off *)
Subscribe(p, ch) ==
    /\ p \in links /\ request[<<p, ch>>] # "on"
    /\ request' = [request EXCEPT ![<<p, ch>>] = "on"]
    /\ Post(Written(p, ch, TRUE))
    /\ UNCHANGED <<advertising, refused, links, shown, serverVars, deviceConnected,
                   loopVars>>

Unsubscribe(p, ch) ==
    /\ request[<<p, ch>>] = "on"
    /\ request' = [request EXCEPT ![<<p, ch>>] = "off"]
    /\ shown' = shown \ {<<p, ch>>}
    /\ Post(Written(p, ch, FALSE))
    /\ UNCHANGED <<advertising, refused, links, serverVars, deviceConnected, loopVars>>

(* What a phone shows gets old.                                            *)
Age(p, ch) ==
    /\ <<p, ch>> \in shown
    /\ shown' = shown \ {<<p, ch>>}
    /\ UNCHANGED <<advertising, refused, links, request, events, serverVars,
                   deviceConnected, loopVars>>

-----------------------------------------------------------------------------
(* The Bluetooth task: BLEServer::handleGATTServerEvent and the descriptor *)

Take(e) ==
    /\ btPc = "idle"
    /\ events # << >>
    /\ e = Head(events)
    /\ events' = Tail(events)

(* ESP_GATTS_CONNECT_EVT: addPeerDevice, onConnect, m_connectedCount++.    *)
HandleConnect ==
    \E p \in Phones :
      /\ Take(Connected(p))
      /\ peers' = peers \cup {p}
      /\ btPc' = "connect_callback" /\ btPhone' = p
      /\ UNCHANGED <<phoneVars, connectedCount, notifications, deviceConnected,
                     loopVars>>

OnConnect ==
    /\ btPc = "connect_callback"
    /\ deviceConnected' = TRUE
    /\ btPc' = "connect_count"
    /\ UNCHANGED <<phoneVars, events, btPhone, peers, connectedCount,
                   notifications, loopVars>>

CountConnection ==
    /\ btPc = "connect_count"
    /\ connectedCount' = connectedCount + 1
    /\ btPc' = "idle"
    /\ UNCHANGED <<phoneVars, events, btPhone, peers, notifications,
                   deviceConnected, loopVars>>

(* ESP_GATTS_DISCONNECT_EVT: m_connectedCount--, onDisconnect,             *)
(* startAdvertising, removePeerDevice.                                     *)

HandleDisconnect ==
    \E p \in Phones :
      /\ Take(Disconnected(p))
      /\ connectedCount' = connectedCount - 1
      /\ btPc' = "disconnect_callback" /\ btPhone' = p
      /\ UNCHANGED <<phoneVars, peers, notifications, deviceConnected, loopVars>>

(* Faulty variant: the flag is left for app_main to clear once it saw it.  *)
ClearedIfSeen(flag) == flag /\ ~oldDeviceConnected
FlagOnDisconnect(flag) == FALSE

OnDisconnect ==
    /\ btPc = "disconnect_callback"
    /\ deviceConnected' = FlagOnDisconnect(deviceConnected)
    /\ btPc' = "disconnect_advertise"
    /\ UNCHANGED <<phoneVars, events, btPhone, peers, connectedCount,
                   notifications, loopVars>>

(* BLEAdvertising::start.  When the stack turns down the configuration of  *)
(* the payload or the start itself, it returns without advertising and     *)
(* does not tell its caller.                                               *)
AdvertisingStart(accepted) ==
    /\ advertising' = (advertising \/ accepted)
    /\ refused' = ~accepted

(* The call of the disconnect handler.  Faulty variant: it is left to      *)
(* app_main, as the comment at BLEServer.cpp:218 says.                     *)
LeftToTheLoop(accepted) == UNCHANGED <<advertising, refused>>
StartAdvertising(accepted) == AdvertisingStart(accepted)

AdvertiseAgain ==
    /\ btPc = "disconnect_advertise"
    /\ \E accepted \in BOOLEAN : StartAdvertising(accepted)
    /\ btPc' = "disconnect_remove"
    /\ UNCHANGED <<links, request, shown, events, btPhone, peers, connectedCount,
                   notifications, deviceConnected, loopVars>>

(* Faulty variant: the peer is kept.                                       *)
PeerKept(known, p) == known
RemovePeerDevice(known, p) == known \ {p}

RemovePeer ==
    /\ btPc = "disconnect_remove"
    /\ peers' = RemovePeerDevice(peers, btPhone)
    /\ btPc' = "idle"
    /\ UNCHANGED <<phoneVars, events, btPhone, connectedCount, notifications,
                   deviceConnected, loopVars>>

(* ESP_GATTS_WRITE_EVT on a 0x2902: the value belongs to the descriptor,   *)
(* not to the connection that wrote it.                                    *)
HandleWrite ==
    \E q \in Channel, on \in BOOLEAN :
      /\ Take(Written(q[1], q[2], on))
      /\ notifications' = [notifications EXCEPT ![q[2]] = on]
      /\ UNCHANGED <<phoneVars, btPc, btPhone, peers, connectedCount,
                     deviceConnected, loopVars>>

-----------------------------------------------------------------------------
(* app_main: publishing                                                    *)

(* lora_received() says there is a packet (module LoraReceiver) ...        *)
PacketReceived ==
    /\ pc = "poll"
    /\ pc' = "check"
    /\ UNCHANGED <<phoneVars, events, serverVars, deviceConnected,
                   oldDeviceConnected, char, todo>>

(* ... or there is none, and the loop goes to its bookkeeping.             *)
NoPacket ==
    /\ pc = "poll"
    /\ pc' = "was_connected"
    /\ UNCHANGED <<phoneVars, events, serverVars, deviceConnected,
                   oldDeviceConnected, char, todo>>

(* if (deviceConnected): tested once for all characteristics.              *)
CheckConnected ==
    /\ pc = "check"
    /\ IF deviceConnected
         THEN pc' = "count" /\ char' = 1
         ELSE pc' = "poll" /\ UNCHANGED char
    /\ UNCHANGED <<phoneVars, events, serverVars, deviceConnected,
                   oldDeviceConnected, todo>>

(* notify() returns: on to the next characteristic, or to the next packet. *)
NotifyReturns ==
    /\ todo' = {}
    /\ IF char < Chars
         THEN pc' = "count" /\ char' = char + 1
         ELSE pc' = "poll" /\ char' = 1

(* notify(): nothing to do without connected clients ...  Faulty variant:  *)
(* off by one.                                                             *)
OneIsNone(count) == count <= 1
NoClients(count) == count = 0

TestCount ==
    /\ pc = "count"
    /\ IF NoClients(connectedCount)
         THEN NotifyReturns
         ELSE pc' = "enabled" /\ UNCHANGED <<char, todo>>
    /\ UNCHANGED <<phoneVars, events, serverVars, deviceConnected,
                   oldDeviceConnected>>

(* ... or while the descriptor's notification bit is off.                  *)
TestEnabled ==
    /\ pc = "enabled"
    /\ IF notifications[char]
         THEN pc' = "copy" /\ UNCHANGED <<char, todo>>
         ELSE NotifyReturns
    /\ UNCHANGED <<phoneVars, events, serverVars, deviceConnected,
                   oldDeviceConnected>>

(* getPeerDevices() returns a copy of the map.                             *)
CopyPeers ==
    /\ pc = "copy"
    /\ todo' = peers
    /\ pc' = "send"
    /\ UNCHANGED <<phoneVars, events, serverVars, deviceConnected,
                   oldDeviceConnected, char>>

(* esp_ble_gatts_send_indicate to one peer of the copy after the other (in *)
(* any order); what is sent to a phone that has gone meanwhile is lost.    *)
Send(p, ch) ==
    /\ pc = "send" /\ p \in todo /\ ch = char
    /\ shown' = IF p \in links THEN shown \cup {<<p, ch>>} ELSE shown
    /\ todo' = todo \ {p}
    /\ UNCHANGED <<advertising, refused, links, request, events, serverVars,
                   deviceConnected, oldDeviceConnected, pc, char>>

(* The stack is congested: notify() gives up on all remaining peers.       *)
SendFails ==
    /\ pc = "send" /\ todo # {}
    /\ NotifyReturns
    /\ UNCHANGED <<phoneVars, events, serverVars, deviceConnected,
                   oldDeviceConnected>>

SendDone ==
    /\ pc = "send" /\ todo = {}
    /\ NotifyReturns
    /\ UNCHANGED <<phoneVars, events, serverVars, deviceConnected,
                   oldDeviceConnected>>

-----------------------------------------------------------------------------
(* app_main: connection bookkeeping at the end of the outer loop           *)

(* if (!deviceConnected && oldDeviceConnected) { vTaskDelay(500); ...      *)
TestDisconnecting ==
    /\ pc = "was_connected"
    /\ pc' = IF ~deviceConnected /\ oldDeviceConnected
               THEN "readvertise" ELSE "is_connected"
    /\ UNCHANGED <<phoneVars, events, serverVars, deviceConnected,
                   oldDeviceConnected, char, todo>>

(* ... pServer->startAdvertising(); ...                                    *)
Readvertise ==
    /\ pc = "readvertise"
    /\ \E accepted \in BOOLEAN : AdvertisingStart(accepted)
    /\ pc' = "forget"
    /\ UNCHANGED <<links, request, shown, events, serverVars, deviceConnected,
                   oldDeviceConnected, char, todo>>

(* ... oldDeviceConnected = deviceConnected; }                             *)
Forget ==
    /\ pc = "forget"
    /\ oldDeviceConnected' = deviceConnected
    /\ pc' = "is_connected"
    /\ UNCHANGED <<phoneVars, events, serverVars, deviceConnected, char, todo>>

(* if (deviceConnected && !oldDeviceConnected) ...                         *)
TestConnecting ==
    /\ pc = "is_connected"
    /\ pc' = IF deviceConnected /\ ~oldDeviceConnected
               THEN "remember" ELSE "poll"
    /\ UNCHANGED <<phoneVars, events, serverVars, deviceConnected,
                   oldDeviceConnected, char, todo>>

Remember ==
    /\ pc = "remember"
    /\ oldDeviceConnected' = deviceConnected
    /\ pc' = "poll"
    /\ UNCHANGED <<phoneVars, events, serverVars, deviceConnected, char, todo>>

-----------------------------------------------------------------------------
PhoneStep ==
    \/ \E p \in Phones : Connect(p) \/ Disconnect(p)
    \/ \E q \in Channel :
         Subscribe(q[1], q[2]) \/ Unsubscribe(q[1], q[2]) \/ Age(q[1], q[2])

BluetoothStep ==
    \/ HandleConnect \/ OnConnect \/ CountConnection
    \/ HandleDisconnect \/ OnDisconnect \/ AdvertiseAgain \/ RemovePeer
    \/ HandleWrite

Sending == \E q \in Channel : Send(q[1], q[2])

MainStep ==
    \/ PacketReceived \/ NoPacket \/ CheckConnected
    \/ TestCount \/ TestEnabled \/ CopyPeers
    \/ Sending \/ SendFails \/ SendDone
    \/ TestDisconnecting \/ Readvertise \/ Forget \/ TestConnecting \/ Remember

Next == PhoneStep \/ BluetoothStep \/ MainStep

Spec == Init /\ [][Next]_vars

(* Both tasks keep being scheduled.  Packets keep arriving now and then    *)
(* (the sender transmits forever) and the stack is not congested forever.  *)
FairSpec ==
    /\ Spec
    /\ WF_vars(BluetoothStep) /\ WF_vars(MainStep)
    /\ SF_vars(PacketReceived)
    /\ \A q \in Channel : SF_vars(Send(q[1], q[2]))

-----------------------------------------------------------------------------
(* Properties                                                              *)

(* The two records the library keeps of its connections agree whenever the *)
(* Bluetooth task is between events: m_connectedCount, which notify()      *)
(* tests, is the size of m_connectedServersMap, which it then walks.       *)
CountMatchesPeers == btPc = "idle" => connectedCount = Cardinality(peers)

(* Once the connect and disconnect events are worked off, the library's    *)
(* peers are the phones that really have a connection.                     *)
PeersTrackLinks ==
    btPc = "idle" /\ (\A n \in DOMAIN events : events[n].kind = "write") =>
        peers = links

(* main.cpp never believes in a connection that is not there.              *)
FlagMeansPeer == btPc = "idle" /\ deviceConnected => peers # {}

(* The device does not become unreachable by itself: with no connection    *)
(* left it ends up advertising, even if a phone came and went between two  *)
(* looks of app_main at deviceConnected, because the disconnect handler    *)
(* advertises.  The exception is a stack that turned down the last attempt *)
(* to: start() only logs that (BLEAdvertising.cpp:215, 226, 241), and      *)
(* nobody tries again but app_main, once, if it had seen the connection.   *)
AlwaysReachable == links = {} ~> advertising \/ links # {} \/ refused

(* A phone that turned a characteristic on is notified of it again and     *)
(* again for as long as it stays: no order of handlers and loop steps      *)
(* leaves it connected and forgotten.                                      *)
Alone == [](Cardinality(links) <= 1)
SubscriberServed ==
    Alone => \A q \in Channel : request[q] = "on" ~> q \in shown \/ request[q] # "on"
=============================================================================
