----------------------------- MODULE FlutterApp ------------------------------
(***************************************************************************)
(* The phone app (flutter/flutter_app/lib/main.dart).  A Dart program runs *)
(* one callback at a time, but between an await and what follows it any    *)
(* other callback may run: a tap, the end of a scan, of a connection.      *)
(*                                                                         *)
(* When the tracker is connected the app discovers its services and then,  *)
(* in a loop that awaits each answer, turns on the notifications of its    *)
(* characteristics.  A disconnection does not end such a loop: it goes on  *)
(* when its answer comes.  flutter_blue (external) matches answers by      *)
(* device and characteristic, so that the answer to a loop of the next     *)
(* connection is one for the old loop too.                                 *)
(*                                                                         *)
(* The tracker publishes packets 1, 2, ..., the latitude first.            *)
(***************************************************************************)
EXTENDS Naturals, FiniteSets

CONSTANTS
    Chars,           \* the characteristics, in the order of the service
    Lat, Lon,        \* the two that move the marker
    MaxConnections,  \* bound on the connections
    MaxPackets       \* bound on the packets

ASSUME AppAssumption ==
    /\ Chars \in Nat \ {0} /\ MaxConnections \in Nat /\ MaxPackets \in Nat
    /\ Lat \in 1 .. Chars /\ Lon \in 1 .. Chars /\ Lat # Lon

Discovery == 0       \* the answer of discoverServices
Over      == Chars + 1
Loop      == 1 .. MaxConnections

VARIABLES
    adapterOn,       \* state
    isScanning,
    device,          \* the device field is not null
    subscribed,      \* valueChangedSubscriptions: characteristics
    stray,           \* live listeners per characteristic the map has lost
    awaits,          \* connection -> what the loop begun in it is waiting for
    \* the phone's Bluetooth stack
    link,            \* "none", "connecting", "up"
    connection,      \* number of connections so far
    calls,           \* requests under way
    enabled,         \* characteristics whose notifications are on
    \* the tracker and the map
    packet, half,    \* the packet being published; only its latitude is out
    lat, lon,        \* packets the marker's coordinates are from, 0: none
    \* history
    interrupted,     \* a connection ended before its loop did
    settled          \* a whole packet reached the map, and nothing was lost since

appVars  == <<adapterOn, isScanning, device, subscribed, stray, awaits>>
blueVars == <<link, connection, calls, enabled>>
mapVars  == <<packet, half, lat, lon, settled>>
vars == <<appVars, blueVars, mapVars, interrupted>>

TypeOK ==
    /\ adapterOn \in BOOLEAN /\ isScanning \in BOOLEAN /\ device \in BOOLEAN
    /\ subscribed \subseteq 1 .. Chars
    /\ stray \in [1 .. Chars -> 0 .. MaxConnections]
    /\ awaits \in [Loop -> 0 .. Over]
    /\ link \in {"none", "connecting", "up"}
    /\ connection \in 0 .. MaxConnections
    /\ calls \subseteq 0 .. Chars
    /\ enabled \subseteq 1 .. Chars
    /\ packet \in 0 .. MaxPackets /\ half \in BOOLEAN
    /\ lat \in 0 .. MaxPackets /\ lon \in 0 .. MaxPackets
    /\ interrupted \in BOOLEAN /\ settled \in BOOLEAN

Init ==
    /\ adapterOn = FALSE /\ isScanning = FALSE /\ device = FALSE
    /\ subscribed = {} /\ stray = [c \in 1 .. Chars |-> 0]
    /\ awaits = [i \in Loop |-> Over]
    /\ link = "none" /\ connection = 0 /\ calls = {} /\ enabled = {}
    /\ packet = 0 /\ half = FALSE /\ lat = 0 /\ lon = 0
    /\ interrupted = FALSE /\ settled = FALSE

-----------------------------------------------------------------------------
(* Scanning                                                                *)

(* initState: the adapter's state is read once and then follows it.  An    *)
(* adapter that is switched off loses the connection (LinkLost).           *)
AdapterChanged ==
    /\ adapterOn => link = "none"
    /\ adapterOn' = ~adapterOn
    /\ UNCHANGED <<isScanning, device, subscribed, stray, awaits, blueVars,
                   mapVars, interrupted>>

(* The button is there while the adapter is on and no device is set.       *)
StartScan ==
    /\ adapterOn /\ ~device /\ ~isScanning
    /\ isScanning' = TRUE
    /\ UNCHANGED <<adapterOn, device, subscribed, stray, awaits, blueVars,
                   mapVars, interrupted>>

(* The button again, or the end of the five seconds.                       *)
StopScan ==
    /\ isScanning
    /\ isScanning' = FALSE
    /\ UNCHANGED <<adapterOn, device, subscribed, stray, awaits, blueVars,
                   mapVars, interrupted>>

(* A "UART Service" is found: _connect and _stopScan.                      *)
AfterFound(scanning)    == FALSE

Found ==
    /\ isScanning /\ adapterOn
    /\ connection < MaxConnections
    /\ connection' = connection + 1
    /\ device' = TRUE /\ link' = "connecting"
    /\ isScanning' = AfterFound(isScanning)
    /\ UNCHANGED <<adapterOn, subscribed, stray, awaits, calls, enabled,
                   mapVars, interrupted>>

-----------------------------------------------------------------------------
(* Connection                                                              *)

(* The device reports "connected": discoverServices.                       *)
LinkUp ==
    /\ link = "connecting" /\ device
    /\ link' = "up"
    /\ awaits' = [awaits EXCEPT ![connection] = Discovery]
    /\ calls' = {Discovery}
    /\ UNCHANGED <<adapterOn, isScanning, device, subscribed, stray, connection,
                   enabled, mapVars, interrupted>>

(* The tracker gets out of reach, or cannot be connected to for ten        *)
(* seconds.                                                                *)
LinkLost ==
    /\ link # "none"
    /\ link' = "none" /\ calls' = {} /\ enabled' = {}
    /\ settled' = FALSE
    /\ UNCHANGED <<appVars, connection, packet, half, lat, lon, interrupted>>

(* _disconnect: cancel the listeners in the map and clear it, drop the     *)
(* subscriptions of the connection, which closes it, and the device.       *)
(* Faulty variant: the map is not cleared.                                 *)
Kept(uuids)    == uuids
Cleared(uuids) == {}
NoDevice(set)  == FALSE

Disconnect ==
    /\ subscribed' = Cleared(subscribed)
    /\ device' = NoDevice(device)
    /\ link' = "none" /\ calls' = {} /\ enabled' = {}
    /\ interrupted' = (interrupted \/ \E i \in Loop : awaits[i] # Over)
    /\ settled' = FALSE
    /\ UNCHANGED <<adapterOn, isScanning, stray, awaits, connection, packet, half,
                   lat, lon>>

(* The stream of the connection is done.                                   *)
ConnectionDone == device /\ link = "none" /\ Disconnect

(* The user taps the cross.                                                *)
TapDisconnect == device /\ Disconnect

-----------------------------------------------------------------------------
(* The subscription loops                                                  *)

(* The loops an answer wakes.                                              *)
Woken(answer) == {i \in Loop : awaits[i] = answer}

(* The for loop.  Faulty variant: the first characteristic only.           *)
OnlyFirst(c) == Over
Following(c) == c + 1

(* A woken loop goes on with the next characteristic (sleep blocks, so     *)
(* nothing comes between); when device is null the call throws and the     *)
(* loop is over.                                                           *)
GoOn(answer) ==
    /\ awaits' = [i \in Loop |->
          IF i \notin Woken(answer) THEN awaits[i]
          ELSE IF device THEN Following(answer) ELSE Over]
    /\ calls' = (calls \ {answer}) \cup
                  {awaits'[i] : i \in {j \in Woken(answer) : awaits'[j] # Over}}

Discovered ==
    /\ link = "up" /\ Discovery \in calls
    /\ GoOn(Discovery)
    /\ UNCHANGED <<adapterOn, isScanning, device, subscribed, stray, link,
                   connection, enabled, mapVars, interrupted>>

(* setNotifyValue is answered: each woken loop listens and puts its        *)
(* listener into the map, over the one that may be there.  (Each loop has  *)
(* objects of its own discovery, visited once: isNotifying is false.)      *)
Listening(c) == (IF c \in subscribed THEN 1 ELSE 0) + stray[c]

NotifyAnswered(c) ==
    /\ link = "up" /\ c \in calls \ {Discovery}
    /\ GoOn(c)
    /\ enabled' = enabled \cup {c}
    /\ IF device /\ Woken(c) # {}
         THEN /\ subscribed' = subscribed \cup {c}
              /\ stray' = [stray EXCEPT ![c] =
                             Listening(c) + Cardinality(Woken(c)) - 1]
         ELSE UNCHANGED <<subscribed, stray>>
    /\ UNCHANGED <<adapterOn, isScanning, device, link, connection, mapVars,
                   interrupted>>

-----------------------------------------------------------------------------
(* The map                                                                 *)

Arrives(c) == link = "up" /\ c \in enabled /\ Listening(c) > 0

(* The listener looks at the UUID before it sets a coordinate.  Faulty     *)
(* variant: it does not.                                                   *)
AnyUuid(c, own) == Arrives(c)
IsFor(c, own)   == c = own /\ Arrives(c)

OnValue(c, number) ==
    /\ lat' = IF IsFor(c, Lat) THEN number ELSE lat
    /\ lon' = IF IsFor(c, Lon) THEN number ELSE lon

(* The tracker notifies the latitude of the next packet, ...               *)
NotifyLat ==
    /\ ~half /\ packet < MaxPackets
    /\ packet' = packet + 1 /\ half' = TRUE
    /\ OnValue(Lat, packet + 1)
    /\ settled' = (settled /\ Arrives(Lat))
    /\ UNCHANGED <<appVars, blueVars, interrupted>>

(* ... then its longitude.                                                 *)
NotifyLon ==
    /\ half
    /\ half' = FALSE /\ UNCHANGED packet
    /\ OnValue(Lon, packet)
    /\ settled' = (Arrives(Lon) /\ lat = packet)
    /\ UNCHANGED <<appVars, blueVars, interrupted>>

(* The stack of the tracker rejects a notification.                        *)
NotifyFails ==
    /\ \/ half /\ half' = FALSE /\ UNCHANGED packet
       \/ ~half /\ packet < MaxPackets /\ packet' = packet + 1 /\ half' = TRUE
    /\ settled' = FALSE
    /\ UNCHANGED <<appVars, blueVars, lat, lon, interrupted>>

-----------------------------------------------------------------------------
Answers == Discovered \/ \E c \in 1 .. Chars : NotifyAnswered(c)

Next ==
    \/ AdapterChanged \/ StartScan \/ StopScan \/ Found
    \/ LinkUp \/ LinkLost \/ ConnectionDone \/ TapDisconnect
    \/ Answers
    \/ NotifyLat \/ NotifyLon \/ NotifyFails

Spec == Init /\ [][Next]_vars

(* Scans time out, attempts to connect end one way or the other, and the   *)
(* phone's stack answers as long as the link is there.                     *)
FairSpec ==
    /\ Spec
    /\ WF_vars(StopScan) /\ WF_vars(link = "connecting" /\ (LinkUp \/ LinkLost)) /\ WF_vars(ConnectionDone)
    /\ WF_vars(Discovered) /\ \A c \in 1 .. Chars : WF_vars(NotifyAnswered(c))

-----------------------------------------------------------------------------
(* Properties                                                              *)

(* main.dart:153 "Remove all value changed listeners": without a device    *)
(* nothing listens any more.                                               *)
AllRemoved == ~device => \A c \in 1 .. Chars : Listening(c) = 0

(* It is so unless a connection ended, and another followed, while the     *)
(* loop of the first was waiting for an answer: only then are listeners    *)
(* lost from the map, and outlive every _disconnect.                       *)
RemovedUnlessInterrupted == ~interrupted => AllRemoved

(* The marker is moved after each of the two notifications.  Once a whole  *)
(* packet arrived, and as long as none is rejected, it mixes at most two   *)
(* successive packets, and only while the second is on its way.            *)
MixesNeighbours ==
    settled => lat = packet /\ lon = IF half THEN packet - 1 ELSE packet

(* While a connection lasts all characteristics come to be listened to, no *)
(* matter what loops of earlier connections do meanwhile.                  *)
ComesToListen ==
    link = "up" ~> link # "up" \/ \A c \in 1 .. Chars : Listening(c) > 0 /\ c \in enabled
=============================================================================
