------------------------------ MODULE BleAdvert ------------------------------
(***************************************************************************)
(* An advertisement from the program that makes it to the program that     *)
(* finds it: BLEAdvertisementData composes two payloads record by record,  *)
(* the controllers carry them over, and BLEAdvertisedDevice takes the      *)
(* bytes apart again, for a program that looks for a service.              *)
(*                                                                         *)
(* Services have BLEUUIDs: 2, 4 or 16 bytes, the last first, read from     *)
(* text.  Bytes are numbers, texts are sequences of character codes.       *)
(***************************************************************************)
EXTENDS Integers, Sequences

CONSTANTS
    Texts,      \* the UUIDs, as the programs write them
    Names, Data,\* byte sequences
    MaxPayload, \* ESP_BLE_ADV_DATA_LEN_MAX
    MaxRecords  \* bound on the calls that add a record

Octet == 0 .. 255 \* uint8_t

ASSUME AdvertAssumption ==
    /\ MaxPayload \in 1 .. 127 /\ MaxRecords \in Nat
    /\ Texts \cup Names \cup Data \subseteq Seq(Octet)
    /\ \A t \in Texts : Len(t) = 36 => \A i \in 1 .. 36 : t[i] = 45 <=> i \in {9, 14, 19, 24}

VARIABLES
    stage,      \* "advertisement", "response", "scan", "done"
    payload,    \* BLEAdvertisementData::m_payload of the one being made
    air,        \* what the controller sends of the finished ones
    calls,      \* records asked for
    put,        \* the records that were added, in their order
    payloadPtr, \* parseAdvertisement: bytes behind
    sizeConsumed,
    device      \* the BLEAdvertisedDevice; a field is Absent or Have(value)

advertVars == <<stage, payload, air, calls, put, payloadPtr, sizeConsumed, device>>

-----------------------------------------------------------------------------
(* BLEUUID                                                                 *)

Absent  == << >>
Have(v) == <<v>>
NotSet  == << >>
Dash    == 45

(* Letters are moved next to the digits, and four bits are kept.  Faulty   *)
(* variant: they are not moved.                                            *)
LowBits(c) == c % 16
Nibble(c) == (IF c > 57 THEN c - 7 ELSE c) % 16

(* The byte of the two digits at i, and that of the k-th pair from the end *)
(* of a text of digits only.                                               *)
Pair(text, i)    == Nibble(text[i]) * 16 + Nibble(text[i + 1])
FromEnd(text, k) == Pair(text, Len(text) + 1 - 2 * k)

(* Where the pairs of a long text begin: the loop skips a dash in front of *)
(* a pair.                                                                 *)
Starts(text) ==
    LET start[k \in 1 .. 16] ==
            LET i == IF k = 1 THEN 1 ELSE start[k - 1] + 2
            IN  IF text[i] = Dash THEN i + 1 ELSE i
    IN  start

FromText(text) ==
    CASE Len(text) = 4  -> [k \in 1 .. 2 |-> FromEnd(text, k)]
      [] Len(text) = 8  -> [k \in 1 .. 4 |-> FromEnd(text, k)]
      [] Len(text) = 16 -> [k \in 1 .. 16 |-> text[17 - k]]
      [] Len(text) = 36 -> [k \in 1 .. 16 |-> Pair(text, Starts(text)[17 - k])]
      [] OTHER          -> NotSet

(* The Bluetooth base UUID, last byte first, without its first four bytes. *)
Base == <<251, 52, 155, 95, 128, 0, 0, 128, 0, 16, 0, 0>>
To128(u) ==
    CASE Len(u) = 2 -> Base \o u \o <<0, 0>>
      [] Len(u) = 4 -> Base \o u
      [] OTHER      -> u

(* toString writes two digits for a byte, in lower case, and dashes.       *)
Digit(n)  == IF n < 10 THEN 48 + n ELSE 87 + n
DashesBefore(i) == IF i <= 9 THEN 0 ELSE IF i <= 14 THEN 1 ELSE IF i <= 19 THEN 2 ELSE IF i <= 24 THEN 3 ELSE 4
HexDigit(u, d) ==
    LET byte == To128(u)[16 - (d - 1) \div 2]
    IN  Digit(IF d % 2 = 1 THEN byte \div 16 ELSE byte % 16)
ToText(u) ==
    [i \in 1 .. 36 |-> IF i \in {9, 14, 19, 24} THEN Dash ELSE HexDigit(u, i - DashesBefore(i))]

(* What has not the same size is compared as text.  Faulty variant: not.   *)
SameSize(u, v) == u # NotSet /\ u = v
Equals(u, v) ==
    /\ u # NotSet /\ v # NotSet
    /\ IF Len(u) # Len(v) THEN ToText(u) = ToText(v) ELSE u = v

Uuids == {FromText(t) : t \in Texts} \ {NotSet}

-----------------------------------------------------------------------------
(* BLEAdvertisementData                                                    *)

BySize(u, two, four, sixteen) == CASE Len(u) = 2 -> two [] Len(u) = 4 -> four [] OTHER -> sixteen

(* A record is its type and its bytes.                                     *)
Flags(f)            == [type |-> 1,  bytes |-> <<f>>, uuid |-> NotSet]
Appearance(a)       == [type |-> 25, bytes |-> <<a % 256, a \div 256>>, uuid |-> NotSet]
Name(n)             == [type |-> 9,  bytes |-> n, uuid |-> NotSet]
ShortName(n)        == [type |-> 8,  bytes |-> n, uuid |-> NotSet]
Manufacturer(d)     == [type |-> 255, bytes |-> d, uuid |-> NotSet]
CompleteServices(u) == [type |-> BySize(u, 3, 5, 7), bytes |-> u, uuid |-> u]
PartialServices(u)  == [type |-> BySize(u, 2, 4, 6), bytes |-> u, uuid |-> u]
ServiceData(u, d)   == [type |-> BySize(u, 22, 32, 33), bytes |-> u \o d, uuid |-> u]

Records ==
    {Flags(6), Appearance(833)} \cup {Name(n) : n \in Names} \cup {ShortName(n) : n \in Names}
      \cup {Manufacturer(d) : d \in Data} \cup {CompleteServices(u) : u \in Uuids}
      \cup {PartialServices(u) : u \in Uuids} \cup {ServiceData(u, d) : u \in Uuids, d \in Data}

Encoded(r) == <<Len(r.bytes) + 1, r.type>> \o r.bytes

(* addData leaves out what does not fit.  Faulty variant: the end of it.   *)
CutOff(data)  == SubSeq(payload \o data, 1, IF Len(payload \o data) > MaxPayload THEN MaxPayload ELSE Len(payload \o data))
AddData(data) == IF Len(payload) + Len(data) > MaxPayload THEN payload ELSE payload \o data

AdvertInit ==
    /\ stage = "advertisement" /\ payload = << >> /\ air = << >> /\ calls = 0 /\ put = << >>
    /\ payloadPtr = 0 /\ sizeConsumed = 0
    /\ device = [flag |-> Absent, appearance |-> Absent, name |-> Absent, manufacturerData |-> Absent,
                 serviceUUIDs |-> << >>, serviceDataUUID |-> Absent, serviceData |-> Absent]

Add ==
    /\ stage \in {"advertisement", "response"} /\ calls < MaxRecords /\ calls' = calls + 1
    /\ \E r \in Records :
         /\ payload' = AddData(Encoded(r))
         /\ put' = IF payload' = payload THEN put ELSE Append(put, r)
    /\ UNCHANGED <<stage, air, payloadPtr, sizeConsumed, device>>

(* setAdvertisementData and setScanResponseData.  The scanner's controller *)
(* reports the response right behind the advertisement.                    *)
Publish ==
    /\ stage \in {"advertisement", "response"}
    /\ stage' = IF stage = "advertisement" THEN "response" ELSE "scan"
    /\ air' = air \o payload /\ payload' = << >>
    /\ UNCHANGED <<calls, put, payloadPtr, sizeConsumed, device>>

-----------------------------------------------------------------------------
(* BLEAdvertisedDevice::parseAdvertisement                                 *)

ByteAt(k)     == IF k <= Len(air) THEN air[k] ELSE 0
Bytes(from, n) == [k \in 1 .. n |-> ByteAt(from + k)]

(* A list of UUIDs of a size; of those with 16 bytes only the first.       *)
UuidList(data, size) == [k \in 1 .. Len(data) \div size |-> SubSeq(data, size * (k - 1) + 1, size * k)]

WithServiceData(data, size) ==
    IF Len(data) < size THEN device
    ELSE [device EXCEPT !.serviceDataUUID = Have(SubSeq(data, 1, size)),
                        !.serviceData = IF Len(data) > size THEN Have(SubSeq(data, size + 1, Len(data))) ELSE @]

Services(type, uuids)  == device.serviceUUIDs \o uuids

(* The switch over the record type.  The TX power is left out: no composer *)
(* of this library writes such a record.                                   *)
Parsed(type, data) ==
    CASE type = 9   -> [device EXCEPT !.name = Have(data)]
      [] type = 25  -> [device EXCEPT !.appearance = Have(data[1] + 256 * data[2])]
      [] type = 1   -> [device EXCEPT !.flag = Have(data[1])]
      [] type = 255 -> [device EXCEPT !.manufacturerData = Have(data)]
      [] type \in {2, 3} -> [device EXCEPT !.serviceUUIDs = Services(type, UuidList(data, 2))]
      [] type \in {4, 5} -> [device EXCEPT !.serviceUUIDs = Services(type, UuidList(data, 4))]
      [] type \in {6, 7} -> [device EXCEPT !.serviceUUIDs = Services(type, <<SubSeq(data, 1, 16)>>)]
      [] type = 22  -> WithServiceData(data, 2)
      [] type = 32  -> WithServiceData(data, 4)
      [] type = 33  -> WithServiceData(data, 16)
      [] OTHER      -> device

(* One round of the loop, as long as it stays in the controller's buffer   *)
(* of two payloads; sizeConsumed is a uint8_t, and a length does not count *)
(* its own byte.                                                           *)
Skipped(length)     == 1 + length

ParseRecord ==
    /\ stage = "scan" /\ payloadPtr <= 2 * MaxPayload
    /\ LET length == ByteAt(payloadPtr + 1)
       IN /\ sizeConsumed' = (sizeConsumed + Skipped(length)) % 256
          /\ payloadPtr' = payloadPtr + 1 + length
          /\ device' = IF length = 0 THEN device ELSE Parsed(ByteAt(payloadPtr + 2), Bytes(payloadPtr + 2, length - 1))
    /\ stage' = IF sizeConsumed' >= Len(air) THEN "done" ELSE "scan"
    /\ UNCHANGED <<payload, air, calls, put>>

IsAdvertisingService(u) == \E k \in DOMAIN device.serviceUUIDs : Equals(device.serviceUUIDs[k], u)

AdvertNext == Add \/ Publish \/ ParseRecord
AdvertSpec == AdvertInit /\ [][AdvertNext]_advertVars

-----------------------------------------------------------------------------
(* Properties                                                              *)

Device ==
    [flag : Seq(Octet), appearance : Seq(0 .. 65535), name : Seq(Seq(Octet)),
     manufacturerData : Seq(Seq(Octet)), serviceUUIDs : Seq(Seq(Octet)),
     serviceDataUUID : Seq(Seq(Octet)), serviceData : Seq(Seq(Octet))]

AdvertTypeOK ==
    /\ stage \in {"advertisement", "response", "scan", "done"}
    /\ payload \in Seq(Octet) /\ Len(payload) <= MaxPayload
    /\ air \in Seq(Octet) /\ Len(air) <= 2 * MaxPayload
    /\ calls \in 0 .. MaxRecords /\ put \in Seq(Records) /\ Len(put) <= calls
    /\ sizeConsumed \in Octet /\ payloadPtr \in 0 .. 2 * MaxPayload + 1
    /\ device \in Device

LastOf(kinds) == {k \in DOMAIN put : put[k].type \in kinds /\ \A j \in k + 1 .. Len(put) : put[j].type \notin kinds}

(* When all is parsed the device has the services that were put into the   *)
(* payloads, no more and no fewer, and is found by every way to write one  *)
(* of them: short, long, or in capitals (BLEAdvertisedDevice.cpp:141).     *)
ServicesFound ==
    stage = "done" =>
      \A t \in Texts : FromText(t) # NotSet =>
        (IsAdvertisingService(FromText(t)) <=>
          \E k \in DOMAIN put : put[k].type \in 2 .. 7 /\ To128(put[k].uuid) = To128(FromText(t)))

(* Every other field is that of the last record of its kind, whatever      *)
(* stands before and behind it and wherever one payload ends.  Excepted    *)
(* are service data without data bytes: they change the UUID and leave the *)
(* data of the record before (BLEAdvertisedDevice.cpp:316).                *)
FieldsRead ==
    stage = "done" =>
      /\ \A k \in LastOf({9}) : device.name = Have(put[k].bytes)
      /\ \A k \in LastOf({255}) : device.manufacturerData = Have(put[k].bytes)
      /\ LastOf({1}) # {} <=> device.flag = Have(6)
      /\ LastOf({25}) # {} <=> device.appearance = Have(833)
      /\ LastOf({9}) = {} => device.name = Absent
      /\ \A k \in LastOf({22, 32, 33}) :
           /\ device.serviceDataUUID = Have(put[k].uuid)
           /\ put[k].bytes # put[k].uuid => put[k].bytes = put[k].uuid \o device.serviceData[1]

(* A UUID survives being written as text and read again, and so do those   *)
(* of the device: BLEClient looks services up by their text                *)
(* (BLEUUID.cpp:74-127, 358-405).                                          *)
TextKeepsUuid ==
    \A k \in DOMAIN device.serviceUUIDs :
      Equals(FromText(ToText(device.serviceUUIDs[k])), device.serviceUUIDs[k])
=============================================================================
