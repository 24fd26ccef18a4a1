----------------------------- MODULE BleDataProofs -----------------------------
(***************************************************************************)
(* What arrives of the data the library carries: advertisements, for every *)
(* size and content of their records, and the value of a characteristic,   *)
(* for every number of phones, every MTU and every length.                 *)
(***************************************************************************)
EXTENDS BleAdvert, BleAccess, SequenceTheorems, TLAPS

-----------------------------------------------------------------------------
(* Advertisements: the inductive invariant                                 *)

(* While a payload is being made the other one is not there yet, or is on  *)
(* the air.                                                                *)
Stages ==
    /\ stage = "advertisement" => air = << >>
    /\ stage = "response" => Len(air) <= MaxPayload
    /\ stage \in {"scan", "done"} => payload = << >>

(* Record k stands in the bytes between cut[k - 1] and cut[k].             *)
StandsAt(stream, from, r) ==
    /\ stream[from + 1] = Len(r.bytes) + 1
    /\ stream[from + 2] = r.type
    /\ \A i \in 1 .. Len(r.bytes) : stream[from + 2 + i] = r.bytes[i]
LaidOut(stream, recs, cut) ==
    /\ cut \in [0 .. Len(recs) -> 0 .. Len(stream)]
    /\ cut[0] = 0 /\ cut[Len(recs)] = Len(stream)
    /\ \A k \in 1 .. Len(recs) :
         cut[k] = cut[k - 1] + 2 + Len(recs[k].bytes) /\ StandsAt(stream, cut[k - 1], recs[k])

(* The last of the first n records that is of a kind.                      *)
LastBy(recs, kinds, n) == {k \in 1 .. n : recs[k].type \in kinds /\ \A j \in k + 1 .. n : recs[j].type \notin kinds}

ServicesBy(dev, recs, n) ==
    {dev.serviceUUIDs[i] : i \in DOMAIN dev.serviceUUIDs} =
      {recs[k].uuid : k \in {j \in 1 .. n : recs[j].type \in 2 .. 7}}

ServiceDataBy(dev, recs, n) ==
    \A k \in LastBy(recs, {22, 32, 33}, n) :
      /\ dev.serviceDataUUID = Have(recs[k].uuid)
      /\ recs[k].bytes # recs[k].uuid => recs[k].bytes = recs[k].uuid \o dev.serviceData[1]

FieldsBy(dev, recs, n) ==
    /\ \A k \in LastBy(recs, {9}, n) : dev.name = Have(recs[k].bytes)
    /\ \A k \in LastBy(recs, {255}, n) : dev.manufacturerData = Have(recs[k].bytes)
    /\ dev.flag = IF LastBy(recs, {1}, n) = {} THEN Absent ELSE Have(6)
    /\ dev.appearance = IF LastBy(recs, {25}, n) = {} THEN Absent ELSE Have(833)
    /\ LastBy(recs, {9}, n) = {} => dev.name = Absent
    /\ ServiceDataBy(dev, recs, n)

(* The first n records have been taken apart.                              *)
ScannedTo(cut, n) ==
    /\ ServicesBy(device, put, n) /\ FieldsBy(device, put, n)
    /\ stage # "done" => payloadPtr = cut[n] /\ sizeConsumed = cut[n]
    /\ stage \in {"advertisement", "response"} => n = 0
    /\ stage = "scan" => n < Len(put) \/ Len(air) = 0
    /\ stage = "done" => n = Len(put)

Scanned == \E cut : LaidOut(air \o payload, put, cut) /\ \E n \in 0 .. Len(put) : ScannedTo(cut, n)

AdvertInv == AdvertTypeOK /\ Stages /\ Scanned

(* The parser's pointer and its count of bytes agree, inside the report.   *)
ParserInStep == stage = "scan" => sizeConsumed = payloadPtr /\ payloadPtr <= Len(air)

-----------------------------------------------------------------------------
(* UUIDs and their texts                                                   *)

LEMMA OctetIs == \A b \in Octet : b \in Int /\ 0 <= b /\ b <= 255
BY DEF Octet

LEMMA IsOctet == \A b \in Int : 0 <= b /\ b <= 255 => b \in Octet
BY DEF Octet

LEMMA Hex ==
    ASSUME NEW b \in Octet
    PROVE  /\ b \div 16 \in 0 .. 15 /\ b % 16 \in 0 .. 15
           /\ b = (b \div 16) * 16 + (b % 16)
<1>1. b \in 0 .. 255
  BY DEF Octet
<1>2. \A n \in Int : n = (n \div 16) * 16 + (n % 16)
  OBVIOUS
<1> QED BY <1>1, <1>2

IsUuid(u) == u \in Seq(Octet) /\ (Len(u) = 2 \/ Len(u) = 4 \/ Len(u) = 16)

(* Where the sixteen pairs of digits of a long text begin.                 *)
Places ==
    [k \in 1 .. 16 |->
        IF k <= 4 THEN 2 * k - 1 ELSE IF k <= 6 THEN 2 * k ELSE IF k <= 8 THEN 2 * k + 1
        ELSE IF k <= 10 THEN 2 * k + 2 ELSE 2 * k + 3]

LEMMA PlacesType == Places \in [1 .. 16 -> 1 .. 35]
BY DEF Places

LEMMA PlacesStep ==
    /\ Places[1] = 1
    /\ \A k \in 2 .. 16 :
         Places[k] = IF Places[k - 1] + 2 \in {9, 14, 19, 24} THEN Places[k - 1] + 3 ELSE Places[k - 1] + 2
    /\ \A k \in 2 .. 16 : Places[k - 1] + 2 \in 1 .. 36
<1>1. Places[1] = 1
  BY DEF Places
<1>2. ASSUME NEW k \in 2 .. 16
      PROVE  /\ Places[k] = IF Places[k - 1] + 2 \in {9, 14, 19, 24} THEN Places[k - 1] + 3 ELSE Places[k - 1] + 2
             /\ Places[k - 1] + 2 \in 1 .. 36
  <2>1. k - 1 \in 1 .. 16
    OBVIOUS
  <2>2. Places[k - 1] = IF k - 1 <= 4 THEN 2 * (k - 1) - 1 ELSE IF k - 1 <= 6 THEN 2 * (k - 1)
          ELSE IF k - 1 <= 8 THEN 2 * (k - 1) + 1 ELSE IF k - 1 <= 10 THEN 2 * (k - 1) + 2 ELSE 2 * (k - 1) + 3
    BY <2>1 DEF Places
  <2>3. Places[k] = IF k <= 4 THEN 2 * k - 1 ELSE IF k <= 6 THEN 2 * k
          ELSE IF k <= 8 THEN 2 * k + 1 ELSE IF k <= 10 THEN 2 * k + 2 ELSE 2 * k + 3
    BY DEF Places
  <2> DEFINE q == Places[k - 1]
             p == Places[k]
  <2> HIDE DEF p, q
  <2>4. q \in 1 .. 33 /\ p = IF q + 2 \in {9, 14, 19, 24} THEN q + 3 ELSE q + 2
    BY <2>2, <2>3 DEF p, q
  <2> QED BY <2>4 DEF p, q
<1> QED BY <1>1, <1>2

LEMMA PairsFollow ==
    ASSUME NEW text \in Seq(Octet), Len(text) = 36,
           \A i \in 1 .. 36 : text[i] = Dash <=> i \in {9, 14, 19, 24}
    PROVE  Starts(text) = Places
<1> DEFINE After(s, k) == IF k = 1 THEN 1 ELSE s[k - 1] + 2
           Skip(i) == IF text[i] = Dash THEN i + 1 ELSE i
           Loop(s) == [k \in 1 .. 16 |-> Skip(After(s, k))]
           start == CHOOSE s : s = Loop(s)
<1>1. Starts(text) = start
  BY DEF Starts
<1>2. \A i \in 1 .. 36 : Skip(i) = IF i \in {9, 14, 19, 24} THEN i + 1 ELSE i
  OBVIOUS
<1> HIDE DEF Skip
<1>3. \A k \in 2 .. 16 : Places[k] = Skip(Places[k - 1] + 2)
  <2> SUFFICES ASSUME NEW k \in 2 .. 16 PROVE Places[k] = Skip(Places[k - 1] + 2)
    OBVIOUS
  <2> DEFINE q == Places[k - 1]
             i == q + 2
  <2>1. i \in 1 .. 36 /\ Places[k] = IF i \in {9, 14, 19, 24} THEN q + 3 ELSE i
    BY PlacesStep
  <2>2. k - 1 \in 1 .. 16
    OBVIOUS
  <2>3. q \in 1 .. 35
    BY <2>2, PlacesType
  <2> HIDE DEF q
  <2>4. q + 3 = i + 1
    BY <2>3
  <2> HIDE DEF i
  <2>5. Skip(i) = IF i \in {9, 14, 19, 24} THEN i + 1 ELSE i
    BY <1>2, <2>1
  <2>6. Places[k] = Skip(i)
    BY <2>1, <2>4, <2>5
  <2> QED BY <2>6 DEF i, q
<1>4. Skip(1) = 1
  BY <1>2
<1>5. Places = Loop(Places)
  <2> SUFFICES ASSUME NEW k \in 1 .. 16 PROVE Places[k] = Skip(After(Places, k))
    BY PlacesType
  <2>1. CASE k = 1
    BY <2>1, <1>4, PlacesStep
  <2>2. CASE k # 1
    <3>1. k \in 2 .. 16
      BY <2>2
    <3> QED BY <2>2, <3>1, <1>3
  <2> QED BY <2>1, <2>2
<1>6. start = Loop(start)
  BY <1>5
<1> HIDE DEF start
<1>7. \A k \in 1 .. 16 : start[k] = Skip(IF k = 1 THEN 1 ELSE start[k - 1] + 2)
  BY <1>6
<1>8. start[1] = 1 /\ \A k \in 2 .. 16 : start[k] = Skip(start[k - 1] + 2)
  BY <1>4, <1>7
<1> DEFINE P(k) == start[k] = Places[k]
<1>9. \A k \in 2 .. 16 : P(k - 1) => P(k)
  BY <1>3, <1>8
<1> HIDE DEF P
<1>10. P(1) /\ P(2) /\ P(3) /\ P(4)
  <2>1. P(1)
    BY <1>8, PlacesStep DEF P
  <2> QED BY <2>1, <1>9
<1>11. P(5) /\ P(6) /\ P(7) /\ P(8)
  BY <1>9, <1>10
<1>12. P(9) /\ P(10) /\ P(11) /\ P(12)
  BY <1>9, <1>11
<1>13. P(13) /\ P(14) /\ P(15) /\ P(16)
  BY <1>9, <1>12
<1>14. \A k \in 1 .. 16 : P(k)
  <2>1. \A k \in 1 .. 16 : \/ k = 1 \/ k = 2 \/ k = 3 \/ k = 4 \/ k = 5 \/ k = 6 \/ k = 7 \/ k = 8
                           \/ k = 9 \/ k = 10 \/ k = 11 \/ k = 12 \/ k = 13 \/ k = 14 \/ k = 15 \/ k = 16
    OBVIOUS
  <2> QED BY <2>1, <1>10, <1>11, <1>12, <1>13
<1>15. start = [k \in 1 .. 16 |-> start[k]] /\ Places = [k \in 1 .. 16 |-> Places[k]]
  BY <1>6, PlacesType
<1>16. start = Places
  BY <1>14, <1>15 DEF P
<1> QED BY <1>1, <1>16

LEMMA NibbleType == \A c \in Int : Nibble(c) \in 0 .. 15
BY DEF Nibble

LEMMA PairType ==
    ASSUME NEW text, NEW i, text[i] \in Int, text[i + 1] \in Int
    PROVE  Pair(text, i) \in Octet
<1>1. Nibble(text[i]) \in 0 .. 15 /\ Nibble(text[i + 1]) \in 0 .. 15
  BY NibbleType
<1> HIDE DEF Nibble
<1> QED BY <1>1, IsOctet DEF Pair

LEMMA FromTextType ==
    ASSUME NEW t \in Texts, FromText(t) # NotSet
    PROVE  IsUuid(FromText(t))
<1>1. t \in Seq(Octet)
  BY AdvertAssumption
<1>2. \A i \in 1 .. Len(t) : t[i] \in Octet /\ t[i] \in Int
  BY <1>1, OctetIs
<1>3. CASE Len(t) = 4
  <2>1. FromText(t) = [k \in 1 .. 2 |-> FromEnd(t, k)]
    BY <1>3 DEF FromText
  <2>2. \A k \in 1 .. 2 : FromEnd(t, k) \in Octet
    BY <1>2, <1>3, PairType DEF FromEnd
  <2> QED BY <2>1, <2>2 DEF IsUuid
<1>4. CASE Len(t) = 8
  <2>1. FromText(t) = [k \in 1 .. 4 |-> FromEnd(t, k)]
    BY <1>4 DEF FromText
  <2>2. \A k \in 1 .. 4 : FromEnd(t, k) \in Octet
    BY <1>2, <1>4, PairType DEF FromEnd
  <2> QED BY <2>1, <2>2 DEF IsUuid
<1>5. CASE Len(t) = 16
  <2>1. FromText(t) = [k \in 1 .. 16 |-> t[17 - k]]
    BY <1>5 DEF FromText
  <2>2. \A k \in 1 .. 16 : t[17 - k] \in Octet
    <3> SUFFICES ASSUME NEW k \in 1 .. 16 PROVE t[17 - k] \in Octet
      OBVIOUS
    <3>1. 17 - k \in 1 .. Len(t)
      BY <1>5
    <3> QED BY <1>2, <3>1
  <2> QED BY <2>1, <2>2 DEF IsUuid
<1>6. CASE Len(t) = 36
  <2>0. \A i \in 1 .. 36 : t[i] = Dash <=> i \in {9, 14, 19, 24}
    BY <1>6, AdvertAssumption DEF Dash
  <2>3. Starts(t) = Places
    BY <1>1, <1>6, <2>0, PairsFollow
  <2>1. FromText(t) = [k \in 1 .. 16 |-> Pair(t, Places[17 - k])]
    BY <1>6, <2>3 DEF FromText
  <2>2. \A k \in 1 .. 16 : Pair(t, Places[17 - k]) \in Octet
    BY <1>2, <1>6, PlacesType, PairType
  <2> QED BY <2>1, <2>2 DEF IsUuid
<1> QED BY <1>1, <1>3, <1>4, <1>5, <1>6 DEF FromText

LEMMA UuidsAre == \A u \in Uuids : IsUuid(u)
BY FromTextType DEF Uuids

LEMMA BaseType == Base \in Seq(Octet) /\ Len(Base) = 12
BY IsOctet DEF Base

LEMMA BehindIs ==
    ASSUME NEW u \in Seq(Octet)
    PROVE  /\ Base \o u \in Seq(Octet) /\ Len(Base \o u) = 12 + Len(u)
           /\ \A i \in 1 .. Len(u) : (Base \o u)[12 + i] = u[i]
<1>0. Base \in Seq(Octet) /\ Len(Base) = 12
  BY BaseType
<1>1. /\ Base \o u \in Seq(Octet) /\ Len(Base \o u) = Len(Base) + Len(u)
      /\ \A i \in 1 .. Len(Base) + Len(u) : (Base \o u)[i] = IF i <= Len(Base) THEN Base[i] ELSE u[i - Len(Base)]
  BY <1>0, ConcatProperties
<1>2. ASSUME NEW i \in 1 .. Len(u) PROVE (Base \o u)[12 + i] = u[i]
  <2>1. 12 + i \in 1 .. 12 + Len(u) /\ 12 + i - 12 = i /\ ~(12 + i <= 12)
    OBVIOUS
  <2> QED BY <1>0, <1>1, <2>1
<1> QED BY <1>0, <1>1, <1>2

(* All sizes become sixteen bytes, in which the shorter ones stand behind  *)
(* the base.                                                               *)
LEMMA To128Is ==
    ASSUME NEW u, IsUuid(u)
    PROVE  /\ To128(u) \in Seq(Octet) /\ Len(To128(u)) = 16
           /\ Len(u) = 16 => To128(u) = u
           /\ Len(u) # 16 => \A i \in 1 .. Len(u) : To128(u)[12 + i] = u[i]
<1>1. CASE Len(u) = 16
  BY <1>1 DEF To128, IsUuid
<1>2. CASE Len(u) = 4
  <2>1. To128(u) = Base \o u /\ u \in Seq(Octet)
    BY <1>2 DEF To128, IsUuid
  <2>2. Base \o u \in Seq(Octet) /\ Len(Base \o u) = 16 /\ \A i \in 1 .. 4 : (Base \o u)[12 + i] = u[i]
    <3>1. /\ Base \o u \in Seq(Octet) /\ Len(Base \o u) = 12 + Len(u)
          /\ \A i \in 1 .. Len(u) : (Base \o u)[12 + i] = u[i]
      BY <2>1, BehindIs
    <3> QED BY <1>2, <3>1
  <2> QED BY <1>2, <2>1, <2>2
<1>3. CASE Len(u) = 2
  <2>1. To128(u) = Base \o u \o <<0, 0>> /\ u \in Seq(Octet)
    BY <1>3 DEF To128, IsUuid
  <2>2. Base \o u \in Seq(Octet) /\ Len(Base \o u) = 14 /\ \A i \in 1 .. 2 : (Base \o u)[12 + i] = u[i]
    <3>1. /\ Base \o u \in Seq(Octet) /\ Len(Base \o u) = 12 + Len(u)
          /\ \A i \in 1 .. Len(u) : (Base \o u)[12 + i] = u[i]
      BY <2>1, BehindIs
    <3> QED BY <1>3, <3>1
  <2>3. <<0, 0>> \in Seq(Octet) /\ Len(<<0, 0>>) = 2
    BY IsOctet
  <2> DEFINE w == Base \o u
  <2> HIDE DEF w
  <2>4. w \in Seq(Octet) /\ Len(w) = 14
    BY <2>2 DEF w
  <2>5. /\ w \o <<0, 0>> \in Seq(Octet) /\ Len(w \o <<0, 0>>) = 16
        /\ \A i \in 1 .. 14 : (w \o <<0, 0>>)[i] = w[i]
    <3> DEFINE z == <<0, 0>>
    <3> HIDE DEF z
    <3>1. z \in Seq(Octet) /\ Len(z) = 2
      BY <2>3 DEF z
    <3>2. /\ w \o z \in Seq(Octet) /\ Len(w \o z) = Len(w) + Len(z)
          /\ \A i \in 1 .. Len(w) + Len(z) : (w \o z)[i] = IF i <= Len(w) THEN w[i] ELSE z[i - Len(w)]
      BY <2>4, <3>1, ConcatProperties
    <3>3. Len(w \o z) = 16
      BY <2>4, <3>1, <3>2
    <3>4. ASSUME NEW i \in 1 .. 14 PROVE (w \o z)[i] = w[i]
      <4>1. i \in 1 .. Len(w) + Len(z) /\ i <= Len(w)
        BY <2>4, <3>1
      <4> QED BY <3>2, <4>1
    <3> QED BY <3>2, <3>3, <3>4 DEF z
  <2>6. ASSUME NEW i \in 1 .. 2 PROVE To128(u)[12 + i] = u[i]
    <3>1. 12 + i \in 1 .. 14
      OBVIOUS
    <3> QED BY <2>1, <2>2, <2>5, <3>1 DEF w
  <2> QED BY <1>3, <2>1, <2>5, <2>6 DEF w
<1> QED BY <1>1, <1>2, <1>3 DEF IsUuid

LEMMA DigitIs == \A n \in 0 .. 15 : Digit(n) \in 48 .. 102 /\ Nibble(Digit(n)) = n
BY DEF Digit, Nibble

LEMMA HexDigitType ==
    ASSUME NEW u, IsUuid(u), NEW d \in 1 .. 32
    PROVE  HexDigit(u, d) \in 48 .. 102
<1> DEFINE byte == To128(u)[16 - (d - 1) \div 2]
<1>1. byte \in Octet
  <2>1. (d - 1) \div 2 \in 0 .. 15
    OBVIOUS
  <2>2. 16 - (d - 1) \div 2 \in 1 .. Len(To128(u))
    <3>1. Len(To128(u)) = 16
      BY To128Is
    <3> QED BY <2>1, <3>1
  <2> QED BY <2>2, To128Is, ElementOfSeq
<1> HIDE DEF byte
<1>2. byte \div 16 \in 0 .. 15 /\ byte % 16 \in 0 .. 15
  BY <1>1, Hex
<1>3. HexDigit(u, d) = Digit(IF d % 2 = 1 THEN byte \div 16 ELSE byte % 16)
  BY DEF HexDigit, byte
<1> QED BY <1>2, <1>3, DigitIs

LEMMA ToTextIs ==
    ASSUME NEW u, IsUuid(u)
    PROVE  /\ ToText(u) \in Seq(Octet) /\ Len(ToText(u)) = 36
           /\ \A i \in 1 .. 36 : ToText(u)[i] = Dash <=> i \in {9, 14, 19, 24}
<1>1. \A i \in 1 .. 36 : i \notin {9, 14, 19, 24} => i - DashesBefore(i) \in 1 .. 32
  BY DEF DashesBefore
<1>2. \A i \in 1 .. 36 : ToText(u)[i] = IF i \in {9, 14, 19, 24} THEN Dash ELSE HexDigit(u, i - DashesBefore(i))
  BY DEF ToText
<1>3. \A n \in 48 .. 102 : n \in Octet /\ n # Dash
  BY IsOctet DEF Dash
<1>4. Dash \in Octet
  BY IsOctet DEF Dash
<1>5. \A i \in 1 .. 36 : /\ ToText(u)[i] \in Octet
                         /\ ToText(u)[i] = Dash <=> i \in {9, 14, 19, 24}
  BY <1>1, <1>2, <1>3, <1>4, HexDigitType
<1>6. ToText(u) = [i \in 1 .. 36 |-> ToText(u)[i]]
  BY DEF ToText
<1> QED BY <1>5, <1>6

(* The two digits that stand for a byte.                                   *)
LEMMA DigitsOfByte ==
    ASSUME NEW u, IsUuid(u), NEW k \in 1 .. 16
    PROVE  /\ ToText(u)[Places[k]] = Digit(To128(u)[17 - k] \div 16)
           /\ ToText(u)[Places[k] + 1] = Digit(To128(u)[17 - k] % 16)
<1>1. /\ Places[k] \in 1 .. 36 \ {9, 14, 19, 24} /\ Places[k] + 1 \in 1 .. 36 \ {9, 14, 19, 24}
      /\ Places[k] - DashesBefore(Places[k]) = 2 * k - 1
      /\ (Places[k] + 1) - DashesBefore(Places[k] + 1) = 2 * k
  BY DEF Places, DashesBefore
<1> DEFINE at(i) == ToText(u)[i]
           digit(d) == HexDigit(u, d)
<1>2. ToText(u)[Places[k]] = HexDigit(u, 2 * k - 1) /\ ToText(u)[Places[k] + 1] = HexDigit(u, 2 * k)
  <2> DEFINE p == Places[k]
  <2> HIDE DEF p
  <2>1. /\ p \in 1 .. 36 \ {9, 14, 19, 24} /\ p + 1 \in 1 .. 36 \ {9, 14, 19, 24}
        /\ p - DashesBefore(p) = 2 * k - 1 /\ (p + 1) - DashesBefore(p + 1) = 2 * k
    BY <1>1 DEF p
  <2>2. \A i \in 1 .. 36 \ {9, 14, 19, 24} : at(i) = digit(i - DashesBefore(i))
    BY DEF ToText
  <2> HIDE DEF at, digit
  <2>3. at(p) = digit(p - DashesBefore(p))
    BY <2>1, <2>2
  <2>4. at(p + 1) = digit(2 * k)
    <3> DEFINE q == p + 1
    <3>1. q \in 1 .. 36 \ {9, 14, 19, 24} /\ q - DashesBefore(q) = 2 * k
      BY <2>1
    <3> HIDE DEF q
    <3>2. at(q) = digit(q - DashesBefore(q))
      BY <2>2, <3>1
    <3>3. at(q) = digit(2 * k)
      BY <3>1, <3>2
    <3> QED BY <3>3 DEF q
  <2> QED BY <2>1, <2>3, <2>4 DEF p, at, digit
<1>3. /\ (2 * k - 1) % 2 = 1 /\ (2 * k - 1 - 1) \div 2 = k - 1
      /\ (2 * k) % 2 = 0 /\ (2 * k - 1) \div 2 = k - 1 /\ 16 - (k - 1) = 17 - k
  OBVIOUS
<1> QED BY <1>2, <1>3 DEF HexDigit

(* What toString writes is read back as the same UUID, in its long form.   *)
LEMMA RoundTrip ==
    ASSUME NEW u, IsUuid(u)
    PROVE  FromText(ToText(u)) = To128(u)
<1> DEFINE text == ToText(u)
           w == To128(u)
<1>1. FromText(text) = [k \in 1 .. 16 |-> Pair(text, Places[17 - k])]
  <2>1. text \in Seq(Octet) /\ Len(text) = 36 /\ Starts(text) = Places
    BY ToTextIs, PairsFollow
  <2> HIDE DEF text
  <2> QED BY <2>1 DEF FromText
<1>2. ASSUME NEW k \in 1 .. 16 PROVE Pair(text, Places[17 - k]) = w[k]
  <2>1. 17 - k \in 1 .. 16 /\ 17 - (17 - k) = k
    OBVIOUS
  <2>2. text[Places[17 - k]] = Digit(w[k] \div 16) /\ text[Places[17 - k] + 1] = Digit(w[k] % 16)
    BY <2>1, DigitsOfByte
  <2>3. w[k] \in Octet
    BY To128Is
  <2> HIDE DEF w, text
  <2>4. w[k] \div 16 \in 0 .. 15 /\ w[k] % 16 \in 0 .. 15 /\ w[k] = (w[k] \div 16) * 16 + (w[k] % 16)
    BY <2>3, Hex
  <2>5. Nibble(Digit(w[k] \div 16)) = w[k] \div 16 /\ Nibble(Digit(w[k] % 16)) = w[k] % 16
    BY <2>4, DigitIs
  <2> QED BY <2>2, <2>4, <2>5 DEF Pair
<1>3. w = [k \in 1 .. 16 |-> w[k]]
  BY To128Is
<1> HIDE DEF w, text
<1>4. FromText(text) = w
  BY <1>1, <1>2, <1>3
<1> QED BY <1>4 DEF w, text

(* equals compares what it calls the long forms.                           *)
LEMMA EqualsIs ==
    ASSUME NEW u, NEW v, IsUuid(u), IsUuid(v)
    PROVE  Equals(u, v) <=> To128(u) = To128(v)
<1>1. u # NotSet /\ v # NotSet
  BY DEF IsUuid, NotSet
<1>2. CASE Len(u) # Len(v)
  <2>1. To128(u) = To128(v) => ToText(u) = ToText(v)
    BY DEF ToText, HexDigit
  <2>2. ToText(u) = ToText(v) => To128(u) = To128(v)
    BY RoundTrip
  <2> QED BY <1>1, <1>2, <2>1, <2>2 DEF Equals
<1>3. CASE Len(u) = Len(v)
  <2>1. ASSUME To128(u) = To128(v) PROVE u = v
    <3>1. \A i \in 1 .. Len(u) : u[i] = v[i]
      BY <1>3, <2>1, To128Is
    <3> QED BY <1>3, <3>1, SeqEqual DEF IsUuid
  <2> QED BY <1>1, <1>3, <2>1 DEF Equals
<1> QED BY <1>2, <1>3

-----------------------------------------------------------------------------
(* Records                                                                 *)

LEMMA BySizeIs ==
    ASSUME NEW u, IsUuid(u), NEW two, NEW four, NEW sixteen
    PROVE  /\ Len(u) = 2 => BySize(u, two, four, sixteen) = two
           /\ Len(u) = 4 => BySize(u, two, four, sixteen) = four
           /\ Len(u) = 16 => BySize(u, two, four, sixteen) = sixteen
BY DEF BySize

Sizes(r, two, four, sixteen) ==
    /\ r.type \in two \/ r.type \in four \/ r.type \in sixteen
    /\ r.type \in two => Len(r.uuid) = 2
    /\ r.type \in four => Len(r.uuid) = 4
    /\ r.type \in sixteen => Len(r.uuid) = 16

IsRecord(r) ==
    /\ r.type \in Octet /\ r.bytes \in Seq(Octet)
    /\ r.type = 1 => r.bytes = <<6>>
    /\ r.type = 25 => r.bytes = <<65, 3>>
    /\ r.type \in 2 .. 7 => IsUuid(r.uuid) /\ r.bytes = r.uuid /\ Sizes(r, {2, 3}, {4, 5}, {6, 7})
    /\ r.type \in {22, 32, 33} => /\ IsUuid(r.uuid) /\ Sizes(r, {22}, {32}, {33})
                                  /\ \E d \in Seq(Octet) : r.bytes = r.uuid \o d

LEMMA RecordsAre ==
    ASSUME NEW r \in Records
    PROVE  IsRecord(r)
<1>1. CASE r = Flags(6)
  <2>1. r.type = 1 /\ r.bytes = <<6>>
    BY <1>1 DEF Flags
  <2>2. 1 \in Octet /\ 6 \in Octet
    BY IsOctet
  <2> QED BY <2>1, <2>2 DEF IsRecord
<1>2. CASE r = Appearance(833)
  <2>1. r.type = 25 /\ r.bytes = <<65, 3>>
    BY <1>2 DEF Appearance
  <2>2. 25 \in Octet /\ 65 \in Octet /\ 3 \in Octet
    BY IsOctet
  <2> QED BY <2>1, <2>2 DEF IsRecord
<1>3. ASSUME NEW n \in Names, r = Name(n) \/ r = ShortName(n) PROVE IsRecord(r)
  <2>1. r.type \in {8, 9} /\ r.bytes = n /\ n \in Seq(Octet)
    BY <1>3, AdvertAssumption DEF Name, ShortName
  <2>2. 8 \in Octet /\ 9 \in Octet
    BY IsOctet
  <2> QED BY <2>1, <2>2 DEF IsRecord
<1>4. ASSUME NEW d \in Data, r = Manufacturer(d) PROVE IsRecord(r)
  <2>1. r.type = 255 /\ r.bytes = d /\ d \in Seq(Octet)
    BY <1>4, AdvertAssumption DEF Manufacturer
  <2>2. 255 \in Octet
    BY IsOctet
  <2> QED BY <2>1, <2>2 DEF IsRecord
<1>5. ASSUME NEW u \in Uuids, r = CompleteServices(u) \/ r = PartialServices(u) PROVE IsRecord(r)
  <2>1. IsUuid(u) /\ r.uuid = u /\ r.bytes = u
    BY <1>5, UuidsAre DEF CompleteServices, PartialServices
  <2>2. r.type = BySize(u, 3, 5, 7) \/ r.type = BySize(u, 2, 4, 6)
    BY <1>5 DEF CompleteServices, PartialServices
  <2>3. r.type \in 2 .. 7 /\ Sizes(r, {2, 3}, {4, 5}, {6, 7})
    BY <2>1, <2>2, BySizeIs DEF IsUuid, Sizes
  <2>4. \A t \in 2 .. 7 : t \in Octet
    BY IsOctet
  <2> QED BY <2>1, <2>3, <2>4 DEF IsRecord, IsUuid
<1>6. ASSUME NEW u \in Uuids, NEW d \in Data, r = ServiceData(u, d) PROVE IsRecord(r)
  <2>1. IsUuid(u) /\ r.uuid = u /\ r.bytes = u \o d /\ d \in Seq(Octet) /\ u \in Seq(Octet)
    BY <1>6, UuidsAre, AdvertAssumption DEF ServiceData, IsUuid
  <2>2. r.type = BySize(u, 22, 32, 33)
    BY <1>6 DEF ServiceData
  <2>3. r.type \in {22, 32, 33} /\ Sizes(r, {22}, {32}, {33})
    BY <2>1, <2>2, BySizeIs DEF IsUuid, Sizes
  <2>4. 22 \in Octet /\ 32 \in Octet /\ 33 \in Octet
    BY IsOctet
  <2>5. r.bytes \in Seq(Octet)
    BY <2>1, ConcatProperties
  <2>6. r.type \notin 2 .. 7 /\ r.type # 1 /\ r.type # 25 /\ r.type \in Octet
    BY <2>3, <2>4
  <2> QED BY <2>1, <2>3, <2>5, <2>6 DEF IsRecord
<1> QED BY <1>1, <1>2, <1>3, <1>4, <1>5, <1>6 DEF Records

(* What is added stands behind what was there.                             *)
LEMMA EncodedIs ==
    ASSUME NEW r, IsRecord(r), Len(r.bytes) + 1 <= 255
    PROVE  /\ Encoded(r) \in Seq(Octet) /\ Len(Encoded(r)) = Len(r.bytes) + 2
           /\ Encoded(r)[1] = Len(r.bytes) + 1 /\ Encoded(r)[2] = r.type
           /\ \A i \in 1 .. Len(r.bytes) : Encoded(r)[2 + i] = r.bytes[i]
<1> DEFINE head == <<Len(r.bytes) + 1, r.type>>
           bytes == r.bytes
<1>1. bytes \in Seq(Octet) /\ Len(bytes) \in Nat /\ Len(bytes) + 1 \in Octet /\ r.type \in Octet
  BY IsOctet DEF IsRecord
<1>2. head \in Seq(Octet) /\ Len(head) = 2 /\ head[1] = Len(bytes) + 1 /\ head[2] = r.type
  BY <1>1
<1>3. Encoded(r) = head \o bytes
  BY DEF Encoded
<1> HIDE DEF head, bytes
<1>4. /\ head \o bytes \in Seq(Octet) /\ Len(head \o bytes) = Len(head) + Len(bytes)
      /\ \A i \in 1 .. Len(head) + Len(bytes) : (head \o bytes)[i] = IF i <= Len(head) THEN head[i] ELSE bytes[i - Len(head)]
  BY <1>1, <1>2, ConcatProperties
<1>5. (head \o bytes)[1] = head[1] /\ (head \o bytes)[2] = head[2]
  BY <1>1, <1>2, <1>4
<1>6. ASSUME NEW i \in 1 .. Len(bytes) PROVE (head \o bytes)[2 + i] = bytes[i]
  <2>1. 2 + i \in 1 .. Len(head) + Len(bytes) /\ ~(2 + i <= Len(head)) /\ 2 + i - Len(head) = i
    BY <1>1, <1>2
  <2> QED BY <1>4, <2>1
<1>7. Len(head \o bytes) = Len(bytes) + 2
  BY <1>1, <1>2, <1>4
<1> QED BY <1>2, <1>3, <1>4, <1>5, <1>6, <1>7 DEF bytes

-----------------------------------------------------------------------------
(* One record taken apart                                                  *)

LEMMA OneService ==
    ASSUME NEW data \in Seq(Octet)
    PROVE  /\ Len(data) = 2 => UuidList(data, 2) = <<data>>
           /\ Len(data) = 4 => UuidList(data, 4) = <<data>>
           /\ Len(data) = 16 => SubSeq(data, 1, 16) = data
<1>0. SubSeq(data, 1, Len(data)) = data
  BY SubSeqFull
<1>1. CASE Len(data) = 2
  <2>1. UuidList(data, 2) = [k \in 1 .. 1 |-> SubSeq(data, 2 * (k - 1) + 1, 2 * k)]
    BY <1>1 DEF UuidList
  <2>2. \A k \in 1 .. 1 : SubSeq(data, 2 * (k - 1) + 1, 2 * k) = data
    BY <1>0, <1>1
  <2> QED BY <1>1, <2>1, <2>2
<1>2. CASE Len(data) = 4
  <2>1. UuidList(data, 4) = [k \in 1 .. 1 |-> SubSeq(data, 4 * (k - 1) + 1, 4 * k)]
    BY <1>2 DEF UuidList
  <2>2. \A k \in 1 .. 1 : SubSeq(data, 4 * (k - 1) + 1, 4 * k) = data
    BY <1>0, <1>2
  <2> QED BY <1>2, <2>1, <2>2
<1> QED BY <1>0, <1>1, <1>2

Flag   == Seq(Octet)
Number == Seq(0 .. 65535)
Values == Seq(Seq(Octet))

(* The device's type, in the prover's reach.                               *)
LEMMA DeviceIs ==
    Device = [flag : Flag, appearance : Number, name : Values, manufacturerData : Values,
              serviceUUIDs : Values, serviceDataUUID : Values, serviceData : Values]
BY DEF Device, Flag, Number, Values

(* What a record changes, and that it changes nothing else.                *)
Takes(dev, r, new) ==
    /\ new \in Device
    /\ new.name = IF r.type = 9 THEN Have(r.bytes) ELSE dev.name
    /\ new.manufacturerData = IF r.type = 255 THEN Have(r.bytes) ELSE dev.manufacturerData
    /\ new.flag = IF r.type = 1 THEN Have(6) ELSE dev.flag
    /\ new.appearance = IF r.type = 25 THEN Have(833) ELSE dev.appearance
    /\ new.serviceUUIDs = IF r.type \in 2 .. 7 THEN dev.serviceUUIDs \o <<r.uuid>> ELSE dev.serviceUUIDs
    /\ new.serviceDataUUID = IF r.type \in {22, 32, 33} THEN Have(r.uuid) ELSE dev.serviceDataUUID
    /\ r.type \in {22, 32, 33} => r.bytes = r.uuid \/ r.bytes = r.uuid \o new.serviceData[1]
    /\ r.type \notin {22, 32, 33} => new.serviceData = dev.serviceData

LEMMA ServiceDataTaken ==
    ASSUME device \in Device, NEW r, IsRecord(r), r.type \in {22, 32, 33}, NEW size \in {2, 4, 16}, Len(r.uuid) = size
    PROVE  Takes(device, r, WithServiceData(r.bytes, size))
<1> DEFINE u == r.uuid
           new == WithServiceData(r.bytes, size)
<1>0. device.serviceData \in Values
  BY DeviceIs
<1>1. PICK d \in Seq(Octet) : r.bytes = u \o d
  BY DEF IsRecord
<1>2. u \in Seq(Octet) /\ Len(u) = size /\ size \in Nat \ {0}
  BY DEF IsRecord, IsUuid
<1> HIDE DEF u, new
<1>3. u \o d \in Seq(Octet) /\ Len(u \o d) = size + Len(d) /\ Len(d) \in Nat
  BY <1>2, ConcatProperties
<1>4. SubSeq(u \o d, 1, size) = u
  <2>1. SubSeq(u \o d, 1, size) = SubSeq(u, 1, size)
    BY <1>2, SubSeqOfConcat1
  <2> QED BY <1>2, <2>1, SubSeqFull
<1>5. CASE Len(d) = 0
  <2>1. d = << >> /\ u \o d = u
    BY <1>2, <1>5, EmptySeq, ConcatEmptySeq
  <2>2. new = [device EXCEPT !.serviceDataUUID = Have(u), !.serviceData = device.serviceData]
    <3>1. ~(Len(u \o d) < size) /\ ~(Len(u \o d) > size)
      BY <1>2, <1>3, <1>5
    <3> QED BY <1>1, <1>4, <3>1 DEF WithServiceData, new
  <2>3. Have(u) \in Values
    BY <1>2 DEF Have, Values
  <2>4. new \in Device
    BY <1>0, <2>2, <2>3, DeviceIs
  <2>5. new.serviceDataUUID = Have(u)
    BY <2>2, DeviceIs
  <2>6. /\ new.name = device.name /\ new.manufacturerData = device.manufacturerData
        /\ new.flag = device.flag /\ new.appearance = device.appearance
        /\ new.serviceUUIDs = device.serviceUUIDs
    BY <2>2, DeviceIs
  <2>7. r.type \notin {1, 9, 25, 255} /\ r.type \notin 2 .. 7
    OBVIOUS
  <2> QED BY <1>1, <2>1, <2>3, <2>4, <2>5, <2>6, <2>7 DEF Takes, u, new
<1>6. CASE Len(d) # 0
  <2>1. SubSeq(u \o d, size + 1, Len(u \o d)) = d
    <3>1. /\ size + 1 \in Len(u) + 1 .. Len(u) + Len(d) /\ Len(u \o d) \in Len(u) + 1 .. Len(u) + Len(d)
          /\ size + 1 - Len(u) = 1 /\ Len(u \o d) - Len(u) = Len(d)
      BY <1>2, <1>3, <1>6
    <3>2. SubSeq(u \o d, size + 1, Len(u \o d)) = SubSeq(d, size + 1 - Len(u), Len(u \o d) - Len(u))
      BY <1>2, <3>1, SubSeqOfConcat2
    <3> QED BY <3>1, <3>2, SubSeqFull
  <2>2. new = [device EXCEPT !.serviceDataUUID = Have(u), !.serviceData = Have(d)]
    <3>1. Len(u \o d) > size /\ ~(Len(u \o d) < size)
      BY <1>2, <1>3, <1>6
    <3> QED BY <1>1, <1>4, <2>1, <3>1 DEF WithServiceData, new
  <2>3. Have(u) \in Values /\ Have(d) \in Values /\ Have(d)[1] = d
    BY <1>2 DEF Have, Values
  <2>4. new \in Device
    BY <1>0, <2>2, <2>3, DeviceIs
  <2>5. new.serviceDataUUID = Have(u) /\ new.serviceData = Have(d)
    BY <2>2, DeviceIs
  <2>6. /\ new.name = device.name /\ new.manufacturerData = device.manufacturerData
        /\ new.flag = device.flag /\ new.appearance = device.appearance
        /\ new.serviceUUIDs = device.serviceUUIDs
    BY <2>2, DeviceIs
  <2>7. r.type \notin {1, 9, 25, 255} /\ r.type \notin 2 .. 7
    OBVIOUS
  <2>8. r.bytes = u \o new.serviceData[1]
    BY <1>1, <2>3, <2>5
  <2> QED BY <2>4, <2>5, <2>6, <2>7, <2>8 DEF Takes, u, new
<1> QED BY <1>3, <1>5, <1>6 DEF new

LEMMA RecordTaken ==
    ASSUME device \in Device, NEW r, IsRecord(r)
    PROVE  Takes(device, r, Parsed(r.type, r.bytes))
<1> DEFINE new == Parsed(r.type, r.bytes)
<1>0. r.bytes \in Seq(Octet)
  BY DEF IsRecord
<1>1. CASE r.type = 9
  <2>1. new = [device EXCEPT !.name = Have(r.bytes)] /\ Have(r.bytes) \in Values
    BY <1>0, <1>1 DEF Parsed, Have, Values
  <2> HIDE DEF new
  <2>2. new \in Device
    BY <2>1, DeviceIs
  <2>3. new.name = Have(r.bytes)
    BY <2>1, DeviceIs
  <2>4. /\ new.manufacturerData = device.manufacturerData /\ new.flag = device.flag
        /\ new.appearance = device.appearance /\ new.serviceUUIDs = device.serviceUUIDs
        /\ new.serviceDataUUID = device.serviceDataUUID /\ new.serviceData = device.serviceData
    BY <2>1, DeviceIs
  <2>5. /\ r.type \notin {1, 9, 22, 25, 32, 33, 255} \ {9}
        /\ r.type \notin 2 .. 7
    BY <1>1
  <2> QED BY <1>1, <2>2, <2>3, <2>4, <2>5 DEF Takes, new
<1>2. CASE r.type = 25
  <2>1. r.bytes = <<65, 3>>
    BY <1>2 DEF IsRecord
  <2>2. new = [device EXCEPT !.appearance = Have(833)] /\ Have(833) \in Number
    BY <1>2, <2>1 DEF Parsed, Have, Number
  <2> HIDE DEF new
  <2>3. new \in Device
    BY <2>2, DeviceIs
  <2>4. new.appearance = Have(833)
    BY <2>2, DeviceIs
  <2>5. /\ new.name = device.name /\ new.manufacturerData = device.manufacturerData
        /\ new.flag = device.flag /\ new.serviceUUIDs = device.serviceUUIDs
        /\ new.serviceDataUUID = device.serviceDataUUID /\ new.serviceData = device.serviceData
    BY <2>2, DeviceIs
  <2>6. /\ r.type \notin {1, 9, 22, 25, 32, 33, 255} \ {25}
        /\ r.type \notin 2 .. 7
    BY <1>2
  <2> QED BY <1>2, <2>3, <2>4, <2>5, <2>6 DEF Takes, new
<1>3. CASE r.type = 1
  <2>1. r.bytes = <<6>>
    BY <1>3 DEF IsRecord
  <2>2. new = [device EXCEPT !.flag = Have(6)] /\ Have(6) \in Flag
    BY <1>3, <2>1, IsOctet DEF Parsed, Have, Flag
  <2> HIDE DEF new
  <2>3. new \in Device
    BY <2>2, DeviceIs
  <2>4. new.flag = Have(6)
    BY <2>2, DeviceIs
  <2>5. /\ new.name = device.name /\ new.manufacturerData = device.manufacturerData
        /\ new.appearance = device.appearance /\ new.serviceUUIDs = device.serviceUUIDs
        /\ new.serviceDataUUID = device.serviceDataUUID /\ new.serviceData = device.serviceData
    BY <2>2, DeviceIs
  <2>6. /\ r.type \notin {1, 9, 22, 25, 32, 33, 255} \ {1}
        /\ r.type \notin 2 .. 7
    BY <1>3
  <2> QED BY <1>3, <2>3, <2>4, <2>5, <2>6 DEF Takes, new
<1>4. CASE r.type = 255
  <2>1. new = [device EXCEPT !.manufacturerData = Have(r.bytes)] /\ Have(r.bytes) \in Values
    BY <1>0, <1>4 DEF Parsed, Have, Values
  <2> HIDE DEF new
  <2>2. new \in Device
    BY <2>1, DeviceIs
  <2>3. new.manufacturerData = Have(r.bytes)
    BY <2>1, DeviceIs
  <2>4. /\ new.name = device.name /\ new.flag = device.flag
        /\ new.appearance = device.appearance /\ new.serviceUUIDs = device.serviceUUIDs
        /\ new.serviceDataUUID = device.serviceDataUUID /\ new.serviceData = device.serviceData
    BY <2>1, DeviceIs
  <2>5. /\ r.type \notin {1, 9, 22, 25, 32, 33, 255} \ {255}
        /\ r.type \notin 2 .. 7
    BY <1>4
  <2> QED BY <1>4, <2>2, <2>3, <2>4, <2>5 DEF Takes, new
<1>5. CASE r.type \in 2 .. 7
  <2>1. r.bytes = r.uuid /\ Sizes(r, {2, 3}, {4, 5}, {6, 7})
    BY <1>5 DEF IsRecord
  <2>2. new = [device EXCEPT !.serviceUUIDs = device.serviceUUIDs \o <<r.uuid>>]
    <3>1. CASE r.type \in {2, 3}
      <4>1. UuidList(r.bytes, 2) = <<r.uuid>>
        BY <1>0, <2>1, <3>1, OneService DEF Sizes
      <4>2. new = [device EXCEPT !.serviceUUIDs = Services(r.type, UuidList(r.bytes, 2))]
        BY <3>1 DEF Parsed
      <4> QED BY <4>1, <4>2 DEF Services
    <3>2. CASE r.type \in {4, 5}
      <4>1. UuidList(r.bytes, 4) = <<r.uuid>>
        BY <1>0, <2>1, <3>2, OneService DEF Sizes
      <4>2. new = [device EXCEPT !.serviceUUIDs = Services(r.type, UuidList(r.bytes, 4))]
        BY <3>2 DEF Parsed
      <4> QED BY <4>1, <4>2 DEF Services
    <3>3. CASE r.type \in {6, 7}
      <4>1. SubSeq(r.bytes, 1, 16) = r.uuid
        BY <1>0, <2>1, <3>3, OneService DEF Sizes
      <4>2. new = [device EXCEPT !.serviceUUIDs = Services(r.type, <<SubSeq(r.bytes, 1, 16)>>)]
        BY <3>3 DEF Parsed
      <4> QED BY <4>1, <4>2 DEF Services
    <3> QED BY <2>1, <3>1, <3>2, <3>3 DEF Sizes
  <2>3. device.serviceUUIDs \o <<r.uuid>> \in Values
    <3>1. device.serviceUUIDs \in Values /\ <<r.uuid>> \in Values
      BY <1>0, <2>1, DeviceIs DEF Values
    <3> QED BY <3>1, ConcatProperties DEF Values
  <2> HIDE DEF new
  <2> DEFINE longer == device.serviceUUIDs \o <<r.uuid>>
  <2> HIDE DEF longer
  <2>4. new = [device EXCEPT !.serviceUUIDs = longer] /\ longer \in Values
    BY <2>2, <2>3 DEF longer
  <2>5. r.type \notin {1, 9, 22, 25, 32, 33, 255}
    BY <1>5
  <2>6. new \in Device
    BY <2>4, DeviceIs
  <2>7. new.serviceUUIDs = longer
    BY <2>4, DeviceIs
  <2>8. /\ new.name = device.name /\ new.manufacturerData = device.manufacturerData
        /\ new.flag = device.flag /\ new.appearance = device.appearance
        /\ new.serviceDataUUID = device.serviceDataUUID /\ new.serviceData = device.serviceData
    BY <2>4, DeviceIs
  <2> QED BY <1>5, <2>5, <2>6, <2>7, <2>8 DEF Takes, longer, new
<1>6. CASE r.type = 22
  <2>1. new = WithServiceData(r.bytes, 2) /\ Len(r.uuid) = 2
    BY <1>6 DEF Parsed, IsRecord, Sizes
  <2> QED BY <1>6, <2>1, ServiceDataTaken
<1>7. CASE r.type = 32
  <2>1. new = WithServiceData(r.bytes, 4) /\ Len(r.uuid) = 4
    BY <1>7 DEF Parsed, IsRecord, Sizes
  <2> QED BY <1>7, <2>1, ServiceDataTaken
<1>8. CASE r.type = 33
  <2>1. new = WithServiceData(r.bytes, 16) /\ Len(r.uuid) = 16
    BY <1>8 DEF Parsed, IsRecord, Sizes
  <2> QED BY <1>8, <2>1, ServiceDataTaken
<1>9. CASE r.type \notin {1, 9, 22, 25, 32, 33, 255} \cup 2 .. 7
  <2>1. new = device
    BY <1>9 DEF Parsed
  <2> HIDE DEF new
  <2>2. r.type \notin {1, 9, 22, 25, 32, 33, 255} /\ r.type \notin 2 .. 7
    BY <1>9
  <2> QED BY <2>1, <2>2 DEF Takes, new
<1> QED BY <1>1, <1>2, <1>3, <1>4, <1>5, <1>6, <1>7, <1>8, <1>9

-----------------------------------------------------------------------------
(* From the first n records to the first n + 1                             *)

LEMMA LastStep ==
    ASSUME NEW recs, NEW kinds, NEW n \in Nat
    PROVE  LastBy(recs, kinds, n + 1) =
             IF recs[n + 1].type \in kinds THEN {n + 1} ELSE LastBy(recs, kinds, n)
<1> DEFINE last(k, m) == recs[k].type \in kinds /\ \A j \in k + 1 .. m : recs[j].type \notin kinds
<1>1. ASSUME NEW k \in 1 .. n
      PROVE  last(k, n + 1) <=> last(k, n) /\ recs[n + 1].type \notin kinds
  <2>1. k + 1 .. n + 1 = (k + 1 .. n) \cup {n + 1}
    OBVIOUS
  <2> QED BY <2>1
<1>2. last(n + 1, n + 1) <=> recs[n + 1].type \in kinds
  <2>1. (n + 1) + 1 .. n + 1 = {}
    OBVIOUS
  <2> QED BY <2>1
<1>3. 1 .. n + 1 = (1 .. n) \cup {n + 1}
  OBVIOUS
<1>4. \A m : LastBy(recs, kinds, m) = {k \in 1 .. m : last(k, m)}
  BY DEF LastBy
<1> HIDE DEF last
<1> QED BY <1>1, <1>2, <1>3, <1>4

LEMMA NoneYet ==
    ASSUME NEW dev, NEW recs, NEW others, ServicesBy(dev, recs, 0), FieldsBy(dev, recs, 0)
    PROVE  ServicesBy(dev, others, 0) /\ FieldsBy(dev, others, 0)
<1>1. \A kinds : LastBy(recs, kinds, 0) = {} /\ LastBy(others, kinds, 0) = {}
  BY DEF LastBy
<1>2. ServicesBy(dev, others, 0)
  <2>1. \A q : {q[k].uuid : k \in {j \in 1 .. 0 : q[j].type \in 2 .. 7}} = {}
    OBVIOUS
  <2> QED BY <2>1 DEF ServicesBy
<1>3. FieldsBy(dev, others, 0)
  <2>1. dev.flag = Absent /\ dev.appearance = Absent /\ dev.name = Absent
    BY <1>1 DEF FieldsBy
  <2>2. ServiceDataBy(dev, others, 0)
    BY <1>1 DEF ServiceDataBy
  <2> QED BY <1>1, <2>1, <2>2 DEF FieldsBy
<1> QED BY <1>2, <1>3

LEMMA NextServices ==
    ASSUME NEW dev \in Device, NEW recs, NEW n \in Nat, NEW new,
           Takes(dev, recs[n + 1], new), ServicesBy(dev, recs, n)
    PROVE  ServicesBy(new, recs, n + 1)
<1> DEFINE uuids == {recs[k].uuid : k \in {j \in 1 .. n : recs[j].type \in 2 .. 7}}
           more == {recs[k].uuid : k \in {j \in 1 .. n + 1 : recs[j].type \in 2 .. 7}}
           s == dev.serviceUUIDs
           u == recs[n + 1].uuid
<1>1. 1 .. n + 1 = (1 .. n) \cup {n + 1}
  OBVIOUS
<1>2. CASE recs[n + 1].type \in 2 .. 7
  <2>1. more = uuids \cup {u}
    BY <1>1, <1>2
  <2>2. new.serviceUUIDs = s \o <<u>> /\ new.serviceUUIDs \in Values
    BY <1>2, DeviceIs DEF Takes
  <2>3. s \in Values
    BY DeviceIs
  <2>4. DOMAIN s = 1 .. Len(s) /\ Len(s) \in Nat
    BY <2>3 DEF Values
  <2> HIDE DEF s, u, uuids, more
  <2>5. /\ DOMAIN (s \o <<u>>) = (1 .. Len(s)) \cup {Len(s) + 1}
        /\ \A i \in 1 .. Len(s) : (s \o <<u>>)[i] = s[i]
        /\ (s \o <<u>>)[Len(s) + 1] = u
    <3>1. s \in Seq(Seq(Octet) \cup {u}) /\ <<u>> \in Seq(Seq(Octet) \cup {u}) /\ Len(<<u>>) = 1 /\ <<u>>[1] = u
      BY <2>3, SeqMonotonic DEF Values
    <3> DEFINE one == <<u>>
    <3> HIDE DEF one
    <3>2. /\ s \o one \in Seq(Seq(Octet) \cup {u}) /\ Len(s \o one) = Len(s) + Len(one)
          /\ \A i \in 1 .. Len(s) + Len(one) : (s \o one)[i] = IF i <= Len(s) THEN s[i] ELSE one[i - Len(s)]
      BY <3>1, ConcatProperties DEF one
    <3>3. Len(one) = 1 /\ one[1] = u
      BY <3>1 DEF one
    <3>4. DOMAIN (s \o one) = 1 .. Len(s) + 1
      BY <2>4, <3>2, <3>3
    <3>5. 1 .. Len(s) + 1 = (1 .. Len(s)) \cup {Len(s) + 1}
      BY <2>4
    <3>6. \A i \in 1 .. Len(s) : (s \o one)[i] = s[i]
      BY <2>4, <3>2, <3>3
    <3>7. (s \o one)[Len(s) + 1] = u
      BY <2>4, <3>2, <3>3
    <3> QED BY <3>4, <3>5, <3>6, <3>7 DEF one
  <2> DEFINE t == s \o <<u>>
  <2> HIDE DEF t
  <2>6. {t[i] : i \in DOMAIN t} = {s[i] : i \in DOMAIN s} \cup {u}
    BY <2>4, <2>5 DEF t
  <2>7. {s[i] : i \in DOMAIN s} = uuids
    BY DEF ServicesBy, s, uuids
  <2>8. {new.serviceUUIDs[i] : i \in DOMAIN new.serviceUUIDs} = more
    BY <2>1, <2>2, <2>6, <2>7 DEF t
  <2> QED BY <2>8 DEF ServicesBy, more
<1>3. CASE recs[n + 1].type \notin 2 .. 7
  <2>1. more = uuids
    BY <1>1, <1>3
  <2>2. new.serviceUUIDs = s
    BY <1>3 DEF Takes
  <2> QED BY <2>1, <2>2 DEF ServicesBy
<1> QED BY <1>2, <1>3

LEMMA NextFields ==
    ASSUME NEW dev, NEW recs, NEW n \in Nat, NEW new,
           Takes(dev, recs[n + 1], new), FieldsBy(dev, recs, n)
    PROVE  FieldsBy(new, recs, n + 1)
<1> DEFINE r == recs[n + 1]
           before(kinds) == LastBy(recs, kinds, n)
           after(kinds) == LastBy(recs, kinds, n + 1)
<1>1. \A kinds : after(kinds) = IF r.type \in kinds THEN {n + 1} ELSE before(kinds)
  BY LastStep
<1>2. /\ \A k \in before({9}) : dev.name = Have(recs[k].bytes)
      /\ \A k \in before({255}) : dev.manufacturerData = Have(recs[k].bytes)
      /\ dev.flag = IF before({1}) = {} THEN Absent ELSE Have(6)
      /\ dev.appearance = IF before({25}) = {} THEN Absent ELSE Have(833)
      /\ before({9}) = {} => dev.name = Absent
  BY DEF FieldsBy
<1>3. \A k \in before({22, 32, 33}) :
        /\ dev.serviceDataUUID = Have(recs[k].uuid)
        /\ recs[k].bytes # recs[k].uuid => recs[k].bytes = recs[k].uuid \o dev.serviceData[1]
  BY DEF FieldsBy, ServiceDataBy
<1> HIDE DEF before, after
<1>4. \A k \in after({9}) : new.name = Have(recs[k].bytes)
  BY <1>1, <1>2 DEF Takes
<1>5. \A k \in after({255}) : new.manufacturerData = Have(recs[k].bytes)
  BY <1>1, <1>2 DEF Takes
<1>6. new.flag = IF after({1}) = {} THEN Absent ELSE Have(6)
  <2>1. after({1}) = IF r.type = 1 THEN {n + 1} ELSE before({1})
    BY <1>1
  <2>2. new.flag = IF r.type = 1 THEN Have(6) ELSE dev.flag
    BY DEF Takes
  <2> QED BY <1>2, <2>1, <2>2
<1>7. new.appearance = IF after({25}) = {} THEN Absent ELSE Have(833)
  <2>1. after({25}) = IF r.type = 25 THEN {n + 1} ELSE before({25})
    BY <1>1
  <2>2. new.appearance = IF r.type = 25 THEN Have(833) ELSE dev.appearance
    BY DEF Takes
  <2> QED BY <1>2, <2>1, <2>2
<1>8. after({9}) = {} => new.name = Absent
  BY <1>1, <1>2 DEF Takes
<1>9. \A k \in after({22, 32, 33}) :
        /\ new.serviceDataUUID = Have(recs[k].uuid)
        /\ recs[k].bytes # recs[k].uuid => recs[k].bytes = recs[k].uuid \o new.serviceData[1]
  <2>1. after({22, 32, 33}) = IF r.type \in {22, 32, 33} THEN {n + 1} ELSE before({22, 32, 33})
    BY <1>1
  <2>2. CASE r.type \in {22, 32, 33}
    <3>1. new.serviceDataUUID = Have(r.uuid) /\ (r.bytes = r.uuid \/ r.bytes = r.uuid \o new.serviceData[1])
      BY <2>2 DEF Takes
    <3>2. \A k \in after({22, 32, 33}) : recs[k] = r
      BY <2>1, <2>2
    <3> HIDE DEF r
    <3> QED BY <3>1, <3>2
  <2>3. CASE r.type \notin {22, 32, 33}
    <3>1. new.serviceDataUUID = dev.serviceDataUUID /\ new.serviceData = dev.serviceData
      BY <2>3 DEF Takes
    <3> QED BY <1>3, <2>1, <2>3, <3>1
  <2> QED BY <2>2, <2>3
<1> QED BY <1>4, <1>5, <1>6, <1>7, <1>8, <1>9 DEF FieldsBy, ServiceDataBy, after

(* Another record behind the others leaves them where they are.            *)
LEMMA LaidOutBehind ==
    ASSUME NEW stream \in Seq(Octet), NEW recs \in Seq(Records), NEW cut, LaidOut(stream, recs, cut),
           NEW r \in Records, Len(r.bytes) + 1 <= 255
    PROVE  \E c : LaidOut(stream \o Encoded(r), Append(recs, r), c)
<1> DEFINE e == Encoded(r)
           longer == stream \o e
           more == Append(recs, r)
           N == Len(recs)
           c == [k \in 0 .. N + 1 |-> IF k = N + 1 THEN Len(longer) ELSE cut[k]]
<1>0. IsRecord(r)
  BY RecordsAre
<1>1. /\ e \in Seq(Octet) /\ Len(e) = Len(r.bytes) + 2 /\ Len(r.bytes) \in Nat
      /\ e[1] = Len(r.bytes) + 1 /\ e[2] = r.type
      /\ \A i \in 1 .. Len(r.bytes) : e[2 + i] = r.bytes[i]
  <2>1. Len(r.bytes) \in Nat
    BY <1>0 DEF IsRecord
  <2> QED BY <1>0, <2>1, EncodedIs
<1>2. /\ more \in Seq(Records) /\ Len(more) = N + 1 /\ more[N + 1] = r
      /\ \A k \in 1 .. N : more[k] = recs[k]
  BY AppendProperties
<1>3. N \in Nat /\ Len(stream) \in Nat
  OBVIOUS
<1> HIDE DEF e
<1>4. /\ longer \in Seq(Octet) /\ Len(longer) = Len(stream) + Len(e)
      /\ \A i \in 1 .. Len(stream) + Len(e) : longer[i] = IF i <= Len(stream) THEN stream[i] ELSE e[i - Len(stream)]
  BY <1>1, ConcatProperties
<1>5. \A i \in 1 .. Len(stream) : longer[i] = stream[i]
  BY <1>1, <1>3, <1>4
<1>6. ASSUME NEW i \in 1 .. Len(e) PROVE longer[Len(stream) + i] = e[i]
  <2>1. /\ Len(stream) + i \in 1 .. Len(stream) + Len(e) /\ ~(Len(stream) + i <= Len(stream))
        /\ Len(stream) + i - Len(stream) = i
    BY <1>1, <1>3
  <2> QED BY <1>4, <2>1
<1> HIDE DEF longer, more, N
<1>7. /\ cut \in [0 .. N -> 0 .. Len(stream)] /\ cut[0] = 0 /\ cut[N] = Len(stream)
      /\ \A k \in 1 .. N : cut[k] = cut[k - 1] + 2 + Len(recs[k].bytes) /\ StandsAt(stream, cut[k - 1], recs[k])
  BY DEF LaidOut, N
<1> DEFINE L == Len(stream)
           B == Len(r.bytes)
           M == Len(longer)
<1>8. L \in Nat /\ B \in Nat /\ M \in Nat /\ M = L + 2 + B
  <2>1. Len(longer) = Len(stream) + Len(e) /\ Len(e) = B + 2 /\ B \in Nat /\ L \in Nat
    BY <1>1, <1>3, <1>4
  <2> HIDE DEF B
  <2> QED BY <2>1
<1>9. c \in [0 .. N + 1 -> 0 .. Len(longer)]
  <2> HIDE DEF L, B, M
  <2>1. M \in 0 .. M
    BY <1>8
  <2>2. ASSUME NEW k \in 0 .. N + 1, k # N + 1 PROVE cut[k] \in 0 .. M
    <3>1. k \in 0 .. N
      BY <1>3, <2>2
    <3>2. cut[k] \in 0 .. L
      BY <1>7, <3>1 DEF L
    <3> QED BY <1>8, <3>2
  <2> QED BY <2>1, <2>2 DEF M
<1>10. c[0] = 0 /\ c[N + 1] = Len(longer) /\ \A k \in 0 .. N : c[k] = cut[k]
  BY <1>3, <1>7
<1> HIDE DEF c
<1>11. ASSUME NEW k \in 1 .. N + 1
       PROVE  c[k] = c[k - 1] + 2 + Len(more[k].bytes) /\ StandsAt(longer, c[k - 1], more[k])
  <2>1. CASE k = N + 1
    <3>1. c[k - 1] = Len(stream) /\ more[k] = r /\ c[k] = Len(longer)
      <4>1. N \in Nat /\ more[N + 1] = r
        BY <1>2, <1>3 DEF N
      <4>2. k - 1 = N /\ N \in 0 .. N
        BY <2>1, <4>1
      <4> QED BY <1>7, <1>10, <2>1, <4>1, <4>2
    <3>2. 1 \in 1 .. Len(e) /\ 2 \in 1 .. Len(e)
      BY <1>1
    <3>3. longer[Len(stream) + 1] = Len(r.bytes) + 1 /\ longer[Len(stream) + 2] = r.type
      BY <1>1, <1>6, <3>2
    <3>4. ASSUME NEW i \in 1 .. Len(r.bytes) PROVE longer[Len(stream) + 2 + i] = r.bytes[i]
      <4>1. 2 + i \in 1 .. Len(e) /\ Len(stream) + (2 + i) = Len(stream) + 2 + i
        BY <1>1, <1>3
      <4>2. longer[Len(stream) + (2 + i)] = e[2 + i]
        BY <1>6, <4>1
      <4> QED BY <1>1, <4>1, <4>2
    <3> QED BY <1>8, <3>1, <3>3, <3>4 DEF StandsAt
  <2>2. CASE k # N + 1
    <3>1. k \in 1 .. N /\ k \in 0 .. N /\ k - 1 \in 0 .. N
      BY <1>3, <2>2
    <3>2. more[k] = recs[k] /\ c[k] = cut[k] /\ c[k - 1] = cut[k - 1]
      BY <1>2, <1>10, <3>1 DEF N
    <3> DEFINE q == recs[k]
               from == cut[k - 1]
    <3>3. cut[k] = from + 2 + Len(q.bytes) /\ StandsAt(stream, from, q)
      BY <1>7, <3>1
    <3>4. from \in Nat /\ cut[k] \in Nat /\ cut[k] <= Len(stream)
      BY <1>3, <1>7, <3>1
    <3>5. Len(q.bytes) \in Nat
      <4>1. q \in Records
        BY <3>1 DEF N
      <4> QED BY <4>1, RecordsAre DEF IsRecord
    <3> DEFINE Q == Len(q.bytes)
    <3> HIDE DEF q, from, Q, L
    <3>6. from \in Nat /\ Q \in Nat /\ L \in Nat /\ from + 2 + Q <= L
      BY <1>8, <3>3, <3>4, <3>5 DEF Q, L
    <3>7. from + 1 \in 1 .. L /\ from + 2 \in 1 .. L /\ \A i \in 1 .. Q : from + 2 + i \in 1 .. L
      BY <3>6
    <3>8. StandsAt(longer, from, q)
      BY <1>5, <3>3, <3>7 DEF StandsAt, Q, L
    <3> QED BY <3>2, <3>3, <3>8 DEF q, from
  <2> QED BY <2>1, <2>2
<1>12. LaidOut(longer, more, c)
  BY <1>2, <1>9, <1>10, <1>11 DEF LaidOut, N
<1> QED BY <1>12 DEF longer, more, e
-----------------------------------------------------------------------------
(* The invariant                                                           *)

LEMMA AdvertInvInit == AdvertInit => AdvertInv
<1> SUFFICES ASSUME AdvertInit PROVE AdvertInv
  OBVIOUS
<1> USE DEF AdvertInit
<1> DEFINE cut == [k \in 0 .. 0 |-> 0]
<1>1. AdvertTypeOK
  <2>1. 0 \in Octet
    BY IsOctet
  <2>2. device.flag = << >> /\ device.appearance = << >>
    BY DEF Absent
  <2>3. device \in Device
    <3>1. << >> \in Flag /\ << >> \in Number /\ << >> \in Values
      BY DEF Flag, Number, Values
    <3>2. device = [flag |-> << >>, appearance |-> << >>, name |-> << >>, manufacturerData |-> << >>,
                    serviceUUIDs |-> << >>, serviceDataUUID |-> << >>, serviceData |-> << >>]
      BY DEF Absent
    <3> QED BY ONLY <3>1, <3>2, DeviceIs
  <2> QED BY <2>1, <2>3, AdvertAssumption DEF AdvertTypeOK
<1>2. Stages
  BY DEF Stages
<1>3. LaidOut(air \o payload, put, cut)
  <2>1. air \o payload = << >> /\ Len(put) = 0 /\ Len(<< >>) = 0
    BY ConcatEmptySeq
  <2> QED BY <2>1 DEF LaidOut
<1>4. ScannedTo(cut, 0)
  <2>1. \A kinds : LastBy(put, kinds, 0) = {}
    BY DEF LastBy
  <2>2. ServicesBy(device, put, 0)
    BY DEF ServicesBy
  <2>3. FieldsBy(device, put, 0)
    BY <2>1 DEF FieldsBy, ServiceDataBy
  <2> QED BY <2>2, <2>3 DEF ScannedTo
<1>5. 0 \in 0 .. Len(put)
  OBVIOUS
<1> QED BY <1>1, <1>2, <1>3, <1>4, <1>5 DEF AdvertInv, Scanned

LEMMA EncodedLength ==
    ASSUME NEW r, IsRecord(r)
    PROVE  Len(Encoded(r)) = Len(r.bytes) + 2 /\ Len(r.bytes) \in Nat
<1> DEFINE head == <<Len(r.bytes) + 1, r.type>>
           bytes == r.bytes
<1>1. bytes \in Seq(Octet) /\ Len(bytes) \in Nat /\ r.type \in Octet
  BY DEF IsRecord
<1>2. bytes \in Seq(Int) /\ r.type \in Int
  <2>1. Octet \subseteq Int
    BY OctetIs
  <2> QED BY <1>1, <2>1, SeqMonotonic
<1>3. head \in Seq(Int) /\ Len(head) = 2
  BY <1>1, <1>2
<1> HIDE DEF head
<1>4. Len(head \o bytes) = Len(head) + Len(bytes)
  BY <1>2, <1>3, ConcatProperties
<1> QED BY <1>1, <1>3, <1>4 DEF Encoded, head

LEMMA AddKeeps ==
    ASSUME AdvertInv, Add
    PROVE  AdvertInv'
<1>1. PICK r \in Records : /\ payload' = AddData(Encoded(r))
                           /\ put' = IF payload' = payload THEN put ELSE Append(put, r)
  BY DEF Add
<1>2. PICK cut : LaidOut(air \o payload, put, cut) /\ \E n \in 0 .. Len(put) : ScannedTo(cut, n)
  BY DEF AdvertInv, Scanned
<1>3. /\ stage \in {"advertisement", "response"} /\ calls < MaxRecords /\ calls' = calls + 1
      /\ stage' = stage /\ air' = air /\ payloadPtr' = payloadPtr /\ sizeConsumed' = sizeConsumed /\ device' = device
  BY DEF Add
<1>4. ScannedTo(cut, 0)
  BY <1>2, <1>3 DEF ScannedTo
<1>5. AdvertTypeOK /\ Stages
  BY DEF AdvertInv
<1>6. air \in Seq(Octet) /\ payload \in Seq(Octet) /\ put \in Seq(Records) /\ Len(put) <= calls /\ calls \in Nat
  BY <1>5 DEF AdvertTypeOK
<1>7. Len(Encoded(r)) = Len(r.bytes) + 2 /\ Len(r.bytes) \in Nat
  BY RecordsAre, EncodedLength
<1>8. Stages'
  BY <1>3, <1>5 DEF Stages
<1>9. CASE Len(payload) + Len(Encoded(r)) > MaxPayload
  <2>1. payload' = payload /\ put' = put
    BY <1>1, <1>9 DEF AddData
  <2>2. AdvertTypeOK'
    BY <1>3, <1>5, <2>1, AdvertAssumption DEF AdvertTypeOK
  <2>3. Scanned'
    BY <1>2, <1>3, <2>1 DEF Scanned, ScannedTo
  <2> QED BY <1>8, <2>2, <2>3 DEF AdvertInv
<1>10. CASE ~(Len(payload) + Len(Encoded(r)) > MaxPayload)
  <2>1. Len(r.bytes) + 1 <= 255 /\ Len(payload) + Len(Encoded(r)) <= MaxPayload
    BY <1>5, <1>7, <1>10, AdvertAssumption DEF AdvertTypeOK
  <2>2. Encoded(r) \in Seq(Octet)
    BY <2>1, RecordsAre, EncodedIs
  <2>3. /\ payload' = payload \o Encoded(r) /\ payload' \in Seq(Octet)
        /\ Len(payload') = Len(payload) + Len(Encoded(r))
    BY <1>1, <1>6, <1>10, <2>2, ConcatProperties DEF AddData
  <2>4. payload' # payload
    BY <1>6, <1>7, <2>3
  <2>5. put' = Append(put, r) /\ put' \in Seq(Records) /\ Len(put') = Len(put) + 1
    BY <1>1, <1>6, <2>4, AppendProperties
  <2>6. AdvertTypeOK'
    <3>1. calls' \in 0 .. MaxRecords /\ Len(put') <= calls'
      BY <1>3, <1>6, <2>5, AdvertAssumption
    <3> QED BY <1>3, <1>5, <2>1, <2>3, <2>5, <3>1 DEF AdvertTypeOK
  <2>7. air' \o payload' = (air \o payload) \o Encoded(r)
    BY <1>3, <1>6, <2>2, <2>3, ConcatAssociative
  <2>8. air \o payload \in Seq(Octet)
    BY <1>6, ConcatProperties
  <2>9. PICK c : LaidOut((air \o payload) \o Encoded(r), Append(put, r), c)
    BY <1>2, <1>6, <2>1, <2>8, LaidOutBehind
  <2>10. ServicesBy(device, put', 0) /\ FieldsBy(device, put', 0)
    BY <1>4, NoneYet DEF ScannedTo
  <2>11. c[0] = 0 /\ cut[0] = 0
    BY <1>2, <2>9 DEF LaidOut
  <2>12. ScannedTo(c, 0)'
    BY <1>3, <1>4, <2>10, <2>11 DEF ScannedTo
  <2>13. LaidOut(air' \o payload', put', c) /\ 0 \in 0 .. Len(put')
    BY <2>5, <2>7, <2>9, <1>6
  <2>14. Scanned'
    BY <2>12, <2>13 DEF Scanned
  <2> QED BY <1>8, <2>6, <2>14 DEF AdvertInv
<1> QED BY <1>9, <1>10

LEMMA PublishKeeps ==
    ASSUME AdvertInv, Publish
    PROVE  AdvertInv'
<1>1. PICK cut : LaidOut(air \o payload, put, cut) /\ \E n \in 0 .. Len(put) : ScannedTo(cut, n)
  BY DEF AdvertInv, Scanned
<1>2. /\ stage \in {"advertisement", "response"}
      /\ stage' = IF stage = "advertisement" THEN "response" ELSE "scan"
      /\ air' = air \o payload /\ payload' = << >>
      /\ calls' = calls /\ put' = put
      /\ payloadPtr' = payloadPtr /\ sizeConsumed' = sizeConsumed /\ device' = device
  BY DEF Publish
<1>3. ScannedTo(cut, 0)
  BY <1>1, <1>2 DEF ScannedTo
<1>4. AdvertTypeOK /\ Stages
  BY DEF AdvertInv
<1>5. /\ air \in Seq(Octet) /\ payload \in Seq(Octet) /\ Len(payload) <= MaxPayload
      /\ put \in Seq(Records) /\ MaxPayload \in Nat
  BY <1>4, AdvertAssumption DEF AdvertTypeOK
<1>6. air' \in Seq(Octet) /\ Len(air') = Len(air) + Len(payload)
  BY <1>2, <1>5, ConcatProperties
<1>7. Len(air) <= MaxPayload /\ (stage = "advertisement" => Len(air) = 0)
  BY <1>2, <1>4, <1>5 DEF Stages
<1>8. AdvertTypeOK'
  <2>1. Len(air') <= 2 * MaxPayload
    BY <1>5, <1>6, <1>7
  <2>2. payload' \in Seq(Octet) /\ Len(payload') <= MaxPayload
    BY <1>2, <1>5
  <2> QED BY <1>2, <1>4, <1>6, <2>1, <2>2 DEF AdvertTypeOK
<1>9. Stages'
  <2>1. stage' = "response" => Len(air') <= MaxPayload
    BY <1>2, <1>5, <1>6, <1>7
  <2> QED BY <1>2, <2>1 DEF Stages
<1>10. LaidOut(air' \o payload', put', cut)
  <2>1. air' \o payload' = air \o payload
    BY <1>2, <1>6, ConcatEmptySeq
  <2> QED BY <1>1, <1>2, <2>1
<1>11. ScannedTo(cut, 0)'
  <2>1. 0 < Len(put) \/ Len(air') = 0
    BY <1>1, <1>2, <1>5 DEF LaidOut
  <2> QED BY <1>2, <1>3, <2>1 DEF ScannedTo
<1>12. 0 \in 0 .. Len(put')
  BY <1>2, <1>5
<1>13. Scanned'
  BY <1>10, <1>11, <1>12 DEF Scanned
<1> QED BY <1>8, <1>9, <1>13 DEF AdvertInv

(* Where the parser stands, it reads the next record as it was put.        *)
LEMMA RecordRead ==
    ASSUME AdvertTypeOK, NEW cut, LaidOut(air, put, cut), NEW n \in 0 .. Len(put), n < Len(put)
    PROVE  LET r == put[n + 1]
           IN  /\ ByteAt(cut[n] + 1) = Len(r.bytes) + 1 /\ ByteAt(cut[n] + 2) = r.type
               /\ Bytes(cut[n] + 2, Len(r.bytes)) = r.bytes
               /\ cut[n + 1] = cut[n] + 2 + Len(r.bytes)
               /\ cut[n] \in Nat /\ Len(r.bytes) \in Nat /\ cut[n + 1] <= Len(air)
               /\ n + 1 < Len(put) => cut[n + 1] < Len(air)
               /\ n + 1 = Len(put) => cut[n + 1] = Len(air)
<1> DEFINE r == put[n + 1]
           from == cut[n]
           L == Len(air)
           B == Len(r.bytes)
<1>1. air \in Seq(Octet) /\ put \in Seq(Records) /\ Len(put) \in Nat /\ L \in Nat
  BY DEF AdvertTypeOK
<1>2. n + 1 \in 1 .. Len(put) /\ n + 1 \in 0 .. Len(put) /\ (n + 1) - 1 = n
  BY <1>1
<1>3. r \in Records
  BY <1>1, <1>2, ElementOfSeq
<1>4. r.bytes \in Seq(Octet) /\ B \in Nat
  BY <1>3, RecordsAre DEF IsRecord
<1>5. /\ cut[n + 1] = from + 2 + B /\ StandsAt(air, from, r)
      /\ from \in 0 .. L /\ cut[n + 1] \in 0 .. L /\ cut[Len(put)] = L
  BY <1>2 DEF LaidOut
<1>6. /\ air[from + 1] = B + 1 /\ air[from + 2] = r.type
      /\ \A i \in 1 .. B : air[from + 2 + i] = r.bytes[i]
  BY <1>5 DEF StandsAt
<1>7. ASSUME n + 1 < Len(put) PROVE cut[n + 1] < L
  <2> DEFINE m == n + 1
             Q == Len(put[m + 1].bytes)
  <2>1. m + 1 \in 1 .. Len(put) /\ m + 1 \in 0 .. Len(put) /\ (m + 1) - 1 = m
    BY <1>1, <1>7
  <2>2. cut[m + 1] = cut[m] + 2 + Q /\ cut[m + 1] \in 0 .. L
    BY <2>1 DEF LaidOut
  <2>3. Q \in Nat
    <3>1. put[m + 1] \in Records
      BY <1>1, <2>1, ElementOfSeq
    <3> QED BY <3>1, RecordsAre DEF IsRecord
  <2>5. cut[m] \in 0 .. L
    BY <1>5
  <2> HIDE DEF Q, L, from, m
  <2>4. cut[m] \in Nat
    BY <1>1, <2>5
  <2>6. cut[m] < L
    BY <1>1, <2>2, <2>3, <2>4
  <2> QED BY <2>6 DEF m
<1> HIDE DEF r, from, L, B
<1>8. from + 1 <= L /\ from + 2 <= L /\ \A i \in 1 .. B : from + 2 + i <= L
  BY <1>1, <1>4, <1>5
<1>9. \A i \in 1 .. B : ByteAt(from + 2 + i) = r.bytes[i]
  BY <1>6, <1>8 DEF ByteAt, L
<1>10. ByteAt(from + 1) = B + 1 /\ ByteAt(from + 2) = r.type
  BY <1>6, <1>8 DEF ByteAt, L
<1>11. Bytes(from + 2, B) = r.bytes
  <2>1. r.bytes = [k \in 1 .. B |-> r.bytes[k]]
    BY <1>4 DEF B
  <2> QED BY <1>9, <2>1 DEF Bytes
<1>12. n + 1 = Len(put) => cut[n + 1] = L
  BY <1>5
<1>13. from \in Nat /\ cut[n + 1] <= L
  BY <1>1, <1>5
<1> QED BY <1>4, <1>5, <1>7, <1>10, <1>11, <1>12, <1>13 DEF r, from, L, B

LEMMA ParseKeeps ==
    ASSUME AdvertInv, ParseRecord
    PROVE  AdvertInv'
<1> DEFINE length == ByteAt(payloadPtr + 1)
<1>1. /\ stage = "scan"
      /\ sizeConsumed' = (sizeConsumed + Skipped(length)) % 256
      /\ payloadPtr' = payloadPtr + 1 + length
      /\ device' = IF length = 0 THEN device ELSE Parsed(ByteAt(payloadPtr + 2), Bytes(payloadPtr + 2, length - 1))
      /\ stage' = IF sizeConsumed' >= Len(air) THEN "done" ELSE "scan"
      /\ payload' = payload /\ air' = air /\ calls' = calls /\ put' = put
  BY DEF ParseRecord
<1>2. AdvertTypeOK /\ Stages
  BY DEF AdvertInv
<1>3. payload = << >> /\ air \in Seq(Octet) /\ Len(air) <= 2 * MaxPayload /\ MaxPayload \in 1 .. 127
      /\ put \in Seq(Records) /\ Len(put) \in Nat /\ Len(air) \in Nat /\ device \in Device
  BY <1>1, <1>2, AdvertAssumption DEF AdvertTypeOK, Stages
<1>4. air \o payload = air
  BY <1>3, ConcatEmptySeq
<1>5. PICK cut : LaidOut(air, put, cut) /\ \E n \in 0 .. Len(put) : ScannedTo(cut, n)
  BY <1>4 DEF AdvertInv, Scanned
<1>6. PICK n \in 0 .. Len(put) : ScannedTo(cut, n)
  BY <1>5
<1>7. payloadPtr = cut[n] /\ sizeConsumed = cut[n] /\ (n < Len(put) \/ Len(air) = 0)
      /\ ServicesBy(device, put, n) /\ FieldsBy(device, put, n)
  BY <1>1, <1>6 DEF ScannedTo
<1>8. Stages'
  BY <1>1, <1>3 DEF Stages
<1>9. LaidOut(air' \o payload', put', cut)
  BY <1>1, <1>4, <1>5
<1>10. ASSUME payloadPtr' \in 0 .. 2 * MaxPayload + 1, sizeConsumed' \in 0 .. 255, device' \in Device
       PROVE  AdvertTypeOK'
  BY <1>1, <1>2, <1>10 DEF AdvertTypeOK, Octet
<1>11. CASE n < Len(put)
  <2> DEFINE r == put[n + 1]
             B == Len(r.bytes)
             end == cut[n + 1]
  <2>1. /\ length = B + 1 /\ ByteAt(payloadPtr + 2) = r.type /\ Bytes(payloadPtr + 2, B) = r.bytes
        /\ end = cut[n] + 2 + B /\ cut[n] \in Nat /\ B \in Nat /\ end <= Len(air)
        /\ (n + 1 < Len(put) => end < Len(air)) /\ (n + 1 = Len(put) => end = Len(air))
    BY <1>2, <1>5, <1>7, <1>11, RecordRead
  <2>2. IsRecord(r)
    <3>1. n + 1 \in 1 .. Len(put)
      BY <1>3, <1>11
    <3> QED BY <1>3, <3>1, ElementOfSeq, RecordsAre
  <2> HIDE DEF length, r, B, end
  <2>3. end \in Nat /\ end <= 254
    BY <1>3, <2>1
  <2>4. payloadPtr' = end /\ sizeConsumed' = end
    <3>1. payloadPtr' = end
      BY <1>1, <1>7, <2>1, <2>3
    <3>2. sizeConsumed + Skipped(length) = end
      BY <1>7, <2>1, <2>3 DEF Skipped
    <3>3. sizeConsumed' = end % 256
      BY <1>1, <3>2
    <3> QED BY <2>3, <3>1, <3>3
  <2>5. device' = Parsed(r.type, r.bytes)
    <3>1. length # 0 /\ length - 1 = B
      BY <2>1
    <3> QED BY <1>1, <2>1, <3>1
  <2>6. Takes(device, r, device')
    BY <1>3, <2>2, <2>5, RecordTaken
  <2>7. ServicesBy(device', put, n + 1)
    BY <1>3, <1>7, <2>6, NextServices DEF r
  <2>8. FieldsBy(device', put, n + 1)
    BY <1>7, <2>6, NextFields DEF r
  <2>9. stage' = IF n + 1 = Len(put) THEN "done" ELSE "scan"
    BY <1>1, <1>3, <1>11, <2>1, <2>3, <2>4
  <2>10. ScannedTo(cut, n + 1)'
    <3>1. n + 1 \in 0 .. Len(put) /\ (n + 1 # Len(put) => n + 1 < Len(put))
      BY <1>3, <1>11
    <3> QED BY <1>1, <2>4, <2>7, <2>8, <2>9, <3>1 DEF ScannedTo, end
  <2>11. n + 1 \in 0 .. Len(put')
    BY <1>1, <1>3, <1>11
  <2>12. Scanned'
    BY <1>9, <2>10, <2>11 DEF Scanned
  <2>13. AdvertTypeOK'
    <3>1. device' \in Device
      BY <2>6 DEF Takes
    <3>2. end \in 0 .. 255
      BY <2>3
    <3>3. end <= 2 * MaxPayload + 1 /\ 2 * MaxPayload + 1 \in Nat
      BY <1>3, <2>1, <2>3
    <3>4. end \in 0 .. 2 * MaxPayload + 1
      BY <2>3, <3>3
    <3> QED BY <1>10, <2>4, <3>1, <3>2, <3>4
  <2> QED BY <1>8, <2>12, <2>13 DEF AdvertInv
<1>12. CASE ~(n < Len(put))
  <2>1. n = Len(put) /\ Len(air) = 0 /\ cut[n] = 0
    BY <1>3, <1>5, <1>7, <1>12 DEF LaidOut
  <2>2. length = 0
    BY <1>7, <2>1 DEF ByteAt
  <2> HIDE DEF length
  <2>3. payloadPtr' = 1 /\ sizeConsumed' = 1 /\ device' = device /\ stage' = "done"
    <3>1. sizeConsumed' = 1
      BY <1>1, <1>7, <2>1, <2>2 DEF Skipped
    <3> QED BY <1>1, <1>7, <2>1, <2>2, <3>1
  <2>4. AdvertTypeOK'
    BY <1>3, <1>10, <2>3
  <2>5. ScannedTo(cut, n)'
    BY <1>1, <1>7, <2>1, <2>3 DEF ScannedTo
  <2>6. Scanned'
    BY <1>1, <1>9, <2>5 DEF Scanned
  <2> QED BY <1>8, <2>4, <2>6 DEF AdvertInv
<1> QED BY <1>11, <1>12

LEMMA AdvertInvNext == AdvertInv /\ [AdvertNext]_advertVars => AdvertInv'
<1> SUFFICES ASSUME AdvertInv, [AdvertNext]_advertVars PROVE AdvertInv'
  OBVIOUS
<1>1. CASE Add
  BY <1>1, AddKeeps
<1>2. CASE Publish
  BY <1>2, PublishKeeps
<1>3. CASE ParseRecord
  BY <1>3, ParseKeeps
<1>4. CASE UNCHANGED advertVars
  <2>1. /\ stage' = stage /\ payload' = payload /\ air' = air /\ calls' = calls /\ put' = put
        /\ payloadPtr' = payloadPtr /\ sizeConsumed' = sizeConsumed /\ device' = device
    BY <1>4 DEF advertVars
  <2>2. AdvertTypeOK' /\ Stages'
    BY <2>1 DEF AdvertInv, AdvertTypeOK, Stages
  <2>3. Scanned'
    BY <2>1 DEF AdvertInv, Scanned, ScannedTo
  <2> QED BY <2>2, <2>3 DEF AdvertInv
<1> QED BY <1>1, <1>2, <1>3, <1>4 DEF AdvertNext

(* Where the advertisement stands on the air, record behind record, and    *)
(* what the device has taken of it, holds in every state.                  *)
THEOREM AdvertInvariant == AdvertSpec => []AdvertInv
BY AdvertInvInit, AdvertInvNext, PTL DEF AdvertSpec

(* No payload is longer than the controller takes, two of them are never   *)
(* longer than the report, and every field of the device is made of bytes  *)
(* (BLEAdvertising.cpp:269-274, BLEAdvertisedDevice.cpp:233-361).          *)
THEOREM AdvertTyped == AdvertSpec => []AdvertTypeOK
<1>1. AdvertInv => AdvertTypeOK
  BY DEF AdvertInv
<1> QED BY <1>1, AdvertInvariant, PTL

(* parseAdvertisement counts the bytes twice, in a pointer and in a byte:  *)
(* they agree at every turn, and no turn begins behind the report          *)
(* (BLEAdvertisedDevice.cpp:233-361).                                      *)
THEOREM ParserKeepsCount == AdvertSpec => []ParserInStep
<1>1. ASSUME AdvertInv PROVE ParserInStep
  <2> SUFFICES ASSUME stage = "scan" PROVE sizeConsumed = payloadPtr /\ payloadPtr <= Len(air)
    BY DEF ParserInStep
  <2>1. payload = << >> /\ air \in Seq(Octet) /\ Len(air) \in Nat
    BY <1>1 DEF AdvertInv, Stages, AdvertTypeOK
  <2>2. PICK cut : LaidOut(air \o payload, put, cut) /\ \E n \in 0 .. Len(put) : ScannedTo(cut, n)
    BY <1>1 DEF AdvertInv, Scanned
  <2>3. PICK n \in 0 .. Len(put) : ScannedTo(cut, n)
    BY <2>2
  <2>4. LaidOut(air, put, cut)
    BY <2>1, <2>2, ConcatEmptySeq
  <2>5. cut[n] \in 0 .. Len(air)
    BY <2>4 DEF LaidOut
  <2>6. payloadPtr = cut[n] /\ sizeConsumed = cut[n]
    BY <2>3 DEF ScannedTo
  <2> QED BY <2>1, <2>5, <2>6
<1> QED BY <1>1, AdvertInvariant, PTL

(* The device's services are those of records, and UUIDs.                  *)
LEMMA ServicesOf ==
    ASSUME AdvertInv
    PROVE  /\ \A i \in DOMAIN device.serviceUUIDs :
                \E k \in DOMAIN put : put[k].type \in 2 .. 7 /\ device.serviceUUIDs[i] = put[k].uuid
           /\ stage = "done" =>
                \A k \in DOMAIN put : put[k].type \in 2 .. 7 =>
                  \E i \in DOMAIN device.serviceUUIDs : device.serviceUUIDs[i] = put[k].uuid
           /\ \A k \in DOMAIN put : put[k].type \in 2 .. 7 => IsUuid(put[k].uuid)
<1> DEFINE services == device.serviceUUIDs
<1>1. put \in Seq(Records) /\ DOMAIN put = 1 .. Len(put) /\ Len(put) \in Nat
  BY DEF AdvertInv, AdvertTypeOK
<1>2. PICK n \in 0 .. Len(put) : ServicesBy(device, put, n) /\ (stage = "done" => n = Len(put))
  BY DEF AdvertInv, Scanned, ScannedTo
<1>3. {services[i] : i \in DOMAIN services} = {put[k].uuid : k \in {j \in 1 .. n : put[j].type \in 2 .. 7}}
  BY <1>2 DEF ServicesBy
<1> HIDE DEF services
<1>4. 1 .. n \subseteq DOMAIN put
  BY <1>1
<1>5. ASSUME NEW i \in DOMAIN services
      PROVE  \E k \in DOMAIN put : put[k].type \in 2 .. 7 /\ services[i] = put[k].uuid
  <2>1. services[i] \in {services[j] : j \in DOMAIN services}
    OBVIOUS
  <2>2. PICK k \in {j \in 1 .. n : put[j].type \in 2 .. 7} : services[i] = put[k].uuid
    BY <1>3, <2>1
  <2> QED BY <1>4, <2>2
<1>6. ASSUME stage = "done", NEW k \in DOMAIN put, put[k].type \in 2 .. 7
      PROVE  \E i \in DOMAIN services : services[i] = put[k].uuid
  <2>1. k \in {j \in 1 .. n : put[j].type \in 2 .. 7}
    BY <1>1, <1>2, <1>6
  <2>2. put[k].uuid \in {services[i] : i \in DOMAIN services}
    BY <1>3, <2>1
  <2> QED BY <2>2
<1>7. \A k \in DOMAIN put : put[k].type \in 2 .. 7 => IsUuid(put[k].uuid)
  BY <1>1, ElementOfSeq, RecordsAre DEF IsRecord
<1> QED BY <1>5, <1>6, <1>7 DEF services

(* A program that looks for a service finds the device when the service    *)
(* was put into one of its payloads, in any of the ways to write it, and   *)
(* only then: what BLEAdvertisementData composed, parseAdvertisement takes *)
(* apart again, and isAdvertisingService compares what the UUIDs mean      *)
(* (BLEAdvertising.cpp, BLEAdvertisedDevice.cpp:141, BLEUUID.cpp:equals).  *)
THEOREM AdvertFindsServices == AdvertSpec => []ServicesFound
<1>1. ASSUME AdvertInv PROVE ServicesFound
  <2> SUFFICES ASSUME stage = "done", NEW t \in Texts, FromText(t) # NotSet
               PROVE  IsAdvertisingService(FromText(t)) <=>
                        \E k \in DOMAIN put : put[k].type \in 2 .. 7 /\ To128(put[k].uuid) = To128(FromText(t))
    BY DEF ServicesFound
  <2> DEFINE u == FromText(t)
             services == device.serviceUUIDs
  <2>1. IsUuid(u)
    BY FromTextType
  <2>2. /\ \A i \in DOMAIN services : \E k \in DOMAIN put : put[k].type \in 2 .. 7 /\ services[i] = put[k].uuid
        /\ \A k \in DOMAIN put : put[k].type \in 2 .. 7 =>
             \E i \in DOMAIN services : services[i] = put[k].uuid
        /\ \A k \in DOMAIN put : put[k].type \in 2 .. 7 => IsUuid(put[k].uuid)
    BY <1>1, ServicesOf
  <2> HIDE DEF u, services
  <2>3. ASSUME NEW i \in DOMAIN services, Equals(services[i], u)
        PROVE  \E k \in DOMAIN put : put[k].type \in 2 .. 7 /\ To128(put[k].uuid) = To128(u)
    <3>1. PICK k \in DOMAIN put : put[k].type \in 2 .. 7 /\ services[i] = put[k].uuid
      BY <2>2
    <3> QED BY <2>1, <2>2, <2>3, <3>1, EqualsIs
  <2>4. ASSUME NEW k \in DOMAIN put, put[k].type \in 2 .. 7, To128(put[k].uuid) = To128(u)
        PROVE  \E i \in DOMAIN services : Equals(services[i], u)
    <3>1. PICK i \in DOMAIN services : services[i] = put[k].uuid
      BY <2>2, <2>4
    <3> QED BY <2>1, <2>2, <2>4, <3>1, EqualsIs
  <2> QED BY <2>3, <2>4 DEF IsAdvertisingService, u, services
<1> QED BY <1>1, AdvertInvariant, PTL

(* Every other field has what the last record of its kind said, but for    *)
(* service data without data bytes, whatever the records around it and     *)
(* however the payloads divide them                                        *)
(* (BLEAdvertisedDevice.cpp:parseAdvertisement).                           *)
THEOREM AdvertReadsFields == AdvertSpec => []FieldsRead
<1>1. ASSUME AdvertInv PROVE FieldsRead
  <2> SUFFICES ASSUME stage = "done" PROVE FieldsRead
    BY DEF FieldsRead
  <2>1. put \in Seq(Records) /\ DOMAIN put = 1 .. Len(put)
    BY <1>1 DEF AdvertInv, AdvertTypeOK
  <2>2. FieldsBy(device, put, Len(put))
    BY <1>1 DEF AdvertInv, Scanned, ScannedTo
  <2>3. \A kinds : LastBy(put, kinds, Len(put)) = LastOf(kinds)
    BY <2>1 DEF LastBy, LastOf
  <2>4. Absent # Have(6) /\ Absent # Have(833)
    BY DEF Absent, Have
  <2>5. /\ \A k \in LastOf({9}) : device.name = Have(put[k].bytes)
        /\ \A k \in LastOf({255}) : device.manufacturerData = Have(put[k].bytes)
        /\ LastOf({9}) = {} => device.name = Absent
    BY <2>2, <2>3 DEF FieldsBy
  <2>6. /\ LastOf({1}) # {} <=> device.flag = Have(6)
        /\ LastOf({25}) # {} <=> device.appearance = Have(833)
    BY <2>2, <2>3, <2>4 DEF FieldsBy
  <2>7. \A k \in LastOf({22, 32, 33}) :
          /\ device.serviceDataUUID = Have(put[k].uuid)
          /\ put[k].bytes # put[k].uuid => put[k].bytes = put[k].uuid \o device.serviceData[1]
    <3>1. ServiceDataBy(device, put, Len(put))
      BY <2>2 DEF FieldsBy
    <3>2. LastBy(put, {22, 32, 33}, Len(put)) = LastOf({22, 32, 33})
      BY <2>3
    <3> HIDE DEF LastOf
    <3> QED BY <3>1, <3>2 DEF ServiceDataBy
  <2> QED BY <2>5, <2>6, <2>7 DEF FieldsRead
<1> QED BY <1>1, AdvertInvariant, PTL

(* The UUID of a service the device has found is the same after it was     *)
(* written as text and read again, whatever its size (BLEUUID.cpp:74-127,  *)
(* 358-405).                                                               *)
THEOREM AdvertTextKeepsUuid == AdvertSpec => []TextKeepsUuid
<1>1. ASSUME AdvertInv PROVE TextKeepsUuid
  <2> SUFFICES ASSUME NEW k \in DOMAIN device.serviceUUIDs
               PROVE  Equals(FromText(ToText(device.serviceUUIDs[k])), device.serviceUUIDs[k])
    BY DEF TextKeepsUuid
  <2> DEFINE u == device.serviceUUIDs[k]
  <2>1. IsUuid(u)
    BY <1>1, ServicesOf
  <2> HIDE DEF u
  <2>2. FromText(ToText(u)) = To128(u) /\ IsUuid(To128(u)) /\ To128(To128(u)) = To128(u)
    <3>1. IsUuid(To128(u)) /\ Len(To128(u)) = 16
      BY <2>1, To128Is DEF IsUuid
    <3> QED BY <2>1, <3>1, RoundTrip, To128Is
  <2>3. Equals(FromText(ToText(u)), u)
    BY <2>1, <2>2, EqualsIs
  <2> QED BY <2>3 DEF u
<1> QED BY <1>1, AdvertInvariant, PTL

-----------------------------------------------------------------------------
(* Access to a characteristic                                              *)

USE AccessAssumption DEF AccessAssumption

-----------------------------------------------------------------------------
(* The inductive invariants                                                *)

(* A phone whose read nobody disturbed has got the value up to the offset, *)
(* or all of it.                                                           *)
SoFar ==
    \A p \in Phones : ~disturbed[p] =>
      /\ st[p] = "reading" => /\ readOffset <= Len(value)
                              /\ reading[p] = [k \in 1 .. readOffset |-> value[k]]
      /\ st[p] = "done" => reading[p] = value

(* The accumulated parts are those that nothing has ended.                 *)
Parts == accumulation = unfinished

(* While an indication to the only phone is neither confirmed nor its      *)
(* phone gone, the semaphore is taken, and the only confirmations on their *)
(* way are of this indication.                                             *)
Waiting ==
    pc = "confirm" /\ alone /\ ~sound =>
      /\ taken
      /\ peers \subseteq {target}
      /\ confs \in Seq({<<target, "indication">>})

IInv == ValueTypeOK /\ SoFar /\ Parts /\ Waiting
-----------------------------------------------------------------------------
(* Type correctness of the values                                          *)

(* Offsets are multiples of a block.                                       *)
Offsets == {MaxOffset * k : k \in 0 .. 3}

LEMMA OffsetsOK ==
  /\ 0 \in Offsets /\ MaxOffset \in Offsets
  /\ \A o \in Offsets : o \in Nat /\ (o < Longest => o + MaxOffset \in Offsets)
<1>1. Offsets = {0, MaxOffset, 2 * MaxOffset, 3 * MaxOffset}
  <2>1. 0 .. 3 = {0, 1, 2, 3}
    OBVIOUS
  <2>2. MaxOffset * 0 = 0 /\ MaxOffset * 1 = MaxOffset /\ MaxOffset * 2 = 2 * MaxOffset
        /\ MaxOffset * 3 = 3 * MaxOffset
    OBVIOUS
  <2> QED BY <2>1, <2>2 DEF Offsets
<1>2. MaxOffset \in Nat \ {0}
  OBVIOUS
<1> QED BY <1>1, <1>2 DEF Longest

(* The bytes of an answer are bytes, also those behind the value.          *)
LEMMA AnswerType ==
  ASSUME value \in Seq(Byte), NEW from \in Nat, NEW n \in Nat
  PROVE  /\ Answer(from, n) \in Seq(Byte) /\ Len(Answer(from, n)) = n
         /\ \A k \in 1 .. n : from + k <= Len(value) => Answer(from, n)[k] = value[from + k]
<1>1. ASSUME NEW k \in 1 .. n PROVE At(from + k) \in Byte
  BY DEF At, Byte
<1>2. Answer(from, n) \in [1 .. n -> Byte]
  BY <1>1 DEF Answer
<1>3. \A k \in 1 .. n : from + k <= Len(value) => Answer(from, n)[k] = value[from + k]
  BY DEF Answer, At
<1> QED BY <1>2, <1>3

LEMMA NewType ==
  ASSUME ValueTypeOK, NEW n \in Nat, Make(n)
  PROVE  New(n) \in Seq(Byte) /\ made' \in 0 .. MaxMade
<1>1. made + 1 \in 1 .. MaxMade /\ made' = made + 1
  BY DEF ValueTypeOK, Make
<1>2. \A k \in 1 .. n : <<made + 1, k>> \in Byte
  BY <1>1 DEF Byte
<1>3. New(n) \in [1 .. n -> Byte]
  BY <1>2 DEF New
<1> QED BY <1>1, <1>3

LEMMA InitIInv == Init => IInv
<1> SUFFICES ASSUME Init PROVE IInv
  OBVIOUS
<1>1. ValueTypeOK
  BY OffsetsOK DEF Init, ValueTypeOK, Offsets
<1> QED BY <1>1 DEF Init, IInv, SoFar, Parts, Waiting

(* What a phone disturbs, and what is left alone.                          *)
LEMMA Disturbs ==
  ASSUME ValueTypeOK, NEW S, Disturb(S)
  PROVE  /\ disturbed' \in [Phones -> BOOLEAN]
         /\ \A p \in Phones : ~disturbed'[p] => ~disturbed[p] /\ (p \notin S \/ st[p] = "idle")
  BY DEF Disturb, ValueTypeOK

LEMMA Forgets ==
  ASSUME ValueTypeOK, NEW p \in Phones, ForgetRead(p)
  PROVE  /\ st' \in [Phones -> {"idle", "reading", "done"}] /\ st'[p] = "idle"
         /\ reading' \in [Phones -> Seq(Byte)] /\ disturbed' \in [Phones -> BOOLEAN]
         /\ \A q \in Phones : q # p =>
              st'[q] = st[q] /\ reading'[q] = reading[q] /\ disturbed'[q] = disturbed[q]
<1>1. << >> \in Seq(Byte)
  OBVIOUS
<1> QED BY <1>1 DEF ForgetRead, ValueTypeOK

(* What a request for the next block answers with: a short block when the  *)
(* value ends in it.                                                       *)
Block == IF LastInChain THEN Len(value) - readOffset ELSE MaxOffset

LEMMA BlockOK ==
  ASSUME ValueTypeOK
  PROVE  /\ Block \in Nat /\ (LastInChain <=> Block < MaxOffset)
         /\ value \in Seq(Byte) /\ Len(value) \in Nat /\ readOffset \in Nat
<1>1. value \in Seq(Byte) /\ Len(value) \in Nat /\ readOffset \in Nat
  BY OffsetsOK DEF Offsets, ValueTypeOK
<1>2. CASE LastInChain
  <2>1. Len(value) - readOffset \in 0 .. MaxOffset - 1
    BY <1>2 DEF LastInChain
  <2>2. Block = Len(value) - readOffset
    BY <1>2 DEF Block
  <2> HIDE DEF Block, LastInChain
  <2> QED BY <1>1, <1>2, <2>1, <2>2
<1>3. CASE ~LastInChain
  <2>1. Block = MaxOffset
    BY <1>3 DEF Block
  <2> QED BY <1>1, <1>3, <2>1
<1> QED BY <1>2, <1>3

LEMMA NextValueTypeOK == ValueTypeOK /\ [Next]_vars => ValueTypeOK'
<1> SUFFICES ASSUME ValueTypeOK, [Next]_vars PROVE ValueTypeOK'
  OBVIOUS
<1> USE DEF ValueTypeOK
<1>1. /\ value \in Seq(Byte) /\ Len(value) \in Nat /\ readOffset \in Nat /\ MaxOffset \in Nat
  BY OffsetsOK DEF Offsets
<1>2. ASSUME NEW p \in Phones, ReadFirst(p) PROVE ValueTypeOK'
  <2>1. PICK n \in Nat : reading' = [reading EXCEPT ![p] = Answer(0, n)]
                         /\ st' = [st EXCEPT ![p] = IF n < MaxOffset THEN "done" ELSE "reading"]
    BY <1>1, <1>2 DEF ReadFirst
  <2>2. Answer(0, n) \in Seq(Byte)
    BY <1>1, AnswerType
  <2>3. readOffset' \in {MaxOffset * k : k \in 0 .. 3}
    BY <1>2, OffsetsOK DEF ReadFirst, Offsets
  <2>4. disturbed' \in [Phones -> BOOLEAN]
    BY <1>2, Disturbs DEF ReadFirst
  <2>5. reading' \in [Phones -> Seq(Byte)] /\ st' \in [Phones -> {"idle", "reading", "done"}]
    <3>1. (IF n < MaxOffset THEN "done" ELSE "reading") \in {"idle", "reading", "done"}
      OBVIOUS
    <3> QED BY <2>1, <2>2, <3>1
  <2> QED BY <1>2, <2>3, <2>4, <2>5 DEF ReadFirst
<1>3. ASSUME NEW p \in Phones, ReadLong(p) PROVE ValueTypeOK'
  <2>1. /\ reading' = [reading EXCEPT ![p] = @ \o Answer(readOffset, Block)]
        /\ st' = [st EXCEPT ![p] = IF Block < MaxOffset THEN "done" ELSE "reading"]
    BY <1>3 DEF ReadLong, Block
  <2>2. reading[p] \o Answer(readOffset, Block) \in Seq(Byte)
    <3>1. Block \in Nat /\ reading[p] \in Seq(Byte)
      BY BlockOK
    <3>2. Answer(readOffset, Block) \in Seq(Byte)
      BY <1>1, <3>1, AnswerType
    <3> QED BY <3>1, <3>2, ConcatProperties
  <2>3. readOffset' \in {MaxOffset * k : k \in 0 .. 3}
    BY <1>3, OffsetsOK DEF ReadLong, ReadOffsetAfter, Offsets
  <2>4. disturbed' \in [Phones -> BOOLEAN]
    BY <1>3, Disturbs DEF ReadLong
  <2>5. reading' \in [Phones -> Seq(Byte)] /\ st' \in [Phones -> {"idle", "reading", "done"}]
    <3>1. (IF Block < MaxOffset THEN "done" ELSE "reading") \in {"idle", "reading", "done"}
      OBVIOUS
    <3> QED BY <2>1, <2>2, <3>1
  <2> QED BY <1>3, <2>3, <2>4, <2>5 DEF ReadLong
<1>4. ASSUME NEW p \in Phones, StopReading(p) \/ Disconnect(p) PROVE ValueTypeOK'
  <2>1. ForgetRead(p) /\ UNCHANGED <<value, readOffset, accumulation, made>>
    BY <1>4 DEF StopReading, Disconnect, valueVars
  <2> QED BY <2>1, Forgets
<1>5. ASSUME NEW p \in Phones, Write(p) PROVE ValueTypeOK'
  <2>1. New(1) \in Seq(Byte) /\ made' \in 0 .. MaxMade
    BY <1>5, NewType DEF Write
  <2>2. disturbed' \in [Phones -> BOOLEAN]
    BY <1>5, Disturbs DEF Write
  <2> QED BY <1>5, <2>1, <2>2 DEF Write
<1>6. ASSUME NEW p \in Phones, AddPart(p) PROVE ValueTypeOK'
  <2>1. New(1) \in Seq(Byte) /\ made' \in 0 .. MaxMade
    BY <1>6, NewType DEF AddPart
  <2>2. accumulation' \in Seq(Byte)
    BY <1>6, <2>1 DEF AddPart
  <2> QED BY <1>6, <2>1, <2>2 DEF AddPart, readVars
<1>7. ASSUME NEW p \in Phones, ExecuteWrite(p) \/ CancelWrite(p) PROVE ValueTypeOK'
  <2>1. /\ value' \in {value, accumulation} /\ accumulation' \in {accumulation, << >>}
        /\ readOffset' \in {readOffset, 0} /\ UNCHANGED <<reading, st, made>>
        /\ disturbed' = disturbed \/ Disturb(Phones)
    BY <1>7 DEF ExecuteWrite, CancelWrite, Ended
  <2>2. value' \in Seq(Byte) /\ accumulation' \in Seq(Byte)
    <3>1. << >> \in Seq(Byte)
      BY EmptySeq
    <3> QED BY <2>1, <3>1
  <2>3. readOffset' \in {MaxOffset * k : k \in 0 .. 3}
    BY <2>1, OffsetsOK DEF Offsets
  <2>4. disturbed' \in [Phones -> BOOLEAN]
    BY <2>1, Disturbs
  <2> QED BY <2>1, <2>2, <2>3, <2>4
<1>8. CASE SetValue
  <2>1. PICK n \in Lengths : Make(n) /\ value' = New(n)
    BY <1>8 DEF SetValue
  <2>2. New(n) \in Seq(Byte) /\ made' \in 0 .. MaxMade
    BY <2>1, NewType
  <2>3. disturbed' \in [Phones -> BOOLEAN]
    BY <1>8, Disturbs DEF SetValue
  <2> QED BY <1>8, <2>1, <2>2, <2>3 DEF SetValue
<1>9. ASSUME UNCHANGED <<valueVars, readVars, made>> PROVE ValueTypeOK'
  BY <1>9 DEF valueVars, readVars
<1>10. ASSUME NEW p \in Phones, Connect(p) PROVE ValueTypeOK'
  BY <1>9, <1>10 DEF Connect
<1>11. CASE Notify \/ Send \/ Confirmed \/ NotifyReturns \/ HandleConf \/ UNCHANGED vars
  BY <1>9, <1>11 DEF Notify, Send, Confirmed, NotifyReturns, HandleConf, vars
<1> QED BY <1>2, <1>3, <1>4, <1>5, <1>6, <1>7, <1>8, <1>10, <1>11
        DEF Next, App, Request

(* The value, the parts and what phones read are made of bytes, and the    *)
(* offset of a long read is a multiple of the block.                       *)
THEOREM ValuesTyped == Spec => []ValueTypeOK
<1>1. Init => ValueTypeOK
  BY InitIInv DEF IInv
<1> QED BY <1>1, NextValueTypeOK, PTL DEF Spec

-----------------------------------------------------------------------------
(* Reads                                                                   *)

LEMMA NextSoFar == ValueTypeOK /\ SoFar /\ [Next]_vars => SoFar'
<1> SUFFICES ASSUME ValueTypeOK, SoFar, [Next]_vars, NEW q \in Phones, ~disturbed'[q]
             PROVE  /\ st'[q] = "reading" =>
                         /\ readOffset' <= Len(value')
                         /\ reading'[q] = [k \in 1 .. readOffset' |-> value'[k]]
                    /\ st'[q] = "done" => reading'[q] = value'
  BY DEF SoFar
<1> DEFINE Good == /\ st[q] = "reading" => /\ readOffset <= Len(value)
                                           /\ reading[q] = [k \in 1 .. readOffset |-> value[k]]
                   /\ st[q] = "done" => reading[q] = value
<1>1. /\ value \in Seq(Byte) /\ Len(value) \in Nat /\ readOffset \in Nat
      /\ MaxOffset \in Nat \ {0} /\ reading[q] \in Seq(Byte)
      /\ st[q] \in {"idle", "reading", "done"}
  BY OffsetsOK DEF Offsets, ValueTypeOK
<1>2. ~disturbed[q] => Good
  BY DEF SoFar
<1>3. ASSUME NEW p \in Phones, ReadFirst(p) PROVE Good'
  <2>1. PICK n \in Nat : /\ n = (IF TooBig(Len(value)) THEN MaxOffset ELSE Len(value))
                         /\ reading' = [reading EXCEPT ![p] = Answer(0, n)]
                         /\ st' = [st EXCEPT ![p] = IF n < MaxOffset THEN "done" ELSE "reading"]
    BY <1>1, <1>3 DEF ReadFirst
  <2>2. value' = value /\ readOffset' = (IF TooBig(Len(value)) THEN MaxOffset ELSE readOffset)
    BY <1>3 DEF ReadFirst
  <2>3. n <= Len(value)
    BY <1>1, <2>1 DEF TooBig
  <2>4. /\ Answer(0, n) \in Seq(Byte) /\ Len(Answer(0, n)) = n
        /\ \A k \in 1 .. n : Answer(0, n)[k] = value[k]
    BY <1>1, <2>3, AnswerType
  <2>5. Answer(0, n) = [k \in 1 .. n |-> value[k]]
    BY <2>4
  <2>6. CASE q = p /\ TooBig(Len(value))
    <3>1. n = MaxOffset /\ st'[q] = "reading" /\ reading'[q] = Answer(0, n)
      BY <1>1, <2>1, <2>6 DEF ValueTypeOK
    <3> QED BY <2>2, <2>3, <2>5, <2>6, <3>1
  <2>7. CASE q = p /\ ~TooBig(Len(value))
    <3>1. n = Len(value) /\ st'[q] = "done" /\ reading'[q] = Answer(0, n)
      BY <1>1, <2>1, <2>7 DEF ValueTypeOK, TooBig
    <3>2. Answer(0, n) = value
      BY <1>1, <2>4, <3>1, SeqEqual
    <3> QED BY <2>2, <3>1, <3>2
  <2>8. CASE q # p
    <3>1. st'[q] = st[q] /\ reading'[q] = reading[q]
      BY <2>1, <2>8 DEF ValueTypeOK
    <3>2. ~disturbed[q] /\ (TooBig(Len(value)) => st[q] = "idle")
      BY <1>3, <2>8, Disturbs DEF ReadFirst
    <3> QED BY <1>2, <2>2, <3>1, <3>2
  <2> QED BY <2>6, <2>7, <2>8
<1>4. ASSUME NEW p \in Phones, ReadLong(p) PROVE Good'
  <2> DEFINE n == Block
             more == Answer(readOffset, n)
  <2>1. /\ reading' = [reading EXCEPT ![p] = @ \o more]
        /\ st' = [st EXCEPT ![p] = IF n < MaxOffset THEN "done" ELSE "reading"]
        /\ n \in Nat /\ (LastInChain <=> n < MaxOffset)
    BY <1>4, BlockOK DEF ReadLong, Block
  <2>2. value' = value /\ readOffset' = (IF LastInChain THEN 0 ELSE readOffset + MaxOffset)
    BY <1>4 DEF ReadLong, ReadOffsetAfter
  <2>3. ~disturbed[q] /\ (q # p => st[q] = "idle")
    BY <1>4, Disturbs DEF ReadLong
  <2>4. CASE q # p
    <3>1. st'[q] = "idle"
      BY <2>1, <2>3, <2>4 DEF ValueTypeOK
    <3> QED BY <3>1
  <2>5. CASE q = p
    <3>1. readOffset <= Len(value) /\ reading[q] = [k \in 1 .. readOffset |-> value[k]]
      BY <1>2, <1>4, <2>3, <2>5 DEF ReadLong
    <3>2. readOffset + n <= Len(value) /\ (LastInChain => readOffset + n = Len(value))
      BY <1>1, <3>1 DEF LastInChain, Block
    <3>3. /\ more \in Seq(Byte) /\ Len(more) = n
          /\ \A k \in 1 .. n : more[k] = value[readOffset + k]
      <4>1. n \in Nat /\ readOffset \in Nat
        BY <1>1, <2>1
      <4>2. /\ more \in Seq(Byte) /\ Len(more) = n
            /\ \A k \in 1 .. n : readOffset + k <= Len(value) => more[k] = value[readOffset + k]
        BY <1>1, <4>1, AnswerType
      <4>3. \A k \in 1 .. n : readOffset + k <= Len(value)
        BY <1>1, <2>1, <3>2
      <4> QED BY <4>2, <4>3
    <3> HIDE DEF more, n
    <3>4. Len(reading[q]) = readOffset /\ \A k \in 1 .. readOffset : reading[q][k] = value[k]
      BY <1>1, <3>1
    <3>5. reading'[q] = reading[q] \o more
      BY <2>1, <2>5 DEF ValueTypeOK
    <3>6. /\ reading'[q] \in Seq(Byte) /\ Len(reading'[q]) = readOffset + n
          /\ \A k \in 1 .. readOffset + n : reading'[q][k] = value[k]
      <4>1. reading'[q] \in Seq(Byte) /\ Len(reading'[q]) = readOffset + n
        <5>1. reading[q] \in Seq(Byte)
          BY <1>1
        <5> QED BY <3>3, <3>4, <3>5, <5>1, ConcatProperties
      <4>2. ASSUME NEW k \in 1 .. readOffset + n PROVE reading'[q][k] = value[k]
        <5>1. CASE k <= readOffset
          BY <1>1, <3>3, <3>4, <3>5, <5>1, ConcatProperties
        <5>2. CASE k > readOffset
          <6>1. reading'[q][k] = more[k - readOffset]
            <7>1. k \in 1 .. Len(reading[q]) + Len(more) /\ ~(k <= Len(reading[q]))
              BY <1>1, <2>1, <3>3, <3>4, <5>2
            <7>2. reading'[q][k] = more[k - Len(reading[q])]
              BY <1>1, <3>3, <3>5, <7>1, ConcatProperties
            <7> QED BY <3>4, <7>2
          <6>2. k - readOffset \in 1 .. n /\ readOffset + (k - readOffset) = k
            BY <1>1, <2>1, <5>2
          <6> QED BY <3>3, <6>1, <6>2
        <5> QED BY <1>1, <5>1, <5>2
      <4> QED BY <4>1, <4>2
    <3>7. CASE LastInChain
      <4>1. st'[q] = "done" /\ readOffset + n = Len(value)
        BY <2>1, <2>5, <3>2, <3>7 DEF ValueTypeOK
      <4>2. reading'[q] = value
        BY <1>1, <3>6, <4>1, SeqEqual
      <4> QED BY <2>2, <4>1, <4>2
    <3>8. CASE ~LastInChain
      <4>1. st'[q] = "reading" /\ readOffset' = readOffset + n
        <5>1. n = MaxOffset
          BY <3>8 DEF n, Block
        <5> QED BY <1>1, <2>1, <2>2, <2>5, <3>8, <5>1 DEF ValueTypeOK
      <4>2. reading'[q] = [k \in 1 .. readOffset' |-> value[k]]
        BY <3>6, <4>1
      <4> QED BY <2>2, <3>2, <4>1, <4>2
    <3> QED BY <3>7, <3>8
  <2> QED BY <2>4, <2>5
<1>5. ASSUME NEW p \in Phones, StopReading(p) \/ Disconnect(p) PROVE Good'
  <2>1. ForgetRead(p) /\ UNCHANGED <<value, readOffset>>
    BY <1>5 DEF StopReading, Disconnect, valueVars
  <2>2. CASE q = p
    BY <2>1, <2>2, Forgets
  <2>3. CASE q # p
    BY <1>2, <2>1, <2>3, Forgets
  <2> QED BY <2>2, <2>3
<1>6. ASSUME Disturb(Phones), UNCHANGED st PROVE Good'
  BY <1>6, Disturbs
<1>7. ASSUME UNCHANGED <<value, readOffset, reading, st, disturbed>> PROVE Good'
  BY <1>2, <1>7
<1>8. ASSUME NEW p \in Phones, Write(p) \/ CancelWrite(p) PROVE Good'
  BY <1>6, <1>8 DEF Write, CancelWrite
<1>9. ASSUME NEW p \in Phones, ExecuteWrite(p) PROVE Good'
  BY <1>6, <1>7, <1>9 DEF ExecuteWrite
<1>10. CASE SetValue
  BY <1>6, <1>10 DEF SetValue
<1>11. ASSUME NEW p \in Phones, AddPart(p) \/ Connect(p) PROVE Good'
  BY <1>7, <1>11 DEF AddPart, Connect, readVars, valueVars
<1>12. CASE Notify \/ Send \/ Confirmed \/ NotifyReturns \/ HandleConf \/ UNCHANGED vars
  BY <1>7, <1>12 DEF Notify, Send, Confirmed, NotifyReturns, HandleConf, vars, readVars, valueVars
<1> QED BY <1>3, <1>4, <1>5, <1>8, <1>9, <1>10, <1>11, <1>12 DEF Next, App, Request

(* A value that nobody changes while a phone reads it, and that no other   *)
(* phone reads meanwhile, arrives as it is, whatever its length and the    *)
(* MTU and however many phones there are.                                  *)
THEOREM ValuesReadWhole == Spec => []ReadsWhole
<1>1. Init => SoFar
  BY InitIInv DEF IInv
<1>2. SoFar => ReadsWhole
  BY DEF SoFar, ReadsWhole
<1> QED BY <1>1, <1>2, NextSoFar, ValuesTyped, PTL DEF Spec

-----------------------------------------------------------------------------
(* Long writes                                                             *)

LEMMA NextParts == Parts /\ [Next]_vars => Parts'
<1> SUFFICES ASSUME Parts, [Next]_vars PROVE Parts'
  OBVIOUS
<1> USE DEF Parts
<1>1. CASE UNCHANGED <<accumulation, unfinished>>
  BY <1>1
<1>2. ASSUME NEW p \in Phones, AddPart(p) PROVE Parts'
  BY <1>2 DEF AddPart
<1>3. ASSUME NEW p \in Phones, ExecuteWrite(p) \/ CancelWrite(p) PROVE Parts'
  BY <1>3 DEF ExecuteWrite, CancelWrite, Ended
<1>4. ASSUME NEW p \in Phones,
             ReadFirst(p) \/ ReadLong(p) \/ StopReading(p) \/ Write(p) \/ Connect(p) \/ Disconnect(p)
      PROVE  UNCHANGED <<accumulation, unfinished>>
  BY <1>4 DEF ReadFirst, ReadLong, StopReading, Write, Connect, Disconnect, valueVars
<1>5. CASE App \/ HandleConf \/ UNCHANGED vars
  BY <1>1, <1>5 DEF App, SetValue, Notify, Send, Confirmed, NotifyReturns, HandleConf, vars, valueVars
<1> QED BY <1>1, <1>2, <1>3, <1>4, <1>5 DEF Next, Request

(* An execute request makes the value of the parts sent since the last     *)
(* one, in their order; nothing that was executed or cancelled comes back. *)
THEOREM WritesInOneRun == Spec => CommitsUnfinished
<1>1. Init => Parts
  BY DEF Init, Parts
<1>2. Parts /\ [Next]_vars =>
        [\A p \in Phones : ExecuteWrite(p) /\ unfinished # << >> => value' = unfinished]_vars
  <2> SUFFICES ASSUME Parts, NEW p \in Phones, ExecuteWrite(p), unfinished # << >>
               PROVE  value' = unfinished
    OBVIOUS
  <2> QED BY DEF Parts, ExecuteWrite
<1> QED BY <1>1, <1>2, NextParts, PTL DEF Spec, CommitsUnfinished

-----------------------------------------------------------------------------
(* Indications                                                             *)

(* The confirmation that the sole indication waits for.                    *)
Ours == {<<target, "indication">>}

LEMMA NextWaiting == Waiting /\ [Next]_vars => Waiting'
<1> SUFFICES ASSUME Waiting, [Next]_vars, pc' = "confirm", alone', ~sound'
             PROVE  taken' /\ peers' \subseteq {target'} /\ confs' \in Seq(Ours')
  BY DEF Waiting, Ours
<1> DEFINE Held == taken /\ peers \subseteq {target} /\ confs \in Seq(Ours)
<1>1. pc = "confirm" /\ alone /\ ~sound => Held
  BY DEF Waiting, Ours
<1>2. CASE UNCHANGED <<pc, alone, sound, taken, peers, target, confs>>
  BY <1>1, <1>2 DEF Ours
<1>3. CASE Send
  <2>1. PICK p \in todo :
          /\ p \in peers /\ peers' = peers /\ target' = p /\ taken'
          /\ confs' = Append(confs, <<p, "indication">>)
          /\ alone' = (peers = {p} /\ confs = << >>)
    BY <1>3 DEF Send, Return, Taken
  <2>2. peers = {p} /\ confs = << >>
    BY <2>1
  <2>3. confs' = <<(<<p, "indication">>)>>
    BY <2>1, <2>2
  <2>4. confs' \in Seq({<<p, "indication">>})
    BY <2>3
  <2> QED BY <2>1, <2>2, <2>4 DEF Ours
<1>4. CASE HandleConf
  <2>1. /\ UNCHANGED <<pc, alone, target, peers>> /\ confs # << >> /\ confs' = Tail(confs)
        /\ sound' = (sound \/ Head(confs) = <<target, "indication">>)
    BY <1>4 DEF HandleConf
  <2>2. Held
    BY <1>1, <2>1
  <2>3. Head(confs) \in Ours
    BY <2>1, <2>2, HeadTailProperties
  <2> QED BY <2>1, <2>3 DEF Ours
<1>5. ASSUME NEW p \in Phones, Disconnect(p) PROVE FALSE
  <2>1. UNCHANGED <<pc, alone, target>> /\ p \in peers /\ sound' = (sound \/ p = target)
    BY <1>5 DEF Disconnect
  <2>2. peers \subseteq {target}
    BY <1>1, <2>1
  <2> QED BY <2>1, <2>2
<1>6. ASSUME NEW p \in Phones, Connect(p) PROVE FALSE
  BY <1>6 DEF Connect
<1>7. CASE Notify \/ Confirmed \/ NotifyReturns
  BY <1>7 DEF Notify, Confirmed, NotifyReturns, Return
<1>8. ASSUME NEW p \in Phones, Request(p) PROVE UNCHANGED <<pc, alone, sound, taken, peers, target, confs>>
  BY <1>8 DEF Request, ReadFirst, ReadLong, StopReading, Write, AddPart, ExecuteWrite, CancelWrite,
              linkVars, appVars
<1>9. CASE SetValue \/ UNCHANGED vars
  BY <1>2, <1>9 DEF SetValue, vars, linkVars, appVars
<1> QED BY <1>2, <1>3, <1>4, <1>5, <1>6, <1>7, <1>8, <1>9 DEF Next, App

(* With one phone from before the send on, and no confirmation of a        *)
(* notification on its way, an indication is over only when the phone has  *)
(* confirmed it or has left.                                               *)
THEOREM IndicationsConfirmed == Spec => WaitsForConfirmation
<1>1. Init => Waiting
  BY DEF Init, Waiting
<1>2. Waiting /\ [Next]_vars => [Confirmed /\ alone => sound]_vars
  <2> SUFFICES ASSUME Waiting, Confirmed, alone PROVE sound
    OBVIOUS
  <2> QED BY DEF Waiting, Confirmed
<1> QED BY <1>1, <1>2, NextWaiting, PTL DEF Spec, WaitsForConfirmation
=============================================================================
