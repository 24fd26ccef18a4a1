--------------------------- MODULE OtaServerProofs ---------------------------
(***************************************************************************)
(* Safety of updates over the air for every number of chunks, every set of *)
(* images and declared lengths, and every number of faults.                *)
(***************************************************************************)
EXTENDS OtaServer, TLAPS

USE OtaAssumption DEF OtaAssumption

(* The partition an update goes to.                                        *)
Target == NextUpdatePartition(running)

(* There are two partitions, and the update goes to the other one.         *)
LEMMA OtherPartition ==
  ASSUME NEW p \in Partitions
  PROVE  /\ NextUpdatePartition(p) \in Partitions
         /\ NextUpdatePartition(p) # p
         /\ \A q \in Partitions : q = p \/ q = NextUpdatePartition(p)
<1>1. \E q \in Partitions : q # p
  BY DEF Partitions
<1> QED
  BY <1>1 DEF NextUpdatePartition, Partitions

(* A whole image is a sequence of chunks.                                  *)
LEMMA WholeType ==
  ASSUME NEW v \in AllImages
  PROVE  Whole(v) \in Seq(Chunk) /\ Len(Whole(v)) = Chunks
BY DEF Whole, Chunk

(* The chunks of a piece of the request are of the image being sent.       *)
LEMMA BodyType ==
  ASSUME image \in AllImages, NEW from \in Nat, NEW to \in Nat,
         from > Header, to <= Request, from <= to + 1
  PROVE  /\ Body(from, to) \in Seq(Chunk)
         /\ Len(Body(from, to)) = to - from + 1
         /\ \A k \in DOMAIN Body(from, to) : Body(from, to)[k][1] = image
<1>1. \A k \in 1 .. (to - from + 1) : from + k - 1 - Header \in 1 .. Chunks
  BY DEF Header, Request
<1>2. Body(from, to) \in [1 .. (to - from + 1) -> Chunk]
  BY <1>1 DEF Body, Chunk
<1>3. to - from + 1 \in Nat
  OBVIOUS
<1> QED
  BY <1>2, <1>3 DEF Body

(* esp_ota_write adds chunks of the new piece only, and not more of them.  *)
LEMMA WrittenType ==
  ASSUME NEW old \in Seq(Chunk), NEW new \in Seq(Chunk), NEW v,
         \A k \in DOMAIN old : old[k][1] = v,
         \A k \in DOMAIN new : new[k][1] = v
  PROVE  /\ Written(old, new) \in Seq(Chunk)
         /\ Len(Written(old, new)) <= Len(old) + Len(new)
         /\ \A k \in DOMAIN Written(old, new) : Written(old, new)[k][1] = v
<1>1. old \o new \in Seq(Chunk) /\ Len(old \o new) = Len(old) + Len(new)
  OBVIOUS
<1>2. \A k \in DOMAIN (old \o new) : (old \o new)[k][1] = v
  <2> SUFFICES ASSUME NEW k \in 1 .. Len(old) + Len(new)
               PROVE  (old \o new)[k][1] = v
    BY <1>1
  <2>1. CASE k <= Len(old)
    BY <2>1
  <2>2. CASE k > Len(old)
    BY <2>2
  <2> QED BY <2>1, <2>2
<1> QED
  BY <1>1, <1>2 DEF Written

-----------------------------------------------------------------------------
(* The inductive invariant                                                 *)

(* The boot loader's choice differs from what runs only between the switch *)
(* and the restart, and both hold a whole image.                           *)
SwitchedLast ==
    /\ pc \notin {"send", "restart"} => boot = running
    /\ \E v \in AllImages : partition[running] = Whole(v)
    /\ \E v \in AllImages : partition[boot] = Whole(v)

(* What is in the other partition was sent by the client being served.     *)
Delivered ==
    /\ pc \in {"recv", "end"} /\ received # 0 =>
         /\ received >= Header
         /\ Len(partition[Target]) <= received - Header
         /\ \A k \in DOMAIN partition[Target] : partition[Target][k][1] = image
    /\ pc = "set_boot" => partition[Target] = Whole(image)
    /\ pc = "send" /\ outcome => partition[boot] = Whole(image)

(* A reply is of the last session that came to its end.                    *)
Answered ==
    /\ reply = "ok" => partition[boot] = Whole(image)
    /\ pc \in {"recv", "end", "set_boot", "send"} => reply # "ok"

Inv == TypeOK /\ SwitchedLast /\ Delivered /\ Answered

LEMMA InitInv == Init => Inv
<1> SUFFICES ASSUME Init PROVE Inv
  OBVIOUS
<1>1. First \in AllImages /\ Whole(First) \in Seq(Chunk)
      /\ Len(Whole(First)) = Chunks
  BY WholeType DEF AllImages
<1>2. partition["ota_0"] = Whole(First) /\ partition["ota_1"] = << >>
  BY DEF Init, Partitions
<1>3. partition \in [Partitions -> Seq(Chunk)]
      /\ \A p \in Partitions : Len(partition[p]) <= Chunks
  <2>1. << >> \in Seq(Chunk) /\ Len(<< >>) = 0
    OBVIOUS
  <2> QED BY <1>1, <1>2, <2>1 DEF Init, Partitions
<1>4. wifiEvents \in Seq({"start", "got_ip", "disconnected"})
  BY DEF Init, InitialiseWifi
<1>5. TypeOK
  <2>1. /\ boot \in Partitions /\ running \in Partitions
        /\ station \in {"down", "connecting", "up"} /\ connected \in BOOLEAN
        /\ client \in {"none", "sending", "closed", "gone"}
        /\ pc \in OtaSteps /\ length \in Declared \cup {0} /\ outcome \in BOOLEAN
        /\ reply \in {"none", "ok", "failure"}
    BY DEF Init, InitialiseWifi, Partitions, OtaSteps
  <2>2. image \in AllImages /\ received \in 0 .. Request /\ faults \in 0 .. MaxFaults
    BY <1>1 DEF Init, Request, Header
  <2> QED BY <1>3, <1>4, <2>1, <2>2 DEF TypeOK
<1>6. SwitchedLast /\ Delivered /\ Answered
  BY <1>1, <1>2 DEF Init, SwitchedLast, Delivered, Answered
<1> QED
  BY <1>5, <1>6 DEF Inv

(* A restart, with the other partition as it is, erased or half written.   *)
LEMMA RebootInv ==
  ASSUME Inv, Reboot, faults' \in 0 .. MaxFaults,
         \/ UNCHANGED partition
         \/ pc = "recv" /\ partition' = [partition EXCEPT ![Target] = << >>]
  PROVE  Inv'
<1>t. TypeOK
  BY DEF Inv
<1>1. Target \in Partitions /\ Target # running
  BY <1>t, OtherPartition DEF TypeOK, Target
<1>2. partition'[boot] = partition[boot]
  BY <1>1, <1>t DEF Inv, SwitchedLast, TypeOK
<1>3. /\ partition' \in [Partitions -> Seq(Chunk)]
      /\ \A p \in Partitions : Len(partition'[p]) <= Chunks
  <2>1. << >> \in Seq(Chunk) /\ Len(<< >>) = 0
    OBVIOUS
  <2>2. CASE UNCHANGED partition
    BY <2>2, <1>t DEF TypeOK
  <2>3. CASE partition' = [partition EXCEPT ![Target] = << >>]
    <3>1. \A p \in Partitions : partition'[p] = partition[p] \/ partition'[p] = << >>
      BY <2>3, <1>1, <1>t DEF TypeOK
    <3>2. partition' \in [Partitions -> Seq(Chunk)]
      BY <2>1, <2>3, <1>t DEF TypeOK
    <3>3. Len(<< >>) <= Chunks
      BY <2>1
    <3> QED BY <3>1, <3>2, <3>3, <1>t DEF TypeOK
  <2> QED BY <2>2, <2>3
<1>4. wifiEvents' \in Seq({"start", "got_ip", "disconnected"})
  BY DEF Reboot, InitialiseWifi
<1>5. TypeOK'
  <2>1. /\ boot' \in Partitions /\ running' \in Partitions
        /\ station' \in {"down", "connecting", "up"} /\ connected' \in BOOLEAN
        /\ client' \in {"none", "sending", "closed", "gone"}
        /\ pc' \in OtaSteps /\ length' \in Declared \cup {0} /\ outcome' \in BOOLEAN
        /\ reply' \in {"none", "ok", "failure"} /\ image' \in AllImages
    BY <1>t DEF TypeOK, Reboot, InitialiseWifi, OtaSteps
  <2>2. received' \in 0 .. Request
    BY DEF Reboot, Request, Header
  <2> QED BY <1>3, <1>4, <2>1, <2>2 DEF TypeOK
<1>6. SwitchedLast'
  BY <1>2 DEF Inv, SwitchedLast, Reboot
<1>7. Delivered' /\ Answered'
  BY <1>2 DEF Inv, Delivered, Answered, Reboot
<1> QED BY <1>5, <1>6, <1>7 DEF Inv

(* A piece of the image is written to the other partition, or is not.      *)
LEMMA ReceiveInv ==
  ASSUME Inv, pc = "recv", NEW upto \in Header .. Request,
         received' = upto, pc' \in {"recv", "end"},
         NEW new \in Seq(Chunk), Len(new) <= upto - Header,
         \A k \in DOMAIN new : new[k][1] = image,
         partition' = [partition EXCEPT ![Target] = new],
         length' \in Declared \cup {0}, faults' \in 0 .. MaxFaults,
         UNCHANGED <<boot, running, wifiVars, client, image, outcome, reply>>
  PROVE  Inv'
<1>t. TypeOK
  BY DEF Inv
<1>1. Target \in Partitions /\ Target # running /\ Target' = Target
  BY <1>t, OtherPartition DEF TypeOK, Target
<1>2. boot = running /\ partition'[boot] = partition[boot] /\ partition'[Target] = new
  BY <1>1, <1>t DEF Inv, SwitchedLast, TypeOK
<1>3. upto \in 0 .. Request /\ Len(new) <= Chunks /\ upto # 0
  BY DEF Header, Request
<1>4. /\ partition' \in [Partitions -> Seq(Chunk)]
      /\ \A p \in Partitions : Len(partition'[p]) <= Chunks
  BY <1>t, <1>1, <1>3 DEF TypeOK
<1>5. TypeOK'
  BY <1>t, <1>3, <1>4 DEF TypeOK, OtaSteps, wifiVars
<1>6. SwitchedLast'
  BY <1>2 DEF Inv, SwitchedLast
<1>7. Delivered'
  BY <1>1, <1>2, <1>3 DEF Delivered
<1>8. Answered'
  BY <1>2 DEF Inv, Answered
<1> QED BY <1>5, <1>6, <1>7, <1>8 DEF Inv

LEMMA RecvHeaderInv ==
  ASSUME Inv, NEW upto \in 1 .. Request, RecvHeader(upto)
  PROVE  Inv'
<1>t. image \in AllImages /\ upto \in Header .. Request
      /\ faults \in 0 .. MaxFaults /\ partition \in [Partitions -> Seq(Chunk)]
  BY DEF Inv, TypeOK, RecvHeader
<1>1. Target \in Partitions
  BY OtherPartition DEF Inv, TypeOK, Target
<1> DEFINE piece == Body(Header + 1, upto)
           new   == Written(<< >>, piece)
<1>2. /\ piece \in Seq(Chunk) /\ Len(piece) = upto - Header
      /\ \A k \in DOMAIN piece : piece[k][1] = image
  <2>1. Header + 1 \in Nat /\ Header + 1 > Header /\ upto \in Nat /\ upto <= Request
        /\ Header + 1 <= upto + 1 /\ upto - (Header + 1) + 1 = upto - Header
    BY <1>t DEF Header, Request
  <2> HIDE DEF piece
  <2>2. /\ Body(Header + 1, upto) \in Seq(Chunk)
        /\ Len(Body(Header + 1, upto)) = upto - (Header + 1) + 1
        /\ \A k \in DOMAIN Body(Header + 1, upto) : Body(Header + 1, upto)[k][1] = image
    BY <1>t, <2>1, BodyType
  <2> QED BY <2>1, <2>2 DEF piece
<1> HIDE DEF piece
<1>3. new \in Seq(Chunk) /\ Len(new) <= upto - Header
      /\ \A k \in DOMAIN new : new[k][1] = image
  <2>1. << >> \in Seq(Chunk) /\ Len(<< >>) = 0 /\ DOMAIN << >> = {}
    OBVIOUS
  <2>2. /\ Written(<< >>, piece) \in Seq(Chunk)
        /\ Len(Written(<< >>, piece)) <= 0 + Len(piece)
        /\ \A k \in DOMAIN Written(<< >>, piece) : Written(<< >>, piece)[k][1] = image
    BY <1>2, <2>1, WrittenType
  <2>3. Len(Written(<< >>, piece)) <= upto - Header
    BY <1>2, <2>2, <1>t DEF Header, Request
  <2> QED BY <2>2, <2>3
<1>4. partition' = [partition EXCEPT ![Target] = new]
  BY <1>t, <1>1 DEF RecvHeader, Erased, piece, Target
<1> HIDE DEF new
<1>5. pc = "recv" /\ received' = upto /\ pc' \in {"recv", "end"}
      /\ length' \in Declared \cup {0} /\ faults' \in 0 .. MaxFaults
      /\ UNCHANGED <<boot, running, wifiVars, client, image, outcome, reply>>
  BY <1>t DEF RecvHeader, AfterRecv
<1> QED
  BY <1>t, <1>3, <1>4, <1>5, ReceiveInv

LEMMA RecvBodyInv ==
  ASSUME Inv, NEW upto \in 1 .. Request, RecvBody(upto) \/ WriteFails(upto)
  PROVE  Inv'
<1>t. /\ image \in AllImages /\ received \in 0 .. Request /\ received # 0
      /\ pc = "recv" /\ upto \in received + 1 .. Request /\ received >= Header
      /\ faults \in 0 .. MaxFaults /\ length \in Declared \cup {0}
      /\ partition \in [Partitions -> Seq(Chunk)] /\ running \in Partitions
  BY DEF Inv, TypeOK, Delivered, RecvBody, WriteFails
<1>1. Target \in Partitions
  BY <1>t, OtherPartition DEF Target
<1> DEFINE old   == partition[Target]
           piece == Body(received + 1, upto)
<1>2. old \in Seq(Chunk) /\ Len(old) <= received - Header
      /\ \A k \in DOMAIN old : old[k][1] = image
  BY <1>t, <1>1 DEF Inv, Delivered
<1>3. /\ piece \in Seq(Chunk) /\ Len(piece) = upto - received
      /\ \A k \in DOMAIN piece : piece[k][1] = image
  <2>1. received + 1 \in Nat /\ received + 1 > Header /\ upto \in Nat /\ upto <= Request
        /\ received + 1 <= upto + 1 /\ upto - (received + 1) + 1 = upto - received
    BY <1>t DEF Header, Request
  <2>2. /\ Body(received + 1, upto) \in Seq(Chunk)
        /\ Len(Body(received + 1, upto)) = upto - (received + 1) + 1
        /\ \A k \in DOMAIN Body(received + 1, upto) : Body(received + 1, upto)[k][1] = image
    BY <1>t, <2>1, BodyType
  <2> QED BY <2>1, <2>2
<1>4. upto \in Header .. Request
  BY <1>t DEF Header, Request
<1>5. received' = upto /\ pc' \in {"recv", "end"}
      /\ length' \in Declared \cup {0} /\ faults' \in 0 .. MaxFaults
      /\ UNCHANGED <<boot, running, wifiVars, client, image, outcome, reply>>
  BY <1>t DEF RecvBody, WriteFails, AfterRecv, Fault, flashVars
<1>6. CASE RecvBody(upto)
  <2> DEFINE new == Written(old, piece)
  <2>1. partition' = [partition EXCEPT ![Target] = new]
    BY <1>6, <1>t, <1>1 DEF RecvBody, Target
  <2> HIDE DEF old, piece
  <2>2. /\ Written(old, piece) \in Seq(Chunk)
        /\ Len(Written(old, piece)) <= Len(old) + Len(piece)
        /\ \A k \in DOMAIN Written(old, piece) : Written(old, piece)[k][1] = image
    BY <1>2, <1>3, WrittenType
  <2>3. Len(old) \in Nat /\ Len(new) \in Nat
    BY <1>2, <2>2
  <2>4. Len(new) <= upto - Header
    BY <1>t, <1>2, <1>3, <2>2, <2>3 DEF Header, Request
  <2> HIDE DEF new
  <2> QED
    BY <1>t, <1>4, <1>5, <2>1, <2>2, <2>4, ReceiveInv DEF new
<1>7. CASE WriteFails(upto)
  <2>1. partition' = [partition EXCEPT ![Target] = old]
    BY <1>7, <1>t, <1>1 DEF WriteFails, flashVars
  <2>2. Len(old) \in Nat /\ Len(old) <= upto - Header
    BY <1>t, <1>2 DEF Header, Request
  <2> HIDE DEF old
  <2> QED
    BY <1>t, <1>2, <1>4, <1>5, <2>1, <2>2, ReceiveInv
<1> QED BY <1>6, <1>7

(* Joining and losing the link, and the events of both, only touch the     *)
(* WiFi variables and the number of faults; a client that leaves touches   *)
(* nothing the invariant depends on.                                       *)
LEMMA ElsewhereInv ==
  ASSUME Inv,
         Join \/ LoseLink \/ EventHandler \/ ClientLeaves
  PROVE  Inv'
<1>t. TypeOK
  BY DEF Inv
<1> DEFINE Kept == UNCHANGED <<partition, boot, running, image, received, pc,
                               length, outcome, reply>>
           Wifi == /\ station' \in {"down", "connecting", "up"}
                   /\ connected' \in BOOLEAN
                   /\ wifiEvents' \in Seq({"start", "got_ip", "disconnected"})
                   /\ client' \in {"none", "sending", "closed", "gone"}
                   /\ faults' \in 0 .. MaxFaults
<1>s. /\ station \in {"down", "connecting", "up"} /\ connected \in BOOLEAN
      /\ wifiEvents \in Seq({"start", "got_ip", "disconnected"})
      /\ client \in {"none", "sending", "closed", "gone"}
      /\ faults \in 0 .. MaxFaults
  BY <1>t DEF TypeOK
<1>1. Kept
  BY DEF Join, LoseLink, EventHandler, ClientLeaves, flashVars, otaVars, clientVars
<1>2. Wifi
  <2>1. CASE Join
    BY <1>s, <2>1 DEF Join, clientVars
  <2>2. CASE LoseLink
    BY <1>s, <2>2 DEF LoseLink, Fault, clientVars
  <2>3. CASE EventHandler
    <3>1. wifiEvents' \in Seq({"start", "got_ip", "disconnected"})
      BY <1>s, <2>3 DEF EventHandler
    <3>2. connected' \in BOOLEAN
      BY <1>s, <2>3 DEF EventHandler, BitAfter
    <3> QED BY <1>s, <2>3, <3>1, <3>2 DEF EventHandler, clientVars
  <2>4. CASE ClientLeaves
    BY <1>s, <2>4 DEF ClientLeaves, wifiVars
  <2> QED BY <2>1, <2>2, <2>3, <2>4
<1>3. TypeOK'
  BY <1>t, <1>1, <1>2 DEF TypeOK
<1> QED
  BY <1>1, <1>3 DEF Inv, SwitchedLast, Delivered, Answered, Target

(* The steps of ota_server_task that leave the flash alone.                *)
LEMMA QuietStepInv ==
  ASSUME Inv,
         \/ WaitBit \/ CreateServer \/ RecvEnds \/ Send
         \/ \E v \in Images : Accept(v)
  PROVE  Inv'
<1>t. TypeOK
  BY DEF Inv
<1>1. /\ UNCHANGED <<partition, boot, running, wifiEvents, outcome>>
      /\ UNCHANGED <<station, connected, length, faults>>
  BY DEF WaitBit, CreateServer, RecvEnds, Send, Accept, flashVars, wifiVars
<1>2. /\ pc' \in OtaSteps /\ client' \in {"none", "sending", "closed", "gone"}
      /\ image' \in AllImages /\ received' \in 0 .. Request
      /\ reply' \in {"none", "ok", "failure"}
  BY <1>t DEF TypeOK, WaitBit, CreateServer, RecvEnds, Send, Accept, OtaSteps,
     clientVars, AllImages, Answer, Request, Header
<1>3. TypeOK'
  BY <1>t, <1>1, <1>2 DEF TypeOK
<1>4. SwitchedLast'
  BY <1>1 DEF Inv, SwitchedLast, WaitBit, CreateServer, RecvEnds, Send, Accept
<1>5. Delivered' /\ Answered'
  <2>1. CASE WaitBit \/ CreateServer
    BY <1>1, <2>1 DEF Inv, Delivered, Answered, WaitBit, CreateServer, clientVars, Target
  <2>2. CASE RecvEnds
    BY <1>1, <2>2 DEF Inv, Delivered, Answered, RecvEnds, clientVars, Target
  <2>3. CASE Send
    BY <1>1, <2>3 DEF Inv, Delivered, Answered, Send, Answer, clientVars, Target
  <2>4. CASE \E v \in Images : Accept(v)
    BY <1>1, <2>4 DEF Inv, Delivered, Answered, Accept, Target
  <2> QED BY <2>1, <2>2, <2>3, <2>4
<1> QED BY <1>3, <1>4, <1>5 DEF Inv

(* What esp_ota_end accepts is the image of the client being served.       *)
LEMMA OtaEndInv ==
  ASSUME Inv, OtaEnd
  PROVE  Inv'
<1>t. TypeOK
  BY DEF Inv
<1>1. CASE Valid(partition[Target])
  <2>1. pc = "end" /\ received # 0 /\ pc' = "set_boot"
        /\ UNCHANGED <<flashVars, running, wifiVars, clientVars, length, outcome, reply, faults>>
    BY <1>1 DEF OtaEnd, Valid, Target
  <2>2. PICK v \in AllImages : partition[Target] = Whole(v)
    BY <1>1 DEF Valid
  <2>3. v = image
    <3>1. 1 \in DOMAIN Whole(v) /\ Whole(v)[1][1] = v
      BY DEF Whole
    <3> QED BY <2>1, <2>2, <3>1 DEF Inv, Delivered
  <2>4. TypeOK'
    BY <1>t, <2>1 DEF TypeOK, OtaSteps, flashVars, wifiVars, clientVars
  <2>5. SwitchedLast' /\ Delivered' /\ Answered'
    BY <2>1, <2>2, <2>3 DEF Inv, SwitchedLast, Delivered, Answered, Target, flashVars, clientVars
  <2> QED BY <2>4, <2>5 DEF Inv
<1>2. CASE ~Valid(partition[Target])
  <2>1. Abort /\ faults' \in 0 .. MaxFaults
    BY <1>2, <1>t DEF OtaEnd, Target, TypeOK
  <2> QED BY <2>1, RebootInv DEF Abort
<1> QED BY <1>1, <1>2

(* The switch makes the delivered image the one to boot.                   *)
LEMMA SetBootInv ==
  ASSUME Inv, SetBoot
  PROVE  Inv'
<1>t. TypeOK
  BY DEF Inv
<1>1. Target \in Partitions /\ partition[Target] = Whole(image) /\ image \in AllImages
  BY <1>t, OtherPartition DEF TypeOK, Target, Inv, Delivered, SetBoot
<1>2. /\ pc' = "send" /\ outcome' \in BOOLEAN
      /\ UNCHANGED <<partition, running, wifiVars, clientVars, length, reply>>
      /\ (boot' = Target /\ outcome') \/ (boot' = boot /\ ~outcome')
  BY DEF SetBoot, Target
<1>f. faults' \in 0 .. MaxFaults
  BY <1>t DEF SetBoot, Fault, TypeOK
<1>3. TypeOK'
  BY <1>t, <1>f, <1>1, <1>2 DEF TypeOK, OtaSteps, wifiVars, clientVars
<1>4. SwitchedLast'
  BY <1>1, <1>2 DEF Inv, SwitchedLast
<1>5. Delivered' /\ Answered'
  BY <1>1, <1>2 DEF Inv, Delivered, Answered, clientVars, SetBoot
<1> QED BY <1>3, <1>4, <1>5 DEF Inv

LEMMA NextInv == Inv /\ [Next]_vars => Inv'
<1> SUFFICES ASSUME Inv, [Next]_vars PROVE Inv'
  OBVIOUS
<1>t. faults \in 0 .. MaxFaults
  BY DEF Inv, TypeOK
<1>1. CASE PowerFails \/ CreateFails \/ BeginFails \/ Restart
  <2>1. Reboot /\ UNCHANGED partition /\ faults' \in 0 .. MaxFaults
    BY <1>1, <1>t DEF PowerFails, CreateFails, BeginFails, Restart, Abort, Fault
  <2> QED BY <2>1, RebootInv
<1>2. CASE RecvSplitHeader
  <2>1. /\ pc = "recv" /\ Reboot /\ faults' \in 0 .. MaxFaults
        /\ UNCHANGED partition \/ partition' = [partition EXCEPT ![Target] = << >>]
    BY <1>2, <1>t DEF RecvSplitHeader, Erased, Target
  <2> QED BY <2>1, RebootInv
<1>3. CASE \E upto \in 1 .. Request : RecvHeader(upto)
  BY <1>3, RecvHeaderInv
<1>4. CASE \E upto \in 1 .. Request : RecvBody(upto) \/ WriteFails(upto)
  BY <1>4, RecvBodyInv
<1>5. CASE Join \/ LoseLink \/ EventHandler \/ ClientLeaves
  BY <1>5, ElsewhereInv
<1>6. CASE WaitBit \/ CreateServer \/ RecvEnds \/ Send \/ \E v \in Images : Accept(v)
  BY <1>6, QuietStepInv
<1>7. CASE OtaEnd
  BY <1>7, OtaEndInv
<1>8. CASE SetBoot
  BY <1>8, SetBootInv
<1>9. CASE UNCHANGED vars
  <2>1. TypeOK'
    BY <1>9 DEF Inv, TypeOK, vars, flashVars, wifiVars, clientVars, otaVars
  <2> QED
    BY <1>9, <2>1 DEF Inv, SwitchedLast, Delivered, Answered, Target,
       vars, flashVars, wifiVars, clientVars, otaVars
<1> QED
  BY <1>1, <1>2, <1>3, <1>4, <1>5, <1>6, <1>7, <1>8, <1>9
     DEF Next, OtaTask, Receiving, Environment

(* The invariant holds throughout.                                         *)
LEMMA Invariance == Spec => []Inv
BY InitInv, NextInv, PTL DEF Spec

-----------------------------------------------------------------------------
(* Theorems                                                                *)

(* The update server keeps its types; in particular no more chunks are     *)
(* written to a partition than an image has, whatever length was declared. *)
THEOREM OtaTypeCorrect == Spec => []TypeOK
<1>1. Inv => TypeOK
  BY DEF Inv
<1> QED BY <1>1, Invariance, PTL

(* At every moment, the moments of power failures included, the boot       *)
(* loader finds a whole image.                                             *)
THEOREM AlwaysBootable == Spec => []BootsWhole
<1>1. Inv => BootsWhole
  BY DEF Inv, SwitchedLast, BootsWhole
<1> QED BY <1>1, Invariance, PTL

(* A client that was told "200 OK" finds its image on the device.          *)
THEOREM ClientsToldTruth == Spec => []ToldTruth
<1>1. Inv => ToldTruth
  BY DEF Inv, Answered, ToldTruth
<1> QED BY <1>1, Invariance, PTL

-----------------------------------------------------------------------------
(* Refinement                                                              *)

(* What the step does to the image to boot and the one that runs.          *)
LEMMA UpdateStep ==
  Inv /\ Inv' /\ [Next]_vars =>
    [Update!Install \/ Update!Restart]_<<partition[boot], partition[running]>>
<1> SUFFICES ASSUME Inv, Inv', [Next]_vars
             PROVE  \/ Update!Install \/ Update!Restart
                    \/ UNCHANGED <<partition[boot], partition[running]>>
  OBVIOUS
<1>t. TypeOK
  BY DEF Inv
<1>0. Target \in Partitions /\ Target # running
  BY <1>t, OtherPartition DEF TypeOK, Target
<1>1. CASE SetBoot
  <2>1. UNCHANGED <<partition, running>>
    BY <1>1 DEF SetBoot
  <2>2. partition'[boot'] \in {Whole(v) : v \in AllImages}
    BY DEF Inv, SwitchedLast
  <2> QED BY <2>1, <2>2 DEF Update!Install
<1>2. CASE Reboot
  <2>1. running' = boot /\ boot' = boot
    BY <1>2 DEF Reboot
  <2>2. partition'[boot] = partition[boot]
    <3>1. CASE RecvSplitHeader
      <4>1. boot = running
        BY <3>1 DEF RecvSplitHeader, Inv, SwitchedLast
      <4> QED BY <3>1, <4>1, <1>0, <1>t DEF RecvSplitHeader, Target, TypeOK
    <3>2. CASE ~RecvSplitHeader
      <4>1. pc' = "wait_bit"
        BY <1>2 DEF Reboot
      <4>2. UNCHANGED partition
        BY <3>2, <4>1 DEF Next, OtaTask, Receiving, Environment, PowerFails,
           CreateFails, BeginFails, Restart, Abort, WaitBit, CreateServer, RecvEnds,
           RecvHeader, RecvBody, WriteFails, AfterRecv, OtaEnd, SetBoot, Send, Join,
           LoseLink, EventHandler, ClientLeaves, Accept, vars, flashVars
      <4> QED BY <4>2
    <3> QED BY <3>1, <3>2
  <2> QED BY <2>1, <2>2 DEF Update!Restart
<1>3. CASE \E upto \in 1 .. Request : RecvHeader(upto) \/ RecvBody(upto)
  <2>1. /\ boot = running /\ UNCHANGED <<boot, running>>
        /\ \E new : partition' = [partition EXCEPT ![Target] = new]
    BY <1>3 DEF RecvHeader, RecvBody, Inv, SwitchedLast, Target
  <2>2. partition'[running] = partition[running]
    BY <2>1, <1>0, <1>t DEF TypeOK
  <2> QED BY <2>1, <2>2
<1>4. CASE /\ ~SetBoot /\ ~Reboot
           /\ ~\E upto \in 1 .. Request : RecvHeader(upto) \/ RecvBody(upto)
  <2>1. UNCHANGED <<partition, boot, running>>
    BY <1>4 DEF Next, OtaTask, Receiving, Environment, PowerFails, RecvSplitHeader,
       CreateFails, BeginFails, Restart, Abort, WaitBit, CreateServer, RecvEnds,
       WriteFails, OtaEnd, Send, Join, LoseLink, EventHandler, ClientLeaves, Accept,
       vars, flashVars
  <2> QED BY <2>1
<1> QED BY <1>1, <1>2, <1>3, <1>4

(* Seen from the boot loader, the pieces, failures and restarts are atomic *)
(* installations of whole images and restarts.                             *)
THEOREM UpdatesAreAtomic == Spec => Implements
<1>1. Init => Update!Init
  <2>1. Init => partition[boot] = Whole(First) /\ partition[running] = Whole(First)
    BY DEF Init, Partitions
  <2> QED BY <2>1 DEF Update!Init
<1>2. Spec => Update!Init /\ [][Update!Install \/ Update!Restart]_<<partition[boot], partition[running]>>
  BY <1>1, UpdateStep, Invariance, PTL DEF Spec
<1> QED
  BY <1>2 DEF Implements, Update!Spec, Update!vars

(* The partition the device runs from is never written to.                 *)
THEOREM RunningIsUntouched == Spec => RunningUntouched
<1>1. Inv /\ [Next]_vars => [partition'[running] = partition[running]]_vars
  <2> SUFFICES ASSUME Inv, [Next]_vars PROVE partition'[running] = partition[running]
    OBVIOUS
  <2>t. TypeOK
    BY DEF Inv
  <2>0. Target \in Partitions /\ Target # running
    BY <2>t, OtherPartition DEF TypeOK, Target
  <2>1. UNCHANGED partition \/ \E new : partition' = [partition EXCEPT ![Target] = new]
    BY DEF Next, OtaTask, Receiving, Environment, PowerFails, RecvSplitHeader,
       CreateFails, BeginFails, Restart, Abort, WaitBit, CreateServer, RecvEnds,
       RecvHeader, RecvBody, WriteFails, OtaEnd, SetBoot, Send, Join, LoseLink,
       EventHandler, ClientLeaves, Accept, vars, flashVars, Target
  <2> QED BY <2>0, <2>1, <2>t DEF TypeOK
<1> QED
  BY <1>1, Invariance, PTL DEF Spec, RunningUntouched
=============================================================================
