---------------------------- MODULE LoraReceiver ----------------------------
(***************************************************************************)
(* The receiving half of the tracker: the receive path of the LoRa driver  *)
(* (components/lora/lora.c) and the loop of app_main (main/main.cpp) that  *)
(* polls it and hands each packet to the BLE characteristics.              *)
(*                                                                         *)
(* The radio runs on its own: a packet may be captured between any two     *)
(* register accesses of the driver, so the driver is split into one action *)
(* per access.  deviceConnected is written by the Bluetooth task through   *)
(* the server callbacks, at any moment.                                    *)
(*                                                                         *)
(* packet_t is abstracted to Size cells, one per characteristic; a cell    *)
(* holds the number of the packet it was copied from, 0 being what         *)
(* malloc() left there.                                                    *)
(***************************************************************************)
EXTENDS Sx1276, FiniteSets

CONSTANT Size      \* sizeof(packet_t) in cells

ASSUME SizeAssumption == Size \in 1 .. FifoSize

VARIABLES
    pc,               \* the next access of app_main / of the driver
    irqRead,          \* local irq of lora_receive_packet
    len,              \* local len of lora_receive_packet
    i,                \* index of the FIFO copy, then of the characteristics
    buf,              \* *packet in app_main
    size,             \* what lora_receive_packet returned last
    deviceConnected,  \* main.cpp's flag, owned by the BLE callbacks
    value,            \* values of the characteristics
    rounds,           \* history: calls of lora_receive_packet
    discards          \* history: those that returned 0

driverVars == <<irqRead, len, buf, size>>
appVars    == <<deviceConnected, value>>
history    == <<rounds, discards>>
vars       == <<radioVars, pc, i, driverVars, appVars, history>>

Cells == 1 .. Size

(* Where app_main is: the driver's steps first, then the loop's own.       *)
DriverSteps == {"irq_read", "irq_clear", "length", "idle", "pointer", "fifo"}
LoopSteps   == {"receive", "poll", "check", "publish", "delay"}

TypeOK ==
    /\ RadioTypeOK
    /\ pc \in DriverSteps \cup LoopSteps
    /\ irqRead \subseteq Flags
    /\ len \in Nat
    /\ pc = "fifo" => len <= Size
    /\ i \in 1 .. Size + 1
    /\ buf \in [Cells -> 0 .. Last]
    /\ size \in 0 .. Size
    /\ deviceConnected \in BOOLEAN
    /\ value \in [Cells -> 0 .. Last]
    /\ rounds \in Nat
    /\ discards \in Nat

(* After lora_init, the lora_set_* calls and malloc.                       *)
Init ==
    /\ RadioInit
    /\ pc = "receive"
    /\ irqRead = {}
    /\ len = 0
    /\ i = 1
    /\ buf = [c \in Cells |-> 0]
    /\ size = 0
    /\ deviceConnected = FALSE
    /\ value = [c \in Cells |-> 0]
    /\ rounds = 0
    /\ discards = 0

-----------------------------------------------------------------------------
(* The driver                                                              *)

(* lora_receive: back to continuous reception.                             *)
ReceiveMode == "rxcont"

LoraReceive ==
    /\ pc = "receive"
    /\ mode' = ReceiveMode
    /\ pc' = "poll"
    /\ UNCHANGED <<irq, air, fifo, cur, nb, ptr, i, driverVars, appVars, history>>

(* lora_received: is RxDone raised?  If so the inner loop body runs, which *)
(* starts by calling lora_receive_packet.                                  *)
LoraReceived ==
    /\ pc = "poll"
    /\ IF "RxDone" \in irq
         THEN pc' = "irq_read" /\ rounds' = rounds + 1
         ELSE pc' = "delay" /\ UNCHANGED rounds
    /\ UNCHANGED <<radioVars, i, driverVars, appVars, discards>>

(* int irq = lora_read_reg(REG_IRQ_FLAGS)                                  *)
ReadIrq ==
    /\ pc = "irq_read"
    /\ irqRead' = irq
    /\ pc' = "irq_clear"
    /\ UNCHANGED <<radioVars, i, len, buf, size, appVars, history>>

(* What writing the value just read back to REG_IRQ_FLAGS leaves set.      *)
(* Faulty variant: the write acknowledges RxDone only.                     *)
RxDoneAcknowledged(flags, read) == flags \ {"RxDone"}
Acknowledged(flags, read) == flags \ read

(* The two early returns of lora_receive_packet.                           *)
Readable(read) == "RxDone" \in read /\ "CrcError" \notin read

(* Clear the flags that were read; return 0 unless they announce a packet. *)
ClearIrq ==
    /\ pc = "irq_clear"
    /\ irq' = Acknowledged(irq, irqRead)
    /\ IF Readable(irqRead)
         THEN pc' = "length" /\ UNCHANGED <<size, discards>>
         ELSE pc' = "check" /\ size' = 0 /\ discards' = discards + 1
    /\ UNCHANGED <<mode, air, fifo, cur, nb, ptr, i, irqRead, len, buf, appVars, rounds>>

(* len = lora_read_reg(REG_RX_NB_BYTES): headers are always explicit here. *)
ReadLength ==
    /\ pc = "length"
    /\ len' = nb
    /\ pc' = "idle"
    /\ UNCHANGED <<radioVars, i, irqRead, buf, size, appVars, history>>

(* The mode lora_idle, called before the FIFO is touched, puts the radio   *)
(* in.  Faulty variant: the call is missing.                               *)
StillReceiving == "rxcont"
IdleMode == "standby"

LoraIdle ==
    /\ pc = "idle"
    /\ mode' = IdleMode
    /\ pc' = "pointer"
    /\ UNCHANGED <<irq, air, fifo, cur, nb, ptr, i, driverVars, appVars, history>>

(* Where the driver starts to read.  Faulty variant: REG_FIFO_RX_BYTE_ADDR *)
(* is read instead, which points past the packet.                          *)
PastThePacket(current) == At(current, 1)
StartAddress(current) == current

(* if(len > size) len = size.  Faulty variant: no such line.               *)
Unclipped(n) == n
Clipped(n) == IF n > Size THEN Size ELSE n

(* The FIFO pointer is moved to the start of the last packet and len is    *)
(* clipped to the buffer.                                                  *)
SetPointer ==
    /\ pc = "pointer"
    /\ ptr' = StartAddress(cur)
    /\ len' = Clipped(len)
    /\ i' = 1
    /\ pc' = "fifo"
    /\ UNCHANGED <<mode, irq, air, fifo, cur, nb, irqRead, buf, size, appVars, history>>

(* Faulty variant of ReadFifo: the flags are cleared only at the return.   *)
ReadFifoThenClear ==
    /\ pc = "fifo"
    /\ IF i <= len
         THEN /\ buf' = [buf EXCEPT ![i] = fifo[ptr]]
              /\ ptr' = At(ptr, 1)
              /\ i' = i + 1
              /\ UNCHANGED <<pc, size, irq>>
         ELSE /\ size' = len
              /\ pc' = "check"
              /\ irq' = {}
              /\ UNCHANGED <<buf, i, ptr>>
    /\ UNCHANGED <<mode, air, fifo, cur, nb, irqRead, len, appVars, history>>

(* One byte out of the FIFO, whose pointer the access moves on, or the     *)
(* return once len bytes are copied.  The length was read before the       *)
(* radio was idle and the address after, so the copy may run past the end  *)
(* of a shorter packet that came between.                                  *)
ReadFifo ==
    /\ pc = "fifo"
    /\ IF i <= len
         THEN /\ buf' = [buf EXCEPT ![i] = fifo[ptr]]
              /\ ptr' = At(ptr, 1)
              /\ i' = i + 1
              /\ UNCHANGED <<pc, size>>
         ELSE /\ size' = len
              /\ pc' = "check"
              /\ UNCHANGED <<buf, i, ptr>>
    /\ UNCHANGED <<mode, irq, air, fifo, cur, nb, irqRead, len, appVars, history>>

-----------------------------------------------------------------------------
(* The loop of app_main                                                    *)

(* if (deviceConnected): publish; in both cases the inner loop goes on     *)
(* with lora_receive.  What lora_receive_packet returned is not looked at. *)
CheckConnected ==
    /\ pc = "check"
    /\ pc' = IF deviceConnected THEN "publish" ELSE "receive"
    /\ i' = 1
    /\ UNCHANGED <<radioVars, driverVars, appVars, history>>

(* setValue + notify of one characteristic after the other, then the       *)
(* 100 ms pause and lora_receive.                                          *)
Publish ==
    /\ pc = "publish"
    /\ value' = [value EXCEPT ![i] = buf[i]]
    /\ IF i < Size
         THEN i' = i + 1 /\ UNCHANGED pc
         ELSE i' = 1 /\ pc' = "receive"
    /\ UNCHANGED <<radioVars, driverVars, deviceConnected, history>>

(* vTaskDelay(1000) and the connection bookkeeping at the end of the outer *)
(* loop (module BleLink), which touches neither radio nor buffer.          *)
Delay ==
    /\ pc = "delay"
    /\ pc' = "receive"
    /\ UNCHANGED <<radioVars, i, driverVars, appVars, history>>

(* MyServerCallbacks, called from the Bluetooth task.                      *)
OnConnect ==
    /\ ~deviceConnected
    /\ deviceConnected' = TRUE
    /\ UNCHANGED <<radioVars, pc, i, driverVars, value, history>>

OnDisconnect ==
    /\ deviceConnected
    /\ deviceConnected' = FALSE
    /\ UNCHANGED <<radioVars, pc, i, driverVars, value, history>>

(* A packet on the air, good or damaged.                                   *)
Arrive ==
    /\ \E p \in Packets : Capture(p)
    /\ UNCHANGED <<pc, i, driverVars, appVars, history>>

MainStep ==
    \/ LoraReceive \/ LoraReceived
    \/ ReadIrq \/ ClearIrq \/ ReadLength \/ LoraIdle \/ SetPointer \/ ReadFifo
    \/ CheckConnected \/ Publish \/ Delay

Next == MainStep \/ OnConnect \/ OnDisconnect \/ Arrive

Spec == Init /\ [][Next]_vars

(* app_main is a FreeRTOS task that only ever waits for timeouts, so it    *)
(* keeps running.  Nothing is promised about arrivals or about the phone.  *)
FairSpec == Spec /\ WF_vars(MainStep)

-----------------------------------------------------------------------------
(* Properties                                                              *)

(* A whole, intact packet.                                                 *)
Whole(k) == k \in 1 .. Last /\ air[k].ok /\ air[k].len >= Size

(* buf holds nothing but packet k.                                         *)
Holds(k) == \A c \in Cells : buf[c] = k

(* lora_receive_packet does not mix packets that arrive while it copies:   *)
(* as far as the newest packet reaches, every byte it returned is from     *)
(* that packet, thanks to lora_idle() before the address is read.  It      *)
(* returns more bytes than the newest packet has, the rest being what      *)
(* earlier packets left in the FIFO, only when that packet came after the  *)
(* length was read (lora.c:433) and is still announced, so that the next   *)
(* call fetches it with its own length.                                    *)
NoTornPacket ==
    pc \in {"check", "publish"} =>
      /\ \A c \in 1 .. size : c <= nb => buf[c] = Last
      /\ size > nb => "RxDone" \in irq

(* A packet is not lost by the receive path: outside lora_receive_packet,  *)
(* the newest packet, if it is whole, is in the buffer or RxDone still     *)
(* announces it, unless the last call threw its flags away because of      *)
(* CrcError.  The driver acknowledges the flags before it reads length and *)
(* address, so an arrival in between is fetched or announced again.        *)
NoLostPacket ==
    pc \notin DriverSteps /\ Whole(Last) =>
        Holds(Last) \/ "RxDone" \in irq \/ "CrcError" \in irqRead

(* What a damaged packet can cost is bounded: CrcError is acknowledged in  *)
(* the call that sees it, so no more calls return empty-handed than there  *)
(* were damaged packets.                                                   *)
DiscardsAreDamage == discards <= Cardinality({k \in 1 .. Last : ~air[k].ok})

(* Every pass through the inner loop answers a capture of its own: the     *)
(* calls of lora_receive_packet, and so the rounds of notifications, never *)
(* outnumber the packets, because the flags are acknowledged before the    *)
(* next lora_received().                                                   *)
RoundsHavePackets == rounds <= Last

(* A cell of the buffer is overwritten with an older packet in one case    *)
(* only: the copy runs past the end of a packet that came after the length *)
(* was read, and that packet is still announced.                           *)
NeverOlder ==
    [][\A c \in Cells : buf'[c] < buf[c] =>
         pc = "fifo" /\ c > nb /\ "RxDone" \in irq]_vars

(* Where no packet is shorter than packet_t, as those of the tracker's own *)
(* sender are not, the display never goes back in time: neither a cell of  *)
(* the buffer nor a characteristic is overwritten with an older packet.    *)
WholeLengths == \A l \in Lengths : l >= Size

DisplayNeverOlder ==
    [][WholeLengths =>
         \A c \in Cells : buf'[c] >= buf[c] /\ value'[c] >= value[c]]_vars

(* Once no more packets arrive, the buffer ends up holding the last one    *)
(* for good if it was whole and not thrown away with a CrcError: what      *)
(* RxDone announces is really fetched.                                     *)
LastPacketFetched ==
    <>[](Whole(Last) => Holds(Last) \/ "CrcError" \in irqRead)

(* The promise of module FreshestPacket.  A fetch takes effect when the    *)
(* FIFO pointer is set: from then on the radio is idle, so the bytes still *)
(* to be copied are already decided.                                       *)
heldBar ==
    IF pc = "fifo"
      THEN [c \in Cells |-> IF c <= len THEN fifo[At(cur, c - 1)] ELSE buf[c]]
      ELSE buf

Freshest == INSTANCE FreshestPacket
              WITH newest <- Last, length <- nb, announced <- "RxDone" \in irq,
                   held <- heldBar

ImplementsFreshest == Freshest!Spec

(* lora.c:414 "@return Number of bytes received (zero if no packet         *)
(* available)": with zero there is nothing to publish.  app_main stores    *)
(* the result but publishes the buffer regardless.                         *)
PublishesOnlyReceived == pc = "publish" => size > 0
=============================================================================
