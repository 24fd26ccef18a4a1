------------------------- MODULE LoraReceiverProofs -------------------------
(***************************************************************************)
(* Safety of the receive path for every FIFO size, buffer size, set of     *)
(* packet lengths and number of packets.                                   *)
(***************************************************************************)
EXTENDS LoraReceiver, FiniteSetTheorems, TLAPS

USE RadioAssumption, SizeAssumption DEF RadioAssumption, SizeAssumption

-----------------------------------------------------------------------------
(* The ring of the FIFO                                                    *)

(* Counting on from an address of the FIFO stays in it, and one access     *)
(* after the k-th is the next one.                                         *)
LEMMA RingOfCells ==
  ASSUME NEW a \in Addresses, NEW k \in 0 .. FifoSize
  PROVE  /\ At(a, k) \in Addresses
         /\ At(a, 0) = a
         /\ k < FifoSize => At(At(a, k), 1) = At(a, k + 1)
BY DEF At, Addresses

-----------------------------------------------------------------------------
(* Type correctness                                                        *)

(* The initial state of the radio and of app_main is well typed.           *)
LEMMA InitTypeOK == Init => TypeOK
<1> SUFFICES ASSUME Init PROVE TypeOK
  OBVIOUS
<1>1. air = << >> /\ Last = 0
  BY DEF Init, RadioInit, Last
<1>2. RadioTypeOK
  BY <1>1 DEF Init, RadioInit, RadioTypeOK, Addresses, Modes, Flags
<1>3. pc \in DriverSteps \cup LoopSteps
  BY DEF Init, DriverSteps, LoopSteps
<1>4. buf \in [Cells -> 0 .. Last] /\ value \in [Cells -> 0 .. Last]
  BY <1>1 DEF Init
<1>5. i \in 1 .. Size + 1 /\ size \in 0 .. Size
  BY DEF Init
<1>6. irqRead \subseteq Flags /\ len \in Nat /\ deviceConnected \in BOOLEAN
      /\ rounds \in Nat /\ discards \in Nat /\ pc # "fifo"
  BY DEF Init
<1> QED
  BY <1>2, <1>3, <1>4, <1>5, <1>6 DEF TypeOK

(* A capture keeps the radio well typed and makes the packet the newest.   *)
LEMMA CaptureTypeOK ==
  ASSUME RadioTypeOK, NEW p \in Packets, Capture(p)
  PROVE  RadioTypeOK' /\ Last' = Last + 1
<1>1. air' \in Seq(Packets) /\ Last' = Last + 1
  BY DEF RadioTypeOK, Capture, Last
<1>2. fifo' \in [Addresses -> 0 .. Last'] /\ cur' \in Addresses
  <2>1. Last \in Nat /\ fifo \in [Addresses -> 0 .. Last]
    BY DEF RadioTypeOK, Last
  <2>2. PICK a \in Addresses :
           /\ fifo' = [b \in Addresses |->
                         IF \E k \in 0 .. p.len - 1 : b = At(a, k)
                           THEN Last + 1 ELSE fifo[b]]
           /\ cur' = a
    BY DEF Capture
  <2> QED BY <1>1, <2>1, <2>2
<1> QED
  BY <1>1, <1>2 DEF RadioTypeOK, Capture, Last, Modes, Flags, Packets

(* Every action of app_main, of the callbacks and of the radio keeps the   *)
(* registers and locals within their types.                                *)
LEMMA NextTypeOK == TypeOK /\ [Next]_vars => TypeOK'
<1> SUFFICES ASSUME TypeOK, [Next]_vars PROVE TypeOK'
  OBVIOUS
<1> USE DEF TypeOK, radioVars, driverVars, appVars, history
<1>0. UNCHANGED radioVars => RadioTypeOK' /\ Last' = Last
  BY DEF RadioTypeOK, Last
<1>1. CASE LoraReceive
  BY <1>1 DEF LoraReceive, ReceiveMode, RadioTypeOK, Last, Modes, LoopSteps
<1>2. CASE LoraReceived
  <2>1. CASE "RxDone" \in irq
    BY <1>0, <1>2, <2>1 DEF LoraReceived, DriverSteps
  <2>2. CASE "RxDone" \notin irq
    BY <1>0, <1>2, <2>2 DEF LoraReceived, LoopSteps
  <2> QED BY <2>1, <2>2
<1>3. CASE ReadIrq
  BY <1>0, <1>3 DEF ReadIrq, DriverSteps, RadioTypeOK
<1>4. CASE ClearIrq
  <2>1. RadioTypeOK' /\ Last' = Last
    BY <1>4 DEF ClearIrq, Acknowledged, RadioTypeOK, Last
  <2>2. CASE Readable(irqRead)
    BY <1>4, <2>1, <2>2 DEF ClearIrq, DriverSteps
  <2>3. CASE ~Readable(irqRead)
    BY <1>4, <2>1, <2>3 DEF ClearIrq, LoopSteps
  <2> QED BY <2>2, <2>3
<1>5. CASE ReadLength
  BY <1>0, <1>5 DEF ReadLength, DriverSteps, RadioTypeOK
<1>6. CASE LoraIdle
  BY <1>6 DEF LoraIdle, IdleMode, RadioTypeOK, Last, Modes, DriverSteps
<1>7. CASE SetPointer
  BY <1>7 DEF SetPointer, StartAddress, Clipped, RadioTypeOK, Last, DriverSteps
<1>8. CASE ReadFifo
  <2>0. RadioTypeOK' /\ Last' = Last
    <3>1. UNCHANGED <<mode, irq, air, fifo, cur, nb>> /\ ptr' \in {ptr, At(ptr, 1)}
      BY <1>8 DEF ReadFifo
    <3>2. At(ptr, 1) \in Addresses
      BY RingOfCells DEF RadioTypeOK
    <3> QED BY <3>1, <3>2 DEF RadioTypeOK, Last
  <2>3. UNCHANGED <<irqRead, len, deviceConnected, value, rounds, discards>>
    BY <1>8 DEF ReadFifo
  <2>1. CASE i <= len
    <3>1. buf' \in [Cells -> 0 .. Last]
      BY <1>8, <2>1 DEF ReadFifo, RadioTypeOK
    <3>2. i' \in 1 .. Size + 1 /\ pc' = pc /\ size' = size
      BY <1>8, <2>1 DEF ReadFifo
    <3> QED
      BY <2>0, <2>3, <3>1, <3>2
  <2>2. CASE ~(i <= len)
    <3>1. i' = i /\ pc' = "check" /\ size' = len /\ buf' = buf /\ len <= Size
      BY <1>8, <2>2 DEF ReadFifo
    <3> QED
      BY <2>0, <2>3, <3>1 DEF LoopSteps
  <2> QED BY <2>1, <2>2
<1>9. CASE CheckConnected
  BY <1>0, <1>9 DEF CheckConnected, LoopSteps
<1>10. CASE Publish
  <2>1. value' \in [Cells -> 0 .. Last]
    BY <1>10 DEF Publish, Cells
  <2>2. i' \in 1 .. Size + 1 /\ pc' \in {"publish", "receive"}
    BY <1>10 DEF Publish
  <2> QED
    BY <1>0, <1>10, <2>1, <2>2 DEF Publish, LoopSteps
<1>11. CASE Delay
  BY <1>0, <1>11 DEF Delay, LoopSteps
<1>12. CASE OnConnect
  BY <1>0, <1>12 DEF OnConnect
<1>13. CASE OnDisconnect
  BY <1>0, <1>13 DEF OnDisconnect
<1>14. CASE Arrive
  <2>1. PICK p \in Packets : Capture(p)
    BY <1>14 DEF Arrive
  <2>2. RadioTypeOK' /\ Last' = Last + 1
    BY <2>1, CaptureTypeOK
  <2>3. UNCHANGED <<pc, irqRead, len, i, size, deviceConnected, rounds, discards>>
    BY <1>14 DEF Arrive
  <2>4. buf' \in [Cells -> 0 .. Last'] /\ value' \in [Cells -> 0 .. Last']
    BY <1>14, <2>2 DEF Arrive, RadioTypeOK, Last
  <2> QED
    BY <2>2, <2>3, <2>4
<1>15. CASE UNCHANGED vars
  BY <1>0, <1>15 DEF vars
<1> QED
  BY <1>1, <1>2, <1>3, <1>4, <1>5, <1>6, <1>7, <1>8, <1>9, <1>10, <1>11,
     <1>12, <1>13, <1>14, <1>15 DEF Next, MainStep

(* The receive path stays within its types, whatever arrives and whenever. *)
THEOREM TypeCorrect == Spec => []TypeOK
  BY InitTypeOK, NextTypeOK, PTL DEF Spec

-----------------------------------------------------------------------------
(* The inductive invariant                                                 *)

(* The driver is past its acknowledgement and before its return.           *)
Fetching == {"length", "idle", "pointer", "fifo"}

(* The address and length registers describe the newest packet.            *)
RegistersNewest ==
    /\ \A k \in 0 .. nb - 1 : fifo[At(cur, k)] = Last
    /\ Last > 0 => nb = air[Last].len

(* Flags mean packets: RxDone was raised by a capture; the flags the       *)
(* driver is about to acknowledge are still set, RxDone among them.        *)
FlagsMeanPackets ==
    /\ "RxDone" \in irq => Last > 0
    /\ pc = "irq_read" => "RxDone" \in irq
    /\ pc = "irq_clear" => "RxDone" \in irqRead /\ irqRead \subseteq irq
    /\ pc \in Fetching => Last > 0

(* From lora_idle to the next lora_receive the radio is in standby, so     *)
(* nothing can move what the driver reads or has returned: the cells       *)
(* copied so far are those of the FIFO from the start of the packet on.    *)
FifoFrozen ==
    /\ pc \in {"pointer", "fifo"} => mode = "standby"
    /\ pc \in {"check", "publish"} => mode = "standby" \/ size = 0
    /\ pc = "fifo" =>
         /\ i <= len + 1
         /\ ptr = At(cur, i - 1)
         /\ \A c \in Cells : c < i => buf[c] = fifo[At(cur, c - 1)]

(* Between the length and the data a newer packet may slip in, but then it *)
(* is announced.                                                           *)
LengthCurrent ==
    /\ pc \in {"idle", "pointer"} => len = nb \/ "RxDone" \in irq
    /\ pc = "fifo" => len = Clipped(nb) \/ "RxDone" \in irq

(* A pending announcement belongs to a packet no round has answered yet.   *)
RoundsCounted ==
    /\ rounds <= Last
    /\ "RxDone" \in irq /\ pc \notin {"irq_read", "irq_clear"} => rounds < Last

(* Without short packets the characteristics lag behind the buffer.        *)
ValueBehind == WholeLengths => \A c \in Cells : value[c] <= buf[c]

Inv ==
    /\ TypeOK
    /\ RegistersNewest
    /\ FlagsMeanPackets
    /\ FifoFrozen
    /\ LengthCurrent
    /\ RoundsCounted
    /\ ValueBehind
    /\ NoTornPacket
    /\ NoLostPacket

(* The invariant holds when app_main enters its loop.                      *)
LEMMA InitInv == Init => Inv
<1> SUFFICES ASSUME Init PROVE Inv
  OBVIOUS
<1>1. TypeOK
  BY InitTypeOK
<1>2. Last = 0 /\ pc = "receive" /\ irq = {} /\ nb = 0 /\ rounds = 0
  BY DEF Init, RadioInit, Last
<1>3. ValueBehind
  BY DEF Init, ValueBehind, Cells
<1>4. NoLostPacket
  BY <1>2 DEF NoLostPacket, Whole
<1> QED
  BY <1>1, <1>2, <1>3, <1>4 DEF Inv, RegistersNewest, FlagsMeanPackets,
     Fetching, FifoFrozen, LengthCurrent, RoundsCounted, NoTornPacket

(* What a capture changes: the registers follow the newest packet, flags   *)
(* are only added.                                                         *)
LEMMA CaptureEffect ==
  ASSUME TypeOK, Arrive
  PROVE  /\ mode = "rxcont" /\ UNCHANGED <<mode, ptr>>
         /\ Last' = Last + 1
         /\ RegistersNewest'
         /\ "RxDone" \in irq' /\ irq \subseteq irq'
<1>1. PICK p \in Packets : Capture(p)
  BY DEF Arrive
<1>2. Last' = Last + 1 /\ Last \in Nat
  BY <1>1, CaptureTypeOK DEF TypeOK, RadioTypeOK, Last
<1>3. \A k \in 0 .. nb' - 1 : fifo'[At(cur', k)] = Last'
  <2>1. p.len \in 0 .. FifoSize /\ nb' = p.len
    BY <1>1 DEF Packets, Capture
  <2>2. PICK a \in Addresses :
           /\ fifo' = [b \in Addresses |->
                         IF \E k \in 0 .. p.len - 1 : b = At(a, k)
                           THEN Last + 1 ELSE fifo[b]]
           /\ cur' = a
    BY <1>1 DEF Capture
  <2> SUFFICES ASSUME NEW k \in 0 .. p.len - 1
               PROVE  fifo'[At(a, k)] = Last + 1
    BY <1>2, <2>1, <2>2
  <2>3. k \in 0 .. FifoSize
    BY <2>1
  <2>4. At(a, k) \in Addresses
    BY <2>3, RingOfCells
  <2> QED BY <2>2, <2>4
<1>4. air'[Last'] = p
  BY <1>1, <1>2 DEF Capture, TypeOK, RadioTypeOK, Last
<1> QED
  BY <1>1, <1>2, <1>3, <1>4 DEF Capture, RegistersNewest

(* The copy under way, cell by cell: what is copied next is the packet's   *)
(* as far as the packet reaches.                                           *)
LEMMA CopiedCell ==
  ASSUME Inv, pc = "fifo"
  PROVE  /\ \A c \in Cells : c <= nb => fifo[At(cur, c - 1)] = Last
         /\ nb \in Nat /\ len \in 0 .. Size /\ i \in 1 .. len + 1
         /\ i <= len => fifo[ptr] = fifo[At(cur, i - 1)]
         /\ WholeLengths => nb >= Size
<1>1. nb \in Nat /\ nb \in Lengths \cup {0} /\ Last \in Nat
  BY DEF Inv, TypeOK, RadioTypeOK, Last
<1>2. \A c \in Cells : c <= nb => fifo[At(cur, c - 1)] = Last
  <2> SUFFICES ASSUME NEW c \in Cells, c <= nb
               PROVE  fifo[At(cur, c - 1)] = Last
    OBVIOUS
  <2>1. c - 1 \in 0 .. nb - 1
    BY <1>1 DEF Cells
  <2> QED BY <2>1 DEF Inv, RegistersNewest
<1>3. len \in 0 .. Size /\ i \in 1 .. len + 1
  BY DEF Inv, TypeOK, FifoFrozen
<1>4. WholeLengths => nb >= Size
  <2>1. nb \in Lengths
    <3>1. Last > 0
      BY DEF Inv, FlagsMeanPackets, Fetching
    <3>2. air[Last] \in Packets
      BY <1>1, <3>1 DEF Inv, TypeOK, RadioTypeOK, Last
    <3> QED BY <3>1, <3>2 DEF Inv, RegistersNewest, Packets
  <2> QED BY <2>1 DEF WholeLengths
<1> QED BY <1>1, <1>2, <1>3, <1>4 DEF Inv, FifoFrozen

(* The inductive step, action by action.                                   *)
LEMMA NextInv == Inv /\ [Next]_vars => Inv'
<1> SUFFICES ASSUME Inv, [Next]_vars PROVE Inv'
  OBVIOUS
<1>t. TypeOK /\ TypeOK'
  BY NextTypeOK DEF Inv
<1>n. Last \in Nat /\ Last' \in Nat /\ \A c \in Cells : buf[c] \in 0 .. Last
  <2>1. Last \in Nat
    BY <1>t DEF TypeOK, RadioTypeOK, Last
  <2>2. Last' \in Nat
    BY <1>t DEF TypeOK, RadioTypeOK, Last
  <2> QED BY <1>t, <2>1, <2>2 DEF TypeOK
<1>r. UNCHANGED <<air, fifo, cur, nb>> => RegistersNewest'
  BY DEF Inv, RegistersNewest, Last
<1> USE DEF Inv, FlagsMeanPackets, Fetching, FifoFrozen, LengthCurrent,
            RoundsCounted, DriverSteps
<1>1. CASE LoraReceive
  <2>1. UNCHANGED <<irq, air, fifo, cur, nb, ptr, irqRead, len, buf, size,
                    value, rounds>>
        /\ pc = "receive" /\ pc' = "poll"
    BY <1>1 DEF LoraReceive, driverVars, appVars, history
  <2>2. ValueBehind' /\ NoTornPacket'
    BY <2>1 DEF ValueBehind, NoTornPacket
  <2>3. NoLostPacket'
    BY <2>1 DEF NoLostPacket, Whole, Holds, Last
  <2> QED
    BY <1>t, <1>r, <2>1, <2>2, <2>3 DEF Last
<1>2. CASE LoraReceived
  <2>1. UNCHANGED <<mode, irq, air, fifo, cur, nb, ptr, irqRead, len, buf,
                    size, value>>
        /\ pc = "poll"
    BY <1>2 DEF LoraReceived, radioVars, driverVars, appVars
  <2>2. \/ "RxDone" \in irq /\ pc' = "irq_read" /\ rounds' = rounds + 1
        \/ "RxDone" \notin irq /\ pc' = "delay" /\ rounds' = rounds
    BY <1>2 DEF LoraReceived
  <2>3. ValueBehind' /\ NoTornPacket'
    BY <2>1, <2>2 DEF ValueBehind, NoTornPacket
  <2>4. NoLostPacket'
    BY <2>1, <2>2 DEF NoLostPacket, Whole, Holds, Last
  <2>5. RoundsCounted'
    BY <1>t, <1>n, <2>1, <2>2 DEF TypeOK, Last
  <2> QED
    BY <1>t, <1>r, <2>1, <2>2, <2>3, <2>4, <2>5 DEF Last
<1>3. CASE ReadIrq
  <2>1. UNCHANGED <<mode, irq, air, fifo, cur, nb, ptr, len, buf, size,
                    value, rounds>>
        /\ pc = "irq_read" /\ pc' = "irq_clear" /\ irqRead' = irq
    BY <1>3 DEF ReadIrq, radioVars, appVars, history
  <2>2. ValueBehind' /\ NoTornPacket' /\ NoLostPacket'
    BY <2>1 DEF ValueBehind, NoTornPacket, NoLostPacket
  <2>3. RoundsCounted'
    BY <2>1 DEF Last
  <2> QED
    BY <1>t, <1>r, <2>1, <2>2, <2>3 DEF Last
<1>4. CASE ClearIrq
  <2>1. UNCHANGED <<mode, air, fifo, cur, nb, ptr, irqRead, len, buf, value,
                    rounds>>
        /\ pc = "irq_clear" /\ irq' = irq \ irqRead
        /\ "RxDone" \in irqRead /\ irqRead \subseteq irq
    BY <1>4 DEF ClearIrq, Acknowledged, appVars
  <2>2. \/ pc' = "length" /\ size' = size
        \/ pc' = "check" /\ size' = 0 /\ "CrcError" \in irqRead
    BY <1>4, <2>1 DEF ClearIrq, Readable
  <2>3. ValueBehind' /\ NoLostPacket'
    BY <2>1, <2>2 DEF ValueBehind, NoLostPacket
  <2>4. NoTornPacket'
    <3>1. nb' \in Nat
      BY <1>t DEF TypeOK, RadioTypeOK
    <3> QED BY <2>1, <2>2, <3>1 DEF NoTornPacket
  <2> QED
    BY <1>t, <1>r, <2>1, <2>2, <2>3, <2>4 DEF Last
<1>5. CASE ReadLength
  <2>1. UNCHANGED <<mode, irq, air, fifo, cur, nb, ptr, irqRead, buf, size,
                    value, rounds>>
        /\ pc = "length" /\ pc' = "idle" /\ len' = nb
    BY <1>5 DEF ReadLength, radioVars, appVars, history
  <2>2. ValueBehind' /\ NoTornPacket' /\ NoLostPacket'
    BY <2>1 DEF ValueBehind, NoTornPacket, NoLostPacket
  <2> QED
    BY <1>t, <1>r, <2>1, <2>2 DEF Last
<1>6. CASE LoraIdle
  <2>1. UNCHANGED <<irq, air, fifo, cur, nb, ptr, irqRead, len, buf, size,
                    value, rounds>>
        /\ pc = "idle" /\ pc' = "pointer" /\ mode' = "standby"
    BY <1>6 DEF LoraIdle, IdleMode, driverVars, appVars, history
  <2>2. ValueBehind' /\ NoTornPacket' /\ NoLostPacket'
    BY <2>1 DEF ValueBehind, NoTornPacket, NoLostPacket
  <2> QED
    BY <1>t, <1>r, <2>1, <2>2 DEF Last
<1>7. CASE SetPointer
  <2>1. UNCHANGED <<mode, irq, air, fifo, cur, nb, irqRead, buf, size, value,
                    rounds>>
        /\ pc = "pointer" /\ pc' = "fifo" /\ ptr' = cur
        /\ len' = Clipped(len) /\ i' = 1
    BY <1>7 DEF SetPointer, StartAddress, appVars, history
  <2>2. ValueBehind' /\ NoTornPacket' /\ NoLostPacket'
    BY <2>1 DEF ValueBehind, NoTornPacket, NoLostPacket
  <2>3. FifoFrozen'
    <3>1. At(cur, 0) = cur
      BY <1>t, RingOfCells DEF TypeOK, RadioTypeOK
    <3>2. \A c \in Cells : ~(c < 1)
      BY DEF Cells
    <3> QED BY <1>t, <2>1, <3>1, <3>2 DEF TypeOK
  <2>4. LengthCurrent'
    BY <2>1 DEF Clipped
  <2> QED
    BY <1>t, <1>r, <2>1, <2>2, <2>3, <2>4 DEF Last
<1>8. CASE ReadFifo
  <2>1. UNCHANGED <<mode, irq, air, fifo, cur, nb, irqRead, len, value, rounds>>
        /\ pc = "fifo"
    BY <1>8 DEF ReadFifo, appVars, history
  <2>c. /\ \A c \in Cells : c <= nb => fifo[At(cur, c - 1)] = Last
        /\ nb \in Nat /\ len \in 0 .. Size /\ i \in 1 .. len + 1
        /\ i <= len => fifo[ptr] = fifo[At(cur, i - 1)]
        /\ WholeLengths => nb >= Size
    BY <2>1, CopiedCell
  <2>2. CASE i <= len
    <3>1. buf' = [buf EXCEPT ![i] = fifo[ptr]] /\ ptr' = At(ptr, 1)
          /\ i' = i + 1 /\ pc' = "fifo"
      BY <1>8, <2>1, <2>2 DEF ReadFifo
    <3>2. \A c \in Cells :
             buf'[c] = IF c = i THEN fifo[At(cur, i - 1)] ELSE buf[c]
      BY <1>t, <2>c, <2>2, <3>1 DEF TypeOK
    <3>3. ValueBehind'
      <4> SUFFICES ASSUME WholeLengths, NEW c \in Cells
                   PROVE  value[c] <= buf'[c]
        BY <2>1 DEF ValueBehind
      <4>1. c = i => buf'[c] = Last
        BY <2>c, <2>2, <3>2
      <4> QED
        BY <1>t, <1>n, <3>2, <4>1 DEF ValueBehind, TypeOK
    <3>4. FifoFrozen'
      <4>1. \A c \in Cells : c < i' => buf'[c] = fifo'[At(cur', c - 1)]
        <5> SUFFICES ASSUME NEW c \in Cells, c < i'
                     PROVE  buf'[c] = fifo[At(cur, c - 1)]
          BY <2>1
        <5>1. CASE c = i
          BY <3>2, <5>1
        <5>2. CASE c # i
          <6>1. c < i
            BY <2>c, <3>1, <5>2 DEF Cells
          <6> QED BY <2>1, <3>2, <5>2, <6>1
        <5> QED BY <5>1, <5>2
      <4>2. ptr' = At(cur', i' - 1)
        <5>1. i - 1 \in 0 .. FifoSize /\ i - 1 < FifoSize
          BY ONLY <2>c, <2>2, SizeAssumption, RadioAssumption
             DEF SizeAssumption, RadioAssumption
        <5>4. cur \in Addresses
          BY <1>t DEF TypeOK, RadioTypeOK
        <5>2. At(At(cur, i - 1), 1) = At(cur, (i - 1) + 1)
          BY <5>1, <5>4, RingOfCells
        <5>3. (i - 1) + 1 = i' - 1 /\ ptr = At(cur, i - 1)
          BY <2>1, <2>c, <3>1
        <5> QED BY <2>1, <3>1, <5>2, <5>3
      <4>3. i' <= len' + 1 /\ mode' = "standby"
        BY <2>1, <2>c, <2>2, <3>1
      <4> QED BY <3>1, <4>1, <4>2, <4>3
    <3>5. NoTornPacket' /\ NoLostPacket'
      BY <3>1 DEF NoTornPacket, NoLostPacket
    <3> QED
      BY <1>t, <1>r, <2>1, <3>1, <3>3, <3>4, <3>5 DEF Last
  <2>3. CASE ~(i <= len)
    <3>1. UNCHANGED buf /\ size' = len /\ pc' = "check"
      BY <1>8, <2>3 DEF ReadFifo
    <3>2. \A c \in Cells : c <= len /\ c <= nb => buf[c] = Last
      BY <2>1, <2>c, <2>3 DEF Cells
    <3>6. len > nb => "RxDone" \in irq
      BY <2>1, <2>c DEF Clipped
    <3>3. NoTornPacket'
      <4>1. \A c \in 1 .. len : c <= nb => buf[c] = Last
        BY <2>c, <3>2 DEF Cells
      <4> QED
        BY <2>1, <3>1, <3>6, <4>1 DEF NoTornPacket, Last
    <3>4. NoLostPacket'
      <4> SUFFICES ASSUME Whole(Last), "RxDone" \notin irq PROVE Holds(Last)
        BY <2>1, <3>1 DEF NoLostPacket, Whole, Holds, Last
      <4>1. len = Clipped(nb) /\ nb >= Size
        BY <1>n, <2>1 DEF Whole, RegistersNewest
      <4>2. len = Size
        BY <2>c, <4>1 DEF Clipped
      <4> QED
        BY <2>c, <3>2, <4>1, <4>2 DEF Holds, Cells
    <3>5. ValueBehind'
      BY <2>1, <3>1 DEF ValueBehind
    <3>7. FifoFrozen' /\ LengthCurrent'
      BY <2>1, <3>1
    <3> QED
      BY <1>t, <1>r, <2>1, <3>1, <3>3, <3>4, <3>5, <3>7 DEF Last
  <2> QED BY <2>2, <2>3
<1>9. CASE CheckConnected
  <2>1. UNCHANGED <<mode, irq, air, fifo, cur, nb, ptr, irqRead, len, buf,
                    size, value, rounds>>
        /\ pc = "check" /\ pc' \in {"publish", "receive"}
    BY <1>9 DEF CheckConnected, radioVars, driverVars, appVars, history
  <2>2. ValueBehind'
    BY <2>1 DEF ValueBehind
  <2>4. NoTornPacket'
    BY <2>1 DEF NoTornPacket, Last
  <2>3. NoLostPacket'
    BY <2>1 DEF NoLostPacket, Whole, Holds, Last
  <2> QED
    BY <1>t, <1>r, <2>1, <2>2, <2>3, <2>4 DEF Last
<1>10. CASE Publish
  <2>1. UNCHANGED <<mode, irq, air, fifo, cur, nb, ptr, irqRead, len, buf,
                    size, rounds>>
        /\ pc = "publish" /\ pc' \in {"publish", "receive"}
        /\ value' = [value EXCEPT ![i] = buf[i]]
    BY <1>10 DEF Publish, radioVars, driverVars, history
  <2>2. ValueBehind'
    BY <1>t, <1>n, <2>1 DEF ValueBehind, TypeOK
  <2>3. NoTornPacket' /\ NoLostPacket'
    BY <2>1 DEF NoTornPacket, NoLostPacket, Whole, Holds, Last
  <2> QED
    BY <1>t, <1>r, <2>1, <2>2, <2>3 DEF Last
<1>11. CASE Delay
  <2>1. UNCHANGED <<mode, irq, air, fifo, cur, nb, ptr, irqRead, len, buf,
                    size, value, rounds>>
        /\ pc = "delay" /\ pc' = "receive"
    BY <1>11 DEF Delay, radioVars, driverVars, appVars, history
  <2>2. ValueBehind' /\ NoTornPacket' /\ NoLostPacket'
    BY <2>1 DEF ValueBehind, NoTornPacket, NoLostPacket, Whole, Holds, Last
  <2> QED
    BY <1>t, <1>r, <2>1, <2>2 DEF Last
<1>12. CASE OnConnect \/ OnDisconnect \/ UNCHANGED vars
  <2>1. UNCHANGED <<mode, irq, air, fifo, cur, nb, ptr, irqRead, len, buf,
                    size, value, rounds, pc, i>>
    BY <1>12 DEF OnConnect, OnDisconnect, vars, radioVars, driverVars,
                 appVars, history
  <2>2. ValueBehind' /\ NoTornPacket' /\ NoLostPacket'
    BY <2>1 DEF ValueBehind, NoTornPacket, NoLostPacket, Whole, Holds, Last
  <2> QED
    BY <1>t, <1>r, <2>1, <2>2 DEF Last
<1>13. CASE Arrive
  <2>1. /\ mode = "rxcont" /\ UNCHANGED <<mode, ptr>>
        /\ Last' = Last + 1
        /\ RegistersNewest'
        /\ "RxDone" \in irq' /\ irq \subseteq irq'
    BY <1>t, <1>13, CaptureEffect
  <2>2. UNCHANGED <<pc, i, irqRead, len, buf, size, value, rounds>>
    BY <1>13 DEF Arrive, driverVars, appVars, history
  <2>5. NoTornPacket'
    <3>1. pc \in {"check", "publish"} => size = 0
      BY <2>1
    <3>2. nb' \in Nat
      BY <1>t DEF TypeOK, RadioTypeOK
    <3> QED BY <2>2, <3>1, <3>2 DEF NoTornPacket
  <2>3. ValueBehind' /\ NoLostPacket'
    BY <2>1, <2>2 DEF ValueBehind, NoLostPacket
  <2>4. RoundsCounted'
    BY <1>t, <1>n, <2>1, <2>2 DEF TypeOK
  <2> QED
    BY <1>t, <1>n, <2>1, <2>2, <2>3, <2>4, <2>5
<1> QED
  BY <1>1, <1>2, <1>3, <1>4, <1>5, <1>6, <1>7, <1>8, <1>9, <1>10, <1>11,
     <1>12, <1>13 DEF Next, MainStep

(* The invariant holds in every reachable state.                           *)
LEMMA Invariance == Spec => []Inv
  BY InitInv, NextInv, PTL DEF Spec

(* As far as the newest packet reaches, lora_receive_packet returns its    *)
(* bytes and no other's; what lies behind it is returned only while that   *)
(* packet is still announced.                                              *)
THEOREM NeverTorn == Spec => []NoTornPacket
<1>1. Inv => NoTornPacket
  BY DEF Inv
<1> QED BY <1>1, Invariance, PTL

(* A whole newest packet is fetched, announced, or victim of a CrcError.   *)
THEOREM NeverLost == Spec => []NoLostPacket
<1>1. Inv => NoLostPacket
  BY DEF Inv
<1> QED BY <1>1, Invariance, PTL

(* Rounds of notifications never outnumber captured packets.               *)
THEOREM RoundsAnswerPackets == Spec => []RoundsHavePackets
<1>1. Inv => RoundsHavePackets
  BY DEF Inv, RoundsCounted, RoundsHavePackets
<1> QED BY <1>1, Invariance, PTL

(* The buffer only changes by copying the newest packet's cells, or what   *)
(* lies behind it in the FIFO while it is still announced.                 *)
LEMMA BufferStep ==
  ASSUME Inv, [Next]_vars
  PROVE  \A c \in Cells :
           \/ buf'[c] = buf[c]
           \/ buf'[c] = Last
           \/ pc = "fifo" /\ c > nb /\ "RxDone" \in irq /\ ~WholeLengths
<1>t. TypeOK
  BY DEF Inv
<1>1. CASE ReadFifo
  <2>1. pc = "fifo"
    BY <1>1 DEF ReadFifo
  <2>2. /\ \A c \in Cells : c <= nb => fifo[At(cur, c - 1)] = Last
        /\ nb \in Nat /\ len \in 0 .. Size /\ i \in 1 .. len + 1
        /\ i <= len => fifo[ptr] = fifo[At(cur, i - 1)]
        /\ WholeLengths => nb >= Size
    BY <2>1, CopiedCell
  <2>3. len > nb => "RxDone" \in irq
    BY <2>1, <2>2 DEF Inv, LengthCurrent, Clipped
  <2>4. CASE i <= len
    <3>1. \A c \in Cells :
             buf'[c] = IF c = i THEN fifo[At(cur, i - 1)] ELSE buf[c]
      BY <1>1, <1>t, <2>2, <2>4 DEF ReadFifo, TypeOK
    <3>2. i <= nb \/ (i > nb /\ "RxDone" \in irq /\ ~WholeLengths)
      BY <2>2, <2>3, <2>4
    <3> QED BY <2>1, <2>2, <3>1, <3>2
  <2>5. CASE ~(i <= len)
    BY <1>1, <2>5 DEF ReadFifo
  <2> QED BY <2>4, <2>5
<1>2. CASE ~ReadFifo
  <2>1. UNCHANGED buf
    BY <1>2 DEF Next, MainStep, LoraReceive, LoraReceived, ReadIrq, ClearIrq,
       ReadLength, LoraIdle, SetPointer, CheckConnected, Publish, Delay,
       OnConnect, OnDisconnect, Arrive, vars, driverVars
  <2> QED BY <2>1
<1> QED BY <1>1, <1>2

(* A characteristic only changes by taking over its cell of the buffer.    *)
LEMMA ValueStep ==
  ASSUME Inv, [Next]_vars
  PROVE  \A c \in Cells : value'[c] = value[c] \/ value'[c] = buf[c]
<1>t. TypeOK
  BY DEF Inv
<1>1. CASE Publish
  BY <1>1, <1>t DEF Publish, TypeOK
<1>2. CASE ~Publish
  <2>1. UNCHANGED value
    BY <1>2 DEF Next, MainStep, LoraReceive, LoraReceived, ReadIrq, ClearIrq,
       ReadLength, LoraIdle, SetPointer, ReadFifo, CheckConnected, Delay,
       OnConnect, OnDisconnect, Arrive, vars, appVars
  <2> QED BY <2>1
<1> QED BY <1>1, <1>2

(* A cell of the buffer is overwritten with an older packet only behind    *)
(* the end of a newest packet that is shorter than the one whose length    *)
(* was read, and that is still announced.                                  *)
THEOREM NeverGoesBack == Spec => NeverOlder
<1> DEFINE Step == \A c \in Cells : buf'[c] < buf[c] =>
                      pc = "fifo" /\ c > nb /\ "RxDone" \in irq
<1>1. Inv /\ [Next]_vars => [Step]_vars
  <2> SUFFICES ASSUME Inv, [Next]_vars PROVE Step
    OBVIOUS
  <2>1. Last \in Nat /\ \A c \in Cells : buf[c] \in 0 .. Last
    BY DEF Inv, TypeOK, RadioTypeOK, Last
  <2>2. \A c \in Cells : ~(buf[c] < buf[c]) /\ ~(Last < buf[c])
    BY <2>1
  <2> QED
    BY <2>2, BufferStep
<1> QED
  BY <1>1, Invariance, PTL DEF Spec, NeverOlder

(* Where every packet fills packet_t, neither the buffer nor a             *)
(* characteristic ever goes back to an older packet.                       *)
THEOREM DisplayNeverGoesBack == Spec => DisplayNeverOlder
<1> DEFINE Step == WholeLengths =>
              \A c \in Cells : buf'[c] >= buf[c] /\ value'[c] >= value[c]
<1>1. Inv /\ [Next]_vars => [Step]_vars
  <2> SUFFICES ASSUME Inv, [Next]_vars, WholeLengths, NEW c \in Cells
               PROVE  buf'[c] >= buf[c] /\ value'[c] >= value[c]
    OBVIOUS
  <2>1. Last \in Nat /\ buf[c] \in 0 .. Last /\ value[c] \in 0 .. Last
    BY DEF Inv, TypeOK, RadioTypeOK, Last
  <2>2. value[c] <= buf[c]
    BY DEF Inv, ValueBehind
  <2>3. buf'[c] = buf[c] \/ buf'[c] = Last
    BY BufferStep
  <2>4. value'[c] = value[c] \/ value'[c] = buf[c]
    BY ValueStep
  <2> QED
    BY <2>1, <2>2, <2>3, <2>4
<1> QED
  BY <1>1, Invariance, PTL DEF Spec, DisplayNeverOlder

-----------------------------------------------------------------------------
(* Damaged packets                                                         *)

Damaged == {k \in 1 .. Last : ~air[k].ok}

(* CrcError is only ever raised by a damaged packet that has not cost a    *)
(* call yet.                                                               *)
DiscardsCounted ==
    /\ discards <= Cardinality(Damaged)
    /\ "CrcError" \in irq => discards < Cardinality(Damaged)

(* The number of damaged packets is a number, and a capture adds at most   *)
(* the captured packet to it.                                              *)
LEMMA DamagedGrows ==
  ASSUME TypeOK, NEW p \in Packets, Capture(p)
  PROVE  /\ Cardinality(Damaged) \in Nat
         /\ Cardinality(Damaged') = Cardinality(Damaged) + (IF p.ok THEN 0 ELSE 1)
<1>1. Last \in Nat /\ Last' = Last + 1
  BY CaptureTypeOK DEF TypeOK, RadioTypeOK, Last
<1>2. IsFiniteSet(1 .. Last)
  BY <1>1, FS_Interval
<1>3. IsFiniteSet(Damaged) /\ Cardinality(Damaged) \in Nat
  BY <1>2, FS_Subset, FS_CardinalityType DEF Damaged
<1>4. \A k \in 1 .. Last : air'[k] = air[k]
  BY <1>1 DEF Capture, TypeOK, RadioTypeOK, Last
<1>5. air'[Last + 1] = p
  BY <1>1 DEF Capture, TypeOK, RadioTypeOK, Last
<1>6. CASE p.ok
  <2>1. Damaged' = Damaged
    BY <1>1, <1>4, <1>5, <1>6 DEF Damaged
  <2> QED BY <1>3, <1>6, <2>1
<1>7. CASE ~p.ok
  <2>1. Damaged' = Damaged \cup {Last + 1} /\ Last + 1 \notin Damaged
    BY <1>1, <1>4, <1>5, <1>7 DEF Damaged
  <2>2. Cardinality(Damaged \cup {Last + 1}) = Cardinality(Damaged) + 1
    BY <1>3, <2>1, FS_AddElement
  <2> QED BY <1>3, <1>7, <2>1, <2>2
<1> QED BY <1>6, <1>7

(* Every step keeps the count of empty-handed calls below the damage.      *)
LEMMA NextDiscards == Inv /\ DiscardsCounted /\ [Next]_vars => DiscardsCounted'
<1> SUFFICES ASSUME Inv, DiscardsCounted, [Next]_vars PROVE DiscardsCounted'
  OBVIOUS
<1>t. TypeOK
  BY DEF Inv
<1>1. CASE Arrive
  <2>1. PICK p \in Packets : Capture(p)
    BY <1>1 DEF Arrive
  <2>2. discards' = discards /\ discards \in Nat
    BY <1>1, <1>t DEF Arrive, history, TypeOK
  <2>3. irq' = irq \cup {"RxDone"} \cup (IF p.ok THEN {} ELSE {"CrcError"})
    BY <2>1 DEF Capture
  <2>4. /\ Cardinality(Damaged) \in Nat
        /\ Cardinality(Damaged') = Cardinality(Damaged) + (IF p.ok THEN 0 ELSE 1)
    BY <1>t, <2>1, DamagedGrows
  <2>5. CASE p.ok
    BY <2>2, <2>3, <2>4, <2>5 DEF DiscardsCounted
  <2>6. CASE ~p.ok
    BY <2>2, <2>4, <2>6 DEF DiscardsCounted
  <2> QED BY <2>5, <2>6
<1>2. CASE ~Arrive
  <2>1. UNCHANGED air
    BY <1>2 DEF Next, MainStep, LoraReceive, LoraReceived, ReadIrq, ClearIrq,
       ReadLength, LoraIdle, SetPointer, ReadFifo, CheckConnected, Publish,
       Delay, OnConnect, OnDisconnect, vars, radioVars
  <2>2. Damaged' = Damaged
    BY <2>1 DEF Damaged, Last
  <2>3. IsFiniteSet(1 .. Last)
    BY <1>t, FS_Interval DEF TypeOK, RadioTypeOK, Last
  <2>4. Cardinality(Damaged) \in Nat
    BY <2>3, FS_Subset, FS_CardinalityType DEF Damaged
  <2>5. CASE ClearIrq
    <3>1. "RxDone" \in irqRead /\ irqRead \subseteq irq /\ irq' = irq \ irqRead
      BY <2>5 DEF Inv, FlagsMeanPackets, ClearIrq, Acknowledged
    <3>2. \/ discards' = discards
          \/ discards' = discards + 1 /\ "CrcError" \in irqRead
      BY <2>5, <3>1 DEF ClearIrq, Readable
    <3> QED
      BY <1>t, <2>2, <2>4, <3>1, <3>2 DEF DiscardsCounted, TypeOK
  <2>6. CASE ~ClearIrq
    <3>1. UNCHANGED <<irq, discards>>
      BY <1>2, <2>6 DEF Next, MainStep, LoraReceive, LoraReceived, ReadIrq,
         ReadLength, LoraIdle, SetPointer, ReadFifo, CheckConnected, Publish,
         Delay, OnConnect, OnDisconnect, vars, radioVars, history
    <3> QED
      BY <2>2, <3>1 DEF DiscardsCounted
  <2> QED BY <2>5, <2>6
<1> QED BY <1>1, <1>2

(* No more calls return empty-handed than damaged packets arrived.         *)
THEOREM DiscardsBounded == Spec => []DiscardsAreDamage
<1>1. Init => DiscardsCounted
  <2> SUFFICES ASSUME Init PROVE DiscardsCounted
    OBVIOUS
  <2>1. irq = {} /\ discards = 0 /\ Last = 0
    BY DEF Init, RadioInit, Last
  <2>2. Damaged = {}
    BY <2>1 DEF Damaged
  <2> QED
    BY <2>1, <2>2, FS_EmptySet DEF DiscardsCounted
<1>2. DiscardsCounted => DiscardsAreDamage
  BY DEF DiscardsCounted, DiscardsAreDamage, Damaged
<1> QED
  BY <1>1, <1>2, NextDiscards, Invariance, PTL DEF Spec

-----------------------------------------------------------------------------
(* The receive path implements FreshestPacket                              *)

(* Before the first capture nothing is held and nothing announced.         *)
LEMMA HeldInit == Init => Freshest!Init
  BY DEF Init, RadioInit, heldBar, Last, Freshest!Init, Cells, Freshest!Cells

(* Setting the FIFO pointer fetches: the bytes to be copied are decided.   *)
LEMMA PointerFetches ==
  ASSUME Inv, Inv', SetPointer
  PROVE  Freshest!Fetch
<1>1. UNCHANGED <<air, irq, nb, cur, buf, fifo>> /\ pc = "pointer"
      /\ pc' = "fifo" /\ len' = Clipped(len)
  BY DEF SetPointer
<1>2. /\ \A c \in Cells : c <= nb => fifo[At(cur, c - 1)] = Last
      /\ nb \in Nat /\ len' \in 0 .. Size
  <2>1. nb \in Nat /\ len' \in 0 .. Size
    BY <1>1 DEF Inv, TypeOK, RadioTypeOK
  <2>2. \A c \in Cells : c <= nb => c - 1 \in 0 .. nb - 1
    BY <2>1 DEF Cells
  <2> QED BY <2>1, <2>2 DEF Inv, RegistersNewest
<1>3. TypeOK /\ Cells = Freshest!Cells
  BY DEF Inv, Cells, Freshest!Cells
<1>4. heldBar = buf
  BY <1>1 DEF heldBar
<1>5. heldBar' = [c \in Cells |-> IF c <= len' THEN fifo[At(cur, c - 1)]
                                             ELSE buf[c]]
  BY <1>1 DEF heldBar
<1>6. heldBar' \in [Cells -> 0 .. Last]
  <2>1. \A c \in Cells : c <= len' => fifo[At(cur, c - 1)] \in 0 .. Last
    <3> SUFFICES ASSUME NEW c \in Cells, c <= len'
                 PROVE  fifo[At(cur, c - 1)] \in 0 .. Last
      OBVIOUS
    <3>1. c - 1 \in 0 .. FifoSize /\ cur \in Addresses
      BY <1>3 DEF Cells, TypeOK, RadioTypeOK
    <3>2. At(cur, c - 1) \in Addresses
      BY <3>1, RingOfCells
    <3> QED BY <1>3, <3>2 DEF TypeOK, RadioTypeOK
  <2> QED BY <1>3, <1>5, <2>1 DEF TypeOK
<1>7. len' > nb => "RxDone" \in irq
  BY <1>1, <1>2, <1>3 DEF Inv, LengthCurrent, Clipped, TypeOK
<1>8. \A c \in Cells : /\ c <= len' /\ c <= nb => heldBar'[c] = Last
                       /\ c > len' => heldBar'[c] = heldBar[c]
  BY <1>2, <1>4, <1>5 DEF Cells
<1> QED
  BY <1>1, <1>2, <1>3, <1>6, <1>7, <1>8 DEF Freshest!Fetch, Last

(* Copying one byte, or returning, does not change what will be held.      *)
LEMMA CopyInvisible ==
  ASSUME Inv, ReadFifo
  PROVE  UNCHANGED heldBar
<1>1. UNCHANGED <<fifo, cur, len>> /\ pc = "fifo"
  BY DEF ReadFifo
<1>2. /\ len \in 0 .. Size /\ i \in 1 .. len + 1
      /\ i <= len => fifo[ptr] = fifo[At(cur, i - 1)]
      /\ buf \in [Cells -> 0 .. Last]
  BY <1>1, CopiedCell DEF Inv, TypeOK
<1>3. \A c \in Cells : c < i => buf[c] = fifo[At(cur, c - 1)]
  BY <1>1 DEF Inv, FifoFrozen
<1>4. CASE i <= len
  <2>1. pc' = "fifo" /\ buf' = [buf EXCEPT ![i] = fifo[At(cur, i - 1)]]
    BY <1>1, <1>2, <1>4 DEF ReadFifo
  <2>2. \A c \in Cells : ~(c <= len) => buf'[c] = buf[c]
    BY <1>2, <1>4, <2>1 DEF Cells
  <2> QED
    BY <1>1, <2>1, <2>2 DEF heldBar
<1>5. CASE ~(i <= len)
  <2>1. pc' = "check" /\ buf' = buf
    BY <1>1, <1>5 DEF ReadFifo
  <2>2. \A c \in Cells : c <= len => buf[c] = fifo[At(cur, c - 1)]
    BY <1>2, <1>3, <1>5 DEF Cells
  <2>3. heldBar = [c \in Cells |-> buf[c]] /\ heldBar' = buf
    BY <1>1, <2>1, <2>2 DEF heldBar
  <2>4. buf = [c \in Cells |-> buf[c]]
    BY <1>2
  <2> QED
    BY <2>3, <2>4
<1> QED BY <1>4, <1>5

(* Setting the FIFO pointer fetches, a capture captures, clearing the      *)
(* flags acknowledges, and every other step - the copying included - is    *)
(* invisible.                                                              *)
HeldVars == <<Last, nb, "RxDone" \in irq, heldBar>>

LEMMA HeldStep == Inv /\ Inv' /\ [Next]_vars => [Freshest!Next]_HeldVars
<1> SUFFICES ASSUME Inv, Inv', [Next]_vars
             PROVE  Freshest!Capture \/ Freshest!Acknowledge
                    \/ Freshest!Fetch \/ UNCHANGED HeldVars
  BY DEF Freshest!Next
<1>t. TypeOK
  BY DEF Inv
<1>1. CASE Arrive
  <2>1. mode = "rxcont" /\ Last' = Last + 1 /\ "RxDone" \in irq'
    BY <1>t, <1>1, CaptureEffect
  <2>2. UNCHANGED <<pc, buf>>
    BY <1>1 DEF Arrive, driverVars
  <2>3. pc # "fifo"
    BY <2>1 DEF Inv, FifoFrozen
  <2>4. nb' \in Nat
    BY DEF Inv, TypeOK, RadioTypeOK
  <2> QED
    BY <2>1, <2>2, <2>3, <2>4 DEF heldBar, Freshest!Capture
<1>2. CASE SetPointer
  BY <1>2, PointerFetches
<1>3. CASE ReadFifo
  <2>1. UNCHANGED <<air, nb, irq>>
    BY <1>3 DEF ReadFifo
  <2> QED
    BY <1>3, <2>1, CopyInvisible DEF HeldVars, Last
<1>4. CASE ClearIrq
  <2>1. UNCHANGED <<air, nb, buf>> /\ pc # "fifo" /\ pc' # "fifo"
    BY <1>4 DEF ClearIrq
  <2>2. "RxDone" \notin irq'
    BY <1>4 DEF ClearIrq, Acknowledged, Inv, FlagsMeanPackets
  <2> QED
    BY <2>1, <2>2 DEF heldBar, Last, Freshest!Acknowledge
<1>5. CASE ~Arrive /\ ~SetPointer /\ ~ReadFifo /\ ~ClearIrq
  <2>1. UNCHANGED <<air, irq, nb, cur, buf, fifo>>
    BY <1>5 DEF Next, MainStep, LoraReceive, LoraReceived, ReadIrq,
       ReadLength, LoraIdle, CheckConnected, Publish, Delay, OnConnect,
       OnDisconnect, vars, radioVars, driverVars
  <2>2. (pc # "fifo" /\ pc' # "fifo") \/ UNCHANGED <<pc, len>>
    BY <1>5 DEF Next, MainStep, LoraReceive, LoraReceived, ReadIrq,
       ReadLength, LoraIdle, CheckConnected, Publish, Delay, OnConnect,
       OnDisconnect, vars, driverVars
  <2> QED
    BY <2>1, <2>2 DEF heldBar, HeldVars, Last
<1> QED BY <1>1, <1>2, <1>3, <1>4, <1>5

(* Seen from the firmware, the byte-wise copy under arriving packets is an *)
(* atomic fetch of a prefix of the newest packet, with older bytes behind  *)
(* it only while that packet is still announced.                           *)
THEOREM Refinement == Spec => ImplementsFreshest
<1>1. Spec => Freshest!Init /\ [][Freshest!Next]_HeldVars
  BY HeldInit, HeldStep, Invariance, PTL DEF Spec
<1> QED
  BY <1>1 DEF ImplementsFreshest, Freshest!Spec, Freshest!promised, HeldVars
=============================================================================
