---------------------------- MODULE SenderProofs ----------------------------
(***************************************************************************)
(* Safety of the board that sends.  The parser gpstask runs, for every     *)
(* header length, packet size, set of payload values and number of faults  *)
(* on the line; the sender, for every message and packet layout: whatever  *)
(* gpstask does meanwhile, a round ends with its packet on the air; and    *)
(* gps_config, for every window and cycle counter and number of faults.    *)
(***************************************************************************)
EXTENDS Sender, GpsConfig, SequenceTheorems, TLAPS

USE GpsAssumption DEF GpsAssumption

-----------------------------------------------------------------------------
(* The parser: type correctness                                            *)

(* The type invariant by owner: the parser, the line, the history.         *)
ParserTypeOK ==
    /\ state \in {"idle", "pktrcv"}
    /\ numValid \in 0 .. HeaderLength - 1
    /\ received \in 0 .. N - 1
    /\ nav \in [Bytes -> Sources]
    /\ updated \in BOOLEAN

PositionTypeOK == frame \in 1 .. Frames /\ pos \in 0 .. FrameLength - 1

HistoryTypeOK == faults \in 0 .. MaxFaults /\ clean \in BOOLEAN

(* What one byte may do to the parser: it is either searching or storing,  *)
(* and never leaves its counters' ranges.                                  *)
LEMMA ReceiveTypeOK ==
  ASSUME GpsTypeOK, NEW v \in 0 .. HeaderLength, NEW source \in Sources,
         Receive(v, source)
  PROVE  ParserTypeOK'
<1> USE DEF ParserTypeOK
<1>1. CASE Search(v)
  BY <1>1 DEF Search, Matched, GpsTypeOK
<1>2. CASE Store(source)
  <2>1. nav' \in [Bytes -> Sources]
    BY <1>2 DEF Store, GpsTypeOK
  <2>2. CASE received + 1 = N
    BY <1>2, <2>1, <2>2 DEF Store, Complete, Checksum, GpsTypeOK
  <2>3. CASE received + 1 # N
    BY <1>2, <2>1, <2>3 DEF Store, Complete, GpsTypeOK
  <2> QED BY <2>2, <2>3
<1> QED BY <1>1, <1>2 DEF Receive

(* Moving on along the line keeps the position within the frame.           *)
LEMMA AdvanceTypeOK ==
  ASSUME GpsTypeOK, Advance
  PROVE  PositionTypeOK'
<1> USE DEF PositionTypeOK
<1>1. CASE pos + 1 = FrameLength
  <2>1. frame % Frames \in 0 .. Frames - 1
    BY DEF GpsTypeOK
  <2> QED BY <1>1, <2>1 DEF Advance, FrameLength
<1>2. CASE pos + 1 # FrameLength
  BY <1>2 DEF Advance, GpsTypeOK, FrameLength
<1> QED BY <1>1, <1>2

(* Whatever is on the line next is a byte of known value and origin.       *)
LEMMA LineValues ==
  ASSUME GpsTypeOK
  PROVE  /\ Values \subseteq 0 .. HeaderLength
         /\ Source \in Sources
         /\ NoByte \in Sources
  BY DEF GpsTypeOK, Values, Source, Sources, NoByte, FrameLength

(* After gps_config everything is well typed.                              *)
LEMMA GpsInitTypeOK == GpsInit => GpsTypeOK
<1> SUFFICES ASSUME GpsInit PROVE GpsTypeOK
  OBVIOUS
<1>1. nav \in [Bytes -> Sources]
  BY DEF GpsInit, Sources
<1>2. state \in {"idle", "pktrcv"} /\ updated \in BOOLEAN /\ clean \in BOOLEAN
  BY DEF GpsInit
<1>3. numValid \in 0 .. HeaderLength - 1 /\ received \in 0 .. N - 1
  BY DEF GpsInit
<1>4. frame \in 1 .. Frames /\ faults \in 0 .. MaxFaults
      /\ pos \in 0 .. FrameLength - 1
  BY DEF GpsInit
<1> QED BY <1>1, <1>2, <1>3, <1>4 DEF GpsTypeOK

(* Received or lost, a byte keeps the parser and the line well typed.      *)
LEMMA GpsNextTypeOK == GpsTypeOK /\ [GpsNext]_gpsVars => GpsTypeOK'
<1> SUFFICES ASSUME GpsTypeOK, [GpsNext]_gpsVars PROVE GpsTypeOK'
  OBVIOUS
<1>1. ParserTypeOK'
  <2>1. CASE \E v \in 0 .. HeaderLength, source \in Sources : Receive(v, source)
    BY <2>1, ReceiveTypeOK
  <2>2. CASE UNCHANGED parserVars
    BY <2>2 DEF parserVars, GpsTypeOK, ParserTypeOK
  <2> QED
    BY <2>1, <2>2, LineValues
       DEF GpsNext, Byte, LoseByte, ChangeByte, OtherByte, gpsVars
<1>2. PositionTypeOK'
  <2>1. CASE Advance
    BY <2>1, AdvanceTypeOK
  <2>2. CASE UNCHANGED <<frame, pos>>
    BY <2>2 DEF GpsTypeOK, PositionTypeOK
  <2> QED
    BY <2>1, <2>2
       DEF GpsNext, Byte, LoseByte, ChangeByte, OtherByte, gpsVars, lineVars
<1>3. HistoryTypeOK'
  <2>1. CASE Fault
    <3>1. clean' = FALSE
      BY <2>1 DEF Fault
    <3>2. faults' \in 0 .. MaxFaults
      BY <2>1 DEF Fault, GpsTypeOK
    <3> QED BY <3>1, <3>2 DEF HistoryTypeOK
  <2>2. CASE Byte
    <3>1. clean' \in BOOLEAN
      BY <2>2, Zenon DEF Byte, GpsTypeOK
    <3>2. faults' \in 0 .. MaxFaults
      BY <2>2 DEF Byte, GpsTypeOK
    <3> QED BY <3>1, <3>2 DEF HistoryTypeOK
  <2>3. CASE UNCHANGED gpsVars
    BY <2>3 DEF gpsVars, lineVars, GpsTypeOK, HistoryTypeOK
  <2> QED
    BY <2>1, <2>2, <2>3 DEF GpsNext, LoseByte, ChangeByte, OtherByte
<1> QED BY <1>1, <1>2, <1>3 DEF GpsTypeOK, ParserTypeOK, PositionTypeOK, HistoryTypeOK

(* The parser never indexes outside NavPvt.pktBuffer or the header,        *)
(* whatever bytes arrive and whatever the line does to them.               *)
THEOREM GpsTypeCorrect == GpsSpec => []GpsTypeOK
  BY GpsInitTypeOK, GpsNextTypeOK, PTL DEF GpsSpec

-----------------------------------------------------------------------------
(* The parser: in step with the line                                       *)

(* In the middle of a frame that met the parser idle, the parser is        *)
(* exactly as far as the line: matching the same header byte, or storing   *)
(* the payload byte of the same number over a prefix of the same frame.    *)
(* Between frames it is idle and holds the frame before.                   *)
InStep ==
    clean =>
      /\ pos = 0 => /\ state = "idle" /\ numValid = 0
                    /\ WholeFrame(Previous(frame))
      /\ pos \in 1 .. HeaderLength - 1 => state = "idle" /\ numValid = pos
      /\ pos >= HeaderLength =>
           /\ state = "pktrcv" /\ numValid = 0 /\ received = pos - HeaderLength
           /\ \A j \in 1 .. received : nav[j] = <<frame, j>>

(* The next byte of a frame keeps the parser in step, in the header, at    *)
(* its end, in the payload, and at its end.                                *)
LEMMA ByteInStep ==
  ASSUME GpsTypeOK, InStep, Byte
  PROVE  InStep'
<1> SUFFICES ASSUME clean' PROVE InStep'
  BY DEF InStep
<1> PICK v \in Values : Receive(v, Source)
  BY DEF Byte
<1>a. Advance
  BY DEF Byte
<1>b. pos = 0 => state = "idle" /\ numValid = 0
  BY DEF Byte
<1>c. pos # 0 => clean
  BY DEF Byte
<1>t. pos \in 0 .. FrameLength - 1 /\ FrameLength = HeaderLength + N
      /\ FrameLength \in Nat /\ frame \in 1 .. Frames
  BY DEF GpsTypeOK, FrameLength
<1>1. CASE pos < HeaderLength
  <2>1. state = "idle" /\ numValid = pos
    BY <1>b, <1>c, <1>t, <1>1 DEF InStep
  <2>2. v = pos + 1
    BY <1>1 DEF Values
  <2>3. Search(v) /\ Matched(numValid, v) = pos + 1
    BY <2>1, <2>2 DEF Receive, Store, Matched
  <2>4. pos' = pos + 1 /\ frame' = frame
    BY <1>a, <1>t, <1>1 DEF Advance
  <2>5. CASE pos + 1 = HeaderLength
    <3>1. state' = "pktrcv" /\ numValid' = 0 /\ received' = 0
      BY <2>3, <2>5 DEF Search
    <3> QED
      BY <1>t, <2>4, <2>5, <3>1 DEF InStep
  <2>6. CASE pos + 1 # HeaderLength
    <3>1. state' = "idle" /\ numValid' = pos + 1
      BY <2>1, <2>3, <2>6 DEF Search
    <3> QED
      BY <1>t, <1>1, <2>4, <2>6, <3>1 DEF InStep
  <2> QED BY <2>5, <2>6
<1>2. CASE pos >= HeaderLength
  <2>1. /\ state = "pktrcv" /\ numValid = 0 /\ received = pos - HeaderLength
        /\ \A j \in 1 .. received : nav[j] = <<frame, j>>
    BY <1>c, <1>t, <1>2 DEF InStep
  <2>2. Store(Source) /\ Source = <<frame, received + 1>>
    BY <1>t, <1>2, <2>1 DEF Receive, Search, Source
  <2>3. \A j \in 1 .. received + 1 : nav'[j] = <<frame, j>>
    BY <1>t, <2>1, <2>2 DEF Store, GpsTypeOK, Bytes
  <2>4. CASE pos + 1 = FrameLength
    <3>1. received + 1 = N
      BY <1>t, <2>1, <2>4
    <3>2. state' = "idle" /\ numValid' = 0
      BY <2>1, <2>2, <3>1 DEF Store, Complete
    <3>3. pos' = 0 /\ frame' = (frame % Frames) + 1
      BY <1>a, <2>4 DEF Advance
    <3>4. Previous(frame') = frame
      <4>1. CASE frame = Frames
        BY <3>3, <4>1, <1>t DEF Previous
      <4>2. CASE frame # Frames
        BY <3>3, <4>2, <1>t DEF Previous
      <4> QED BY <4>1, <4>2
    <3>5. nav' = [j \in Bytes |-> <<frame, j>>]
      <4>1. nav' \in [Bytes -> Sources]
        BY <1>a, GpsNextTypeOK DEF GpsNext, GpsTypeOK
      <4> QED BY <2>3, <3>1, <4>1 DEF Bytes
    <3>6. WholeFrame(Previous(frame))'
      BY <3>4, <3>5 DEF WholeFrame, Previous
    <3> QED
      BY <1>t, <3>2, <3>3, <3>6 DEF InStep
  <2>5. CASE pos + 1 # FrameLength
    <3>1. received + 1 # N
      BY <1>t, <2>1, <2>5
    <3>2. state' = "pktrcv" /\ numValid' = 0 /\ received' = received + 1
      BY <2>1, <2>2, <3>1 DEF Store, Complete
    <3>3. pos' = pos + 1 /\ frame' = frame
      BY <1>a, <2>5 DEF Advance
    <3> QED
      BY <1>t, <1>2, <2>1, <2>3, <3>2, <3>3 DEF InStep
  <2> QED BY <2>4, <2>5
<1> QED BY <1>1, <1>2, <1>t

(* Faults end the claim to be in step; only whole frames renew it.         *)
LEMMA NextInStep == GpsTypeOK /\ InStep /\ [GpsNext]_gpsVars => InStep'
<1> SUFFICES ASSUME GpsTypeOK, InStep, [GpsNext]_gpsVars PROVE InStep'
  OBVIOUS
<1>1. CASE Byte
  BY <1>1, ByteInStep
<1>2. CASE LoseByte \/ ChangeByte \/ OtherByte
  BY <1>2 DEF LoseByte, ChangeByte, OtherByte, Fault, InStep
<1>3. CASE UNCHANGED gpsVars
  BY <1>3 DEF gpsVars, parserVars, lineVars, InStep, WholeFrame, Previous
<1> QED BY <1>1, <1>2, <1>3 DEF GpsNext

(* The inductive invariant of the parser and the line.                     *)
LEMMA AlwaysInStep == GpsSpec => [](GpsTypeOK /\ InStep)
<1>1. GpsInit => InStep
  BY DEF GpsInit, InStep
<1> QED
  BY <1>1, NextInStep, GpsInitTypeOK, GpsNextTypeOK, PTL DEF GpsSpec

(* A frame that meets the parser idle and arrives without a fault is in    *)
(* NavPvt byte for byte, whatever its payload looks like.                  *)
THEOREM CleanFramesStored == GpsSpec => []CleanFrameStored
<1>1. GpsTypeOK /\ InStep => CleanFrameStored
  BY DEF InStep, CleanFrameStored
<1> QED BY <1>1, AlwaysInStep, PTL

(* After such a frame the next one meets the parser idle as well.          *)
THEOREM NeverLosesStep == GpsSpec => StaysInStep
<1>1. GpsTypeOK /\ InStep /\ [GpsNext]_gpsVars =>
        [clean /\ pos = 0 /\ faults' = faults /\ pos' = 1 => clean']_gpsVars
  <2> SUFFICES ASSUME GpsTypeOK, InStep, GpsNext,
                      clean, pos = 0, faults' = faults, pos' = 1
               PROVE  clean'
    BY DEF gpsVars
  <2>1. Byte
    BY DEF GpsNext, LoseByte, ChangeByte, OtherByte, Fault, GpsTypeOK
  <2> QED BY <2>1 DEF Byte, InStep
<1> QED BY <1>1, AlwaysInStep, PTL DEF GpsSpec, StaysInStep

(* From here on, what Sender assumes of the layout of its messages.        *)
HIDE GpsAssumption DEF GpsAssumption
USE SenderAssumption DEF SenderAssumption

-----------------------------------------------------------------------------
(* The sender: type correctness                                            *)

(* The type invariant by owner: app_main, the radio.                       *)
AppTypeOK ==
    /\ pc \in {"copy", "idle", "rewind", "load", "start", "poll", "clear", "delay"}
    /\ i \in Cells
    /\ packet \in [Cells -> Sources]

RadioTypeOK ==
    /\ mode \in {"standby", "tx"}
    /\ txDone \in BOOLEAN
    /\ ptr \in 0 .. FifoSize - 1
    /\ fifo \in [0 .. FifoSize - 1 -> Sources]
    /\ sent \in Seq(Sources) /\ Len(sent) <= Size

(* There is at least one field to send.                                    *)
LEMMA SizePositive == Size \in Nat \ {0} /\ FifoSize \in Nat \ {0}
  BY DEF Size, FifoSize

(* Every field of the packet is a cell of NavPvt.                          *)
LEMMA FieldCells == \A k \in 1 .. Size : Order[k] \in 1 .. N
  BY SenderAssumption, ElementOfSeq DEF Size

(* The steps of gpstask are steps of the parser's specification.           *)
LEMMA GpsTaskTypeOK ==
  ASSUME GpsTypeOK, GpsByte \/ GpsLoss \/ UNCHANGED gpsVars
  PROVE  GpsTypeOK'
  BY GpsNextTypeOK DEF GpsByte, GpsLoss, GpsNext

(* Before the first round everything is well typed.                        *)
LEMMA InitTypeOK == Init => TypeOK
<1> SUFFICES ASSUME Init PROVE TypeOK
  OBVIOUS
<1> USE SizePositive
<1>1. GpsTypeOK
  BY GpsInitTypeOK DEF Init
<1>2. AppTypeOK
  BY DEF Init, AppTypeOK, Cells, Sources
<1>3. mode \in {"standby", "tx"} /\ txDone \in BOOLEAN /\ whole \in BOOLEAN
      /\ quiet \in BOOLEAN /\ gpsTask \in {"config", "parse", "spin"}
  BY DEF Init
<1>4. ptr \in 0 .. FifoSize - 1 /\ fifo \in [0 .. FifoSize - 1 -> Sources]
  BY DEF Init, Sources
<1>5. sent \in Seq(Sources) /\ Len(sent) <= Size
  BY DEF Init
<1> QED BY <1>1, <1>2, <1>3, <1>4, <1>5 DEF TypeOK, AppTypeOK

(* gpstask changes only the types its own lemma covers, app_main and the   *)
(* radio never leave their packet and their FIFO.                          *)
LEMMA NextTypeOK == TypeOK /\ [Next]_vars => TypeOK'
<1> SUFFICES ASSUME TypeOK, [Next]_vars PROVE TypeOK'
  OBVIOUS
<1> USE SizePositive
<1>1. GpsTypeOK'
  <2>1. GpsByte \/ GpsLoss \/ UNCHANGED gpsVars
    BY DEF Next, GpsStep, MainStep, RadioStep, GpsConfig, Copy, LoraIdle, Rewind,
           Load, StartTx, PollTxDone, ClearTxDone, Delay, Transmit, EndTx, vars
  <2> QED BY <2>1, GpsTaskTypeOK DEF TypeOK
<1>2. gpsTask' \in {"config", "parse", "spin"}
  BY DEF TypeOK, Next, GpsStep, MainStep, RadioStep, GpsConfig, GpsByte, GpsLoss,
         Copy, LoraIdle, Rewind, Load, StartTx, PollTxDone, ClearTxDone, Delay,
         Transmit, EndTx, vars
<1>3. AppTypeOK'
  <2>1. CASE Copy
    <3>1. nav[Order[i]] \in Sources
      <4>1. i \in 1 .. Len(Order)
        BY DEF TypeOK, Cells, Size
      <4>2. Order[i] \in Bytes
        BY <4>1, FieldCells DEF Bytes, Size
      <4>3. nav \in [Bytes -> Sources]
        BY DEF TypeOK, GpsTypeOK
      <4> QED BY <4>2, <4>3
    <3>2. packet' \in [Cells -> Sources]
      BY <2>1, <3>1 DEF Copy, TypeOK
    <3> QED BY <2>1, <3>2 DEF Copy, TypeOK, AppTypeOK, Cells
  <2>2. CASE Load
    BY <2>2 DEF Load, TypeOK, AppTypeOK, Cells
  <2>3. CASE LoraIdle \/ Rewind \/ StartTx \/ PollTxDone \/ ClearTxDone \/ Delay
    BY <2>3 DEF LoraIdle, Rewind, StartTx, PollTxDone, ClearTxDone, Delay,
                TypeOK, AppTypeOK
  <2>4. CASE UNCHANGED appVars
    BY <2>4 DEF appVars, TypeOK, AppTypeOK
  <2> QED
    BY <2>1, <2>2, <2>3, <2>4
       DEF Next, GpsStep, MainStep, RadioStep, GpsConfig, GpsByte, GpsLoss,
           Transmit, EndTx, vars
<1>4. RadioTypeOK'
  <2>1. CASE Load
    <3>1. packet[i] \in Sources
      BY DEF TypeOK
    <3>2. fifo' \in [0 .. FifoSize - 1 -> Sources]
      BY <2>1, <3>1 DEF Load, TypeOK
    <3>3. ptr' \in 0 .. FifoSize - 1
      BY <2>1 DEF Load, TypeOK
    <3> QED BY <2>1, <3>2, <3>3 DEF Load, TypeOK, RadioTypeOK
  <2>2. CASE Transmit
    <3>1. fifo[Len(sent)] \in Sources
      BY <2>2 DEF Transmit, TypeOK, FifoSize
    <3>2. sent' \in Seq(Sources) /\ Len(sent') = Len(sent) + 1
      BY <2>2, <3>1 DEF Transmit, TypeOK
    <3> QED BY <2>2, <3>2 DEF Transmit, TypeOK, RadioTypeOK
  <2>3. CASE LoraIdle \/ Rewind
    BY <2>3 DEF LoraIdle, Rewind, Rewound, TypeOK, RadioTypeOK
  <2>4. CASE StartTx
    BY <2>4 DEF StartTx, TxMode, TypeOK, RadioTypeOK
  <2>5. CASE ClearTxDone \/ EndTx
    BY <2>5 DEF ClearTxDone, Cleared, EndTx, TypeOK, RadioTypeOK
  <2>6. CASE UNCHANGED radioVars
    BY <2>6 DEF radioVars, TypeOK, RadioTypeOK
  <2> QED
    BY <2>1, <2>2, <2>3, <2>4, <2>5, <2>6
       DEF Next, GpsStep, MainStep, RadioStep, GpsConfig, GpsByte, GpsLoss,
           Copy, PollTxDone, Delay, vars
<1>5. whole' \in BOOLEAN /\ quiet' \in BOOLEAN
  <2>1. CASE GpsByte
    <3>1. quiet' \in BOOLEAN
      BY <2>1, Zenon DEF GpsByte
    <3>2. whole' \in BOOLEAN
      <4>1. CASE state = "pktrcv"
        BY <2>1, <4>1, Zenon DEF GpsByte
      <4>2. CASE state # "pktrcv"
        BY <2>1, <4>2 DEF GpsByte, TypeOK
      <4> QED BY <4>1, <4>2
    <3> QED BY <3>1, <3>2
  <2>2. CASE Copy
    BY <2>2 DEF Copy, TypeOK
  <2>3. CASE UNCHANGED history
    BY <2>3 DEF history, TypeOK
  <2> QED
    BY <2>1, <2>2, <2>3
       DEF Next, GpsStep, MainStep, RadioStep, GpsConfig, GpsLoss, LoraIdle, Rewind,
           Load, StartTx, PollTxDone, ClearTxDone, Delay, Transmit, EndTx, vars
<1> QED
  BY <1>1, <1>2, <1>3, <1>4, <1>5 DEF TypeOK, AppTypeOK, RadioTypeOK

(* The sender stays within packet_t, NavPvt and the FIFO, however gpstask  *)
(* and app_main interleave and whatever is lost on the serial line.        *)
THEOREM SenderTypeCorrect == Spec => []TypeOK
  BY InitTypeOK, NextTypeOK, PTL DEF Spec

-----------------------------------------------------------------------------
(* The sender: the round of app_main                                       *)

(* The radio sends exactly while app_main polls for a flag that is not yet *)
(* set, and the flag is set only for the transmission just ended.          *)
RadioInRound ==
    /\ mode = "tx" <=> pc = "poll" /\ ~txDone
    /\ txDone => pc \in {"poll", "clear"}
    /\ pc = "clear" => txDone

(* The FIFO holds as much of the packet as was loaded, from its start.     *)
FifoInRound ==
    /\ pc \notin {"copy", "load"} => i = 1
    /\ pc = "load" => ptr = i - 1
    /\ pc = "load" => \A c \in 1 .. i - 1 : fifo[c - 1] = packet[c]
    /\ pc \in {"start", "poll"} => \A c \in Cells : fifo[c - 1] = packet[c]

(* What is on the air is the beginning of the packet, and all of it once   *)
(* the radio is done.                                                      *)
AirInRound ==
    /\ pc \in {"poll", "clear", "delay"} =>
         \A c \in 1 .. Len(sent) : sent[c] = packet[c]
    /\ txDone \/ pc = "delay" => Len(sent) = Size

(* The inductive invariant.                                                *)
Round == RadioInRound /\ FifoInRound /\ AirInRound

(* Before the first round nothing is sent.                                 *)
LEMMA InitRound == Init => Round
  BY DEF Init, Round, RadioInRound, FifoInRound, AirInRound

(* Every step of app_main and of the radio keeps the two in one round;     *)
(* gpstask touches neither.                                                *)
LEMMA NextRound == TypeOK /\ Round /\ [Next]_vars => Round'
<1> SUFFICES ASSUME TypeOK, Round, [Next]_vars PROVE Round'
  OBVIOUS
<1> USE SizePositive
<1>1. CASE UNCHANGED <<appVars, radioVars>>
  BY <1>1 DEF appVars, radioVars, Round, RadioInRound, FifoInRound, AirInRound, Cells
<1>2. CASE Copy
  <2>1. pc = "copy" /\ pc' \in {"copy", "idle"} /\ (pc' = "idle" => i' = 1)
    BY <1>2 DEF Copy
  <2>2. UNCHANGED radioVars
    BY <1>2 DEF Copy
  <2> QED
    BY <2>1, <2>2 DEF radioVars, Round, RadioInRound, FifoInRound, AirInRound
<1>3. CASE LoraIdle
  BY <1>3 DEF LoraIdle, Round, RadioInRound, FifoInRound, AirInRound
<1>4. CASE Rewind
  BY <1>4 DEF Rewind, Rewound, Round, RadioInRound, FifoInRound, AirInRound
<1>5. CASE Load
  <2>1. ptr = i - 1 /\ i \in 1 .. Size
    BY <1>5 DEF Load, Round, FifoInRound, TypeOK, Cells
  <2>2. ptr' = i
    BY <1>5, <2>1 DEF Load, FifoSize
  <2>3. \A c \in 1 .. i : fifo'[c - 1] = packet'[c]
    BY <1>5, <2>1 DEF Load, Round, FifoInRound, TypeOK, FifoSize
  <2>4. FifoInRound'
    BY <1>5, <2>1, <2>2, <2>3 DEF Load, FifoInRound, Cells
  <2>5. RadioInRound' /\ AirInRound'
    BY <1>5 DEF Load, Round, RadioInRound, AirInRound
  <2> QED BY <2>4, <2>5 DEF Round
<1>6. CASE StartTx
  BY <1>6 DEF StartTx, TxMode, Round, RadioInRound, FifoInRound, AirInRound, Cells
<1>7. CASE PollTxDone
  BY <1>7 DEF PollTxDone, radioVars, Round, RadioInRound, FifoInRound, AirInRound
<1>8. CASE ClearTxDone
  BY <1>8 DEF ClearTxDone, Cleared, Round, RadioInRound, FifoInRound, AirInRound
<1>9. CASE Delay
  BY <1>9 DEF Delay, radioVars, Round, RadioInRound, FifoInRound, AirInRound
<1>10. CASE Transmit
  <2>1. pc = "poll" /\ ~txDone /\ Len(sent) + 1 \in Cells
    BY <1>10 DEF Transmit, Round, RadioInRound, TypeOK, Cells
  <2>2. fifo[Len(sent)] = packet[Len(sent) + 1]
    <3> DEFINE c == Len(sent) + 1
    <3>1. c - 1 = Len(sent)
      BY DEF TypeOK
    <3>2. fifo[c - 1] = packet[c]
      BY <2>1 DEF Round, FifoInRound
    <3> QED BY <3>1, <3>2
  <2>3. \A c \in 1 .. Len(sent') : sent'[c] = packet'[c]
    BY <1>10, <2>1, <2>2 DEF Transmit, appVars, Round, AirInRound, TypeOK
  <2>4. AirInRound'
    BY <1>10, <2>1, <2>3 DEF Transmit, appVars, AirInRound
  <2>5. RadioInRound' /\ FifoInRound'
    BY <1>10 DEF Transmit, appVars, Round, RadioInRound, FifoInRound, Cells
  <2> QED BY <2>4, <2>5 DEF Round
<1>11. CASE EndTx
  BY <1>11 DEF EndTx, appVars, Round, RadioInRound, FifoInRound, AirInRound, Cells
<1> QED
  BY <1>1, <1>2, <1>3, <1>4, <1>5, <1>6, <1>7, <1>8, <1>9, <1>10, <1>11
     DEF Next, GpsStep, MainStep, RadioStep, GpsConfig, GpsByte, GpsLoss, vars

(* It holds throughout.                                                    *)
LEMMA AlwaysRound == Spec => [](TypeOK /\ Round)
  BY InitTypeOK, NextTypeOK, InitRound, NextRound, PTL DEF Spec

(* Every call of lora_send_packet puts its own packet on the air, whole.   *)
THEOREM PacketsSentWhole == Spec => []SentWhole
<1>1. TypeOK /\ Round => SentWhole
  <2> SUFFICES ASSUME TypeOK, Round, pc \in {"clear", "delay"}
               PROVE  mode = "standby" /\ sent = [c \in Cells |-> packet[c]]
    BY DEF SentWhole
  <2>1. mode = "standby"
    BY DEF Round, RadioInRound, TypeOK
  <2>2. Len(sent) = Size /\ \A c \in 1 .. Len(sent) : sent[c] = packet[c]
    BY DEF Round, RadioInRound, AirInRound
  <2>3. sent = [c \in 1 .. Len(sent) |-> sent[c]]
    BY DEF TypeOK
  <2> QED BY <2>1, <2>2, <2>3 DEF Cells
<1> QED BY <1>1, AlwaysRound, PTL

(* No transmission is cut short by the next round.                         *)
THEOREM NothingCutShort == Spec => NeverCutShort
<1>1. TypeOK /\ Round /\ [Next]_vars =>
        [mode = "tx" /\ mode' # "tx" => Len(sent) = Size]_vars
  <2> SUFFICES ASSUME TypeOK, Round, Next, mode = "tx", mode' # "tx"
               PROVE  Len(sent) = Size
    BY DEF vars
  <2>1. pc = "poll"
    BY DEF Round, RadioInRound
  <2>2. EndTx
    BY <2>1 DEF Next, GpsStep, MainStep, RadioStep, GpsConfig, GpsByte, GpsLoss,
           Copy, LoraIdle, Rewind, Load, StartTx, PollTxDone, ClearTxDone, Delay,
           Transmit, radioVars
  <2> QED BY <2>2 DEF EndTx
<1> QED BY <1>1, AlwaysRound, PTL DEF Spec, NeverCutShort

-----------------------------------------------------------------------------
(* The sender: what is copied                                              *)

(* NavPvt holds a frame when the last byte stored ended a clean one.       *)
WholeStored == whole => \E f \in 1 .. Frames : nav = [j \in Bytes |-> <<f, j>>]

(* While nothing is stored the copy agrees with NavPvt as far as it got.   *)
Copied(n) == \A c \in 1 .. n : packet[c] = nav[Order[c]]
QuietCopy ==
    quiet => /\ whole
             /\ pc = "copy" => Copied(i - 1)
             /\ pc = "idle" => Copied(Size)

Copying == InStep /\ WholeStored /\ QuietCopy

(* The byte that ends a clean frame leaves the whole of it in NavPvt.      *)
LEMMA LastByteStored ==
  ASSUME GpsTypeOK, InStep, Byte, clean, state = "pktrcv", state' = "idle"
  PROVE  \E f \in 1 .. Frames : nav' = [j \in Bytes |-> <<f, j>>]
<1>1. GpsTypeOK' /\ InStep'
  BY GpsNextTypeOK, ByteInStep DEF GpsNext
<1>2. HeaderLength \in Nat \ {0} /\ N \in Nat \ {0} /\ pos \in Nat /\ Frames \in Nat \ {0}
  BY GpsAssumption DEF GpsAssumption, GpsTypeOK, FrameLength
<1>3. pos # 0
  BY <1>2 DEF InStep
<1>4. clean'
  BY <1>3 DEF Byte
<1>5. pos' = 0
  <2>1. pos' = 0 \/ pos' = pos + 1
    BY DEF Byte, Advance
  <2>2. CASE pos' = pos + 1
    <3>1. pos >= HeaderLength /\ pos' > HeaderLength
      BY <1>2, <2>2 DEF InStep
    <3>2. state' = "pktrcv"
      BY <1>1, <1>2, <1>4, <2>2, <3>1 DEF InStep
    <3> QED BY <3>2
  <2> QED BY <2>1, <2>2
<1>6. frame' \in 1 .. Frames /\ Previous(frame') \in 1 .. Frames
  <2>1. frame' \in 1 .. Frames
    BY <1>1 DEF GpsTypeOK
  <2>2. \A f \in 1 .. Frames : Previous(f) \in 1 .. Frames
    BY <1>2 DEF Previous
  <2> QED BY <2>1, <2>2
<1>7. nav' = [j \in Bytes |-> <<Previous(frame'), j>>]
  BY <1>1, <1>4, <1>5 DEF InStep, Previous, WholeFrame
<1> QED BY <1>6, <1>7

(* A byte that is not stored leaves NavPvt alone.                          *)
LEMMA SearchKeeps == Byte /\ state = "idle" => nav' = nav
  BY DEF Byte, Receive, Search, Store

(* Before the first frame NavPvt is not taken for whole.                   *)
LEMMA InitCopying == Init => Copying
  BY DEF Init, Copying, WholeStored, QuietCopy, InStep, GpsInit

LEMMA NextCopying == TypeOK /\ Round /\ Copying /\ [Next]_vars => Copying'
<1> SUFFICES ASSUME TypeOK, Round, Copying, [Next]_vars PROVE Copying'
  OBVIOUS
<1> USE SizePositive DEF Copying
<1>1. InStep'
  <2>1. GpsByte \/ GpsLoss \/ UNCHANGED gpsVars
    BY DEF Next, GpsStep, MainStep, RadioStep, GpsConfig, Copy, LoraIdle, Rewind,
           Load, StartTx, PollTxDone, ClearTxDone, Delay, Transmit, EndTx, vars
  <2> QED BY <2>1, NextInStep DEF GpsByte, GpsLoss, GpsNext, TypeOK
<1>2. CASE GpsByte
  <2>1. CASE state = "idle"
    <3>1. nav' = nav /\ whole' = whole /\ UNCHANGED appVars /\ (quiet' => quiet)
      BY <1>2, <2>1, SearchKeeps DEF GpsByte
    <3>2. WholeStored'
      BY <3>1 DEF WholeStored
    <3>3. QuietCopy'
      BY <3>1 DEF QuietCopy, Copied, appVars
    <3> QED BY <1>1, <3>2, <3>3
  <2>2. CASE state # "idle"
    <3>1. state = "pktrcv" /\ ~quiet' /\ (whole' => clean /\ state' = "idle")
      BY <1>2, <2>2 DEF GpsByte, TypeOK, GpsTypeOK
    <3>2. WholeStored'
      BY <1>2, <3>1, LastByteStored DEF GpsByte, TypeOK, WholeStored
    <3> QED BY <1>1, <3>1, <3>2 DEF QuietCopy
  <2> QED BY <2>1, <2>2
<1>3. CASE Copy
  <2>1. WholeStored'
    BY <1>3 DEF Copy, WholeStored, gpsVars, parserVars
  <2>2. QuietCopy'
    <3> SUFFICES ASSUME quiet' PROVE whole' /\ (pc' = "copy" => Copied(i - 1)')
                                           /\ (pc' = "idle" => Copied(Size)')
      BY DEF QuietCopy
    <3>1. i \in 1 .. Size /\ nav' = nav /\ whole' = whole
      BY <1>3 DEF Copy, TypeOK, Cells, gpsVars, parserVars
    <3>2. whole /\ (i # 1 => Copied(i - 1))
      BY <1>3 DEF Copy, QuietCopy
    <3>3. \A c \in 1 .. i : packet'[c] = nav'[Order[c]]
      <4> SUFFICES ASSUME NEW c \in 1 .. i PROVE packet'[c] = nav[Order[c]]
        BY <3>1
      <4>1. CASE c = i
        BY <1>3, <3>1, <4>1 DEF Copy, TypeOK, Cells
      <4>2. CASE c # i
        BY <1>3, <3>1, <3>2, <4>2 DEF Copy, TypeOK, Cells, Copied
      <4> QED BY <4>1, <4>2
    <3>4. CASE i < Size
      BY <1>3, <3>1, <3>2, <3>3, <3>4 DEF Copy, Copied
    <3>5. CASE i >= Size
      BY <1>3, <3>1, <3>2, <3>3, <3>5 DEF Copy, Copied
    <3> QED BY <3>1, <3>4, <3>5
  <2> QED BY <1>1, <2>1, <2>2
<1>4. CASE Delay
  <2>1. i' = 1 /\ UNCHANGED <<gpsVars, packet, history>> /\ pc' = "copy"
    BY <1>4 DEF Delay, Round, FifoInRound
  <2> QED BY <1>1, <2>1 DEF WholeStored, QuietCopy, Copied, history,
                            gpsVars, parserVars
<1>5. CASE LoraIdle \/ Rewind \/ Load \/ StartTx \/ PollTxDone \/ ClearTxDone
  <2>1. UNCHANGED <<nav, history>> /\ pc' \notin {"copy", "idle"}
    BY <1>5 DEF LoraIdle, Rewind, Load, StartTx, PollTxDone, ClearTxDone,
                gpsVars, parserVars
  <2> QED BY <1>1, <2>1 DEF WholeStored, QuietCopy, history
<1>6. CASE GpsConfig \/ GpsLoss \/ Transmit \/ EndTx \/ UNCHANGED vars
  <2>1. UNCHANGED <<nav, appVars, history>>
    BY <1>6 DEF GpsConfig, GpsLoss, LoseByte, Transmit, EndTx, vars, gpsVars, parserVars
  <2> QED BY <1>1, <2>1 DEF WholeStored, QuietCopy, Copied, appVars, history
<1> QED BY <1>2, <1>3, <1>4, <1>5, <1>6 DEF Next, GpsStep, MainStep, RadioStep

(* A packet is torn only by a message that arrives while it is copied: one *)
(* copied in quiet, from a NavPvt that holds a whole frame, is of one      *)
(* frame, for every layout of packet_t.                                    *)
THEOREM CopiedInOnePiece == Spec => []TornOnlyByArrival
<1>1. TypeOK /\ Copying => TornOnlyByArrival
  <2> SUFFICES ASSUME TypeOK, Copying, pc = "idle", quiet
               PROVE  \E f \in 1 .. Frames : packet = [c \in Cells |-> <<f, Order[c]>>]
    BY DEF TornOnlyByArrival
  <2>1. PICK f \in 1 .. Frames : nav = [j \in Bytes |-> <<f, j>>]
    BY DEF Copying, WholeStored, QuietCopy
  <2>2. \A c \in Cells : packet[c] = <<f, Order[c]>>
    BY <2>1, FieldCells DEF Copying, QuietCopy, Copied, Cells, Bytes
  <2>3. packet = [c \in Cells |-> packet[c]]
    BY DEF TypeOK
  <2> QED BY <2>2, <2>3
<1>2. Spec => []Copying
  BY InitCopying, NextCopying, AlwaysRound, PTL DEF Spec
<1> QED BY <1>1, <1>2, AlwaysRound, PTL

HIDE SenderAssumption DEF SenderAssumption

-----------------------------------------------------------------------------
(* GPS configuration: its inductive invariant                              *)

(* Whether a detection can hear the receiver.                              *)
Fits(d) ==
    /\ Detections[d].baud = rx.baud
    /\ \/ Detections[d].kind = talker /\ SendsGLL(rx)
       \/ Detections[d].kind = "UBX" /\ SendsPVT(rx)

(* The bytes read by the detection under way.                              *)
Reads == IF marker <= now THEN now - marker ELSE now + CounterSize - marker

(* While it listens for what the receiver sends, what it has matched       *)
(* follows the receiver's cycle: the first header may be missed, when b    *)
(* still holds its first byte, the second is not.                          *)
SincePacket   == IF phase = 6 THEN 1 ELSE phase + 2
SinceSentence == IF phase = 0 THEN 4 ELSE phase - 3

InSentence ==
    /\ phase \in 1 .. 3 =>
         /\ Reads >= 1 => b = Header[talker][phase] /\ cnt \in {0, phase}
         /\ Reads >= 4 + phase => cnt = phase
         /\ Reads <= 10 + phase
    /\ phase \notin 1 .. 3 =>
         /\ Reads < SinceSentence => cnt \in {0, 1}
         /\ Reads >= SinceSentence => cnt = 0 /\ b \in {3, 5, 6}
         /\ Reads <= SinceSentence + 6

InPacket ==
    /\ phase = 5 =>
         /\ Reads >= 1 => b = 5 /\ cnt \in {0, 1}
         /\ Reads >= 7 => cnt = 1
         /\ Reads <= 13
    /\ phase # 5 =>
         /\ Reads < SincePacket => cnt \in {0, 1}
         /\ Reads >= SincePacket => cnt = 0 /\ b # 5
         /\ Reads <= SincePacket + 6

Hearing ==
    step = "listen" /\ garbled = 0 /\ Fits(detection) =>
      /\ Reads = 0 => cnt = 0
      /\ IF Detections[detection].kind = "UBX" THEN InPacket ELSE InSentence

(* What a detection has matched is in b; two bytes only arrive at the      *)
(* receiver's speed.                                                       *)
Matching ==
    /\ step = "listen" =>
         /\ baud = Detections[detection].baud /\ cnt < Len(Wanted)
         /\ cnt >= 1 => b = Wanted[cnt]
         /\ cnt >= 2 => baud = rx.baud
    /\ step = "port" => baud = 9600 /\ rx.baud = 9600
    /\ rechecking => detection >= Recheck /\ baud = 115200 /\ step \notin {"setup", "port", "broken", "undetected"}

(* As long as no message was lost the receiver is at the new speed once    *)
(* its port was changed, and has obeyed what it was told.                  *)
Obeying ==
    /\ step \in {"setup", "listen", "port"} => told = 0
    /\ step = "ok" => told = Len(Messages)
    /\ lost = 0 =>
         /\ rechecking \/ step \in {"configure", "ok"} => baud = 115200 /\ rx.baud = 115200
         /\ step \in {"configure", "ok"} => \A n \in 1 .. told : Messages[n] \in rx.obeyed

(* The detections that are over could not hear the receiver.               *)
Unheard ==
    garbled = 0 =>
      /\ step = "listen" /\ ~rechecking => \A d \in 1 .. detection - 1 : ~Fits(d)
      /\ step = "undetected" => \A d \in DOMAIN Detections : ~Fits(d)

(* What the receiver saved can be heard, and so can it itself but for the  *)
(* messages in between.                                                    *)
Audible ==
    lost = 0 =>
      /\ Detectable(saved)
      /\ Detectable(rx) \/ cut \/ (step = "configure" /\ told \in 2 .. 6)

ConfigIInv == ConfigTypeOK /\ Matching /\ Hearing /\ Obeying /\ Unheard /\ Audible

-----------------------------------------------------------------------------
(* GPS configuration: values and arithmetic                                *)

LEMMA HeaderValues ==
  /\ \A kind \in {"GN", "GP"} :
       /\ Len(Header[kind]) = 4
       /\ Header[kind][1] = 1 /\ Header[kind][2] \in {2, 4} /\ Header[kind][3] = 3 /\ Header[kind][4] = 3
  /\ Len(Header["UBX"]) = 2 /\ Header["UBX"][1] = 5 /\ Header["UBX"][2] = 6
BY DEF Header

LEMMA DetectionValues ==
  /\ Len(Detections) = 6 /\ DOMAIN Detections = 1 .. 6
  /\ \A d \in 1 .. 6 : /\ Detections[d].kind \in {"GN", "GP", "UBX"}
                       /\ Detections[d].baud \in {9600, 115200}
  /\ \A d \in 5 .. 6 : Detections[d].baud = 115200
  /\ Detections[1].baud = 9600
BY DEF Detections, D

(* Every kind of header is looked for at both speeds.                      *)
LEMMA AllLookedFor ==
  \A speed \in {9600, 115200}, kind \in {"GN", "GP", "UBX"} :
    \E d \in DOMAIN Detections : Detections[d].baud = speed /\ Detections[d].kind = kind
<1> SUFFICES ASSUME NEW speed \in {9600, 115200}, NEW kind \in {"GN", "GP", "UBX"}
             PROVE  \E d \in 1 .. 6 : Detections[d].baud = speed /\ Detections[d].kind = kind
  BY DetectionValues
<1>1. /\ Detections[1] = D(9600, "GN") /\ Detections[2] = D(9600, "GP") /\ Detections[3] = D(9600, "UBX")
      /\ Detections[4] = D(115200, "UBX") /\ Detections[5] = D(115200, "GN") /\ Detections[6] = D(115200, "GP")
  BY DEF Detections
<1>2. \A d \in 1 .. 6 : Detections[d] = D(speed, kind) => Detections[d].baud = speed /\ Detections[d].kind = kind
  BY DEF D
<1>3. \E d \in 1 .. 6 : Detections[d] = D(speed, kind)
  BY <1>1
<1> QED BY <1>2, <1>3

LEMMA MessageValues ==
  /\ Len(Messages) = 11 /\ DOMAIN Messages = 1 .. 11
  /\ \A n \in 1 .. 11 : /\ Messages[n] \in Range(Messages)
                        /\ (Messages[n] = "DisableGLL") = (n = 2)
                        /\ (Messages[n] = "EnableNAVPVT") = (n = 7)
                        /\ (Messages[n] = "CFG") = (n = 11)
<1>1. Len(Messages) = 11 /\ DOMAIN Messages = 1 .. 11
  BY DEF Messages
<1>2. \A n \in 1 .. 11 : /\ (Messages[n] = "DisableGLL") = (n = 2)
                        /\ (Messages[n] = "EnableNAVPVT") = (n = 7)
                        /\ (Messages[n] = "CFG") = (n = 11)
  BY DEF Messages
<1>3. \A n \in 1 .. 11 : Messages[n] \in Range(Messages)
  BY <1>1 DEF Range
<1> QED BY <1>1, <1>2, <1>3

LEMMA Constants ==
  /\ CounterSize \in Nat /\ CounterSize > 0 /\ MaxConfigFaults \in Nat /\ MaxRestarts \in Nat
  /\ Len(Detections) = 6 /\ DOMAIN Detections = 1 .. 6 /\ Len(Messages) = 11
BY ConfigAssumption, DetectionValues, MessageValues DEF ConfigAssumption

(* What the type invariant says of each variable.                          *)
LEMMA ControlTypeOK ==
  ASSUME ConfigTypeOK
  PROVE  /\ step \in ConfigSteps /\ rechecking \in BOOLEAN
         /\ detection \in 1 .. 6 /\ told \in 0 .. 11 /\ talker \in {"GN", "GP"}
         /\ garbled \in 0 .. MaxConfigFaults /\ lost \in 0 .. MaxConfigFaults
         /\ restarts \in 0 .. MaxRestarts /\ cut \in BOOLEAN
BY Constants DEF ConfigTypeOK

LEMMA ListenerTypeOK ==
  ASSUME ConfigTypeOK
  PROVE  /\ marker \in 0 .. CounterSize - 1 /\ now \in 0 .. CounterSize - 1
         /\ cnt \in 0 .. 4 /\ b \in 0 .. 6 /\ baud \in {9600, 115200}
         /\ phase \in 0 .. 6
BY DEF ConfigTypeOK, Period

LEMMA SavedTypeOK ==
  ASSUME ConfigTypeOK
  PROVE  rx \in Settings /\ saved \in Settings
BY DEF ConfigTypeOK

(* Division does not reverse an order.                                     *)
LEMMA DivMonotonic ==
  ASSUME NEW x \in Nat, NEW y \in Nat, NEW z \in Nat \ {0}, x <= y
  PROVE  x \div z <= y \div z
<1> DEFINE p == x \div z
           q == y \div z
<1>1. p \in Nat /\ q \in Nat
  OBVIOUS
<1>2. z * p <= x
  OBVIOUS
<1>3. y < z * (q + 1)
  OBVIOUS
<1> HIDE DEF p, q
<1>4. z * p < z * (q + 1)
  BY <1>1, <1>2, <1>3
<1>5. p < q + 1
  BY <1>1, <1>4
<1>6. p <= q
  BY <1>1, <1>5
<1> QED BY <1>6 DEF p, q

(* The counter does not wrap twice within a window.                        *)
LEMMA CounterIsLong == CounterSize > 14
<1> DEFINE half == TicksPerUs \div 2
           q == (13 + half) \div TicksPerUs
<1> USE ConfigAssumption DEF ConfigAssumption
<1>1. half \in Nat /\ q \in Nat /\ q < Window
  BY WindowAssumption DEF WindowAssumption, Period
<1>2. 13 + half < TicksPerUs * (q + 1)
  BY <1>1
<1> HIDE DEF q, half
<1>3. TicksPerUs * (q + 1) <= TicksPerUs * Window
  BY <1>1
<1>4. TicksPerUs * Window < CounterSize - TicksPerUs
  OBVIOUS
<1> QED BY <1>1, <1>2, <1>3, <1>4
(* One byte more, and no time-out before the second cycle is over.         *)
LEMMA OneMoreRead ==
  ASSUME ConfigTypeOK, Tick, Reads <= 12
  PROVE  /\ now' \in 0 .. CounterSize - 1
         /\ marker' = marker => Reads' = Reads + 1
         /\ ~TimeOut(marker)
<1> USE ConfigAssumption DEF ConfigAssumption
<1>1. marker \in 0 .. CounterSize - 1 /\ now \in 0 .. CounterSize - 1
  BY ListenerTypeOK
<1>2. CounterSize > 14
  BY CounterIsLong
<1>3. now' = IF now = CounterSize - 1 THEN 0 ELSE now + 1
  <2>1. CASE now = CounterSize - 1
    BY <1>1, <2>1 DEF Tick
  <2>2. CASE now # CounterSize - 1
    BY <1>1, <2>2 DEF Tick
  <2> QED BY <2>1, <2>2
<1>4. now' \in 0 .. CounterSize - 1
  BY <1>1, <1>2, <1>3
<1>5. marker' = marker => Reads' = Reads + 1
  BY <1>1, <1>2, <1>3 DEF Reads
<1>6. ~TimeOut(marker)
  <2> DEFINE half == TicksPerUs \div 2
  <2>1. PICK ticks \in 0 .. 13 : Elapsed(marker) = (ticks + half) \div TicksPerUs
    <3>1. CASE marker <= now'
      <4>1. now' - marker \in 0 .. 13
        BY <1>1, <1>2, <1>3, <3>1 DEF Reads
      <4> QED BY <3>1, <4>1 DEF Elapsed
    <3>2. CASE ~(marker <= now')
      <4>1. now' + (CounterSize - 1 - marker) \in 0 .. 13
        BY <1>1, <1>2, <1>3, <3>2 DEF Reads
      <4> QED BY <3>2, <4>1 DEF Elapsed
    <3> QED BY <3>1, <3>2
  <2>2. half \in Nat
    OBVIOUS
  <2>3. (13 + half) \div TicksPerUs < Window
    BY WindowAssumption DEF WindowAssumption, Period
  <2> HIDE DEF half
  <2>4. (ticks + half) \div TicksPerUs <= (13 + half) \div TicksPerUs
    BY <2>1, <2>2, DivMonotonic
  <2>5. (ticks + half) \div TicksPerUs \in Int /\ (13 + half) \div TicksPerUs \in Int
    BY <2>1, <2>2
  <2> QED BY <2>1, <2>3, <2>4, <2>5 DEF TimeOut
<1> QED BY <1>4, <1>5, <1>6

-----------------------------------------------------------------------------
(* GPS configuration: one byte                                             *)

(* How far the header is matched with the byte just read.                  *)
Follows == IF b' = Wanted[cnt + 1] THEN cnt + 1 ELSE 0

(* The outcomes of reading one byte.                                       *)
LEMMA ByteOutcomes ==
  ASSUME ReadByte
  PROVE  \/ Follows = Len(Wanted) /\ Found
         \/ Follows # Len(Wanted) /\ TimeOut(marker) /\ NotFound
         \/ /\ Follows # Len(Wanted) /\ ~TimeOut(marker)
            /\ cnt' = Follows /\ UNCHANGED <<step, detection, baud, marker>>
BY DEF ReadByte, Follows

LEMMA WantedValues ==
  ASSUME ConfigTypeOK
  PROVE  /\ (Len(Wanted) = 2 \/ Len(Wanted) = 4)
         /\ Len(Wanted) = 2 <=> Detections[detection].kind = "UBX"
         /\ Detections[detection].kind = "UBX" => Wanted[1] = 5 /\ Wanted[2] = 6
         /\ Detections[detection].kind # "UBX" =>
              Wanted[1] = 1 /\ Wanted[2] \in {2, 4} /\ Wanted[3] = 3 /\ Wanted[4] = 3
<1>1. detection \in 1 .. 6
  BY DetectionValues, ControlTypeOK
<1>2. Detections[detection].kind \in {"GN", "GP", "UBX"}
  BY <1>1, DetectionValues
<1> QED BY <1>2, HeaderValues DEF Wanted

(* What the line carries.                                                  *)
LEMMA TransmittedValues ==
  ASSUME ConfigTypeOK
  PROVE  /\ Transmitted = << >> \/ Transmitted[1] \in 1 .. 6
         /\ Transmitted # << >> <=> (phase < 4 /\ SendsGLL(rx)) \/ (phase \in {4, 5} /\ SendsPVT(rx))
         /\ phase < 4 /\ SendsGLL(rx) => Transmitted[1] = Header[talker][phase + 1]
         /\ phase = 4 /\ SendsPVT(rx) => Transmitted[1] = 5
         /\ phase = 5 /\ SendsPVT(rx) => Transmitted[1] = 6
<1>1. phase \in 0 .. 6 /\ talker \in {"GN", "GP"}
  BY ControlTypeOK, ListenerTypeOK DEF Period
<1>2. phase < 4 => Header[talker][phase + 1] \in 1 .. 4
  BY <1>1, HeaderValues
<1>3. CASE phase < 4 /\ SendsGLL(rx)
  <2>1. Transmitted = <<Header[talker][phase + 1]>>
    BY <1>3 DEF Transmitted
  <2> QED BY <1>1, <1>2, <1>3, <2>1
<1>4. CASE phase \in {4, 5} /\ SendsPVT(rx)
  <2>1. Transmitted = <<Header["UBX"][phase - 3]>>
    BY <1>1, <1>4 DEF Transmitted
  <2> QED BY <1>1, <1>4, <2>1, HeaderValues
<1>5. CASE ~(phase < 4 /\ SendsGLL(rx)) /\ ~(phase \in {4, 5} /\ SendsPVT(rx))
  <2>1. Transmitted = << >>
    BY <1>5 DEF Transmitted
  <2> QED BY <1>1, <1>5, <2>1
<1> QED BY <1>3, <1>4, <1>5

LEMMA ByteTypeOK ==
  ASSUME ConfigTypeOK, ReadByte
  PROVE  b' \in 0 .. 6 /\ garbled' \in 0 .. MaxConfigFaults /\ garbled' >= garbled
<1>1. b \in 0 .. 6 /\ garbled \in 0 .. MaxConfigFaults /\ MaxConfigFaults \in Nat
  BY ConfigAssumption, ControlTypeOK, ListenerTypeOK DEF ConfigAssumption
<1>2. Transmitted = << >> \/ Transmitted[1] \in 1 .. 6
  BY TransmittedValues
<1>3. CASE garbled' = garbled
  <2>1. b' \in {0, b, Transmitted[1]} /\ (b' = Transmitted[1] => b' = b \/ b' = 0 \/ Transmitted # << >>)
    BY <1>3 DEF ReadByte
  <2> QED BY <1>1, <1>2, <1>3, <2>1
<1>4. CASE garbled < MaxConfigFaults /\ garbled' = garbled + 1 /\ b' = 0
  BY <1>1, <1>4
<1> QED BY <1>3, <1>4 DEF ReadByte

(* A byte other than b, and other than 0, came at the receiver's speed.    *)
LEMMA NewByte ==
  ASSUME ConfigTypeOK, ReadByte, b' # b, b' # 0
  PROVE  baud = rx.baud
BY DEF ReadByte

(* What is matched is in b, and two bytes have come from the receiver.     *)
LEMMA FollowsMatches ==
  ASSUME ConfigTypeOK, Matching, ReadByte
  PROVE  /\ Follows \in 0 .. Len(Wanted)
         /\ Follows >= 1 => b' = Wanted[Follows]
         /\ Follows >= 2 => baud = rx.baud
<1>1. cnt < Len(Wanted) /\ (cnt >= 1 => b = Wanted[cnt]) /\ (cnt >= 2 => baud = rx.baud)
  BY DEF Matching, ReadByte
<1>2. cnt \in 0 .. 3 /\ (Len(Wanted) = 2 \/ Len(Wanted) = 4)
  <2> DEFINE n == Len(Wanted)
  <2>1. n = 2 \/ n = 4
    BY WantedValues
  <2>2. cnt < n /\ cnt \in 0 .. 4
    BY <1>1, ListenerTypeOK
  <2> HIDE DEF n
  <2>3. cnt \in 0 .. 3
    BY <2>1, <2>2
  <2> QED BY <2>1, <2>3 DEF n
<1>3. CASE b' = Wanted[cnt + 1]
  <2>1. Follows = cnt + 1
    BY <1>3 DEF Follows
  <2>2. CASE cnt = 1
    <3>1. b = Wanted[1] /\ b' = Wanted[2]
      BY <1>1, <1>3, <2>2
    <3>2. b' # b /\ b' # 0
      BY <3>1, WantedValues
    <3> QED BY <1>1, <1>2, <1>3, <2>1, <2>2, <3>2, NewByte
  <2> QED BY <1>1, <1>2, <1>3, <2>1, <2>2
<1>4. CASE b' # Wanted[cnt + 1]
  BY <1>2, <1>4 DEF Follows
<1> QED BY <1>3, <1>4

(* Without faults the byte is what the receiver sends at this point of its *)
(* cycle, or the last one.                                                 *)
LEMMA ByteHeard ==
  ASSUME ConfigTypeOK, ReadByte, garbled' = 0, baud = rx.baud
  PROVE  /\ garbled = 0
         /\ phase < 4 => b' = IF SendsGLL(rx) THEN Header[talker][phase + 1] ELSE b
         /\ phase = 4 => b' = IF SendsPVT(rx) THEN 5 ELSE b
         /\ phase = 5 => b' = IF SendsPVT(rx) THEN 6 ELSE b
         /\ phase > 5 => b' = b
<1>1. garbled \in Nat
  BY ConfigAssumption, ControlTypeOK DEF ConfigAssumption
<1>2. garbled = 0 /\ b' = IF Transmitted = << >> THEN b ELSE Transmitted[1]
  BY <1>1 DEF ReadByte
<1>3. phase \in 0 .. 6
  BY ListenerTypeOK DEF Period
<1> QED BY <1>2, <1>3, TransmittedValues

LEMMA NextPhase ==
  ASSUME ConfigTypeOK, Tick
  PROVE  phase \in 0 .. 6 /\ phase' = IF phase = 6 THEN 0 ELSE phase + 1
BY ListenerTypeOK DEF Tick, Period

LEMMA ReadsTyped == ASSUME ConfigTypeOK PROVE Reads \in Nat
BY ConfigAssumption, ListenerTypeOK DEF Reads, ConfigAssumption

(* A detection of the packet the receiver sends: at most the first packet  *)
(* is missed.                                                              *)
LEMMA PacketByte ==
  ASSUME ConfigTypeOK, Matching, Hearing, ReadByte, garbled' = 0,
         Fits(detection), Detections[detection].kind = "UBX", Follows # Len(Wanted)
  PROVE  /\ Reads <= 12
         /\ Reads' = Reads + 1 /\ cnt' = Follows => InPacket'
<1>1. step = "listen" /\ Tick /\ baud = rx.baud
  BY DEF ReadByte, Matching, Fits
<1>2. phase \in 0 .. 6 /\ phase' = IF phase = 6 THEN 0 ELSE phase + 1
  BY <1>1, NextPhase
<1>3. Wanted[1] = 5 /\ Wanted[2] = 6 /\ Len(Wanted) = 2
  BY WantedValues
<1>4. SendsPVT(rx) /\ garbled = 0
  <2>1. talker # "UBX"
    BY ControlTypeOK
  <2>2. SendsPVT(rx)
    BY <2>1 DEF Fits
  <2> QED BY <1>1, <2>2, ByteHeard
<1>5. InPacket /\ (Reads = 0 => cnt = 0) /\ Reads \in Nat
  BY <1>1, <1>4, ReadsTyped DEF Hearing
<1>6. /\ phase = 4 => b' = 5
      /\ phase = 5 => b' = 6
      /\ phase < 4 => b' = b \/ b' \in 1 .. 4
      /\ phase > 5 => b' = b
  <2>1. phase < 4 => Header[talker][phase + 1] \in 1 .. 4
    BY <1>2, HeaderValues, ControlTypeOK
  <2> QED BY <1>1, <1>2, <1>4, <2>1, ByteHeard
<1>7. /\ cnt \in {0, 1} /\ (cnt = 1 => b = 5)
      /\ Follows = IF cnt = 0 /\ b' = 5 THEN 1 ELSE IF cnt = 1 /\ b' = 6 THEN 2 ELSE 0
  BY <1>1, <1>3, ListenerTypeOK DEF Matching, Follows
<1>8. Follows # 2
  BY <1>3
<1>9. Reads <= 12
  BY <1>2, <1>5, <1>6, <1>7, <1>8 DEF InPacket, SincePacket
<1>10. ASSUME Reads' = Reads + 1, cnt' = Follows
       PROVE  InPacket'
  BY <1>2, <1>5, <1>6, <1>7, <1>8, <1>10 DEF InPacket, SincePacket
<1> QED BY <1>9, <1>10

(* The same for a sentence.                                                *)
LEMMA SentenceByte ==
  ASSUME ConfigTypeOK, Matching, Hearing, ReadByte, garbled' = 0,
         Fits(detection), Detections[detection].kind # "UBX", Follows # Len(Wanted)
  PROVE  /\ Reads <= 12
         /\ Reads' = Reads + 1 /\ cnt' = Follows => InSentence'
<1>1. step = "listen" /\ Tick /\ baud = rx.baud
  BY DEF ReadByte, Matching, Fits
<1>2. phase \in 0 .. 6 /\ phase' = IF phase = 6 THEN 0 ELSE phase + 1
  BY <1>1, NextPhase
<1>3. Wanted[1] = 1 /\ Wanted[2] \in {2, 4} /\ Wanted[3] = 3 /\ Wanted[4] = 3 /\ Len(Wanted) = 4
  BY WantedValues
<1>4. SendsGLL(rx) /\ Wanted = Header[talker] /\ talker' = talker /\ garbled = 0
  BY <1>1, ByteHeard DEF Fits, Wanted, ReadByte, rxVars
<1>5. InSentence /\ (Reads = 0 => cnt = 0) /\ Reads \in Nat
  BY <1>1, <1>4, ReadsTyped DEF Hearing
<1>6. /\ phase < 4 => b' = Wanted[phase + 1]
      /\ phase \in {4, 5} => b' \in {b, 5, 6}
      /\ phase > 5 => b' = b
  BY <1>1, <1>2, <1>4, ByteHeard
<1>7. /\ cnt \in 0 .. 3 /\ (cnt >= 1 => b = Wanted[cnt])
      /\ Follows = IF b' = Wanted[cnt + 1] THEN cnt + 1 ELSE 0
  BY <1>1, <1>3, ListenerTypeOK DEF Matching, Follows
<1>8. Follows # 4
  BY <1>3
<1> DEFINE P == (Reads' = Reads + 1 /\ cnt' = Follows => InSentence')
<1>9. CASE phase \in 1 .. 3
  BY <1>2, <1>3, <1>4, <1>5, <1>6, <1>7, <1>8, <1>9 DEF InSentence, SinceSentence
<1>10. CASE phase \notin 1 .. 3
  BY <1>2, <1>3, <1>4, <1>5, <1>6, <1>7, <1>8, <1>10 DEF InSentence, SinceSentence
<1> QED BY <1>9, <1>10

(* While a fitting detection goes on, it does not time out.                *)
LEMMA FittingGoesOn ==
  ASSUME ConfigTypeOK, Matching, Hearing, ReadByte, garbled' = 0,
         Fits(detection), Follows # Len(Wanted)
  PROVE  Reads <= 12 /\ ~TimeOut(marker)
<1>1. Reads <= 12
  BY PacketByte, SentenceByte
<1> QED BY <1>1, OneMoreRead DEF ReadByte

-----------------------------------------------------------------------------
(* GPS configuration: type correctness                                     *)

LEMMA TickTypeOK ==
  ASSUME ConfigTypeOK, Tick
  PROVE  now' \in 0 .. CounterSize - 1 /\ phase' \in 0 .. Period - 1
<1>1. now \in Nat /\ CounterSize \in Nat /\ CounterSize > 0
  BY Constants, ListenerTypeOK
<1>2. now' \in 0 .. CounterSize - 1
  BY <1>1 DEF Tick
<1>3. phase' \in 0 .. Period - 1
  BY ListenerTypeOK DEF Tick, Period
<1> QED BY <1>2, <1>3

LEMMA ArrivesTypeOK ==
  ASSUME ConfigTypeOK, NEW settings \in Settings,
         Arrives(settings)
  PROVE  /\ rx' \in Settings /\ (rx' = settings \/ rx' = rx)
         /\ lost' \in 0 .. MaxConfigFaults /\ lost' >= lost
         /\ lost' = lost => rx' = IF baud = rx.baud THEN settings ELSE rx
<1>1. lost \in 0 .. MaxConfigFaults /\ MaxConfigFaults \in Nat /\ rx \in Settings
  BY Constants, ControlTypeOK, SavedTypeOK
<1> QED BY <1>1 DEF Arrives

(* The UART is set up and the first detection begins, or it is not.        *)
LEMMA SetUpFacts ==
  ASSUME SetUp
  PROVE  /\ step = "setup"
         /\ \/ /\ step' = "listen" /\ detection' = 1 /\ baud' = 9600 /\ marker' = now' /\ cnt' = 0
            \/ step' = "broken" /\ detection' = detection /\ baud' = baud /\ marker' = marker /\ cnt' = cnt
         /\ rechecking' = rechecking /\ b' = b /\ told' = told /\ now' = now /\ phase' = phase
         /\ talker' = talker /\ rx' = rx /\ saved' = saved /\ garbled' = garbled /\ lost' = lost
         /\ restarts' = restarts /\ cut' = cut
<1>1. \/ Listen(1, now)
      \/ step' = "broken" /\ UNCHANGED <<detection, baud, marker, cnt>>
  BY DEF SetUp
<1>2. step = "setup" /\ UNCHANGED <<rechecking, b, told, now, phase, rxVars, faultVars, restarts, cut>>
  BY DEF SetUp
<1> QED BY <1>1, <1>2, DetectionValues DEF Listen, rxVars, faultVars

(* The type invariant after a step, put together.                          *)
LEMMA Typed ==
  ASSUME rx' \in Settings, saved' \in Settings,
         marker' \in 0 .. CounterSize - 1, now' \in 0 .. CounterSize - 1,
         step' \in ConfigSteps,
         detection' \in 1 .. 6, rechecking' \in BOOLEAN, cnt' \in 0 .. 4, b' \in 0 .. 6,
         baud' \in {9600, 115200}, told' \in 0 .. 11, phase' \in 0 .. Period - 1, talker' \in {"GN", "GP"},
         garbled' \in 0 .. MaxConfigFaults, lost' \in 0 .. MaxConfigFaults,
         restarts' \in 0 .. MaxRestarts, cut' \in BOOLEAN
  PROVE  ConfigTypeOK'
<1>1. Len(Messages) = 11 /\ DOMAIN Detections = 1 .. 6
  BY Constants
<1>2. detection' \in DOMAIN Detections /\ told' \in 0 .. Len(Messages)
  BY <1>1
<1>3. {marker', now'} \subseteq 0 .. CounterSize - 1 /\ {rx', saved'} \subseteq Settings
  OBVIOUS
<1> QED BY <1>2, <1>3 DEF ConfigTypeOK

LEMMA TypedButStep ==
  ASSUME ConfigTypeOK,
         UNCHANGED <<detectVars, baud, told, now, phase, rxVars, faultVars, restarts>>,
         step' \in ConfigSteps, cut' \in BOOLEAN
  PROVE  ConfigTypeOK'
<1>1. /\ detection' = detection /\ rechecking' = rechecking /\ marker' = marker /\ cnt' = cnt /\ b' = b
      /\ baud' = baud /\ told' = told /\ now' = now /\ phase' = phase
      /\ talker' = talker /\ rx' = rx /\ saved' = saved /\ garbled' = garbled /\ lost' = lost /\ restarts' = restarts
  BY DEF detectVars, rxVars, faultVars
<1> QED BY <1>1 DEF ConfigTypeOK

LEMMA ConfigTypeOKStep ==
  ASSUME ConfigTypeOK, Matching, [ConfigNext]_configVars
  PROVE  ConfigTypeOK'
<1> USE Constants DEF ConfigSteps
<1>1. CASE ReadByte
  <2>1. b' \in 0 .. 6 /\ garbled' \in 0 .. MaxConfigFaults
    BY <1>1, ByteTypeOK
  <2>2. now' \in 0 .. CounterSize - 1 /\ phase' \in 0 .. Period - 1
    BY <1>1, TickTypeOK DEF ReadByte
  <2>3. /\ rechecking' \in BOOLEAN /\ told' \in 0 .. 11 /\ talker' \in {"GN", "GP"}
        /\ rx' \in Settings /\ saved' \in Settings
        /\ lost' \in 0 .. MaxConfigFaults /\ restarts' \in 0 .. MaxRestarts /\ cut' \in BOOLEAN
    <3>1. UNCHANGED <<rechecking, told, talker, rx, saved, lost, restarts, cut>>
      BY <1>1 DEF ReadByte, rxVars
    <3> QED BY <3>1, ControlTypeOK, SavedTypeOK
  <2>4. Follows \in 0 .. 4
    BY <1>1, FollowsMatches, WantedValues
  <2>5. /\ step' \in ConfigSteps
        /\ detection' \in 1 .. 6 /\ marker' \in 0 .. CounterSize - 1 /\ cnt' \in 0 .. 4
        /\ baud' \in {9600, 115200}
    <3>1. CASE Found
      BY <3>1, ControlTypeOK, ListenerTypeOK DEF Found
    <3>2. CASE NotFound
      <4>1. CASE detection < 6
        <5>1. detection + 1 \in 1 .. 6
          BY <4>1, ControlTypeOK
        <5> QED BY <3>2, <4>1, <5>1, <2>2, DetectionValues DEF NotFound, Listen
      <4>2. CASE ~(detection < 6)
        BY <3>2, <4>2, ControlTypeOK, ListenerTypeOK DEF NotFound
      <4> QED BY <4>1, <4>2
    <3>3. CASE cnt' = Follows /\ UNCHANGED <<step, detection, baud, marker>>
      BY <3>3, <2>4, ControlTypeOK, ListenerTypeOK
    <3> QED BY <1>1, <3>1, <3>2, <3>3, ByteOutcomes
  <2> QED BY <2>1, <2>2, <2>3, <2>5, Typed
<1>2. CASE ConfigPort
  <2>1. now' \in 0 .. CounterSize - 1 /\ phase' \in 0 .. Period - 1
    BY <1>2, TickTypeOK DEF ConfigPort
  <2>2. [rx EXCEPT !.baud = 115200] \in Settings
    BY SavedTypeOK DEF Settings
  <2>3. /\ rx' \in Settings
        /\ lost' \in 0 .. MaxConfigFaults
    BY <1>2, <2>2, ArrivesTypeOK DEF ConfigPort
  <2>4. /\ step' = "listen" /\ detection' = 5 /\ baud' = 115200 /\ marker' = now' /\ cnt' = 0
        /\ rechecking' = TRUE /\ UNCHANGED <<b, told, talker, saved, garbled, restarts, cut>>
    BY <1>2, DetectionValues DEF ConfigPort, Listen, Recheck
  <2>5. /\ step' \in ConfigSteps
        /\ detection' \in 1 .. 6 /\ rechecking' \in BOOLEAN /\ cnt' \in 0 .. 4
        /\ baud' \in {9600, 115200} /\ marker' \in 0 .. CounterSize - 1
    BY <2>1, <2>4
  <2>6. /\ b' \in 0 .. 6 /\ told' \in 0 .. 11 /\ talker' \in {"GN", "GP"} /\ saved' \in Settings
        /\ garbled' \in 0 .. MaxConfigFaults /\ restarts' \in 0 .. MaxRestarts /\ cut' \in BOOLEAN
    BY <2>4, ControlTypeOK, ListenerTypeOK, SavedTypeOK
  <2> QED BY <2>1, <2>3, <2>5, <2>6, Typed
<1>3. CASE ConfigMessage
  <2>1. now' \in 0 .. CounterSize - 1 /\ phase' \in 0 .. Period - 1
    BY <1>3, TickTypeOK DEF ConfigMessage
  <2>2. told' \in 0 .. 11 /\ told' >= 1
    BY <1>3, ControlTypeOK DEF ConfigMessage
  <2>3. Messages[told'] \in Range(Messages)
    BY <2>2, MessageValues
  <2>4. [rx EXCEPT !.obeyed = @ \cup {Messages[told']}] \in Settings
    BY <2>3, SavedTypeOK DEF Settings
  <2>5. /\ rx' \in Settings
        /\ lost' \in 0 .. MaxConfigFaults
    BY <1>3, <2>4, ArrivesTypeOK DEF ConfigMessage, Message
  <2>6. saved' \in {saved, rx'} /\ UNCHANGED <<step, detection, rechecking, marker, cnt, b, baud, talker, garbled, restarts, cut>>
    BY <1>3 DEF ConfigMessage, detectVars
  <2>7. /\ step' \in ConfigSteps
        /\ detection' \in 1 .. 6 /\ rechecking' \in BOOLEAN /\ cnt' \in 0 .. 4 /\ b' \in 0 .. 6
        /\ baud' \in {9600, 115200} /\ marker' \in 0 .. CounterSize - 1
    BY <2>6, ControlTypeOK, ListenerTypeOK
  <2>8. /\ talker' \in {"GN", "GP"} /\ saved' \in Settings
        /\ garbled' \in 0 .. MaxConfigFaults /\ restarts' \in 0 .. MaxRestarts /\ cut' \in BOOLEAN
    BY <2>5, <2>6, ControlTypeOK, SavedTypeOK
  <2> QED BY <2>1, <2>2, <2>5, <2>7, <2>8, Typed
<1>4. CASE Configured
  <2>1. step' = "ok" /\ cut' = FALSE /\ UNCHANGED <<detectVars, baud, told, now, phase, rxVars, faultVars, restarts>>
    BY <1>4 DEF Configured
  <2>2. step' \in ConfigSteps /\ cut' \in BOOLEAN
    BY <2>1
  <2> QED BY <2>1, <2>2, TypedButStep
<1>5. CASE Restart \/ PowerCycle
  <2>1. Start /\ UNCHANGED <<talker, saved, garbled, lost>>
    BY <1>5 DEF Restart, PowerCycle, rxVars, faultVars
  <2>2. restarts' \in 0 .. MaxRestarts
    <3>1. restarts \in 0 .. MaxRestarts /\ restarts < MaxRestarts /\ restarts' = restarts + 1
      BY <1>5, ControlTypeOK DEF Restart, PowerCycle
    <3> QED BY <3>1
  <2>3. cut' \in BOOLEAN
    <3>1. cut \in BOOLEAN
      BY ControlTypeOK
    <3>2. cut' \in {cut, TRUE, FALSE}
      BY <1>5, <3>1 DEF Restart, PowerCycle
    <3> QED BY <3>1, <3>2
  <2>4. rx' \in {rx, saved}
    BY <1>5 DEF Restart, PowerCycle, rxVars
  <2>5. /\ step' = "setup" /\ detection' = 1 /\ baud' = 115200 /\ marker' = 0 /\ cnt' = 0 /\ now' = 0
        /\ phase' \in 0 .. Period - 1 /\ rechecking' = FALSE /\ b' = 0 /\ told' = 0
    BY <2>1 DEF Start
  <2>6. rx' \in Settings /\ saved' \in Settings
    BY <2>1, <2>4, SavedTypeOK
  <2>7. marker' \in 0 .. CounterSize - 1 /\ now' \in 0 .. CounterSize - 1
    BY <2>5
  <2>8. talker' \in {"GN", "GP"} /\ garbled' \in 0 .. MaxConfigFaults /\ lost' \in 0 .. MaxConfigFaults
    BY <2>1, ControlTypeOK
  <2>9. step' \in ConfigSteps /\ detection' \in 1 .. 6
    BY <2>5
  <2>10. cnt' \in 0 .. 4 /\ b' \in 0 .. 6 /\ baud' \in {9600, 115200} /\ told' \in 0 .. 11
    BY <2>5
  <2>11. rechecking' \in BOOLEAN
    <3>1. rechecking' = FALSE
      BY <2>1 DEF Start
    <3> QED BY <3>1
  <2> QED BY <2>2, <2>3, <2>5, <2>6, <2>7, <2>8, <2>9, <2>10, <2>11, Typed
<1>6. CASE UNCHANGED configVars
  <2>1. UNCHANGED <<step, cut>> /\ UNCHANGED <<detectVars, baud, told, now, phase, rxVars, faultVars, restarts>>
    BY <1>6 DEF configVars
  <2>2. step' \in ConfigSteps /\ cut' \in BOOLEAN
    BY <2>1, ControlTypeOK
  <2> QED BY <2>1, <2>2, TypedButStep
<1>7. CASE SetUp
  <2>1. /\ step' \in {"listen", "broken"} /\ detection' \in {1, detection} /\ baud' \in {9600, baud}
        /\ marker' \in {now, marker} /\ cnt' \in {0, cnt}
    BY <1>7, SetUpFacts
  <2>2. UNCHANGED <<rechecking, b, told, now, phase, talker, rx, saved>>
    BY <1>7, SetUpFacts
  <2>3. UNCHANGED <<garbled, lost, restarts, cut>>
    BY <1>7, SetUpFacts
  <2>4. /\ step' \in ConfigSteps
        /\ detection' \in 1 .. 6 /\ baud' \in {9600, 115200} /\ cnt' \in 0 .. 4
        /\ marker' \in 0 .. CounterSize - 1 /\ now' \in 0 .. CounterSize - 1
    BY <2>1, <2>2, ControlTypeOK, ListenerTypeOK
  <2>5. /\ rechecking' \in BOOLEAN /\ b' \in 0 .. 6 /\ told' \in 0 .. 11 /\ phase' \in 0 .. Period - 1
        /\ talker' \in {"GN", "GP"} /\ rx' \in Settings /\ saved' \in Settings
    BY <2>2, ControlTypeOK, ListenerTypeOK, SavedTypeOK DEF Period
  <2>6. /\ garbled' \in 0 .. MaxConfigFaults /\ lost' \in 0 .. MaxConfigFaults
        /\ restarts' \in 0 .. MaxRestarts /\ cut' \in BOOLEAN
    BY <2>3, ControlTypeOK
  <2> QED BY <2>4, <2>5, <2>6, Typed
<1> QED BY <1>1, <1>2, <1>3, <1>4, <1>5, <1>6, <1>7 DEF ConfigNext, Config

-----------------------------------------------------------------------------
(* GPS configuration: what each action does                                *)

LEMMA ByteFacts ==
  ASSUME ReadByte
  PROVE  /\ step = "listen" /\ Tick
         /\ rechecking' = rechecking /\ told' = told /\ talker' = talker /\ rx' = rx /\ saved' = saved
         /\ lost' = lost /\ restarts' = restarts /\ cut' = cut
BY DEF ReadByte, rxVars

(* The next detection begins, or the search is over.                       *)
LEMMA NotFoundFacts ==
  ASSUME ConfigTypeOK, NotFound
  PROVE  \/ /\ detection <= 5 /\ step' = "listen" /\ detection' = detection + 1
            /\ baud' = Detections[detection'].baud /\ marker' = now' /\ cnt' = 0
         \/ /\ detection = 6 /\ step' = (IF rechecking THEN "configure" ELSE "undetected")
            /\ detection' = detection /\ baud' = baud
<1>1. Len(Detections) = 6 /\ detection \in 1 .. 6
  BY Constants, ControlTypeOK
<1>2. CASE detection < 6
  BY <1>1, <1>2 DEF NotFound, Listen
<1>3. CASE ~(detection < 6)
  BY <1>1, <1>3 DEF NotFound
<1> QED BY <1>2, <1>3

LEMMA PortFacts ==
  ASSUME ConfigTypeOK, ConfigPort
  PROVE  /\ step = "port" /\ step' = "listen" /\ detection' = 5 /\ baud' = 115200 /\ marker' = now' /\ cnt' = 0
         /\ rechecking' = TRUE /\ told' = told /\ saved' = saved /\ garbled' = garbled /\ cut' = cut
         /\ lost' \in Nat /\ lost' >= lost /\ rx'.obeyed = rx.obeyed
         /\ lost' = lost => rx' = IF baud = rx.baud THEN [rx EXCEPT !.baud = 115200] ELSE rx
<1>1. /\ step = "port" /\ step' = "listen" /\ detection' = 5 /\ baud' = 115200 /\ marker' = now' /\ cnt' = 0
      /\ rechecking' = TRUE /\ told' = told /\ saved' = saved /\ garbled' = garbled /\ cut' = cut
  BY DetectionValues DEF ConfigPort, Listen, Recheck
<1>2. Arrives([rx EXCEPT !.baud = 115200]) /\ rx \in Settings
  BY SavedTypeOK DEF ConfigPort
<1>3. [rx EXCEPT !.baud = 115200] \in Settings /\ [rx EXCEPT !.baud = 115200].obeyed = rx.obeyed
  BY <1>2 DEF Settings
<1>4. /\ lost' \in 0 .. MaxConfigFaults /\ lost' >= lost
      /\ lost' = lost => rx' = IF baud = rx.baud THEN [rx EXCEPT !.baud = 115200] ELSE rx
  BY <1>2, <1>3, ArrivesTypeOK
<1>5. rx'.obeyed = rx.obeyed
  <2> DEFINE faster == [rx EXCEPT !.baud = 115200]
  <2>1. faster.obeyed = rx.obeyed /\ (rx' = faster \/ rx' = rx)
    BY <1>2, <1>3, ArrivesTypeOK
  <2> HIDE DEF faster
  <2> QED BY <2>1
<1> QED BY <1>1, <1>4, <1>5

LEMMA MessageFacts ==
  ASSUME ConfigTypeOK, ConfigMessage
  PROVE  /\ step = "configure" /\ step' = "configure" /\ told \in 0 .. 10 /\ told' = told + 1
         /\ detection' = detection /\ rechecking' = rechecking /\ baud' = baud
         /\ garbled' = garbled /\ cut' = cut
         /\ lost' \in Nat /\ lost' >= lost
         /\ lost' = lost => rx' = IF baud = rx.baud THEN [rx EXCEPT !.obeyed = @ \cup {Messages[told']}] ELSE rx
         /\ saved' = IF Messages[told'] = "CFG" /\ baud = rx.baud /\ lost' = lost THEN rx' ELSE saved
<1>1. /\ step = "configure" /\ step' = "configure" /\ told < 11 /\ told' = told + 1
      /\ detection' = detection /\ rechecking' = rechecking /\ baud' = baud
      /\ garbled' = garbled /\ cut' = cut
  BY Constants DEF ConfigMessage, detectVars
<1>2. told \in 0 .. 10
  BY <1>1, ControlTypeOK
<1>3. Arrives([rx EXCEPT !.obeyed = @ \cup {Messages[told']}]) /\ rx \in Settings
  BY SavedTypeOK DEF ConfigMessage, Message
<1>4. Messages[told'] \in Range(Messages)
  BY <1>1, <1>2, MessageValues
<1>5. [rx EXCEPT !.obeyed = @ \cup {Messages[told']}] \in Settings
  BY <1>3, <1>4 DEF Settings
<1>6. /\ lost' \in 0 .. MaxConfigFaults /\ lost' >= lost
      /\ lost' = lost => rx' = IF baud = rx.baud THEN [rx EXCEPT !.obeyed = @ \cup {Messages[told']}] ELSE rx
  BY <1>3, <1>5, ArrivesTypeOK
<1>7. saved' = IF Messages[told'] = "CFG" /\ baud = rx.baud /\ lost' = lost THEN rx' ELSE saved
  BY DEF ConfigMessage, Message
<1> QED BY <1>1, <1>2, <1>6, <1>7

LEMMA ConfiguredFacts ==
  ASSUME ConfigTypeOK, Configured
  PROVE  /\ step = "configure" /\ step' = "ok" /\ told = 11 /\ told' = told /\ cut' = FALSE
         /\ detection' = detection /\ rechecking' = rechecking /\ baud' = baud
         /\ rx' = rx /\ saved' = saved /\ garbled' = garbled /\ lost' = lost
BY Constants DEF Configured, detectVars, rxVars, faultVars

LEMMA RestartFacts ==
  ASSUME Restart \/ PowerCycle
  PROVE  /\ step' = "setup" /\ detection' = 1 /\ baud' = 115200 /\ marker' = 0 /\ cnt' = 0 /\ now' = 0
         /\ ~rechecking' /\ told' = 0 /\ saved' = saved /\ garbled' = garbled /\ lost' = lost
         /\ \/ rx' = rx /\ cut' = (cut \/ (step = "configure" /\ told \in 2 .. 6))
            \/ rx' = saved
<1>1. Start /\ saved' = saved /\ garbled' = garbled /\ lost' = lost
  BY DEF Restart, PowerCycle, rxVars, faultVars
<1>2. /\ step' = "setup" /\ detection' = 1 /\ baud' = 115200 /\ marker' = 0 /\ cnt' = 0 /\ now' = 0
      /\ ~rechecking' /\ told' = 0
  BY <1>1 DEF Start
<1>3. \/ rx' = rx /\ cut' = (cut \/ (step = "configure" /\ told \in 2 .. 6))
      \/ rx' = saved
  BY DEF Restart, PowerCycle, rxVars
<1> QED BY <1>1, <1>2, <1>3

LEMMA StutterFacts ==
  ASSUME UNCHANGED configVars
  PROVE  /\ step' = step /\ detection' = detection /\ rechecking' = rechecking /\ marker' = marker
         /\ cnt' = cnt /\ b' = b /\ baud' = baud /\ told' = told /\ now' = now /\ phase' = phase
         /\ talker' = talker /\ rx' = rx /\ saved' = saved /\ garbled' = garbled /\ lost' = lost
         /\ restarts' = restarts /\ cut' = cut
BY DEF configVars, detectVars, rxVars, faultVars

-----------------------------------------------------------------------------
(* GPS configuration: the parts of the invariant                           *)

(* A header that was found came at the receiver's speed.                   *)
LEMMA FoundAtSpeed ==
  ASSUME ConfigTypeOK, Matching, ReadByte, Follows = Len(Wanted)
  PROVE  baud = rx.baud
<1> DEFINE n == Len(Wanted)
<1>1. n = 2 \/ n = 4
  BY WantedValues
<1>2. Follows = n /\ (Follows >= 2 => baud = rx.baud)
  BY FollowsMatches
<1> HIDE DEF n
<1> QED BY <1>1, <1>2

LEMMA MatchingStep ==
  ASSUME ConfigTypeOK, ConfigTypeOK', Matching, [ConfigNext]_configVars
  PROVE  Matching'
<1>1. CASE ReadByte
  <2>1. step = "listen" /\ rechecking' = rechecking /\ rx' = rx
    BY <1>1, ByteFacts
  <2>2. baud = Detections[detection].baud /\ (rechecking => detection >= 5 /\ baud = 115200)
    BY <2>1, DetectionValues DEF Matching, Recheck
  <2>3. CASE Follows = Len(Wanted) /\ Found
    <3>1. baud = rx.baud
      BY <1>1, <2>3, FoundAtSpeed
    <3>2. step' = (IF baud = 9600 THEN "port" ELSE "configure") /\ detection' = detection /\ baud' = baud
      BY <2>3 DEF Found
    <3> QED BY <2>1, <2>2, <3>1, <3>2 DEF Matching, Recheck
  <2>4. CASE NotFound
    <3>1. CASE detection <= 5 /\ step' = "listen" /\ detection' = detection + 1
               /\ baud' = Detections[detection'].baud /\ marker' = now' /\ cnt' = 0
      <4>1. rechecking' => detection' \in 5 .. 6 /\ baud' = 115200
        BY <2>1, <2>2, <3>1, DetectionValues, ControlTypeOK
      <4>2. cnt' < Len(Wanted')
        <5> DEFINE n == Len(Wanted')
        <5>1. n = 2 \/ n = 4
          <6>1. detection' \in 1 .. 6
            BY <3>1, ControlTypeOK
          <6> QED BY <6>1, DetectionValues, HeaderValues DEF Wanted
        <5> HIDE DEF n
        <5>2. cnt' < n
          BY <3>1, <5>1
        <5> QED BY <5>2 DEF n
      <4> QED BY <3>1, <4>1, <4>2 DEF Matching, Recheck
    <3>2. CASE detection = 6 /\ step' = (IF rechecking THEN "configure" ELSE "undetected")
               /\ detection' = detection /\ baud' = baud
      BY <2>1, <2>2, <3>2 DEF Matching, Recheck
    <3> QED BY <2>4, <3>1, <3>2, NotFoundFacts
  <2>5. CASE /\ Follows # Len(Wanted)
             /\ cnt' = Follows /\ UNCHANGED <<step, detection, baud, marker>>
    <3>1. step' = step /\ detection' = detection /\ baud' = baud /\ cnt' = Follows /\ Wanted' = Wanted
      BY <2>5 DEF Wanted
    <3>2. Follows < Len(Wanted)
      <4> DEFINE n == Len(Wanted)
      <4>1. (n = 2 \/ n = 4) /\ Follows \in 0 .. n /\ Follows # n
        BY <1>1, <2>5, WantedValues, FollowsMatches
      <4> HIDE DEF n
      <4>2. Follows < n
        BY <4>1
      <4> QED BY <4>2 DEF n
    <3>3. (Follows >= 1 => b' = Wanted[Follows]) /\ (Follows >= 2 => baud = rx.baud)
      BY <1>1, FollowsMatches
    <3> QED BY <2>1, <2>2, <3>1, <3>2, <3>3 DEF Matching, Recheck
  <2> QED BY <1>1, <2>3, <2>4, <2>5, ByteOutcomes
<1>2. CASE ConfigPort
  <2>1. step' = "listen" /\ detection' = 5 /\ baud' = 115200 /\ cnt' = 0 /\ rechecking' = TRUE
    BY <1>2, PortFacts
  <2>2. Detections[5].baud = 115200 /\ Wanted' = Header["GN"]
    BY <2>1 DEF Detections, D, Wanted
  <2>3. cnt' < Len(Wanted')
    BY <2>1, <2>2, HeaderValues
  <2> QED BY <2>1, <2>2, <2>3 DEF Matching, Recheck
<1>3. CASE ConfigMessage
  BY <1>3, MessageFacts DEF Matching
<1>4. CASE Configured
  BY <1>4, ConfiguredFacts DEF Matching
<1>5. CASE Restart \/ PowerCycle
  <2>1. step' = "setup" /\ ~rechecking'
    BY <1>5, RestartFacts
  <2> QED BY <2>1 DEF Matching
<1>7. CASE SetUp
  <2>1. step = "setup" /\ rechecking' = rechecking /\ ~rechecking
    BY <1>7, SetUpFacts DEF Matching
  <2>2. CASE step' = "listen" /\ detection' = 1 /\ baud' = 9600 /\ cnt' = 0
    <3>1. Detections[1].baud = 9600 /\ Wanted' = Header["GN"]
      BY <2>2 DEF Detections, D, Wanted
    <3>2. cnt' < Len(Wanted')
      BY <2>2, <3>1, HeaderValues
    <3> QED BY <2>1, <2>2, <3>1, <3>2 DEF Matching
  <2>3. CASE step' = "broken"
    BY <2>1, <2>3 DEF Matching
  <2> QED BY <1>7, <2>2, <2>3, SetUpFacts
<1>6. CASE UNCHANGED configVars
  <2>1. /\ step' = step /\ detection' = detection /\ rechecking' = rechecking
        /\ cnt' = cnt /\ b' = b /\ baud' = baud /\ rx' = rx
    BY <1>6, StutterFacts
  <2>2. Wanted' = Wanted
    BY <2>1 DEF Wanted
  <2> QED BY <2>1, <2>2 DEF Matching
<1> QED BY <1>1, <1>2, <1>3, <1>4, <1>5, <1>6, <1>7 DEF ConfigNext, Config

(* A detection that just begins has read nothing yet.                      *)
LEMMA NothingRead == ConfigTypeOK /\ marker = now /\ cnt = 0 => Hearing
<1> SUFFICES ASSUME ConfigTypeOK, marker = now, cnt = 0
             PROVE  Hearing
  OBVIOUS
<1>1. phase \in 0 .. 6
  BY ListenerTypeOK
<1>2. Reads = 0
  <2>1. now \in Int
    BY Constants, ListenerTypeOK
  <2> QED BY <2>1 DEF Reads
<1>3. InPacket
  BY <1>1, <1>2 DEF InPacket, SincePacket
<1>4. InSentence
  BY <1>1, <1>2 DEF InSentence, SinceSentence
<1> QED BY <1>2, <1>3, <1>4 DEF Hearing

LEMMA HearingAtFirst ==
  ASSUME ConfigTypeOK', marker' = now', cnt' = 0
  PROVE  Hearing'
<1>1. (ConfigTypeOK /\ marker = now /\ cnt = 0 => Hearing)'
  BY NothingRead, PTL
<1> QED BY <1>1

LEMMA HearingStep ==
  ASSUME ConfigTypeOK, ConfigTypeOK', Matching, Hearing, [ConfigNext]_configVars
  PROVE  Hearing'
<1>1. CASE ReadByte
  <2>1. step = "listen" /\ talker' = talker /\ rx' = rx /\ Tick
    BY <1>1, ByteFacts
  <2>2. CASE Follows = Len(Wanted) /\ Found
    BY <2>2 DEF Found, Hearing
  <2>3. CASE NotFound
    <3>1. CASE step' = "listen" /\ marker' = now' /\ cnt' = 0
      BY <3>1, HearingAtFirst
    <3>2. CASE step' # "listen"
      BY <3>2 DEF Hearing
    <3> QED BY <2>3, <3>1, <3>2, NotFoundFacts
  <2>4. CASE /\ Follows # Len(Wanted)
             /\ cnt' = Follows /\ UNCHANGED <<step, detection, baud, marker>>
    <3>1. detection' = detection /\ marker' = marker
      BY <2>4
    <3>2. SUFFICES ASSUME garbled' = 0, Fits(detection)'
                   PROVE  /\ Reads' = 0 => cnt' = 0
                          /\ IF Detections[detection].kind = "UBX" THEN InPacket' ELSE InSentence'
      BY <3>1 DEF Hearing
    <3>3. Fits(detection)
      BY <2>1, <3>1, <3>2 DEF Fits
    <3>4. Reads <= 12 /\ Reads \in Nat
      BY <1>1, <2>4, <3>2, <3>3, FittingGoesOn, ReadsTyped
    <3>5. Reads' = Reads + 1
      BY <2>1, <3>1, <3>4, OneMoreRead
    <3>6. CASE Detections[detection].kind = "UBX"
      BY <1>1, <2>4, <3>2, <3>3, <3>4, <3>5, <3>6, PacketByte
    <3>7. CASE Detections[detection].kind # "UBX"
      BY <1>1, <2>4, <3>2, <3>3, <3>4, <3>5, <3>7, SentenceByte
    <3> QED BY <3>6, <3>7
  <2> QED BY <1>1, <2>2, <2>3, <2>4, ByteOutcomes
<1>2. CASE ConfigPort
  BY <1>2, PortFacts, HearingAtFirst
<1>3. CASE ConfigMessage \/ Configured
  <2>1. step' # "listen"
    BY <1>3, MessageFacts, ConfiguredFacts
  <2> QED BY <2>1 DEF Hearing
<1>4. CASE Restart \/ PowerCycle
  <2>1. step' = "setup"
    BY <1>4, RestartFacts
  <2> QED BY <2>1 DEF Hearing
<1>5. CASE UNCHANGED configVars
  <2>1. /\ step' = step /\ detection' = detection /\ marker' = marker /\ cnt' = cnt /\ b' = b
        /\ now' = now /\ phase' = phase /\ talker' = talker /\ rx' = rx /\ garbled' = garbled
    BY <1>5, StutterFacts
  <2>2. Reads' = Reads /\ SincePacket' = SincePacket /\ SinceSentence' = SinceSentence
        /\ Fits(detection)' = Fits(detection)
    BY <2>1 DEF Reads, SincePacket, SinceSentence, Fits
  <2>3. InPacket' = InPacket /\ InSentence' = InSentence
    BY <2>1, <2>2 DEF InPacket, InSentence
  <2> QED BY <2>1, <2>2, <2>3 DEF Hearing
<1>6. CASE SetUp
  <2>1. CASE marker' = now' /\ cnt' = 0
    BY <2>1, HearingAtFirst
  <2>2. CASE step' = "broken"
    BY <2>2 DEF Hearing
  <2> QED BY <1>6, <2>1, <2>2, SetUpFacts
<1> QED BY <1>1, <1>2, <1>3, <1>4, <1>5, <1>6 DEF ConfigNext, Config

(* The detection that ends without a header could not hear the receiver.   *)
LEMMA UnheardStep ==
  ASSUME ConfigTypeOK, ConfigTypeOK', Matching, Hearing, Unheard, [ConfigNext]_configVars
  PROVE  Unheard'
<1>1. CASE ReadByte
  <2> SUFFICES ASSUME garbled' = 0 PROVE Unheard'
    BY DEF Unheard
  <2>1. step = "listen" /\ talker' = talker /\ rx' = rx /\ rechecking' = rechecking
    BY <1>1, ByteFacts
  <2>2. garbled = 0
    <3>1. garbled \in Nat /\ (garbled' = garbled \/ garbled' = garbled + 1)
      BY <1>1, Constants, ControlTypeOK DEF ReadByte
    <3> QED BY <3>1
  <2>3. \A d : Fits(d)' = Fits(d)
    BY <2>1 DEF Fits
  <2>4. ~rechecking => \A d \in 1 .. detection - 1 : ~Fits(d)
    BY <2>1, <2>2 DEF Unheard
  <2>5. rechecking => step' # "undetected"
    <3>1. Matching'
      BY MatchingStep
    <3> QED BY <2>1, <3>1 DEF Matching
  <2>6. CASE Follows = Len(Wanted) /\ Found
    <3>1. step' \in {"port", "configure"}
      BY <2>6 DEF Found
    <3> QED BY <3>1 DEF Unheard
  <2>7. CASE Follows # Len(Wanted) /\ TimeOut(marker) /\ NotFound
    <3>1. ~Fits(detection)
      BY <1>1, <2>7, FittingGoesOn
    <3>2. detection \in 1 .. 6
      BY ControlTypeOK
    <3>3. ~rechecking => \A d \in 1 .. detection : ~Fits(d)
      BY <2>4, <3>1, <3>2
    <3>4. CASE detection <= 5 /\ step' = "listen" /\ detection' = detection + 1
      <4>1. detection' - 1 = detection
        BY <3>2, <3>4
      <4> QED BY <2>1, <2>3, <3>3, <3>4, <4>1 DEF Unheard
    <3>5. CASE detection = 6 /\ step' = (IF rechecking THEN "configure" ELSE "undetected")
      BY <2>1, <2>3, <3>3, <3>5, DetectionValues DEF Unheard
    <3> QED BY <2>7, <3>4, <3>5, NotFoundFacts
  <2>8. CASE cnt' = Follows /\ UNCHANGED <<step, detection, baud, marker>>
    <3>1. step' = "listen" /\ detection' = detection
      BY <2>1, <2>8
    <3> QED BY <2>1, <2>3, <2>4, <3>1 DEF Unheard
  <2> QED BY <1>1, <2>6, <2>7, <2>8, ByteOutcomes
<1>2. CASE ConfigPort
  <2>1. step' = "listen" /\ rechecking'
    BY <1>2, PortFacts
  <2> QED BY <2>1 DEF Unheard
<1>3. CASE ConfigMessage \/ Configured
  <2>1. step' \in {"configure", "ok"}
    BY <1>3, MessageFacts, ConfiguredFacts
  <2> QED BY <2>1 DEF Unheard
<1>4. CASE Restart \/ PowerCycle
  <2>1. step' = "setup"
    BY <1>4, RestartFacts
  <2> QED BY <2>1 DEF Unheard
<1>5. CASE UNCHANGED configVars
  <2>1. /\ step' = step /\ detection' = detection /\ rechecking' = rechecking
        /\ talker' = talker /\ rx' = rx /\ garbled' = garbled
    BY <1>5, StutterFacts
  <2>2. \A d : Fits(d)' = Fits(d)
    BY <2>1 DEF Fits
  <2> QED BY <2>1, <2>2 DEF Unheard
<1>6. CASE SetUp
  <2>1. (step' = "listen" /\ detection' = 1) \/ step' = "broken"
    BY <1>6, SetUpFacts
  <2> QED BY <2>1 DEF Unheard
<1> QED BY <1>1, <1>2, <1>3, <1>4, <1>5, <1>6 DEF ConfigNext, Config

(* What a message that arrives leaves of the settings.                     *)
LEMMA ObeyingMore ==
  ASSUME NEW r, r \in Settings, NEW text, NEW s, s = [r EXCEPT !.obeyed = @ \cup {text}]
  PROVE  s.baud = r.baud /\ s.obeyed = r.obeyed \cup {text}
BY DEF Settings

LEMMA ObeyingStep ==
  ASSUME ConfigTypeOK, ConfigTypeOK', Matching, Obeying, [ConfigNext]_configVars
  PROVE  Obeying'
<1>1. CASE ReadByte
  <2>1. /\ step = "listen" /\ rechecking' = rechecking /\ told' = told /\ rx' = rx /\ lost' = lost
        /\ told = 0
    BY <1>1, ByteFacts DEF Obeying
  <2>2. lost = 0 /\ rechecking => baud = 115200 /\ rx.baud = 115200
    BY <2>1 DEF Obeying
  <2>3. CASE Follows = Len(Wanted) /\ Found
    <3>1. baud = rx.baud /\ baud \in {9600, 115200}
      BY <1>1, <2>3, FoundAtSpeed, ListenerTypeOK
    <3>2. step' = (IF baud = 9600 THEN "port" ELSE "configure") /\ baud' = baud
      BY <2>3 DEF Found
    <3>3. (step' = "configure" => baud = 115200) /\ step' \in {"port", "configure"}
      BY <3>1, <3>2
    <3> QED BY <2>1, <2>2, <3>1, <3>2, <3>3 DEF Obeying
  <2>4. CASE NotFound
    <3>1. Matching'
      BY MatchingStep
    <3>2. step' \in {"listen", "undetected"} \/ (step' = "configure" /\ rechecking)
      BY <2>4, NotFoundFacts
    <3>3. rechecking' => baud' = 115200
      BY <3>1 DEF Matching
    <3> QED BY <2>1, <2>2, <3>2, <3>3 DEF Obeying
  <2>5. CASE cnt' = Follows /\ UNCHANGED <<step, detection, baud, marker>>
    <3>1. step' = step /\ baud' = baud
      BY <2>5
    <3> QED BY <2>1, <2>2, <3>1 DEF Obeying
  <2> QED BY <1>1, <2>3, <2>4, <2>5, ByteOutcomes
<1>2. CASE ConfigPort
  <2>1. /\ step = "port" /\ step' = "listen" /\ baud' = 115200 /\ told' = told
        /\ lost' >= lost /\ lost' \in Nat /\ lost \in Nat
        /\ lost' = lost => rx' = IF baud = rx.baud THEN [rx EXCEPT !.baud = 115200] ELSE rx
    BY <1>2, PortFacts, ControlTypeOK, Constants
  <2>2. told = 0 /\ baud = rx.baud
    BY <2>1 DEF Obeying, Matching
  <2>3. lost' = 0 => rx'.baud = 115200
    <3>1. rx \in Settings
      BY SavedTypeOK
    <3> DEFINE s == [rx EXCEPT !.baud = 115200]
    <3>2. lost' = 0 => rx' = s
      BY <2>1, <2>2
    <3>3. s.baud = 115200
      BY <3>1 DEF Settings
    <3> HIDE DEF s
    <3> QED BY <3>2, <3>3
  <2> QED BY <2>1, <2>2, <2>3 DEF Obeying
<1>3. CASE ConfigMessage
  <2>1. /\ step = "configure" /\ step' = "configure" /\ told \in 0 .. 10 /\ told' = told + 1
        /\ baud' = baud /\ lost' \in Nat /\ lost' >= lost /\ lost \in Nat
        /\ lost' = lost => rx' = IF baud = rx.baud THEN [rx EXCEPT !.obeyed = @ \cup {Messages[told']}] ELSE rx
    BY <1>3, MessageFacts, ControlTypeOK, Constants
  <2> SUFFICES ASSUME lost' = 0
               PROVE  /\ baud = 115200 /\ rx'.baud = 115200
                      /\ \A n \in 1 .. told' : Messages[n] \in rx'.obeyed
    BY <2>1 DEF Obeying
  <2>2. lost = 0
    BY <2>1
  <2>3. baud = 115200 /\ rx.baud = 115200 /\ \A n \in 1 .. told : Messages[n] \in rx.obeyed
    BY <2>1, <2>2 DEF Obeying
  <2>4. rx'.baud = rx.baud /\ rx'.obeyed = rx.obeyed \cup {Messages[told']}
    <3> DEFINE s == [rx EXCEPT !.obeyed = @ \cup {Messages[told']}]
    <3>1. s.baud = rx.baud /\ s.obeyed = rx.obeyed \cup {Messages[told']}
      BY SavedTypeOK, ObeyingMore
    <3>2. rx' = s
      BY <2>1, <2>2, <2>3
    <3> HIDE DEF s
    <3> QED BY <3>1, <3>2
  <2>5. ASSUME NEW n \in 1 .. told'
        PROVE  Messages[n] \in rx'.obeyed
    <3>1. n \in 1 .. told \/ n = told'
      BY <2>1
    <3> QED BY <2>3, <2>4, <3>1
  <2> QED BY <2>3, <2>4, <2>5
<1>4. CASE Configured
  <2>1. /\ step = "configure" /\ step' = "ok" /\ told = 11 /\ told' = told /\ baud' = baud /\ rx' = rx
        /\ lost' = lost
    BY <1>4, ConfiguredFacts
  <2> QED BY <2>1, Constants DEF Obeying
<1>5. CASE Restart \/ PowerCycle
  <2>1. step' = "setup" /\ ~rechecking' /\ told' = 0
    BY <1>5, RestartFacts
  <2> QED BY <2>1 DEF Obeying
<1>6. CASE UNCHANGED configVars
  <2>1. step' = step /\ rechecking' = rechecking /\ baud' = baud /\ told' = told /\ rx' = rx /\ lost' = lost
    BY <1>6, StutterFacts
  <2> QED BY <2>1 DEF Obeying
<1>7. CASE SetUp
  <2>1. step' \in {"listen", "broken"} /\ rechecking' = rechecking /\ told' = told
    BY <1>7, SetUpFacts
  <2>2. ~rechecking /\ told = 0
    BY <1>7, SetUpFacts DEF Matching, Obeying
  <2> QED BY <2>1, <2>2 DEF Obeying
<1> QED BY <1>1, <1>2, <1>3, <1>4, <1>5, <1>6, <1>7 DEF ConfigNext, Config

(* Which messages change what can be heard of the receiver.                *)
LEMMA DetectableAfter ==
  ASSUME NEW r, NEW s, NEW n \in 1 .. 11, s.obeyed = r.obeyed \cup {Messages[n]}
  PROVE  /\ n # 2 /\ Detectable(r) => Detectable(s)
         /\ n = 7 => Detectable(s)
         /\ Messages[7] \in r.obeyed => Detectable(s)
<1>1. (Messages[n] = "DisableGLL" <=> n = 2) /\ (Messages[n] = "EnableNAVPVT" <=> n = 7)
      /\ Messages[7] = "EnableNAVPVT"
  BY MessageValues
<1> QED BY <1>1 DEF Detectable, SendsGLL, SendsPVT

LEMMA AudibleStep ==
  ASSUME ConfigTypeOK, ConfigTypeOK', Matching, Obeying, Audible, [ConfigNext]_configVars
  PROVE  Audible'
<1> DEFINE Between == step = "configure" /\ told \in 2 .. 6
<1> SUFFICES ASSUME lost' = 0
             PROVE  Detectable(saved)' /\ (Detectable(rx)' \/ cut' \/ Between')
  BY DEF Audible
<1>1. CASE ReadByte
  <2>1. step = "listen" /\ rx' = rx /\ saved' = saved /\ lost' = lost /\ cut' = cut
    BY <1>1, ByteFacts
  <2> QED BY <2>1 DEF Audible, Detectable, SendsGLL, SendsPVT
<1>2. CASE ConfigPort
  <2>1. step = "port" /\ rx'.obeyed = rx.obeyed /\ saved' = saved /\ cut' = cut /\ lost = 0
    BY <1>2, PortFacts, ControlTypeOK, Constants
  <2> QED BY <2>1 DEF Audible, Detectable, SendsGLL, SendsPVT
<1>3. CASE ConfigMessage
  <2>1. /\ step = "configure" /\ step' = "configure" /\ told \in 0 .. 10 /\ told' = told + 1
        /\ lost = 0 /\ cut' = cut
    BY <1>3, MessageFacts, ControlTypeOK, Constants
  <2>2. baud = rx.baud /\ \A n \in 1 .. told : Messages[n] \in rx.obeyed
    BY <2>1 DEF Obeying
  <2> DEFINE s == [rx EXCEPT !.obeyed = @ \cup {Messages[told']}]
  <2>3. s.obeyed = rx.obeyed \cup {Messages[told']}
    BY SavedTypeOK, ObeyingMore
  <2>4. rx' = s
    BY <1>3, <2>1, <2>2, MessageFacts
  <2>5. saved' = IF Messages[told'] = "CFG" /\ baud = rx.baud /\ lost' = lost THEN rx' ELSE saved
    BY <1>3, MessageFacts
  <2> HIDE DEF s
  <2>6. PICK n \in 1 .. 11 : n = told'
    BY <2>1
  <2>7. rx'.obeyed = rx.obeyed \cup {Messages[n]}
    BY <2>3, <2>4, <2>6
  <2>8. n >= 8 => Messages[7] \in rx.obeyed
    BY <2>1, <2>2, <2>6
  <2>9. n >= 7 => Detectable(rx')
    BY <2>7, <2>8, DetectableAfter
  <2>10. n = 1 => Detectable(rx') \/ cut
    <3>1. n = 1 => told = 0
      BY <2>1, <2>6
    <3>2. n = 1 => Detectable(rx) \/ cut
      BY <2>1, <3>1 DEF Audible
    <3> QED BY <2>7, <3>2, DetectableAfter
  <2>11. Detectable(saved')
    <3>1. Messages[n] = "CFG" => n = 11
      BY MessageValues
    <3> QED BY <2>1, <2>5, <2>6, <2>9, <3>1 DEF Audible
  <2>12. n = 1 \/ n >= 7 \/ Between'
    BY <2>1, <2>6
  <2> QED BY <2>1, <2>9, <2>10, <2>11, <2>12
<1>4. CASE Configured
  <2>1. step = "configure" /\ told = 11 /\ rx' = rx /\ saved' = saved /\ lost' = lost
    BY <1>4, ConfiguredFacts
  <2>2. Messages[7] \in rx.obeyed /\ Messages[7] = "EnableNAVPVT"
    BY <2>1, MessageValues DEF Obeying
  <2> QED BY <2>1, <2>2 DEF Audible, Detectable, SendsPVT
<1>5. CASE Restart \/ PowerCycle
  <2>1. /\ saved' = saved /\ lost' = lost
        /\ \/ rx' = rx /\ cut' = (cut \/ (step = "configure" /\ told \in 2 .. 6))
           \/ rx' = saved
    BY <1>5, RestartFacts
  <2>2. CASE rx' = rx /\ cut' = (cut \/ (step = "configure" /\ told \in 2 .. 6))
    BY <2>1, <2>2 DEF Audible
  <2>3. CASE rx' = saved
    BY <2>1, <2>3 DEF Audible
  <2> QED BY <2>1, <2>2, <2>3
<1>6. CASE UNCHANGED configVars
  <2>1. step' = step /\ told' = told /\ rx' = rx /\ saved' = saved /\ lost' = lost /\ cut' = cut
    BY <1>6, StutterFacts
  <2> QED BY <2>1 DEF Audible
<1>7. CASE SetUp
  <2>1. step = "setup" /\ rx' = rx /\ saved' = saved /\ lost' = lost /\ cut' = cut
    BY <1>7, SetUpFacts
  <2> QED BY <2>1 DEF Audible
<1> QED BY <1>1, <1>2, <1>3, <1>4, <1>5, <1>6, <1>7 DEF ConfigNext, Config

-----------------------------------------------------------------------------
(* GPS configuration: the theorems                                         *)

LEMMA ConfigInitially == ConfigInit => ConfigIInv
<1> SUFFICES ASSUME ConfigInit PROVE ConfigIInv
  OBVIOUS
<1>1. ConfigTypeOK
  <2>1. Factory \in Settings
    BY DEF Factory, Settings
  <2>2. {rx, saved} \subseteq Settings /\ {marker, now} \subseteq 0 .. CounterSize - 1
    BY <2>1, Constants DEF ConfigInit
  <2>3. garbled \in 0 .. MaxConfigFaults /\ lost \in 0 .. MaxConfigFaults /\ restarts \in 0 .. MaxRestarts
    BY Constants DEF ConfigInit
  <2>4. detection \in DOMAIN Detections /\ told \in 0 .. Len(Messages)
    BY Constants DEF ConfigInit
  <2>5. /\ step \in ConfigSteps /\ talker \in {"GN", "GP"}
        /\ cnt \in 0 .. 4 /\ b \in 0 .. 6 /\ baud \in {9600, 115200} /\ phase \in 0 .. Period - 1
    BY DEF ConfigInit, ConfigSteps
  <2>6. rechecking = FALSE /\ cut = FALSE
    BY DEF ConfigInit
  <2>7. rechecking \in BOOLEAN /\ cut \in BOOLEAN
    BY <2>6
  <2> QED BY <2>2, <2>3, <2>4, <2>5, <2>7 DEF ConfigTypeOK
<1>2. step = "setup" /\ ~rechecking /\ told = 0 /\ ~cut /\ rx.obeyed = {} /\ saved.obeyed = {}
  BY DEF ConfigInit, Factory
<1>3. Matching
  BY <1>2 DEF Matching
<1>4. Hearing
  BY <1>2 DEF Hearing
<1>5. Obeying
  BY <1>2 DEF Obeying
<1>6. Unheard
  BY <1>2 DEF Unheard
<1>7. Audible
  BY <1>2 DEF Audible, Detectable, SendsGLL
<1> QED BY <1>1, <1>3, <1>4, <1>5, <1>6, <1>7 DEF ConfigIInv

LEMMA ConfigInductive == ConfigIInv /\ [ConfigNext]_configVars => ConfigIInv'
<1> SUFFICES ASSUME ConfigIInv, [ConfigNext]_configVars PROVE ConfigIInv'
  OBVIOUS
<1> USE DEF ConfigIInv
<1>1. ConfigTypeOK'
  BY ConfigTypeOKStep
<1> QED BY <1>1, MatchingStep, HearingStep, ObeyingStep, UnheardStep, AudibleStep

LEMMA ConfigInvariant == ConfigSpec => []ConfigIInv
BY ConfigInitially, ConfigInductive, PTL DEF ConfigSpec

(* Type correctness of the configuration: the index of the header, of the  *)
(* detection and of the message stay in range (gps.c:148-314).             *)
THEOREM ConfigTypeCorrect == ConfigSpec => []ConfigTypeOK
<1>1. ConfigIInv => ConfigTypeOK
  BY DEF ConfigIInv
<1> QED BY <1>1, ConfigInvariant, PTL

(* When gps_config returns 0 and no message was lost, the receiver is at   *)
(* 115200 and has obeyed all of them (gps.c:294-313).                      *)
THEOREM ConfiguredWhenOk == ConfigSpec => []OkMeansConfigured
<1>1. ConfigIInv => OkMeansConfigured
  <2> SUFFICES ASSUME ConfigIInv, step = "ok", lost = 0
               PROVE  rx.baud = 115200 /\ rx.obeyed = Range(Messages)
    BY DEF OkMeansConfigured
  <2>1. told = 11 /\ rx.baud = 115200 /\ \A n \in 1 .. told : Messages[n] \in rx.obeyed
    BY Constants DEF ConfigIInv, Obeying
  <2>2. Range(Messages) \subseteq rx.obeyed
    BY <2>1, MessageValues DEF Range
  <2>3. rx.obeyed \subseteq Range(Messages)
    BY SavedTypeOK DEF ConfigIInv, Settings
  <2> QED BY <2>1, <2>2, <2>3
<1> QED BY <1>1, ConfigInvariant, PTL

(* Every detection is over, so none could hear it.                         *)
LEMMA SilentWhenUndetected == ConfigIInv => UndetectedIsSilent
<1> SUFFICES ASSUME ConfigIInv, step = "undetected", garbled = 0, Detectable(rx)
             PROVE  FALSE
  BY DEF UndetectedIsSilent
<1>1. \A d \in DOMAIN Detections : ~Fits(d)
  BY DEF ConfigIInv, Unheard
<1>2. rx.baud \in {9600, 115200} /\ talker \in {"GN", "GP", "UBX"}
  BY SavedTypeOK, ControlTypeOK DEF ConfigIInv, Settings
<1>3. CASE SendsGLL(rx)
  BY <1>1, <1>2, <1>3, AllLookedFor DEF Fits
<1>4. CASE SendsPVT(rx)
  <2>1. \E d \in DOMAIN Detections : Detections[d].baud = rx.baud /\ Detections[d].kind = "UBX"
    BY <1>2, AllLookedFor
  <2> QED BY <1>1, <1>4, <2>1 DEF Fits
<1> QED BY <1>3, <1>4 DEF Detectable

(* gps_config reports an undetected protocol (return -5) only of a         *)
(* receiver that sends nothing it looks for: the window of each detection  *)
(* is long enough, wherever in its cycle the receiver is and wherever the  *)
(* counter wraps (gps.c:169, 250-289).  Its other errors are the UART's.   *)
THEOREM UndetectedOnlyIfSilent == ConfigSpec => []UndetectedIsSilent
BY SilentWhenUndetected, ConfigInvariant, PTL

(* Without faults the receiver is lost in one way only: a restart of the   *)
(* program between DisableGLL and EnableNAVPVT (gps.c:126-139).            *)
THEOREM OnlyAnInterruptionSilences == ConfigSpec => []SilentOnlyIfCut
<1>1. ConfigIInv => SilentOnlyIfCut
  BY SilentWhenUndetected DEF ConfigIInv, Audible, UndetectedIsSilent, SilentOnlyIfCut
<1> QED BY <1>1, ConfigInvariant, PTL

=============================================================================
