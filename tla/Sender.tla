------------------------------- MODULE Sender -------------------------------
(***************************************************************************)
(* The sender: app_main with RECEIVER false (main.cpp) and                 *)
(* lora_send_packet (components/lora/lora.c), composed with the task       *)
(* gpstask, which runs the parser of GpsParser at a higher priority.       *)
(*                                                                         *)
(* app_main copies six fields out of NavPvt one after the other, while     *)
(* gpstask may store any number of bytes between two of them, writes the   *)
(* copy into the FIFO of the radio, starts the transmission and polls the  *)
(* TxDone flag.  The radio sends the FIFO one cell after the other.        *)
(* A field is one cell, here as in NavPvt; sent is what is on the air.     *)
(***************************************************************************)
EXTENDS GpsParser, Sequences

CONSTANTS
    Order   \* the cells of NavPvt that are sent, in the order of packet_t

ASSUME SenderAssumption == Order \in Seq(1 .. N) /\ Order # << >>

VARIABLES
    gpsTask,  \* gpstask: configuring, parsing, or in the loop after an error
    pc, i,    \* where app_main is, and at which cell
    packet,   \* packet_t
    mode,     \* REG_OP_MODE
    txDone,   \* IRQ_TX_DONE_MASK in REG_IRQ_FLAGS
    ptr,      \* REG_FIFO_ADDR_PTR
    fifo,     \* the FIFO, from the transmit base address on
    sent,     \* the cells the radio has sent since it was started
    whole,    \* history: the last byte stored ended a frame that was clean
    quiet     \* history: whole when the copying began, and nothing stored since

appVars   == <<pc, i, packet>>
radioVars == <<mode, txDone, ptr, fifo, sent>>
history == <<whole, quiet>>
vars == <<gpsVars, gpsTask, appVars, radioVars, history>>

Size  == Len(Order)
Cells == 1 .. Size
(* The FIFO wraps around; twice the packet is enough to tell.              *)
FifoSize == 2 * Size

TypeOK ==
    /\ GpsTypeOK
    /\ gpsTask \in {"config", "parse", "spin"}
    /\ pc \in {"copy", "idle", "rewind", "load", "start", "poll", "clear", "delay"}
    /\ i \in Cells
    /\ packet \in [Cells -> Sources]
    /\ mode \in {"standby", "tx"}
    /\ txDone \in BOOLEAN
    /\ ptr \in 0 .. FifoSize - 1
    /\ fifo \in [0 .. FifoSize - 1 -> Sources]
    /\ sent \in Seq(Sources) /\ Len(sent) <= Size
    /\ whole \in BOOLEAN /\ quiet \in BOOLEAN

Init ==
    /\ GpsInit
    /\ gpsTask = "config"
    /\ pc = "copy" /\ i = 1
    /\ packet = [c \in Cells |-> NoByte]
    /\ mode = "standby" /\ txDone = FALSE
    /\ ptr = 0 /\ fifo = [a \in 0 .. FifoSize - 1 |-> NoByte]
    /\ sent = << >>
    /\ whole = FALSE /\ quiet = FALSE

-----------------------------------------------------------------------------
(* gpstask                                                                 *)

(* gps_config works or fails; bytes that arrive before its end are lost.   *)
GpsConfig ==
    /\ gpsTask = "config"
    /\ gpsTask' \in {"parse", "spin"}
    /\ UNCHANGED <<gpsVars, appVars, radioVars, history>>

GpsByte ==
    /\ gpsTask = "parse"
    /\ Byte
    /\ quiet' = (quiet /\ state = "idle")
    /\ whole' = IF state = "pktrcv" THEN clean /\ state' = "idle" ELSE whole
    /\ UNCHANGED <<gpsTask, appVars, radioVars>>

GpsLoss ==
    /\ gpsTask = "parse"
    /\ LoseByte
    /\ UNCHANGED <<gpsTask, appVars, radioVars, history>>

-----------------------------------------------------------------------------
(* app_main; it shares its core with gpstask and starves when that, after  *)
(* an error of gps_config, loops without a delay.                          *)

Scheduled == gpsTask # "spin"

(* .fixType = NavPvt.nav.fixType, ...                                      *)
Copy ==
    /\ pc = "copy" /\ Scheduled
    /\ packet' = [packet EXCEPT ![i] = nav[Order[i]]]
    /\ quiet' = IF i = 1 THEN whole ELSE quiet
    /\ IF i < Size THEN i' = i + 1 /\ UNCHANGED pc
                   ELSE i' = 1 /\ pc' = "idle"
    /\ UNCHANGED <<gpsVars, gpsTask, radioVars, whole>>

(* lora_idle().                                                            *)
LoraIdle ==
    /\ pc = "idle" /\ Scheduled
    /\ mode' = "standby"
    /\ pc' = "rewind"
    /\ UNCHANGED <<gpsVars, gpsTask, i, packet, txDone, ptr, fifo, sent, history>>

(* lora_write_reg(REG_FIFO_ADDR_PTR, 0).  Faulty variant: left where it is *)
Kept(position)    == position
Rewound(position) == 0

Rewind ==
    /\ pc = "rewind" /\ Scheduled
    /\ ptr' = Rewound(ptr)
    /\ pc' = "load"
    /\ UNCHANGED <<gpsVars, gpsTask, i, packet, mode, txDone, fifo, sent, history>>

(* lora_write_reg(REG_FIFO, *buf++), and the payload length at the end.    *)
Load ==
    /\ pc = "load" /\ Scheduled
    /\ fifo' = [fifo EXCEPT ![ptr] = packet[i]]
    /\ ptr' = (ptr + 1) % FifoSize
    /\ IF i < Size THEN i' = i + 1 /\ UNCHANGED pc
                   ELSE i' = 1 /\ pc' = "start"
    /\ UNCHANGED <<gpsVars, gpsTask, packet, mode, txDone, sent, history>>

(* Faulty variant: the transmitter is not switched on.                     *)
StillStandby == "standby"
TxMode == "tx"

StartTx ==
    /\ pc = "start" /\ Scheduled
    /\ mode' = TxMode
    /\ sent' = << >>
    /\ pc' = "poll"
    /\ UNCHANGED <<gpsVars, gpsTask, i, packet, txDone, ptr, fifo, history>>

(* while ((lora_read_reg(REG_IRQ_FLAGS) & IRQ_TX_DONE_MASK) == 0)          *)
PollTxDone ==
    /\ pc = "poll" /\ Scheduled
    /\ txDone
    /\ pc' = "clear"
    /\ UNCHANGED <<gpsVars, gpsTask, i, packet, radioVars, history>>

Cleared(flag) == FALSE

ClearTxDone ==
    /\ pc = "clear" /\ Scheduled
    /\ txDone' = Cleared(txDone)
    /\ pc' = "delay"
    /\ UNCHANGED <<gpsVars, gpsTask, i, packet, mode, ptr, fifo, sent, history>>

(* vTaskDelay(1000).                                                       *)
Delay ==
    /\ pc = "delay" /\ Scheduled
    /\ pc' = "copy"
    /\ UNCHANGED <<gpsVars, gpsTask, i, packet, radioVars, history>>

-----------------------------------------------------------------------------
(* The radio (external)                                                    *)

Transmit ==
    /\ mode = "tx" /\ Len(sent) < Size
    /\ sent' = Append(sent, fifo[Len(sent)])
    /\ UNCHANGED <<gpsVars, gpsTask, appVars, mode, txDone, ptr, fifo, history>>

EndTx ==
    /\ mode = "tx" /\ Len(sent) = Size
    /\ mode' = "standby" /\ txDone' = TRUE
    /\ UNCHANGED <<gpsVars, gpsTask, appVars, ptr, fifo, sent, history>>

-----------------------------------------------------------------------------
GpsStep   == GpsConfig \/ GpsByte \/ GpsLoss
MainStep  == Copy \/ LoraIdle \/ Rewind \/ Load \/ StartTx \/ PollTxDone
             \/ ClearTxDone \/ Delay
RadioStep == Transmit \/ EndTx

Next == GpsStep \/ MainStep \/ RadioStep

Spec == Init /\ [][Next]_vars

(* app_main runs whenever gpstask waits for the UART; a transmission takes *)
(* a bounded time.                                                         *)
FairSpec == Spec /\ WF_vars(MainStep) /\ WF_vars(RadioStep)

-----------------------------------------------------------------------------
(* Properties                                                              *)

(* When lora_send_packet comes back the packet of this round is on the     *)
(* air, whole and unchanged, and the radio is through with it.             *)
SentWhole ==
    pc \in {"clear", "delay"} =>
      mode = "standby" /\ sent = [c \in Cells |-> packet[c]]

(* A transmission that was started is never cut short by the lora_idle of  *)
(* the next round: the TxDone flag app_main waits for is its own.          *)
NeverCutShort == [][mode = "tx" /\ mode' # "tx" => Len(sent) = Size]_vars

(* Tearing has one cause: a packet that was copied without a byte of a     *)
(* message being stored meanwhile, from a NavPvt that a whole frame was    *)
(* stored in, is a copy of one frame.                                      *)
TornOnlyByArrival ==
    pc = "idle" /\ quiet =>
      \E f \in 1 .. Frames : packet = [c \in Cells |-> <<f, Order[c]>>]

(* As long as gpstask is not in its error loop, the sender keeps sending.  *)
KeepsSending == [](gpsTask # "spin") => []<>(pc = "delay")
=============================================================================
