------------------------------- MODULE Sx1276 -------------------------------
(***************************************************************************)
(* The SX1276 LoRa transceiver as the driver in components/lora/lora.c     *)
(* sees it over SPI.  The chip itself is not part of the repository: every *)
(* definition here is external and follows from how lora.c uses it.        *)
(*                                                                         *)
(* A packet is abstracted to its length in cells and to whether its        *)
(* payload CRC is right.  Packets are numbered in the order the radio      *)
(* captured them, and a cell of the FIFO holds the number of the packet    *)
(* that wrote it last, so "which packet does this byte come from" is a     *)
(* number comparison.  A packet overwrites as many cells as it has; what   *)
(* lies behind it stays from earlier packets.                              *)
(***************************************************************************)
EXTENDS Naturals, Sequences

CONSTANTS
    FifoSize,   \* cells of the FIFO, 256 bytes in the chip
    Lengths,    \* payload lengths on the air, in cells of packet_t
    MaxPackets  \* bound on the packets captured in one behaviour

ASSUME RadioAssumption ==
    /\ FifoSize \in Nat \ {0}
    /\ Lengths \subseteq 0 .. FifoSize
    /\ MaxPackets \in Nat

VARIABLES
    mode,   \* REG_OP_MODE
    irq,    \* REG_IRQ_FLAGS, as a set of flags
    air,    \* history: the packets captured so far
    fifo,   \* cell -> number of the packet that wrote it (0: none)
    cur,    \* REG_FIFO_RX_CURRENT_ADDR
    nb,     \* REG_RX_NB_BYTES
    ptr     \* REG_FIFO_ADDR_PTR

radioVars == <<mode, irq, air, fifo, cur, nb, ptr>>

Modes   == {"sleep", "standby", "tx", "rxcont"}
Flags   == {"TxDone", "RxDone", "CrcError"}
Packets == [len : Lengths, ok : BOOLEAN]

Last == Len(air)

(* The FIFO is a ring: what follows its last cell is cell 0.               *)
Addresses == 0 .. FifoSize - 1
At(start, k) ==
    IF start + k < FifoSize THEN start + k ELSE start + k - FifoSize

RadioTypeOK ==
    /\ mode \in Modes
    /\ irq \subseteq Flags
    /\ air \in Seq(Packets)
    /\ Last <= MaxPackets
    /\ fifo \in [Addresses -> 0 .. Last]
    /\ cur \in Addresses
    /\ nb \in Lengths \cup {0}
    /\ ptr \in Addresses

(* The chip after lora_reset() and the register writes of lora_init().     *)
RadioInit ==
    /\ mode = "standby"
    /\ irq = {}
    /\ air = << >>
    /\ fifo = [a \in Addresses |-> 0]
    /\ cur = 0
    /\ nb = 0
    /\ ptr = 0

(* A packet arrives.  The radio hears it only in continuous receive mode.  *)
(* It may start at any address and fills as many cells as it is long; the  *)
(* address and length registers follow it, RxDone is raised, and CrcError  *)
(* too when the payload CRC is wrong.                                      *)
(* Flags stay set until the host writes them back.                         *)
Capture(p) ==
    /\ mode = "rxcont"
    /\ Last < MaxPackets
    /\ air' = Append(air, p)
    /\ \E s \in Addresses :
         /\ fifo' = [a \in Addresses |->
                      IF \E k \in 0 .. p.len - 1 : a = At(s, k)
                        THEN Last + 1 ELSE fifo[a]]
         /\ cur' = s
    /\ nb' = p.len
    /\ irq' = irq \cup {"RxDone"} \cup (IF p.ok THEN {} ELSE {"CrcError"})
    /\ UNCHANGED <<mode, ptr>>
=============================================================================
