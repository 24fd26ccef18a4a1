----------------------------- MODULE GpsParser ------------------------------
(***************************************************************************)
(* gps_stateMachine (main/gps.c): the byte-wise parser that looks for the  *)
(* header of a UBX NAV-PVT message and stores what follows straight into   *)
(* the shared NavPvt.                                                      *)
(*                                                                         *)
(* The bytes of the header are pairwise different, so a byte on the line   *)
(* is abstracted to the position it has in the header, 0 for every other   *)
(* value.  The GPS receiver (external) sends one message after the other:  *)
(* the header, then N bytes of any value.  On the line, bytes may get      *)
(* lost, be changed, or (other messages) come between two frames.          *)
(* A stored byte is known by where it comes from: <<frame, index>>, index  *)
(* 0 for a header byte taken for payload, NoByte for noise.                *)
(***************************************************************************)
EXTENDS Naturals

CONSTANTS
    HeaderLength,  \* sizeof(GpsUBXNAVPVTHdr)
    N,             \* NAV_PVT_PKT_NUM_BYTES
    PayloadValues, \* values of payload bytes, as positions in the header
    Frames,        \* frames are numbered 1 .. Frames, round and round
    MaxFaults      \* bound on the faults on the line

ASSUME GpsAssumption ==
    /\ HeaderLength \in Nat \ {0} /\ N \in Nat \ {0}
    /\ PayloadValues \subseteq 0 .. HeaderLength
    /\ Frames \in Nat \ {0}
    /\ MaxFaults \in Nat

VARIABLES
    state,     \* GpsState
    numValid,  \* NumValidHdrBytes
    received,  \* PktReceivedBytes
    nav,       \* NavPvt.pktBuffer
    updated,   \* IsGpsNavUpdated
    frame,     \* the frame the receiver is sending ...
    pos,       \* ... and how many of its bytes are gone
    faults,    \* number of faults on the line so far
    clean      \* history: the parser met this frame idle, and got all of it

parserVars == <<state, numValid, received, nav, updated>>
lineVars   == <<frame, pos, faults, clean>>
gpsVars    == <<parserVars, lineVars>>

Bytes       == 1 .. N
FrameLength == HeaderLength + N
NoByte      == <<0, 0>>
Sources     == {NoByte} \cup ((1 .. Frames) \X (0 .. N))

GpsTypeOK ==
    /\ state \in {"idle", "pktrcv"}
    /\ numValid \in 0 .. HeaderLength - 1
    /\ received \in 0 .. N - 1
    /\ nav \in [Bytes -> Sources]
    /\ updated \in BOOLEAN
    /\ frame \in 1 .. Frames
    /\ pos \in 0 .. FrameLength - 1
    /\ faults \in 0 .. MaxFaults
    /\ clean \in BOOLEAN

(* The end of gps_config; the receiver may be anywhere in a frame.         *)
GpsInit ==
    /\ state = "idle" /\ numValid = 0 /\ received = 0
    /\ nav = [j \in Bytes |-> NoByte]
    /\ updated = FALSE
    /\ frame = 1 /\ pos \in 0 .. FrameLength - 1
    /\ faults = 0 /\ clean = FALSE

-----------------------------------------------------------------------------
(* The parser                                                              *)

(* A byte that does not continue the header starts the search anew; it is  *)
(* not looked at again as a first header byte.                             *)
Matched(valid, v) == IF v = valid + 1 THEN valid + 1 ELSE 0

Search(v) ==
    /\ state = "idle"
    /\ IF Matched(numValid, v) = HeaderLength
         THEN numValid' = 0 /\ received' = 0 /\ state' = "pktrcv"
         ELSE numValid' = Matched(numValid, v) /\ UNCHANGED <<received, state>>
    /\ UNCHANGED <<nav, updated>>

(* gps_packetChecksum is a stub: every packet passes.                      *)
Checksum(bytes) == TRUE

(* The packet is complete.  Faulty variants: one byte early or late.       *)
OneEarly(count) == count + 1 = N
OneLate(count)  == count = N + 1
Complete(count) == count = N

Store(source) ==
    /\ state = "pktrcv"
    /\ nav' = [nav EXCEPT ![received + 1] = source]
    /\ IF Complete(received + 1)
         THEN /\ received' = 0
              /\ state' = "idle"
              /\ updated' = (updated \/ Checksum(nav'))
         ELSE /\ received' = received + 1
              /\ UNCHANGED <<state, updated>>
    /\ UNCHANGED numValid

(* One turn of the loop of gps_stateMachine.                               *)
Receive(v, source) == Search(v) \/ Store(source)

-----------------------------------------------------------------------------
(* The line                                                                *)

Advance ==
    IF pos + 1 = FrameLength
      THEN pos' = 0 /\ frame' = (frame % Frames) + 1
      ELSE pos' = pos + 1 /\ UNCHANGED frame

Values == IF pos < HeaderLength THEN {pos + 1} ELSE PayloadValues
Source == <<frame, IF pos < HeaderLength THEN 0 ELSE pos - HeaderLength + 1>>

(* The next byte of the frame arrives.                                     *)
Byte ==
    /\ \E v \in Values : Receive(v, Source)
    /\ Advance
    /\ clean' = IF pos = 0 THEN state = "idle" /\ numValid = 0 ELSE clean
    /\ UNCHANGED faults

Fault ==
    /\ faults < MaxFaults
    /\ faults' = faults + 1
    /\ clean' = FALSE

(* A byte is lost, for instance because the UART buffer overran.           *)
LoseByte == Fault /\ Advance /\ UNCHANGED parserVars

(* A byte arrives changed.                                                 *)
ChangeByte ==
    /\ Fault /\ Advance
    /\ \E v \in 0 .. HeaderLength : Receive(v, NoByte)

(* A byte of something else arrives between two frames.                    *)
OtherByte ==
    /\ Fault /\ pos = 0
    /\ \E v \in 0 .. HeaderLength : Receive(v, NoByte)
    /\ UNCHANGED <<frame, pos>>

GpsNext == Byte \/ LoseByte \/ ChangeByte \/ OtherByte

GpsSpec == GpsInit /\ [][GpsNext]_gpsVars

(* The GPS receiver sends ten messages a second.                           *)
GpsFairSpec == GpsSpec /\ WF_gpsVars(Byte)

-----------------------------------------------------------------------------
(* Properties                                                              *)

Previous(f) == IF f = 1 THEN Frames ELSE f - 1

WholeFrame(f) == nav = [j \in Bytes |-> <<f, j>>]

(* A frame that meets the parser idle and reaches it without a fault ends  *)
(* up in NavPvt byte for byte, whatever its payload looks like: payload    *)
(* bytes are counted, never interpreted.                                   *)
CleanFrameStored == pos = 0 /\ clean => WholeFrame(Previous(frame))

(* Staying in step: after such a frame the parser is idle when the next    *)
(* one starts, so without faults it never loses step again.                *)
StaysInStep ==
    [][clean /\ pos = 0 /\ faults' = faults /\ pos' = 1 => clean']_gpsVars

(* No byte of a payload is taken for one of a header.                      *)
NotMisled == state = "idle" /\ pos >= HeaderLength => numValid' = 0 /\ state' = "idle"

(* The parser finds its way back: when the faults are over, and bytes of a *)
(* payload that look like a header no longer mislead it, it gets in step   *)
(* for good.                                                               *)
Resynchronises == <>[][NotMisled]_gpsVars => <>[]clean
=============================================================================
