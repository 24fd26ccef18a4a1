--------------------------- MODULE FreshestPacket ---------------------------
(***************************************************************************)
(* What the receive path promises to the rest of the firmware: a buffer    *)
(* that is only ever updated in one go, by a prefix of the packet that is  *)
(* the newest one at that moment.  A packet may be skipped or fetched      *)
(* again, but no update mixes two packets as far as the newest one         *)
(* reaches.  An update may reach further than that, into what is left of   *)
(* earlier packets, only while the newest packet is still announced: then  *)
(* it will be fetched again.                                               *)
(***************************************************************************)
EXTENDS Naturals

CONSTANT Size

VARIABLES
    newest,     \* number of the newest packet
    length,     \* its length
    announced,  \* is it, or one before it, still to be fetched?
    held        \* cell -> number of the packet it was taken from

promised == <<newest, length, announced, held>>

Cells == 1 .. Size

Init ==
    /\ newest = 0 /\ length = 0 /\ announced = FALSE
    /\ held = [c \in Cells |-> 0]

Capture ==
    /\ newest' = newest + 1 /\ length' \in Nat
    /\ announced' = TRUE
    /\ UNCHANGED held

Acknowledge ==
    /\ announced' = FALSE
    /\ UNCHANGED <<newest, length, held>>

Fetch ==
    /\ held' \in [Cells -> 0 .. newest]
    /\ \E n \in 0 .. Size :
         /\ n > length => announced
         /\ \A c \in Cells : /\ c <= n /\ c <= length => held'[c] = newest
                             /\ c > n => held'[c] = held[c]
    /\ UNCHANGED <<newest, length, announced>>

Next == Capture \/ Acknowledge \/ Fetch

Spec == Init /\ [][Next]_promised
=============================================================================
