--------------------------- MODULE FirmwareUpdate ----------------------------
(***************************************************************************)
(* What the OTA server promises: the device always has a whole image to    *)
(* boot, it changes only to one a client delivered, and takes effect with  *)
(* a restart.                                                              *)
(***************************************************************************)
CONSTANTS Images, First

VARIABLES
    next,      \* the image the boot loader would start
    running    \* the image that was started last

vars == <<next, running>>

Init == next = First /\ running = First

(* Another image is made the one to boot.                                  *)
Install == next' \in Images /\ UNCHANGED running

Restart == running' = next /\ UNCHANGED next

Spec == Init /\ [][Install \/ Restart]_vars
=============================================================================
