------------------------------ MODULE OtaServer ------------------------------
(***************************************************************************)
(* Updates over the air: components/ota_server/ota_server.c and the WiFi   *)
(* part of main/main.cpp.  Three parties run side by side:                 *)
(*                                                                         *)
(*   - the WiFi station, whose events the event loop task hands to         *)
(*     event_handler;                                                      *)
(*   - ota_server_task, which waits for CONNECTED_BIT, serves one client   *)
(*     and restarts the device whatever came of it;                        *)
(*   - the client, whose request arrives in pieces that TCP chooses, and   *)
(*     which may close the connection or vanish at any moment.             *)
(*                                                                         *)
(* Power may fail at any moment.  The flash keeps the two partitions and   *)
(* the choice between them, everything else starts anew.                   *)
(*                                                                         *)
(* A request is the request line, the Content-Length line, the end of the  *)
(* header, and the chunks 1 .. Chunks of an image.  An image in flash is   *)
(* the sequence of chunks <<image, k>> written since the last erase.       *)
(***************************************************************************)
EXTENDS Naturals, Sequences

CONSTANTS
    Images,    \* images that clients send
    First,     \* the image flashed over the serial line
    Chunks,    \* chunks of an image
    Declared,  \* values of Content-Length, in chunks; 0: unreadable
    MaxFaults  \* bound on power failures, failing calls and lost links

ASSUME OtaAssumption ==
    /\ Chunks \in Nat \ {0} /\ Declared \subseteq Nat /\ MaxFaults \in Nat
    /\ First \notin Images

VARIABLES
    \* flash
    partition,  \* "ota_0", "ota_1" -> chunks
    boot,       \* the partition the boot loader starts
    running,    \* the partition that was started
    \* WiFi
    station,    \* "down", "connecting" or "up"
    wifiEvents, \* queue of the event loop task
    connected,  \* CONNECTED_BIT
    \* client
    client,     \* what the client is doing
    image,      \* the image it sends ...
    received,   \* ... and how many items of its request have been received
    \* ota_server_start
    pc,
    length,     \* content_length
    outcome,    \* esp_ota_set_boot_partition succeeded
    reply,      \* what the last client was told
    faults      \* number of faults so far

flashVars  == <<partition, boot>>
wifiVars   == <<station, wifiEvents, connected>>
clientVars == <<client, image, received>>
otaVars    == <<pc, length, outcome>>
vars == <<flashVars, running, wifiVars, clientVars, otaVars, reply, faults>>

Partitions == {"ota_0", "ota_1"}
AllImages  == Images \cup {First}
Chunk      == AllImages \X (1 .. Chunks)
Whole(v)   == [k \in 1 .. Chunks |-> <<v, k>>]
Header     == 3
Request    == Header + Chunks

OtaSteps == {"wait_bit", "create", "accept", "recv", "end", "set_boot",
             "send", "restart"}

TypeOK ==
    /\ partition \in [Partitions -> Seq(Chunk)]
    /\ \A p \in Partitions : Len(partition[p]) <= Chunks
    /\ boot \in Partitions /\ running \in Partitions
    /\ station \in {"down", "connecting", "up"}
    /\ wifiEvents \in Seq({"start", "got_ip", "disconnected"})
    /\ connected \in BOOLEAN
    /\ client \in {"none", "sending", "closed", "gone"}
    /\ image \in AllImages
    /\ received \in 0 .. Request
    /\ pc \in OtaSteps
    /\ length \in Declared \cup {0}
    /\ outcome \in BOOLEAN
    /\ reply \in {"none", "ok", "failure"}
    /\ faults \in 0 .. MaxFaults

(* initialise_wifi starts the station.                                     *)
InitialiseWifi(link, queue, bit) == link = "down" /\ queue = <<"start">> /\ bit = FALSE

(* app_main creates ota_server_task.                                       *)
Init ==
    /\ partition = [p \in Partitions |->
                      IF p = "ota_0" THEN Whole(First) ELSE << >>]
    /\ boot = "ota_0" /\ running = "ota_0"
    /\ InitialiseWifi(station, wifiEvents, connected)
    /\ client = "none" /\ image = First /\ received = 0
    /\ pc = "wait_bit" /\ length = 0 /\ outcome = FALSE
    /\ reply = "none" /\ faults = 0

(* The boot loader starts the partition chosen last; all but the flash is  *)
(* as it was at first.                                                     *)
Reboot ==
    /\ running' = boot
    /\ InitialiseWifi(station', wifiEvents', connected')
    /\ client' = "none" /\ received' = 0 /\ UNCHANGED image
    /\ pc' = "wait_bit" /\ length' = 0 /\ outcome' = FALSE
    /\ UNCHANGED <<boot, reply>>

Fault == faults < MaxFaults /\ faults' = faults + 1

PowerFails == Fault /\ Reboot /\ UNCHANGED partition

(* ESP_ERROR_CHECK of a call that failed: abort, and the device restarts.  *)
Abort == Reboot /\ UNCHANGED partition

-----------------------------------------------------------------------------
(* The WiFi station and event_handler                                      *)

(* The access point lets the station in, or ...                            *)
Join ==
    /\ station = "connecting"
    /\ station' = "up"
    /\ wifiEvents' = Append(wifiEvents, "got_ip")
    /\ UNCHANGED <<flashVars, running, connected, clientVars, otaVars, reply, faults>>

(* ... rejects it, or the link is lost.                                    *)
LoseLink ==
    /\ station # "down" /\ Fault
    /\ station' = "down"
    /\ wifiEvents' = Append(wifiEvents, "disconnected")
    /\ UNCHANGED <<flashVars, running, connected, clientVars, otaVars, reply>>

(* esp_wifi_connect is called.  Faulty variant: only at the start.         *)
OnlyAtStart(event) == event = "start"
Connects(event)    == event \in {"start", "disconnected"}

(* The bit.                                                                *)
BitAfter(event) == event = "got_ip" \/ (connected /\ event # "disconnected")

EventHandler ==
    /\ wifiEvents # << >>
    /\ wifiEvents' = Tail(wifiEvents)
    /\ station' = IF Connects(Head(wifiEvents)) THEN "connecting" ELSE station
    /\ connected' = BitAfter(Head(wifiEvents))
    /\ UNCHANGED <<flashVars, running, clientVars, otaVars, reply, faults>>

-----------------------------------------------------------------------------
(* ota_server_task                                                         *)

WaitBit ==
    /\ pc = "wait_bit" /\ connected
    /\ pc' = "create"
    /\ UNCHANGED <<flashVars, running, wifiVars, clientVars, length, outcome,
                   reply, faults>>

(* create_tcp_server: socket, bind and listen on any address, whether the  *)
(* link is still up or not.                                                *)
CreateServer ==
    /\ pc = "create"
    /\ pc' = "accept"
    /\ UNCHANGED <<flashVars, running, wifiVars, clientVars, length, outcome,
                   reply, faults>>

CreateFails == pc \in {"create", "accept"} /\ Fault /\ Abort

(* accept: a client has an image to deliver.                               *)
Accept(v) ==
    /\ pc = "accept" /\ station = "up"
    /\ pc' = "recv"
    /\ client' = "sending" /\ image' = v /\ received' = 0 /\ reply' = "none"
    /\ UNCHANGED <<flashVars, running, wifiVars, length, outcome, faults>>

(* The client closes the connection, or just disappears: then nothing ever *)
(* arrives, and recv has no timeout.                                       *)
ClientLeaves ==
    /\ client = "sending"
    /\ client' \in {"closed", "gone"}
    /\ UNCHANGED <<flashVars, running, wifiVars, image, received, otaVars,
                   reply, faults>>

(* esp_ota_get_next_update_partition(NULL).                                *)
NextUpdatePartition(p) == CHOOSE q \in Partitions : q # p

(* The chunks in the items from .. to of the request, which come after its *)
(* header.                                                                 *)
Body(from, to) == [k \in 1 .. (to - from + 1) |-> <<image, from + k - 1 - Header>>]

(* esp_ota_begin.                                                          *)
Erased(old)    == << >>

(* esp_ota_write appends to what was written; the first write must begin   *)
(* with the magic byte of chunk 1.                                         *)
Written(old, new) ==
    IF old = << >> /\ (new # << >> => new[1][2] # 1) THEN old ELSE old \o new

(* while (recv_len > 0 && content_received < content_length)               *)
AfterRecv(declared, upto) ==
    pc' = IF upto - Header < declared THEN "recv" ELSE "end"

(* The first recv is searched for "Content-Length: " and for the end of    *)
(* the header.  When the first is missing sscanf reads through a bad       *)
(* pointer, when the second is, esp_ota_write does: an exception, and the  *)
(* device restarts, in the second case with the partition erased.          *)
RecvSplitHeader ==
    /\ pc = "recv" /\ client = "sending" /\ received = 0
    /\ \/ UNCHANGED partition
       \/ partition' = [partition EXCEPT ![NextUpdatePartition(running)] = Erased(@)]
    /\ Reboot
    /\ UNCHANGED faults

(* esp_ota_begin erases the partition; the rest of the piece is written.   *)
RecvHeader(upto) ==
    /\ pc = "recv" /\ client = "sending"
    /\ received = 0 /\ upto \in Header .. Request
    /\ received' = upto
    /\ length' \in Declared
    /\ partition' = [partition EXCEPT ![NextUpdatePartition(running)] =
                       Written(Erased(@), Body(Header + 1, upto))]
    /\ AfterRecv(length', upto)
    /\ UNCHANGED <<boot, running, wifiVars, client, image, outcome, reply, faults>>

BeginFails == pc = "recv" /\ client = "sending" /\ received = 0 /\ Fault /\ Abort

RecvBody(upto) ==
    /\ pc = "recv" /\ client = "sending"
    /\ received # 0 /\ upto \in received + 1 .. Request
    /\ received' = upto
    /\ partition' = [partition EXCEPT ![NextUpdatePartition(running)] =
                       Written(@, Body(received + 1, upto))]
    /\ AfterRecv(length, upto)
    /\ UNCHANGED <<boot, running, wifiVars, client, image, length, outcome,
                   reply, faults>>

(* An esp_ota_write that fails is not noticed.                             *)
WriteFails(upto) ==
    /\ pc = "recv" /\ client = "sending"
    /\ received # 0 /\ upto \in received + 1 .. Request
    /\ Fault
    /\ received' = upto
    /\ AfterRecv(length, upto)
    /\ UNCHANGED <<flashVars, running, wifiVars, client, image, length, outcome,
                   reply>>

(* recv returns 0 or -1: the loop ends like after the last byte.           *)
RecvEnds ==
    /\ pc = "recv" /\ client = "closed"
    /\ pc' = "end"
    /\ UNCHANGED <<flashVars, running, wifiVars, clientVars, length, outcome,
                   reply, faults>>

(* esp_ota_end looks at the image as a whole.  Without esp_ota_begin there *)
(* is no handle.  Faulty variant: its result is not checked.               *)
Unchecked(chunks) == TRUE
Valid(chunks) == received # 0 /\ \E v \in AllImages : chunks = Whole(v)

OtaEnd ==
    /\ pc = "end"
    /\ \/ /\ Valid(partition[NextUpdatePartition(running)])
          /\ pc' = "set_boot"
          /\ UNCHANGED <<flashVars, running, wifiVars, clientVars, length,
                         outcome, reply>>
       \/ /\ ~Valid(partition[NextUpdatePartition(running)])
          /\ Abort
    /\ UNCHANGED faults

(* esp_ota_set_boot_partition may fail, and the client is told.            *)
SetBoot ==
    /\ pc = "set_boot"
    /\ pc' = "send"
    /\ \/ /\ boot' = NextUpdatePartition(running) /\ outcome' = TRUE
          /\ UNCHANGED faults
       \/ Fault /\ outcome' = FALSE /\ UNCHANGED boot
    /\ UNCHANGED <<partition, running, wifiVars, clientVars, length, reply>>

(* Faulty variant: the result of the switch is ignored.                    *)
AlwaysFine(success) == "ok"
Answer(success) == IF success THEN "ok" ELSE "failure"

Send ==
    /\ pc = "send"
    /\ pc' = "restart"
    /\ reply' = IF client = "sending" THEN Answer(outcome) ELSE reply
    /\ UNCHANGED <<flashVars, running, wifiVars, clientVars, length, outcome, faults>>

Restart == pc = "restart" /\ Abort /\ UNCHANGED faults

-----------------------------------------------------------------------------
Receiving ==
    \/ RecvSplitHeader \/ BeginFails \/ RecvEnds
    \/ \E upto \in 1 .. Request :
         RecvHeader(upto) \/ RecvBody(upto) \/ WriteFails(upto)

OtaTask ==
    \/ WaitBit \/ CreateServer \/ CreateFails
    \/ Receiving
    \/ OtaEnd \/ SetBoot \/ Send \/ Restart

Environment ==
    \/ PowerFails \/ Join \/ LoseLink \/ ClientLeaves
    \/ \E v \in Images : Accept(v)

Next == OtaTask \/ EventHandler \/ Environment

Spec == Init /\ [][Next]_vars

(* The tasks are scheduled, the access point lets the station in sooner or *)
(* later, and somebody tries again after a failed update.                  *)
FairSpec ==
    /\ Spec
    /\ WF_vars(OtaTask) /\ WF_vars(EventHandler)
    /\ WF_vars(Join) /\ WF_vars(\E v \in Images : Accept(v))

-----------------------------------------------------------------------------
(* Properties                                                              *)

(* Whatever is lost, closed, split, badly written or interrupted by a      *)
(* power failure, and whenever: the partition the boot loader would start  *)
(* holds a whole image.                                                    *)
BootsWhole == \E v \in AllImages : partition[boot] = Whole(v)

(* A client that is told "200 OK" is told the truth: its image, all of it, *)
(* is what the device will start, and still is after later restarts.       *)
ToldTruth == reply = "ok" => partition[boot] = Whole(image)

(* The partition the device runs from is never written to.                 *)
RunningUntouched ==
    [][partition'[running] = partition[running]]_vars

(* The update server is one that installs whole images and restarts.       *)
Update == INSTANCE FirmwareUpdate WITH
    Images  <- {Whole(v) : v \in AllImages}, First <- Whole(First),
    next    <- partition[boot], running <- partition[running]
Implements == Update!Spec

(* The task serves a single client and the socket is not told of a lost    *)
(* link; yet updates stay possible, because each session ends with a       *)
(* restart and the station reconnects.  Only a client that falls silent    *)
(* without closing ends this, for good: recv has no timeout.               *)
StaysUpdatable == []<>(client = "sending") \/ <>[](client = "gone")
=============================================================================
