------------------------------ MODULE GpsConfig ------------------------------
(***************************************************************************)
(* gps_config: find out how the GPS receiver talks, byte by byte, and set  *)
(* it up, message by message.  Nothing is acknowledged: a byte may be      *)
(* garbled and a message lost.  The program may be restarted at any step,  *)
(* while the receiver keeps its settings, or lose power with it, when the  *)
(* receiver goes back to what it saved.                                    *)
(*                                                                         *)
(* The receiver repeats a cycle: a position sentence when it is on, a      *)
(* NAV-PVT packet when it is on, and a pause.  Only their headers count.   *)
(***************************************************************************)
EXTENDS Integers, Sequences, Functions

CONSTANTS
    CounterSize, \* values of the cycle counter
    TicksPerUs,
    Window,      \* how long a protocol is listened for, in us
    MaxConfigFaults, MaxRestarts \* bounds

ASSUME ConfigAssumption ==
    /\ {CounterSize, TicksPerUs, Window} \subseteq Nat \ {0} /\ {MaxConfigFaults, MaxRestarts} \subseteq Nat
    /\ (Window + 1) * TicksPerUs < CounterSize

VARIABLES
    step,      \* where gps_config is, or what it returned: "ok" (0),
               \* "broken" (-1 to -3) or "undetected" (-5)
    detection, \* the detection under way, an index of Detections
    rechecking,\* after the change of the port
    marker, cnt, b, \* of the detection
    baud,      \* of the UART
    told,      \* messages of ubx_config115200
    now,       \* the cycle counter
    phase,     \* of the receiver's cycle
    talker,    \* how its sentences begin
    rx,        \* its settings: the speed of its port, the messages obeyed
    saved,     \* what it saved of them
    garbled, lost, \* faults so far
    restarts,
    cut        \* the program was restarted between two messages that belong together

detectVars == <<detection, rechecking, marker, cnt, b>>
rxVars     == <<talker, rx, saved>>
faultVars  == <<garbled, lost>>
configVars == <<step, detectVars, baud, told, now, phase, rxVars, faultVars, restarts, cut>>

Messages == <<"DisableGGA", "DisableGLL", "DisableGSV", "DisableRMC", "DisableVTG", "DisableGSA",
              "EnableNAVPVT", "GNSS", "NAV5", "RATE", "CFG">>

(* The headers; in both sentences one letter comes twice.  Other bytes are *)
(* 0.                                                                      *)
Header == [GN |-> <<1, 2, 3, 3>>, GP |-> <<1, 4, 3, 3>>, UBX |-> <<5, 6>>]
Period == 7

(* The window is two cycles at least: no time-out while a byte of the      *)
(* second is still to come.                                                *)
ASSUME WindowAssumption == (2 * Period - 1 + TicksPerUs \div 2) \div TicksPerUs < Window

(* ubx_detectNMEA is two detections.  Faulty variant: one of them.         *)
D(speed, kind) == [baud |-> speed, kind |-> kind]
OnlyGN     == <<D(9600, "GN"), D(9600, "UBX"), D(115200, "UBX"), D(115200, "GN"), D(115200, "GN"), D(115200, "GN")>>
Detections == <<D(9600, "GN"), D(9600, "GP"), D(9600, "UBX"), D(115200, "UBX"), D(115200, "GN"), D(115200, "GP")>>
Recheck    == 5

SendsGLL(r) == "DisableGLL" \notin r.obeyed
SendsPVT(r) == "EnableNAVPVT" \in r.obeyed
Detectable(r) == SendsGLL(r) \/ SendsPVT(r)

Settings == [baud : {9600, 115200}, obeyed : SUBSET Range(Messages)]
Factory == [baud |-> 9600, obeyed |-> {}]

(* The two ends with an error differ in what they say of the receiver.     *)
ConfigSteps == {"setup", "listen", "port", "configure", "ok", "broken", "undetected"}

ConfigTypeOK ==
    /\ step \in ConfigSteps
    /\ detection \in DOMAIN Detections /\ rechecking \in BOOLEAN
    /\ {marker, now} \subseteq 0 .. CounterSize - 1
    /\ cnt \in 0 .. 4 /\ b \in 0 .. 6 /\ baud \in {9600, 115200} /\ told \in 0 .. Len(Messages)
    /\ phase \in 0 .. Period - 1 /\ talker \in {"GN", "GP"}
    /\ {rx, saved} \subseteq Settings
    /\ garbled \in 0 .. MaxConfigFaults /\ lost \in 0 .. MaxConfigFaults
    /\ restarts \in 0 .. MaxRestarts /\ cut \in BOOLEAN

(* uart_set_baudrate, cnt = 0, cct_setMarker; b is what the stack holds.   *)
Listen(d, counter) ==
    /\ step' = "listen" /\ detection' = d /\ baud' = Detections[d].baud /\ marker' = counter /\ cnt' = 0

(* At a restart the counter is 0, the receiver anywhere in its cycle, and  *)
(* uart_config says 115200.                                                *)
Start ==
    /\ step' = "setup" /\ detection' = 1 /\ baud' = 115200 /\ marker' = 0 /\ cnt' = 0
    /\ now' = 0 /\ phase' \in 0 .. Period - 1
    /\ rechecking' = FALSE /\ b' = 0 /\ told' = 0

ConfigInit ==
    /\ step = "setup" /\ detection = 1 /\ baud = 115200 /\ marker = 0 /\ cnt = 0 /\ b = 0
    /\ now = 0 /\ phase \in 0 .. Period - 1 /\ rechecking = FALSE /\ told = 0
    /\ talker \in {"GN", "GP"} /\ rx = Factory /\ saved = Factory
    /\ garbled = 0 /\ lost = 0 /\ restarts = 0 /\ cut = FALSE

(* uart_param_config, uart_set_pin and uart_driver_install: if one of them *)
(* fails gps_config returns at once, without having listened.              *)
SetUp ==
    /\ step = "setup"
    /\ \/ Listen(1, now)
       \/ step' = "broken" /\ UNCHANGED <<detection, baud, marker, cnt>>
    /\ UNCHANGED <<rechecking, b, told, now, phase, rxVars, faultVars, restarts, cut>>

Tick   == now' = (now + 1) % CounterSize /\ phase' = (phase + 1) % Period

-----------------------------------------------------------------------------
(* ubx_detectNMEA and ubx_detectUBX                                        *)

(* The byte on the line, if any.                                           *)
Transmitted ==
    CASE phase < 4 /\ SendsGLL(rx)          -> <<Header[talker][phase + 1]>>
      [] phase \in {4, 5} /\ SendsPVT(rx)   -> <<Header["UBX"][phase - 3]>>
      [] OTHER                              -> << >>

(* cct_elapsedUs, with one tick less when the counter has wrapped.  Faulty *)
(* variant: a counter that does not wrap.                                  *)
Straight(prev) == (now' - prev + TicksPerUs \div 2) \div TicksPerUs
Elapsed(prev) ==
    IF prev <= now' THEN (now' - prev + TicksPerUs \div 2) \div TicksPerUs
    ELSE (now' + (CounterSize - 1 - prev) + TicksPerUs \div 2) \div TicksPerUs

(* The loop's end.  Faulty variant: half the time.                         *)
HalfTime(prev) == 2 * Elapsed(prev) >= Window
TimeOut(prev)  == Elapsed(prev) >= Window

Wanted == Header[Detections[detection].kind]

(* Found: the port is changed when it is slow, and checked, whatever the   *)
(* check says.  Not found: the next detection, or none is left.  Faulty    *)
(* variant: the port is not changed.                                       *)
PortKept == step' = "configure" /\ UNCHANGED <<detection, baud, marker, cnt>>
Found    == step' = (IF baud = 9600 THEN "port" ELSE "configure") /\ UNCHANGED <<detection, baud, marker, cnt>>
NotFound ==
    IF detection < Len(Detections) THEN Listen(detection + 1, now')
    ELSE /\ step' = IF rechecking THEN "configure" ELSE "undetected"
         /\ UNCHANGED <<detection, baud, marker, cnt>>

(* One byte; when none comes b keeps its value, and is compared.           *)
ReadByte ==
    /\ step = "listen" /\ Tick
    /\ \/ b' = (IF Transmitted = << >> THEN b ELSE IF baud # rx.baud THEN 0 ELSE Transmitted[1])
          /\ UNCHANGED garbled
       \/ Transmitted # << >> /\ garbled < MaxConfigFaults /\ garbled' = garbled + 1 /\ b' = 0
    /\ LET next == IF b' = Wanted[cnt + 1] THEN cnt + 1 ELSE 0
       IN  IF next = Len(Wanted) THEN Found
           ELSE IF TimeOut(marker) THEN NotFound
           ELSE cnt' = next /\ UNCHANGED <<step, detection, baud, marker>>
    /\ UNCHANGED <<rechecking, told, rxVars, lost, restarts, cut>>

-----------------------------------------------------------------------------
(* ubx_config9600 and ubx_config115200                                     *)

Arrives(settings) ==
    \/ rx' = (IF baud = rx.baud THEN settings ELSE rx) /\ UNCHANGED lost
    \/ lost < MaxConfigFaults /\ lost' = lost + 1 /\ UNCHANGED rx

ConfigPort ==
    /\ step = "port" /\ Tick
    /\ Arrives([rx EXCEPT !.baud = 115200])
    /\ Listen(Recheck, now') /\ rechecking' = TRUE
    /\ UNCHANGED <<b, told, talker, saved, garbled, restarts, cut>>

Message(n)   == Messages[n]

ConfigMessage ==
    /\ step = "configure" /\ told < Len(Messages) /\ told' = told + 1 /\ Tick
    /\ Arrives([rx EXCEPT !.obeyed = @ \cup {Message(told')}])
    /\ saved' = IF Message(told') = "CFG" /\ baud = rx.baud /\ lost' = lost THEN rx' ELSE saved
    /\ UNCHANGED <<step, detectVars, baud, talker, garbled, restarts, cut>>

Configured ==
    /\ step = "configure" /\ told = Len(Messages) /\ step' = "ok" /\ cut' = FALSE
    /\ UNCHANGED <<detectVars, baud, told, now, phase, rxVars, faultVars, restarts>>

-----------------------------------------------------------------------------
(* After an error gps_task hangs: only a restart gets it out.              *)
Restart ==
    /\ restarts < MaxRestarts /\ restarts' = restarts + 1 /\ Start
    /\ cut' = (cut \/ (step = "configure" /\ told \in 2 .. 6))
    /\ UNCHANGED <<rxVars, faultVars>>

PowerCycle ==
    /\ restarts < MaxRestarts /\ restarts' = restarts + 1 /\ Start
    /\ rx' = saved /\ cut' = FALSE
    /\ UNCHANGED <<talker, saved, faultVars>>

Config == SetUp \/ ReadByte \/ ConfigPort \/ ConfigMessage \/ Configured
ConfigNext == Config \/ Restart \/ PowerCycle
ConfigSpec == ConfigInit /\ [][ConfigNext]_configVars /\ WF_configVars(Config)

-----------------------------------------------------------------------------
(* Properties                                                              *)

(* When gps_config returns 0 and no message was lost, the receiver sends   *)
(* NAV-PVT at 115200 and has obeyed every message, from whatever state an  *)
(* earlier, interrupted run left it in (gps.c:294-313).                    *)
OkMeansConfigured ==
    step = "ok" /\ lost = 0 => rx.baud = 115200 /\ rx.obeyed = Range(Messages)

(* gps_config reports that it could not detect the protocol (return -5,    *)
(* gps.c:286) only when the receiver sends nothing it looks for: two       *)
(* seconds for each, wherever in its cycle the receiver is, are enough     *)
(* (gps.c:169 "wait at least 2 second").  That the UART could not be set   *)
(* up (returns -1 to -3) says nothing about the receiver.                  *)
UndetectedIsSilent == step = "undetected" /\ garbled = 0 => ~Detectable(rx)

(* Without faults the receiver becomes silent in one way only: a restart   *)
(* between the message that turns the sentence off and the one that turns  *)
(* the packet on, from which no further restart recovers.                  *)
SilentOnlyIfCut == garbled = 0 /\ lost = 0 /\ step = "undetected" => cut

(* gps_config returns, whatever comes over the line and wherever the       *)
(* counter wraps.                                                          *)
ConfigReturns ==
    step \in {"setup", "listen", "port", "configure"} ~> step \in {"ok", "broken", "undetected"}
=============================================================================
