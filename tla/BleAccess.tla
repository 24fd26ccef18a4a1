------------------------------ MODULE BleAccess ------------------------------
(***************************************************************************)
(* What phones and program do to one characteristic of the tracker:        *)
(* BLECharacteristic and the BLEValue behind it.                           *)
(*                                                                         *)
(* Phones read the value, in blocks when it is long, and write it, in      *)
(* parts when it is long; the Bluetooth task handles one request after the *)
(* other.  Meanwhile a task of the program sets the value, notifies or     *)
(* indicates it.  The value, the offset of a long read, the parts of a     *)
(* long write and the semaphore of indications belong to the               *)
(* characteristic, not to a phone, and no lock protects them.              *)
(*                                                                         *)
(* A byte is <<n, k>>, the k-th of the n-th value somebody made; Junk is   *)
(* what lies in memory behind a value.                                     *)
(***************************************************************************)
EXTENDS Integers, Sequences

CONSTANTS
    Phones,
    MaxOffset, \* bytes of an answer: the MTU less one
    Lengths,   \* lengths of the values the program sets
    MaxMade,   \* bound on the number of values and parts made
    MaxLinks,  \* bound on the number of connections
    MaxConfs   \* bound on the confirmations on their way

ASSUME AccessAssumption ==
    /\ MaxOffset \in Nat \ {0} /\ Lengths \subseteq Nat /\ {MaxMade, MaxLinks, MaxConfs} \subseteq Nat

VARIABLES
    \* BLEValue
    value, readOffset, accumulation,
    \* BLEServer and the stack
    peers,     \* connected phones
    connId,    \* BLEServer::m_connId: the phone that connected last
    confs,     \* ESP_GATTS_CONF_EVT to come: phone, and what it is for
    \* BLECharacteristic::notify
    pc, todo, target,
    indication,\* indicate, not notify
    taken,     \* m_semaphoreConfEvt is taken
    \* phones
    reading,   \* what each has read so far
    st,        \* "idle", "reading", or "done"
    \* bounds, and for the properties
    made, links,
    disturbed, \* a write, the program or another phone's read has moved the
               \* value or the shared offset under its read
    unfinished,\* the parts that nothing has ended
    sound,     \* the indication was confirmed, or its phone left
    alone      \* no other phone, and no other confirmation, since it was sent

valueVars == <<value, readOffset, accumulation, unfinished>>
linkVars  == <<peers, connId, confs, links>>
appVars   == <<pc, todo, target, indication, taken, sound, alone>>
readVars  == <<reading, st, disturbed>>
vars == <<valueVars, linkVars, appVars, readVars, made>>

NoPhone == "none"
Junk    == <<0, 0>>
Byte    == ((1 .. MaxMade) \X Nat) \cup {Junk}
Longest == 3 * MaxOffset

(* The characteristic and the reads of it, and the rest.                   *)
ValueTypeOK ==
    /\ value \in Seq(Byte) /\ accumulation \in Seq(Byte)
    /\ readOffset \in {MaxOffset * k : k \in 0 .. 3}
    /\ reading \in [Phones -> Seq(Byte)]
    /\ st \in [Phones -> {"idle", "reading", "done"}]
    /\ disturbed \in [Phones -> BOOLEAN]
    /\ made \in 0 .. MaxMade

TypeOK ==
    /\ ValueTypeOK
    /\ peers \subseteq Phones /\ connId \in Phones \cup {NoPhone}
    /\ confs \in Seq(Phones \X {"notification", "indication"})
    /\ pc \in {"idle", "send", "confirm"} /\ {indication, taken, sound, alone} \subseteq BOOLEAN
    /\ todo \subseteq Phones /\ target \in Phones \cup {NoPhone}
    /\ links \in 0 .. MaxLinks

Init ==
    /\ value = << >> /\ readOffset = 0 /\ accumulation = << >> /\ unfinished = << >>
    /\ peers = {} /\ connId = NoPhone /\ confs = << >> /\ links = 0
    /\ pc = "idle" /\ todo = {} /\ target = NoPhone /\ indication = FALSE
    /\ taken = FALSE /\ sound = TRUE /\ alone = FALSE
    /\ reading = [p \in Phones |-> << >>]
    /\ st = [p \in Phones |-> "idle"] /\ disturbed = [p \in Phones |-> FALSE]
    /\ made = 0

(* A new value of n bytes.                                                 *)
Make(n) == made < MaxMade /\ made' = made + 1
New(n)  == [k \in 1 .. n |-> <<made + 1, k>>]

(* Somebody changes the value or the offset under the reads of the others. *)
Disturb(others) == disturbed' = [p \in Phones |-> disturbed[p] \/ (p \in others /\ st[p] # "idle")]

-----------------------------------------------------------------------------
(* ESP_GATTS_READ_EVT                                                      *)

(* The bytes of an answer; a length that does not reach that far is an     *)
(* unsigned difference, and memory behind the value is sent.               *)
At(k)        == IF k <= Len(value) THEN value[k] ELSE Junk
Answer(from, n) == [k \in 1 .. n |-> At(from + k)]

(* Faulty variant: a value that just fills the answer is taken to fit.     *)
FullFits(n) == n > MaxOffset
TooBig(n)   == n + 1 > MaxOffset

LastInChain == Len(value) - readOffset \in 0 .. MaxOffset - 1

ReadFirst(p) ==
    /\ p \in peers /\ st[p] = "idle"
    /\ LET n == IF TooBig(Len(value)) THEN MaxOffset ELSE Len(value)
       IN /\ reading' = [reading EXCEPT ![p] = Answer(0, n)]
          /\ st' = [st EXCEPT ![p] = IF n < MaxOffset THEN "done" ELSE "reading"]
    /\ readOffset' = IF TooBig(Len(value)) THEN MaxOffset ELSE readOffset
    /\ Disturb(IF TooBig(Len(value)) THEN Phones \ {p} ELSE {})
    /\ UNCHANGED <<value, accumulation, unfinished, linkVars, appVars, made>>

(* The offset of the request is not looked at.                             *)
ReadOffsetAfter == IF LastInChain THEN 0 ELSE readOffset + MaxOffset
ReadLong(p) ==
    /\ p \in peers /\ st[p] = "reading" /\ Len(reading[p]) < Longest /\ readOffset < Longest
    /\ LET n == IF LastInChain THEN Len(value) - readOffset ELSE MaxOffset
       IN /\ reading' = [reading EXCEPT ![p] = @ \o Answer(readOffset, n)]
          /\ st' = [st EXCEPT ![p] = IF n < MaxOffset THEN "done" ELSE "reading"]
    /\ readOffset' = ReadOffsetAfter
    /\ Disturb(Phones \ {p})
    /\ UNCHANGED <<value, accumulation, unfinished, linkVars, appVars, made>>

(* The phone is done with what it read, or has read as much as a value can *)
(* have.                                                                   *)
ForgetRead(p) ==
    /\ st' = [st EXCEPT ![p] = "idle"] /\ reading' = [reading EXCEPT ![p] = << >>]
    /\ disturbed' = [disturbed EXCEPT ![p] = FALSE]
StopReading(p) ==
    /\ st[p] = "done" \/ (st[p] = "reading" /\ (Len(reading[p]) >= Longest \/ readOffset >= Longest))
    /\ ForgetRead(p)
    /\ UNCHANGED <<valueVars, linkVars, appVars, made>>

-----------------------------------------------------------------------------
(* ESP_GATTS_WRITE_EVT and ESP_GATTS_EXEC_WRITE_EVT                        *)

Write(p) ==
    /\ p \in peers /\ Make(1) /\ value' = New(1)
    /\ Disturb(Phones)
    /\ UNCHANGED <<readOffset, accumulation, unfinished, linkVars, appVars, reading, st>>

AddPart(p) ==
    /\ p \in peers /\ Make(1)
    /\ accumulation' = accumulation \o New(1)
    /\ unfinished' = unfinished \o New(1)
    /\ UNCHANGED <<value, readOffset, linkVars, appVars, readVars>>

(* BLEValue::commit and cancel.  Faulty variant: the parts are kept.       *)
Kept(parts)  == parts
Ended(parts) == << >>

ExecuteWrite(p) ==
    /\ p \in peers
    /\ IF accumulation = << >> THEN UNCHANGED <<value, readOffset, accumulation, disturbed>>
       ELSE /\ value' = accumulation /\ accumulation' = Ended(accumulation) /\ readOffset' = 0
            /\ Disturb(Phones)
    /\ unfinished' = << >>
    /\ UNCHANGED <<linkVars, appVars, reading, st, made>>

CancelWrite(p) ==
    /\ p \in peers
    /\ accumulation' = Ended(accumulation) /\ readOffset' = 0 /\ unfinished' = << >>
    /\ Disturb(Phones)
    /\ UNCHANGED <<value, linkVars, appVars, reading, st, made>>

-----------------------------------------------------------------------------
(* Connections                                                             *)

Connect(p) ==
    /\ p \notin peers /\ links < MaxLinks /\ links' = links + 1
    /\ peers' = peers \cup {p} /\ connId' = p
    /\ alone' = FALSE
    /\ UNCHANGED <<valueVars, confs, pc, todo, target, indication, taken, sound, readVars, made>>

(* Whoever leaves ends the wait for a confirmation; parts and offset stay. *)
(* Faulty variant: nobody is woken.                                        *)
KeepTaken   == taken
GiveConfEvt == FALSE

Disconnect(p) ==
    /\ p \in peers /\ peers' = peers \ {p}
    /\ confs' = SelectSeq(confs, LAMBDA c : c[1] # p)
    /\ ForgetRead(p)
    /\ taken' = GiveConfEvt
    /\ sound' = (sound \/ p = target)
    /\ UNCHANGED <<valueVars, connId, links, pc, todo, target, indication, alone, made>>

(* ESP_GATTS_CONF_EVT comes for notifications, too, and counts only from   *)
(* the phone that connected last.                                          *)
IsForUs(p) == p = connId
HandleConf ==
    /\ confs # << >> /\ confs' = Tail(confs)
    /\ LET c == Head(confs)
       IN /\ taken' = (taken /\ ~IsForUs(c[1]))
          /\ sound' = (sound \/ c = <<target, "indication">>)
    /\ UNCHANGED <<valueVars, peers, connId, links, pc, todo, target, indication, alone, readVars, made>>

-----------------------------------------------------------------------------
(* The program: setValue, notify and indicate                              *)

SetValue ==
    /\ pc = "idle"
    /\ \E n \in Lengths : Make(n) /\ value' = New(n)
    /\ Disturb(Phones)
    /\ UNCHANGED <<readOffset, accumulation, unfinished, linkVars, appVars, reading, st>>

(* The phones are those connected now; 0x2902 is written by all of them.   *)
Notify ==
    /\ pc = "idle" /\ peers # {} /\ pc' = "send" /\ todo' = peers /\ indication' \in BOOLEAN
    /\ UNCHANGED <<valueVars, linkVars, target, taken, sound, alone, readVars, made>>

(* Faulty variant: the semaphore is not taken first.                       *)
NotTaken == taken
Taken    == indication \/ taken

Forgotten == target' = NoPhone /\ sound' = TRUE /\ alone' = FALSE
Return    == pc' = "idle" /\ todo' = {} /\ indication' = FALSE /\ Forgotten

(* The stack refuses to send to a phone that has gone, and notify returns. *)
Send ==
    /\ pc = "send" /\ Len(confs) < MaxConfs
    /\ \E p \in todo :
         IF p \notin peers THEN Return /\ taken' = FALSE /\ UNCHANGED confs
         ELSE /\ todo' = todo \ {p}
              /\ confs' = Append(confs, <<p, IF indication THEN "indication" ELSE "notification">>)
              /\ taken' = Taken
              /\ IF indication
                   THEN pc' = "confirm" /\ target' = p /\ sound' = FALSE /\ alone' = (peers = {p} /\ confs = << >>)
                   ELSE UNCHANGED <<pc, target, sound, alone>>
              /\ UNCHANGED indication
    /\ UNCHANGED <<valueVars, peers, connId, links, readVars, made>>

Confirmed ==
    /\ pc = "confirm" /\ ~taken /\ pc' = "send" /\ Forgotten
    /\ UNCHANGED <<valueVars, linkVars, todo, indication, taken, readVars, made>>

NotifyReturns ==
    /\ pc = "send" /\ todo = {} /\ Return
    /\ UNCHANGED <<valueVars, linkVars, taken, readVars, made>>

-----------------------------------------------------------------------------
App == SetValue \/ Notify \/ Send \/ Confirmed \/ NotifyReturns
Request(p) == \/ ReadFirst(p) \/ ReadLong(p) \/ StopReading(p) \/ Write(p) \/ AddPart(p)
              \/ ExecuteWrite(p) \/ CancelWrite(p)
Next == App \/ HandleConf \/ \E p \in Phones : Request(p) \/ Connect(p) \/ Disconnect(p)

Spec == Init /\ [][Next]_vars
FairSpec == Spec /\ WF_vars(Send \/ Confirmed \/ NotifyReturns) /\ WF_vars(HandleConf)

-----------------------------------------------------------------------------
(* Properties                                                              *)

(* A value that nobody changes while a phone reads it block by block, and  *)
(* that no other phone reads meanwhile, arrives as it is, whatever its     *)
(* length: also when it fills the last block.  Reads that cross are        *)
(* excepted even where the value stays the same: the code keeps one offset *)
(* for all phones, and garbles them (BLECharacteristic.cpp:372-391).       *)
ReadsWhole ==
    \A p \in Phones : (st[p] = "done" /\ ~disturbed[p]) => reading[p] = value
(* An execute request makes the value of the parts sent since the last     *)
(* one, in their order: nothing of a write that was executed or cancelled  *)
(* comes back (BLEValue.cpp:54-74).                                        *)
CommitsUnfinished ==
    [][\A p \in Phones : ExecuteWrite(p) /\ unfinished # << >> => value' = unfinished]_vars

(* With one phone from before the send on, and no confirmation of a        *)
(* notification on its way, an indication is over only when the phone has  *)
(* confirmed it or has left (BLECharacteristic.cpp:464: "will block        *)
(* waiting a positive confirmation from the client").                      *)
WaitsForConfirmation ==
    [][Confirmed /\ alone => sound]_vars

(* An indication ends, but for one to a phone that did not connect last,   *)
(* whose confirmation is ignored (BLECharacteristic.cpp:439).              *)
IndicationEnds == (pc = "confirm") ~> (pc # "confirm" \/ target # connId)
=============================================================================
