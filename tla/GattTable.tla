----------------------------- MODULE GattTable ------------------------------
(***************************************************************************)
(* init_ble (main.cpp): how app_main builds the GATT table of the receiver *)
(* with components/ESP32_BLE_Arduino/src.  Every call of the Bluetooth     *)
(* stack is asynchronous.  The library makes it synchronous: the caller    *)
(* takes a semaphore, calls, and waits until the semaphore can be taken    *)
(* once more; the Bluetooth task gives it when the event comes back.       *)
(*                                                                         *)
(* The characteristics hang in a std::map that is ordered by pointer, so   *)
(* the order in which they are registered is that of the heap.  An event   *)
(* of a new characteristic or descriptor does not say which object it is   *)
(* for: it is taken to belong to m_lastCreatedCharacteristic.              *)
(***************************************************************************)
EXTENDS Naturals, Sequences, FiniteSets

CONSTANTS
    Chars,      \* number of characteristics, each with one 0x2902
    Limits,     \* values of numHandles in createService
    MaxErrors   \* bound on calls that the stack rejects at once

(* NULL_HANDLE; a handle is a uint16_t.                                    *)
NoHandle == 65535

ASSUME GattAssumption ==
    /\ Chars \in Nat \ {0} /\ MaxErrors \in Nat
    /\ Limits \subseteq 1 .. NoHandle

VARIABLES
    numHandles,   \* m_numHandles
    order,        \* the characteristics in the order of m_uuidMap
    pc, at,       \* where init_ble is, and at which characteristic
    taken,        \* the semaphores that are taken
    lastCreated,  \* m_lastCreatedCharacteristic, 0: nullptr
    serviceHandle, charHandle, descrHandle,
    linked,       \* characteristics whose 0x2902 has its m_pCharacteristic
    requests,     \* requests to the stack
    table,        \* attributes of the service, in the order of their handles
    btPc, job,    \* where the Bluetooth task is, and with which request
    result,       \* attr_handle of the event
    rejected      \* history: the calls that were rejected

appVars   == <<order, numHandles, at, lastCreated, linked>>
stackVars == <<table, btPc, job, result>>
handles   == <<serviceHandle, charHandle, descrHandle>>
vars == <<appVars, pc, taken, handles, requests, stackVars, rejected>>

Characteristics == 1 .. Chars

(* Requests, and the semaphores taken for them: a kind, and the            *)
(* characteristic (0 when there is none).                                  *)
Kinds    == {"register", "server", "service", "char", "descr", "start"}
Requests == Kinds \X (0 .. Chars)

(* The stack reports a failure with handle 0.                              *)
Failed  == 0
Handles == 0 .. NoHandle
Real(h) == h \notin {NoHandle, Failed}

AppSteps == {"register", "register_wait", "service", "service_wait",
             "server_wait", "start", "char", "char_wait", "descr",
             "descr_wait", "start_service", "start_wait", "done"}

TypeOK ==
    /\ numHandles \in Limits
    /\ order \in [Characteristics -> Characteristics]
    /\ pc \in AppSteps /\ at \in Characteristics
    /\ taken \subseteq Requests
    /\ lastCreated \in 0 .. Chars
    /\ serviceHandle \in Handles
    /\ charHandle \in [Characteristics -> Handles]
    /\ descrHandle \in [Characteristics -> Handles]
    /\ linked \subseteq Characteristics
    /\ requests \in Seq(Requests) /\ Len(requests) <= 1
    /\ table \in Seq({"service", "decl", "value", "descr"} \X (0 .. Chars))
    /\ Len(table) <= numHandles
    /\ btPc \in {"idle", "record", "give"} /\ job \in Requests
    /\ result \in Handles
    /\ rejected \subseteq Requests

(* After BLEDevice::init and new BLEServer.                                *)
Init ==
    /\ numHandles \in Limits
    /\ order \in {f \in [Characteristics -> Characteristics] :
                    \A c, d \in Characteristics : f[c] = f[d] => c = d}
    /\ pc = "register" /\ at = 1
    /\ taken = {} /\ lastCreated = 0 /\ linked = {}
    /\ serviceHandle = NoHandle
    /\ charHandle = [c \in Characteristics |-> NoHandle]
    /\ descrHandle = [c \in Characteristics |-> NoHandle]
    /\ requests = << >> /\ table = << >>
    /\ btPc = "idle" /\ job = <<"register", 0>> /\ result = NoHandle
    /\ rejected = {}

-----------------------------------------------------------------------------
(* app_main                                                                *)

(* Semaphore::take before the call; a taken one would block.  Faulty       *)
(* variant: forgotten.                                                     *)
NotTaken(semaphores) == {}
TakenBy(semaphores)  == semaphores

Take(semaphores) ==
    /\ semaphores \cap taken = {}
    /\ taken' = taken \cup TakenBy(semaphores)

(* The call returns ESP_OK, and the request is on its way ...              *)
Accepted(r) ==
    /\ requests' = Append(requests, r)
    /\ UNCHANGED rejected

(* ... or an error code, and there will be no event.                       *)
Rejected(r) ==
    /\ Cardinality(rejected) < MaxErrors
    /\ rejected' = rejected \cup {r}
    /\ UNCHANGED requests

(* BLEServer::registerApp ignores the error code.                          *)
RegisterApp ==
    /\ pc = "register"
    /\ Take({<<"register", 0>>})
    /\ Accepted(<<"register", 0>>) \/ Rejected(<<"register", 0>>)
    /\ pc' = "register_wait"
    /\ UNCHANGED <<appVars, handles, stackVars>>

(* BLEServer::createService and BLEService::executeCreate: two semaphores. *)
(* After an error executeCreate returns, and only the inner wait is left   *)
(* out.                                                                    *)
CreateService ==
    /\ pc = "service"
    /\ Take({<<"server", 0>>, <<"service", 0>>})
    /\ \/ Accepted(<<"service", 0>>) /\ pc' = "service_wait"
       \/ Rejected(<<"service", 0>>) /\ pc' = "server_wait"
    /\ UNCHANGED <<appVars, handles, stackVars>>

(* Semaphore::wait: take it and give it back.                              *)
Wait(here, semaphore, there) ==
    /\ pc = here
    /\ semaphore \notin taken
    /\ pc' = there
    /\ UNCHANGED <<appVars, taken, handles, requests, stackVars, rejected>>

(* BLEService::start: m_characteristicMap.getFirst().                      *)
Start ==
    /\ pc = "start"
    /\ pc' = IF serviceHandle = NoHandle THEN "done" ELSE "char"
    /\ UNCHANGED <<appVars, taken, handles, requests, stackVars, rejected>>

(* getNext(), or on to esp_ble_gatts_start_service.                        *)
NextCharacteristic ==
    IF at < Chars THEN pc' = "char" /\ at' = at + 1
                  ELSE pc' = "start_service" /\ UNCHANGED at

(* BLECharacteristic::executeCreate; after an error its descriptor is left *)
(* out as well.                                                            *)
AddChar ==
    /\ pc = "char"
    /\ lastCreated' = order[at]
    /\ Take({<<"char", order[at]>>})
    /\ \/ Accepted(<<"char", order[at]>>) /\ pc' = "char_wait" /\ UNCHANGED at
       \/ Rejected(<<"char", order[at]>>) /\ NextCharacteristic
    /\ UNCHANGED <<order, numHandles, linked, handles, stackVars>>

(* BLEDescriptor::executeCreate; the stack adds it to the table after the  *)
(* last characteristic.                                                    *)
AddDescr ==
    /\ pc = "descr"
    /\ linked' = linked \cup {order[at]}
    /\ Take({<<"descr", order[at]>>})
    /\ \/ Accepted(<<"descr", 0>>) /\ pc' = "descr_wait" /\ UNCHANGED at
       \/ Rejected(<<"descr", order[at]>>) /\ NextCharacteristic
    /\ UNCHANGED <<order, numHandles, lastCreated, handles, stackVars>>

WaitDescr ==
    /\ pc = "descr_wait"
    /\ <<"descr", order[at]>> \notin taken
    /\ NextCharacteristic
    /\ UNCHANGED <<order, numHandles, lastCreated, linked, taken, handles,
                   requests, stackVars, rejected>>

StartService ==
    /\ pc = "start_service"
    /\ Take({<<"start", 0>>})
    /\ \/ Accepted(<<"start", 0>>) /\ pc' = "start_wait"
       \/ Rejected(<<"start", 0>>) /\ pc' = "done"
    /\ UNCHANGED <<appVars, handles, stackVars>>

-----------------------------------------------------------------------------
(* The Bluetooth task                                                      *)

(* The attributes a request adds to the table.                             *)
Attributes(r) ==
    CASE r[1] = "service" -> <<<<"service", 0>>>>
      [] r[1] = "char"    -> <<<<"decl", r[2]>>, <<"value", r[2]>>>>
      [] r[1] = "descr"   -> <<<<"descr", 0>>>>
      [] OTHER            -> << >>

(* The stack reserved numHandles handles for the service; what does not    *)
(* fit is not added.  (One handle is assumed, so the service itself fits.) *)
Serve ==
    /\ btPc = "idle" /\ requests # << >>
    /\ job' = Head(requests) /\ requests' = Tail(requests)
    /\ LET more == table \o Attributes(job') IN
         IF Len(more) <= numHandles
           THEN table' = more /\ result' = Len(more)
           ELSE UNCHANGED table /\ result' = Failed
    /\ btPc' = "record"
    /\ UNCHANGED <<appVars, pc, taken, handles, rejected>>

(* The handlers note the handle, whatever the status of the event ...      *)
Record ==
    /\ btPc = "record"
    /\ serviceHandle' = IF job[1] = "service" THEN result ELSE serviceHandle
    /\ charHandle' = IF job[1] = "char" /\ lastCreated # 0
                       THEN [charHandle EXCEPT ![lastCreated] = result]
                       ELSE charHandle
    /\ descrHandle' = IF job[1] = "descr" /\ lastCreated \in linked
                        THEN [descrHandle EXCEPT ![lastCreated] = result]
                        ELSE descrHandle
    /\ btPc' = "give"
    /\ UNCHANGED <<appVars, pc, taken, requests, table, job, result, rejected>>

(* ... and give the semaphores.                                            *)
(* Faulty variant: only good news is passed on.                            *)
Answered ==
    CASE job[1] = "service" -> {<<"server", 0>>, <<"service", 0>>}
      [] job[1] = "char"    -> {<<"char", c>> : c \in
                                 {d \in Characteristics : charHandle[d] = result}}
      [] job[1] = "descr"   -> {<<"descr", c>> : c \in {lastCreated} \cap linked}
      [] OTHER              -> {<<job[1], 0>>}

GivenIfGood(semaphores) == IF result = Failed THEN {} ELSE semaphores
Given(semaphores) == semaphores

Give ==
    /\ btPc = "give"
    /\ taken' = taken \ Given(Answered)
    /\ btPc' = "idle"
    /\ UNCHANGED <<appVars, pc, handles, requests, table, job, result, rejected>>

-----------------------------------------------------------------------------
AppStep ==
    \/ RegisterApp \/ Wait("register_wait", <<"register", 0>>, "service")
    \/ CreateService
    \/ Wait("service_wait", <<"service", 0>>, "server_wait")
    \/ Wait("server_wait", <<"server", 0>>, "start")
    \/ Start
    \/ AddChar \/ Wait("char_wait", <<"char", order[at]>>, "descr")
    \/ AddDescr \/ WaitDescr
    \/ StartService \/ Wait("start_wait", <<"start", 0>>, "done")

BluetoothStep == Serve \/ Record \/ Give

Next == AppStep \/ BluetoothStep

Spec == Init /\ [][Next]_vars

(* Both tasks are scheduled; the Bluetooth task never waits.               *)
FairSpec == Spec /\ WF_vars(AppStep) /\ WF_vars(BluetoothStep)

-----------------------------------------------------------------------------
(* Properties                                                              *)

(* The two calls whose error code does not keep app_main from waiting.     *)
Refused == rejected \cap {<<"register", 0>>, <<"service", 0>>} # {}

(* An event is credited to the right object: the handle the library keeps  *)
(* for a characteristic is that of its value in the table, and its 0x2902  *)
(* is the attribute after it.  (The 0x2902 of a characteristic that did    *)
(* not fit may still fit, and then belongs to the one before.)             *)
HandlesMatchTable ==
    \A c \in Characteristics : Real(charHandle[c]) =>
      /\ table[charHandle[c]] = <<"value", c>>
      /\ Real(descrHandle[c]) =>
           descrHandle[c] = charHandle[c] + 1 /\ table[descrHandle[c]][1] = "descr"

Complete ==
    \A c \in Characteristics : Real(charHandle[c]) /\ Real(descrHandle[c])

(* With a numHandles that leaves room for the service, two attributes per  *)
(* characteristic and its descriptor, init_ble creates all of them.        *)
CompleteWithRoom ==
    pc = "done" /\ rejected = {} /\ 1 + 3 * Chars <= numHandles => Complete

(* init_ble comes to an end, even if attributes do not fit or calls are    *)
(* rejected, unless it was the registration or the service: then app_main  *)
(* waits forever and never reaches the LoRa loop.                          *)
InitReturns == <>(pc = "done" \/ Refused)
=============================================================================
