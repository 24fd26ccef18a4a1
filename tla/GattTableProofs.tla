-------------------------- MODULE GattTableProofs ---------------------------
(***************************************************************************)
(* Safety of init_ble for every number of characteristics, every order of  *)
(* the map, every numHandles and every number of rejected calls.           *)
(***************************************************************************)
EXTENDS GattTable, SequenceTheorems, FiniteSetTheorems, TLAPS

-----------------------------------------------------------------------------
(* The inductive invariant                                                 *)

(* No request is on its way, or request r is, and semaphore s is taken     *)
(* until the Bluetooth task is through with it.                            *)
Quiet == requests = << >> /\ btPc = "idle"

Underway(r, s) ==
    /\ s \in taken
    /\ \/ requests = <<r>> /\ btPc = "idle"
       \/ requests = << >> /\ btPc \in {"record", "give"} /\ job = r

(* The semaphores make the calls synchronous: a request that is on its way *)
(* is the one init_ble waits for.                                          *)
Synchronous ==
    \/ Quiet
    \/ pc = "register_wait" /\ Underway(<<"register", 0>>, <<"register", 0>>)
    \/ pc = "service_wait" /\ Underway(<<"service", 0>>, <<"service", 0>>)
    \/ pc = "char_wait" /\ Underway(<<"char", order[at]>>, <<"char", order[at]>>)
    \/ pc = "descr_wait" /\ Underway(<<"descr", 0>>, <<"descr", order[at]>>)
    \/ pc = "start_wait" /\ Underway(<<"start", 0>>, <<"start", 0>>)

(* What the Bluetooth task credits an event to is what init_ble works on,  *)
(* and no descriptor has a handle before its turn.                         *)
Working == {"char_wait", "descr", "descr_wait"}

Credited ==
    /\ pc \in Working => lastCreated = order[at]
    /\ pc = "descr_wait" => order[at] \in linked
    /\ \A k \in Characteristics :
         k > at \/ (k = at /\ pc \in {"char_wait", "descr"}) =>
           descrHandle[order[k]] = NoHandle
    /\ pc \in {"register", "register_wait", "service", "service_wait", "server_wait",
               "start", "char"} => descrHandle[order[at]] = NoHandle

(* The handles are places in the table.                                    *)
Placed(c) ==
    Real(charHandle[c]) =>
      /\ charHandle[c] \in 1 .. Len(table)
      /\ table[charHandle[c]] = <<"value", c>>
      /\ Real(descrHandle[c]) =>
           /\ descrHandle[c] = charHandle[c] + 1
           /\ descrHandle[c] \in 1 .. Len(table)
           /\ table[descrHandle[c]][1] = "descr"

(* The last attribute, while the handlers still have to note it, and the   *)
(* value a descriptor is about to follow.                                  *)
Last ==
    /\ pc = "char_wait" /\ btPc = "record" /\ Real(result) =>
         result = Len(table) /\ table[result] = <<"value", order[at]>>
    /\ \/ pc = "char_wait" /\ requests = << >> /\ btPc # "record"
       \/ pc = "descr"
       \/ pc = "descr_wait" /\ requests # << >>
       => (Real(charHandle[order[at]]) => charHandle[order[at]] = Len(table))
    /\ pc = "descr_wait" /\ btPc = "record" /\ Real(result) =>
         /\ result = Len(table) /\ table[result][1] = "descr"
         /\ Real(charHandle[order[at]]) => charHandle[order[at]] + 1 = Len(table)

Located == (\A c \in Characteristics : Placed(c)) /\ Last

InStep == Synchronous /\ Credited /\ Located

(* With room, and no call rejected: the attributes come one after the      *)
(* other, and each request is answered with the last one.                  *)
Room == rejected = {} /\ 1 + 3 * Chars <= numHandles

Done(k) == Real(charHandle[order[k]]) /\ Real(descrHandle[order[k]])

ServiceFilled ==
    /\ pc \in {"register", "register_wait", "service"} => Len(table) = 0
    /\ pc = "service_wait" =>
         \/ requests # << >> /\ Len(table) = 0
         \/ btPc = "record" /\ Len(table) = 1 /\ result = 1
         \/ requests = << >> /\ btPc # "record" /\ Len(table) = 1 /\ serviceHandle = 1
    /\ pc \in {"server_wait", "start"} => Len(table) = 1 /\ serviceHandle = 1
    /\ pc \in {"register", "register_wait", "service", "service_wait", "server_wait",
               "start"} => at = 1

CharFilled ==
    /\ pc = "char" => Len(table) = 3 * at - 2
    /\ pc = "char_wait" =>
         \/ requests # << >> /\ Len(table) = 3 * at - 2
         \/ btPc = "record" /\ Len(table) = 3 * at /\ result = 3 * at
         \/ requests = << >> /\ btPc # "record" /\ Len(table) = 3 * at
            /\ Real(charHandle[order[at]])
    /\ pc \in {"descr", "descr_wait"} => Real(charHandle[order[at]])
    /\ pc = "descr" => Len(table) = 3 * at
    /\ pc = "descr_wait" =>
         \/ requests # << >> /\ Len(table) = 3 * at
         \/ btPc = "record" /\ Len(table) = 3 * at + 1 /\ result = 3 * at + 1
         \/ requests = << >> /\ btPc # "record" /\ Len(table) = 3 * at + 1
            /\ Real(descrHandle[order[at]])
    /\ pc \in {"start_service", "start_wait", "done"} => at = Chars /\ Done(at)
    /\ \A k \in Characteristics : k < at => Done(k)

Filled == Room => ServiceFilled /\ CharFilled

Injective == \A c, d \in Characteristics : order[c] = order[d] => c = d

IInv == TypeOK /\ Injective /\ InStep /\ Filled
-----------------------------------------------------------------------------
(* Type correctness                                                        *)

LEMMA Bounds ==
  /\ Chars \in Nat \ {0} /\ \A n \in Limits : n \in 1 .. NoHandle
  /\ NoHandle \in Nat \ {0}
<1>1. NoHandle \in Nat \ {0}
  BY SMT DEF NoHandle
<1> QED BY <1>1, GattAssumption DEF GattAssumption

(* The map has every characteristic once.                                  *)
LEMMA InitTypeOK == Init => TypeOK /\ Injective
<1> SUFFICES ASSUME Init PROVE TypeOK /\ Injective
  OBVIOUS
<1> USE Bounds
<1>1. Injective
  BY DEF Init, Injective
<1>2. requests \in Seq(Requests) /\ Len(requests) <= 1
  BY DEF Init
<1>3. table \in Seq({"service", "decl", "value", "descr"} \X (0 .. Chars))
      /\ Len(table) <= numHandles
  BY DEF Init
<1>4. job \in Requests /\ at \in Characteristics
  BY DEF Init, Requests, Kinds, Characteristics
<1>5. /\ serviceHandle \in Handles /\ result \in Handles
      /\ charHandle \in [Characteristics -> Handles]
      /\ descrHandle \in [Characteristics -> Handles]
  BY DEF Init, Handles
<1> QED BY <1>1, <1>2, <1>3, <1>4, <1>5 DEF Init, TypeOK, AppSteps

(* A request is appended to none.                                          *)
LEMMA AcceptedType ==
  ASSUME NEW r \in Requests, requests = << >>, Accepted(r)
  PROVE  requests' = <<r>> /\ requests' \in Seq(Requests) /\ Len(requests') <= 1
  BY DEF Accepted

(* What the Bluetooth task adds comes after what was there.                *)
Attribute == {"service", "decl", "value", "descr"} \X (0 .. Chars)

LEMMA Served ==
  ASSUME TypeOK, NEW r, requests = <<r>>, Serve
  PROVE  /\ job' = r /\ requests' = << >> /\ r \in Requests
         /\ table' \in Seq(Attribute) /\ Len(table') <= numHandles
         /\ \A j \in 1 .. Len(table) : table'[j] = table[j]
         /\ \/ table' = table /\ result' = Failed
               /\ Len(table) + Len(Attributes(r)) > numHandles
            \/ /\ table' = table \o Attributes(r) /\ result' = Len(table')
               /\ Len(table') = Len(table) + Len(Attributes(r))
<1>1. job' = r /\ requests' = << >> /\ r \in Requests
  BY DEF Serve, TypeOK
<1>2. r \in Kinds \X (0 .. Chars)
  BY <1>1 DEF Requests
<1>3. Attributes(r) \in Seq(Attribute) /\ Len(Attributes(r)) \in Nat
  <2>1. r[1] \in Kinds /\ r[2] \in 0 .. Chars /\ 0 \in 0 .. Chars
    BY <1>2, Bounds
  <2>2. CASE r[1] = "service"
    BY <2>1, <2>2 DEF Attributes, Attribute
  <2>3. CASE r[1] = "char"
    <3>1. <<"decl", r[2]>> \in Attribute /\ <<"value", r[2]>> \in Attribute
      BY <2>1 DEF Attribute
    <3>2. Attributes(r) = <<<<"decl", r[2]>>, <<"value", r[2]>>>>
      BY <2>3 DEF Attributes
    <3> QED BY <3>1, <3>2
  <2>4. CASE r[1] = "descr"
    BY <2>1, <2>4 DEF Attributes, Attribute
  <2>5. CASE r[1] \notin {"service", "char", "descr"}
    BY <2>5 DEF Attributes
  <2> QED BY <2>2, <2>3, <2>4, <2>5
<1>4. table \in Seq(Attribute) /\ Len(table) \in Nat
  BY DEF TypeOK, Attribute
<1>5. /\ table \o Attributes(r) \in Seq(Attribute)
      /\ Len(table \o Attributes(r)) = Len(table) + Len(Attributes(r))
      /\ \A j \in 1 .. Len(table) : (table \o Attributes(r))[j] = table[j]
  BY <1>3, <1>4
<1>6. numHandles \in Nat /\ Len(table) <= numHandles
  BY Bounds DEF TypeOK
<1>7. CASE Len(table \o Attributes(r)) <= numHandles
  <2>1. table' = table \o Attributes(r) /\ result' = Len(table')
    BY <1>1, <1>7 DEF Serve
  <2> QED BY <1>1, <1>5, <1>7, <2>1
<1>8. CASE ~(Len(table \o Attributes(r)) <= numHandles)
  <2>1. table' = table /\ result' = Failed
    BY <1>1, <1>8 DEF Serve
  <2> QED BY <1>1, <1>3, <1>4, <1>5, <1>6, <1>8, <2>1
<1> QED BY <1>7, <1>8

(* The waits of init_ble.                                                  *)
Waits ==
    \/ Wait("register_wait", <<"register", 0>>, "service")
    \/ Wait("service_wait", <<"service", 0>>, "server_wait")
    \/ Wait("server_wait", <<"server", 0>>, "start")
    \/ Wait("char_wait", <<"char", order[at]>>, "descr")
    \/ Wait("start_wait", <<"start", 0>>, "done")

(* The steps of init_ble that do not call the stack, and those that do.    *)
LEMMA Steps ==
  ASSUME [Next]_vars
  PROVE  \/ RegisterApp \/ CreateService \/ AddChar \/ AddDescr \/ StartService
         \/ Waits \/ Start \/ WaitDescr
         \/ Serve \/ Record \/ Give
         \/ UNCHANGED vars
  BY DEF Next, AppStep, BluetoothStep, Waits

LEMMA NextCharacteristicType ==
  ASSUME TypeOK, NextCharacteristic
  PROVE  at' \in Characteristics /\ pc' \in {"char", "start_service"}
  BY Bounds DEF TypeOK, NextCharacteristic, Characteristics

LEMMA NextTypeOK == TypeOK /\ Injective /\ Synchronous /\ [Next]_vars => TypeOK' /\ Injective'
<1> SUFFICES ASSUME TypeOK, Injective, Synchronous, [Next]_vars
             PROVE  TypeOK' /\ Injective'
  OBVIOUS
<1>1. order' = order /\ numHandles' = numHandles
  BY Steps DEF RegisterApp, CreateService, AddChar, AddDescr, StartService, Waits, Wait,
               Start, WaitDescr, Serve, Record, Give, vars, appVars
<1>2. Injective'
  BY <1>1 DEF Injective
<1>3. order[at] \in Characteristics /\ order[at] \in 0 .. Chars /\ 0 \in 0 .. Chars
  BY Bounds DEF TypeOK, Characteristics
<1>4. CASE RegisterApp
  <2>1. requests = << >>
    BY <1>4 DEF RegisterApp, Synchronous, Quiet
  <2>2. <<"register", 0>> \in Requests
    BY <1>3 DEF Requests, Kinds
  <2>3. requests' \in Seq(Requests) /\ Len(requests') <= 1
    BY <1>4, <2>1, <2>2, AcceptedType DEF RegisterApp, Rejected, TypeOK
  <2>4. taken' \subseteq Requests /\ rejected' \subseteq Requests
    BY <1>4, <2>2 DEF RegisterApp, Take, TakenBy, Accepted, Rejected, TypeOK
  <2> QED BY <1>2, <1>4, <2>3, <2>4 DEF RegisterApp, TypeOK, AppSteps, appVars, handles, stackVars
<1>5. CASE CreateService
  <2>1. requests = << >>
    BY <1>5 DEF CreateService, Synchronous, Quiet
  <2>2. <<"server", 0>> \in Requests /\ <<"service", 0>> \in Requests
    BY <1>3 DEF Requests, Kinds
  <2>3. requests' \in Seq(Requests) /\ Len(requests') <= 1
    BY <1>5, <2>1, <2>2, AcceptedType DEF CreateService, Rejected, TypeOK
  <2>4. taken' \subseteq Requests /\ rejected' \subseteq Requests
    BY <1>5, <2>2 DEF CreateService, Take, TakenBy, Accepted, Rejected, TypeOK
  <2> QED BY <1>2, <1>5, <2>3, <2>4 DEF CreateService, TypeOK, AppSteps, appVars, handles, stackVars
<1>6. CASE AddChar
  <2>1. requests = << >>
    BY <1>6 DEF AddChar, Synchronous, Quiet
  <2>2. <<"char", order[at]>> \in Requests
    BY <1>3 DEF Requests, Kinds
  <2>3. requests' \in Seq(Requests) /\ Len(requests') <= 1
    BY <1>6, <2>1, <2>2, AcceptedType DEF AddChar, Rejected, TypeOK
  <2>4. taken' \subseteq Requests /\ rejected' \subseteq Requests
    BY <1>6, <2>2 DEF AddChar, Take, TakenBy, Accepted, Rejected, TypeOK
  <2>5. at' \in Characteristics /\ pc' \in AppSteps
    BY <1>6, NextCharacteristicType DEF AddChar, TypeOK, AppSteps
  <2> QED BY <1>2, <1>3, <1>6, <2>3, <2>4, <2>5 DEF AddChar, TypeOK, handles, stackVars
<1>7. CASE AddDescr
  <2>1. requests = << >>
    BY <1>7 DEF AddDescr, Synchronous, Quiet
  <2>2. <<"descr", order[at]>> \in Requests /\ <<"descr", 0>> \in Requests
    BY <1>3 DEF Requests, Kinds
  <2>3. requests' \in Seq(Requests) /\ Len(requests') <= 1
    BY <1>7, <2>1, <2>2, AcceptedType DEF AddDescr, Rejected, TypeOK
  <2>4. taken' \subseteq Requests /\ rejected' \subseteq Requests
    BY <1>7, <2>2 DEF AddDescr, Take, TakenBy, Accepted, Rejected, TypeOK
  <2>5. at' \in Characteristics /\ pc' \in AppSteps
    BY <1>7, NextCharacteristicType DEF AddDescr, TypeOK, AppSteps
  <2> QED BY <1>2, <1>3, <1>7, <2>3, <2>4, <2>5 DEF AddDescr, TypeOK, handles, stackVars
<1>8. CASE StartService
  <2>1. requests = << >>
    BY <1>8 DEF StartService, Synchronous, Quiet
  <2>2. <<"start", 0>> \in Requests
    BY <1>3 DEF Requests, Kinds
  <2>3. requests' \in Seq(Requests) /\ Len(requests') <= 1
    BY <1>8, <2>1, <2>2, AcceptedType DEF StartService, Rejected, TypeOK
  <2>4. taken' \subseteq Requests /\ rejected' \subseteq Requests
    BY <1>8, <2>2 DEF StartService, Take, TakenBy, Accepted, Rejected, TypeOK
  <2> QED BY <1>2, <1>8, <2>3, <2>4 DEF StartService, TypeOK, AppSteps, appVars, handles, stackVars
<1>9. CASE Waits \/ Start
  BY <1>2, <1>9 DEF Waits, Wait, Start, TypeOK, AppSteps, appVars, handles, stackVars
<1>10. CASE WaitDescr
  <2>1. at' \in Characteristics /\ pc' \in AppSteps
    BY <1>10, NextCharacteristicType DEF WaitDescr, AppSteps
  <2> QED BY <1>2, <1>10, <2>1 DEF WaitDescr, TypeOK, handles, stackVars
<1>11. CASE Serve
  <2>1. PICK r : requests = <<r>>
    BY <1>11 DEF Serve, TypeOK, Synchronous, Quiet, Underway
  <2>2. /\ job' \in Requests /\ requests' = << >>
        /\ table' \in Seq(Attribute) /\ Len(table') <= numHandles
        /\ result' \in {Failed, Len(table')}
    BY <1>11, <2>1, Served
  <2>3. requests' \in Seq(Requests) /\ Len(requests') <= 1
    BY <2>2
  <2>4. result' \in Handles
    <3>1. Len(table') \in Nat /\ numHandles \in 1 .. NoHandle
      BY <2>2, Bounds DEF TypeOK
    <3> QED BY <2>2, <3>1, Bounds DEF Handles, Failed
  <2> QED BY <1>2, <1>11, <2>2, <2>3, <2>4 DEF Serve, TypeOK, appVars, handles, Attribute
<1>12. CASE Record
  BY <1>2, <1>12 DEF Record, TypeOK, appVars
<1>13. CASE Give
  BY <1>2, <1>13 DEF Give, TypeOK, appVars, handles
<1>14. CASE UNCHANGED vars
  BY <1>2, <1>14 DEF vars, TypeOK, appVars, handles, stackVars
<1> QED BY <1>4, <1>5, <1>6, <1>7, <1>8, <1>9, <1>10, <1>11, <1>12, <1>13, <1>14, Steps

-----------------------------------------------------------------------------
(* The calls are synchronous                                               *)

(* What is on its way is what init_ble waits for, and each wait ends with  *)
(* nothing on its way.                                                     *)
LEMMA NextSynchronous == TypeOK /\ Synchronous /\ [Next]_vars => Synchronous'
<1> SUFFICES ASSUME TypeOK, Synchronous, [Next]_vars PROVE Synchronous'
  OBVIOUS
<1>1. CASE RegisterApp
  <2>1. Quiet
    BY <1>1 DEF RegisterApp, Synchronous
  <2> QED BY <1>1, <2>1 DEF RegisterApp, Quiet, Accepted, Rejected, Take, TakenBy,
                            Underway, Synchronous, stackVars
<1>2. CASE CreateService
  <2>1. Quiet
    BY <1>2 DEF CreateService, Synchronous
  <2> QED BY <1>2, <2>1 DEF CreateService, Quiet, Accepted, Rejected, Take, TakenBy,
                            Underway, Synchronous, stackVars
<1>3. CASE AddChar
  <2>1. Quiet
    BY <1>3 DEF AddChar, Synchronous
  <2> QED BY <1>3, <2>1 DEF AddChar, Quiet, Accepted, Rejected, Take, TakenBy,
                            Underway, Synchronous, stackVars
<1>4. CASE AddDescr
  <2>1. Quiet
    BY <1>4 DEF AddDescr, Synchronous
  <2> QED BY <1>4, <2>1 DEF AddDescr, Quiet, Accepted, Rejected, Take, TakenBy,
                            Underway, Synchronous, stackVars
<1>5. CASE StartService
  <2>1. Quiet
    BY <1>5 DEF StartService, Synchronous
  <2> QED BY <1>5, <2>1 DEF StartService, Quiet, Accepted, Rejected, Take, TakenBy,
                            Underway, Synchronous, stackVars
<1>6. CASE Waits \/ WaitDescr
  <2>1. Quiet
    BY <1>6 DEF Waits, Wait, WaitDescr, Synchronous, Underway
  <2> QED BY <1>6, <2>1 DEF Waits, Wait, WaitDescr, Quiet, Synchronous, stackVars
<1>7. CASE Start
  BY <1>7 DEF Start, Synchronous, Quiet, stackVars
<1>8. CASE Serve
  <2>1. PICK r : requests = <<r>>
    BY <1>8 DEF Serve, TypeOK, Synchronous, Quiet, Underway
  <2>2. job' = r /\ requests' = << >> /\ btPc' = "record"
        /\ UNCHANGED <<appVars, pc, taken>>
    BY <1>8, <2>1, Served DEF Serve
  <2> QED BY <2>1, <2>2 DEF Synchronous, Quiet, Underway, appVars
<1>9. CASE Record
  BY <1>9 DEF Record, Synchronous, Quiet, Underway, appVars
<1>10. CASE Give
  BY <1>10 DEF Give, Synchronous, Quiet, Underway, appVars
<1>11. CASE UNCHANGED vars
  BY <1>11 DEF vars, Synchronous, Quiet, Underway, appVars, stackVars
<1> QED BY <1>1, <1>2, <1>3, <1>4, <1>5, <1>6, <1>7, <1>8, <1>9, <1>10, <1>11, Steps

-----------------------------------------------------------------------------
(* Events are credited to the right object                                 *)

(* init_ble visits every characteristic once.                              *)
LEMMA NextCredited ==
  TypeOK /\ Injective /\ Synchronous /\ Credited /\ [Next]_vars => Credited'
<1> SUFFICES ASSUME TypeOK, Injective, Synchronous, Credited, [Next]_vars
             PROVE  Credited'
  OBVIOUS
<1>1. at \in Characteristics /\ Characteristics = 1 .. Chars /\ Chars \in Nat
  BY Bounds DEF TypeOK, Characteristics
<1>2. CASE RegisterApp \/ CreateService \/ StartService \/ Waits \/ Start
  BY <1>1, <1>2 DEF RegisterApp, CreateService, StartService, Waits, Wait, Start,
                    Credited, Working, appVars, handles
<1>3. CASE AddChar
  BY <1>1, <1>3 DEF AddChar, NextCharacteristic, Credited, Working, handles
<1>4. CASE AddDescr
  BY <1>1, <1>4 DEF AddDescr, NextCharacteristic, Credited, Working, handles
<1>5. CASE WaitDescr
  BY <1>1, <1>5 DEF WaitDescr, NextCharacteristic, Credited, Working, handles
<1>6. CASE Serve \/ Give \/ UNCHANGED vars
  BY <1>6 DEF Serve, Give, vars, Credited, appVars, handles
<1>7. CASE Record
  <2>1. UNCHANGED <<appVars, pc>>
    BY <1>7 DEF Record
  <2>2. CASE descrHandle' = descrHandle
    BY <2>1, <2>2 DEF Credited, appVars
  <2>3. CASE descrHandle' # descrHandle
    <3>1. pc = "descr_wait" /\ lastCreated = order[at]
      BY <1>7, <2>3 DEF Record, Synchronous, Quiet, Underway, Credited, Working
    <3>2. descrHandle' = [descrHandle EXCEPT ![order[at]] = result]
      BY <1>7, <2>3, <3>1 DEF Record
    <3>3. \A k \in Characteristics : k > at => descrHandle'[order[k]] = NoHandle
      <4> SUFFICES ASSUME NEW k \in Characteristics, k > at
                   PROVE  descrHandle'[order[k]] = NoHandle
        OBVIOUS
      <4>1. order[k] # order[at]
        BY <1>1 DEF Injective
      <4> QED BY <3>2, <4>1 DEF Credited, TypeOK
    <3> QED BY <2>1, <3>1, <3>3 DEF Credited, appVars
  <2> QED BY <2>2, <2>3
<1> QED BY <1>2, <1>3, <1>4, <1>5, <1>6, <1>7, Steps

(* Attributes that are added move no handle.                               *)
LEMMA PlacedKept ==
  ASSUME TypeOK, NEW c \in Characteristics, Placed(c),
         charHandle'[c] = charHandle[c], descrHandle'[c] = descrHandle[c],
         Len(table) \in Nat, Len(table') \in Nat, Len(table') >= Len(table),
         \A j \in 1 .. Len(table) : table'[j] = table[j]
  PROVE  Placed(c)'
  BY DEF Placed

(* The attributes of the three requests that add some.                     *)
LEMMA AddedAttributes ==
  /\ \A c \in 0 .. Chars : Attributes(<<"char", c>>) = <<<<"decl", c>>, <<"value", c>>>>
  /\ Attributes(<<"descr", 0>>) = <<<<"descr", 0>>>>
  /\ Attributes(<<"service", 0>>) = <<<<"service", 0>>>>
  /\ Attributes(<<"register", 0>>) = << >> /\ Attributes(<<"start", 0>>) = << >>
  BY DEF Attributes

(* A request that fits is answered with the place of its last attribute.   *)
LEMMA ServedLast ==
  ASSUME TypeOK, NEW r, requests = <<r>>, Serve, Real(result')
  PROVE  /\ result' = Len(table')
         /\ \A c \in 0 .. Chars : r = <<"char", c>> =>
              Len(table') = Len(table) + 2 /\ table'[Len(table')] = <<"value", c>>
         /\ r = <<"descr", 0>> =>
              Len(table') = Len(table) + 1 /\ table'[Len(table')] = <<"descr", 0>>
<1>1. table \in Seq(Attribute) /\ Len(table) \in Nat
  BY DEF TypeOK, Attribute
<1>2. /\ table' = table \o Attributes(r) /\ result' = Len(table')
      /\ Len(table') = Len(table) + Len(Attributes(r))
  BY Served DEF Real
<1>3. ASSUME NEW c \in 0 .. Chars, r = <<"char", c>>
      PROVE  Len(table') = Len(table) + 2 /\ table'[Len(table')] = <<"value", c>>
  <2>1. Attributes(r) = <<<<"decl", c>>, <<"value", c>>>>
    BY <1>3, AddedAttributes
  <2> QED BY <1>1, <1>2, <2>1
<1>4. ASSUME r = <<"descr", 0>>
      PROVE  Len(table') = Len(table) + 1 /\ table'[Len(table')] = <<"descr", 0>>
  <2>1. Attributes(r) = <<<<"descr", 0>>>>
    BY <1>4, AddedAttributes
  <2> QED BY <1>1, <1>2, <2>1
<1> QED BY <1>2, <1>3, <1>4

LEMMA NextLocated ==
  TypeOK /\ Injective /\ InStep /\ [Next]_vars => Located'
<1> SUFFICES ASSUME TypeOK, Injective, InStep, [Next]_vars
             PROVE  Located'
  OBVIOUS
<1> USE DEF InStep, Located
<1>1. order[at] \in Characteristics /\ at \in Characteristics /\ Characteristics = 1 .. Chars
      /\ Len(table) \in Nat /\ Chars \in Nat
  BY Bounds DEF TypeOK, Characteristics
<1>2. ASSUME UNCHANGED <<charHandle, descrHandle, table>>
      PROVE  \A c \in Characteristics : Placed(c)'
  BY <1>2 DEF Placed
<1>3. CASE RegisterApp \/ CreateService \/ StartService \/ Start
  <2>1. UNCHANGED <<charHandle, descrHandle, table>> /\ pc' \notin Working
    BY <1>3 DEF RegisterApp, CreateService, StartService, Start, Working, handles, stackVars
  <2> QED BY <1>2, <2>1 DEF Located, Last, Working
<1>4. CASE AddChar
  <2>1. UNCHANGED <<charHandle, descrHandle, table>>
    BY <1>4 DEF AddChar, handles, stackVars
  <2>2. requests = << >> /\ btPc = "idle"
    BY <1>4 DEF AddChar, Synchronous, Quiet
  <2>3. \/ pc' = "char_wait" /\ btPc' = "idle" /\ requests' # << >>
        \/ pc' \notin Working
    BY <1>4, <2>2 DEF AddChar, Accepted, NextCharacteristic, Working, stackVars
  <2> QED BY <1>2, <2>1, <2>3 DEF Located, Last, Working
<1>5. CASE AddDescr
  <2>1. UNCHANGED <<charHandle, descrHandle, table, order, btPc>>
    BY <1>5 DEF AddDescr, handles, stackVars
  <2>2. requests = << >> /\ btPc = "idle"
    BY <1>5 DEF AddDescr, Synchronous, Quiet
  <2>3. \/ pc' = "descr_wait" /\ at' = at
        \/ pc' \notin Working
    BY <1>5, <2>2 DEF AddDescr, Accepted, NextCharacteristic, Working
  <2>4. Real(charHandle[order[at]]) => charHandle[order[at]] = Len(table)
    BY <1>5 DEF AddDescr, Last
  <2> QED BY <1>2, <2>1, <2>2, <2>3, <2>4 DEF Located, Last, Working
<1>6. CASE Waits
  <2>1. UNCHANGED <<charHandle, descrHandle, table, order, at, btPc, requests>>
    BY <1>6 DEF Waits, Wait, handles, stackVars, appVars
  <2>2. requests = << >> /\ btPc = "idle"
    BY <1>6 DEF Waits, Wait, Synchronous, Quiet, Underway
  <2>3. (pc = "char_wait" /\ pc' = "descr") \/ pc' \notin Working
    BY <1>6 DEF Waits, Wait, Working
  <2> QED BY <1>2, <2>1, <2>2, <2>3 DEF Located, Last, Working
<1>7. CASE WaitDescr
  <2>1. UNCHANGED <<charHandle, descrHandle, table>> /\ pc' \notin Working
    BY <1>7 DEF WaitDescr, NextCharacteristic, Working, handles, stackVars
  <2> QED BY <1>2, <2>1 DEF Located, Last, Working
<1>8. CASE Serve
  <2>1. PICK r : requests = <<r>>
    BY <1>8 DEF Serve, TypeOK, Synchronous, Quiet, Underway
  <2>2. UNCHANGED <<charHandle, descrHandle, pc, order, at>> /\ btPc' = "record"
        /\ requests' = << >> /\ btPc = "idle"
    BY <1>8, <2>1, Served DEF Serve, handles, appVars
  <2>3. \A j \in 1 .. Len(table) : table'[j] = table[j]
    BY <1>8, <2>1, Served
  <2>4. Len(table') \in Nat /\ Len(table') >= Len(table)
    <3>1. r \in Requests
      BY <1>8, <2>1, Served
    <3>2. Len(Attributes(r)) \in Nat
      BY <3>1, Bounds DEF Requests, Kinds, Attributes
    <3> QED BY <1>1, <1>8, <2>1, <3>2, Served
  <2>5. \A c \in Characteristics : Placed(c)'
    BY <1>1, <2>2, <2>3, <2>4, PlacedKept
  <2>6. CASE pc = "char_wait"
    <3>1. r = <<"char", order[at]>>
      BY <2>1, <2>6 DEF Synchronous, Quiet, Underway
    <3>2. order[at] \in 0 .. Chars
      BY <1>1
    <3>3. Real(result') => result' = Len(table') /\ table'[result'] = <<"value", order[at]>>
      BY <1>8, <2>1, <3>1, <3>2, ServedLast
    <3> QED BY <2>2, <2>5, <2>6, <3>3 DEF Located, Last
  <2>7. CASE pc = "descr_wait"
    <3>1. r = <<"descr", 0>>
      BY <2>1, <2>7 DEF Synchronous, Quiet, Underway
    <3>2. Real(result') => /\ result' = Len(table') /\ table'[result'] = <<"descr", 0>>
                           /\ Len(table') = Len(table) + 1
      BY <1>8, <2>1, <3>1, ServedLast
    <3>3. Real(charHandle[order[at]]) => charHandle[order[at]] = Len(table)
      BY <2>1, <2>7 DEF Last
    <3> QED BY <2>2, <2>5, <2>7, <3>2, <3>3 DEF Located, Last
  <2>8. CASE pc \notin {"char_wait", "descr_wait"}
    <3>1. pc # "descr"
      BY <2>1 DEF Synchronous, Quiet
    <3> QED BY <2>2, <2>5, <2>8, <3>1 DEF Located, Last
  <2> QED BY <2>6, <2>7, <2>8
<1>9. CASE Record
  <2>1. UNCHANGED <<table, pc, order, at, requests, job, result>> /\ requests = << >>
        /\ btPc = "record" /\ btPc' = "give"
    BY <1>9 DEF Record, appVars, Synchronous, Quiet, Underway
  <2>2. CASE pc = "char_wait"
    <3>1. lastCreated = order[at] /\ job = <<"char", order[at]>> /\ lastCreated # 0
      BY <1>1, <1>9, <2>1, <2>2 DEF Credited, Working, Synchronous, Quiet, Underway
    <3>2. charHandle' = [charHandle EXCEPT ![order[at]] = result] /\ descrHandle' = descrHandle
      BY <1>9, <3>1 DEF Record
    <3>3. charHandle'[order[at]] = result /\ descrHandle'[order[at]] = NoHandle
      BY <1>1, <2>2, <3>2 DEF TypeOK, Credited
    <3>4. \A c \in Characteristics : c # order[at] => charHandle'[c] = charHandle[c]
      BY <3>2 DEF TypeOK
    <3>5. Real(result) => /\ result = Len(table) /\ table[result] = <<"value", order[at]>>
                          /\ result \in 1 .. Len(table)
      BY <1>1, <2>1, <2>2 DEF Last, Real, Failed
    <3>6. ASSUME NEW c \in Characteristics, c = order[at] PROVE Placed(c)'
      BY <2>1, <3>3, <3>5, <3>6 DEF Placed, Real
    <3>7. ASSUME NEW c \in Characteristics, c # order[at] PROVE Placed(c)'
      BY <2>1, <3>2, <3>4, <3>7 DEF Placed
    <3>8. Last'
      BY <2>1, <2>2, <3>3, <3>5 DEF Last
    <3> QED BY <3>6, <3>7, <3>8 DEF Located
  <2>3. CASE pc = "descr_wait"
    <3>1. lastCreated = order[at] /\ job = <<"descr", 0>> /\ order[at] \in linked
      BY <1>1, <1>9, <2>1, <2>3 DEF Credited, Working, Synchronous, Quiet, Underway
    <3>2. descrHandle' = [descrHandle EXCEPT ![order[at]] = result] /\ charHandle' = charHandle
      BY <1>9, <3>1 DEF Record
    <3>3. descrHandle'[order[at]] = result
      BY <1>1, <3>2 DEF TypeOK
    <3>4. \A c \in Characteristics : c # order[at] => descrHandle'[c] = descrHandle[c]
      BY <3>2 DEF TypeOK
    <3>5. Real(result) =>
            /\ result = Len(table) /\ table[result][1] = "descr" /\ result \in 1 .. Len(table)
            /\ Real(charHandle[order[at]]) => charHandle[order[at]] + 1 = result
      BY <1>1, <2>1, <2>3 DEF Last, Real, Failed
    <3>6. ASSUME NEW c \in Characteristics, c = order[at] PROVE Placed(c)'
      BY <1>1, <2>1, <3>2, <3>3, <3>5, <3>6 DEF Placed
    <3>7. ASSUME NEW c \in Characteristics, c # order[at] PROVE Placed(c)'
      BY <2>1, <3>2, <3>4, <3>7 DEF Placed
    <3>8. Last'
      BY <2>1, <2>3 DEF Last
    <3> QED BY <3>6, <3>7, <3>8 DEF Located
  <2>4. CASE pc \notin {"char_wait", "descr_wait"}
    <3>1. pc # "descr" /\ job[1] \notin {"char", "descr"}
      BY <2>1, <2>4 DEF Synchronous, Quiet, Underway
    <3>2. UNCHANGED <<charHandle, descrHandle>>
      BY <1>9, <3>1 DEF Record
    <3> QED BY <1>2, <2>1, <2>4, <3>1, <3>2 DEF Located, Last
  <2> QED BY <2>2, <2>3, <2>4
<1>10. CASE Give
  <2>1. UNCHANGED <<charHandle, descrHandle, table, pc, order, at, requests>>
        /\ requests = << >> /\ btPc = "give" /\ btPc' = "idle" /\ pc # "descr"
    BY <1>10 DEF Give, appVars, handles, Synchronous, Quiet, Underway
  <2> QED BY <1>2, <2>1 DEF Located, Last
<1>11. CASE UNCHANGED vars
  <2>1. UNCHANGED <<charHandle, descrHandle, table, pc, order, at, requests, btPc, result>>
    BY <1>11 DEF vars, appVars, handles, stackVars
  <2> QED BY <1>2, <2>1 DEF Located, Last
<1> QED BY <1>3, <1>4, <1>5, <1>6, <1>7, <1>8, <1>9, <1>10, <1>11, Steps

LEMMA InitInStep == Init => InStep
<1> SUFFICES ASSUME Init PROVE InStep
  OBVIOUS
<1>1. at \in Characteristics /\ order \in [Characteristics -> Characteristics]
  BY Bounds DEF Init, Characteristics
<1>2. Synchronous
  BY DEF Init, Synchronous, Quiet
<1>3. Credited
  BY <1>1 DEF Init, Credited, Working
<1>4. Located
  BY DEF Init, Located, Placed, Real, Last
<1> QED BY <1>2, <1>3, <1>4 DEF InStep

(* The inductive invariant, and what it says of the table.                 *)
LEMMA NextInStep ==
  TypeOK /\ Injective /\ InStep /\ [Next]_vars => InStep'
  BY NextSynchronous, NextCredited, NextLocated DEF InStep

LEMMA AlwaysInStep == Spec => [](TypeOK /\ Injective /\ InStep)
<1>1. TypeOK /\ Injective /\ InStep /\ [Next]_vars => (TypeOK /\ Injective /\ InStep)'
  BY NextTypeOK, NextInStep DEF InStep
<1> QED BY <1>1, InitTypeOK, InitInStep, PTL DEF Spec

(* The state of init_ble is well typed; its requests never queue up.       *)
THEOREM WellTyped == Spec => []TypeOK
  BY AlwaysInStep, PTL

(* The handle the library keeps for a characteristic is that of its value, *)
(* and that of its 0x2902 the next one, however many there are and in      *)
(* whatever order the map has them.                                        *)
THEOREM HandlesAreRight == Spec => []HandlesMatchTable
<1>1. InStep => HandlesMatchTable
  BY DEF InStep, Located, Placed, HandlesMatchTable
<1> QED BY <1>1, AlwaysInStep, PTL

-----------------------------------------------------------------------------
(* Nothing is left out                                                     *)

(* A handle that a numHandles with room allows is a real one: 65535 is a   *)
(* multiple of three, so it is never that of a descriptor.                 *)
LEMMA RealHandles ==
  ASSUME numHandles \in Limits, 1 + 3 * Chars <= numHandles, NEW k \in Characteristics
  PROVE  Real(3 * k) /\ Real(3 * k + 1) /\ Real(1)
<1>1. \A n \in Nat : 3 * n + 1 # NoHandle
  BY SMT DEF NoHandle
<1>2. NoHandle # 1
  BY SMT DEF NoHandle
<1>3. k \in 1 .. Chars /\ numHandles \in 1 .. NoHandle
  BY Bounds DEF Characteristics
<1> QED BY <1>1, <1>2, <1>3, Bounds DEF Real, Failed

(* What fits is added.                                                     *)
LEMMA ServedInRoom ==
  ASSUME TypeOK, NEW r, requests = <<r>>, Serve,
         Len(table) + Len(Attributes(r)) <= numHandles
  PROVE  result' = Len(table') /\ Len(table') = Len(table) + Len(Attributes(r))
<1>1. Len(table) \in Nat /\ numHandles \in Nat
  BY Bounds DEF TypeOK
<1>2. r \in Requests
  BY Served
<1>3. Len(Attributes(r)) \in Nat
  BY <1>2, Bounds DEF Requests, Kinds, Attributes
<1> QED BY <1>1, <1>3, Served

LEMMA NextFilled ==
  TypeOK /\ Injective /\ InStep /\ Filled /\ [Next]_vars => Filled'
<1> SUFFICES ASSUME TypeOK, Injective, InStep, Filled, [Next]_vars, Room'
             PROVE  ServiceFilled' /\ CharFilled'
  BY DEF Filled
<1> USE DEF InStep
<1>1. numHandles' = numHandles /\ order' = order
  BY Steps DEF RegisterApp, CreateService, AddChar, AddDescr, StartService, Waits, Wait,
               Start, WaitDescr, Serve, Record, Give, vars, appVars
<1>2. rejected = {} /\ 1 + 3 * Chars <= numHandles
  <2>1. rejected \subseteq rejected'
    BY Steps DEF RegisterApp, CreateService, AddChar, AddDescr, StartService, Accepted,
                 Rejected, Waits, Wait, Start, WaitDescr, Serve, Record, Give, vars
  <2> QED BY <1>1, <2>1 DEF Room
<1>3. ServiceFilled /\ CharFilled
  BY <1>2 DEF Filled, Room
<1>4. /\ order[at] \in Characteristics /\ at \in 1 .. Chars /\ Characteristics = 1 .. Chars
      /\ Len(table) \in Nat /\ Chars \in Nat \ {0} /\ numHandles \in Nat
  BY Bounds DEF TypeOK, Characteristics
<1>5. \A r : Rejected(r) => FALSE
  BY DEF Rejected, Room
<1>6. CASE RegisterApp \/ StartService
  BY <1>1, <1>3, <1>5, <1>6
     DEF RegisterApp, StartService, ServiceFilled, CharFilled, Done, appVars, handles, stackVars
<1>7. CASE CreateService
  <2>1. requests' # << >>
    BY <1>5, <1>7 DEF CreateService, Accepted, Synchronous, Quiet
  <2> QED BY <1>3, <1>5, <1>7, <2>1
             DEF CreateService, ServiceFilled, CharFilled, Done, appVars, handles, stackVars
<1>8. CASE AddChar
  <2>1. requests' # << >> /\ pc' = "char_wait" /\ UNCHANGED at
    BY <1>5, <1>8 DEF AddChar, Accepted, Synchronous, Quiet
  <2> QED BY <1>1, <1>3, <1>8, <2>1
             DEF AddChar, ServiceFilled, CharFilled, Done, handles, stackVars
<1>9. CASE AddDescr
  <2>1. requests' # << >> /\ pc' = "descr_wait" /\ UNCHANGED at
    BY <1>5, <1>9 DEF AddDescr, Accepted, Synchronous, Quiet
  <2> QED BY <1>1, <1>3, <1>9, <2>1
             DEF AddDescr, ServiceFilled, CharFilled, Done, handles, stackVars
<1>10. CASE Waits
  <2>1. UNCHANGED <<charHandle, descrHandle, serviceHandle, table, at>>
    BY <1>10 DEF Waits, Wait, handles, stackVars, appVars
  <2>2. requests = << >> /\ btPc = "idle"
    BY <1>10 DEF Waits, Wait, Synchronous, Quiet, Underway
  <2>3. \/ pc = "register_wait" /\ pc' = "service"
        \/ pc = "service_wait" /\ pc' = "server_wait"
        \/ pc = "server_wait" /\ pc' = "start"
        \/ pc = "char_wait" /\ pc' = "descr"
        \/ pc = "start_wait" /\ pc' = "done"
    BY <1>10 DEF Waits, Wait
  <2> QED BY <1>1, <1>3, <2>1, <2>2, <2>3 DEF ServiceFilled, CharFilled, Done
<1>11. CASE Start
  <2>1. pc' = "char" /\ at = 1 /\ Len(table) = 1
    <3>1. serviceHandle # NoHandle
      BY <1>2, <1>3, <1>4, <1>11, RealHandles DEF Start, ServiceFilled, Real, TypeOK
    <3> QED BY <1>3, <1>11, <3>1 DEF Start, ServiceFilled
  <2> QED BY <1>1, <1>3, <1>11, <2>1 DEF Start, ServiceFilled, CharFilled, Done, appVars, handles, stackVars
<1>12. CASE WaitDescr
  <2>1. UNCHANGED <<charHandle, descrHandle, table>> /\ NextCharacteristic
    BY <1>12 DEF WaitDescr, handles, stackVars
  <2>2. requests = << >> /\ btPc = "idle" /\ pc = "descr_wait"
    BY <1>12 DEF WaitDescr, Synchronous, Quiet, Underway
  <2>3. Done(at) /\ Len(table) = 3 * at + 1
    BY <1>3, <2>2 DEF CharFilled, Done
  <2>4. \/ at < Chars /\ pc' = "char" /\ at' = at + 1
        \/ at = Chars /\ pc' = "start_service" /\ at' = at
    BY <1>4, <2>1 DEF NextCharacteristic
  <2>5. \A k \in Characteristics : k < at' => Done(k)
    BY <1>3, <1>4, <2>3, <2>4 DEF CharFilled
  <2> QED BY <1>1, <1>4, <2>1, <2>3, <2>4, <2>5 DEF ServiceFilled, CharFilled, Done
<1>13. CASE Serve
  <2>1. PICK r : requests = <<r>>
    BY <1>13 DEF Serve, TypeOK, Synchronous, Quiet, Underway
  <2>2. UNCHANGED <<charHandle, descrHandle, pc, at>> /\ btPc' = "record"
        /\ requests' = << >>
    BY <1>13, <2>1, Served DEF Serve, handles, appVars
  <2>3. CASE pc = "register_wait" \/ pc = "start_wait"
    <3>1. Len(Attributes(r)) = 0
      BY <2>1, <2>3, AddedAttributes DEF Synchronous, Quiet, Underway
    <3>2. Len(table') = Len(table)
      <4>1. Len(table) + Len(Attributes(r)) <= numHandles
        BY <1>4, <3>1 DEF TypeOK
      <4>2. Len(table') = Len(table) + Len(Attributes(r))
        BY <1>13, <2>1, <4>1, ServedInRoom
      <4> QED BY <1>4, <3>1, <4>2
    <3> QED BY <1>1, <1>3, <2>2, <2>3, <3>2 DEF ServiceFilled, CharFilled, Done
  <2>4. CASE pc = "service_wait"
    <3>1. Len(Attributes(r)) = 1
      BY <2>1, <2>4, AddedAttributes DEF Synchronous, Quiet, Underway
    <3>2. Len(table) = 0
      BY <1>3, <2>1, <2>4, <1>13 DEF ServiceFilled, Serve
    <3>3. Len(table') = 1 /\ result' = 1
      <4>1. Len(table) + Len(Attributes(r)) <= numHandles
        BY <1>2, <1>4, <3>1, <3>2
      <4>2. result' = Len(table') /\ Len(table') = Len(table) + Len(Attributes(r))
        BY <1>13, <2>1, <4>1, ServedInRoom
      <4> QED BY <1>4, <3>1, <3>2, <4>2
    <3> QED BY <1>1, <1>3, <2>2, <2>4, <3>3 DEF ServiceFilled, CharFilled, Done
  <2>5. CASE pc = "char_wait"
    <3>1. Len(Attributes(r)) = 2
      BY <1>4, <2>1, <2>5, AddedAttributes DEF Synchronous, Quiet, Underway
    <3>2. Len(table) = 3 * at - 2
      BY <1>3, <2>1, <2>5, <1>13 DEF CharFilled, Serve
    <3>3. Len(table') = 3 * at /\ result' = 3 * at
      <4>1. Len(table) + Len(Attributes(r)) <= numHandles
        BY <1>2, <1>4, <3>1, <3>2
      <4>2. result' = Len(table') /\ Len(table') = Len(table) + Len(Attributes(r))
        BY <1>13, <2>1, <4>1, ServedInRoom
      <4> QED BY <1>4, <3>1, <3>2, <4>2
    <3> QED BY <1>1, <1>3, <2>2, <2>5, <3>3 DEF ServiceFilled, CharFilled, Done
  <2>6. CASE pc = "descr_wait"
    <3>1. Len(Attributes(r)) = 1
      BY <2>1, <2>6, AddedAttributes DEF Synchronous, Quiet, Underway
    <3>2. Len(table) = 3 * at
      BY <1>3, <2>1, <2>6, <1>13 DEF CharFilled, Serve
    <3>3. Len(table') = 3 * at + 1 /\ result' = 3 * at + 1
      <4>1. Len(table) + Len(Attributes(r)) <= numHandles
        BY <1>2, <1>4, <3>1, <3>2
      <4>2. result' = Len(table') /\ Len(table') = Len(table) + Len(Attributes(r))
        BY <1>13, <2>1, <4>1, ServedInRoom
      <4> QED BY <1>4, <3>1, <3>2, <4>2
    <3> QED BY <1>1, <1>3, <2>2, <2>6, <3>3 DEF ServiceFilled, CharFilled, Done
  <2>7. pc \in {"register_wait", "service_wait", "char_wait", "descr_wait", "start_wait"}
    BY <2>1 DEF Synchronous, Quiet, Underway
  <2> QED BY <2>3, <2>4, <2>5, <2>6, <2>7
<1>14. CASE Record
  <2>1. UNCHANGED <<table, pc, order, at, requests>> /\ requests = << >>
        /\ btPc = "record" /\ btPc' = "give"
    BY <1>14 DEF Record, appVars, Synchronous, Quiet, Underway
  <2>2. CASE pc = "register_wait" \/ pc = "start_wait"
    <3>1. UNCHANGED <<charHandle, descrHandle>>
      BY <1>14, <2>1, <2>2 DEF Record, Synchronous, Quiet, Underway
    <3> QED BY <1>3, <2>1, <2>2, <3>1 DEF ServiceFilled, CharFilled, Done
  <2>3. CASE pc = "service_wait"
    <3>1. UNCHANGED <<charHandle, descrHandle>> /\ serviceHandle' = result
      BY <1>14, <2>1, <2>3 DEF Record, Synchronous, Quiet, Underway
    <3> QED BY <1>3, <2>1, <2>3, <3>1 DEF ServiceFilled, CharFilled, Done
  <2>4. CASE pc = "char_wait"
    <3>1. lastCreated = order[at] /\ job[1] = "char" /\ lastCreated # 0
      BY <1>4, <2>1, <2>4 DEF Credited, Working, Synchronous, Quiet, Underway
    <3>2. charHandle' = [charHandle EXCEPT ![order[at]] = result] /\ descrHandle' = descrHandle
      BY <1>14, <3>1 DEF Record
    <3>3. Real(charHandle'[order[at]]) /\ Len(table) = 3 * at
      BY <1>2, <1>3, <1>4, <2>1, <2>4, <3>2, RealHandles DEF CharFilled, TypeOK
    <3>4. \A k \in Characteristics : k < at => Done(k)'
      <4> SUFFICES ASSUME NEW k \in Characteristics, k < at PROVE Done(k)'
        OBVIOUS
      <4>1. order[k] # order[at]
        BY <1>4 DEF Injective
      <4>2. charHandle'[order[k]] = charHandle[order[k]]
        BY <3>2, <4>1 DEF TypeOK
      <4> QED BY <1>3, <2>1, <3>2, <4>2 DEF CharFilled, Done
    <3> QED BY <1>1, <2>1, <2>4, <3>3, <3>4 DEF ServiceFilled, CharFilled
  <2>5. CASE pc = "descr_wait"
    <3>1. lastCreated = order[at] /\ job[1] = "descr" /\ order[at] \in linked
      BY <1>4, <2>1, <2>5 DEF Credited, Working, Synchronous, Quiet, Underway
    <3>2. descrHandle' = [descrHandle EXCEPT ![order[at]] = result] /\ charHandle' = charHandle
      BY <1>14, <3>1 DEF Record
    <3>3. Real(descrHandle'[order[at]]) /\ Len(table) = 3 * at + 1
      BY <1>2, <1>3, <1>4, <2>1, <2>5, <3>2, RealHandles DEF CharFilled, TypeOK
    <3>4. \A k \in Characteristics : k < at => Done(k)'
      <4> SUFFICES ASSUME NEW k \in Characteristics, k < at PROVE Done(k)'
        OBVIOUS
      <4>1. order[k] # order[at]
        BY <1>4 DEF Injective
      <4>2. descrHandle'[order[k]] = descrHandle[order[k]]
        BY <3>2, <4>1 DEF TypeOK
      <4> QED BY <1>3, <2>1, <3>2, <4>2 DEF CharFilled, Done
    <3>5. Real(charHandle[order[at]])
      BY <1>3, <2>5 DEF CharFilled
    <3> QED BY <1>1, <2>1, <2>5, <3>2, <3>3, <3>4, <3>5 DEF ServiceFilled, CharFilled
  <2>6. pc \in {"register_wait", "service_wait", "char_wait", "descr_wait", "start_wait"}
    BY <2>1 DEF Synchronous, Quiet, Underway
  <2> QED BY <2>2, <2>3, <2>4, <2>5, <2>6
<1>15. CASE Give
  <2>1. UNCHANGED <<charHandle, descrHandle, serviceHandle, table, pc, at, requests, order>>
        /\ requests = << >> /\ btPc = "give" /\ btPc' = "idle"
    BY <1>15 DEF Give, appVars, handles, Synchronous, Quiet, Underway
  <2> QED BY <1>3, <2>1 DEF ServiceFilled, CharFilled, Done
<1>16. CASE UNCHANGED vars
  BY <1>3, <1>16 DEF vars, appVars, handles, stackVars, ServiceFilled, CharFilled, Done
<1> QED BY <1>6, <1>7, <1>8, <1>9, <1>10, <1>11, <1>12, <1>13, <1>14, <1>15, <1>16, Steps

(* An order that has no characteristic twice has every one.                *)
LEMMA Everyone ==
  ASSUME TypeOK, Injective, NEW c \in Characteristics
  PROVE  \E k \in Characteristics : order[k] = c
<1>1. order \in Injection(Characteristics, Characteristics)
  BY DEF TypeOK, Injective, Injection, IsInjective
<1>2. IsFiniteSet(Characteristics)
  BY FS_Interval, Bounds DEF Characteristics
<1>3. order \in Surjection(Characteristics, Characteristics)
  BY <1>1, <1>2, FS_Injection
<1> QED BY <1>3 DEF Surjection

(* With room for them, and no call rejected, init_ble creates the value    *)
(* and the 0x2902 of every characteristic, however many there are.         *)
THEOREM NothingLeftOut == Spec => []CompleteWithRoom
<1>1. Init => Filled
  BY DEF Init, Filled, Room, ServiceFilled, CharFilled, Characteristics
<1>2. Spec => []Filled
  BY <1>1, NextFilled, AlwaysInStep, PTL DEF Spec
<1>3. TypeOK /\ Injective /\ Filled => CompleteWithRoom
  <2> SUFFICES ASSUME TypeOK, Injective, Filled, pc = "done", rejected = {},
                      1 + 3 * Chars <= numHandles, NEW c \in Characteristics
               PROVE  Real(charHandle[c]) /\ Real(descrHandle[c])
    BY DEF CompleteWithRoom, Complete
  <2>1. PICK k \in Characteristics : order[k] = c
    BY Everyone
  <2>2. CharFilled /\ at = Chars
    BY DEF Filled, Room, CharFilled
  <2>3. Done(k)
    BY <2>2, Bounds DEF CharFilled, Characteristics
  <2> QED BY <2>1, <2>3 DEF Done
<1> QED BY <1>2, <1>3, AlwaysInStep, PTL
=============================================================================
