------------------------------ MODULE BleClient ------------------------------
(***************************************************************************)
(* The client half of the BLE library (BLEClient, BLERemoteService,        *)
(* BLERemoteCharacteristic, BLERemoteDescriptor, BLEScan and the dispatch  *)
(* in BLEDevice), driven by the program the library gives as the way to    *)
(* use it, examples/BLE_client: scan, connect, search the service, read,   *)
(* register for notifications, then write once a second, and scan again    *)
(* after a disconnection.                                                  *)
(*                                                                         *)
(* Two tasks: loopTask runs setup() and loop() and blocks in semaphores;   *)
(* the Bluetooth task handles the events of the stack in order and gives   *)
(* them.  Every connection is made by a client object of its own, which    *)
(* nobody deletes; clients are numbered as they are created.  Interfaces   *)
(* are the handles the stack gives to registered clients; NoIf stands for  *)
(* ESP_GATT_IF_NONE.                                                       *)
(***************************************************************************)
EXTENDS Naturals, Sequences, FiniteSets, FiniteSetsExt, Functions

CONSTANTS
    MaxClients, \* bound on the number of connections attempted
    MaxFaults,  \* bound on lost links and on calls and searches that fail
    FirstApp,   \* BLEDevice::m_appId when the first client connects
    FirstIf     \* first interface the stack gives to an application

(* updatePeerDevice takes the entry of application ESP_GATT_IF_NONE, 255,  *)
(* for the server's.                                                       *)
ASSUME ClientAssumption ==
    /\ MaxClients \in Nat \ {0} /\ MaxFaults \in Nat /\ {FirstApp, FirstIf} \subseteq Nat
    /\ FirstApp + MaxClients <= 255

Clients == 1 .. MaxClients
Ifs     == 1 .. MaxClients
NoIf    == 0

VARIABLES
    \* examples/BLE_client
    pc,          \* where loopTask is
    cur,         \* the client made last
    connected, doConnect, doScan,
    \* the library
    peers,       \* BLEDevice::m_connectedClientsMap
    gattcIf,     \* m_gattc_if of each client
    isConnected, \* m_isConnected of each client
    services,    \* m_servicesMap of cur: whether the service is in it
    haveServices,\* m_haveServices of cur
    descriptor,  \* descriptor 0x2902 of the characteristic is known
    stopped,     \* m_stopped of the scan
    taken,       \* semaphores of cur and of the scan that are taken
    semValue,    \* m_value of the semaphores that carry one
    \* the stack
    registered,  \* interfaces in use
    link,        \* connection of each interface
    asked,       \* the request of cur that the stack has not answered yet
    offers,      \* the peer has the service
    scan,        \* what the controller scans for
    inquiry,     \* the end of a scan that was stopped is still to be reported
    queue,       \* events for the Bluetooth task
    faults,
    \* for the properties
    refused,     \* clients whose registration was rejected
    excuse       \* why nothing may ever wake loopTask

appVars   == <<pc, cur, connected, doConnect, doScan>>
mapVars   == <<peers, gattcIf, isConnected>>
objVars   == <<services, haveServices, descriptor>>
semVars   == <<taken, semValue>>
stackVars == <<registered, link, asked, offers>>
scanVars  == <<stopped, scan, inquiry>>
ghostVars == <<refused, excuse>>
vars == <<appVars, mapVars, objVars, semVars, stackVars, scanVars, queue, faults, ghostVars>>

(* Where loopTask waits, and for which semaphore.                          *)
Waits == [scan |-> "ScanEnd", reg |-> "RegEvt", open |-> "OpenEvt",
          searching |-> "SearchCmplEvt", reading |-> "ReadCharEvt",
          registering |-> "RegForNotifyEvt", takeWrite |-> "WriteCharEvt",
          writing |-> "WriteCharEvt"]
Semaphores == {Waits[w] : w \in DOMAIN Waits}
Requests   == {"reg", "open", "search", "read", "notify", "write"}
Event == [ev : {"reg", "connect", "open", "res", "cmpl", "read", "notify", "write",
                "disconnect"}, if : Ifs, ok : BOOLEAN]

TypeOK ==
    /\ pc \in DOMAIN Waits \cup {"loop", "register", "gattc_open", "search", "takeSearch",
                                 "lookup", "retrieve", "read", "notify", "cccd", "aborted"}
    /\ cur \in 0 .. MaxClients
    /\ {connected, doConnect, doScan, services, haveServices, descriptor, stopped, offers, inquiry} \subseteq BOOLEAN
    /\ DOMAIN peers \subseteq FirstApp .. FirstApp + MaxClients - 1
    /\ \A a \in DOMAIN peers : peers[a] \in Clients
    /\ gattcIf \in [Clients -> Ifs \cup {NoIf}]
    /\ isConnected \in [Clients -> BOOLEAN]
    /\ taken \subseteq Semaphores
    /\ semValue \in [{"OpenEvt", "SearchCmplEvt"} -> 0 .. 1]
    /\ registered \subseteq Ifs
    /\ link \in [Ifs -> {"none", "up", "closing"}]
    /\ asked \in Requests \cup {"none"}
    /\ scan \in {"off", "timed", "endless"}
    /\ queue \in Seq(Event)
    /\ faults \in 0 .. MaxFaults
    /\ refused \subseteq Clients
    /\ excuse \in {"none", "removed", "early", "failed", "lost", "rejected"}

AppId(c) == FirstApp + c - 1
Peers    == {peers[a] : a \in DOMAIN peers}

(* setup() has started the scan of five seconds and waits for its end.     *)
Init ==
    /\ pc = "scan" /\ cur = 0
    /\ connected = FALSE /\ doConnect = FALSE /\ doScan = FALSE
    /\ peers = << >> /\ gattcIf = [c \in Clients |-> NoIf]
    /\ isConnected = [c \in Clients |-> FALSE]
    /\ services = FALSE /\ haveServices = FALSE /\ descriptor = FALSE
    /\ stopped = FALSE /\ scan = "timed" /\ inquiry = FALSE
    /\ taken = {"ScanEnd"} /\ semValue = [s \in {"OpenEvt", "SearchCmplEvt"} |-> 0]
    /\ registered = {} /\ link = [i \in Ifs |-> "none"] /\ asked = "none" /\ offers = TRUE
    /\ queue = << >> /\ faults = 0 /\ refused = {} /\ excuse = "none"

Fault == faults < MaxFaults /\ faults' = faults + 1

-----------------------------------------------------------------------------
(* Semaphores (FreeRTOS.cpp): wait takes the semaphore and gives it back,  *)
(* give does nothing to one that is not taken but stores its value.        *)

Given(s) == s \notin taken
Give(s)  == taken' = taken \ {s}
GiveValue(s, v) == Give(s) /\ semValue' = [semValue EXCEPT ![s] = v]

Excuse(why) == excuse' = why

(* A request to the stack is refused without a connection, and may be in   *)
(* any case.                                                               *)
CurLink == IF cur # 0 /\ gattcIf[cur] # NoIf THEN link[gattcIf[cur]] ELSE "none"
Accepted(r) == CurLink = "up" /\ asked' = r /\ UNCHANGED faults
Rejected    == (IF CurLink = "up" THEN Fault ELSE UNCHANGED faults) /\ UNCHANGED asked

-----------------------------------------------------------------------------
(* loopTask: loop() and connectToServer()                                  *)

AppStep == UNCHANGED <<registered, link, offers, queue, isConnected, gattcIf, scan, inquiry>>
Goto(step) == pc' = step

(* BLEScan::start returns, to setup() or to loop().                        *)
ScanReturns ==
    /\ pc = "scan" /\ Given("ScanEnd") /\ Goto("loop")
    /\ AppStep /\ UNCHANGED <<cur, connected, doConnect, doScan, peers, objVars, semVars,
                              asked, stopped, faults, ghostVars>>

(* BLEScan::start(0): the scan goes on until it is stopped.                *)
StartScan ==
    /\ pc = "loop" /\ ~doConnect /\ ~connected /\ doScan
    /\ Given("ScanEnd") /\ taken' = taken \cup {"ScanEnd"}
    /\ scan' = "endless" /\ stopped' = FALSE /\ Goto("scan")
    /\ UNCHANGED <<cur, connected, doConnect, doScan, mapVars, objVars, semValue, stackVars,
                   inquiry, queue, faults, ghostVars>>

(* createClient, and BLEClient::connect up to the registration.            *)
AddPeerDevice(c) == [a \in DOMAIN peers \cup {AppId(c)} |->
                       IF a \in DOMAIN peers THEN peers[a] ELSE c]
ClearServices == services' = FALSE /\ haveServices' = FALSE /\ descriptor' = FALSE

CreateClient ==
    /\ pc = "loop" /\ doConnect /\ cur < MaxClients
    /\ cur' = cur + 1
    /\ peers' = AddPeerDevice(cur + 1)
    /\ taken' = (taken \cap {"ScanEnd"}) \cup {"RegEvt"}
    /\ semValue' = [s \in DOMAIN semValue |-> 0]
    /\ ClearServices
    /\ offers' \in BOOLEAN
    /\ Goto("register") /\ excuse' = "none"
    /\ UNCHANGED <<connected, doConnect, doScan, gattcIf, isConnected, registered, link, asked,
                   scanVars, queue, faults, refused>>

Register ==
    /\ pc = "register"
    /\ \/ asked' = "reg" /\ Goto("reg") /\ UNCHANGED <<faults, refused>>
       \/ Fault /\ Goto("search") /\ refused' = refused \cup {cur} /\ UNCHANGED asked
    /\ AppStep /\ UNCHANGED <<cur, connected, doConnect, doScan, peers, objVars, semVars, stopped, excuse>>

(* BLEClient::connect goes on to open the connection ...                   *)
Registered ==
    /\ pc = "reg" /\ Given("RegEvt")
    /\ taken' = taken \cup {"OpenEvt"} /\ Goto("gattc_open")
    /\ AppStep /\ UNCHANGED <<cur, connected, doConnect, doScan, peers, objVars, semValue, asked,
                              stopped, faults, ghostVars>>

GattcOpen ==
    /\ pc = "gattc_open"
    /\ \/ asked' = "open" /\ Goto("open") /\ UNCHANGED faults
       \/ Fault /\ Goto("search") /\ UNCHANGED asked
    /\ AppStep /\ UNCHANGED <<cur, connected, doConnect, doScan, peers, objVars, semVars, stopped, ghostVars>>

(* ... and returns whether that worked, which connectToServer ignores.     *)
Opened ==
    /\ pc = "open" /\ Given("OpenEvt") /\ Goto("search")
    /\ AppStep /\ UNCHANGED <<cur, connected, doConnect, doScan, peers, objVars, semVars, asked,
                              stopped, faults, ghostVars>>

(* getService calls getServices, which asks the stack first and takes the  *)
(* semaphore of the answer afterwards.                                     *)
SearchService ==
    /\ pc = "search" /\ ClearServices
    /\ \/ Accepted("search") /\ Goto("takeSearch") /\ UNCHANGED taken
       \/ Rejected /\ taken' = taken \cup {"SearchCmplEvt"} /\ Goto("lookup")
    /\ AppStep /\ UNCHANGED <<cur, connected, doConnect, doScan, peers, semValue, stopped, ghostVars>>

TakeSearch ==
    /\ pc = "takeSearch"
    /\ taken' = taken \cup {"SearchCmplEvt"} /\ Goto("searching")
    /\ AppStep /\ UNCHANGED <<cur, connected, doConnect, doScan, peers, objVars, semValue, asked,
                              stopped, faults, ghostVars>>

ServicesFound(value) == value = 0

Searched ==
    /\ pc = "searching" /\ Given("SearchCmplEvt")
    /\ haveServices' = ServicesFound(semValue["SearchCmplEvt"]) /\ Goto("lookup")
    /\ AppStep /\ UNCHANGED <<cur, connected, doConnect, doScan, peers, services, descriptor, semVars, asked,
                              stopped, faults, ghostVars>>

(* getService finds the service among those of the search ...              *)
Lookup ==
    /\ pc = "lookup" /\ services /\ Goto("retrieve")
    /\ AppStep /\ UNCHANGED <<cur, connected, doConnect, doScan, peers, objVars, semVars, asked,
                              stopped, faults, ghostVars>>

(* ... and getCharacteristic asks the stack's cache for what belongs to    *)
(* it, which fails without a connection, and may fail in any case.         *)
RetrieveDescriptors ==
    \/ descriptor' = TRUE /\ UNCHANGED faults
    \/ descriptor' = FALSE /\ Fault
RetrieveCharacteristics ==
    /\ pc = "retrieve" /\ CurLink = "up" /\ RetrieveDescriptors /\ Goto("read")
    /\ AppStep /\ UNCHANGED <<cur, connected, doConnect, doScan, peers, services, haveServices,
                              semVars, asked, stopped, ghostVars>>

(* Whatever is not found, connectToServer gives up and closes the          *)
(* connection.                                                             *)
GiveUp ==
    /\ \/ pc = "lookup" /\ ~services /\ UNCHANGED faults
       \/ pc = "retrieve" /\ IF CurLink = "up" THEN Fault ELSE UNCHANGED faults
    /\ link' = IF CurLink = "up" THEN [link EXCEPT ![gattcIf[cur]] = "closing"] ELSE link
    /\ doConnect' = FALSE /\ Goto("loop")
    /\ UNCHANGED <<cur, connected, doScan, mapVars, objVars, semVars, registered, asked, offers,
                   scanVars, queue, ghostVars>>

(* An exception nobody catches, or a null pointer, ends the program.       *)
Throw == Goto("aborted") /\ UNCHANGED <<taken, asked, faults, excuse>>

ReadValue ==
    /\ pc = "read"
    /\ IF isConnected[cur]
         THEN /\ taken' = taken \cup {"ReadCharEvt"} /\ UNCHANGED excuse
              /\ \/ Accepted("read") /\ Goto("reading")
                 \/ Rejected /\ Goto("notify")
         ELSE Throw
    /\ AppStep /\ UNCHANGED <<cur, connected, doConnect, doScan, peers, objVars, semValue, stopped, refused>>

ReadReturns ==
    /\ pc = "reading" /\ Given("ReadCharEvt") /\ Goto("notify")
    /\ AppStep /\ UNCHANGED <<cur, connected, doConnect, doScan, peers, objVars, semVars, asked,
                              stopped, faults, ghostVars>>

(* A rejected registration is logged, and waited for all the same.         *)
RegisterForNotify ==
    /\ pc = "notify" /\ taken' = taken \cup {"RegForNotifyEvt"} /\ Goto("cccd")
    /\ \/ Accepted("notify") /\ UNCHANGED excuse
       \/ Rejected /\ Excuse("rejected")
    /\ AppStep /\ UNCHANGED <<cur, connected, doConnect, doScan, peers, objVars, semValue, stopped, refused>>

(* BLERemoteDescriptor::writeValue does not wait for the answer; it is     *)
(* called without looking whether there is a descriptor.                   *)
WriteDescriptor ==
    /\ pc = "cccd"
    /\ IF descriptor /\ isConnected[cur]
         THEN Goto("registering") /\ UNCHANGED <<taken, asked, faults, excuse>>
         ELSE Throw
    /\ AppStep /\ UNCHANGED <<cur, connected, doConnect, doScan, peers, objVars, semValue, stopped, refused>>

ConnectedToServer ==
    /\ pc = "registering" /\ Given("RegForNotifyEvt")
    /\ connected' = TRUE /\ doConnect' = FALSE /\ Goto("loop")
    /\ AppStep /\ UNCHANGED <<cur, doScan, peers, objVars, semVars, asked, stopped, faults, ghostVars>>

WriteValue ==
    /\ pc = "loop" /\ ~doConnect /\ connected
    /\ IF isConnected[cur] THEN Goto("takeWrite") /\ UNCHANGED <<taken, asked, faults, excuse>> ELSE Throw
    /\ AppStep /\ UNCHANGED <<cur, connected, doConnect, doScan, peers, objVars, semValue, stopped, refused>>

TakeWrite ==
    /\ pc = "takeWrite" /\ Given("WriteCharEvt") /\ taken' = taken \cup {"WriteCharEvt"}
    /\ \/ Accepted("write") /\ Goto("writing") /\ UNCHANGED excuse
       \/ Rejected /\ Goto("loop") /\ Excuse("rejected")
    /\ AppStep /\ UNCHANGED <<cur, connected, doConnect, doScan, peers, objVars, semValue, stopped, refused>>

WriteReturns ==
    /\ pc = "writing" /\ Given("WriteCharEvt") /\ Goto("loop")
    /\ AppStep /\ UNCHANGED <<cur, connected, doConnect, doScan, peers, objVars, semVars, asked,
                              stopped, faults, ghostVars>>

-----------------------------------------------------------------------------
(* The stack: answers, broken links, advertisements                        *)

StackStep == UNCHANGED <<appVars, mapVars, objVars, semVars, scanVars, ghostVars>>
Ev(e, i, ok) == [ev |-> e, if |-> i, ok |-> ok]

AnswerRegister ==
    /\ asked = "reg" /\ asked' = "none"
    /\ \E i \in Ifs \ registered :
         /\ i = Min(Ifs \ registered)
         /\ registered' = registered \cup {i} /\ queue' = Append(queue, Ev("reg", i, TRUE))
    /\ StackStep /\ UNCHANGED <<link, offers, faults>>

(* A connection that could not be opened may be reported as ended, too.    *)
AnswerOpen ==
    /\ asked = "open" /\ asked' = "none"
    /\ LET i == gattcIf[cur]
       IN \/ /\ link' = [link EXCEPT ![i] = "up"] /\ UNCHANGED faults
             /\ queue' = queue \o <<Ev("connect", i, TRUE), Ev("open", i, TRUE)>>
          \/ /\ Fault /\ UNCHANGED link
             /\ \/ queue' = Append(queue, Ev("open", i, FALSE))
                \/ queue' = queue \o <<Ev("open", i, FALSE), Ev("disconnect", i, TRUE)>>
    /\ StackStep /\ UNCHANGED <<registered, offers>>

AnswerSearch ==
    /\ asked = "search" /\ asked' = "none"
    /\ LET i == gattcIf[cur]
       IN \/ /\ queue' = queue \o (IF offers THEN <<Ev("res", i, TRUE)>> ELSE << >>)
                               \o <<Ev("cmpl", i, TRUE)>>
             /\ UNCHANGED faults
          \/ Fault /\ queue' = Append(queue, Ev("cmpl", i, FALSE))
    /\ StackStep /\ UNCHANGED <<registered, link, offers>>

AnswerCharacteristic ==
    /\ asked \in {"read", "notify", "write"} /\ asked' = "none"
    /\ queue' = Append(queue, Ev(asked, gattcIf[cur], TRUE))
    /\ StackStep /\ UNCHANGED <<registered, link, offers, faults>>

(* A link ends, with what was asked over it.                               *)
LinkEnds ==
    \E i \in Ifs :
      /\ \/ link[i] = "closing" /\ UNCHANGED faults
         \/ link[i] = "up" /\ Fault
      /\ link' = [link EXCEPT ![i] = "none"]
      /\ queue' = Append(queue, Ev("disconnect", i, TRUE))
      /\ asked' = IF i = gattcIf[cur] THEN "none" ELSE asked
      /\ StackStep /\ UNCHANGED <<registered, offers>>

(* BLEScan::handleGAPEvent.  A result that is wanted: the callback stops   *)
(* the scan and asks loop() to connect.                                    *)
ScanResult ==
    /\ scan # "off" /\ ~stopped /\ cur < MaxClients
    /\ scan' = "off" /\ inquiry' = TRUE /\ stopped' = TRUE /\ Give("ScanEnd")
    /\ doConnect' = TRUE /\ doScan' = TRUE
    /\ UNCHANGED <<pc, cur, connected, mapVars, objVars, semValue, stackVars, queue, faults, ghostVars>>

(* The end of a scan: of a timed one, or, late, of one that was stopped.   *)
ScanEnds ==
    /\ \/ scan = "timed" /\ scan' = "off" /\ UNCHANGED inquiry
       \/ inquiry /\ inquiry' = FALSE /\ UNCHANGED scan
    /\ stopped' = TRUE /\ Give("ScanEnd")
    /\ UNCHANGED <<appVars, mapVars, objVars, semValue, stackVars, queue, faults, ghostVars>>

-----------------------------------------------------------------------------
(* The Bluetooth task                                                      *)

(* Clients without an interface get the events of everybody.  Faulty       *)
(* variant: each hears its own interface only.                             *)
HearsOwn(c, i) == gattcIf[c] = i
Hears(c, i)    == gattcIf[c] \in {i, NoIf}
Targets(i)  == {c \in Peers : Hears(c, i)}

Take(e) ==
    /\ queue # << >> /\ Head(queue).ev \in e
    /\ queue' = Tail(queue)
    /\ UNCHANGED <<pc, cur, doConnect, doScan, link, asked, offers, scanVars, faults, refused>>
From == Head(queue).if
Cur  == cur \in Targets(From)

HandleReg ==
    /\ Take({"reg"})
    /\ gattcIf' = [c \in Clients |-> IF c \in Targets(From) THEN From ELSE gattcIf[c]]
    /\ IF Cur THEN Give("RegEvt") ELSE UNCHANGED taken
    /\ UNCHANGED <<connected, peers, isConnected, objVars, semValue, registered, excuse>>

(* updatePeerDevice looks the interface up among the application numbers.  *)
UpdatePeerDevice(i, c) ==
    LET key == FirstIf + i - 1
    IN IF key \in DOMAIN peers THEN [peers EXCEPT ![key] = c] ELSE peers

(* The client made last has the highest application number, is told last,  *)
(* and so its update is the one that stays.                                *)
HandleConnect ==
    /\ Take({"connect"})
    /\ peers' = IF Cur THEN UpdatePeerDevice(From, cur) ELSE peers
    /\ UNCHANGED <<connected, gattcIf, isConnected, objVars, semVars, registered, excuse>>

HandleOpen ==
    /\ Take({"open"})
    /\ isConnected' = [c \in Clients |-> isConnected[c] \/ (Head(queue).ok /\ c \in Targets(From))]
    /\ IF Cur THEN GiveValue("OpenEvt", IF Head(queue).ok THEN 0 ELSE 1) ELSE UNCHANGED semVars
    /\ UNCHANGED <<connected, peers, gattcIf, objVars, registered, excuse>>

HandleSearchResult ==
    /\ Take({"res"})
    /\ services' = (services \/ Cur)
    /\ UNCHANGED <<connected, mapVars, haveServices, descriptor, semVars, registered, excuse>>

(* A search that failed is logged; a semaphore that is not taken yet is    *)
(* taken after it was given.                                               *)
HandleSearchComplete ==
    /\ Take({"cmpl"})
    /\ IF Cur /\ Head(queue).ok THEN GiveValue("SearchCmplEvt", 0) ELSE UNCHANGED semVars
    /\ CASE ~Head(queue).ok    -> Excuse("failed")
         [] pc = "takeSearch"  -> Excuse("early")
         [] OTHER              -> UNCHANGED excuse
    /\ UNCHANGED <<connected, mapVars, objVars, registered>>

HandleCharacteristic ==
    /\ Take({"read", "notify", "write"})
    /\ IF Cur THEN Give([read |-> "ReadCharEvt", notify |-> "RegForNotifyEvt",
                         write |-> "WriteCharEvt"][Head(queue).ev])
              ELSE UNCHANGED taken
    /\ UNCHANGED <<connected, mapVars, objVars, semValue, registered, excuse>>

(* Faulty variant: only the application is told.                           *)
StillConnected(c) == isConnected[c]
ConnectedAfterDisconnect(c) == FALSE

(* Faulty variant: as in the handler of the CLOSE event.                   *)
KeepPeerDevices(cs) == peers
RemovePeerDevices(cs) == Restrict(peers, DOMAIN peers \ {AppId(c) : c \in cs})

(* The search of a lost connection is woken with value 1.                  *)
WakeSearch == GiveValue("SearchCmplEvt", 1)

HandleDisconnect ==
    /\ Take({"disconnect"})
    /\ isConnected' = [c \in Clients |-> IF c \in Targets(From) THEN ConnectedAfterDisconnect(c)
                                                                 ELSE isConnected[c]]
    /\ connected' = (connected /\ Targets(From) = {})
    /\ peers' = RemovePeerDevices(Targets(From))
    /\ registered' = registered \ {gattcIf[c] : c \in Targets(From)}
    /\ IF Cur THEN WakeSearch ELSE UNCHANGED semVars
    /\ CASE Cur /\ pc \in {"register", "reg"}                   -> Excuse("removed")
         [] Cur /\ pc = "takeSearch"                            -> Excuse("early")
         [] Cur /\ pc \in {"reading", "cccd", "registering",
                           "takeWrite", "writing"}              -> Excuse("lost")
         [] OTHER                                               -> UNCHANGED excuse
    /\ UNCHANGED <<gattcIf, objVars>>

-----------------------------------------------------------------------------
App ==
    \/ ScanReturns \/ StartScan \/ CreateClient \/ Register \/ Registered \/ GattcOpen \/ Opened
    \/ SearchService \/ TakeSearch \/ Searched \/ Lookup \/ RetrieveCharacteristics \/ GiveUp \/ ReadValue \/ ReadReturns
    \/ RegisterForNotify \/ WriteDescriptor \/ ConnectedToServer \/ WriteValue \/ TakeWrite \/ WriteReturns
Answer == AnswerRegister \/ AnswerOpen \/ AnswerSearch \/ AnswerCharacteristic
BluetoothTask ==
    \/ HandleReg \/ HandleConnect \/ HandleOpen \/ HandleSearchResult \/ HandleSearchComplete
    \/ HandleCharacteristic \/ HandleDisconnect

Next == App \/ Answer \/ LinkEnds \/ ScanResult \/ ScanEnds \/ BluetoothTask
Spec == Init /\ [][Next]_vars

(* Both tasks run, and the stack answers what it accepted.                 *)
FairSpec == Spec /\ WF_vars(App) /\ WF_vars(Answer) /\ WF_vars(BluetoothTask)
                 /\ WF_vars(ScanResult)
-----------------------------------------------------------------------------
(* Properties                                                              *)

(* updatePeerDevice has put another client into the entry of c.            *)
Displaced(c) == AppId(c) \in DOMAIN peers /\ peers[AppId(c)] # c

(* The connection of an interface is there, or its end is still to be      *)
(* handled.                                                                *)
Live(i) ==
    \/ link[i] # "none"
    \/ \E k \in 1 .. Len(queue) : queue[k].ev = "disconnect" /\ queue[k].if = i

(* m_isConnected is true only while the connection is there or its end is  *)
(* still to be handled (BLEClient.cpp:190, :215): readValue and writeValue *)
(* rely on it.  Only a client displaced from the peer map keeps it.        *)
FlagFollowsLink ==
    \A c \in Clients : isConnected[c] => Displaced(c) \/ Live(gattcIf[c])

(* The events of an interface reach one client only: a client that has     *)
(* been disconnected no longer hears the one that got its interface        *)
(* (BLEClient.cpp:194).  Not so once a registration was rejected, for that *)
(* client stays in the peer map and hears everybody, nor once a client was *)
(* put into the entry of another, where its end does not remove it.        *)
OneHearer ==
    refused = {} /\ (\A c \in Clients : ~Displaced(c)) =>
      \A i \in Ifs : Cardinality({c \in Targets(i) : gattcIf[c] = i}) <= 1

(* Every call of the library returns, but for the reasons above.           *)
CallsReturn ==
    \A w \in DOMAIN Waits \ {"scan"} : (pc = w) ~> (pc # w \/ excuse # "none")
=============================================================================
