--------------------------- MODULE BleClientProofs ---------------------------
(***************************************************************************)
(* Safety of the client for every number of connections, faults, and every *)
(* numbering of applications and interfaces.                               *)
(***************************************************************************)
EXTENDS BleClient, SequenceTheorems, FiniteSetTheorems, TLAPS

USE ClientAssumption DEF ClientAssumption, Clients, Ifs, NoIf

-----------------------------------------------------------------------------
(* The inductive invariant                                                 *)

AnyEvent == [ev : {"reg", "connect", "open", "res", "cmpl", "read", "notify", "write",
                   "disconnect"}, if : Ifs \cup {NoIf}, ok : BOOLEAN]

(* Where loopTask is inside BLEClient::connect.                            *)
Connecting == {"register", "reg", "gattc_open", "open"}

Typed ==
    /\ cur \in 0 .. MaxClients /\ (pc \in Connecting \/ asked # "none" => cur # 0)
    /\ gattcIf \in [Clients -> Ifs \cup {NoIf}]
    /\ isConnected \in [Clients -> BOOLEAN]
    /\ link \in [Ifs -> {"none", "up", "closing"}]
    /\ registered \subseteq Ifs
    /\ queue \in Seq(AnyEvent)

(* The clients that are in their own entry of the peer map.                *)
Home == {c \in Clients : AppId(c) \in DOMAIN peers /\ peers[AppId(c)] = c}

(* Only the clients made so far are in the map, the last one in no entry   *)
(* of its own but as itself.                                               *)
Numbered ==
    /\ DOMAIN peers \subseteq {AppId(c) : c \in 1 .. cur}
    /\ \A a \in DOMAIN peers : peers[a] \in 1 .. cur
    /\ \A c \in Clients : c > cur => gattcIf[c] = NoIf /\ ~isConnected[c]
    /\ AppId(cur) \in DOMAIN peers => peers[AppId(cur)] = cur

(* A client in the entry of another came there by its interface.           *)
Squatting ==
    \A a \in DOMAIN peers :
      \/ a = AppId(peers[a])
      \/ gattcIf[peers[a]] # NoIf /\ a = FirstIf + gattcIf[peers[a]] - 1

(* The phases of a connection that is made: until the interface is known,  *)
(* until the stack has answered, and from the one to the other.            *)
Registering == pc = "reg" /\ "RegEvt" \in taken
Opening     == pc = "open" /\ "OpenEvt" \in taken
Chosen      == pc = "gattc_open" \/ (pc = "reg" /\ "RegEvt" \notin taken)

Pending(e) == \E k \in 1 .. Len(queue) : queue[k].ev = e

Asking ==
    /\ pc = "register" => "RegEvt" \in taken
    /\ pc = "gattc_open" => "OpenEvt" \in taken
    /\ pc = "register" \/ Registering => gattcIf[cur] = NoIf
    /\ asked = "reg" => Registering /\ ~Pending("reg")
    /\ asked = "open" => Opening /\ ~Pending("connect") /\ ~Pending("open")
    /\ Opening => asked = "open" \/ Pending("open")

(* The interface just registered belongs to nobody else.                   *)
RegPending ==
    \A k \in 1 .. Len(queue) : queue[k].ev = "reg" =>
      /\ Registering /\ \A j \in 1 .. Len(queue) : queue[j].ev = "reg" => j = k
      /\ queue[k].if \in registered /\ ~Live(queue[k].if)
      /\ \A c \in Home : gattcIf[c] # queue[k].if

(* A client that opens a connection is in the map with its interface, as   *)
(* everybody in the map has one by then.                                   *)
Holding ==
    Chosen \/ Opening =>
      gattcIf[cur] \in Ifs /\ cur \in Home /\ \A a \in DOMAIN peers : gattcIf[peers[a]] # NoIf

NotYetOpen == Chosen \/ asked = "open" => ~Live(gattcIf[cur])

(* The connect event comes before the open event, and both before the end  *)
(* of the connection; once the connect event is handled nobody else is in  *)
(* the entry that the interface points to.                                 *)
OpenPending ==
    \A k \in 1 .. Len(queue) : queue[k].ev \in {"connect", "open"} =>
      /\ Opening /\ queue[k].if = gattcIf[cur]
      /\ \A j \in 1 .. Len(queue) : queue[j].ev = "disconnect" /\ queue[j].if = gattcIf[cur] => k < j
      /\ queue[k].ok => Live(gattcIf[cur])
      /\ queue[k].ev = "open" =>
           /\ \A j \in 1 .. Len(queue) : /\ queue[j].ev = "open" => j = k
                                         /\ queue[j].ev = "connect" => j < k
           /\ queue[k].ok => \/ \E j \in 1 .. k - 1 : queue[j].ev = "connect"
                             \/ \A a \in DOMAIN peers : a = FirstIf + gattcIf[cur] - 1 => peers[a] = cur

(* A connection ends once.                                                 *)
OneEnd ==
    \A k \in 1 .. Len(queue) : queue[k].ev = "disconnect" =>
      /\ queue[k].if \in Ifs /\ link[queue[k].if] = "none"
      /\ \A j \in 1 .. Len(queue) : queue[j].ev = "disconnect" /\ queue[j].if = queue[k].if => j = k

Reserved ==
    /\ \A i \in Ifs : Live(i) => i \in registered
    /\ \A c \in Home : gattcIf[c] # NoIf => gattcIf[c] \in registered

Flags ==
    \A c \in Clients : isConnected[c] =>
      gattcIf[c] # NoIf /\ AppId(c) \in DOMAIN peers /\ (Displaced(c) \/ Live(gattcIf[c]))

Unique ==
    refused = {} =>
      /\ \A a \in DOMAIN peers : gattcIf[peers[a]] = NoIf => peers[a] = cur /\ pc \in {"register", "reg"}
      /\ \A c, d \in Home : gattcIf[c] = gattcIf[d] /\ gattcIf[c] # NoIf => c = d

IInv == /\ Typed /\ Numbered /\ Squatting /\ Asking /\ RegPending /\ Holding /\ NotYetOpen
        /\ OpenPending /\ OneEnd /\ Reserved /\ Flags /\ Unique
-----------------------------------------------------------------------------
(* Lemmas                                                                  *)

LEMMA AppIds ==
  ASSUME NEW c \in Nat, NEW d \in Nat
  PROVE  AppId(c) \in Int /\ (AppId(c) = AppId(d) => c = d)
  BY DEF AppId

(* What is in the map as itself is in the map, and only there can an       *)
(* event find it.                                                          *)
LEMMA Mapped ==
  /\ \A c \in Home : c \in Clients /\ c \in Peers
  /\ \A i, c : c \in Targets(i) <=> c \in Peers /\ gattcIf[c] \in {i, NoIf}
  /\ \A c : c \in Peers <=> \E a \in DOMAIN peers : peers[a] = c
<1>1. \A c : c \in Peers <=> \E a \in DOMAIN peers : peers[a] = c
  BY DEF Peers
<1>2. \A c \in Home : c \in Clients /\ c \in Peers
  BY <1>1 DEF Home
<1> QED BY <1>1, <1>2 DEF Targets, Hears

(* The queue after an event was handled, and after some were posted.       *)
LEMMA Popped ==
  ASSUME queue \in Seq(AnyEvent), queue # << >>, queue' = Tail(queue)
  PROVE  /\ queue' \in Seq(AnyEvent) /\ Len(queue') = Len(queue) - 1 /\ Len(queue) \in Nat \ {0}
         /\ \A k \in 1 .. Len(queue') : k + 1 \in 1 .. Len(queue) /\ queue'[k] = queue[k + 1]
         /\ \A k \in 1 .. Len(queue) : k # 1 => k - 1 \in 1 .. Len(queue') /\ queue'[k - 1] = queue[k]
         /\ Head(queue) = queue[1] /\ 1 \in 1 .. Len(queue)
         /\ queue[1] \in AnyEvent
  OBVIOUS

LEMMA Posted ==
  ASSUME queue \in Seq(AnyEvent), NEW s \in Seq(AnyEvent), queue' = queue \o s
  PROVE  /\ queue' \in Seq(AnyEvent) /\ Len(queue') = Len(queue) + Len(s) /\ Len(queue) \in Nat
         /\ \A k \in 1 .. Len(queue) : k \in 1 .. Len(queue') /\ queue'[k] = queue[k]
         /\ \A k \in 1 .. Len(queue') : k \notin 1 .. Len(queue) =>
              k - Len(queue) \in 1 .. Len(s) /\ queue'[k] = s[k - Len(queue)]
<1>1. Len(queue) \in Nat /\ Len(s) \in Nat
  OBVIOUS
<1>2. queue' \in Seq(AnyEvent) /\ Len(queue') = Len(queue) + Len(s)
  BY ConcatProperties
<1>3. ASSUME NEW k \in 1 .. Len(queue) PROVE k \in 1 .. Len(queue') /\ queue'[k] = queue[k]
  BY <1>1, <1>2, ConcatProperties
<1>4. ASSUME NEW k \in 1 .. Len(queue'), k \notin 1 .. Len(queue)
      PROVE  k - Len(queue) \in 1 .. Len(s) /\ queue'[k] = s[k - Len(queue)]
  BY <1>1, <1>2, <1>4, ConcatProperties
<1> QED BY <1>1, <1>2, <1>3, <1>4

LEMMA PostedOne ==
  ASSUME queue \in Seq(AnyEvent), NEW e \in AnyEvent, queue' = Append(queue, e)
  PROVE  /\ queue' \in Seq(AnyEvent) /\ Len(queue') = Len(queue) + 1 /\ Len(queue) \in Nat
         /\ \A k \in 1 .. Len(queue) : k \in 1 .. Len(queue') /\ queue'[k] = queue[k]
         /\ \A k \in 1 .. Len(queue') : k \in 1 .. Len(queue) \/ k = Len(queue) + 1
         /\ Len(queue) + 1 \in 1 .. Len(queue') /\ queue'[Len(queue) + 1] = e
  OBVIOUS

LEMMA InitIInv == Init => IInv
<1> SUFFICES ASSUME Init PROVE IInv
  OBVIOUS
<1>1. DOMAIN peers = {} /\ Len(queue) = 0 /\ queue \in Seq(AnyEvent)
  BY DEF Init
<1>2. 1 .. Len(queue) = {}
  BY <1>1
<1>3. Typed
  BY <1>1 DEF Init, Typed, Connecting
<1>4. Numbered /\ Squatting
  BY <1>1 DEF Init, Numbered, Squatting
<1>5. Asking /\ Holding /\ NotYetOpen
  BY DEF Init, Asking, Holding, NotYetOpen, Registering, Opening, Chosen
<1>6. RegPending /\ OpenPending /\ OneEnd
  BY <1>2 DEF RegPending, OpenPending, OneEnd
<1>7. Reserved /\ Flags /\ Unique
  <2>1. \A i \in Ifs : ~Live(i)
    BY <1>2 DEF Init, Live
  <2>2. Home = {}
    BY <1>1 DEF Home
  <2> QED BY <1>1, <2>1, <2>2 DEF Init, Reserved, Flags, Unique
<1> QED BY <1>3, <1>4, <1>5, <1>6, <1>7 DEF IInv

-----------------------------------------------------------------------------
(* Steps outside BLEClient::connect                                        *)

MapSame == UNCHANGED <<cur, peers, gattcIf, isConnected, registered, refused>>

(* The map, the clients, and who has what in it are the same.              *)
LEMMA SameMap ==
  ASSUME Numbered, Squatting, MapSame
  PROVE  Numbered' /\ Squatting' /\ Home' = Home /\ Peers' = Peers
         /\ \A c \in Clients : Displaced(c)' <=> Displaced(c)
  BY DEF MapSame, Numbered, Squatting, Home, Peers, Displaced, AppId

(* A step that leaves map and queue alone and happens outside of the       *)
(* making of a connection, or does not matter to it.                       *)
LEMMA Same ==
  ASSUME IInv, MapSame, UNCHANGED queue,
         link' \in [Ifs -> {"none", "up", "closing"}],
         \A i \in Ifs : link'[i] = "none" <=> link[i] = "none",
         asked' # "none" => cur # 0,
         \/ /\ UNCHANGED <<pc, asked>>
            /\ "RegEvt" \in taken' <=> "RegEvt" \in taken
            /\ "OpenEvt" \in taken' <=> "OpenEvt" \in taken
         \/ /\ pc \notin {"register", "reg"} /\ ~Opening /\ pc' \notin Connecting
            /\ asked' \in {asked, "none", "search", "read", "notify", "write"}
  PROVE  IInv'
<1> USE DEF IInv
<1>1. Typed'
  BY DEF Typed, MapSame, Connecting, Registering
<1>2. /\ Numbered' /\ Squatting' /\ Home' = Home
      /\ \A c \in Clients : Displaced(c)' <=> Displaced(c)
  BY SameMap
<1>3. \A i \in Ifs : Live(i)' <=> Live(i)
  BY DEF Live
<1>4. \A e : Pending(e)' <=> Pending(e)
  BY DEF Pending
<1>5. OneEnd' /\ Reserved' /\ Flags'
  <2>1. OneEnd'
    BY DEF OneEnd
  <2>2. Reserved'
    BY <1>2, <1>3 DEF Reserved, MapSame, Typed, Home
  <2>3. Flags'
    BY <1>2, <1>3 DEF Flags, MapSame, Typed, AppId
  <2> QED BY <2>1, <2>2, <2>3
<1>6. CASE /\ UNCHANGED <<pc, asked>>
           /\ "RegEvt" \in taken' <=> "RegEvt" \in taken
           /\ "OpenEvt" \in taken' <=> "OpenEvt" \in taken
  <2>1. (Registering' <=> Registering) /\ (Opening' <=> Opening) /\ (Chosen' <=> Chosen)
    BY <1>6 DEF Registering, Opening, Chosen
  <2>2. Asking'
    BY <1>4, <1>6, <2>1 DEF Asking, MapSame
  <2>3. RegPending'
    BY <1>2, <1>3, <2>1 DEF RegPending, MapSame, Typed
  <2>4. Holding'
    BY <1>2, <2>1 DEF Holding, MapSame
  <2>5. NotYetOpen'
    BY <1>3, <1>6, <2>1 DEF NotYetOpen, MapSame, Holding, Asking
  <2>6. OpenPending'
    BY <1>3, <2>1 DEF OpenPending, MapSame, Holding
  <2>7. Unique'
    BY <1>2, <1>6 DEF Unique, MapSame
  <2> QED BY <1>1, <1>2, <1>5, <2>2, <2>3, <2>4, <2>5, <2>6, <2>7
<1>7. CASE /\ pc \notin {"register", "reg"} /\ ~Opening /\ pc' \notin Connecting
           /\ asked' \in {asked, "none", "search", "read", "notify", "write"}
  <2>1. asked \notin {"reg", "open"} /\ ~Registering
    BY <1>7 DEF Asking, Registering
  <2>2. ~Registering' /\ ~Opening' /\ ~Chosen' /\ pc' # "register" /\ asked' \notin {"reg", "open"}
    BY <1>7, <2>1 DEF Registering, Opening, Chosen, Connecting
  <2>3. \A k \in 1 .. Len(queue) : queue[k].ev \notin {"reg", "connect", "open"}
    BY <1>7, <2>1 DEF RegPending, OpenPending
  <2>4. Asking'
    BY <1>7, <2>2 DEF Asking, Connecting
  <2>5. RegPending' /\ OpenPending'
    BY <2>3 DEF RegPending, OpenPending
  <2>6. Holding' /\ NotYetOpen'
    BY <2>2 DEF Holding, NotYetOpen
  <2>7. Unique'
    BY <1>2, <1>7 DEF Unique, MapSame
  <2> QED BY <1>1, <1>2, <1>5, <2>4, <2>5, <2>6, <2>7
<1> QED BY <1>6, <1>7

AppQuiet ==
    \/ ScanReturns \/ StartScan \/ Opened \/ SearchService \/ TakeSearch \/ Searched \/ Lookup
    \/ RetrieveCharacteristics \/ GiveUp \/ ReadValue \/ ReadReturns \/ RegisterForNotify
    \/ WriteDescriptor \/ ConnectedToServer \/ WriteValue \/ TakeWrite \/ WriteReturns

LEMMA AppQuietIInv == IInv /\ AppQuiet => IInv'
<1> SUFFICES ASSUME IInv, AppQuiet PROVE IInv'
  OBVIOUS
<1>1. /\ pc \notin {"register", "reg"} /\ ~Opening /\ pc' \notin Connecting
      /\ MapSame /\ UNCHANGED queue
      /\ asked' = asked \/ (asked' \in {"search", "read", "notify", "write"} /\ CurLink = "up")
  BY DEF AppQuiet, ScanReturns, StartScan, Opened, SearchService, TakeSearch, Searched, Lookup,
         RetrieveCharacteristics, GiveUp, ReadValue, ReadReturns, RegisterForNotify, WriteDescriptor,
         ConnectedToServer, WriteValue, TakeWrite, WriteReturns, MapSame, AppStep, Goto, Throw, Accepted,
         Rejected, Given, Opening, Connecting, mapVars, stackVars, ghostVars
<1>2. /\ link' \in [Ifs -> {"none", "up", "closing"}]
      /\ \A i \in Ifs : link'[i] = "none" <=> link[i] = "none"
  <2>1. CASE GiveUp
    <3>1. link' = link \/ (CurLink = "up" /\ link' = [link EXCEPT ![gattcIf[cur]] = "closing"])
      BY <2>1 DEF GiveUp
    <3>2. CurLink = "up" => link[gattcIf[cur]] = "up"
      BY DEF CurLink
    <3> QED BY <3>1, <3>2 DEF IInv, Typed
  <2>2. CASE ~GiveUp
    <3>1. link' = link
      BY <2>2 DEF AppQuiet, ScanReturns, StartScan, Opened, SearchService, TakeSearch, Searched, Lookup,
             RetrieveCharacteristics, ReadValue, ReadReturns, RegisterForNotify, WriteDescriptor,
             ConnectedToServer, WriteValue, TakeWrite, WriteReturns, AppStep, stackVars
    <3> QED BY <3>1 DEF IInv, Typed
  <2> QED BY <2>1, <2>2
<1>3. asked' # "none" => cur # 0
  BY <1>1 DEF IInv, Typed, CurLink
<1> QED BY <1>1, <1>2, <1>3, Same

LEMMA ScanIInv == IInv /\ (ScanResult \/ ScanEnds \/ UNCHANGED vars) => IInv'
<1> SUFFICES ASSUME IInv, ScanResult \/ ScanEnds \/ UNCHANGED vars PROVE IInv'
  OBVIOUS
<1>1. MapSame /\ UNCHANGED <<queue, link, pc, asked>>
  BY DEF ScanResult, ScanEnds, MapSame, vars, appVars, mapVars, stackVars, ghostVars
<1>2. /\ "RegEvt" \in taken' <=> "RegEvt" \in taken
      /\ "OpenEvt" \in taken' <=> "OpenEvt" \in taken
  BY DEF ScanResult, ScanEnds, Give, vars, semVars
<1>3. link' \in [Ifs -> {"none", "up", "closing"}] /\ (asked' # "none" => cur # 0)
  BY <1>1 DEF IInv, Typed
<1> QED BY <1>1, <1>2, <1>3, Same

-----------------------------------------------------------------------------
(* The making of a connection                                              *)

LEMMA CreateClientIInv == IInv /\ CreateClient => IInv'
<1> SUFFICES ASSUME IInv, CreateClient PROVE IInv'
  OBVIOUS
<1> USE DEF IInv
<1> DEFINE new == cur + 1
<1>1. /\ pc = "loop" /\ pc' = "register" /\ cur < MaxClients /\ cur' = new /\ "RegEvt" \in taken'
      /\ peers' = AddPeerDevice(new)
      /\ UNCHANGED <<gattcIf, isConnected, registered, link, asked, queue, refused>>
  BY DEF CreateClient, Goto
<1>2. cur \in Nat /\ new \in Clients /\ new \notin 1 .. cur
  BY <1>1 DEF Typed
<1>3. AppId(new) \notin DOMAIN peers
  BY <1>2, AppIds DEF Numbered
<1>4. /\ DOMAIN peers' = DOMAIN peers \cup {AppId(new)} /\ peers'[AppId(new)] = new
      /\ \A a \in DOMAIN peers : peers'[a] = peers[a] /\ a # AppId(new)
  BY <1>1, <1>3 DEF AddPeerDevice
<1>5. \A c \in Clients : c # new => AppId(c)' = AppId(c) /\ AppId(c) # AppId(new)
  BY <1>2, AppIds DEF AppId
<1>6. Home' = Home \cup {new}
  BY <1>2, <1>3, <1>4, <1>5 DEF Home, AppId
<1>7. /\ \A i \in Ifs : Live(i)' <=> Live(i)
      /\ asked \notin {"reg", "open"} /\ ~Opening /\ ~Registering /\ ~Chosen
  BY <1>1 DEF Live, Asking, Opening, Registering, Chosen
<1>8. \A k \in 1 .. Len(queue) : queue[k].ev \notin {"reg", "connect", "open"}
  BY <1>7 DEF RegPending, OpenPending
<1>9. Typed'
  BY <1>1, <1>2 DEF Typed, Connecting
<1>10. Numbered'
  <2>1. DOMAIN peers' \subseteq {AppId(c) : c \in 1 .. new}
    BY <1>2, <1>4 DEF Numbered
  <2>2. \A a \in DOMAIN peers' : peers'[a] \in 1 .. new
    BY <1>2, <1>4 DEF Numbered
  <2>3. \A c \in Clients : c > new => gattcIf[c] = NoIf /\ ~isConnected[c]
    BY <1>2 DEF Numbered
  <2> QED BY <1>1, <1>4, <2>1, <2>2, <2>3 DEF Numbered, AppId
<1>11. Squatting'
  BY <1>1, <1>4 DEF Squatting, AppId
<1>12. gattcIf[new] = NoIf
  BY <1>2 DEF Numbered
<1>13. Asking'
  BY <1>1, <1>7, <1>12 DEF Asking, Registering, Opening
<1>14. RegPending' /\ OpenPending'
  BY <1>1, <1>8 DEF RegPending, OpenPending
<1>15. Holding' /\ NotYetOpen'
  BY <1>1, <1>7 DEF Holding, NotYetOpen, Chosen, Opening
<1>16. OneEnd'
  BY <1>1 DEF OneEnd
<1>17. Reserved'
  BY <1>1, <1>6, <1>7, <1>12 DEF Reserved
<1>18. Flags'
  <2> SUFFICES ASSUME NEW c \in Clients, isConnected[c]
               PROVE  gattcIf[c] # NoIf /\ AppId(c) \in DOMAIN peers' /\ (Displaced(c)' \/ Live(gattcIf[c])')
    BY <1>1 DEF Flags, AppId
  <2>1. gattcIf[c] # NoIf /\ AppId(c) \in DOMAIN peers /\ (Displaced(c) \/ Live(gattcIf[c]))
    BY DEF Flags
  <2>2. Displaced(c) => Displaced(c)'
    BY <1>4, <2>1 DEF Displaced, AppId
  <2>3. Live(gattcIf[c]) => Live(gattcIf[c])'
    BY <1>1 DEF Live
  <2> QED BY <1>4, <2>1, <2>2, <2>3
<1>19. Unique'
  <2> SUFFICES ASSUME refused = {}
               PROVE  /\ \A a \in DOMAIN peers' : gattcIf[peers'[a]] = NoIf => peers'[a] = new
                      /\ \A c, d \in Home' : gattcIf[c] = gattcIf[d] /\ gattcIf[c] # NoIf => c = d
    BY <1>1 DEF Unique
  <2>1. \A a \in DOMAIN peers : gattcIf[peers[a]] # NoIf
    BY <1>1 DEF Unique
  <2>2. \A c, d \in Home : gattcIf[c] = gattcIf[d] /\ gattcIf[c] # NoIf => c = d
    BY DEF Unique
  <2> QED BY <1>4, <1>6, <1>12, <2>1, <2>2
<1> QED BY <1>9, <1>10, <1>11, <1>13, <1>14, <1>15, <1>16, <1>17, <1>18, <1>19

(* The steps in which loopTask calls the stack, and goes on when it has    *)
(* its interface.                                                          *)
LEMMA RegisterIInv == IInv /\ Register => IInv'
<1> SUFFICES ASSUME IInv, Register PROVE IInv'
  OBVIOUS
<1> USE DEF IInv
<1>1. /\ pc = "register" /\ UNCHANGED <<cur, peers, gattcIf, isConnected, registered, link, queue, taken>>
      /\ \/ asked' = "reg" /\ pc' = "reg" /\ refused' = refused
         \/ pc' = "search" /\ refused' = refused \cup {cur} /\ asked' = asked
  BY DEF Register, AppStep, Goto, semVars
<1>2. "RegEvt" \in taken /\ gattcIf[cur] = NoIf /\ ~Registering /\ ~Opening /\ ~Chosen
      /\ asked \notin {"reg", "open"}
  BY <1>1 DEF Asking, Registering, Opening, Chosen
<1>3. \A k \in 1 .. Len(queue) : queue[k].ev \notin {"reg", "connect", "open"}
  BY <1>2 DEF RegPending, OpenPending
<1>4. ~Opening' /\ ~Chosen' /\ (asked' = "reg" <=> Registering') /\ asked' # "open" /\ pc' # "register"
  BY <1>1, <1>2 DEF Registering, Opening, Chosen
<1>5. Home' = Home /\ \A i \in Ifs : Live(i)' <=> Live(i)
  BY <1>1 DEF Home, AppId, Live
<1>6. Typed' /\ Numbered' /\ Squatting'
  BY <1>1 DEF Typed, Connecting, Numbered, Squatting, AppId
<1>7. Asking'
  BY <1>1, <1>2, <1>3, <1>4 DEF Asking, Pending
<1>8. RegPending' /\ OpenPending' /\ OneEnd'
  BY <1>1, <1>3 DEF RegPending, OpenPending, OneEnd
<1>9. Holding' /\ NotYetOpen'
  BY <1>4 DEF Holding, NotYetOpen
<1>10. Reserved'
  BY <1>1, <1>5 DEF Reserved
<1>11. Flags'
  <2>1. \A c \in Clients : Displaced(c)' <=> Displaced(c)
    BY <1>1 DEF Displaced, AppId
  <2> QED BY <1>1, <1>5, <2>1 DEF Flags, Typed, AppId
<1>12. Unique'
  <2>1. CASE pc' = "reg"
    BY <1>1, <1>5, <2>1 DEF Unique
  <2>2. CASE pc' # "reg"
    BY <1>1, <2>2 DEF Unique
  <2> QED BY <2>1, <2>2
<1> QED BY <1>6, <1>7, <1>8, <1>9, <1>10, <1>11, <1>12

LEMMA RegisteredIInv == IInv /\ (Registered \/ GattcOpen) => IInv'
<1> SUFFICES ASSUME IInv, Registered \/ GattcOpen PROVE IInv'
  OBVIOUS
<1> USE DEF IInv
<1>1. CASE GattcOpen /\ pc' = "search"
  <2>1. MapSame /\ UNCHANGED <<queue, link, asked>> /\ pc = "gattc_open"
    BY <1>1 DEF GattcOpen, Goto, AppStep, MapSame, ghostVars
  <2>2. /\ pc \notin {"register", "reg"} /\ ~Opening /\ pc' \notin Connecting
        /\ link' \in [Ifs -> {"none", "up", "closing"}] /\ (asked' # "none" => cur # 0)
    BY <1>1, <2>1 DEF Opening, Connecting, Typed
  <2> QED BY <2>1, <2>2, Same
<1>2. CASE Registered \/ (GattcOpen /\ pc' # "search")
  <2>1. /\ Chosen /\ MapSame /\ UNCHANGED <<queue, link>>
        /\ \/ pc = "reg" /\ pc' = "gattc_open" /\ asked' = asked /\ "OpenEvt" \in taken'
           \/ pc = "gattc_open" /\ pc' = "open" /\ asked' = "open" /\ taken' = taken
    BY <1>2 DEF Registered, GattcOpen, Chosen, Given, Goto, AppStep, MapSame, semVars, ghostVars
  <2>2. /\ ~Registering /\ ~Opening /\ pc # "register" /\ asked \notin {"reg", "open"}
        /\ (pc = "gattc_open" => "OpenEvt" \in taken)
    BY <2>1 DEF Chosen, Registering, Opening, Asking
  <2>3. \A k \in 1 .. Len(queue) : queue[k].ev \notin {"reg", "connect", "open"}
    BY <2>2 DEF RegPending, OpenPending
  <2>4. /\ ~Registering' /\ pc' # "register" /\ asked' # "reg"
        /\ (Chosen' <=> pc' = "gattc_open") /\ (Opening' <=> pc' = "open")
        /\ (Opening' => asked' = "open") /\ (asked' = "open" => Opening')
    BY <2>1, <2>2 DEF Chosen, Registering, Opening
  <2>5. Numbered' /\ Squatting' /\ Home' = Home
    BY <2>1, SameMap
  <2>6. \A c \in Clients : Displaced(c)' <=> Displaced(c)
    BY <2>1, SameMap
  <2>7. \A i \in Ifs : Live(i)' <=> Live(i)
    BY <2>1 DEF Live
  <2>8. Typed'
    BY <2>1 DEF Typed, Connecting, MapSame, Chosen
  <2>9. Asking'
    BY <2>1, <2>2, <2>3, <2>4 DEF Asking, Pending
  <2>10. RegPending' /\ OpenPending' /\ OneEnd'
    BY <2>1, <2>3 DEF RegPending, OpenPending, OneEnd
  <2>11. Holding'
    BY <2>1, <2>5 DEF Holding, MapSame
  <2>12. NotYetOpen'
    BY <2>1, <2>7 DEF NotYetOpen, Holding, MapSame
  <2>13. Reserved'
    BY <2>1, <2>5, <2>7 DEF Reserved, MapSame
  <2>14. Flags'
    BY <2>1, <2>6, <2>7 DEF Flags, Typed, AppId, MapSame
  <2>15. Unique'
    BY <2>1, <2>5 DEF Unique, MapSame, Holding
  <2> QED BY <2>5, <2>8, <2>9, <2>10, <2>11, <2>12, <2>13, <2>14, <2>15
<1> QED BY <1>1, <1>2

-----------------------------------------------------------------------------
(* The stack                                                               *)

LEMMA AnswerRegisterIInv == IInv /\ AnswerRegister => IInv'
<1> SUFFICES ASSUME IInv, AnswerRegister PROVE IInv'
  OBVIOUS
<1> USE DEF IInv
<1>1. PICK i \in Ifs \ registered :
        registered' = registered \cup {i} /\ queue' = Append(queue, Ev("reg", i, TRUE))
  BY DEF AnswerRegister
<1>2. /\ asked = "reg" /\ asked' = "none"
      /\ UNCHANGED <<pc, cur, peers, gattcIf, isConnected, taken, link, refused>>
  BY DEF AnswerRegister, StackStep, appVars, mapVars, semVars, ghostVars
<1>3. Ev("reg", i, TRUE) \in AnyEvent /\ Ev("reg", i, TRUE).ev = "reg" /\ Ev("reg", i, TRUE).if = i
  BY DEF Ev, AnyEvent
<1> DEFINE last == Len(queue) + 1
<1>4. /\ queue' \in Seq(AnyEvent) /\ Len(queue) \in Nat
      /\ \A k \in 1 .. Len(queue) : k \in 1 .. Len(queue') /\ queue'[k] = queue[k]
      /\ \A k \in 1 .. Len(queue') : k \in 1 .. Len(queue) \/ k = last
      /\ queue'[last].ev = "reg" /\ queue'[last].if = i
  BY <1>1, <1>3, PostedOne DEF Typed
<1> HIDE DEF last
<1>5. /\ Registering /\ ~Opening /\ ~Chosen
      /\ \A k \in 1 .. Len(queue) : queue[k].ev \notin {"reg", "connect", "open"}
  BY <1>2 DEF Asking, Pending, OpenPending, Registering, Opening, Chosen
<1>6. \A n \in Ifs : Live(n)' <=> Live(n)
  BY <1>2, <1>4 DEF Live
<1>7. ~Live(i) /\ \A c \in Home : gattcIf[c] # i
  BY <1>1 DEF Reserved
<1>8. /\ Registering' /\ ~Opening' /\ ~Chosen' /\ Home' = Home
      /\ \A c \in Clients : Displaced(c)' <=> Displaced(c)
  BY <1>2, <1>5 DEF Registering, Opening, Chosen, Home, Displaced, AppId
<1>9. Typed' /\ Numbered' /\ Squatting'
  BY <1>1, <1>2, <1>4 DEF Typed, Numbered, Squatting, AppId
<1>10. Asking' /\ Holding' /\ NotYetOpen'
  BY <1>2, <1>8 DEF Asking, Holding, NotYetOpen, Registering
<1>11. RegPending'
  <2> SUFFICES ASSUME NEW k \in 1 .. Len(queue'), queue'[k].ev = "reg"
               PROVE  /\ \A j \in 1 .. Len(queue') : queue'[j].ev = "reg" => j = k
                      /\ queue'[k].if \in registered' /\ ~Live(queue[k].if)'
                      /\ \A c \in Home' : gattcIf'[c] # queue'[k].if
    BY <1>8 DEF RegPending
  <2>1. k = last
    BY <1>4, <1>5
  <2>2. ~Live(i)'
    BY <1>1, <1>6, <1>7
  <2>3. queue'[k].if = i
    BY <1>4, <2>1
  <2>4. ~Live(queue[k].if)'
    BY <2>2, <2>3 DEF Live
  <2> QED BY <1>1, <1>2, <1>4, <1>5, <1>7, <1>8, <2>1, <2>3, <2>4
<1>12. OpenPending'
  BY <1>4, <1>5 DEF OpenPending
<1>13. OneEnd'
  BY <1>2, <1>4 DEF OneEnd
<1>14. Reserved'
  BY <1>1, <1>2, <1>6, <1>8 DEF Reserved
<1>15. Flags'
  BY <1>2, <1>6, <1>8 DEF Flags, Typed, AppId
<1>16. Unique'
  BY <1>2, <1>8 DEF Unique
<1> QED BY <1>9, <1>10, <1>11, <1>12, <1>13, <1>14, <1>15, <1>16

(* The stack opens the connection, or fails to and may report its end.     *)
LEMMA AnswerOpenIInv == IInv /\ AnswerOpen => IInv'
<1> SUFFICES ASSUME IInv, AnswerOpen PROVE IInv'
  OBVIOUS
<1> USE DEF IInv
<1> DEFINE i == gattcIf[cur]
           L == Len(queue)
<1>1. /\ asked = "open" /\ asked' = "none"
      /\ UNCHANGED <<pc, cur, peers, gattcIf, isConnected, taken, registered, refused>>
  BY DEF AnswerOpen, StackStep, appVars, mapVars, semVars, ghostVars
<1>2. /\ Opening /\ ~Registering /\ ~Chosen /\ i \in Ifs /\ cur \in Home /\ ~Live(i) /\ i \in registered
      /\ \A a \in DOMAIN peers : gattcIf[peers[a]] # NoIf
  BY <1>1 DEF Asking, Holding, NotYetOpen, Reserved, Opening, Registering, Chosen
<1>3. \A k \in 1 .. Len(queue) : queue[k].ev \notin {"reg", "connect", "open"}
  BY <1>1, <1>2 DEF Asking, Pending, RegPending
<1>4. link[i] = "none" /\ \A k \in 1 .. Len(queue) : queue[k].ev = "disconnect" => queue[k].if # i
  BY <1>2 DEF Live
<1>5. /\ Ev("connect", i, TRUE) \in AnyEvent /\ Ev("open", i, TRUE) \in AnyEvent
      /\ Ev("open", i, FALSE) \in AnyEvent /\ Ev("disconnect", i, TRUE) \in AnyEvent
      /\ L \in Nat /\ queue \in Seq(AnyEvent)
  BY <1>2 DEF Ev, AnyEvent, Typed
(* The three outcomes, by what is new in the queue.                        *)
<1> DEFINE Old  == /\ queue' \in Seq(AnyEvent)
                   /\ \A k \in 1 .. L : k \in 1 .. Len(queue') /\ queue'[k] = queue[k]
           Up   == /\ Len(queue') = L + 2 /\ link' = [link EXCEPT ![i] = "up"]
                   /\ queue'[L + 1] = Ev("connect", i, TRUE) /\ queue'[L + 2] = Ev("open", i, TRUE)
           Fail == /\ Len(queue') = L + 1 /\ link' = link /\ queue'[L + 1] = Ev("open", i, FALSE)
           End  == /\ Len(queue') = L + 2 /\ link' = link
                   /\ queue'[L + 1] = Ev("open", i, FALSE) /\ queue'[L + 2] = Ev("disconnect", i, TRUE)
<1>6. Old /\ (Up \/ Fail \/ End)
  <2>1. \/ link' = [link EXCEPT ![i] = "up"] /\ queue' = queue \o <<Ev("connect", i, TRUE), Ev("open", i, TRUE)>>
        \/ link' = link /\ queue' = Append(queue, Ev("open", i, FALSE))
        \/ link' = link /\ queue' = queue \o <<Ev("open", i, FALSE), Ev("disconnect", i, TRUE)>>
    BY DEF AnswerOpen
  <2>2. ASSUME NEW x \in AnyEvent, NEW y \in AnyEvent, queue' = queue \o <<x, y>>
        PROVE  Old /\ Len(queue') = L + 2 /\ queue'[L + 1] = x /\ queue'[L + 2] = y
    <3>1. <<x, y>> \in Seq(AnyEvent) /\ Len(<<x, y>>) = 2 /\ <<x, y>>[1] = x /\ <<x, y>>[2] = y
      OBVIOUS
    <3> DEFINE s == <<x, y>>
    <3> HIDE DEF s
    <3>2. s \in Seq(AnyEvent) /\ Len(s) = 2 /\ s[1] = x /\ s[2] = y /\ queue' = queue \o s
      BY <2>2, <3>1 DEF s
    <3>3. /\ queue' \in Seq(AnyEvent) /\ Len(queue') = L + 2
          /\ \A k \in 1 .. L : k \in 1 .. Len(queue') /\ queue'[k] = queue[k]
          /\ \A k \in 1 .. Len(queue') : k \notin 1 .. L => queue'[k] = s[k - L]
      BY <1>5, <3>2, Posted
    <3>4. L + 1 \in 1 .. L + 2 /\ L + 2 \in 1 .. L + 2 /\ L + 1 \notin 1 .. L /\ L + 2 \notin 1 .. L
          /\ (L + 1) - L = 1 /\ (L + 2) - L = 2
      BY <1>5
    <3>5. queue'[L + 1] = s[1] /\ queue'[L + 2] = s[2]
      BY <3>3, <3>4
    <3> QED BY <1>5, <3>2, <3>3, <3>5
  <2>3. ASSUME queue' = Append(queue, Ev("open", i, FALSE)) PROVE Old /\ Len(queue') = L + 1
                                                    /\ queue'[L + 1] = Ev("open", i, FALSE)
    BY <1>5, <2>3, PostedOne
  <2> QED BY <1>5, <2>1, <2>2, <2>3
<1>7. /\ Up => Len(queue') = L + 2 /\ queue'[L + 1].ev = "connect" /\ queue'[L + 2].ev = "open"
               /\ queue'[L + 1].if = i /\ queue'[L + 2].if = i /\ link' = [link EXCEPT ![i] = "up"]
      /\ Fail => Len(queue') = L + 1 /\ queue'[L + 1].ev = "open" /\ ~queue'[L + 1].ok
                 /\ queue'[L + 1].if = i /\ link' = link
      /\ End => Len(queue') = L + 2 /\ queue'[L + 1].ev = "open" /\ queue'[L + 2].ev = "disconnect"
                /\ ~queue'[L + 1].ok /\ queue'[L + 1].if = i /\ queue'[L + 2].if = i /\ link' = link
  BY DEF Ev
<1>8. /\ queue' \in Seq(AnyEvent) /\ L \in Nat
      /\ \A k \in 1 .. L : k \in 1 .. Len(queue') /\ queue'[k] = queue[k]
  BY <1>5, <1>6
<1>9. ASSUME NEW k \in 1 .. Len(queue'), k \notin 1 .. L
      PROVE  /\ queue'[k].if = i
             /\ \/ Up /\ k = L + 1 /\ queue'[k].ev = "connect"
                \/ Up /\ k = L + 2 /\ queue'[k].ev = "open"
                \/ ~Up /\ k = L + 1 /\ queue'[k].ev = "open" /\ ~queue'[k].ok
                \/ End /\ ~Up /\ k = L + 2 /\ queue'[k].ev = "disconnect"
  <2>0. Len(queue') \in {L + 1, L + 2}
    BY <1>6
  <2>1. k = L + 1 \/ (k = L + 2 /\ Len(queue') = L + 2)
    BY <1>5, <1>9, <2>0
  <2>2. CASE Up
    <3> HIDE DEF Up, Fail, End
    <3> QED BY <1>7, <2>1, <2>2
  <2>3. CASE Fail
    <3> HIDE DEF Up, Fail, End
    <3>1. k = L + 1
      BY <1>5, <1>7, <2>1, <2>3
    <3> QED BY <1>7, <2>3, <3>1
  <2>4. CASE End
    <3> HIDE DEF Up, Fail, End
    <3> QED BY <1>7, <2>1, <2>4
  <2> QED BY <1>6, <2>2, <2>3, <2>4
<1> HIDE DEF Old, Up, Fail, End
<1>10. /\ Up => L + 1 \in 1 .. Len(queue') /\ queue'[L + 1].ev = "connect"
       /\ Up => L + 2 \in 1 .. Len(queue') /\ queue'[L + 2].ev = "open"
       /\ ~Up => L + 1 \in 1 .. Len(queue') /\ queue'[L + 1].ev = "open"
  BY <1>5, <1>6, <1>7
<1>11. link' \in [Ifs -> {"none", "up", "closing"}] /\ (Up => link'[i] = "up") /\ (~Up => link' = link)
       /\ \A n \in Ifs : n # i => link'[n] = link[n]
  BY <1>2, <1>6, <1>7 DEF Typed
<1>12. /\ \A n \in Ifs : Live(n) => Live(n)'
       /\ \A n \in Ifs : Live(n)' => Live(n) \/ n = i
       /\ Up => Live(i)'
  <2>1. \A n \in Ifs : Live(n) => Live(n)'
    BY <1>4, <1>8, <1>11 DEF Live
  <2>2. ASSUME NEW n \in Ifs, Live(n)', n # i PROVE Live(n)
    BY <1>8, <1>9, <1>11, <2>2 DEF Live
  <2>3. Up => Live(i)'
    BY <1>1, <1>11 DEF Live
  <2> QED BY <2>1, <2>2, <2>3
<1>13. /\ ~Registering' /\ ~Chosen' /\ Opening' /\ Home' = Home
       /\ \A c \in Clients : Displaced(c)' <=> Displaced(c)
  BY <1>1, <1>2 DEF Registering, Chosen, Opening, Home, Displaced, AppId
<1>14. Typed' /\ Numbered' /\ Squatting'
  <2>1. Typed'
    BY <1>1, <1>8, <1>11 DEF Typed, Connecting
  <2>2. Numbered' /\ Squatting'
    BY <1>1 DEF Numbered, Squatting, AppId
  <2> QED BY <2>1, <2>2
<1>15. Asking'
  <2>1. Pending("open")'
    BY <1>10 DEF Pending
  <2> QED BY <1>1, <1>2, <1>13, <2>1 DEF Asking, Opening
<1>16. RegPending'
  BY <1>3, <1>8, <1>9 DEF RegPending
<1>17. Holding' /\ NotYetOpen'
  BY <1>1, <1>2, <1>13 DEF Holding, NotYetOpen
<1>18. OpenPending'
  <2> SUFFICES ASSUME NEW k \in 1 .. Len(queue'), queue'[k].ev \in {"connect", "open"}
               PROVE  /\ Opening' /\ queue'[k].if = i
                      /\ \A j \in 1 .. Len(queue') :
                           queue'[j].ev = "disconnect" /\ queue'[j].if = i => k < j
                      /\ queue'[k].ok => Live(i)'
                      /\ queue'[k].ev = "open" =>
                           /\ \A j \in 1 .. Len(queue') : /\ queue'[j].ev = "open" => j = k
                                                          /\ queue'[j].ev = "connect" => j < k
                           /\ queue'[k].ok => \E j \in 1 .. k - 1 : queue'[j].ev = "connect"
    BY <1>1 DEF OpenPending
  <2>1. k \notin 1 .. L
    BY <1>3, <1>8
  <2>2. ASSUME NEW j \in 1 .. Len(queue'), queue'[j].ev = "disconnect", queue'[j].if = i PROVE k < j
    <3>1. j \notin 1 .. L
      BY <1>4, <1>8, <2>2
    <3> QED BY <1>8, <1>9, <2>1, <2>2, <3>1
  <2>3. queue'[k].ok => Up
    BY <1>9, <2>1
  <2>4. ASSUME queue'[k].ev = "open", NEW j \in 1 .. Len(queue')
        PROVE  (queue'[j].ev = "open" => j = k) /\ (queue'[j].ev = "connect" => j < k)
    <3>1. CASE j \in 1 .. L
      BY <1>3, <1>8, <3>1
    <3>2. CASE j \notin 1 .. L
      <4>1. k = L + 2 \/ (k = L + 1 /\ ~Up)
        BY <1>9, <2>1, <2>4
      <4>2. (queue'[j].ev = "connect" => Up /\ j = L + 1) /\ (queue'[j].ev = "open" => j = IF Up THEN L + 2 ELSE L + 1)
        BY <1>9, <3>2
      <4>3. k = IF Up THEN L + 2 ELSE L + 1
        BY <1>9, <2>1, <2>4
      <4> QED BY <1>8, <4>1, <4>2, <4>3
    <3> QED BY <3>1, <3>2
  <2>5. queue'[k].ev = "open" /\ queue'[k].ok => \E j \in 1 .. k - 1 : queue'[j].ev = "connect"
    <3> SUFFICES ASSUME queue'[k].ev = "open", queue'[k].ok PROVE \E j \in 1 .. k - 1 : queue'[j].ev = "connect"
      OBVIOUS
    <3>1. k = L + 2
      BY <1>9, <2>1
    <3>2. L + 1 \in 1 .. k - 1
      BY <1>8, <3>1
    <3> QED BY <1>10, <2>3, <3>2
  <2> QED BY <1>9, <1>12, <1>13, <2>1, <2>2, <2>3, <2>4, <2>5
<1>19. OneEnd'
  <2> SUFFICES ASSUME NEW k \in 1 .. Len(queue'), queue'[k].ev = "disconnect"
               PROVE  /\ queue'[k].if \in Ifs /\ link'[queue'[k].if] = "none"
                      /\ \A j \in 1 .. Len(queue') :
                           queue'[j].ev = "disconnect" /\ queue'[j].if = queue'[k].if => j = k
    BY DEF OneEnd
  <2>1. CASE k \in 1 .. L
    <3>1. queue[k].if \in Ifs /\ queue[k].if # i /\ link[queue[k].if] = "none" /\ queue'[k] = queue[k]
      BY <1>4, <1>8, <2>1 DEF OneEnd
    <3>2. ASSUME NEW j \in 1 .. Len(queue'), queue'[j].ev = "disconnect", queue'[j].if = queue'[k].if
          PROVE  j = k
      <4>1. j \in 1 .. L
        BY <1>9, <3>1, <3>2
      <4> QED BY <1>8, <2>1, <3>1, <3>2, <4>1 DEF OneEnd
    <3> QED BY <1>11, <3>1, <3>2
  <2>2. CASE k \notin 1 .. L
    <3>1. k = L + 2 /\ ~Up /\ queue'[k].if = i
      BY <1>9, <2>2
    <3>2. ASSUME NEW j \in 1 .. Len(queue'), queue'[j].ev = "disconnect", queue'[j].if = i
          PROVE  j = k
      <4>1. j \notin 1 .. L
        BY <1>4, <1>8, <3>2
      <4> QED BY <1>9, <3>1, <3>2, <4>1
    <3> QED BY <1>2, <1>4, <1>11, <3>1, <3>2
  <2> QED BY <2>1, <2>2
<1>20. Reserved'
  BY <1>1, <1>2, <1>12, <1>13 DEF Reserved
<1>21. Flags'
  BY <1>1, <1>12, <1>13 DEF Flags, Typed, AppId
<1>22. Unique'
  BY <1>1, <1>13 DEF Unique
<1> QED BY <1>14, <1>15, <1>16, <1>17, <1>18, <1>19, <1>20, <1>21, <1>22

(* The other answers do not matter to the making of a connection.          *)
QuietEvents == {"res", "cmpl", "read", "notify", "write"}

LEMMA PostedQuiet ==
  ASSUME IInv, NEW s \in Seq(AnyEvent), queue' = queue \o s,
         \A j \in 1 .. Len(s) : s[j].ev \in QuietEvents,
         MapSame, UNCHANGED <<pc, taken, link>>, asked \notin {"reg", "open"}, asked' = "none"
  PROVE  IInv'
<1> USE DEF IInv
<1>1. /\ queue' \in Seq(AnyEvent) /\ Len(queue) \in Nat
      /\ \A k \in 1 .. Len(queue) : k \in 1 .. Len(queue') /\ queue'[k] = queue[k]
      /\ \A k \in 1 .. Len(queue') : k \notin 1 .. Len(queue) => queue'[k].ev \in QuietEvents
  <2>1. queue \in Seq(AnyEvent)
    BY DEF Typed
  <2>2. /\ queue' \in Seq(AnyEvent) /\ Len(queue) \in Nat
        /\ \A k \in 1 .. Len(queue) : k \in 1 .. Len(queue') /\ queue'[k] = queue[k]
    BY <2>1, Posted
  <2>3. ASSUME NEW k \in 1 .. Len(queue'), k \notin 1 .. Len(queue) PROVE queue'[k].ev \in QuietEvents
    <3>1. k - Len(queue) \in 1 .. Len(s) /\ queue'[k] = s[k - Len(queue)]
      BY <2>1, <2>3, Posted
    <3> QED BY <3>1
  <2> QED BY <2>2, <2>3
<1>2. \A k \in 1 .. Len(queue') : queue'[k].ev \in {"reg", "connect", "open", "disconnect"} =>
        k \in 1 .. Len(queue) /\ queue'[k] = queue[k]
  BY <1>1 DEF QuietEvents
<1>3. /\ Numbered' /\ Squatting' /\ Home' = Home
      /\ \A c \in Clients : Displaced(c)' <=> Displaced(c)
  BY SameMap
<1>4. \A n \in Ifs : Live(n)' <=> Live(n)
  BY <1>1, <1>2 DEF Live
<1>5. \A e \in {"reg", "connect", "open"} : Pending(e)' <=> Pending(e)
  BY <1>1, <1>2 DEF Pending
<1>6. (Registering' <=> Registering) /\ (Opening' <=> Opening) /\ (Chosen' <=> Chosen)
  BY DEF Registering, Opening, Chosen
<1>7. Typed'
  BY <1>1 DEF Typed, MapSame
<1>8. Asking'
  BY <1>5, <1>6 DEF Asking, MapSame
<1>9. RegPending'
  <2> SUFFICES ASSUME NEW k \in 1 .. Len(queue'), queue'[k].ev = "reg"
               PROVE  /\ Registering' /\ \A j \in 1 .. Len(queue') : queue'[j].ev = "reg" => j = k
                      /\ queue'[k].if \in registered' /\ ~Live(queue[k].if)'
                      /\ \A c \in Home' : gattcIf'[c] # queue'[k].if
    BY DEF RegPending
  <2>1. k \in 1 .. Len(queue) /\ queue'[k] = queue[k]
    BY <1>2
  <2>2. ~Live(queue[k].if)'
    BY <1>2, <2>1 DEF RegPending, Live
  <2> QED BY <1>2, <1>3, <1>6, <2>1, <2>2 DEF RegPending, MapSame
<1>10. Holding' /\ NotYetOpen'
  BY <1>3, <1>4, <1>6 DEF Holding, NotYetOpen, MapSame
<1>11. OpenPending'
  <2> SUFFICES ASSUME NEW k \in 1 .. Len(queue'), queue'[k].ev \in {"connect", "open"}
               PROVE  /\ Opening' /\ queue'[k].if = gattcIf[cur]
                      /\ \A j \in 1 .. Len(queue') :
                           queue'[j].ev = "disconnect" /\ queue'[j].if = gattcIf[cur] => k < j
                      /\ queue'[k].ok => Live(gattcIf[cur])'
                      /\ queue'[k].ev = "open" =>
                           /\ \A j \in 1 .. Len(queue') : /\ queue'[j].ev = "open" => j = k
                                                          /\ queue'[j].ev = "connect" => j < k
                           /\ queue'[k].ok => \/ \E j \in 1 .. k - 1 : queue'[j].ev = "connect"
                                              \/ \A a \in DOMAIN peers : a = FirstIf + gattcIf[cur] - 1
                                                                          => peers[a] = cur
    BY DEF OpenPending, MapSame
  <2>1. k \in 1 .. Len(queue) /\ queue'[k] = queue[k]
    BY <1>2
  <2>2. Opening /\ queue[k].if = gattcIf[cur] /\ (queue[k].ok => Live(gattcIf[cur]))
    BY <2>1 DEF OpenPending
  <2>3. Live(gattcIf[cur]) => Live(gattcIf[cur])'
    BY <1>1 DEF Live, MapSame
  <2>4. \A j \in 1 .. k - 1 : j \in 1 .. Len(queue) /\ queue'[j] = queue[j]
    BY <1>1, <2>1
  <2>5. \A j \in 1 .. Len(queue') : queue'[j].ev = "disconnect" /\ queue'[j].if = gattcIf[cur] => k < j
    BY <1>2, <2>1 DEF OpenPending
  <2>6. queue'[k].ev = "open" =>
           \A j \in 1 .. Len(queue') : /\ queue'[j].ev = "open" => j = k
                                       /\ queue'[j].ev = "connect" => j < k
    BY <1>2, <2>1 DEF OpenPending
  <2>7. queue'[k].ev = "open" /\ queue'[k].ok =>
           \/ \E j \in 1 .. k - 1 : queue'[j].ev = "connect"
           \/ \A a \in DOMAIN peers : a = FirstIf + gattcIf[cur] - 1 => peers[a] = cur
    BY <2>1, <2>4 DEF OpenPending
  <2> QED BY <1>6, <2>1, <2>2, <2>3, <2>5, <2>6, <2>7
<1>12. OneEnd'
  <2> SUFFICES ASSUME NEW k \in 1 .. Len(queue'), queue'[k].ev = "disconnect"
               PROVE  /\ queue'[k].if \in Ifs /\ link[queue'[k].if] = "none"
                      /\ \A j \in 1 .. Len(queue') :
                           queue'[j].ev = "disconnect" /\ queue'[j].if = queue'[k].if => j = k
    BY DEF OneEnd
  <2>1. k \in 1 .. Len(queue) /\ queue'[k] = queue[k]
    BY <1>2
  <2>2. \A j \in 1 .. Len(queue') : queue'[j].ev = "disconnect" =>
          j \in 1 .. Len(queue) /\ queue'[j] = queue[j]
    BY <1>2
  <2> QED BY <2>1, <2>2 DEF OneEnd
<1>13. Reserved'
  BY <1>3, <1>4 DEF Reserved, MapSame
<1>14. Flags'
  BY <1>3, <1>4 DEF Flags, Typed, AppId, MapSame
<1>15. Unique'
  BY <1>3 DEF Unique, MapSame
<1> QED BY <1>3, <1>7, <1>8, <1>9, <1>10, <1>11, <1>12, <1>13, <1>14, <1>15

LEMMA AnswerQuietIInv == IInv /\ (AnswerSearch \/ AnswerCharacteristic) => IInv'
<1> SUFFICES ASSUME IInv, AnswerSearch \/ AnswerCharacteristic PROVE IInv'
  OBVIOUS
<1> DEFINE i == gattcIf[cur]
<1>1. /\ asked \notin {"none", "reg", "open"} /\ asked' = "none"
      /\ MapSame /\ UNCHANGED <<pc, taken, link>>
  BY DEF AnswerSearch, AnswerCharacteristic, StackStep, appVars, mapVars, semVars, ghostVars, MapSame
<1>2. i \in Ifs \cup {NoIf} /\ queue \in Seq(AnyEvent)
  BY <1>1 DEF IInv, Typed
<1>3. \A e \in QuietEvents, ok \in BOOLEAN : Ev(e, i, ok) \in AnyEvent /\ Ev(e, i, ok).ev \in QuietEvents
  BY <1>2 DEF Ev, AnyEvent, QuietEvents
<1>4. \E s \in Seq(AnyEvent) : queue' = queue \o s /\ \A j \in 1 .. Len(s) : s[j].ev \in QuietEvents
  <2>1. CASE \E e \in QuietEvents, ok \in BOOLEAN : queue' = Append(queue, Ev(e, i, ok))
    <3>1. PICK x \in AnyEvent : x.ev \in QuietEvents /\ queue' = Append(queue, x)
      BY <1>3, <2>1
    <3>2. Append(queue, x) = queue \o <<x>>
      BY <1>2
    <3>3. <<x>> \in Seq(AnyEvent) /\ \A j \in 1 .. Len(<<x>>) : <<x>>[j] = x
      OBVIOUS
    <3> QED BY <3>1, <3>2, <3>3
  <2>2. CASE \E x, y \in AnyEvent : x.ev \in QuietEvents /\ y.ev \in QuietEvents
                                     /\ queue' = (queue \o <<x>>) \o <<y>>
    <3>1. PICK x, y \in AnyEvent : x.ev \in QuietEvents /\ y.ev \in QuietEvents
                                    /\ queue' = (queue \o <<x>>) \o <<y>>
      BY <2>2
    <3>2. /\ <<x>> \in Seq(AnyEvent) /\ Len(<<x>>) = 1 /\ <<x>>[1] = x
          /\ <<y>> \in Seq(AnyEvent) /\ Len(<<y>>) = 1 /\ <<y>>[1] = y
      OBVIOUS
    <3> DEFINE s == <<x>> \o <<y>>
    <3>3. queue' = queue \o s /\ s \in Seq(AnyEvent)
      BY <1>2, <3>1, <3>2, ConcatAssociative, ConcatProperties
    <3>4. Len(s) = 1 + 1 /\ \A j \in 1 .. 1 + 1 : s[j] = IF j <= 1 THEN <<x>>[j] ELSE <<y>>[j - 1]
      BY <3>2, ConcatProperties
    <3>5. \A j \in 1 .. Len(s) : s[j] \in {x, y}
      BY <3>2, <3>4
    <3> HIDE DEF s
    <3> QED BY <3>1, <3>3, <3>5
  <2>3. CASE AnswerCharacteristic
    <3>1. queue' = Append(queue, Ev(asked, i, TRUE)) /\ asked \in QuietEvents
      BY <2>3 DEF AnswerCharacteristic, QuietEvents
    <3> QED BY <2>1, <3>1
  <2>4. CASE AnswerSearch
    <3>1. \/ queue' = queue \o (IF offers THEN <<Ev("res", i, TRUE)>> ELSE << >>) \o <<Ev("cmpl", i, TRUE)>>
          \/ queue' = Append(queue, Ev("cmpl", i, FALSE))
      BY <2>4 DEF AnswerSearch
    <3>2. queue \o << >> = queue
      BY <1>2, ConcatEmptySeq
    <3>3. \/ queue' = (queue \o <<Ev("res", i, TRUE)>>) \o <<Ev("cmpl", i, TRUE)>>
          \/ queue' = queue \o <<Ev("cmpl", i, TRUE)>>
          \/ queue' = Append(queue, Ev("cmpl", i, FALSE))
      BY <3>1, <3>2
    <3>4. queue \o <<Ev("cmpl", i, TRUE)>> = Append(queue, Ev("cmpl", i, TRUE))
      <4>1. \A x : Append(queue, x) = queue \o <<x>>
        BY <1>2
      <4> QED BY <4>1
    <3>5. "res" \in QuietEvents /\ "cmpl" \in QuietEvents /\ TRUE \in BOOLEAN /\ FALSE \in BOOLEAN
      BY DEF QuietEvents
    <3> HIDE DEF i
    <3>6. \/ \E x, y \in AnyEvent : x.ev \in QuietEvents /\ y.ev \in QuietEvents
                                     /\ queue' = (queue \o <<x>>) \o <<y>>
          \/ \E e \in QuietEvents, ok \in BOOLEAN : queue' = Append(queue, Ev(e, i, ok))
      BY <1>3, <3>3, <3>4, <3>5
    <3> QED BY <2>1, <2>2, <3>6
  <2> QED BY <2>3, <2>4
<1> QED BY <1>1, <1>4, PostedQuiet

(* A link ends once, and not before it was opened.                         *)
LEMMA LinkEndsIInv == IInv /\ LinkEnds => IInv'
<1> SUFFICES ASSUME IInv, LinkEnds PROVE IInv'
  OBVIOUS
<1> USE DEF IInv
<1>1. PICK i \in Ifs :
        /\ link[i] # "none" /\ link' = [link EXCEPT ![i] = "none"]
        /\ queue' = Append(queue, Ev("disconnect", i, TRUE))
        /\ asked' = IF i = gattcIf[cur] THEN "none" ELSE asked
  BY DEF LinkEnds
<1>2. MapSame /\ UNCHANGED <<pc, taken>>
  BY DEF LinkEnds, StackStep, MapSame, appVars, mapVars, semVars, ghostVars
<1>3. Ev("disconnect", i, TRUE) \in AnyEvent /\ Ev("disconnect", i, TRUE).ev = "disconnect"
      /\ Ev("disconnect", i, TRUE).if = i
  BY DEF Ev, AnyEvent
<1> DEFINE last == Len(queue) + 1
<1>4. /\ queue' \in Seq(AnyEvent) /\ Len(queue) \in Nat /\ last \in 1 .. Len(queue')
      /\ \A k \in 1 .. Len(queue) : k \in 1 .. Len(queue') /\ queue'[k] = queue[k] /\ k < last
      /\ \A k \in 1 .. Len(queue') : k \in 1 .. Len(queue) \/ k = last
      /\ queue'[last].ev = "disconnect" /\ queue'[last].if = i
  <2> DEFINE e == Ev("disconnect", i, TRUE)
  <2>1. e \in AnyEvent /\ queue' = Append(queue, e) /\ e.ev = "disconnect" /\ e.if = i
    BY <1>1, <1>3
  <2> HIDE DEF e
  <2>2. queue \in Seq(AnyEvent)
    BY DEF Typed
  <2>3. /\ queue' \in Seq(AnyEvent) /\ Len(queue') = last /\ Len(queue) \in Nat /\ last \in 1 .. Len(queue')
        /\ \A k \in 1 .. Len(queue) : k \in 1 .. Len(queue') /\ queue'[k] = queue[k]
        /\ \A k \in 1 .. Len(queue') : k \in 1 .. Len(queue) \/ k = last
        /\ queue'[last] = e
    BY <2>1, <2>2, PostedOne
  <2> QED BY <2>1, <2>3
<1> HIDE DEF last
<1>5. \A k \in 1 .. Len(queue') : queue'[k].ev \in {"reg", "connect", "open"} =>
        k \in 1 .. Len(queue) /\ queue'[k] = queue[k]
  BY <1>4
<1>6. link' \in [Ifs -> {"none", "up", "closing"}] /\ link'[i] = "none"
      /\ \A n \in Ifs : n # i => link'[n] = link[n]
  BY <1>1 DEF Typed
<1>7. Live(i) /\ \A k \in 1 .. Len(queue) : queue[k].ev = "disconnect" => queue[k].if # i
  BY <1>1 DEF Live, OneEnd
<1>8. \A n \in Ifs : Live(n)' <=> Live(n)
  <2>1. Live(i)'
    BY <1>4 DEF Live
  <2>2. ASSUME NEW n \in Ifs, n # i PROVE Live(n)' <=> Live(n)
    BY <1>4, <1>6, <2>2 DEF Live
  <2> QED BY <1>7, <2>1, <2>2
<1>9. asked' \in {asked, "none"} /\ (asked \in {"reg", "open"} => asked' = asked)
  BY <1>1, <1>7 DEF Asking, NotYetOpen
<1>10. /\ Numbered' /\ Squatting' /\ Home' = Home
       /\ \A c \in Clients : Displaced(c)' <=> Displaced(c)
  BY <1>2, SameMap
<1>11. /\ (Registering' <=> Registering) /\ (Opening' <=> Opening) /\ (Chosen' <=> Chosen)
       /\ \A e \in {"reg", "connect", "open"} : Pending(e)' <=> Pending(e)
  BY <1>2, <1>4, <1>5 DEF Registering, Opening, Chosen, Pending
<1>12. Typed'
  BY <1>2, <1>4, <1>6, <1>9 DEF Typed, MapSame
<1>13. Asking'
  BY <1>2, <1>9, <1>11 DEF Asking, MapSame
<1>14. RegPending'
  <2> SUFFICES ASSUME NEW k \in 1 .. Len(queue'), queue'[k].ev = "reg"
               PROVE  /\ Registering' /\ \A j \in 1 .. Len(queue') : queue'[j].ev = "reg" => j = k
                      /\ queue'[k].if \in registered' /\ ~Live(queue[k].if)'
                      /\ \A c \in Home' : gattcIf'[c] # queue'[k].if
    BY DEF RegPending
  <2>1. k \in 1 .. Len(queue) /\ queue'[k] = queue[k]
    BY <1>5
  <2>2. ~Live(queue[k].if) /\ queue[k].if \in Ifs
    BY <2>1 DEF RegPending, Typed
  <2>3. ~Live(queue[k].if)'
    <3>1. PICK n : n = queue[k].if
      OBVIOUS
    <3>2. n \in Ifs /\ n # i /\ link[n] = "none" /\ queue'[k].if = n
          /\ \A j \in 1 .. Len(queue) : queue[j].ev = "disconnect" => queue[j].if # n
      BY <1>7, <2>1, <2>2, <3>1 DEF Live
    <3>3. link'[n] = "none"
      BY <1>6, <3>2
    <3>4. \A j \in 1 .. Len(queue') : queue'[j].ev = "disconnect" => queue'[j].if # n
      BY <1>4, <3>2
    <3> QED BY <3>2, <3>3, <3>4 DEF Live
  <2> QED BY <1>2, <1>5, <1>10, <1>11, <2>1, <2>3 DEF RegPending, MapSame
<1>15. Holding' /\ NotYetOpen'
  BY <1>2, <1>8, <1>9, <1>10, <1>11 DEF Holding, NotYetOpen, Asking, MapSame
<1>16. OpenPending'
  <2> SUFFICES ASSUME NEW k \in 1 .. Len(queue'), queue'[k].ev \in {"connect", "open"}
               PROVE  /\ Opening' /\ queue'[k].if = gattcIf[cur]
                      /\ \A j \in 1 .. Len(queue') :
                           queue'[j].ev = "disconnect" /\ queue'[j].if = gattcIf[cur] => k < j
                      /\ queue'[k].ok => Live(gattcIf[cur])'
                      /\ queue'[k].ev = "open" =>
                           /\ \A j \in 1 .. Len(queue') : /\ queue'[j].ev = "open" => j = k
                                                          /\ queue'[j].ev = "connect" => j < k
                           /\ queue'[k].ok => \/ \E j \in 1 .. k - 1 : queue'[j].ev = "connect"
                                              \/ \A a \in DOMAIN peers : a = FirstIf + gattcIf[cur] - 1
                                                                          => peers[a] = cur
    BY <1>2 DEF OpenPending, MapSame
  <2>1. k \in 1 .. Len(queue) /\ queue'[k] = queue[k]
    BY <1>5
  <2>2. /\ Opening /\ queue[k].if = gattcIf[cur] /\ (queue[k].ok => Live(gattcIf[cur]))
        /\ gattcIf[cur] \in Ifs
    BY <2>1 DEF OpenPending, Holding
  <2>3. Live(gattcIf[cur]) => Live(gattcIf[cur])'
    <3>1. \A n \in Ifs : Live(n) => \/ link'[n] # "none"
                                    \/ \E j \in 1 .. Len(queue') : queue'[j].ev = "disconnect" /\ queue'[j].if = n
      BY <1>8 DEF Live
    <3> QED BY <1>2, <2>2, <3>1 DEF Live, MapSame
  <2>4. \A j \in 1 .. k - 1 : j \in 1 .. Len(queue) /\ queue'[j] = queue[j]
    BY <1>4, <2>1
  <2>5. \A j \in 1 .. Len(queue') : queue'[j].ev = "disconnect" /\ queue'[j].if = gattcIf[cur] => k < j
    BY <1>4, <2>1 DEF OpenPending
  <2>6. queue'[k].ev = "open" =>
           \A j \in 1 .. Len(queue') : /\ queue'[j].ev = "open" => j = k
                                       /\ queue'[j].ev = "connect" => j < k
    BY <1>5, <2>1 DEF OpenPending
  <2>7. queue'[k].ev = "open" /\ queue'[k].ok =>
           \/ \E j \in 1 .. k - 1 : queue'[j].ev = "connect"
           \/ \A a \in DOMAIN peers : a = FirstIf + gattcIf[cur] - 1 => peers[a] = cur
    BY <2>1, <2>4 DEF OpenPending
  <2> QED BY <1>11, <2>1, <2>2, <2>3, <2>5, <2>6, <2>7
<1>17. OneEnd'
  <2> SUFFICES ASSUME NEW k \in 1 .. Len(queue'), queue'[k].ev = "disconnect"
               PROVE  /\ queue'[k].if \in Ifs /\ link'[queue'[k].if] = "none"
                      /\ \A j \in 1 .. Len(queue') :
                           queue'[j].ev = "disconnect" /\ queue'[j].if = queue'[k].if => j = k
    BY DEF OneEnd
  <2>1. CASE k \in 1 .. Len(queue)
    <3>1. queue[k].if \in Ifs /\ queue[k].if # i /\ link[queue[k].if] = "none" /\ queue'[k] = queue[k]
      BY <1>4, <1>7, <2>1 DEF OneEnd
    <3> QED BY <1>4, <1>6, <2>1, <3>1 DEF OneEnd
  <2>2. CASE k = last
    BY <1>4, <1>6, <1>7, <2>2
  <2> QED BY <1>4, <2>1, <2>2
<1>18. Reserved'
  BY <1>2, <1>8, <1>10 DEF Reserved, MapSame
<1>19. Flags'
  BY <1>2, <1>8, <1>10 DEF Flags, Typed, AppId, MapSame
<1>20. Unique'
  BY <1>2, <1>10 DEF Unique, MapSame
<1> QED BY <1>10, <1>12, <1>13, <1>14, <1>15, <1>16, <1>17, <1>18, <1>19, <1>20

-----------------------------------------------------------------------------
(* The Bluetooth task                                                      *)

(* What an event that is handled leaves of the conditions on the queue.    *)
LEMMA PoppedLive ==
  ASSUME queue \in Seq(AnyEvent), queue # << >>, queue' = Tail(queue), UNCHANGED link,
         Head(queue).ev # "disconnect"
  PROVE  \A n \in Ifs : Live(n)' <=> Live(n)
<1>1. \A k \in 1 .. Len(queue') : k + 1 \in 1 .. Len(queue) /\ queue'[k] = queue[k + 1]
  BY Popped
<1>2. \A k \in 1 .. Len(queue) : queue[k].ev = "disconnect" =>
        k - 1 \in 1 .. Len(queue') /\ queue'[k - 1] = queue[k]
  BY Popped
<1>3. ASSUME NEW n \in Ifs, Live(n) PROVE Live(n)'
  BY <1>2, <1>3 DEF Live
<1>4. ASSUME NEW n \in Ifs, Live(n)' PROVE Live(n)
  BY <1>1, <1>4 DEF Live
<1> QED BY <1>3, <1>4

LEMMA PoppedOneEnd ==
  ASSUME IInv, queue # << >>, queue' = Tail(queue), UNCHANGED link
  PROVE  OneEnd'
<1> USE DEF IInv
<1>1. \A k \in 1 .. Len(queue') : k + 1 \in 1 .. Len(queue) /\ queue'[k] = queue[k + 1]
  BY Popped DEF Typed
<1> SUFFICES ASSUME NEW k \in 1 .. Len(queue'), queue'[k].ev = "disconnect"
             PROVE  /\ queue'[k].if \in Ifs /\ link'[queue'[k].if] = "none"
                    /\ \A j \in 1 .. Len(queue') :
                         queue'[j].ev = "disconnect" /\ queue'[j].if = queue'[k].if => j = k
  BY DEF OneEnd
<1>2. k + 1 \in 1 .. Len(queue) /\ queue'[k] = queue[k + 1]
  BY <1>1
<1>3. ASSUME NEW j \in 1 .. Len(queue'), queue'[j].ev = "disconnect", queue'[j].if = queue'[k].if
      PROVE  j = k
  <2>1. j + 1 \in 1 .. Len(queue) /\ queue'[j] = queue[j + 1]
    BY <1>1
  <2>2. j + 1 = k + 1
    BY <1>2, <1>3, <2>1 DEF OneEnd
  <2> QED BY <2>2
<1> QED BY <1>2, <1>3 DEF OneEnd

LEMMA PoppedOpenPending ==
  ASSUME IInv, queue # << >>, queue' = Tail(queue), UNCHANGED <<cur, gattcIf>>,
         Opening => Opening',
         Live(gattcIf[cur]) /\ Opening => Live(gattcIf[cur])',
         \/ Head(queue).ev # "connect" /\ \A a \in DOMAIN peers' : a \in DOMAIN peers /\ peers'[a] = peers[a]
         \/ \A a \in DOMAIN peers' : a = FirstIf + gattcIf[cur] - 1 => peers'[a] = cur
  PROVE  OpenPending'
<1> USE DEF IInv
<1>1. /\ Len(queue) \in Nat
      /\ \A k \in 1 .. Len(queue') : k + 1 \in 1 .. Len(queue) /\ queue'[k] = queue[k + 1]
      /\ \A k \in 1 .. Len(queue) : k # 1 => k - 1 \in 1 .. Len(queue') /\ queue'[k - 1] = queue[k]
      /\ queue[1] = Head(queue)
  BY Popped DEF Typed
<1> SUFFICES ASSUME NEW k \in 1 .. Len(queue'), queue'[k].ev \in {"connect", "open"}
             PROVE  /\ Opening' /\ queue'[k].if = gattcIf[cur]
                    /\ \A j \in 1 .. Len(queue') :
                         queue'[j].ev = "disconnect" /\ queue'[j].if = gattcIf[cur] => k < j
                    /\ queue'[k].ok => Live(gattcIf[cur])'
                    /\ queue'[k].ev = "open" =>
                         /\ \A j \in 1 .. Len(queue') : /\ queue'[j].ev = "open" => j = k
                                                        /\ queue'[j].ev = "connect" => j < k
                         /\ queue'[k].ok => \/ \E j \in 1 .. k - 1 : queue'[j].ev = "connect"
                                            \/ \A a \in DOMAIN peers' : a = FirstIf + gattcIf[cur] - 1
                                                                         => peers'[a] = cur
  BY DEF OpenPending
<1>2. k + 1 \in 1 .. Len(queue) /\ queue'[k] = queue[k + 1] /\ (k + 1) - 1 = k
  BY <1>1
<1>3. Opening /\ queue[k + 1].if = gattcIf[cur] /\ (queue[k + 1].ok => Live(gattcIf[cur]))
  BY <1>2 DEF OpenPending
<1>4. ASSUME NEW j \in 1 .. Len(queue'), queue'[j].ev = "disconnect", queue'[j].if = gattcIf[cur]
      PROVE  k < j
  <2>1. j + 1 \in 1 .. Len(queue) /\ queue'[j] = queue[j + 1]
    BY <1>1
  <2>2. k + 1 < j + 1
    BY <1>2, <1>4, <2>1 DEF OpenPending
  <2> QED BY <2>2
<1>5. ASSUME queue'[k].ev = "open", NEW j \in 1 .. Len(queue')
      PROVE  (queue'[j].ev = "open" => j = k) /\ (queue'[j].ev = "connect" => j < k)
  <2>1. j + 1 \in 1 .. Len(queue) /\ queue'[j] = queue[j + 1]
    BY <1>1
  <2>2. (queue[j + 1].ev = "open" => j + 1 = k + 1) /\ (queue[j + 1].ev = "connect" => j + 1 < k + 1)
    BY <1>2, <1>5, <2>1 DEF OpenPending
  <2> QED BY <2>1, <2>2
<1>6. ASSUME queue'[k].ev = "open", queue'[k].ok
      PROVE  \/ \E j \in 1 .. k - 1 : queue'[j].ev = "connect"
             \/ \A a \in DOMAIN peers' : a = FirstIf + gattcIf[cur] - 1 => peers'[a] = cur
  <2>1. \/ \E j \in 1 .. (k + 1) - 1 : queue[j].ev = "connect"
        \/ \A a \in DOMAIN peers : a = FirstIf + gattcIf[cur] - 1 => peers[a] = cur
    BY <1>2, <1>6 DEF OpenPending
  <2>2. Head(queue).ev # "connect" =>
          \A j \in 1 .. k : queue[j].ev = "connect" => j - 1 \in 1 .. k - 1 /\ queue'[j - 1] = queue[j]
    BY <1>1, <1>2
  <2> QED BY <1>2, <2>1, <2>2
<1> QED BY <1>2, <1>3, <1>4, <1>5, <1>6

LEMMA PoppedQuiet ==
  ASSUME IInv, queue # << >>, Head(queue).ev \in QuietEvents, queue' = Tail(queue),
         MapSame, UNCHANGED <<pc, link, asked>>,
         "RegEvt" \in taken' <=> "RegEvt" \in taken,
         "OpenEvt" \in taken' <=> "OpenEvt" \in taken
  PROVE  IInv'
<1> USE DEF IInv
<1>1. /\ queue' \in Seq(AnyEvent) /\ Len(queue) \in Nat
      /\ \A k \in 1 .. Len(queue') : k + 1 \in 1 .. Len(queue) /\ queue'[k] = queue[k + 1]
      /\ \A k \in 1 .. Len(queue) : k # 1 => k - 1 \in 1 .. Len(queue') /\ queue'[k - 1] = queue[k]
      /\ queue[1].ev \in QuietEvents
  BY Popped DEF Typed
<1>2. \A k \in 1 .. Len(queue) : queue[k].ev \in {"reg", "connect", "open", "disconnect"} =>
        k - 1 \in 1 .. Len(queue') /\ queue'[k - 1] = queue[k]
  BY <1>1 DEF QuietEvents
<1>3. /\ Numbered' /\ Squatting' /\ Home' = Home
      /\ \A c \in Clients : Displaced(c)' <=> Displaced(c)
  BY SameMap
<1>4. \A n \in Ifs : Live(n)' <=> Live(n)
  BY PoppedLive DEF Typed, QuietEvents
<1>5. \A e \in {"reg", "connect", "open"} : Pending(e)' <=> Pending(e)
  BY <1>1, <1>2 DEF Pending
<1>6. (Registering' <=> Registering) /\ (Opening' <=> Opening) /\ (Chosen' <=> Chosen)
  BY DEF Registering, Opening, Chosen
<1>7. Typed'
  BY <1>1 DEF Typed, MapSame
<1>8. Asking'
  BY <1>5, <1>6 DEF Asking, MapSame
<1>9. RegPending'
  <2> SUFFICES ASSUME NEW k \in 1 .. Len(queue'), queue'[k].ev = "reg"
               PROVE  /\ Registering' /\ \A j \in 1 .. Len(queue') : queue'[j].ev = "reg" => j = k
                      /\ queue'[k].if \in registered' /\ ~Live(queue[k].if)'
                      /\ \A c \in Home' : gattcIf'[c] # queue'[k].if
    BY DEF RegPending
  <2>1. k + 1 \in 1 .. Len(queue) /\ queue'[k] = queue[k + 1]
    BY <1>1
  <2>2. /\ Registering /\ \A j \in 1 .. Len(queue) : queue[j].ev = "reg" => j = k + 1
        /\ queue[k + 1].if \in registered /\ ~Live(queue[k + 1].if)
        /\ \A c \in Home : gattcIf[c] # queue[k + 1].if
    BY <2>1 DEF RegPending
  <2>3. ~Live(queue[k].if)'
    BY <1>1, <2>1, <2>2 DEF Live
  <2>4. \A j \in 1 .. Len(queue') : queue'[j].ev = "reg" => j = k
    BY <1>1, <2>2
  <2> QED BY <1>3, <1>6, <2>1, <2>2, <2>3, <2>4 DEF MapSame
<1>10. Holding' /\ NotYetOpen'
  BY <1>3, <1>4, <1>6 DEF Holding, NotYetOpen, Asking, MapSame
<1>11. OpenPending'
  <2>1. Live(gattcIf[cur]) => Live(gattcIf[cur])'
    BY <1>2 DEF Live, MapSame
  <2> QED BY <1>6, <2>1, PoppedOpenPending DEF MapSame, QuietEvents
<1>12. OneEnd'
  BY PoppedOneEnd
<1>13. Reserved'
  BY <1>3, <1>4 DEF Reserved, MapSame
<1>14. Flags'
  BY <1>3, <1>4 DEF Flags, Typed, AppId, MapSame
<1>15. Unique'
  BY <1>3 DEF Unique, MapSame
<1> QED BY <1>3, <1>7, <1>8, <1>9, <1>10, <1>11, <1>12, <1>13, <1>14, <1>15

LEMMA HandleQuietIInv ==
  IInv /\ (HandleSearchResult \/ HandleSearchComplete \/ HandleCharacteristic) => IInv'
<1> SUFFICES ASSUME IInv, HandleSearchResult \/ HandleSearchComplete \/ HandleCharacteristic PROVE IInv'
  OBVIOUS
<1>1. /\ queue # << >> /\ Head(queue).ev \in QuietEvents /\ queue' = Tail(queue)
      /\ MapSame /\ UNCHANGED <<pc, link, asked>>
  BY DEF HandleSearchResult, HandleSearchComplete, HandleCharacteristic, Take, MapSame, QuietEvents,
         mapVars, objVars
<1>2. /\ "RegEvt" \in taken' <=> "RegEvt" \in taken
      /\ "OpenEvt" \in taken' <=> "OpenEvt" \in taken
  <2>1. \/ taken' = taken
        \/ \E s \in {"SearchCmplEvt", "ReadCharEvt", "RegForNotifyEvt", "WriteCharEvt"} : taken' = taken \ {s}
    BY DEF HandleSearchResult, HandleSearchComplete, HandleCharacteristic, Take, Give, GiveValue, semVars
  <2> QED BY <2>1
<1> QED BY <1>1, <1>2, PoppedQuiet

(* The clients that hear of the interface: those that have none.           *)
LEMMA HandleRegIInv == IInv /\ HandleReg => IInv'
<1> SUFFICES ASSUME IInv, HandleReg PROVE IInv'
  OBVIOUS
<1> USE DEF IInv
<1>0. PICK i : i = queue[1].if
  OBVIOUS
<1>1. /\ queue # << >> /\ Head(queue).ev = "reg" /\ queue' = Tail(queue)
      /\ UNCHANGED <<pc, cur, peers, isConnected, registered, link, asked, refused>>
      /\ gattcIf' = [c \in Clients |-> IF c \in Targets(From) THEN From ELSE gattcIf[c]]
      /\ taken' = IF Cur THEN taken \ {"RegEvt"} ELSE taken
  BY DEF HandleReg, Take, Give
<1>2. /\ queue' \in Seq(AnyEvent) /\ Len(queue) \in Nat
      /\ \A k \in 1 .. Len(queue') : k + 1 \in 1 .. Len(queue) /\ queue'[k] = queue[k + 1]
      /\ \A k \in 1 .. Len(queue) : k # 1 => k - 1 \in 1 .. Len(queue') /\ queue'[k - 1] = queue[k]
      /\ 1 \in 1 .. Len(queue) /\ queue[1].ev = "reg" /\ From = i
  BY <1>0, <1>1, Popped DEF Typed, From
<1>3. /\ Registering /\ \A j \in 1 .. Len(queue) : queue[j].ev = "reg" => j = 1
      /\ i \in registered /\ i \in Ifs /\ ~Live(i) /\ \A c \in Home : gattcIf[c] # i
  BY <1>0, <1>2 DEF RegPending, Typed
<1>4. pc = "reg" /\ cur \in Clients /\ gattcIf[cur] = NoIf /\ asked \notin {"reg", "open"}
  BY <1>2, <1>3 DEF Registering, Asking, Pending, Opening, Typed, Connecting
<1>5. \A k \in 1 .. Len(queue') : queue'[k].ev \notin {"reg", "connect", "open"}
  <2>1. \A k \in 1 .. Len(queue) : queue[k].ev \notin {"connect", "open"}
    BY <1>4 DEF OpenPending, Opening
  <2>2. ASSUME NEW k \in 1 .. Len(queue') PROVE queue'[k].ev \notin {"reg", "connect", "open"}
    <3>1. k + 1 \in 1 .. Len(queue) /\ queue'[k] = queue[k + 1] /\ k + 1 # 1
      BY <1>2
    <3> QED BY <1>3, <2>1, <3>1
  <2> QED BY <2>2
<1>6. /\ \A c \in Clients : gattcIf'[c] = IF c \in Peers /\ gattcIf[c] = NoIf THEN i ELSE gattcIf[c]
      /\ \A a \in DOMAIN peers : peers[a] \in Peers /\ peers[a] \in Clients
  <2>1. \A c : c \in Targets(i) <=> c \in Peers /\ gattcIf[c] \in {i, NoIf}
    BY Mapped
  <2>2. \A a \in DOMAIN peers : peers[a] \in Peers /\ peers[a] \in Clients
    BY DEF Peers, Numbered, Typed
  <2> QED BY <1>1, <1>2, <2>1, <2>2
<1>7. \A a \in DOMAIN peers : gattcIf'[peers[a]] # NoIf
  BY <1>3, <1>6
<1>8. Cur <=> cur \in Peers
  BY <1>2, <1>4, Mapped DEF Cur
<1>9. cur \in Peers => cur \in Home /\ gattcIf'[cur] = i
  <2> SUFFICES ASSUME cur \in Peers PROVE cur \in Home /\ gattcIf'[cur] = i
    OBVIOUS
  <2>1. PICK a \in DOMAIN peers : peers[a] = cur
    BY Mapped
  <2>2. a = AppId(cur)
    BY <1>4, <2>1 DEF Squatting
  <2> QED BY <1>4, <1>6, <2>1, <2>2 DEF Home
<1>10. /\ ~Opening' /\ pc' \notin {"register", "gattc_open"}
       /\ Registering' => cur \notin Peers
       /\ Chosen' => cur \in Peers
  BY <1>1, <1>3, <1>4, <1>8 DEF Opening, Registering, Chosen
<1>11. Home' = Home /\ \A c \in Clients : Displaced(c)' <=> Displaced(c)
  BY <1>1 DEF Home, Displaced, AppId
<1>12. \A n \in Ifs : Live(n)' <=> Live(n)
  BY <1>1, PoppedLive DEF Typed
<1>13. Typed'
  <2>1. gattcIf' \in [Clients -> Ifs \cup {NoIf}]
    BY <1>1, <1>2, <1>3 DEF Typed
  <2> QED BY <1>1, <1>2, <2>1 DEF Typed
<1>14. Numbered'
  <2>1. \A c \in Clients : c > cur => c \notin Peers
    BY Mapped DEF Numbered, Typed
  <2>2. \A c \in Clients : c > cur => gattcIf'[c] = NoIf /\ ~isConnected[c]
    BY <1>6, <2>1 DEF Numbered
  <2> QED BY <1>1, <2>2 DEF Numbered, AppId
<1>15. Squatting'
  BY <1>1, <1>6 DEF Squatting, AppId
<1>16. Asking'
  BY <1>1, <1>4, <1>6, <1>10 DEF Asking
<1>17. RegPending' /\ OpenPending'
  BY <1>5 DEF RegPending, OpenPending
<1>18. Holding'
  BY <1>1, <1>3, <1>7, <1>9, <1>10, <1>11 DEF Holding
<1>19. NotYetOpen'
  <2>1. asked' # "open" /\ (Chosen' => gattcIf'[cur'] = i)
    BY <1>1, <1>4, <1>9, <1>10
  <2>2. ~Live(i)'
    BY <1>1, <1>2, <1>3 DEF Live
  <2>3. Chosen' => ~Live(gattcIf[cur])'
    BY <2>1, <2>2 DEF Live
  <2> QED BY <2>1, <2>3 DEF NotYetOpen
<1>20. OneEnd'
  BY <1>1, PoppedOneEnd
<1>21. Reserved'
  BY <1>1, <1>3, <1>6, <1>11, <1>12, Mapped DEF Reserved
<1>22. Flags'
  <2> SUFFICES ASSUME NEW c \in Clients, isConnected[c]
               PROVE  gattcIf'[c] # NoIf /\ AppId(c) \in DOMAIN peers /\ (Displaced(c)' \/ Live(gattcIf[c])')
    BY <1>1 DEF Flags, AppId
  <2>1. gattcIf[c] # NoIf /\ AppId(c) \in DOMAIN peers /\ (Displaced(c) \/ Live(gattcIf[c]))
    BY DEF Flags
  <2>2. gattcIf'[c] = gattcIf[c]
    BY <1>6, <2>1
  <2>3. Live(gattcIf[c]) => Live(gattcIf[c])'
    <3>1. link' = link
      BY <1>1
    <3>2. \A k \in 1 .. Len(queue) : queue[k].ev = "disconnect" =>
            k - 1 \in 1 .. Len(queue') /\ queue'[k - 1] = queue[k]
      BY <1>2
    <3> QED BY <2>2, <3>1, <3>2 DEF Live
  <2> QED BY <1>11, <2>1, <2>2, <2>3
<1>23. Unique'
  <2> SUFFICES ASSUME refused = {},
                      NEW c \in Home, NEW d \in Home, gattcIf'[c] = gattcIf'[d], gattcIf'[c] # NoIf
               PROVE  c = d
    BY <1>1, <1>7, <1>11 DEF Unique
  <2>1. \A e \in Home : e \in Clients /\ e \in Peers /\ (gattcIf[e] = NoIf => e = cur)
    BY Mapped DEF Unique
  <2>2. CASE gattcIf[c] = NoIf
    BY <1>3, <1>6, <2>1, <2>2
  <2>3. CASE gattcIf[d] = NoIf
    BY <1>3, <1>6, <2>1, <2>3
  <2>4. CASE gattcIf[c] # NoIf /\ gattcIf[d] # NoIf
    BY <1>6, <2>1, <2>4 DEF Unique
  <2> QED BY <2>2, <2>3, <2>4
<1> QED BY <1>13, <1>14, <1>15, <1>16, <1>17, <1>18, <1>19, <1>20, <1>21, <1>22, <1>23

(* The client made last is put into the entry that the interface names,    *)
(* which may be another's.                                                 *)
LEMMA HandleConnectIInv == IInv /\ HandleConnect => IInv'
<1> SUFFICES ASSUME IInv, HandleConnect PROVE IInv'
  OBVIOUS
<1> USE DEF IInv
<1>1. /\ queue # << >> /\ Head(queue).ev = "connect" /\ queue' = Tail(queue)
      /\ UNCHANGED <<pc, cur, gattcIf, isConnected, registered, link, asked, taken, refused>>
      /\ peers' = IF Cur THEN UpdatePeerDevice(From, cur) ELSE peers
  BY DEF HandleConnect, Take, semVars
<1>2. /\ queue' \in Seq(AnyEvent) /\ Len(queue) \in Nat
      /\ \A k \in 1 .. Len(queue') : k + 1 \in 1 .. Len(queue) /\ queue'[k] = queue[k + 1]
      /\ \A k \in 1 .. Len(queue) : k # 1 => k - 1 \in 1 .. Len(queue') /\ queue'[k - 1] = queue[k]
      /\ 1 \in 1 .. Len(queue) /\ queue[1].ev = "connect" /\ From = queue[1].if
  BY <1>1, Popped DEF Typed, From
<1>3. Opening /\ From = gattcIf[cur]
  BY <1>2 DEF OpenPending
<1>4. /\ gattcIf[cur] \in Ifs /\ cur \in Home /\ cur \in Clients /\ cur \in Peers
      /\ \A a \in DOMAIN peers : gattcIf[peers[a]] # NoIf
  BY <1>3, Mapped DEF Holding
<1>5. Cur
  BY <1>3, <1>4, Mapped DEF Cur
<1> DEFINE key == FirstIf + gattcIf[cur] - 1
<1>6. peers' = IF key \in DOMAIN peers THEN [peers EXCEPT ![key] = cur] ELSE peers
  BY <1>1, <1>3, <1>5 DEF UpdatePeerDevice
<1>7. /\ DOMAIN peers' = DOMAIN peers
      /\ \A a \in DOMAIN peers : peers'[a] = IF a = key THEN cur ELSE peers[a]
  BY <1>6
<1> HIDE DEF key
<1>8. asked # "open" /\ asked # "reg" /\ Pending("open") /\ ~Registering /\ ~Chosen
  BY <1>2, <1>3 DEF Asking, Pending, Opening, Registering, Chosen
<1>9. (Registering' <=> Registering) /\ (Opening' <=> Opening) /\ (Chosen' <=> Chosen)
  BY <1>1 DEF Registering, Opening, Chosen
<1>10. Pending("open")'
  BY <1>2, <1>8 DEF Pending
<1>11. \A c \in Home' : c \in Home
  <2> SUFFICES ASSUME NEW c \in Clients, AppId(c) \in DOMAIN peers, peers'[AppId(c)] = c PROVE c \in Home
    BY <1>7 DEF Home, AppId
  <2> QED BY <1>4, <1>7 DEF Home
<1>12. cur \in Home'
  BY <1>1, <1>4, <1>7 DEF Home, AppId
<1>13. \A c \in Clients : Displaced(c) => Displaced(c)'
  <2>1. ~Displaced(cur)
    BY DEF Numbered, Displaced
  <2> QED BY <1>7, <2>1 DEF Displaced, AppId
<1>14. \A n \in Ifs : Live(n)' <=> Live(n)
  BY <1>1, PoppedLive DEF Typed
<1>15. Typed'
  BY <1>1, <1>2 DEF Typed
<1>16. Numbered'
  <2>1. \A a \in DOMAIN peers' : peers'[a] \in 1 .. cur
    BY <1>4, <1>7 DEF Numbered, Typed
  <2>2. AppId(cur) \in DOMAIN peers' => peers'[AppId(cur)] = cur
    BY <1>7 DEF Numbered
  <2> QED BY <1>1, <1>7, <2>1, <2>2 DEF Numbered, AppId
<1>17. Squatting'
  <2> SUFFICES ASSUME NEW a \in DOMAIN peers
               PROVE  \/ a = AppId(peers'[a])
                      \/ gattcIf[peers'[a]] # NoIf /\ a = FirstIf + gattcIf[peers'[a]] - 1
    BY <1>1, <1>7 DEF Squatting, AppId
  <2> QED BY <1>4, <1>7 DEF Squatting, key
<1>18. Asking'
  BY <1>1, <1>3, <1>8, <1>9, <1>10 DEF Asking, Opening
<1>19. RegPending'
  BY <1>2, <1>8 DEF RegPending
<1>20. Holding'
  <2>1. \A a \in DOMAIN peers' : gattcIf[peers'[a]] # NoIf
    BY <1>4, <1>7
  <2> QED BY <1>1, <1>4, <1>12, <2>1 DEF Holding
<1>21. NotYetOpen'
  BY <1>1, <1>8, <1>9 DEF NotYetOpen
<1>22. OpenPending'
  <2>1. Live(gattcIf[cur]) => Live(gattcIf[cur])'
    BY <1>1, <1>2 DEF Live
  <2>2. \A a \in DOMAIN peers' : a = FirstIf + gattcIf[cur] - 1 => peers'[a] = cur
    BY <1>7 DEF key
  <2> QED BY <1>1, <1>9, <2>1, <2>2, PoppedOpenPending
<1>23. OneEnd'
  BY <1>1, PoppedOneEnd
<1>24. Reserved'
  BY <1>1, <1>11, <1>14 DEF Reserved
<1>25. Flags'
  BY <1>1, <1>7, <1>13, <1>14 DEF Flags, Typed, AppId
<1>26. Unique'
  <2>1. \A a \in DOMAIN peers' : gattcIf[peers'[a]] # NoIf
    BY <1>4, <1>7
  <2> QED BY <1>1, <1>11, <2>1 DEF Unique
<1> QED BY <1>15, <1>16, <1>17, <1>18, <1>19, <1>20, <1>21, <1>22, <1>23, <1>24, <1>25, <1>26

(* Whoever hears that the connection is open is in the map as itself.      *)
LEMMA HandleOpenIInv == IInv /\ HandleOpen => IInv'
<1> SUFFICES ASSUME IInv, HandleOpen PROVE IInv'
  OBVIOUS
<1> USE DEF IInv
<1>1. /\ queue # << >> /\ Head(queue).ev = "open" /\ queue' = Tail(queue)
      /\ UNCHANGED <<pc, cur, peers, gattcIf, registered, link, asked, refused>>
      /\ isConnected' = [c \in Clients |-> isConnected[c] \/ (Head(queue).ok /\ c \in Targets(From))]
      /\ taken' = IF Cur THEN taken \ {"OpenEvt"} ELSE taken
  BY DEF HandleOpen, Take, Give, GiveValue, semVars
<1>2. /\ queue' \in Seq(AnyEvent) /\ Len(queue) \in Nat
      /\ \A k \in 1 .. Len(queue') : k + 1 \in 1 .. Len(queue) /\ queue'[k] = queue[k + 1]
      /\ \A k \in 1 .. Len(queue) : k # 1 => k - 1 \in 1 .. Len(queue') /\ queue'[k - 1] = queue[k]
      /\ 1 \in 1 .. Len(queue) /\ queue[1].ev = "open" /\ From = queue[1].if /\ queue[1] = Head(queue)
  BY <1>1, Popped DEF Typed, From
<1>3. /\ Opening /\ From = gattcIf[cur] /\ (queue[1].ok => Live(gattcIf[cur]))
      /\ \A j \in 1 .. Len(queue) : (queue[j].ev = "open" => j = 1) /\ queue[j].ev # "connect"
      /\ queue[1].ok => \A a \in DOMAIN peers : a = FirstIf + gattcIf[cur] - 1 => peers[a] = cur
  BY <1>2 DEF OpenPending
<1>4. /\ gattcIf[cur] \in Ifs /\ cur \in Home /\ cur \in Clients /\ cur \in Peers
      /\ \A a \in DOMAIN peers : gattcIf[peers[a]] # NoIf
  BY <1>3, Mapped DEF Holding
<1>5. Cur
  BY <1>3, <1>4, Mapped DEF Cur
<1>6. asked # "open" /\ asked # "reg" /\ pc = "open" /\ ~Registering /\ ~Chosen
  BY <1>2, <1>3 DEF Asking, Pending, Opening, Registering, Chosen
<1>7. ~Registering' /\ ~Opening' /\ ~Chosen'
  BY <1>1, <1>5, <1>6 DEF Registering, Opening, Chosen
<1>8. \A k \in 1 .. Len(queue') : queue'[k].ev \notin {"reg", "connect", "open"}
  <2>1. \A k \in 1 .. Len(queue) : queue[k].ev # "reg"
    BY <1>6 DEF RegPending
  <2>2. \A k \in 1 .. Len(queue') : k + 1 # 1
    OBVIOUS
  <2> QED BY <1>2, <1>3, <2>1, <2>2
<1>9. Home' = Home /\ \A c \in Clients : Displaced(c)' <=> Displaced(c)
  BY <1>1 DEF Home, Displaced, AppId
<1>10. \A n \in Ifs : Live(n)' <=> Live(n)
  BY <1>1, PoppedLive DEF Typed
<1>11. Typed'
  <2>1. isConnected' \in [Clients -> BOOLEAN]
    <3>1. Head(queue).ok \in BOOLEAN
      BY <1>1, Popped DEF Typed, AnyEvent
    <3> QED BY <1>1, <3>1
  <2> QED BY <1>1, <1>2, <2>1 DEF Typed
<1>12. ASSUME NEW c \in Targets(From), Head(queue).ok
       PROVE  c \in Clients /\ c <= cur /\ gattcIf[c] = gattcIf[cur] /\ AppId(c) \in DOMAIN peers
  <2>1. PICK a \in DOMAIN peers : peers[a] = c
    BY Mapped
  <2>2. c \in 1 .. cur /\ c \in Clients /\ gattcIf[c] # NoIf
    BY <1>4, <2>1 DEF Numbered, Typed
  <2>3. gattcIf[c] = gattcIf[cur]
    BY <1>3, <1>12, <2>2, Mapped
  <2>4. AppId(c) \in DOMAIN peers
    <3>1. CASE a = AppId(c)
      BY <3>1
    <3>2. CASE a # AppId(c)
      <4>1. a = FirstIf + gattcIf[cur] - 1
        BY <2>1, <2>3, <3>2 DEF Squatting
      <4>2. c = cur
        BY <1>2, <1>3, <1>12, <2>1, <4>1
      <4> QED BY <1>4, <4>2 DEF Home
    <3> QED BY <3>1, <3>2
  <2> QED BY <2>2, <2>3, <2>4
<1>13. Numbered'
  <2>1. \A c \in Clients : c > cur => ~isConnected'[c]
    BY <1>1, <1>12 DEF Numbered, Typed
  <2> QED BY <1>1, <2>1 DEF Numbered, AppId
<1>14. Squatting'
  BY <1>1 DEF Squatting, AppId
<1>15. Asking'
  BY <1>1, <1>6, <1>7 DEF Asking
<1>16. RegPending' /\ OpenPending'
  BY <1>8 DEF RegPending, OpenPending
<1>17. Holding' /\ NotYetOpen'
  BY <1>1, <1>6, <1>7 DEF Holding, NotYetOpen
<1>18. OneEnd'
  BY <1>1, PoppedOneEnd
<1>19. Reserved'
  BY <1>1, <1>9, <1>10 DEF Reserved
<1>20. Flags'
  <2> SUFFICES ASSUME NEW c \in Clients, isConnected'[c]
               PROVE  gattcIf[c] # NoIf /\ AppId(c) \in DOMAIN peers /\ (Displaced(c)' \/ Live(gattcIf[c])')
    BY <1>1 DEF Flags, AppId
  <2>1. Live(gattcIf[c]) => Live(gattcIf[c])'
    <3>1. UNCHANGED <<link, gattcIf>>
      BY <1>1
    <3>2. \A k \in 1 .. Len(queue) : queue[k].ev = "disconnect" =>
            k - 1 \in 1 .. Len(queue') /\ queue'[k - 1] = queue[k]
      BY <1>2
    <3> QED BY <3>1, <3>2 DEF Live
  <2>2. CASE isConnected[c]
    BY <1>9, <2>1, <2>2 DEF Flags
  <2>3. CASE ~isConnected[c]
    <3>1. Head(queue).ok /\ c \in Targets(From)
      BY <1>1, <2>3
    <3> QED BY <1>2, <1>3, <1>4, <1>12, <2>1, <3>1
  <2> QED BY <2>2, <2>3
<1>21. Unique'
  BY <1>1, <1>9 DEF Unique
<1> QED BY <1>11, <1>13, <1>14, <1>15, <1>16, <1>17, <1>18, <1>19, <1>20, <1>21

(* Whoever hears of the end leaves the map, gives its interface back, and  *)
(* is not connected any more; whoever has that interface and does not hear *)
(* of the end has been displaced.                                          *)
LEMMA HandleDisconnectIInv == IInv /\ HandleDisconnect => IInv'
<1> SUFFICES ASSUME IInv, HandleDisconnect PROVE IInv'
  OBVIOUS
<1> USE DEF IInv
<1>0. PICK i : i = queue[1].if
  OBVIOUS
<1>1. /\ queue # << >> /\ Head(queue).ev = "disconnect" /\ queue' = Tail(queue)
      /\ UNCHANGED <<pc, cur, gattcIf, link, asked, refused>>
      /\ isConnected' = [c \in Clients |-> IF c \in Targets(From) THEN FALSE ELSE isConnected[c]]
      /\ peers' = Restrict(peers, DOMAIN peers \ {AppId(c) : c \in Targets(From)})
      /\ registered' = registered \ {gattcIf[c] : c \in Targets(From)}
  BY DEF HandleDisconnect, Take, ConnectedAfterDisconnect, RemovePeerDevices
<1>2. /\ "RegEvt" \in taken' <=> "RegEvt" \in taken
      /\ "OpenEvt" \in taken' <=> "OpenEvt" \in taken
  BY DEF HandleDisconnect, WakeSearch, GiveValue, Give, semVars
<1>3. /\ queue' \in Seq(AnyEvent) /\ Len(queue) \in Nat
      /\ \A k \in 1 .. Len(queue') : k + 1 \in 1 .. Len(queue) /\ queue'[k] = queue[k + 1]
      /\ \A k \in 1 .. Len(queue) : k # 1 => k - 1 \in 1 .. Len(queue') /\ queue'[k - 1] = queue[k]
      /\ 1 \in 1 .. Len(queue) /\ queue[1].ev = "disconnect" /\ From = i
  BY <1>0, <1>1, Popped DEF Typed, From
<1>4. /\ i \in Ifs /\ link[i] = "none" /\ Live(i)
      /\ \A j \in 1 .. Len(queue) : queue[j].ev = "disconnect" /\ queue[j].if = i => j = 1
  BY <1>0, <1>3 DEF OneEnd, Live
<1>5. \A c : c \in Targets(i) <=> c \in Peers /\ gattcIf[c] \in {i, NoIf}
  BY Mapped
<1>6. \A c \in Targets(i) : c \in Clients /\ c \in Nat /\ c \in Peers
  BY <1>5, Mapped DEF Numbered, Typed
<1>7. /\ DOMAIN peers' = DOMAIN peers \ {AppId(c) : c \in Targets(i)}
      /\ \A a \in DOMAIN peers' : a \in DOMAIN peers /\ peers'[a] = peers[a]
  BY <1>1, <1>3 DEF Restrict
<1>8. \A c \in Clients : AppId(c) \in DOMAIN peers' <=> AppId(c) \in DOMAIN peers /\ c \notin Targets(i)
  BY <1>6, <1>7, AppIds
<1>9. ~Live(i)'
  <2>1. \A k \in 1 .. Len(queue') : k + 1 # 1
    OBVIOUS
  <2> QED BY <1>1, <1>3, <1>4, <2>1 DEF Live
<1>10. \A n \in Ifs : n # i => (Live(n)' <=> Live(n))
  <2> SUFFICES ASSUME NEW n \in Ifs, n # i PROVE Live(n)' <=> Live(n)
    OBVIOUS
  <2>1. \A k \in 1 .. Len(queue) : queue[k].if = n => k # 1
    BY <1>0
  <2>2. \A k \in 1 .. Len(queue) : queue[k].if = n =>
          k - 1 \in 1 .. Len(queue') /\ queue'[k - 1] = queue[k]
    BY <1>3, <2>1
  <2>3. \A k \in 1 .. Len(queue') : k + 1 \in 1 .. Len(queue) /\ queue'[k] = queue[k + 1]
    BY <1>3
  <2>4. link' = link
    BY <1>1
  <2> QED BY <2>2, <2>3, <2>4 DEF Live
<1>11. (Registering' <=> Registering) /\ (Opening' <=> Opening) /\ (Chosen' <=> Chosen)
  BY <1>1, <1>2 DEF Registering, Opening, Chosen
<1>12. \A e \in {"reg", "connect", "open"} : Pending(e)' <=> Pending(e)
  <2>1. \A k \in 1 .. Len(queue) : queue[k].ev \in {"reg", "connect", "open"} => k # 1
    BY <1>3
  <2> QED BY <1>3, <2>1 DEF Pending
<1>13. Chosen \/ Opening => gattcIf[cur] # i
  <2>1. CASE Chosen \/ asked = "open"
    BY <1>4, <2>1 DEF NotYetOpen
  <2>2. CASE Opening /\ asked # "open"
    <3>1. PICK k \in 1 .. Len(queue) : queue[k].ev = "open"
      BY <2>2 DEF Asking, Pending
    <3>2. ~(k < 1)
      BY <1>3
    <3> QED BY <1>0, <1>3, <3>1, <3>2 DEF OpenPending
  <2> QED BY <2>1, <2>2
<1>14. Chosen \/ Opening => cur \in Clients /\ cur \notin Targets(i)
  BY <1>5, <1>13 DEF Holding, Home
<1>15. \A c \in Home' : c \in Home /\ c \notin Targets(i)
  <2> SUFFICES ASSUME NEW c \in Clients, AppId(c) \in DOMAIN peers', peers'[AppId(c)] = c
               PROVE  c \in Home /\ c \notin Targets(i)
    BY DEF Home, AppId
  <2> QED BY <1>7, <1>8 DEF Home
<1>16. Typed'
  <2>1. isConnected' \in [Clients -> BOOLEAN] /\ registered' \subseteq Ifs
    BY <1>1 DEF Typed
  <2> QED BY <1>1, <1>3, <2>1 DEF Typed
<1>17. Numbered'
  <2>1. \A c \in Clients : isConnected'[c] => isConnected[c]
    BY <1>1
  <2>2. \A c \in Clients : c > cur => gattcIf[c] = NoIf /\ ~isConnected'[c]
    BY <2>1 DEF Numbered
  <2> QED BY <1>1, <1>7, <2>2 DEF Numbered, AppId
<1>18. Squatting'
  BY <1>1, <1>7 DEF Squatting, AppId
<1>19. Asking'
  BY <1>1, <1>2, <1>11, <1>12 DEF Asking
<1>20. RegPending'
  <2> SUFFICES ASSUME NEW k \in 1 .. Len(queue'), queue'[k].ev = "reg"
               PROVE  /\ Registering' /\ \A j \in 1 .. Len(queue') : queue'[j].ev = "reg" => j = k
                      /\ queue'[k].if \in registered' /\ ~Live(queue[k].if)'
                      /\ \A c \in Home' : gattcIf'[c] # queue'[k].if
    BY DEF RegPending
  <2>1. k + 1 \in 1 .. Len(queue) /\ queue'[k] = queue[k + 1]
    BY <1>3
  <2>2. PICK n : n = queue[k + 1].if
    OBVIOUS
  <2>3. /\ Registering /\ \A j \in 1 .. Len(queue) : queue[j].ev = "reg" => j = k + 1
        /\ n \in registered /\ n \in Ifs /\ ~Live(n)
        /\ \A c \in Home : gattcIf[c] # n
    BY <2>1, <2>2 DEF RegPending, Typed
  <2>4. n # i /\ n \in registered'
    <3>1. n # i /\ n # NoIf
      BY <1>4, <2>3
    <3>2. \A c \in Targets(i) : gattcIf[c] # n
      BY <1>5, <3>1
    <3> QED BY <1>1, <1>3, <2>3, <3>1, <3>2
  <2>5. ~Live(n)'
    BY <1>10, <2>3, <2>4
  <2>6. ~Live(queue[k].if)'
    <3>1. queue'[k].if = n
      BY <2>1, <2>2
    <3>2. link'[n] = "none" /\ \A j \in 1 .. Len(queue') : ~(queue'[j].ev = "disconnect" /\ queue'[j].if = n)
      BY <2>5 DEF Live
    <3> QED BY <3>1, <3>2 DEF Live
  <2>7. ASSUME NEW j \in 1 .. Len(queue'), queue'[j].ev = "reg" PROVE j = k
    <3>1. j + 1 \in 1 .. Len(queue) /\ queue'[j] = queue[j + 1]
      BY <1>3
    <3>2. j + 1 = k + 1
      BY <2>3, <2>7, <3>1
    <3> QED BY <3>2
  <2> QED BY <1>1, <1>11, <1>15, <2>1, <2>2, <2>3, <2>4, <2>6, <2>7
<1>21. Holding'
  <2> SUFFICES ASSUME Chosen \/ Opening
               PROVE  gattcIf[cur] \in Ifs /\ cur \in Home' /\ \A a \in DOMAIN peers' : gattcIf[peers'[a]] # NoIf
    BY <1>1, <1>11 DEF Holding
  <2>1. cur \in Home'
    BY <1>7, <1>8, <1>14 DEF Holding, Home, AppId
  <2> QED BY <1>7, <2>1 DEF Holding
<1>22. NotYetOpen'
  <2> SUFFICES ASSUME Chosen \/ asked = "open" PROVE ~Live(gattcIf[cur])'
    BY <1>1, <1>11 DEF NotYetOpen
  <2>1. ~Live(gattcIf[cur])
    BY DEF NotYetOpen
  <2> QED BY <1>1, <1>3, <2>1 DEF Live
<1>23. OpenPending'
  <2>1. ASSUME Opening, Live(gattcIf[cur]) PROVE Live(gattcIf[cur])'
    <3>1. \A k \in 1 .. Len(queue) : queue[k].if = gattcIf[cur] => k # 1
      BY <1>0, <1>13, <2>1
    <3>2. link' = link /\ gattcIf' = gattcIf /\ cur' = cur
      BY <1>1
    <3> QED BY <1>3, <2>1, <3>1, <3>2 DEF Live
  <2> QED BY <1>1, <1>7, <1>11, <2>1, PoppedOpenPending
<1>24. OneEnd'
  BY <1>1, PoppedOneEnd
<1>25. Reserved'
  <2>1. ASSUME NEW n \in Ifs, Live(n)' PROVE n \in registered'
    <3>1. n # i /\ n \in registered
      BY <1>9, <1>10, <2>1 DEF Reserved
    <3> QED BY <1>1, <1>3, <1>5, <3>1
  <2>2. ASSUME NEW c \in Home', gattcIf[c] # NoIf PROVE gattcIf[c] \in registered'
    <3>1. c \in Home /\ c \in Peers /\ gattcIf[c] # i /\ gattcIf[c] \in registered
      BY <1>5, <1>15, <2>2, Mapped DEF Reserved
    <3> QED BY <1>1, <1>3, <1>5, <2>2, <3>1
  <2> QED BY <1>1, <2>1, <2>2 DEF Reserved
<1>26. Flags'
  <2> SUFFICES ASSUME NEW c \in Clients, isConnected[c], c \notin Targets(i)
               PROVE  gattcIf[c] # NoIf /\ AppId(c) \in DOMAIN peers' /\ (Displaced(c)' \/ Live(gattcIf[c])')
    BY <1>1, <1>3 DEF Flags, AppId
  <2>1. gattcIf[c] # NoIf /\ gattcIf[c] \in Ifs /\ AppId(c) \in DOMAIN peers
        /\ (Displaced(c) \/ Live(gattcIf[c]))
    BY DEF Flags, Typed
  <2>2. AppId(c) \in DOMAIN peers' /\ peers'[AppId(c)] = peers[AppId(c)]
    BY <1>7, <1>8, <2>1
  <2>3. Displaced(c) => Displaced(c)'
    BY <2>2 DEF Displaced, AppId
  <2>4. gattcIf[c] = i => Displaced(c)
    BY <1>5, <2>1, Mapped DEF Displaced
  <2>5. ASSUME gattcIf[c] # i, Live(gattcIf[c]) PROVE Live(gattcIf[c])'
    <3>1. \A k \in 1 .. Len(queue) : queue[k].if = gattcIf[c] => k # 1
      BY <1>0, <2>5
    <3>2. link' = link /\ gattcIf' = gattcIf
      BY <1>1
    <3>3. \A k \in 1 .. Len(queue) : queue[k].ev = "disconnect" /\ queue[k].if = gattcIf[c] =>
            k - 1 \in 1 .. Len(queue') /\ queue'[k - 1] = queue[k]
      BY <1>3, <3>1
    <3> QED BY <2>5, <3>2, <3>3 DEF Live
  <2> QED BY <2>1, <2>2, <2>3, <2>4, <2>5
<1>27. Unique'
  BY <1>1, <1>7, <1>15 DEF Unique
<1> QED BY <1>16, <1>17, <1>18, <1>19, <1>20, <1>21, <1>22, <1>23, <1>24, <1>25, <1>26, <1>27

-----------------------------------------------------------------------------
(* Theorems                                                                *)

LEMMA NextIInv == IInv /\ [Next]_vars => IInv'
<1> SUFFICES ASSUME IInv, Next \/ UNCHANGED vars PROVE IInv'
  OBVIOUS
<1>1. App => AppQuiet \/ CreateClient \/ Register \/ Registered \/ GattcOpen
  BY DEF App, AppQuiet
<1>2. App => IInv'
  BY <1>1, AppQuietIInv, CreateClientIInv, RegisterIInv, RegisteredIInv
<1>3. Answer \/ LinkEnds => IInv'
  BY AnswerRegisterIInv, AnswerOpenIInv, AnswerQuietIInv, LinkEndsIInv DEF Answer
<1>4. ScanResult \/ ScanEnds \/ UNCHANGED vars => IInv'
  BY ScanIInv
<1>5. BluetoothTask => IInv'
  BY HandleRegIInv, HandleConnectIInv, HandleOpenIInv, HandleQuietIInv, HandleDisconnectIInv
     DEF BluetoothTask
<1> QED BY <1>2, <1>3, <1>4, <1>5 DEF Next

(* The conditions on the map, on the phases of a connection and on the     *)
(* events that are still to be handled hold together.                      *)
THEOREM Consistent == Spec => []IInv
<1> QED BY InitIInv, NextIInv, PTL DEF Spec

(* A client believes to be connected only while its link is there or the   *)
(* end of it is still to be handled, or it was displaced from the map      *)
(* (BLEClient.cpp:190, :215).                                              *)
THEOREM FlagsRight == Spec => []FlagFollowsLink
<1>1. IInv => FlagFollowsLink
  BY DEF IInv, Flags, FlagFollowsLink
<1> QED BY <1>1, Consistent, PTL

(* While nobody was displaced and no registration was rejected, at most    *)
(* one client hears the events of an interface as its own                  *)
(* (BLEClient.cpp:194).                                                    *)
THEOREM HeardByOne == Spec => []OneHearer
<1>1. IInv => OneHearer
  <2> SUFFICES ASSUME IInv, refused = {}, \A c \in Clients : ~Displaced(c), NEW i \in Ifs
               PROVE  Cardinality({c \in Targets(i) : gattcIf[c] = i}) <= 1
    BY DEF OneHearer
  <2> DEFINE Owners == {c \in Targets(i) : gattcIf[c] = i}
  <2>1. \A c \in Peers : c \in Home
    <3> SUFFICES ASSUME NEW c \in Peers PROVE c \in Home
      OBVIOUS
    <3>1. PICK a \in DOMAIN peers : peers[a] = c
      BY Mapped
    <3>2. PICK d \in 1 .. cur : a = AppId(d)
      BY DEF IInv, Numbered
    <3>3. d \in Clients
      BY <3>2 DEF IInv, Typed
    <3>4. d = c
      BY <3>1, <3>2, <3>3 DEF Displaced
    <3> QED BY <3>1, <3>2, <3>3, <3>4 DEF Home
  <2>2. \A c, d \in Owners : c = d
    BY <2>1, Mapped DEF IInv, Unique
  <2>3. CASE Owners = {}
    BY <2>3, FS_EmptySet
  <2>4. CASE Owners # {}
    <3>1. PICK c \in Owners : Owners = {c}
      BY <2>2, <2>4
    <3>2. Cardinality({c}) = 1
      BY FS_Singleton
    <3> QED BY <3>1, <3>2
  <2> QED BY <2>3, <2>4
<1> QED BY <1>1, Consistent, PTL
=============================================================================
