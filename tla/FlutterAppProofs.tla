-------------------------- MODULE FlutterAppProofs --------------------------
(***************************************************************************)
(* Safety of the phone app for every number of characteristics,            *)
(* connections and packets.                                                *)
(***************************************************************************)
EXTENDS FlutterApp, FiniteSetTheorems, TLAPS

USE AppAssumption DEF AppAssumption

-----------------------------------------------------------------------------
(* The inductive invariant                                                 *)

(* The connections whose loop may have been answered for c.  The loop of   *)
(* the present one begins when it is up.                                   *)
Begun(i) == i <= connection /\ ~(i = connection /\ link = "connecting")
Passed(c) == {i \in Loop : Begun(i) /\ awaits[i] > c}

(* Each loop adds at most one listener to a characteristic, and passes it  *)
(* once.                                                                   *)
Counted ==
    /\ \A i \in Loop : awaits[i] # Over => Begun(i)
    /\ \A c \in 1 .. Chars : Listening(c) <= Cardinality(Passed(c))

(* Without a device nothing is in the map; a search ends with the device   *)
(* it finds, which finds the map empty.                                    *)
Orderly ==
    /\ ~device => subscribed = {}
    /\ isScanning => ~device
    /\ link # "none" => connection \in Loop
    /\ link = "connecting" => subscribed = {}

(* Without an interruption only the loop of the present connection runs,   *)
(* and it has not listened to what it still has to visit.                  *)
Alone ==
    ~interrupted =>
      /\ \A c \in 1 .. Chars : stray[c] = 0
      /\ \A i \in Loop : awaits[i] # Over => i = connection /\ device
      /\ \A i \in Loop : \A c \in subscribed : c < awaits[i]

IInv == TypeOK /\ Counted /\ Orderly /\ Alone

-----------------------------------------------------------------------------
(* Type correctness, and the number of listeners                           *)

LEMMA LoopFinite == IsFiniteSet(Loop) /\ Cardinality(Loop) = MaxConnections
<1>1. IsFiniteSet(Loop)
  BY FS_Interval DEF Loop
<1>2. Cardinality(1 .. MaxConnections) =
        IF 1 > MaxConnections THEN 0 ELSE MaxConnections - 1 + 1
  BY FS_Interval
<1> QED BY <1>1, <1>2 DEF Loop

LEMMA LoopsCount ==
  ASSUME NEW S, S \subseteq Loop
  PROVE  IsFiniteSet(S) /\ Cardinality(S) \in Nat /\ Cardinality(S) <= MaxConnections
  BY LoopFinite, FS_Subset, FS_CardinalityType

LEMMA MoreLoops ==
  ASSUME NEW T, T \subseteq Loop, NEW S, S \subseteq T
  PROVE  Cardinality(S) <= Cardinality(T)
  BY LoopsCount, FS_Subset

LEMMA ListeningNat ==
  ASSUME TypeOK, NEW c \in 1 .. Chars
  PROVE  Listening(c) \in Nat /\ stray[c] \in 0 .. MaxConnections
  BY DEF TypeOK, Listening

LEMMA InitIInv == Init => IInv
<1> SUFFICES ASSUME Init PROVE IInv
  OBVIOUS
<1>1. TypeOK
  <2>1. stray \in [1 .. Chars -> 0 .. MaxConnections] /\ awaits \in [Loop -> 0 .. Over]
    BY DEF Init, Over
  <2>2. connection \in 0 .. MaxConnections /\ packet \in 0 .. MaxPackets
        /\ lat \in 0 .. MaxPackets /\ lon \in 0 .. MaxPackets
    BY DEF Init
  <2> QED BY <2>1, <2>2, Zenon DEF Init, TypeOK
<1>2. Counted
  <2>1. \A i \in Loop : awaits[i] = Over
    BY DEF Init
  <2>2. ASSUME NEW c \in 1 .. Chars PROVE Listening(c) <= Cardinality(Passed(c))
    <3>1. Listening(c) = 0
      BY DEF Init, Listening
    <3> QED BY <3>1, LoopsCount DEF Passed
  <2> QED BY <2>1, <2>2 DEF Counted
<1>3. Orderly
  BY DEF Init, Orderly
<1>4. Alone
  BY DEF Init, Alone
<1> QED BY <1>1, <1>2, <1>3, <1>4 DEF IInv

(* A loop that an answer wakes goes on behind it.                          *)
LEMMA GoesOn ==
  ASSUME TypeOK, NEW a \in 0 .. Chars, GoOn(a)
  PROVE  /\ awaits' \in [Loop -> 0 .. Over]
         /\ calls' \subseteq 0 .. Chars
         /\ \A i \in Loop : awaits[i] # a => awaits'[i] = awaits[i]
         /\ \A i \in Loop : awaits[i] = a =>
              awaits'[i] = (IF device THEN a + 1 ELSE Over) /\ awaits'[i] > a
<1>1. /\ \A i \in Loop : awaits[i] # a => awaits'[i] = awaits[i]
      /\ \A i \in Loop : awaits[i] = a => awaits'[i] = (IF device THEN a + 1 ELSE Over)
  BY DEF GoOn, Woken, Following
<1>2. awaits' \in [Loop -> 0 .. Over]
  <2>1. DOMAIN awaits' = Loop /\ awaits' = [i \in Loop |-> awaits'[i]]
    BY DEF GoOn
  <2>2. \A i \in Loop : awaits'[i] \in 0 .. Over
    BY <1>1 DEF TypeOK, Over
  <2> QED BY <2>1, <2>2
<1>3. calls' \subseteq 0 .. Chars
  <2>1. \A i \in Loop : awaits'[i] # Over => awaits'[i] \in 0 .. Chars
    BY <1>2 DEF Over
  <2>2. calls \subseteq 0 .. Chars
    BY DEF TypeOK
  <2>3. calls' = (calls \ {a}) \cup {awaits'[i] : i \in {j \in Woken(a) : awaits'[j] # Over}}
    BY DEF GoOn
  <2> QED BY <2>1, <2>2, <2>3 DEF Woken
<1> QED BY <1>1, <1>2, <1>3 DEF Over

(* What is heard once more is from loops that had not passed.              *)
LEMMA Counts ==
  ASSUME TypeOK, Counted, NEW c \in 1 .. Chars, NotifyAnswered(c)
  PROVE  /\ Passed(c)' = Passed(c) \cup Woken(c)
         /\ Listening(c) + Cardinality(Woken(c)) <= Cardinality(Passed(c)')
<1>1. GoOn(c) /\ UNCHANGED <<link, connection>>
  BY DEF NotifyAnswered
<1>2. /\ \A i \in Loop : awaits[i] # c => awaits'[i] = awaits[i]
      /\ \A i \in Loop : awaits[i] = c => awaits'[i] > c
  BY <1>1, GoesOn
<1>3. \A i \in Loop : Begun(i)' <=> Begun(i)
  BY <1>1 DEF Begun
<1>4. \A i \in Woken(c) : i \in Loop /\ awaits[i] = c /\ Begun(i)
  BY DEF Woken, Counted, Over
<1>5. Passed(c)' = Passed(c) \cup Woken(c)
  <2>1. Passed(c)' = {i \in Loop : Begun(i)' /\ awaits'[i] > c}
    BY DEF Passed
  <2>2. ASSUME NEW i \in Loop
        PROVE  Begun(i)' /\ awaits'[i] > c <=> i \in Passed(c) \cup Woken(c)
    BY <1>2, <1>3, <1>4 DEF Passed, Woken
  <2>3. Passed(c) \subseteq Loop /\ Woken(c) \subseteq Loop
    BY DEF Passed, Woken
  <2> QED BY <2>1, <2>2, <2>3
<1>6. Passed(c) \cap Woken(c) = {}
  BY DEF Passed, Woken, TypeOK, Over
<1>7. /\ IsFiniteSet(Passed(c)) /\ Cardinality(Passed(c)) \in Nat
      /\ IsFiniteSet(Woken(c)) /\ Cardinality(Woken(c)) \in Nat
  BY LoopsCount DEF Passed, Woken
<1>8. Cardinality(Passed(c) \cup Woken(c)) = Cardinality(Passed(c)) + Cardinality(Woken(c))
  BY <1>6, <1>7, FS_Union, FS_EmptySet
<1>9. Listening(c) <= Cardinality(Passed(c)) /\ Listening(c) \in Nat
  BY ListeningNat DEF Counted
<1> QED BY <1>5, <1>7, <1>8, <1>9

(* No more listeners than loops that have passed: the steps at which       *)
(* neither becomes wrong by itself.                                        *)
LEMMA StillCounted ==
  ASSUME TypeOK, Counted, NEW c \in 1 .. Chars, Passed(c) \subseteq Passed(c)',
         Listening(c)' \in Nat, Listening(c)' <= Listening(c)
  PROVE  Listening(c)' <= Cardinality(Passed(c)')
<1>1. Listening(c) <= Cardinality(Passed(c)) /\ Listening(c) \in Nat
  BY ListeningNat DEF Counted
<1>2. Passed(c)' \subseteq Loop
  BY DEF Passed
<1>3. Cardinality(Passed(c)) <= Cardinality(Passed(c)')
  BY <1>2, MoreLoops
<1>4. Cardinality(Passed(c)) \in Nat /\ Cardinality(Passed(c)') \in Nat
  BY <1>2, LoopsCount DEF Passed
<1> QED BY <1>1, <1>3, <1>4

LEMMA NextTypeOK == IInv /\ [Next]_vars => TypeOK'
<1> SUFFICES ASSUME IInv, [Next]_vars PROVE TypeOK'
  OBVIOUS
<1> USE DEF IInv
<1>1. CASE AdapterChanged \/ StartScan \/ StopScan
  BY <1>1 DEF AdapterChanged, StartScan, StopScan, TypeOK, blueVars, mapVars
<1>2. CASE Found
  <2>1. connection' \in 0 .. MaxConnections
    BY <1>2 DEF Found, TypeOK
  <2> QED BY <1>2, <2>1, Zenon DEF Found, AfterFound, TypeOK, mapVars
<1>3. CASE LinkUp
  <2>1. awaits' \in [Loop -> 0 .. Over] /\ calls' \subseteq 0 .. Chars
    <3>1. awaits' = [awaits EXCEPT ![connection] = 0] /\ calls' = {0}
      BY <1>3 DEF LinkUp, Discovery
    <3>2. awaits \in [Loop -> 0 .. Over]
      BY DEF TypeOK
    <3>3. 0 \in 0 .. Over /\ 0 \in 0 .. Chars
      BY DEF Over
    <3> QED BY <3>1, <3>2, <3>3
  <2> QED BY <1>3, <2>1, Zenon DEF LinkUp, TypeOK, mapVars
<1>4. CASE LinkLost
  BY <1>4 DEF LinkLost, TypeOK, appVars
<1>5. CASE ConnectionDone \/ TapDisconnect
  BY <1>5 DEF ConnectionDone, TapDisconnect, Disconnect, Cleared, NoDevice, TypeOK
<1>6. CASE Discovered
  <2>1. awaits' \in [Loop -> 0 .. Over] /\ calls' \subseteq 0 .. Chars
    BY <1>6, GoesOn DEF Discovered, Discovery
  <2> QED BY <1>6, <2>1 DEF Discovered, TypeOK, mapVars
<1>7. ASSUME NEW c \in 1 .. Chars, NotifyAnswered(c) PROVE TypeOK'
  <2>1. awaits' \in [Loop -> 0 .. Over] /\ calls' \subseteq 0 .. Chars
    BY <1>7, GoesOn DEF NotifyAnswered
  <2>2. stray' \in [1 .. Chars -> 0 .. MaxConnections]
    <3>1. CASE device /\ Woken(c) # {}
      <4>1. stray' = [stray EXCEPT ![c] = Listening(c) + Cardinality(Woken(c)) - 1]
        BY <1>7, <3>1 DEF NotifyAnswered
      <4>2. Listening(c) \in Nat /\ Cardinality(Woken(c)) \in Nat \ {0}
        BY <3>1, ListeningNat, LoopsCount, FS_EmptySet DEF Woken
      <4>3. Cardinality(Passed(c)') <= MaxConnections /\ Cardinality(Passed(c)') \in Nat
        <5>1. Passed(c)' \subseteq Loop
          BY DEF Passed
        <5> QED BY <5>1, LoopsCount
      <4>4. Listening(c) + Cardinality(Woken(c)) <= Cardinality(Passed(c)')
        BY <1>7, Counts
      <4>5. Listening(c) + Cardinality(Woken(c)) - 1 \in 0 .. MaxConnections
        BY <4>2, <4>3, <4>4
      <4> QED BY <4>1, <4>5 DEF TypeOK
    <3>2. CASE ~(device /\ Woken(c) # {})
      BY <1>7, <3>2 DEF NotifyAnswered, TypeOK
    <3> QED BY <3>1, <3>2
  <2>3. subscribed' \subseteq 1 .. Chars /\ enabled' \subseteq 1 .. Chars
    BY <1>7 DEF NotifyAnswered, TypeOK
  <2> QED BY <1>7, <2>1, <2>2, <2>3 DEF NotifyAnswered, TypeOK, mapVars
<1>8. CASE NotifyLat
  <2>1. packet' \in 0 .. MaxPackets /\ lat' \in 0 .. MaxPackets /\ lon' \in 0 .. MaxPackets
    BY <1>8 DEF NotifyLat, OnValue, TypeOK
  <2>2. settled' \in BOOLEAN
    BY <1>8, Zenon DEF NotifyLat, Arrives, TypeOK
  <2> QED BY <1>8, <2>1, <2>2, Zenon DEF NotifyLat, TypeOK, appVars, blueVars
<1>9. CASE NotifyLon
  <2>1. packet' \in 0 .. MaxPackets /\ lat' \in 0 .. MaxPackets /\ lon' \in 0 .. MaxPackets
    BY <1>9 DEF NotifyLon, OnValue, TypeOK
  <2>2. settled' \in BOOLEAN
    BY <1>9, Zenon DEF NotifyLon, Arrives, TypeOK
  <2> QED BY <1>9, <2>1, <2>2, Zenon DEF NotifyLon, TypeOK, appVars, blueVars
<1>10. CASE NotifyFails
  <2>1. packet' \in 0 .. MaxPackets
    BY <1>10 DEF NotifyFails, TypeOK
  <2> QED BY <1>10, <2>1, Zenon DEF NotifyFails, TypeOK, appVars, blueVars
<1>11. CASE UNCHANGED vars
  BY <1>11, Zenon DEF vars, TypeOK, appVars, blueVars, mapVars
<1> QED BY <1>1, <1>2, <1>3, <1>4, <1>5, <1>6, <1>7, <1>8, <1>9, <1>10, <1>11
           DEF Next, Answers

LEMMA NextCounted == IInv /\ TypeOK' /\ [Next]_vars => Counted'
<1> SUFFICES ASSUME IInv, TypeOK', [Next]_vars PROVE Counted'
  OBVIOUS
<1> USE DEF IInv
<1>1. CASE AdapterChanged \/ StartScan \/ StopScan \/ NotifyLat \/ NotifyLon \/ NotifyFails
           \/ UNCHANGED vars
  <2>1. UNCHANGED <<awaits, link, connection, subscribed, stray>>
    BY <1>1 DEF AdapterChanged, StartScan, StopScan, NotifyLat, NotifyLon, NotifyFails,
                vars, appVars, blueVars
  <2> QED BY <2>1 DEF Counted, Begun, Passed, Listening
<1>2. CASE Found \/ LinkLost
  <2>1. UNCHANGED <<awaits, subscribed, stray>>
    BY <1>2 DEF Found, LinkLost, appVars
  <2>2. \A i \in Loop : Begun(i) => Begun(i)'
    BY <1>2 DEF Found, LinkLost, Begun, TypeOK, Loop
  <2>3. \A i \in Loop : awaits'[i] # Over => Begun(i)'
    BY <2>1, <2>2 DEF Counted
  <2>4. ASSUME NEW c \in 1 .. Chars PROVE Listening(c)' <= Cardinality(Passed(c)')
    <3>1. Passed(c) \subseteq Passed(c)'
      BY <2>1, <2>2 DEF Passed
    <3>2. Listening(c)' = Listening(c) /\ Listening(c) \in Nat
      BY <2>1, ListeningNat DEF Listening
    <3> QED BY <3>1, <3>2, StillCounted
  <2> QED BY <2>3, <2>4 DEF Counted
<1>3. CASE LinkUp
  <2>1. UNCHANGED <<subscribed, stray, connection>> /\ link = "connecting" /\ link' = "up"
        /\ awaits' = [awaits EXCEPT ![connection] = Discovery] /\ connection \in Loop
    BY <1>3 DEF LinkUp, Orderly
  <2>2. \A i \in Loop : Begun(i)' <=> Begun(i) \/ i = connection
    BY <2>1 DEF Begun, TypeOK, Loop
  <2>3. \A i \in Loop : i # connection => awaits'[i] = awaits[i]
    BY <2>1 DEF TypeOK
  <2>4. \A i \in Loop : awaits'[i] # Over => Begun(i)'
    BY <2>2, <2>3 DEF Counted
  <2>5. ASSUME NEW c \in 1 .. Chars PROVE Listening(c)' <= Cardinality(Passed(c)')
    <3>1. ~Begun(connection)
      BY <2>1 DEF Begun
    <3>2. Passed(c) \subseteq Passed(c)'
      BY <2>2, <2>3, <3>1 DEF Passed
    <3>3. Listening(c)' = Listening(c) /\ Listening(c) \in Nat
      BY <2>1, ListeningNat DEF Listening
    <3> QED BY <3>2, <3>3, StillCounted
  <2> QED BY <2>4, <2>5 DEF Counted
<1>4. CASE ConnectionDone \/ TapDisconnect
  <2>1. UNCHANGED <<awaits, stray, connection>> /\ link' = "none" /\ subscribed' = {}
    BY <1>4 DEF ConnectionDone, TapDisconnect, Disconnect, Cleared
  <2>2. \A i \in Loop : Begun(i) => Begun(i)'
    BY <2>1 DEF Begun
  <2>3. \A i \in Loop : awaits'[i] # Over => Begun(i)'
    BY <2>1, <2>2 DEF Counted
  <2>4. ASSUME NEW c \in 1 .. Chars PROVE Listening(c)' <= Cardinality(Passed(c)')
    <3>1. Passed(c) \subseteq Passed(c)'
      BY <2>1, <2>2 DEF Passed
    <3>2. Listening(c)' = stray[c] /\ stray[c] \in Nat /\ stray[c] <= Listening(c)
      BY <2>1, ListeningNat DEF Listening
    <3> QED BY <3>1, <3>2, StillCounted
  <2> QED BY <2>3, <2>4 DEF Counted
<1>5. CASE Discovered
  <2>1. UNCHANGED <<link, connection, subscribed, stray>> /\ GoOn(0)
    BY <1>5 DEF Discovered, Discovery
  <2>2. \A i \in Loop : Begun(i)' <=> Begun(i)
    BY <2>1 DEF Begun
  <2>3. \A i \in Loop : awaits'[i] = awaits[i] \/ awaits[i] = 0
    BY <2>1, GoesOn
  <2>4. \A i \in Loop : awaits'[i] # Over => Begun(i)'
    BY <2>2, <2>3 DEF Counted, Over
  <2>5. ASSUME NEW c \in 1 .. Chars PROVE Listening(c)' <= Cardinality(Passed(c)')
    <3>1. Passed(c) \subseteq Passed(c)'
      BY <2>2, <2>3 DEF Passed
    <3>2. Listening(c)' = Listening(c) /\ Listening(c) \in Nat
      BY <2>1, ListeningNat DEF Listening
    <3> QED BY <3>1, <3>2, StillCounted
  <2> QED BY <2>4, <2>5 DEF Counted
<1>6. ASSUME NEW a \in 1 .. Chars, NotifyAnswered(a) PROVE Counted'
  <2>1. UNCHANGED <<link, connection>> /\ GoOn(a)
    BY <1>6 DEF NotifyAnswered
  <2>2. \A i \in Loop : Begun(i)' <=> Begun(i)
    BY <2>1 DEF Begun
  <2>3. \A i \in Loop : \/ awaits'[i] = awaits[i]
                        \/ awaits[i] = a /\ awaits'[i] > a
    BY <2>1, GoesOn
  <2>4. \A i \in Loop : awaits'[i] # Over => Begun(i)'
    BY <2>2, <2>3 DEF Counted, Over
  <2>5. ASSUME NEW c \in 1 .. Chars PROVE Listening(c)' <= Cardinality(Passed(c)')
    <3>1. CASE c = a /\ device /\ Woken(a) # {}
      <4>1. subscribed' = subscribed \cup {a}
            /\ stray' = [stray EXCEPT ![a] = Listening(a) + Cardinality(Woken(a)) - 1]
        BY <1>6, <3>1 DEF NotifyAnswered
      <4>2. Listening(a) \in Nat /\ Cardinality(Woken(a)) \in Nat
        BY ListeningNat, LoopsCount DEF Woken
      <4>3. Listening(c)' = Listening(a) + Cardinality(Woken(a))
        <5>1. stray'[c] = Listening(a) + Cardinality(Woken(a)) - 1 /\ c \in subscribed'
          BY <3>1, <4>1 DEF TypeOK
        <5> QED BY <4>2, <5>1 DEF Listening
      <4> QED BY <1>6, <3>1, <4>3, Counts
    <3>2. CASE ~(c = a /\ device /\ Woken(a) # {})
      <4>1. Listening(c)' = Listening(c) /\ Listening(c) \in Nat
        <5>1. stray'[c] = stray[c] /\ (c \in subscribed' <=> c \in subscribed)
          BY <1>6, <3>2 DEF NotifyAnswered, TypeOK
        <5> QED BY <5>1, ListeningNat DEF Listening
      <4>2. Passed(c) \subseteq Passed(c)'
        <5>1. ASSUME NEW i \in Loop, awaits[i] > c PROVE awaits'[i] > c
          <6>1. awaits[i] \in Nat /\ awaits'[i] \in Nat
            BY DEF TypeOK, Over
          <6> QED BY <2>3, <5>1, <6>1
        <5> QED BY <2>2, <5>1 DEF Passed
      <4> QED BY <4>1, <4>2, StillCounted
    <3> QED BY <3>1, <3>2
  <2> QED BY <2>4, <2>5 DEF Counted
<1> QED BY <1>1, <1>2, <1>3, <1>4, <1>5, <1>6 DEF Next, Answers

-----------------------------------------------------------------------------
(* Who is subscribed to what                                               *)

LEMMA NextOrderly == IInv /\ [Next]_vars => Orderly'
<1> SUFFICES ASSUME IInv, [Next]_vars PROVE Orderly'
  OBVIOUS
<1> USE DEF IInv
<1>1. CASE AdapterChanged \/ StartScan \/ StopScan
  BY <1>1 DEF AdapterChanged, StartScan, StopScan, Orderly, blueVars
<1>2. CASE Found
  <2>1. connection' \in Loop
    BY <1>2 DEF Found, TypeOK, Loop
  <2> QED BY <1>2, <2>1 DEF Found, AfterFound, Orderly
<1>3. CASE LinkUp \/ LinkLost
  BY <1>3 DEF LinkUp, LinkLost, appVars, Orderly
<1>4. CASE ConnectionDone \/ TapDisconnect
  BY <1>4 DEF ConnectionDone, TapDisconnect, Disconnect, Cleared, NoDevice, Orderly
<1>5. CASE Discovered
  BY <1>5 DEF Discovered, Orderly
<1>6. ASSUME NEW c \in 1 .. Chars, NotifyAnswered(c) PROVE Orderly'
  BY <1>6 DEF NotifyAnswered, Orderly
<1>7. CASE NotifyLat \/ NotifyLon \/ NotifyFails \/ UNCHANGED vars
  BY <1>7 DEF NotifyLat, NotifyLon, NotifyFails, vars, appVars, blueVars, Orderly
<1> QED BY <1>1, <1>2, <1>3, <1>4, <1>5, <1>6, <1>7 DEF Next, Answers

(* Without an interruption at most the present loop is woken, by the       *)
(* answer for a characteristic that nothing listens to yet.                *)
LEMMA WokenAlone ==
  ASSUME TypeOK, Alone, ~interrupted, NEW c \in 1 .. Chars, Woken(c) # {}
  PROVE  Cardinality(Woken(c)) = 1 /\ Listening(c) = 0
<1>1. \A i \in Woken(c) : i \in Loop /\ awaits[i] = c /\ c # Over /\ i = connection
  BY DEF Woken, Alone, Over
<1>2. Woken(c) = {connection}
  BY <1>1
<1>3. c \notin subscribed
  BY <1>1 DEF Alone, TypeOK
<1>4. stray[c] = 0
  BY DEF Alone
<1> QED BY <1>2, <1>3, <1>4, FS_Singleton DEF Listening

LEMMA NextAlone == IInv /\ TypeOK' /\ [Next]_vars => Alone'
<1> SUFFICES ASSUME IInv, TypeOK', [Next]_vars, ~interrupted'
             PROVE  /\ \A c \in 1 .. Chars : stray'[c] = 0
                    /\ \A i \in Loop : awaits'[i] # Over => i = connection' /\ device'
                    /\ \A i \in Loop : \A c \in subscribed' : c < awaits'[i]
  BY DEF Alone
<1> USE DEF IInv
<1>1. ~interrupted
  BY DEF Next, Answers, AdapterChanged, StartScan, StopScan, Found, LinkUp, LinkLost,
         ConnectionDone, TapDisconnect, Disconnect, Discovered, NotifyAnswered,
         NotifyLat, NotifyLon, NotifyFails, vars
<1>2. CASE AdapterChanged \/ StartScan \/ StopScan \/ LinkLost
           \/ NotifyLat \/ NotifyLon \/ NotifyFails \/ UNCHANGED vars
  <2>1. UNCHANGED <<stray, awaits, connection, device, subscribed>>
    BY <1>2 DEF AdapterChanged, StartScan, StopScan, LinkLost, NotifyLat, NotifyLon,
                NotifyFails, vars, appVars, blueVars
  <2> QED BY <1>1, <2>1 DEF Alone
<1>3. CASE Found
  <2>1. UNCHANGED <<stray, awaits, subscribed>> /\ ~device
    BY <1>3 DEF Found, Orderly
  <2> QED BY <1>1, <2>1 DEF Alone
<1>4. CASE LinkUp
  <2>1. UNCHANGED <<stray, connection, device, subscribed>> /\ subscribed = {} /\ device
        /\ awaits' = [awaits EXCEPT ![connection] = Discovery]
    BY <1>4 DEF LinkUp, Orderly
  <2>2. \A i \in Loop : i # connection => awaits'[i] = awaits[i]
    BY <2>1 DEF TypeOK
  <2> QED BY <1>1, <2>1, <2>2 DEF Alone
<1>5. CASE ConnectionDone \/ TapDisconnect
  <2>1. UNCHANGED <<stray, awaits, connection>> /\ subscribed' = {}
        /\ \A i \in Loop : awaits[i] = Over
    BY <1>5 DEF ConnectionDone, TapDisconnect, Disconnect, Cleared
  <2> QED BY <1>1, <2>1 DEF Alone
<1>6. CASE Discovered
  <2>1. UNCHANGED <<stray, connection, device, subscribed>> /\ GoOn(0)
    BY <1>6 DEF Discovered, Discovery
  <2>2. \A i \in Loop : awaits'[i] = awaits[i] \/ awaits[i] = 0
    BY <2>1, GoesOn
  <2>3. \A i \in Loop : awaits'[i] # Over => i = connection /\ device
    BY <1>1, <2>2 DEF Alone, Over
  <2>4. ASSUME NEW i \in Loop, NEW c \in subscribed PROVE c < awaits'[i]
    <3>1. c < awaits[i] /\ c \in 1 .. Chars
      BY <1>1 DEF Alone, TypeOK
    <3>2. awaits[i] # 0
      BY <3>1
    <3> QED BY <2>2, <3>1, <3>2
  <2> QED BY <1>1, <2>1, <2>3, <2>4 DEF Alone
<1>7. ASSUME NEW a \in 1 .. Chars, NotifyAnswered(a)
      PROVE  /\ \A c \in 1 .. Chars : stray'[c] = 0
             /\ \A i \in Loop : awaits'[i] # Over => i = connection' /\ device'
             /\ \A i \in Loop : \A c \in subscribed' : c < awaits'[i]
  <2>1. UNCHANGED <<connection, device>> /\ GoOn(a)
    BY <1>7 DEF NotifyAnswered
  <2>2. \A i \in Loop : \/ awaits'[i] = awaits[i]
                        \/ awaits[i] = a /\ awaits'[i] > a
    BY <2>1, GoesOn
  <2>3. \A i \in Loop : awaits'[i] # Over => i = connection /\ device
    BY <1>1, <2>2 DEF Alone, Over
  <2>4. ASSUME NEW i \in Loop, NEW c \in subscribed PROVE c < awaits'[i]
    <3>1. c < awaits[i] /\ c \in Nat
      BY <1>1 DEF Alone, TypeOK
    <3>2. awaits[i] \in Nat /\ awaits'[i] \in Nat
      BY DEF TypeOK, Over
    <3> QED BY <2>2, <3>1, <3>2
  <2>5. CASE device /\ Woken(a) # {}
    <3>1. subscribed' = subscribed \cup {a} /\ stray' = [stray EXCEPT ![a] = 0 + 1 - 1]
      BY <1>1, <1>7, <2>5, WokenAlone DEF NotifyAnswered
    <3>2. \A c \in 1 .. Chars : stray'[c] = 0
      BY <1>1, <3>1 DEF Alone, TypeOK
    <3>3. ASSUME NEW i \in Loop PROVE a < awaits'[i]
      <4>1. CASE awaits[i] = Over
        BY <2>2, <4>1 DEF Over
      <4>2. CASE awaits[i] # Over
        <5>1. i = connection
          BY <1>1, <4>2 DEF Alone
        <5>2. PICK k \in Loop : awaits[k] = a
          BY <2>5 DEF Woken
        <5>3. k = connection
          BY <1>1, <5>2 DEF Alone, Over
        <5> QED BY <2>1, <5>1, <5>2, <5>3, GoesOn
      <4> QED BY <4>1, <4>2
    <3> QED BY <2>1, <2>3, <2>4, <3>1, <3>2, <3>3
  <2>6. CASE ~(device /\ Woken(a) # {})
    <3>1. UNCHANGED <<subscribed, stray>>
      BY <1>7, <2>6 DEF NotifyAnswered
    <3> QED BY <1>1, <2>1, <2>3, <2>4, <3>1 DEF Alone
  <2> QED BY <2>5, <2>6
<1> QED BY <1>2, <1>3, <1>4, <1>5, <1>6, <1>7 DEF Next, Answers

LEMMA AlwaysIInv == Spec => []IInv
<1>1. IInv /\ [Next]_vars => IInv'
  BY NextTypeOK, NextCounted, NextOrderly, NextAlone DEF IInv
<1> QED BY <1>1, InitIInv, PTL DEF Spec

(* The state of the app is well typed: a characteristic never has more     *)
(* lost listeners than there were connections.                             *)
THEOREM WellTyped == Spec => []TypeOK
<1>1. IInv => TypeOK
  BY DEF IInv
<1> QED BY <1>1, AlwaysIInv, PTL

(* _disconnect removes every listener, unless a connection ended while its *)
(* loop was waiting for an answer.                                         *)
THEOREM ListenersRemoved == Spec => []RemovedUnlessInterrupted
<1>1. IInv => RemovedUnlessInterrupted
  BY DEF IInv, Alone, Orderly, RemovedUnlessInterrupted, AllRemoved, Listening
<1> QED BY <1>1, AlwaysIInv, PTL

-----------------------------------------------------------------------------
(* The marker                                                              *)

LEMMA NextMixes == TypeOK /\ MixesNeighbours /\ [Next]_vars => MixesNeighbours'
<1> SUFFICES ASSUME TypeOK, MixesNeighbours, [Next]_vars, settled'
             PROVE  lat' = packet' /\ lon' = IF half' THEN packet' - 1 ELSE packet'
  BY DEF MixesNeighbours
<1>1. CASE NotifyLat
  <2>1. settled /\ Arrives(Lat) /\ ~half
    BY <1>1 DEF NotifyLat
  <2>2. lat' = packet + 1 /\ lon' = lon /\ packet' = packet + 1 /\ half'
    BY <1>1, <2>1 DEF NotifyLat, OnValue, IsFor
  <2>3. lon = packet /\ packet \in Nat
    BY <2>1 DEF MixesNeighbours, TypeOK
  <2> QED BY <2>2, <2>3
<1>2. CASE NotifyLon
  BY <1>2 DEF NotifyLon, OnValue, IsFor
<1>3. CASE ~(NotifyLat \/ NotifyLon)
  <2>1. UNCHANGED <<settled, packet, half, lat, lon>>
    BY <1>3 DEF Next, Answers, AdapterChanged, StartScan, StopScan, Found, LinkUp, LinkLost,
         ConnectionDone, TapDisconnect, Disconnect, Discovered, NotifyAnswered,
         NotifyFails, vars, mapVars
  <2> QED BY <2>1 DEF MixesNeighbours
<1> QED BY <1>1, <1>2, <1>3

(* Once a whole packet has reached the map, and as long as nothing is      *)
(* lost, the marker mixes at most the packet that is being published with  *)
(* the one before.                                                         *)
THEOREM MarkerMixesNeighbours == Spec => []MixesNeighbours
<1>1. Init => MixesNeighbours
  BY DEF Init, MixesNeighbours
<1> QED BY <1>1, NextMixes, WellTyped, PTL DEF Spec
=============================================================================
