---------------------------- MODULE BleLinkProofs ----------------------------
(***************************************************************************)
(* The records of connections agree with each other and with the           *)
(* connections, for any number of phones and characteristics and any       *)
(* length of the queue.                                                    *)
(***************************************************************************)
EXTENDS BleLink, FiniteSetTheorems, TLAPS

-----------------------------------------------------------------------------
(* Comings and goings in a queue                                           *)

(* The positions of the events that tell of p coming or going.             *)
Life(p, queue) ==
    {n \in 1 .. Len(queue) : queue[n] \in {Connected(p), Disconnected(p)}}

Up(p, event) == event = Connected(p)

(* The events of p alternate, and lead from the phones "was" to "is".      *)
Alternates(p, queue, was, is) ==
    /\ Life(p, queue) = {} => (p \in was <=> p \in is)
    /\ \A n \in Life(p, queue) :
         /\ (\A m \in Life(p, queue) : n <= m) => (Up(p, queue[n]) <=> p \notin was)
         /\ (\A m \in Life(p, queue) : m <= n) => (Up(p, queue[n]) <=> p \in is)
         /\ \A m \in Life(p, queue) :
              n < m /\ (\A k \in Life(p, queue) : k <= n \/ m <= k) =>
                (Up(p, queue[n]) <=> ~Up(p, queue[m]))

(* Events of different kinds and phones are different.                     *)
LEMMA EventsDiffer ==
  \A p, q : /\ Connected(p) # Disconnected(q)
            /\ (Connected(p) = Connected(q) \/ Disconnected(p) = Disconnected(q)) => p = q
            /\ \A ch, on : /\ Written(q, ch, on) # Connected(p)
                           /\ Written(q, ch, on) # Disconnected(p)
BY DEF Connected, Disconnected, Written

(* Posting an event that is none of p's.                                   *)
LEMMA PostOther ==
  ASSUME NEW S, NEW queue \in Seq(S), NEW e \in S, NEW p,
         NEW was, NEW is,
         Alternates(p, queue, was, is), e \notin {Connected(p), Disconnected(p)}
  PROVE  Alternates(p, Append(queue, e), was, is)
<1>1. Life(p, Append(queue, e)) = Life(p, queue)
  BY DEF Life
<1>2. \A n \in Life(p, queue) : Append(queue, e)[n] = queue[n]
  BY DEF Life
<1> QED
  BY <1>1, <1>2 DEF Alternates

(* Posting that p comes, or goes, while it is in the other state.          *)
LEMMA PostOwn ==
  ASSUME NEW S, NEW queue \in Seq(S), NEW e \in S, NEW p,
         NEW was, NEW is, Alternates(p, queue, was, is),
         e \in {Connected(p), Disconnected(p)},
         NEW now, p \in now <=> p \notin is, Up(p, e) <=> p \in now
  PROVE  Alternates(p, Append(queue, e), was, now)
<1> DEFINE last == Len(queue) + 1
           new  == Append(queue, e)
<1>0. last \in Nat /\ \A n \in Life(p, queue) : n \in Nat /\ n < last
  BY DEF Life
<1>1. Life(p, new) = Life(p, queue) \cup {last}
  BY DEF Life
<1>2. new[last] = e /\ \A n \in Life(p, queue) : new[n] = queue[n]
  BY DEF Life
<1> HIDE DEF last, new
<1>3. \A n \in Life(p, new) :
        (\A m \in Life(p, new) : n <= m) => (Up(p, new[n]) <=> p \notin was)
  <2> SUFFICES ASSUME NEW n \in Life(p, new), \A m \in Life(p, new) : n <= m
               PROVE  Up(p, new[n]) <=> p \notin was
    OBVIOUS
  <2>1. CASE n \in Life(p, queue)
    BY <1>1, <1>2, <2>1 DEF Alternates
  <2>2. CASE n = last
    <3>1. SUFFICES ASSUME NEW k \in Life(p, queue) PROVE FALSE
      BY <1>2, <2>2 DEF Alternates
    <3>2. k \in Life(p, new) /\ k \in Nat /\ k < last
      BY <1>0, <1>1
    <3> QED BY <1>0, <2>2, <3>2
  <2> QED BY <1>1, <2>1, <2>2
<1>4. \A n \in Life(p, new) :
        (\A m \in Life(p, new) : m <= n) => (Up(p, new[n]) <=> p \in now)
  BY <1>0, <1>1, <1>2
<1>5. \A n, m \in Life(p, new) :
        n < m /\ (\A k \in Life(p, new) : k <= n \/ m <= k) =>
          (Up(p, new[n]) <=> ~Up(p, new[m]))
  <2> SUFFICES ASSUME NEW n \in Life(p, new), NEW m \in Life(p, new), n < m,
                      \A k \in Life(p, new) : k <= n \/ m <= k
               PROVE  Up(p, new[n]) <=> ~Up(p, new[m])
    OBVIOUS
  <2>1. n \in Life(p, queue)
    BY <1>0, <1>1
  <2>2. CASE m \in Life(p, queue)
    BY <1>1, <1>2, <2>1, <2>2 DEF Alternates
  <2>3. CASE m = last
    <3>1. \A k \in Life(p, queue) : k <= n
      BY <1>0, <1>1, <2>3
    <3>2. Up(p, queue[n]) <=> p \in is
      BY <2>1, <3>1 DEF Alternates
    <3> QED BY <1>2, <2>1, <2>3, <3>2
  <2> QED BY <1>1, <2>2, <2>3
<1>6. Life(p, new) # {}
  BY <1>1
<1>7. Alternates(p, new, was, now)
  BY <1>3, <1>4, <1>5, <1>6 DEF Alternates
<1> QED BY <1>7 DEF new

(* What taking the first event does to the positions of the others.        *)
LEMMA TailLife ==
  ASSUME NEW S, NEW queue \in Seq(S), queue # << >>, NEW p
  PROVE  /\ \A n \in Life(p, Tail(queue)) :
              n \in Nat /\ n + 1 \in Life(p, queue) /\ Tail(queue)[n] = queue[n + 1]
         /\ \A n \in Life(p, queue) :
              n \in Nat /\ n >= 1 /\ (n # 1 => n - 1 \in Life(p, Tail(queue)))
         /\ 1 \in Life(p, queue) <=> Head(queue) \in {Connected(p), Disconnected(p)}
         /\ queue[1] = Head(queue)
<1>1. Tail(queue) \in Seq(S) /\ Len(Tail(queue)) = Len(queue) - 1 /\ Len(queue) >= 1
      /\ Len(queue) \in Nat
  OBVIOUS
<1>2. \A n \in 1 .. Len(queue) - 1 : Tail(queue)[n] = queue[n + 1]
  OBVIOUS
<1>3. queue[1] = Head(queue)
  OBVIOUS
<1>4. \A n \in Life(p, queue) :
        n \in Nat /\ n >= 1 /\ (n # 1 => n - 1 \in Life(p, Tail(queue)))
  <2> SUFFICES ASSUME NEW n \in 1 .. Len(queue), n # 1,
                      queue[n] \in {Connected(p), Disconnected(p)}
               PROVE  n - 1 \in Life(p, Tail(queue))
    BY DEF Life
  <2>1. n - 1 \in 1 .. Len(queue) - 1 /\ (n - 1) + 1 = n
    BY <1>1
  <2>2. Tail(queue)[n - 1] = queue[n]
    BY <1>2, <2>1
  <2> QED BY <1>1, <2>1, <2>2 DEF Life
<1>5. \A n \in Life(p, Tail(queue)) :
        n \in Nat /\ n + 1 \in Life(p, queue) /\ Tail(queue)[n] = queue[n + 1]
  <2> SUFFICES ASSUME NEW n \in 1 .. Len(queue) - 1,
                      Tail(queue)[n] \in {Connected(p), Disconnected(p)}
               PROVE  n + 1 \in Life(p, queue) /\ Tail(queue)[n] = queue[n + 1]
    BY <1>1 DEF Life
  <2>1. n + 1 \in 1 .. Len(queue) /\ Tail(queue)[n] = queue[n + 1]
    BY <1>1, <1>2
  <2> QED BY <2>1 DEF Life
<1>6. 1 \in Life(p, queue) <=> Head(queue) \in {Connected(p), Disconnected(p)}
  BY <1>1, <1>3 DEF Life
<1> QED BY <1>3, <1>4, <1>5, <1>6

(* Taking an event that is none of p's.                                    *)
LEMMA TakeOther ==
  ASSUME NEW S, NEW queue \in Seq(S), queue # << >>, NEW p,
         NEW was, NEW is, Alternates(p, queue, was, is),
         Head(queue) \notin {Connected(p), Disconnected(p)}
  PROVE  Alternates(p, Tail(queue), was, is)
<1> DEFINE rest == Tail(queue)
<1>1. \A n \in Life(p, rest) :
        n \in Nat /\ n + 1 \in Life(p, queue) /\ rest[n] = queue[n + 1]
  BY TailLife
<1>2. \A n \in Life(p, queue) : n \in Nat /\ n >= 2 /\ n - 1 \in Life(p, rest)
  BY TailLife
<1> HIDE DEF rest
<1>3. Life(p, rest) = {} => (p \in was <=> p \in is)
  <2>1. Life(p, rest) = {} => Life(p, queue) = {}
    BY <1>2
  <2> QED BY <2>1 DEF Alternates
<1>4. \A n \in Life(p, rest) :
        (\A m \in Life(p, rest) : n <= m) => (Up(p, rest[n]) <=> p \notin was)
  <2> SUFFICES ASSUME NEW n \in Life(p, rest), \A m \in Life(p, rest) : n <= m
               PROVE  Up(p, rest[n]) <=> p \notin was
    OBVIOUS
  <2>1. \A m \in Life(p, queue) : n + 1 <= m
    BY <1>1, <1>2
  <2> QED BY <1>1, <2>1 DEF Alternates
<1>5. \A n \in Life(p, rest) :
        (\A m \in Life(p, rest) : m <= n) => (Up(p, rest[n]) <=> p \in is)
  <2> SUFFICES ASSUME NEW n \in Life(p, rest), \A m \in Life(p, rest) : m <= n
               PROVE  Up(p, rest[n]) <=> p \in is
    OBVIOUS
  <2>1. \A m \in Life(p, queue) : m <= n + 1
    BY <1>1, <1>2
  <2> QED BY <1>1, <2>1 DEF Alternates
<1>6. \A n, m \in Life(p, rest) :
        n < m /\ (\A k \in Life(p, rest) : k <= n \/ m <= k) =>
          (Up(p, rest[n]) <=> ~Up(p, rest[m]))
  <2> SUFFICES ASSUME NEW n \in Life(p, rest), NEW m \in Life(p, rest), n < m,
                      \A k \in Life(p, rest) : k <= n \/ m <= k
               PROVE  Up(p, rest[n]) <=> ~Up(p, rest[m])
    OBVIOUS
  <2>1. n + 1 < m + 1
    BY <1>1
  <2>2. ASSUME NEW k \in Life(p, queue) PROVE k <= n + 1 \/ m + 1 <= k
    <3>1. k - 1 <= n \/ m <= k - 1
      BY <1>2
    <3> QED BY <1>1, <1>2, <3>1
  <2>3. Up(p, queue[n + 1]) <=> ~Up(p, queue[m + 1])
    BY <1>1, <2>1, <2>2 DEF Alternates
  <2> QED BY <1>1, <2>3
<1>7. Alternates(p, rest, was, is)
  BY <1>3, <1>4, <1>5, <1>6 DEF Alternates
<1> QED BY <1>7 DEF rest

(* Taking that p comes, or goes: it was in the other state.                *)
LEMMA TakeOwn ==
  ASSUME NEW S, NEW queue \in Seq(S), queue # << >>, NEW p,
         NEW was, NEW is, Alternates(p, queue, was, is),
         Head(queue) \in {Connected(p), Disconnected(p)}
  PROVE  /\ Up(p, Head(queue)) <=> p \notin was
         /\ \A now : (p \in now <=> p \notin was) => Alternates(p, Tail(queue), now, is)
<1> DEFINE rest == Tail(queue)
<1>1. \A n \in Life(p, rest) :
        n \in Nat /\ n + 1 \in Life(p, queue) /\ rest[n] = queue[n + 1]
  BY TailLife
<1>2. \A n \in Life(p, queue) : n \in Nat /\ n >= 1 /\ (n # 1 => n - 1 \in Life(p, rest))
  BY TailLife
<1>3. 1 \in Life(p, queue) /\ queue[1] = Head(queue)
  BY TailLife
<1>4. \A n \in Life(p, rest) : n >= 1
  BY DEF Life
<1> HIDE DEF rest
<1>5. Up(p, Head(queue)) <=> p \notin was
  BY <1>2, <1>3 DEF Alternates
<1>6. Life(p, rest) = {} => (p \notin was <=> p \in is)
  <2>1. Life(p, rest) = {} => \A m \in Life(p, queue) : m <= 1
    BY <1>2
  <2> QED BY <1>3, <1>5, <2>1 DEF Alternates
<1>7. \A n \in Life(p, rest) :
        (\A m \in Life(p, rest) : n <= m) => (Up(p, rest[n]) <=> p \in was)
  <2> SUFFICES ASSUME NEW n \in Life(p, rest), \A m \in Life(p, rest) : n <= m
               PROVE  Up(p, rest[n]) <=> p \in was
    OBVIOUS
  <2>1. 1 < n + 1
    BY <1>1, <1>4
  <2>2. ASSUME NEW k \in Life(p, queue) PROVE k <= 1 \/ n + 1 <= k
    <3>1. k # 1 => n <= k - 1
      BY <1>2
    <3> QED BY <1>1, <1>2, <3>1
  <2>3. Up(p, queue[1]) <=> ~Up(p, queue[n + 1])
    BY <1>1, <1>3, <2>1, <2>2 DEF Alternates
  <2> QED BY <1>1, <1>3, <1>5, <2>3
<1>8. \A n \in Life(p, rest) :
        (\A m \in Life(p, rest) : m <= n) => (Up(p, rest[n]) <=> p \in is)
  <2> SUFFICES ASSUME NEW n \in Life(p, rest), \A m \in Life(p, rest) : m <= n
               PROVE  Up(p, rest[n]) <=> p \in is
    OBVIOUS
  <2>1. \A m \in Life(p, queue) : m <= n + 1
    BY <1>1, <1>2, <1>4
  <2> QED BY <1>1, <2>1 DEF Alternates
<1>9. \A n, m \in Life(p, rest) :
        n < m /\ (\A k \in Life(p, rest) : k <= n \/ m <= k) =>
          (Up(p, rest[n]) <=> ~Up(p, rest[m]))
  <2> SUFFICES ASSUME NEW n \in Life(p, rest), NEW m \in Life(p, rest), n < m,
                      \A k \in Life(p, rest) : k <= n \/ m <= k
               PROVE  Up(p, rest[n]) <=> ~Up(p, rest[m])
    OBVIOUS
  <2>1. n + 1 < m + 1
    BY <1>1
  <2>2. ASSUME NEW k \in Life(p, queue) PROVE k <= n + 1 \/ m + 1 <= k
    <3>1. k # 1 => k - 1 <= n \/ m <= k - 1
      BY <1>2
    <3> QED BY <1>1, <1>2, <1>4, <3>1
  <2>3. Up(p, queue[n + 1]) <=> ~Up(p, queue[m + 1])
    BY <1>1, <2>1, <2>2 DEF Alternates
  <2> QED BY <1>1, <2>3
<1>10. \A now : (p \in now <=> p \notin was) => Alternates(p, rest, now, is)
  BY <1>6, <1>7, <1>8, <1>9 DEF Alternates
<1> QED BY <1>5, <1>10 DEF rest

-----------------------------------------------------------------------------
(* The inductive invariant                                                 *)

(* The phones of which the Bluetooth task has taken the coming, not yet    *)
(* the going.                                                              *)
Leaving == {"disconnect_callback", "disconnect_advertise", "disconnect_remove"}
Known   == IF btPc \in Leaving THEN peers \ {btPhone} ELSE peers

(* The queue leads from the phones known to the phones connected.          *)
QueueLeads == \A p \in Phones : Alternates(p, events, Known, links)

(* Within a handler the count is one behind, for the phone served.         *)
Counted ==
    /\ Cardinality(peers) = connectedCount + (IF btPc = "idle" THEN 0 ELSE 1)
    /\ btPc # "idle" => btPhone \in peers

(* The flag is raised for a peer and lowered before the peer is removed.   *)
FlagJustified ==
    deviceConnected => /\ btPc \notin {"disconnect_advertise", "disconnect_remove"}
                       /\ peers # {}

IInv == TypeOK /\ QueueLeads /\ Counted /\ FlagJustified

LEMMA EventTypes ==
  \A p \in Phones : /\ Connected(p) \in Events /\ Disconnected(p) \in Events
                    /\ \A ch \in 1 .. Chars, on \in BOOLEAN : Written(p, ch, on) \in Events
<1> TAKE p \in Phones
<1>1. Connected(p) \in Events /\ Disconnected(p) \in Events
  BY DEF Events
<1>2. ASSUME NEW ch \in 1 .. Chars, NEW on \in BOOLEAN
      PROVE  Written(p, ch, on) \in Events
  <2>1. <<p, ch>> \in Channel /\ <<p, ch>>[1] = p /\ <<p, ch>>[2] = ch
    BY DEF Channel
  <2> QED BY <2>1 DEF Events
<1> QED BY <1>1, <1>2

(* The queue stays a queue of events.                                      *)
LEMMA PostType ==
  ASSUME TypeOK, NEW e \in Events, Post(e)
  PROVE  events' \in Seq(Events) /\ Len(events') <= MaxQueue
BY BleAssumption DEF TypeOK, Post

LEMMA TakeType ==
  ASSUME TypeOK, NEW e, Take(e)
  PROVE  /\ events' \in Seq(Events) /\ Len(events') <= MaxQueue
         /\ e \in Events
BY BleAssumption DEF TypeOK, Take

LEMMA PeersFinite ==
  ASSUME TypeOK
  PROVE  /\ IsFiniteSet(peers)
         /\ Cardinality(peers) \in 0 .. Cardinality(Phones)
<1>1. peers \in SUBSET Phones
  BY DEF TypeOK
<1> QED BY <1>1, BleAssumption, FS_Subset, FS_CardinalityType

(* A phone that comes was not known, one that goes was.                    *)
LEMMA TakenLife ==
  ASSUME TypeOK, QueueLeads, NEW p \in Phones, NEW e \in {Connected(p), Disconnected(p)},
         Take(e), NEW now, p \in now <=> e = Connected(p),
         \A o \in Phones \ {p} : o \in now <=> o \in peers
  PROVE  /\ p \in peers <=> e = Disconnected(p)
         /\ \A o \in Phones : Alternates(o, events', now, links)
<1>1. events \in Seq(Events) /\ events # << >> /\ e = Head(events) /\ events' = Tail(events)
      /\ btPc = "idle"
  BY DEF TypeOK, Take
<1>2. \A o \in Phones : Alternates(o, events, peers, links)
  BY <1>1 DEF QueueLeads, Known, Leaving
<1>3. Alternates(p, events, peers, links)
  BY <1>2
<1>4. /\ Up(p, e) <=> p \notin peers
      /\ (p \in now <=> p \notin peers) => Alternates(p, events', now, links)
  BY <1>1, <1>3, TakeOwn
<1>5. p \in peers <=> e = Disconnected(p)
  BY <1>4, EventsDiffer DEF Up
<1>6. Alternates(p, events', now, links)
  BY <1>4, <1>5, EventsDiffer
<1>7. ASSUME NEW o \in Phones \ {p}
      PROVE  Alternates(o, events', now, links)
  <2>1. e \notin {Connected(o), Disconnected(o)}
    BY EventsDiffer
  <2>2. Alternates(o, events', peers, links)
    BY <1>1, <1>2, <2>1, TakeOther
  <2> QED BY <2>2 DEF Alternates
<1> QED BY <1>5, <1>6, <1>7

-----------------------------------------------------------------------------
(* Every step keeps the types                                              *)

(* Whether an attempt to advertise is accepted or turned down, the         *)
(* controller is advertising or it is not.                                 *)
LEMMA AdvertisingStartType ==
  ASSUME NEW accepted \in BOOLEAN, AdvertisingStart(accepted)
  PROVE  advertising' \in BOOLEAN /\ refused' \in BOOLEAN
  BY DEF AdvertisingStart

LEMMA TypeStep ==
  ASSUME IInv, [Next]_vars
  PROVE  TypeOK'
<1> USE DEF IInv
<1>0. Len(events) \in Nat /\ Chars \in Nat /\ 1 \in 1 .. Chars
  BY BleAssumption DEF TypeOK
<1>1. CASE UNCHANGED vars
  BY <1>1 DEF TypeOK, vars, phoneVars, serverVars, loopVars
<1>2. ASSUME NEW p \in Phones, Connect(p) PROVE TypeOK'
  BY <1>2, EventTypes, PostType DEF TypeOK, Connect, serverVars, loopVars
<1>3. ASSUME NEW p \in Phones, Disconnect(p) PROVE TypeOK'
  BY <1>3, EventTypes, PostType DEF TypeOK, Disconnect, serverVars, loopVars
<1>4. ASSUME NEW q \in Channel PROVE q[1] \in Phones /\ q[2] \in 1 .. Chars /\ <<q[1], q[2]>> = q
  BY DEF Channel
<1>5. ASSUME NEW q \in Channel, Subscribe(q[1], q[2]) PROVE TypeOK'
  <2>1. Written(q[1], q[2], TRUE) \in Events
    BY <1>4, EventTypes
  <2> QED BY <1>4, <1>5, <2>1, PostType DEF TypeOK, Subscribe, serverVars, loopVars
<1>6. ASSUME NEW q \in Channel, Unsubscribe(q[1], q[2]) PROVE TypeOK'
  <2>1. Written(q[1], q[2], FALSE) \in Events
    BY <1>4, EventTypes
  <2> QED BY <1>4, <1>6, <2>1, PostType DEF TypeOK, Unsubscribe, serverVars, loopVars
<1>7. ASSUME NEW q \in Channel, Age(q[1], q[2]) PROVE TypeOK'
  BY <1>4, <1>7 DEF TypeOK, Age, serverVars, loopVars
<1>8. PhoneStep => TypeOK'
  BY <1>2, <1>3, <1>5, <1>6, <1>7 DEF PhoneStep
<1>9. BluetoothStep => TypeOK'
  <2>1. ASSUME NEW p \in Phones, Take(Connected(p)), HandleConnect PROVE TypeOK'
    BY <2>1, TakeType DEF TypeOK, HandleConnect, phoneVars, loopVars, HandlerSteps
  <2>2. HandleConnect => TypeOK'
    BY <2>1 DEF HandleConnect
  <2>3. OnConnect => TypeOK'
    BY DEF TypeOK, OnConnect, phoneVars, loopVars, HandlerSteps
  <2>4. CountConnection => TypeOK'
    BY PeersFinite DEF TypeOK, Counted, CountConnection, phoneVars, loopVars, HandlerSteps
  <2>5. HandleDisconnect => TypeOK'
    <3> SUFFICES ASSUME NEW p \in Phones, Take(Disconnected(p)),
                        connectedCount' = connectedCount - 1, btPhone' = p,
                        btPc' = "disconnect_callback",
                        UNCHANGED <<phoneVars, peers, notifications, deviceConnected, loopVars>>
                 PROVE  TypeOK'
      BY DEF HandleDisconnect
    <3>1. p \in peers
      <4> DEFINE now == peers \ {p}
      <4>1. p \in now <=> Disconnected(p) = Connected(p)
        BY EventsDiffer
      <4> QED BY <4>1, TakenLife
    <3>2. Cardinality(peers) = connectedCount
      BY DEF Counted, Take, TypeOK
    <3>3. Cardinality(peers) # 0
      BY <3>1, PeersFinite, FS_EmptySet
    <3>4. connectedCount' \in 0 .. Cardinality(Phones)
      BY <3>2, <3>3, BleAssumption, FS_CardinalityType DEF TypeOK
    <3>5. events' \in Seq(Events) /\ Len(events') <= MaxQueue
      BY TakeType
    <3> QED BY <3>4, <3>5 DEF TypeOK, phoneVars, loopVars, HandlerSteps
  <2>6. OnDisconnect => TypeOK'
    BY DEF TypeOK, OnDisconnect, FlagOnDisconnect, phoneVars, loopVars, HandlerSteps
  <2>7. AdvertiseAgain => TypeOK'
    BY AdvertisingStartType
       DEF TypeOK, AdvertiseAgain, StartAdvertising, phoneVars, loopVars, HandlerSteps
  <2>8. RemovePeer => TypeOK'
    BY DEF TypeOK, RemovePeer, RemovePeerDevice, phoneVars, loopVars, HandlerSteps
  <2>9. HandleWrite => TypeOK'
    BY <1>4, TakeType DEF TypeOK, HandleWrite, phoneVars, loopVars
  <2> QED BY <2>2, <2>3, <2>4, <2>5, <2>6, <2>7, <2>8, <2>9 DEF BluetoothStep
<1>10. NotifyReturns /\ char \in 1 .. Chars =>
         todo' = {} /\ pc' \in LoopSteps /\ char' \in 1 .. Chars
  BY <1>0 DEF NotifyReturns, LoopSteps
<1>11. MainStep => TypeOK'
  <2> USE DEF TypeOK, phoneVars, serverVars
  <2>1. PacketReceived \/ NoPacket \/ CheckConnected => TypeOK'
    BY <1>0 DEF PacketReceived, NoPacket, CheckConnected, LoopSteps
  <2>2. TestCount => TypeOK'
    BY <1>10 DEF TestCount, LoopSteps
  <2>3. TestEnabled => TypeOK'
    BY <1>10 DEF TestEnabled, LoopSteps
  <2>4. CopyPeers => TypeOK'
    BY DEF CopyPeers, LoopSteps
  <2>5. Sending => TypeOK'
    <3> SUFFICES ASSUME NEW q \in Channel, Send(q[1], q[2]) PROVE TypeOK'
      BY DEF Sending
    <3> QED BY <1>4 DEF Send
  <2>6. SendFails \/ SendDone => TypeOK'
    BY <1>10 DEF SendFails, SendDone
  <2>7. TestDisconnecting \/ Readvertise \/ Forget => TypeOK'
    BY AdvertisingStartType DEF TestDisconnecting, Readvertise, Forget, LoopSteps
  <2>8. TestConnecting \/ Remember => TypeOK'
    BY DEF TestConnecting, Remember, LoopSteps
  <2> QED BY <2>1, <2>2, <2>3, <2>4, <2>5, <2>6, <2>7, <2>8 DEF MainStep
<1> QED BY <1>1, <1>8, <1>9, <1>11 DEF Next

-----------------------------------------------------------------------------
(* Every step keeps the records in step                                    *)

(* app_main and an ageing display only look.                               *)
Records == <<links, btPc, btPhone, peers, connectedCount, deviceConnected>>

LEMMA MainLooks == MainStep => UNCHANGED <<Records, events>>
<1> USE DEF Records, serverVars, phoneVars
<1>1. PacketReceived \/ NoPacket \/ CheckConnected => UNCHANGED <<Records, events>>
  BY DEF PacketReceived, NoPacket, CheckConnected
<1>2. TestCount \/ TestEnabled \/ CopyPeers => UNCHANGED <<Records, events>>
  BY DEF TestCount, TestEnabled, CopyPeers
<1>3. Sending \/ SendFails \/ SendDone => UNCHANGED <<Records, events>>
  BY DEF Sending, Send, SendFails, SendDone
<1>4. TestDisconnecting \/ Readvertise \/ Forget \/ TestConnecting \/ Remember =>
        UNCHANGED <<Records, events>>
  BY DEF TestDisconnecting, Readvertise, Forget, TestConnecting, Remember
<1> QED BY <1>1, <1>2, <1>3, <1>4 DEF MainStep

LEMMA RecordsStay ==
  ASSUME Counted, FlagJustified, UNCHANGED Records
  PROVE  Counted' /\ FlagJustified' /\ Known' = Known /\ links' = links
<1> QED BY DEF Counted, FlagJustified, Known, Records

(* Posting that a phone came or went, as it does.                          *)
LEMMA PostedLife ==
  ASSUME TypeOK, QueueLeads, NEW p \in Phones,
         NEW e \in {Connected(p), Disconnected(p)}, e \in Events, Post(e),
         UNCHANGED <<btPc, btPhone, peers>>,
         e = Connected(p) <=> p \notin links, p \in links' <=> p \notin links,
         \A o \in Phones \ {p} : o \in links' <=> o \in links
  PROVE  QueueLeads'
<1>1. events \in Seq(Events) /\ events' = Append(events, e) /\ Known' = Known
  BY DEF TypeOK, Post, Known
<1>2. Alternates(p, events', Known, links')
  <2>1. Alternates(p, events, Known, links)
    BY DEF QueueLeads
  <2>2. Up(p, e) <=> p \in links'
    BY DEF Up
  <2> QED BY <1>1, <2>1, <2>2, PostOwn
<1>3. ASSUME NEW o \in Phones \ {p}
      PROVE  Alternates(o, events', Known, links')
  <2>1. e \notin {Connected(o), Disconnected(o)}
    BY EventsDiffer
  <2>2. Alternates(o, events, Known, links)
    BY DEF QueueLeads
  <2>3. Alternates(o, events', Known, links)
    BY <1>1, <2>1, <2>2, PostOther
  <2> QED BY <2>3 DEF Alternates
<1>4. \A o \in Phones : Alternates(o, events', Known', links')
  BY <1>1, <1>2, <1>3
<1> QED BY <1>4 DEF QueueLeads

(* Posting or taking a write.                                              *)
LEMMA WriteEvents ==
  ASSUME TypeOK, QueueLeads, Known' = Known, links' = links,
         NEW q \in Channel, NEW on \in BOOLEAN,
         Post(Written(q[1], q[2], on)) \/ Take(Written(q[1], q[2], on))
  PROVE  QueueLeads'
<1> DEFINE e == Written(q[1], q[2], on)
<1>1. e \in Events
  BY EventTypes DEF Channel
<1>2. \A o \in Phones : e \notin {Connected(o), Disconnected(o)}
  BY EventsDiffer
<1>3. events \in Seq(Events)
  BY DEF TypeOK
<1> HIDE DEF e
<1>4. ASSUME NEW o \in Phones
      PROVE  Alternates(o, events', Known, links)
  <2>1. Alternates(o, events, Known, links) /\ e \notin {Connected(o), Disconnected(o)}
    BY <1>2 DEF QueueLeads
  <2>2. CASE Post(e)
    <3>1. events' = Append(events, e)
      BY <2>2 DEF Post
    <3> QED BY <1>1, <1>3, <2>1, <3>1, PostOther
  <2>3. CASE Take(e)
    <3>1. events # << >> /\ e = Head(events) /\ events' = Tail(events)
      BY <2>3 DEF Take
    <3> QED BY <1>3, <2>1, <3>1, TakeOther
  <2> QED BY <2>2, <2>3 DEF e
<1>5. \A o \in Phones : Alternates(o, events', Known', links')
  BY <1>4
<1> QED BY <1>5 DEF QueueLeads

(* Taking that a phone came or went: the phones known become "now".        *)
LEMMA TakenStep ==
  ASSUME TypeOK, QueueLeads, NEW p \in Phones,
         NEW e \in {Connected(p), Disconnected(p)}, Take(e), links' = links,
         p \in Known' <=> e = Connected(p),
         \A o \in Phones \ {p} : o \in Known' <=> o \in peers
  PROVE  /\ QueueLeads'
         /\ p \in peers <=> e = Disconnected(p)
<1> DEFINE now == Known'
<1>1. p \in now <=> e = Connected(p)
  OBVIOUS
<1>2. \A o \in Phones \ {p} : o \in now <=> o \in peers
  OBVIOUS
<1> HIDE DEF now
<1>3. /\ p \in peers <=> e = Disconnected(p)
      /\ \A o \in Phones : Alternates(o, events', now, links)
  BY <1>1, <1>2, TakenLife
<1>4. \A o \in Phones : Alternates(o, events', Known', links')
  BY <1>3 DEF now
<1> QED BY <1>3, <1>4 DEF QueueLeads

LEMMA PhoneKeeps == IInv /\ PhoneStep => QueueLeads' /\ Counted' /\ FlagJustified'
<1> SUFFICES ASSUME IInv, PhoneStep PROVE QueueLeads' /\ Counted' /\ FlagJustified'
  OBVIOUS
<1> USE DEF IInv
<1>1. ASSUME NEW p \in Phones, Connect(p) PROVE QueueLeads' /\ Counted' /\ FlagJustified'
  <2>1. /\ Post(Connected(p)) /\ p \notin links /\ links' = links \cup {p}
        /\ UNCHANGED <<btPc, btPhone, peers, connectedCount, deviceConnected>>
    BY <1>1 DEF Connect, serverVars
  <2>2. QueueLeads'
    BY <2>1, EventTypes, PostedLife
  <2> QED BY <2>1, <2>2 DEF Counted, FlagJustified
<1>2. ASSUME NEW p \in Phones, Disconnect(p) PROVE QueueLeads' /\ Counted' /\ FlagJustified'
  <2>1. /\ Post(Disconnected(p)) /\ p \in links /\ links' = links \ {p}
        /\ UNCHANGED <<btPc, btPhone, peers, connectedCount, deviceConnected>>
    BY <1>2 DEF Disconnect, serverVars
  <2>2. QueueLeads'
    BY <2>1, EventTypes, EventsDiffer, PostedLife
  <2> QED BY <2>1, <2>2 DEF Counted, FlagJustified
<1>3. ASSUME NEW q \in Channel, Subscribe(q[1], q[2]) \/ Unsubscribe(q[1], q[2])
      PROVE  QueueLeads' /\ Counted' /\ FlagJustified'
  <2>1. UNCHANGED Records /\ \E on \in BOOLEAN : Post(Written(q[1], q[2], on))
    BY <1>3 DEF Subscribe, Unsubscribe, Records, serverVars
  <2> QED BY <2>1, RecordsStay, WriteEvents
<1>4. ASSUME NEW q \in Channel, Age(q[1], q[2])
      PROVE  QueueLeads' /\ Counted' /\ FlagJustified'
  <2>1. UNCHANGED <<Records, events>>
    BY <1>4 DEF Age, Records, serverVars
  <2> QED BY <2>1, RecordsStay DEF QueueLeads
<1> QED BY <1>1, <1>2, <1>3, <1>4 DEF PhoneStep

LEMMA BluetoothKeeps == IInv /\ BluetoothStep => QueueLeads' /\ Counted' /\ FlagJustified'
<1> SUFFICES ASSUME IInv, BluetoothStep PROVE QueueLeads' /\ Counted' /\ FlagJustified'
  OBVIOUS
<1> USE DEF IInv, phoneVars
<1>1. CASE HandleConnect
  <2>1. PICK p \in Phones :
          /\ Take(Connected(p))
          /\ peers' = peers \cup {p} /\ btPc' = "connect_callback" /\ btPhone' = p
          /\ UNCHANGED <<links, connectedCount, deviceConnected>>
    BY <1>1 DEF HandleConnect
  <2>2. Known' = peers \cup {p}
    BY <2>1 DEF Known, Leaving
  <2>3. QueueLeads' /\ p \notin peers
    BY <2>1, <2>2, EventsDiffer, TakenStep
  <2>4. Cardinality(peers') = Cardinality(peers) + 1
    BY <2>1, <2>3, PeersFinite, FS_AddElement
  <2>5. Counted'
    BY <2>1, <2>4 DEF Counted, Take, TypeOK
  <2> QED BY <2>1, <2>3, <2>5 DEF FlagJustified
<1>2. CASE OnConnect
  <2>1. /\ btPc = "connect_callback" /\ btPc' = "connect_count" /\ deviceConnected' = TRUE
        /\ UNCHANGED <<links, events, btPhone, peers, connectedCount>>
    BY <1>2 DEF OnConnect
  <2>2. Known' = Known
    BY <2>1 DEF Known, Leaving
  <2> QED BY <2>1, <2>2 DEF QueueLeads, Counted, FlagJustified
<1>3. CASE CountConnection
  <2>1. /\ btPc = "connect_count" /\ btPc' = "idle" /\ connectedCount' = connectedCount + 1
        /\ UNCHANGED <<links, events, btPhone, peers, deviceConnected>>
    BY <1>3 DEF CountConnection
  <2>2. Known' = Known
    BY <2>1 DEF Known, Leaving
  <2> QED BY <2>1, <2>2 DEF QueueLeads, Counted, FlagJustified, TypeOK
<1>4. CASE HandleDisconnect
  <2>1. PICK p \in Phones :
          /\ Take(Disconnected(p))
          /\ connectedCount' = connectedCount - 1
          /\ btPc' = "disconnect_callback" /\ btPhone' = p
          /\ UNCHANGED <<links, peers, deviceConnected>>
    BY <1>4 DEF HandleDisconnect
  <2>2. Known' = peers \ {p}
    BY <2>1 DEF Known, Leaving
  <2>3. QueueLeads' /\ p \in peers
    BY <2>1, <2>2, EventsDiffer, TakenStep
  <2> QED BY <2>1, <2>3 DEF Counted, FlagJustified, Take, TypeOK
<1>5. CASE OnDisconnect
  <2>1. /\ btPc = "disconnect_callback" /\ btPc' = "disconnect_advertise"
        /\ deviceConnected' = FALSE
        /\ UNCHANGED <<links, events, btPhone, peers, connectedCount>>
    BY <1>5 DEF OnDisconnect, FlagOnDisconnect
  <2>2. Known' = Known
    BY <2>1 DEF Known, Leaving
  <2> QED BY <2>1, <2>2 DEF QueueLeads, Counted, FlagJustified
<1>6. CASE AdvertiseAgain
  <2>1. /\ btPc = "disconnect_advertise" /\ btPc' = "disconnect_remove"
        /\ UNCHANGED <<links, events, btPhone, peers, connectedCount, deviceConnected>>
    BY <1>6 DEF AdvertiseAgain
  <2>2. Known' = Known
    BY <2>1 DEF Known, Leaving
  <2> QED BY <2>1, <2>2 DEF QueueLeads, Counted, FlagJustified
<1>7. CASE RemovePeer
  <2>1. /\ btPc = "disconnect_remove" /\ btPc' = "idle" /\ peers' = peers \ {btPhone}
        /\ UNCHANGED <<links, events, btPhone, connectedCount, deviceConnected>>
    BY <1>7 DEF RemovePeer, RemovePeerDevice
  <2>2. Known' = Known
    BY <2>1 DEF Known, Leaving
  <2>3. Cardinality(peers') = Cardinality(peers) - 1
    BY <2>1, PeersFinite, FS_RemoveElement DEF Counted
  <2> QED BY <2>1, <2>2, <2>3 DEF QueueLeads, Counted, FlagJustified, TypeOK
<1>8. CASE HandleWrite
  <2>1. PICK q \in Channel, on \in BOOLEAN :
          Take(Written(q[1], q[2], on)) /\ UNCHANGED Records
    BY <1>8 DEF HandleWrite, Records
  <2> QED BY <2>1, RecordsStay, WriteEvents
<1> QED BY <1>1, <1>2, <1>3, <1>4, <1>5, <1>6, <1>7, <1>8 DEF BluetoothStep

LEMMA InitHolds == Init => IInv
<1> SUFFICES ASSUME Init PROVE IInv
  OBVIOUS
<1>1. TypeOK
  <2>1. 0 \in 0 .. Cardinality(Phones)
    <3>1. Cardinality(Phones) \in Nat
      BY BleAssumption, FS_CardinalityType
    <3> QED BY <3>1
  <2>2. events \in Seq(Events) /\ Len(events) <= MaxQueue
    BY BleAssumption DEF Init
  <2>3. 1 \in 1 .. Chars
    BY BleAssumption
  <2> QED BY <2>1, <2>2, <2>3 DEF Init, TypeOK, HandlerSteps, LoopSteps
<1>2. Counted
  BY FS_EmptySet DEF Init, Counted
<1>3. QueueLeads
  BY DEF Init, QueueLeads, Known, Leaving, Alternates, Life
<1> QED BY <1>1, <1>2, <1>3 DEF IInv, Init, FlagJustified

LEMMA StepHolds == IInv /\ [Next]_vars => IInv'
<1> SUFFICES ASSUME IInv, [Next]_vars PROVE IInv'
  OBVIOUS
<1>1. TypeOK'
  BY TypeStep
<1>2. CASE UNCHANGED <<Records, events>>
  <2>1. Counted' /\ FlagJustified' /\ Known' = Known /\ links' = links
    BY <1>2, RecordsStay DEF IInv
  <2> QED BY <1>1, <1>2, <2>1 DEF IInv, QueueLeads
<1>3. UNCHANGED vars => UNCHANGED <<Records, events>>
  BY DEF vars, phoneVars, serverVars, Records
<1> QED BY <1>1, <1>2, <1>3, MainLooks, PhoneKeeps, BluetoothKeeps DEF IInv, Next

LEMMA Invariance == Spec => []IInv
<1> QED BY InitHolds, StepHolds, PTL DEF Spec

-----------------------------------------------------------------------------
(* The results                                                             *)

(* The state of the Bluetooth side is always well formed: the queue keeps  *)
(* its bound and m_connectedCount, which is unsigned, never goes below 0.  *)
THEOREM BleTypeCorrect == Spec => []TypeOK
<1>1. IInv => TypeOK
  BY DEF IInv
<1> QED BY <1>1, Invariance, PTL

(* Whenever the Bluetooth task is between events, m_connectedCount is the  *)
(* number of peers in m_connectedServersMap, whoever came and went.        *)
THEOREM CountIsPeers == Spec => []CountMatchesPeers
<1>1. IInv => CountMatchesPeers
  BY DEF IInv, Counted, CountMatchesPeers, TypeOK
<1> QED BY <1>1, Invariance, PTL

(* Once the comings and goings in the queue are worked off, the library's  *)
(* peers are exactly the phones connected.                                 *)
THEOREM PeersAreLinks == Spec => []PeersTrackLinks
<1>1. IInv => PeersTrackLinks
  <2> SUFFICES ASSUME IInv, btPc = "idle", \A n \in DOMAIN events : events[n].kind = "write",
                      NEW p \in Phones
               PROVE  p \in peers <=> p \in links
    BY DEF IInv, TypeOK, PeersTrackLinks
  <2>1. Life(p, events) = {}
    BY DEF IInv, TypeOK, Life, Connected, Disconnected
  <2> QED BY <2>1 DEF IInv, QueueLeads, Known, Leaving, Alternates
<1> QED BY <1>1, Invariance, PTL

(* deviceConnected is never raised without a peer to publish to.           *)
THEOREM FlagHasPeer == Spec => []FlagMeansPeer
<1>1. IInv => FlagMeansPeer
  BY DEF IInv, FlagJustified, FlagMeansPeer
<1> QED BY <1>1, Invariance, PTL
=============================================================================
