----------------------- MODULE NotificationStreamProofs -----------------------
(***************************************************************************)
(* Proofs about NotificationStream for any number of versions, sockets,    *)
(* widgets' fetches and failures.                                          *)
(*                                                                         *)
(* A widget that took notice of an event has an answer at least as new, or *)
(* a fetch under way that will bring one: it is unread, or was read since. *)
(***************************************************************************)
EXTENDS NotificationStream, SequenceTheorems, FiniteSetTheorems, TLAPS

Versions == 1 .. record

\* Nothing is published, received or read before it is stored.
StreamInv ==
  /\ record \in 0 .. Gone
  /\ owed \subseteq Versions
  /\ queue \in [Sockets -> Seq(Versions)]
  /\ events \in Seq(Versions)
  /\ mounted \subseteq Viewers
  /\ handled \in [Viewers -> {-1} \cup Versions]
  /\ asks \in [Viewers -> Seq({Unread, 0} \cup Versions)]
  /\ newest \in [Viewers -> -1 .. Failed]

\* The answer to version n is there or on its way.
Covered(v, n) ==
  \/ newest[v] >= n
  \/ \E i \in DOMAIN asks[v] : asks[v][i] = Unread \/ asks[v][i] >= n

NoticedInv ==
  \A v \in mounted : handled[v] # -1 => Covered(v, handled[v])

\* A widget with no fetch under way has had an answer at least as new as the
\* last event it took notice of.
NoticedAnswered ==
  \A v \in mounted : asks[v] = <<>> => newest[v] >= handled[v]

\* The events of a tab that drops none: each once, and those up to the one
\* that a widget noticed last are covered.
EventsInv ==
  /\ \A i, j \in DOMAIN events : events[i] = events[j] => i = j
  /\ \A v \in mounted : handled[v] # -1 =>
       \E i \in DOMAIN events :
         events[i] = handled[v] /\ \A j \in 1 .. i : Covered(v, events[j])

-----------------------------------------------------------------------------
(* Sequences                                                               *)

LEMMA RemoveAtProperties ==
  ASSUME NEW S, NEW s \in Seq(S), NEW i \in 1 .. Len(s)
  PROVE  /\ RemoveAt(s, i) \in Seq(S)
         /\ \A k \in 1 .. Len(s) : k # i =>
              \E m \in DOMAIN RemoveAt(s, i) : RemoveAt(s, i)[m] = s[k]
<1> DEFINE a == SubSeq(s, 1, i - 1)
           b == SubSeq(s, i + 1, Len(s))
<1>1. /\ a \in Seq(S) /\ Len(a) = i - 1
      /\ \A k \in 1 .. i - 1 : a[k] = s[k]
  <2>1. \A k \in 1 .. i - 1 : s[k] \in S
    BY ElementOfSeq
  <2>2. QED
    BY <2>1, SubSeqProperties
<1>2. /\ b \in Seq(S) /\ Len(b) = Len(s) - i
      /\ \A k \in 1 .. Len(s) - i : b[k] = s[k + i]
  <2>1. \A k \in i + 1 .. Len(s) : s[k] \in S
    BY ElementOfSeq
  <2>2. /\ b \in Seq(S)
        /\ Len(b) = IF i + 1 <= Len(s) THEN Len(s) - (i + 1) + 1 ELSE 0
        /\ \A k \in 1 .. Len(s) - (i + 1) + 1 : b[k] = s[(i + 1) + k - 1]
    BY <2>1, SubSeqProperties
  <2>3. QED
    BY <2>2
<1> HIDE DEF a, b
<1>3. /\ a \o b \in Seq(S)
      /\ Len(a \o b) = Len(s) - 1
      /\ \A k \in 1 .. Len(s) - 1 : (a \o b)[k] = IF k <= i - 1 THEN a[k] ELSE b[k - (i - 1)]
  <2>1. /\ a \o b \in Seq(S)
        /\ Len(a \o b) = Len(a) + Len(b)
        /\ \A k \in 1 .. Len(a) + Len(b) :
             (a \o b)[k] = IF k <= Len(a) THEN a[k] ELSE b[k - Len(a)]
    BY <1>1, <1>2, ConcatProperties
  <2>2. QED
    BY <1>1, <1>2, <2>1
<1>4. ASSUME NEW k \in 1 .. Len(s), k # i
      PROVE  \E m \in DOMAIN (a \o b) : (a \o b)[m] = s[k]
  <2>1. DOMAIN (a \o b) = 1 .. Len(s) - 1
    BY <1>3
  <2>2. CASE k < i
    <3>1. k \in 1 .. Len(s) - 1 /\ (a \o b)[k] = s[k]
      BY <1>1, <1>3, <2>2
    <3>2. QED
      BY <2>1, <3>1
  <2>3. CASE k > i
    <3>1. k - 1 \in 1 .. Len(s) - 1 /\ ~(k - 1 <= i - 1) /\ k - i \in 1 .. Len(s) - i
      BY <2>3
    <3>2. (a \o b)[k - 1] = b[(k - 1) - (i - 1)]
      BY <1>3, <3>1
    <3>3. (k - 1) - (i - 1) = k - i /\ b[k - i] = s[(k - i) + i] /\ (k - i) + i = k
      BY <1>2, <3>1
    <3>4. QED
      BY <2>1, <3>1, <3>2, <3>3
  <2>4. QED
    BY <1>4, <2>2, <2>3
<1>5. RemoveAt(s, i) = a \o b
  BY DEF RemoveAt, a, b
<1>6. QED
  BY <1>3, <1>4, <1>5

\* A sequence of different numbers up to N is no longer than N.
LEMMA DistinctLength ==
  ASSUME NEW N \in Nat, NEW s \in Seq(1 .. N),
         \A i, j \in DOMAIN s : s[i] = s[j] => i = j,
         NEW n \in 1 .. N, n \notin ToSet(s)
  PROVE  Len(s) < N
<1> DEFINE D == 1 .. Len(s) + 1
           f == [i \in D |-> IF i = Len(s) + 1 THEN n ELSE s[i]]
<1>1. \A i \in 1 .. Len(s) : s[i] \in 1 .. N /\ s[i] # n
  BY DEF ToSet
<1>2. IsFiniteSet(1 .. N) /\ Cardinality(1 .. N) = N /\ IsFiniteSet(D) /\ Cardinality(D) = Len(s) + 1
  BY FS_Interval
<1>3. f \in [D -> 1 .. N]
  BY <1>1
<1>4. \A i, j \in D : f[i] = f[j] => i = j
  BY <1>1
<1>5. ~(N < Len(s) + 1)
  <2> HIDE DEF f, D
  <2>1. QED
    BY <1>2, <1>3, <1>4, FS_PigeonHole
<1>6. QED
  BY <1>5

-----------------------------------------------------------------------------
(* What is stored, published and asked for                                 *)

LEMMA InitStreamInv == Init => StreamInv /\ NoticedInv /\ EventsInv
<1> USE StreamAssumption DEF Init, StreamInv, NoticedInv, EventsInv, Covered, Versions, Gone,
        Unread, Failed, Viewers
<1>1. SUFFICES ASSUME Init PROVE StreamInv /\ NoticedInv /\ EventsInv
  OBVIOUS
<1>2. StreamInv
  BY <1>1
<1>3. NoticedInv /\ EventsInv
  BY <1>1
<1>4. QED
  BY <1>2, <1>3

\* A queue that gains an event holds stored versions only.
LEMMA PutProperties ==
  ASSUME NEW S, NEW q \in Seq(S), NEW n \in S
  PROVE  Put(q, n) \in Seq(S)
<1>1. CASE Len(q) < QueueMax
  BY <1>1 DEF Put
<1>2. CASE ~(Len(q) < QueueMax)
  <2>1. Len(q) \in Nat /\ QueueMax \in Nat \ {0}
    BY StreamAssumption
  <2>2. q # << >>
    BY <1>2, <2>1
  <2>3. Tail(q) \in Seq(S)
    BY <2>2
  <2>4. QED
    BY <1>2, <2>3 DEF Put
<1>3. QED
  BY <1>1, <1>2

LEMMA StepStreamInv ==
  ASSUME StreamInv, [Next]_vars
  PROVE  StreamInv'
<1> USE StreamAssumption
<1> DEFINE Asks == {Unread, 0} \cup Versions
<1>0. /\ Final \in Nat \ {0} /\ Gone = Final + 1
      /\ Unread = -2 /\ Failed = Final + 2 /\ record \in 0 .. Gone
  BY DEF StreamInv, Gone, Unread, Failed
<1>1. CASE Write
  <2>1. record' = record + 1 /\ record' \in 0 .. Gone /\ Versions \subseteq Versions'
    BY <1>0, <1>1 DEF Write, Versions
  <2>2. Seq(Versions) \subseteq Seq(Versions') /\ Seq(Asks) \subseteq Seq(Asks')
    BY <2>1 DEF Unread
  <2>3. owed' \subseteq Versions'
    BY <1>0, <1>1, <2>1 DEF Write, StreamInv, Versions
  <2>4. UNCHANGED <<queue, events, mounted, handled, asks, newest>>
    BY <1>1 DEF Write, tab, shown
  <2>5. queue' \in [Sockets -> Seq(Versions')] /\ events' \in Seq(Versions')
    BY <2>2, <2>4 DEF StreamInv
  <2>6. asks' \in [Viewers -> Seq(Asks')] /\ handled' \in [Viewers -> {-1} \cup Versions']
    BY <2>1, <2>2, <2>4 DEF StreamInv
  <2>7. QED
    BY <2>1, <2>3, <2>4, <2>5, <2>6 DEF StreamInv, Gone, Failed, Unread
<1>2. ASSUME UNCHANGED record
      PROVE  Versions' = Versions /\ Gone' = Gone /\ Asks' = Asks
  BY <1>2 DEF Versions, Gone, Unread
<1>3. CASE Publish
  <2>1. PICK n \in owed :
          /\ owed' = owed \ {n}
          /\ queue' = [s \in Sockets |-> IF sock[s] = "open" THEN Put(queue[s], n) ELSE queue[s]]
    BY <1>3 DEF Publish
  <2>2. UNCHANGED <<record, events, mounted, handled, asks, newest>>
    BY <1>3 DEF Publish, tab, shown
  <2>3. \A s \in Sockets : Put(queue[s], n) \in Seq(Versions)
    BY PutProperties DEF StreamInv
  <2>4. queue' \in [Sockets -> Seq(Versions)]
    BY <2>1, <2>3 DEF StreamInv
  <2>5. QED
    BY <1>2, <2>1, <2>2, <2>4 DEF StreamInv
<1>4. CASE Reconnect
  <2>1. UNCHANGED <<record, owed, queue, events, mounted, handled, asks, newest>>
    BY <1>4 DEF Reconnect, shown
  <2>2. QED
    BY <1>2, <2>1 DEF StreamInv
<1>5. ASSUME NEW s \in Sockets, SocketStep(s) PROVE StreamInv'
  <2>1. CASE Accept(s) \/ Closed(s)
    <3>1. UNCHANGED <<record, owed, queue, events, mounted, handled, asks, newest>>
      BY <2>1 DEF Accept, Closed, shown
    <3>2. QED
      BY <1>2, <3>1 DEF StreamInv
  <2>2. CASE Break(s)
    <3>1. /\ UNCHANGED <<record, owed, events, mounted, handled, asks, newest>>
          /\ queue' = [queue EXCEPT ![s] = <<>>]
      BY <2>2 DEF Break, shown
    <3>2. queue' \in [Sockets -> Seq(Versions)]
      BY <3>1 DEF StreamInv
    <3>3. QED
      BY <1>2, <3>1, <3>2 DEF StreamInv
  <2>3. CASE Receive(s)
    <3> DEFINE n == Head(queue[s])
               kept == IF Len(events) < MaxEvents THEN events ELSE Tail(events)
    <3>1. /\ UNCHANGED <<record, owed, mounted, handled, asks, newest>>
          /\ queue' = [queue EXCEPT ![s] = Tail(@)]
          /\ queue[s] # <<>>
          /\ events' = IF n \in ToSet(events) THEN events ELSE Append(kept, n)
      BY <2>3 DEF Receive, shown
    <3>2. queue[s] \in Seq(Versions)
      BY DEF StreamInv
    <3>3. n \in Versions /\ Tail(queue[s]) \in Seq(Versions)
      BY <3>1, <3>2
    <3>4. events \in Seq(Versions) /\ MaxEvents \in Nat \ {0}
      BY DEF StreamInv
    <3>5. kept \in Seq(Versions)
      <4>1. CASE Len(events) < MaxEvents
        BY <3>4, <4>1
      <4>2. CASE ~(Len(events) < MaxEvents)
        <5>1. events # <<>>
          BY <3>4, <4>2
        <5>2. QED
          BY <3>4, <4>2, <5>1
      <4>3. QED
        BY <4>1, <4>2
    <3>6. events' \in Seq(Versions)
      <4> HIDE DEF n, kept
      <4>1. QED
        BY <3>1, <3>3, <3>4, <3>5
    <3>7. queue' \in [Sockets -> Seq(Versions)]
      BY <3>1, <3>3 DEF StreamInv
    <3>8. QED
      BY <1>2, <3>1, <3>6, <3>7 DEF StreamInv
  <2>4. QED
    BY <1>5, <2>1, <2>2, <2>3 DEF SocketStep
<1>6. ASSUME NEW v \in Viewers, WidgetStep(v) PROVE StreamInv'
  <2>0. asks[v] \in Seq(Asks)
    BY DEF StreamInv
  <2>1. CASE Mount(v)
    <3>1. /\ UNCHANGED <<record, owed, queue, events>>
          /\ mounted' = mounted \cup {v}
          /\ handled' = [handled EXCEPT ![v] = -1]
          /\ newest' = [newest EXCEPT ![v] = -1]
          /\ asks' = [asks EXCEPT ![v] = <<Unread>>]
      BY <2>1 DEF Mount
    <3>2. asks' \in [Viewers -> Seq(Asks)]
      BY <3>1 DEF StreamInv
    <3>3. /\ handled' \in [Viewers -> {-1} \cup Versions]
          /\ newest' \in [Viewers -> -1 .. Failed]
      BY <1>0, <3>1 DEF StreamInv
    <3>4. QED
      BY <1>2, <3>1, <3>2, <3>3 DEF StreamInv, Failed, Gone
  <2>2. CASE Unmount(v)
    <3>1. /\ UNCHANGED <<record, owed, events, handled, newest>>
          /\ mounted' = mounted \ {v}
          /\ asks' = [asks EXCEPT ![v] = <<>>]
          /\ queue' \in {queue, [queue EXCEPT ![current] = <<>>]}
      BY <2>2 DEF Unmount
    <3>2. asks' \in [Viewers -> Seq(Asks)]
      BY <3>1 DEF StreamInv
    <3>3. queue' \in [Sockets -> Seq(Versions)]
      <4>1. queue \in [Sockets -> Seq(Versions)]
        BY DEF StreamInv
      <4>2. [queue EXCEPT ![current] = <<>>] \in [Sockets -> Seq(Versions)]
        <5>1. <<>> \in Seq(Versions)
          OBVIOUS
        <5>2. [queue EXCEPT ![current] = <<>>]
                = [s \in Sockets |-> IF s = current THEN <<>> ELSE queue[s]]
          BY <4>1
        <5>3. QED
          BY <4>1, <5>1, <5>2
      <4>3. QED
        BY <3>1, <4>1, <4>2
    <3>4. QED
      BY <1>2, <3>1, <3>2, <3>3 DEF StreamInv, Failed, Gone
  <2>3. ASSUME Asked(v) PROVE asks' \in [Viewers -> Seq(Asks)]
    <3>1. Append(asks[v], Unread) \in Seq(Asks)
      BY <2>0
    <3>2. QED
      BY <2>3, <3>1 DEF Asked, StreamInv
  <2>4. CASE Notice(v)
    <3>1. /\ UNCHANGED <<record, owed, queue, events, mounted, newest>>
          /\ events # <<>> /\ Asked(v)
          /\ handled' = [handled EXCEPT ![v] = Last(events)]
      BY <2>4 DEF Notice, tab
    <3>2. events \in Seq(Versions)
      BY DEF StreamInv
    <3>3. Last(events) \in Versions
      BY <3>1, <3>2 DEF Last
    <3>4. handled' \in [Viewers -> {-1} \cup Versions]
      BY <3>1, <3>3 DEF StreamInv
    <3>5. QED
      BY <1>2, <2>3, <3>1, <3>4 DEF StreamInv, Failed, Gone
  <2>5. CASE Poll(v)
    <3>1. UNCHANGED <<record, owed, queue, events, mounted, handled, newest>> /\ Asked(v)
      BY <2>5 DEF Poll, tab
    <3>2. QED
      BY <1>2, <2>3, <3>1 DEF StreamInv, Failed, Gone
  <2>6. CASE Read(v)
    <3>1. PICK i \in DOMAIN asks[v] : asks' = [asks EXCEPT ![v][i] = record]
      BY <2>6 DEF Read
    <3>2. UNCHANGED <<record, owed, queue, events, mounted, handled, newest>>
      BY <2>6 DEF Read, tab
    <3>3. record \in Asks
      BY <1>0 DEF Versions
    <3>4. [asks[v] EXCEPT ![i] = record] \in Seq(Asks)
      BY <2>0, <3>3, ExceptSeq
    <3>5. asks' = [asks EXCEPT ![v] = [asks[v] EXCEPT ![i] = record]]
      BY <3>1 DEF StreamInv
    <3>6. asks' \in [Viewers -> Seq(Asks)]
      BY <3>4, <3>5 DEF StreamInv
    <3>7. QED
      BY <1>2, <3>2, <3>6 DEF StreamInv, Failed, Gone
  <2>7. CASE Answer(v)
    <3> DEFINE new(i) == IF v = "detail" /\ asks[v][i] = Gone THEN view[v] ELSE asks[v][i]
    <3>1. PICK i \in DOMAIN asks[v] :
            /\ asks[v][i] # Unread
            /\ asks' = [asks EXCEPT ![v] = Answered(v, i, new(i))]
            /\ newest' = [newest EXCEPT ![v] = IF asks[v][i] > @ THEN asks[v][i] ELSE @]
      BY <2>7 DEF Answer
    <3>2. UNCHANGED <<record, owed, queue, events, mounted, handled>>
      BY <2>7 DEF Answer, tab
    <3>3. i \in 1 .. Len(asks[v])
      BY <2>0
    <3>4. RemoveAt(asks[v], i) \in Seq(Asks)
      <4> HIDE DEF Asks
      <4>1. QED
        BY <2>0, <3>3, RemoveAtProperties
    <3>5. Answered(v, i, new(i)) \in Seq(Asks)
      <4>1. Append(RemoveAt(asks[v], i), Unread) \in Seq(Asks)
        BY <3>4
      <4>2. QED
        BY <3>4, <4>1 DEF Answered
    <3>6. asks' \in [Viewers -> Seq(Asks)]
      BY <3>1, <3>5 DEF StreamInv
    <3>7. asks[v][i] \in Asks /\ asks[v][i] # Unread
      BY <2>0, <3>1, <3>3
    <3>8. asks[v][i] \in 0 .. Gone /\ newest[v] \in -1 .. Failed
      BY <1>0, <3>7 DEF StreamInv, Versions
    <3>9. newest' \in [Viewers -> -1 .. Failed]
      BY <1>0, <3>1, <3>8 DEF StreamInv
    <3>10. QED
      BY <1>2, <3>2, <3>6, <3>9 DEF StreamInv, Failed, Gone
  <2>8. CASE Fail(v)
    <3>1. PICK i \in DOMAIN asks[v] : asks' = [asks EXCEPT ![v] = RemoveAt(@, i)]
      BY <2>8 DEF Fail
    <3>2. /\ UNCHANGED <<record, owed, queue, events, mounted, handled>>
          /\ newest' = [newest EXCEPT ![v] = Failed]
      BY <2>8 DEF Fail, tab
    <3>3. i \in 1 .. Len(asks[v])
      BY <2>0
    <3>4. RemoveAt(asks[v], i) \in Seq(Asks)
      <4> HIDE DEF Asks
      <4>1. QED
        BY <2>0, <3>3, RemoveAtProperties
    <3>5. asks' \in [Viewers -> Seq(Asks)]
      BY <3>1, <3>4 DEF StreamInv
    <3>6. newest' \in [Viewers -> -1 .. Failed]
      BY <1>0, <3>2 DEF StreamInv
    <3>7. QED
      BY <1>2, <3>2, <3>5, <3>6 DEF StreamInv, Failed, Gone
  <2>9. QED
    BY <1>6, <2>1, <2>2, <2>4, <2>5, <2>6, <2>7, <2>8 DEF WidgetStep
<1>7. CASE UNCHANGED vars
  <2>1. UNCHANGED <<record, owed, queue, events, mounted, handled, asks, newest>>
    BY <1>7 DEF vars, tab, shown
  <2>2. QED
    BY <1>2, <2>1 DEF StreamInv, Failed, Gone
<1>8. QED
  BY <1>1, <1>3, <1>4, <1>5, <1>6, <1>7 DEF Next

-----------------------------------------------------------------------------
(* A widget hears of what it took notice of                                *)

LEMMA CoveredStep ==
  ASSUME StreamInv, [Next]_vars, NEW v \in mounted, v \in mounted',
         NEW n \in Versions, Covered(v, n)
  PROVE  Covered(v, n)'
<1> USE StreamAssumption
<1> DEFINE Asks == {Unread, 0} \cup Versions
<1>0. /\ v \in Viewers /\ n \in 1 .. record /\ record \in 0 .. Gone
      /\ Final \in Nat /\ Gone = Final + 1 /\ Unread = -2 /\ Failed = Final + 2
      /\ asks \in [Viewers -> Seq(Asks)] /\ asks[v] \in Seq(Asks)
      /\ newest \in [Viewers -> -1 .. Failed]
  <2>1. v \in Viewers /\ record \in 0 .. Gone
    BY DEF StreamInv
  <2>2. Final \in Nat
    OBVIOUS
  <2>3. Gone = Final + 1 /\ Unread = -2 /\ Failed = Final + 2
    BY <2>2 DEF Gone, Unread, Failed
  <2>4. asks \in [Viewers -> Seq(Asks)] /\ newest \in [Viewers -> -1 .. Failed]
    BY DEF StreamInv
  <2>5. asks[v] \in Seq(Asks)
    BY <2>1, <2>4
  <2>6. QED
    BY <2>1, <2>2, <2>3, <2>4, <2>5 DEF Versions
<1>int. n \in Int /\ newest[v] \in Int
  BY <1>0
<1>1. ASSUME asks'[v] = asks[v], newest'[v] = newest[v] PROVE Covered(v, n)'
  BY <1>1 DEF Covered, Unread
<1>2. ASSUME asks'[v] = Append(asks[v], Unread) PROVE Covered(v, n)'
  <2>1. Len(asks[v]) + 1 \in DOMAIN asks'[v] /\ asks'[v][Len(asks[v]) + 1] = Unread
    BY <1>0, <1>2
  <2>2. QED
    BY <2>1 DEF Covered, Unread
<1>3. ASSUME NEW i \in DOMAIN asks[v], NEW rest \in Seq(Asks),
             \A k \in 1 .. Len(asks[v]) : k # i => \E m \in DOMAIN rest : rest[m] = asks[v][k],
             asks'[v] \in {rest, Append(rest, Unread)},
             newest'[v] >= newest[v], asks[v][i] # Unread => newest'[v] >= asks[v][i],
             asks[v][i] = Unread => newest'[v] >= n,
             newest'[v] \in Int
      PROVE  Covered(v, n)'
  <2>1. CASE newest[v] >= n
    <3>1. newest'[v] >= n
      <4>1. newest'[v] \in Int /\ newest'[v] >= newest[v]
        BY <1>3
      <4>2. QED
        BY <1>int, <2>1, <4>1
    <3>2. QED
      BY <3>1 DEF Covered
  <2>2. ASSUME NEW k \in DOMAIN asks[v], asks[v][k] = Unread \/ asks[v][k] >= n
        PROVE  Covered(v, n)'
    <3>1. CASE k = i
      <4>1. asks[v][i] \in Asks /\ \A x \in Asks : x \in Int
        BY <1>0 DEF Versions
      <4>2. newest'[v] >= n
        <5>1. newest'[v] \in Int /\ asks[v][i] \in Int
          BY <1>3, <4>1
        <5>2. CASE asks[v][i] = Unread
          BY <1>3, <5>2
        <5>3. CASE asks[v][i] # Unread
          <6>1. newest'[v] >= asks[v][i] /\ asks[v][i] >= n
            BY <1>3, <2>2, <3>1, <5>3
          <6>2. QED
            BY <1>int, <5>1, <6>1
        <5>4. QED
          BY <5>2, <5>3
      <4>3. QED
        BY <4>2 DEF Covered
    <3>2. CASE k # i
      <4>1. k \in 1 .. Len(asks[v])
        BY <1>0
      <4>2. PICK m \in DOMAIN rest : rest[m] = asks[v][k]
        BY <1>3, <3>2, <4>1
      <4>3. m \in DOMAIN asks'[v] /\ asks'[v][m] = asks[v][k]
        <5>1. CASE asks'[v] = rest
          BY <4>2, <5>1
        <5>2. CASE asks'[v] = Append(rest, Unread)
          <6>1. m \in 1 .. Len(rest)
            BY <1>3
          <6>2. QED
            BY <1>3, <4>2, <5>2, <6>1
        <5>3. QED
          BY <1>3, <5>1, <5>2
      <4>4. QED
        BY <2>2, <4>3 DEF Covered, Unread
    <3>3. QED
      BY <3>1, <3>2
  <2>3. QED
    BY <2>1, <2>2 DEF Covered
<1>4. CASE Write \/ Publish \/ Reconnect \/ UNCHANGED vars \/ \E s \in Sockets : SocketStep(s)
  <2>1. UNCHANGED <<asks, newest>>
    BY <1>4 DEF Write, Publish, Reconnect, vars, shown, SocketStep, Accept, Break, Closed, Receive
  <2>2. QED
    BY <1>1, <2>1
<1>5. ASSUME NEW w \in Viewers, WidgetStep(w) PROVE Covered(v, n)'
  <2>1. CASE w # v
    <3>1. asks'[v] = asks[v] /\ newest'[v] = newest[v]
      BY <1>0, <1>5, <2>1 DEF WidgetStep, Mount, Unmount, Notice, Poll, Read, Answer, Fail, Asked
    <3>2. QED
      BY <1>1, <3>1
  <2>2. CASE w = v
    <3>1. ~Mount(v)
      BY DEF Mount
    <3>2. ~Unmount(v)
      BY DEF Unmount
    <3>3. CASE Notice(v) \/ Poll(v)
      <4>1. asks'[v] = Append(asks[v], Unread)
        BY <1>0, <3>3 DEF Notice, Poll, Asked
      <4>2. QED
        BY <1>2, <4>1
    <3>4. CASE Read(v)
      <4>1. PICK i \in DOMAIN asks[v] :
              asks[v][i] = Unread /\ asks' = [asks EXCEPT ![v][i] = record]
        BY <3>4 DEF Read
      <4>2. asks'[v] = [asks[v] EXCEPT ![i] = record] /\ newest' = newest
        BY <1>0, <3>4, <4>1 DEF Read
      <4>3. DOMAIN asks'[v] = DOMAIN asks[v] /\ asks'[v][i] = record
        BY <1>0, <4>1, <4>2
      <4>4. \A k \in DOMAIN asks[v] : k # i => asks'[v][k] = asks[v][k]
        BY <1>0, <4>2
      <4>5. record >= n
        BY <1>0
      <4>6. QED
        BY <4>1, <4>2, <4>3, <4>4, <4>5 DEF Covered, Unread
    <3>5. CASE Answer(v)
      <4> DEFINE new(i) == IF v = "detail" /\ asks[v][i] = Gone THEN view[v] ELSE asks[v][i]
      <4>1. PICK i \in DOMAIN asks[v] :
              /\ asks[v][i] # Unread
              /\ asks' = [asks EXCEPT ![v] = Answered(v, i, new(i))]
              /\ newest' = [newest EXCEPT ![v] = IF asks[v][i] > @ THEN asks[v][i] ELSE @]
        BY <3>5 DEF Answer
      <4>2. i \in 1 .. Len(asks[v])
        BY <1>0
      <4> DEFINE rest == RemoveAt(asks[v], i)
      <4>3. /\ rest \in Seq(Asks)
            /\ \A k \in 1 .. Len(asks[v]) : k # i => \E m \in DOMAIN rest : rest[m] = asks[v][k]
        <5> HIDE DEF Asks
        <5>1. QED
          BY <1>0, <4>2, RemoveAtProperties
      <4>4. asks'[v] \in {rest, Append(rest, Unread)}
        BY <1>0, <4>1 DEF Answered
      <4>5. asks[v][i] \in 0 .. Gone /\ newest[v] \in -1 .. Failed
        <5>1. asks[v][i] \in Asks
          BY <1>0, <4>2
        <5>2. QED
          BY <1>0, <4>1, <5>1 DEF Versions
      <4>6. newest'[v] >= newest[v] /\ newest'[v] >= asks[v][i] /\ newest'[v] \in Int
        BY <1>0, <4>1, <4>5
      <4> HIDE DEF rest, Asks
      <4>7. QED
        BY <1>3, <4>1, <4>3, <4>4, <4>6
    <3>6. CASE Fail(v)
      <4>1. PICK i \in DOMAIN asks[v] : asks' = [asks EXCEPT ![v] = RemoveAt(@, i)]
        BY <3>6 DEF Fail
      <4>2. newest'[v] = Failed
        BY <1>0, <3>6 DEF Fail
      <4>3. newest'[v] >= n
        BY <1>0, <4>2
      <4>4. QED
        BY <4>3 DEF Covered
    <3>7. QED
      BY <1>5, <2>2, <3>1, <3>2, <3>3, <3>4, <3>5, <3>6 DEF WidgetStep
  <2>3. QED
    BY <2>1, <2>2
<1>6. QED
  BY <1>4, <1>5 DEF Next

LEMMA NoticedStep ==
  ASSUME StreamInv, NoticedInv, [Next]_vars
  PROVE  NoticedInv'
<1>1. SUFFICES ASSUME NEW v \in mounted', handled'[v] # -1
               PROVE  Covered(v, handled[v])'
  BY DEF NoticedInv
<1>2. /\ mounted \subseteq Viewers /\ handled \in [Viewers -> {-1} \cup Versions]
      /\ asks \in [Viewers -> Seq({Unread, 0} \cup Versions)]
  BY DEF StreamInv
<1>3. CASE v \notin mounted
  <2>1. PICK w \in Viewers : Mount(w) /\ w = v
    BY <1>1, <1>3 DEF Next, vars, shown, Write, Publish, Reconnect, SocketStep, Accept, Break,
       Closed, Receive, WidgetStep, Mount, Unmount, Notice, Poll, Read, Answer, Fail
  <2>2. handled'[v] = -1
    BY <1>2, <2>1 DEF Mount
  <2>3. QED
    BY <1>1, <2>2
<1>4. CASE v \in mounted /\ handled'[v] = handled[v]
  <2>1. handled[v] \in Versions /\ Covered(v, handled[v])
    BY <1>1, <1>2, <1>4 DEF NoticedInv
  <2>2. ASSUME NEW n \in Versions, Covered(v, n) PROVE Covered(v, n)'
    BY <1>1, <1>4, <2>2, CoveredStep
  <2>3. PICK n \in Versions : n = handled[v] /\ n = handled'[v]
    BY <1>4, <2>1
  <2>4. Covered(v, n)'
    BY <2>1, <2>2, <2>3
  <2>5. QED
    BY <2>3, <2>4 DEF Covered
<1>5. CASE v \in mounted /\ handled'[v] # handled[v]
  <2>1. Notice(v)
    BY <1>1, <1>2, <1>5 DEF Next, vars, shown, Write, Publish, Reconnect, SocketStep, Accept, Break,
       Closed, Receive, WidgetStep, Mount, Unmount, Notice, Poll, Read, Answer, Fail
  <2>2. asks'[v] = Append(asks[v], Unread) /\ asks[v] \in Seq({Unread, 0} \cup Versions)
    BY <1>2, <1>5, <2>1 DEF Notice, Asked
  <2>3. Len(asks[v]) + 1 \in DOMAIN asks'[v] /\ asks'[v][Len(asks[v]) + 1] = Unread
    BY <2>2
  <2>4. QED
    BY <2>3 DEF Covered, Unread
<1>6. QED
  BY <1>3, <1>4, <1>5

\* A widget that has no fetch under way has had an answer at least as new as
\* the last event it took notice of, or a fetch of it has failed: whatever the
\* events lost, the sockets broken and the order of the answers.
THEOREM NoticedCorrect == Spec => []NoticedAnswered
<1>1. StreamInv /\ NoticedInv /\ [Next]_vars => StreamInv' /\ NoticedInv'
  BY StepStreamInv, NoticedStep
<1>2. StreamInv /\ NoticedInv => NoticedAnswered
  <2>1. SUFFICES ASSUME StreamInv, NoticedInv, NEW v \in mounted, asks[v] = <<>>
                 PROVE  newest[v] >= handled[v]
    BY DEF NoticedAnswered
  <2>2. v \in Viewers /\ newest[v] \in -1 .. Failed /\ Failed \in Int
    <3>1. Failed \in Int
      BY StreamAssumption DEF Failed, Gone
    <3>2. v \in Viewers
      BY <2>1 DEF StreamInv
    <3>3. QED
      BY <2>1, <3>1, <3>2 DEF StreamInv
  <2>3. CASE handled[v] = -1
    BY <2>1, <2>2, <2>3
  <2>4. CASE handled[v] # -1
    <3>1. Covered(v, handled[v])
      BY <2>1, <2>4 DEF NoticedInv
    <3>2. DOMAIN asks[v] = {}
      BY <2>1
    <3>3. QED
      BY <3>1, <3>2 DEF Covered
  <2>5. QED
    BY <2>1, <2>3, <2>4
<1>3. QED
  BY <1>1, <1>2, InitStreamInv, PTL DEF Spec

-----------------------------------------------------------------------------
(* A tab that drops no event                                               *)

\* A new event goes to the end of those the tab has.
LEMMA ReceiveAppends ==
  ASSUME StreamInv, EventsInv, MaxEvents >= Gone, NEW s \in Sockets, Receive(s)
  PROVE  \/ events' = events
         \/ \E n \in Versions : n \notin ToSet(events) /\ events' = Append(events, n)
<1> USE StreamAssumption
<1> DEFINE n == Head(queue[s])
<1>1. queue[s] \in Seq(Versions) /\ queue[s] # <<>>
  BY DEF StreamInv, Receive
<1>2. n \in Versions
  BY <1>1
<1>3. CASE n \in ToSet(events)
  <2>1. events' = events
    BY <1>3 DEF Receive
  <2>2. QED
    BY <2>1
<1>4. CASE n \notin ToSet(events)
  <2>1. record \in Nat /\ Gone \in Int /\ MaxEvents \in Int /\ record <= MaxEvents
    <3>1. Final \in Nat /\ MaxEvents \in Nat
      OBVIOUS
    <3>2. Gone \in Nat
      BY <3>1 DEF Gone
    <3>3. record \in 0 .. Gone
      BY DEF StreamInv
    <3>4. QED
      BY <3>1, <3>2, <3>3
  <2>2. events \in Seq(1 .. record) /\ \A i, j \in DOMAIN events : events[i] = events[j] => i = j
    BY DEF StreamInv, EventsInv, Versions
  <2>3. n \in 1 .. record
    BY <1>2 DEF Versions
  <2>4. Len(events) < record
    <3> HIDE DEF n
    <3>1. QED
      BY <1>4, <2>1, <2>2, <2>3, DistinctLength
  <2>5. Len(events) < MaxEvents
    BY <2>1, <2>2, <2>4
  <2>6. events' = Append(events, n)
    BY <1>4, <2>5 DEF Receive
  <2>7. QED
    BY <1>2, <1>4, <2>6
<1>5. QED
  BY <1>3, <1>4

LEMMA EventsStep ==
  ASSUME StreamInv, EventsInv, MaxEvents >= Gone, [Next]_vars
  PROVE  EventsInv'
<1>1. /\ mounted \subseteq Viewers /\ handled \in [Viewers -> {-1} \cup Versions]
      /\ asks \in [Viewers -> Seq({Unread, 0} \cup Versions)]
      /\ events \in Seq(Versions)
  BY DEF StreamInv
\* Events keep their places.
<1>2. \/ events' = events
      \/ \E n \in Versions : n \notin ToSet(events) /\ events' = Append(events, n)
  <2>1. CASE \E s \in Sockets : Receive(s)
    BY <2>1, ReceiveAppends
  <2>2. CASE ~\E s \in Sockets : Receive(s)
    BY <2>2 DEF Next, vars, tab, shown, Write, Publish, Reconnect, SocketStep, Accept, Break,
       Closed, WidgetStep, Mount, Unmount, Notice, Poll, Read, Answer, Fail
  <2>3. QED
    BY <2>1, <2>2
<1>3. DOMAIN events \subseteq DOMAIN events' /\ \A i \in DOMAIN events : events'[i] = events[i]
  BY <1>1, <1>2
<1>4. \A i, j \in DOMAIN events' : events'[i] = events'[j] => i = j
  <2>1. \A i, j \in DOMAIN events : events[i] = events[j] => i = j
    BY DEF EventsInv
  <2>2. ASSUME NEW n \in Versions, n \notin ToSet(events), events' = Append(events, n)
        PROVE  \A i, j \in DOMAIN events' : events'[i] = events'[j] => i = j
    <3>1. \A i \in 1 .. Len(events) : events[i] # n
      BY <1>1, <2>2 DEF ToSet
    <3>2. QED
      BY <1>1, <2>1, <2>2, <3>1
  <2>3. QED
    BY <1>2, <2>1, <2>2
<1>5. ASSUME NEW v \in mounted', handled'[v] # -1
      PROVE  \E i \in DOMAIN events' :
               events'[i] = handled'[v] /\ \A j \in 1 .. i : Covered(v, events[j])'
  <2>1. CASE v \notin mounted
    <3>1. PICK w \in Viewers : Mount(w) /\ w = v
      BY <1>5, <2>1 DEF Next, vars, shown, Write, Publish, Reconnect, SocketStep, Accept, Break,
         Closed, Receive, WidgetStep, Mount, Unmount, Notice, Poll, Read, Answer, Fail
    <3>2. handled'[v] = -1
      BY <1>1, <3>1 DEF Mount
    <3>3. QED
      BY <1>5, <3>2
  <2>2. CASE v \in mounted /\ handled'[v] = handled[v]
    <3>1. PICK i \in DOMAIN events :
            events[i] = handled[v] /\ \A j \in 1 .. i : Covered(v, events[j])
      BY <1>5, <2>2 DEF EventsInv
    <3>2. i \in DOMAIN events' /\ events'[i] = handled'[v]
      BY <1>3, <2>2, <3>1
    <3>3. ASSUME NEW n \in Versions, Covered(v, n) PROVE Covered(v, n)'
      BY <1>5, <2>2, <3>3, CoveredStep
    <3>4. ASSUME NEW j \in 1 .. i PROVE Covered(v, events[j])'
      <4>1. j \in DOMAIN events /\ events[j] \in Versions /\ events'[j] = events[j]
        BY <1>1, <1>3
      <4>2. PICK n \in Versions : n = events[j] /\ n = events'[j]
        BY <4>1
      <4>3. Covered(v, n)'
        BY <3>1, <3>3, <4>2
      <4>4. QED
        BY <4>2, <4>3 DEF Covered
    <3>5. QED
      BY <3>2, <3>4
  <2>3. CASE v \in mounted /\ handled'[v] # handled[v]
    <3>1. Notice(v)
      BY <1>1, <1>5, <2>3 DEF Next, vars, shown, Write, Publish, Reconnect, SocketStep, Accept,
         Break, Closed, Receive, WidgetStep, Mount, Unmount, Notice, Poll, Read, Answer, Fail
    <3>2. v \in Viewers /\ events' = events /\ events # <<>>
      BY <1>1, <2>3, <3>1 DEF Notice, tab
    <3>3. asks'[v] = Append(asks[v], Unread) /\ handled'[v] = Last(events)
      BY <1>1, <3>1, <3>2 DEF Notice, Asked
    <3>4. asks[v] \in Seq({Unread, 0} \cup Versions)
      BY <1>1, <3>2
    <3>5. Len(asks[v]) + 1 \in DOMAIN asks'[v] /\ asks'[v][Len(asks[v]) + 1] = Unread
      BY <3>3, <3>4
    <3>6. \A j \in 1 .. Len(events) : Covered(v, events[j])'
      BY <3>5 DEF Covered, Unread
    <3>7. Len(events) \in DOMAIN events' /\ events'[Len(events)] = handled'[v]
      BY <1>1, <3>2, <3>3 DEF Last
    <3>8. QED
      BY <3>6, <3>7
  <2>4. QED
    BY <2>1, <2>2, <2>3
<1>6. QED
  BY <1>4, <1>5 DEF EventsInv

\* In a tab that drops no event, a widget with no fetch under way that took
\* notice of the last event has had an answer at least as new as every event.
THEOREM CaughtUpCorrect ==
  ASSUME MaxEvents >= Gone
  PROVE  Spec => []CaughtUp
<1>1. StreamInv /\ EventsInv /\ [Next]_vars => StreamInv' /\ EventsInv'
  BY StepStreamInv, EventsStep
<1>2. StreamInv /\ EventsInv => CaughtUp
  <2>1. SUFFICES ASSUME StreamInv, EventsInv, NEW v \in mounted, asks[v] = <<>>, events # <<>>,
                        handled[v] = Last(events), NEW n \in ToSet(events)
                 PROVE  newest[v] >= n
    BY DEF CaughtUp
  <2>2. events \in Seq(Versions) /\ \A x \in Versions : x \in Nat \ {0}
    BY <2>1 DEF StreamInv, Versions
  <2>3. Len(events) \in DOMAIN events /\ handled[v] = events[Len(events)] /\ handled[v] # -1
    BY <2>1, <2>2 DEF Last
  <2>4. PICK i \in DOMAIN events :
          events[i] = handled[v] /\ \A j \in 1 .. i : Covered(v, events[j])
    BY <2>1, <2>3 DEF EventsInv
  <2>5. i = Len(events)
    BY <2>1, <2>3, <2>4 DEF EventsInv
  <2>6. PICK j \in 1 .. Len(events) : events[j] = n
    BY <2>1, <2>2 DEF ToSet
  <2>7. Covered(v, n)
    BY <2>4, <2>5, <2>6
  <2>8. DOMAIN asks[v] = {}
    BY <2>1
  <2>9. QED
    BY <2>7, <2>8 DEF Covered
<1>3. QED
  BY <1>1, <1>2, InitStreamInv, PTL DEF Spec
=============================================================================
