--------------------------- MODULE MailboxProofs ---------------------------
(***************************************************************************)
(* The mailbox for any polls, turns, buffers and staleness, and that it is *)
(* a Conversation.                                                         *)
(***************************************************************************)
EXTENDS Mailbox, TLAPS, SequenceTheorems, FiniteSetTheorems

-----------------------------------------------------------------------------
(* Sequences.                                                              *)

\* A function on 1..n is a sequence of that length.
LEMMA FunctionIsSeq ==
  ASSUME NEW S, NEW n \in Nat, NEW f \in [1..n -> S]
  PROVE  f \in Seq(S) /\ Len(f) = n
<1>1. f \in Seq(S)
  BY SeqDef
<1>2. Len(f) \in Nat /\ DOMAIN f = 1..Len(f) /\ DOMAIN f = 1..n
  BY <1>1, LenProperties
<1> QED BY <1>1, <1>2

\* What the filter of expire keeps: the members at the chosen places, each once and in
\* the order they stood in.
LEMMA PickedInOrder ==
  ASSUME NEW S, NEW q \in Seq(S), NEW places \in SUBSET DOMAIN q
  PROVE  /\ Picked(q, places) \in Seq(S)
         /\ \E f \in [DOMAIN Picked(q, places) -> places] :
              /\ \A k \in DOMAIN Picked(q, places) : Picked(q, places)[k] = q[f[k]]
              /\ \A k, l \in DOMAIN Picked(q, places) : k < l <=> f[k] < f[l]
              /\ \A i \in places : \E k \in DOMAIN Picked(q, places) : f[k] = i
<1> DEFINE n == Cardinality(places)
<1> DEFINE upTo(i) == {j \in places : j <= i}
<1> DEFINE rank == [i \in places |-> Cardinality(upTo(i))]
<1>1. places \subseteq 1..Len(q) /\ Len(q) \in Nat
  BY LenProperties
<1>2. IsFiniteSet(places) /\ n \in Nat
  <2>1. IsFiniteSet(1..Len(q))
    BY <1>1, FS_Interval
  <2> QED BY <1>1, <2>1, FS_Subset, FS_CardinalityType
<1>3. \A i \in places : i \in Int
  BY <1>1
<1>4. ASSUME NEW i \in places
      PROVE  rank[i] \in 1..n
  <2>1. upTo(i) \subseteq places /\ i \in upTo(i)
    BY <1>3
  <2>2. IsFiniteSet(upTo(i)) /\ Cardinality(upTo(i)) <= n /\ Cardinality(upTo(i)) \in Nat
    BY <1>2, <2>1, FS_Subset, FS_CardinalityType
  <2>3. Cardinality(upTo(i)) # 0
    BY <2>1, <2>2, FS_EmptySet
  <2> QED BY <1>2, <2>2, <2>3
<1>5. ASSUME NEW i \in places, NEW j \in places, i < j
      PROVE  rank[i] < rank[j]
  <2>1. upTo(i) \subseteq upTo(j) /\ j \in upTo(j) /\ j \notin upTo(i)
    BY <1>3, <1>5
  <2>2. IsFiniteSet(upTo(j))
    BY <1>2, FS_Subset
  <2>3. Cardinality(upTo(i)) <= Cardinality(upTo(j))
        /\ (Cardinality(upTo(j)) = Cardinality(upTo(i)) => upTo(j) = upTo(i))
    BY <2>1, <2>2, FS_Subset
  <2>4. rank[i] = Cardinality(upTo(i)) /\ rank[j] = Cardinality(upTo(j))
    OBVIOUS
  <2>5. rank[i] \in Nat /\ rank[j] \in Nat
    BY <1>2, <1>4
  <2> HIDE DEF upTo, rank
  <2> QED BY <2>1, <2>3, <2>4, <2>5
<1> HIDE DEF rank, upTo
<1>6. rank \in Injection(places, 1..n)
  <2>1. rank \in [places -> 1..n]
    BY <1>4 DEF rank
  <2>2. \A i, j \in places : rank[i] = rank[j] => i = j
    BY <1>2, <1>3, <1>4, <1>5
  <2> QED BY <2>1, <2>2 DEF Injection, IsInjective
<1>7. rank \in Surjection(places, 1..n)
  <2>1. IsFiniteSet(1..n) /\ Cardinality(1..n) = n
    BY <1>2, FS_Interval
  <2> QED BY <1>6, <2>1, FS_Injection
<1>8. \A k \in 1..n : \E i \in places : rank[i] = k
  BY <1>7 DEF Surjection
<1> DEFINE f == [k \in 1..n |-> CHOOSE i \in places : rank[i] = k]
<1>9. \A k \in 1..n : f[k] \in places /\ rank[f[k]] = k
  BY <1>8
<1>10. Picked(q, places) = [k \in 1..n |-> q[f[k]]]
  <2>1. \A i \in places : rank[i] = Cardinality({j \in places : j <= i})
    BY DEF rank, upTo
  <2>2. \A k \in 1..n : f[k] = CHOOSE i \in places : Cardinality({j \in places : j <= i}) = k
    BY <2>1
  <2>3. Picked(q, places)
          = [k \in 1..n |-> q[CHOOSE i \in places : Cardinality({j \in places : j <= i}) = k]]
    BY DEF Picked
  <2> HIDE DEF f, n
  <2> QED BY <2>2, <2>3
<1> HIDE DEF f, n
<1>11. f \in [1..n -> places]
  BY <1>9 DEF f
<1>12. \A i \in places : q[i] \in S
  BY <1>1, ElementOfSeq
<1>13. Picked(q, places) \in [1..n -> S]
  BY <1>9, <1>10, <1>12
<1>14. Picked(q, places) \in Seq(S) /\ DOMAIN Picked(q, places) = 1..n
  BY <1>2, <1>13, FunctionIsSeq
<1>15. \A k \in 1..n : Picked(q, places)[k] = q[f[k]]
  BY <1>10
<1>16. ASSUME NEW k \in 1..n, NEW l \in 1..n
       PROVE  k < l <=> f[k] < f[l]
  <2>1. /\ f[k] \in places /\ f[l] \in places /\ f[k] \in Int /\ f[l] \in Int
        /\ rank[f[k]] = k /\ rank[f[l]] = l
    BY <1>3, <1>9
  <2>2. f[k] < f[l] => k < l
    BY <1>5, <2>1
  <2>3. f[l] < f[k] => l < k
    BY <1>5, <2>1
  <2>4. f[k] = f[l] => k = l
    BY <2>1
  <2> QED BY <1>2, <2>1, <2>2, <2>3, <2>4
<1>17. ASSUME NEW i \in places
       PROVE  \E k \in 1..n : f[k] = i
  <2>1. rank[i] \in 1..n /\ rank[f[rank[i]]] = rank[i] /\ f[rank[i]] \in places
    BY <1>4, <1>9
  <2>2. \A a, b \in places : rank[a] = rank[b] => a = b
    BY <1>6 DEF Injection, IsInjective
  <2> QED BY <2>1, <2>2
<1> DEFINE r == Picked(q, places)
<1>18. r \in Seq(S) /\ f \in [DOMAIN r -> places]
  BY <1>11, <1>14
<1>19. /\ \A k \in DOMAIN r : r[k] = q[f[k]]
       /\ \A k, l \in DOMAIN r : k < l <=> f[k] < f[l]
       /\ \A i \in places : \E k \in DOMAIN r : f[k] = i
  BY <1>14, <1>15, <1>16, <1>17
<1> HIDE DEF r
<1>20. \E g \in [DOMAIN r -> places] :
         /\ \A k \in DOMAIN r : r[k] = q[g[k]]
         /\ \A k, l \in DOMAIN r : k < l <=> g[k] < g[l]
         /\ \A i \in places : \E k \in DOMAIN r : g[k] = i
  BY <1>18, <1>19
<1> QED BY <1>18, <1>20 DEF r

\* The first of a queue and what is left behind it.
LEMMA HeadAndTail ==
  ASSUME NEW S, NEW q \in Seq(S), q # <<>>
  PROVE  /\ 1 \in DOMAIN q /\ Head(q) = q[1] /\ Head(q) \in S
         /\ Tail(q) \in Seq(S) /\ Len(Tail(q)) = Len(q) - 1
         /\ DOMAIN Tail(q) = {i \in DOMAIN q : i + 1 \in DOMAIN q}
         /\ \A i \in DOMAIN Tail(q) : Tail(q)[i] = q[i + 1]
<1>1. Len(q) \in Nat \ {0} /\ DOMAIN q = 1..Len(q)
  BY EmptySeq, LenProperties
<1>2. /\ Head(q) \in S /\ Tail(q) \in Seq(S) /\ Len(Tail(q)) = Len(q) - 1
      /\ \A i \in 1..Len(Tail(q)) : Tail(q)[i] = q[i + 1]
  BY HeadTailProperties
<1>3. DOMAIN Tail(q) = 1..(Len(q) - 1)
  BY <1>2, LenProperties
<1> QED BY <1>1, <1>2, <1>3

\* A queue with one more at its end.
LEMMA OneMore ==
  ASSUME NEW S, NEW q \in Seq(S), NEW e \in S
  PROVE  /\ Append(q, e) \in Seq(S) /\ Append(q, e) # <<>>
         /\ Len(Append(q, e)) = Len(q) + 1
         /\ Len(q) \in Nat /\ DOMAIN q = 1..Len(q)
         /\ DOMAIN Append(q, e) = 1..(Len(q) + 1)
         /\ \A i \in DOMAIN q : Append(q, e)[i] = q[i]
         /\ Append(q, e)[Len(q) + 1] = e
<1>1. Len(q) \in Nat /\ DOMAIN q = 1..Len(q)
  BY LenProperties
<1>2. /\ Append(q, e) \in Seq(S) /\ Append(q, e) # <<>>
      /\ Len(Append(q, e)) = Len(q) + 1
      /\ \A i \in 1..Len(q) : Append(q, e)[i] = q[i]
      /\ Append(q, e)[Len(q) + 1] = e
  BY AppendProperties
<1>3. DOMAIN Append(q, e) = 1..(Len(q) + 1)
  BY <1>2, LenProperties
<1> QED BY <1>1, <1>2, <1>3

\* What a queue contains after a member was added, and that it does so once.
LEMMA ContainsOneMore ==
  ASSUME NEW S, NEW q \in Seq(S), NEW e \in S, NEW x
  PROVE  /\ Contains(Append(q, e), x) <=> Contains(q, x) \/ x = e
         /\ OnceIn(q, x) /\ ~(x = e /\ Contains(q, x)) => OnceIn(Append(q, e), x)
<1> DEFINE r == Append(q, e)
<1>1. /\ Len(q) \in Nat /\ DOMAIN q = 1..Len(q) /\ Len(r) = Len(q) + 1
      /\ DOMAIN r = 1..(Len(q) + 1)
      /\ \A i \in DOMAIN q : r[i] = q[i]
      /\ r[Len(q) + 1] = e
  BY OneMore
<1> HIDE DEF r
<1>2. Contains(r, x) <=> Contains(q, x) \/ x = e
  BY <1>1 DEF Contains
<1>3. ASSUME OnceIn(q, x), ~(x = e /\ Contains(q, x)), NEW i \in DOMAIN r, NEW j \in DOMAIN r,
             r[i] = x, r[j] = x
      PROVE  i = j
  <2>1. (i \in DOMAIN q \/ i = Len(q) + 1) /\ (j \in DOMAIN q \/ j = Len(q) + 1)
    BY <1>1
  <2>2. CASE i \in DOMAIN q /\ j \in DOMAIN q
    BY <1>1, <1>3, <2>2 DEF OnceIn
  <2>3. CASE i = Len(q) + 1 /\ j \in DOMAIN q
    BY <1>1, <1>3, <2>3 DEF Contains
  <2>4. CASE i \in DOMAIN q /\ j = Len(q) + 1
    BY <1>1, <1>3, <2>4 DEF Contains
  <2> QED BY <2>1, <2>2, <2>3, <2>4
<1> QED BY <1>2, <1>3 DEF r, OnceIn

\* What a queue contained is its head or still there, and not both if it was there once.
LEMMA ContainsTail ==
  ASSUME NEW S, NEW q \in Seq(S), q # <<>>, NEW x
  PROVE  /\ Contains(q, x) <=> Head(q) = x \/ Contains(Tail(q), x)
         /\ OnceIn(q, x) => /\ OnceIn(Tail(q), x)
                            /\ ~(Head(q) = x /\ Contains(Tail(q), x))
<1> DEFINE r == Tail(q)
<1>1. /\ Len(q) \in Nat /\ DOMAIN q = 1..Len(q)
      /\ 1 \in DOMAIN q /\ Head(q) = q[1] /\ Len(r) = Len(q) - 1
      /\ DOMAIN r = 1..(Len(q) - 1)
      /\ \A i \in DOMAIN r : r[i] = q[i + 1]
  <2>1. Len(q) \in Nat /\ DOMAIN q = 1..Len(q) /\ Len(r) = Len(q) - 1 /\ DOMAIN r = 1..Len(r)
    BY HeadAndTail, LenProperties
  <2> QED BY <2>1, HeadAndTail
<1> HIDE DEF r
<1>2. Contains(q, x) <=> Head(q) = x \/ Contains(r, x)
  <2>1. ASSUME NEW i \in 1..Len(q), q[i] = x PROVE Head(q) = x \/ Contains(r, x)
    <3>1. CASE i = 1
      BY <1>1, <2>1, <3>1
    <3>2. CASE i # 1
      <4>1. i - 1 \in 1..Len(r) /\ r[i - 1] = q[(i - 1) + 1] /\ (i - 1) + 1 = i
        BY <1>1, <3>2
      <4> QED BY <2>1, <4>1 DEF Contains
    <3> QED BY <3>1, <3>2
  <2>2. ASSUME NEW i \in 1..Len(r), r[i] = x PROVE Contains(q, x)
    <3>1. i + 1 \in 1..Len(q) /\ q[i + 1] = x
      BY <1>1, <2>2
    <3> QED BY <3>1 DEF Contains
  <2>3. Head(q) = x => Contains(q, x)
    BY <1>1 DEF Contains
  <2> QED BY <2>1, <2>2, <2>3 DEF Contains
<1>3. ASSUME OnceIn(q, x) PROVE OnceIn(r, x)
  <2> SUFFICES ASSUME NEW i \in DOMAIN r, NEW j \in DOMAIN r, r[i] = x, r[j] = x
               PROVE  i = j
    BY DEF OnceIn
  <2>1. i + 1 \in DOMAIN q /\ j + 1 \in DOMAIN q /\ q[i + 1] = x /\ q[j + 1] = x
    BY <1>1
  <2>2. i + 1 = j + 1
    BY <1>3, <2>1 DEF OnceIn
  <2> QED BY <1>1, <2>2
<1>4. ASSUME OnceIn(q, x), Head(q) = x, NEW i \in 1..Len(r), r[i] = x PROVE FALSE
  <2>1. i + 1 \in DOMAIN q /\ q[i + 1] = x /\ i + 1 # 1
    BY <1>1, <1>4
  <2> QED BY <1>1, <1>4, <2>1 DEF OnceIn
<1> QED BY <1>2, <1>3, <1>4 DEF r, Contains

-----------------------------------------------------------------------------
(* Types.                                                                  *)

USE DEF Time

\* The parts of a delivery, and of an event.
LEMMA DeliveryFields ==
  ASSUME NEW d \in Delivery
  PROVE  d.kind \in {"turn", "steer", "interrupt"} /\ d.turn \in Turn /\ d.at \in Time
BY DEF Delivery

\* An event is of one turn: a text, or the end of it (Event of the harness).
LEMMA EventFields ==
  ASSUME NEW e \in Event
  PROVE  /\ e.turn \in Turn /\ e.kind \in {"text", "done"}
         /\ e.kind = "done" <=> e = Done(e.turn)
         /\ e.kind = "text" <=> e = Text(e.turn)
BY DEF Event, Done, Text

\* The period of Run is a positive number of seconds.
LEMMA EveryIsPositive == Every \in Nat \ {0}
BY MailboxAssumption DEF Every, Second

\* What the mailbox emits is an event.
LEMMA EventTypes == \A t \in Turn : Text(t) \in Event /\ Done(t) \in Event
BY DEF Text, Done, Event

\* An empty channel, no event and nobody polling: what New builds.
LEMMA InitType == Init => TypeOK
<1> SUFFICES ASSUME Init PROVE TypeOK
  OBVIOUS
<1>1. <<>> \in Seq(Delivery) /\ <<>> \in Seq(Event) /\ Len(<<>>) = 0
  BY EmptySeq
<1>2. Every \in Nat
  BY EveryIsPositive
<1> QED BY <1>1, <1>2, MailboxAssumption DEF Init, TypeOK

\* park: one delivery more.
LEMMA ParkType ==
  ASSUME TypeOK, NEW kind \in {"turn", "steer", "interrupt"}, NEW t \in Turn, Park(kind, t)
  PROVE  /\ [kind |-> kind, turn |-> t, at |-> now] \in Delivery
         /\ queue' \in Seq(Delivery) /\ Len(queue') <= MaxQueue
         /\ pc' \in [Polls -> {"idle", "waits", "writes"}]
         /\ \A p \in Polls : pc'[p] # "waits" /\ (pc'[p] = "writes" <=> pc[p] = "writes")
<1>1. [kind |-> kind, turn |-> t, at |-> now] \in Delivery
  BY DEF Delivery, TypeOK
<1>2. queue \in Seq(Delivery) /\ queue' = Append(queue, [kind |-> kind, turn |-> t, at |-> now])
      /\ Len(queue) < MaxQueue
  BY DEF TypeOK, Park
<1>3. queue' \in Seq(Delivery) /\ Len(queue') = Len(queue) + 1 /\ Len(queue) \in Nat
  BY <1>1, <1>2, OneMore
<1>4. Len(queue') <= MaxQueue
  BY <1>2, <1>3, MailboxAssumption
<1>5. /\ pc' \in [Polls -> {"idle", "waits", "writes"}]
      /\ \A p \in Polls : pc'[p] # "waits" /\ (pc'[p] = "writes" <=> pc[p] = "writes")
  BY DEF TypeOK, Park
<1> QED BY <1>1, <1>3, <1>4, <1>5

\* emit: never more events than the buffer takes.
LEMMA EmitType ==
  ASSUME TypeOK, NEW e \in Event, Emit(e)
  PROVE  events' \in Seq(Event) /\ Len(events') <= EventBuffer
<1>1. events \in Seq(Event) /\ Len(events) \in Nat /\ Len(events) <= EventBuffer
  BY LenProperties DEF TypeOK
<1>2. CASE Len(events) < EventBuffer
  BY <1>1, <1>2, OneMore, MailboxAssumption DEF Emit
<1>3. CASE ~(Len(events) < EventBuffer)
  BY <1>1, <1>3 DEF Emit
<1> QED BY <1>2, <1>3

\* Two events for each of the turns that nobody came for, a word and then the completion.
LEMMA ClosingsType ==
  ASSUME NEW r \in Seq(Delivery)
  PROVE  /\ Closings(r) \in Seq(Event)
         /\ DOMAIN Closings(r) = 1..2 * Len(r)
         /\ \A i \in DOMAIN Closings(r) :
              /\ (i + 1) \div 2 \in DOMAIN r
              /\ Closings(r)[i] = IF i % 2 = 1 THEN Text(r[(i + 1) \div 2].turn)
                                               ELSE Done(r[(i + 1) \div 2].turn)
<1>1. Len(r) \in Nat /\ DOMAIN r = 1..Len(r)
  BY LenProperties
<1>2. \A i \in 1..2 * Len(r) : (i + 1) \div 2 \in DOMAIN r
  BY <1>1
<1>3. \A k \in DOMAIN r : r[k].turn \in Turn
  BY <1>1, ElementOfSeq, DeliveryFields
<1>4. Closings(r) \in [1..2 * Len(r) -> Event]
  BY <1>2, <1>3, EventTypes DEF Closings
<1>5. 2 * Len(r) \in Nat
  BY <1>1
<1>6. Closings(r) \in Seq(Event)
  BY <1>4, <1>5, FunctionIsSeq
<1>7. DOMAIN Closings(r) = 1..2 * Len(r)
  BY DEF Closings
<1>8. \A i \in 1..2 * Len(r) :
        Closings(r)[i] = IF i % 2 = 1 THEN Text(r[(i + 1) \div 2].turn)
                                      ELSE Done(r[(i + 1) \div 2].turn)
  BY DEF Closings
<1> QED BY <1>2, <1>6, <1>7, <1>8

\* What the filters of expire leave of the queue and take out of it.
LEMMA ExpireType ==
  ASSUME TypeOK, Expire
  PROVE  /\ queue' \in Seq(Delivery) /\ Len(queue') <= MaxQueue
         /\ expiring' \in Seq(Event) /\ running' \subseteq running
<1> DEFINE ended == {i \in StalePlaces : IsTurn(queue[i]) /\ queue[i].turn \in running}
<1>1. queue \in Seq(Delivery) /\ Len(queue) \in Nat /\ DOMAIN queue = 1..Len(queue)
      /\ Len(queue) <= MaxQueue
  BY LenProperties DEF TypeOK
<1>2. StalePlaces \subseteq DOMAIN queue /\ ended \subseteq DOMAIN queue
  BY DEF StalePlaces
<1>3. /\ queue' = Picked(queue, DOMAIN queue \ StalePlaces)
      /\ running' = running \ {queue[i].turn : i \in ended}
      /\ expiring' = Closings(Picked(queue, ended))
  BY DEF Expire
<1> HIDE DEF ended
<1>4. queue' \in Seq(Delivery)
  BY <1>1, <1>2, <1>3, PickedInOrder
<1>5. Len(queue') <= MaxQueue
  <2> DEFINE kept == DOMAIN queue \ StalePlaces
  <2>1. IsFiniteSet(DOMAIN queue) /\ Cardinality(DOMAIN queue) = Len(queue)
    BY <1>1, FS_Interval
  <2>2. Cardinality(kept) <= Len(queue) /\ Cardinality(kept) \in Nat
    BY <2>1, FS_Subset, FS_CardinalityType
  <2>3. DOMAIN queue' = 1..Cardinality(kept)
    BY <1>3 DEF Picked
  <2>4. Len(queue') \in Nat /\ DOMAIN queue' = 1..Len(queue')
    BY <1>4, LenProperties
  <2>5. Len(queue') = Cardinality(kept)
    BY <2>2, <2>3, <2>4
  <2> QED BY <1>1, <2>2, <2>5, MailboxAssumption
<1>6. Picked(queue, ended) \in Seq(Delivery)
  BY <1>1, <1>2, PickedInOrder
<1>7. expiring' \in Seq(Event)
  BY <1>3, <1>6, ClosingsType
<1> QED BY <1>3, <1>4, <1>5, <1>7

\* Every delivery, poll, text, stop and expiry leaves the channel, the events and the wakers
\* what they are.
LEMMA NextType == TypeOK /\ [Next]_vars => TypeOK'
<1> SUFFICES ASSUME TypeOK, [Next]_vars PROVE TypeOK'
  OBVIOUS
<1> USE DEF calls, seen
<1>1. CASE StartTurn
  <2>1. counter' \in Turn /\ counter' \in 0..MaxTurns /\ Park("turn", counter')
        /\ running' = running \cup {counter'}
        /\ UNCHANGED <<now, tick, events, hand, expiring, owed, seen>>
    BY <1>1, MailboxAssumption DEF StartTurn, TypeOK, Turn
  <2>2. running' \subseteq Turn
    BY <2>1 DEF TypeOK
  <2>3. /\ queue' \in Seq(Delivery) /\ Len(queue') <= MaxQueue
        /\ pc' \in [Polls -> {"idle", "waits", "writes"}]
        /\ \A p \in Polls : pc'[p] = "writes" <=> pc[p] = "writes"
    BY <2>1, ParkType
  <2> QED BY <2>1, <2>2, <2>3 DEF TypeOK
<1>2. ASSUME NEW t \in Turn, Steer(t) PROVE TypeOK'
  <2>1. /\ queue' \in Seq(Delivery) /\ Len(queue') <= MaxQueue
        /\ pc' \in [Polls -> {"idle", "waits", "writes"}]
        /\ \A p \in Polls : pc'[p] = "writes" <=> pc[p] = "writes"
    BY <1>2, ParkType DEF Steer
  <2> QED BY <1>2, <2>1 DEF TypeOK, Steer
<1>3. ASSUME NEW t \in Turn, Interrupt(t) PROVE TypeOK'
  <2>1. /\ queue' \in Seq(Delivery) /\ Len(queue') <= MaxQueue
        /\ pc' \in [Polls -> {"idle", "waits", "writes"}]
        /\ \A p \in Polls : pc'[p] = "writes" <=> pc[p] = "writes"
    BY <1>3, ParkType DEF Interrupt
  <2>2. <<Done(t)>> \in Seq(Event) \ {<<>>}
    BY EventTypes
  <2>3. running' \subseteq Turn /\ owed' \subseteq Seq(Event) \ {<<>>}
    BY <1>3, <2>2 DEF TypeOK, Interrupt
  <2> QED BY <1>3, <2>1, <2>3 DEF TypeOK, Interrupt
<1>4. CASE Hears
  <2>1. Tail(events) \in Seq(Event) /\ Len(Tail(events)) = Len(events) - 1 /\ Head(events) \in Event
        /\ Len(events) \in Nat
    BY <1>4, HeadAndTail, LenProperties DEF Hears, TypeOK
  <2>2. Len(events') <= EventBuffer /\ events' \in Seq(Event)
    BY <1>4, <2>1, MailboxAssumption DEF Hears, TypeOK
  <2>3. told' \subseteq Turn
    BY <1>4, <2>1, EventFields DEF Hears, TypeOK
  <2> QED BY <1>4, <2>2, <2>3 DEF TypeOK, Hears
<1>5. ASSUME NEW p \in Polls, Looks(p) PROVE TypeOK'
  <2>1. CASE queue = <<>>
    <3> QED BY <1>5, <2>1 DEF Looks, TypeOK
  <2>2. CASE queue # <<>>
    <3>1. /\ Tail(queue) \in Seq(Delivery) /\ Len(Tail(queue)) = Len(queue) - 1
          /\ Head(queue) \in Delivery /\ Len(queue) \in Nat
      BY <2>2, HeadAndTail, LenProperties DEF TypeOK
    <3>2. <<Head(queue)>> \in Seq(Delivery) /\ Len(<<Head(queue)>>) = 1
      BY <3>1
    <3>3. /\ hand' = [hand EXCEPT ![p] = <<Head(queue)>>]
          /\ queue' = Tail(queue) /\ pc' = [pc EXCEPT ![p] = "writes"]
          /\ UNCHANGED <<now, tick, counter, running, events, expiring, owed, seen>>
      BY <1>5, <2>2 DEF Looks
    <3>4. Len(queue') <= MaxQueue /\ queue' \in Seq(Delivery)
      BY <3>1, <3>3, MailboxAssumption DEF TypeOK
    <3>5. hand' \in [Polls -> Seq(Delivery)] /\ pc' \in [Polls -> {"idle", "waits", "writes"}]
      BY <3>2, <3>3 DEF TypeOK
    <3>6. \A o \in Polls : Len(hand'[o]) = (IF pc'[o] = "writes" THEN 1 ELSE 0)
      BY <3>2, <3>3 DEF TypeOK
    <3> QED BY <3>3, <3>4, <3>5, <3>6 DEF TypeOK
  <2> QED BY <2>1, <2>2
<1>6. ASSUME NEW p \in Polls, GivesUp(p) PROVE TypeOK'
  <2> QED BY <1>6 DEF GivesUp, TypeOK
<1>7. ASSUME NEW p \in Polls, Writes(p) PROVE TypeOK'
  <2>1. Len(hand[p]) = 1 /\ hand[p] \in Seq(Delivery) /\ hand[p] # <<>>
    BY <1>7 DEF Writes, TypeOK
  <2>2. Head(hand[p]).turn \in Turn
    BY <2>1, HeadAndTail, DeliveryFields
  <2>3. took' \subseteq Turn /\ lost' \subseteq Turn
    BY <1>7, <2>2 DEF Writes, TypeOK
  <2>4. /\ pc' = [pc EXCEPT ![p] = "idle"] /\ hand' = [hand EXCEPT ![p] = <<>>]
        /\ UNCHANGED <<now, tick, counter, running, queue, events, expiring, owed, told>>
    BY <1>7 DEF Writes
  <2>5. hand' \in [Polls -> Seq(Delivery)] /\ pc' \in [Polls -> {"idle", "waits", "writes"}]
    BY <2>4, EmptySeq DEF TypeOK
  <2>6. \A o \in Polls : Len(hand'[o]) = (IF pc'[o] = "writes" THEN 1 ELSE 0)
    BY <2>4 DEF TypeOK
  <2> QED BY <2>3, <2>4, <2>5, <2>6 DEF TypeOK
<1>8. ASSUME NEW t \in Turn, Say(t) PROVE TypeOK'
  <2>1. events' \in Seq(Event) /\ Len(events') <= EventBuffer
    BY <1>8, EmitType, EventTypes DEF Say
  <2> QED BY <1>8, <2>1 DEF Say, TypeOK
<1>9. ASSUME NEW t \in Turn, PostDone(t) PROVE TypeOK'
  <2>1. <<Done(t)>> \in Seq(Event) \ {<<>>} /\ <<Text(t), Done(t)>> \in Seq(Event) \ {<<>>}
    BY EventTypes
  <2>2. running' \subseteq Turn /\ owed' \subseteq Seq(Event) \ {<<>>}
    BY <1>9, <2>1 DEF TypeOK, PostDone
  <2> QED BY <1>9, <2>2 DEF TypeOK, PostDone
<1>10. CASE Expire
  <2>1. /\ queue' \in Seq(Delivery) /\ Len(queue') <= MaxQueue
        /\ expiring' \in Seq(Event) /\ running' \subseteq running
    BY <1>10, ExpireType
  <2>2. tick' \in Nat
    BY <1>10, EveryIsPositive DEF Expire, TypeOK
  <2> QED BY <1>10, <2>1, <2>2 DEF TypeOK, Expire
<1>11. CASE ExpireEmits
  <2>1. Head(expiring) \in Event /\ Tail(expiring) \in Seq(Event)
    BY <1>11, HeadAndTail DEF ExpireEmits, TypeOK
  <2>2. events' \in Seq(Event) /\ Len(events') <= EventBuffer
    BY <1>11, <2>1, EmitType DEF ExpireEmits
  <2> QED BY <1>11, <2>1, <2>2 DEF ExpireEmits, TypeOK
<1>12. ASSUME NEW s \in owed, Emits(s) PROVE TypeOK'
  <2>1. Head(s) \in Event /\ Tail(s) \in Seq(Event)
    BY <1>12, HeadAndTail DEF TypeOK
  <2>2. events' \in Seq(Event) /\ Len(events') <= EventBuffer
    BY <1>12, <2>1, EmitType DEF Emits
  <2>3. s \in Seq(Event) /\ s # <<>> /\ Len(s) \in Nat /\ Len(Tail(s)) = Len(s) - 1
    BY <1>12, HeadAndTail, LenProperties DEF TypeOK
  <2>4. ASSUME Len(s) > 1 PROVE Tail(s) \in Seq(Event) \ {<<>>}
    <3>1. Len(Tail(s)) # 0
      BY <2>3, <2>4
    <3>2. Tail(s) # <<>>
      BY <2>1, <3>1, EmptySeq
    <3> QED BY <2>1, <3>2
  <2>5. owed' = (owed \ {s}) \cup (IF Len(s) > 1 THEN {Tail(s)} ELSE {})
    BY <1>12 DEF Emits
  <2>6. owed' \subseteq Seq(Event) \ {<<>>}
    BY <2>4, <2>5 DEF TypeOK
  <2> QED BY <1>12, <2>2, <2>6 DEF Emits, TypeOK
<1>13. CASE Advance
  <2>1. now' \in Time
    BY <1>13, MailboxAssumption DEF Advance, TypeOK
  <2> QED BY <1>13, <2>1 DEF Advance, TypeOK
<1>14. CASE UNCHANGED vars
  <2> QED BY <1>14 DEF vars, TypeOK
<1> QED BY <1>1, <1>2, <1>3, <1>4, <1>5, <1>6, <1>7, <1>8, <1>9, <1>10, <1>11, <1>12,
           <1>13, <1>14 DEF Next, Harness, Client

-----------------------------------------------------------------------------
(* Who waits for what.                                                     *)

\* Where the deliveries are.
Whereabouts == InOrder /\ NoPollSleepsOnMail /\ ParkedOnce /\ Somewhere /\ StopFollowsTheTurn

\* At the start there is nothing to hand over.
LEMMA InitWhereabouts == Init => Whereabouts
<1> SUFFICES ASSUME Init PROVE Whereabouts
  OBVIOUS
<1>1. queue = <<>> /\ running = {} /\ took = {} /\ now = 0 /\ tick = Every
      /\ \A p \in Polls : hand[p] = <<>>
  BY DEF Init
<1>2. DOMAIN queue = {}
  BY <1>1
<1> QED BY <1>1, <1>2, EveryIsPositive
        DEF Whereabouts, InOrder, NoPollSleepsOnMail, ParkedOnce, Somewhere, StopFollowsTheTurn, Holds

\* What a step keeps that leaves the queue and the hands alone: time passes no further than
\* the next look of Run, and only turns that the client has may end.
LEMMA QueueUntouched ==
  ASSUME TypeOK, Whereabouts,
         UNCHANGED <<queue, hand, took, lost, counter, tick>>,
         now' \in Int, now <= now', now' <= tick,
         \A p \in Polls : pc'[p] = "waits" => pc[p] = "waits",
         running' \subseteq running, running \ running' \subseteq took
  PROVE  Whereabouts'
<1>1. InOrder'
  <2>1. now \in Int /\ tick \in Int /\ \A i \in DOMAIN queue : queue[i].at \in Int
    BY ElementOfSeq, DeliveryFields, LenProperties DEF TypeOK
  <2> QED BY <2>1, EveryIsPositive, MailboxAssumption DEF Whereabouts, InOrder, Every
<1>2. NoPollSleepsOnMail'
  BY DEF Whereabouts, NoPollSleepsOnMail
<1>3. ParkedOnce'
  BY DEF Whereabouts, ParkedOnce, Holds
<1>4. Somewhere'
  BY DEF Whereabouts, Somewhere, Holds
<1>5. StopFollowsTheTurn'
  BY DEF Whereabouts, StopFollowsTheTurn, ParkedOnce
<1> QED BY <1>1, <1>2, <1>3, <1>4, <1>5 DEF Whereabouts

\* Park under the lock of StartTurn, Steer and Interrupt: a turn is parked when it starts,
\* and the request to stop in the step that ends the turn.
LEMMA QueueParked ==
  ASSUME TypeOK, Whereabouts,
         NEW kind \in {"turn", "steer", "interrupt"}, NEW t \in Turn, Park(kind, t),
         UNCHANGED <<now, tick, hand, took, lost>>,
         kind = "turn" => counter' = counter + 1 /\ t = counter' /\ running' = running \cup {t},
         kind # "turn" => counter' = counter /\ running' \subseteq running,
         \A u \in running \ running' : kind = "interrupt" /\ u = t
  PROVE  Whereabouts'
<1> DEFINE new == [kind |-> kind, turn |-> t, at |-> now]
<1> DEFINE last == Len(queue) + 1
<1>1. /\ queue' \in Seq(Delivery) /\ Len(queue') = last
      /\ Len(queue) \in Nat /\ DOMAIN queue = 1..Len(queue) /\ DOMAIN queue' = 1..last
      /\ \A i \in DOMAIN queue : queue'[i] = queue[i]
      /\ queue'[last] = new
  BY ParkType, OneMore DEF TypeOK, Park
<1>2. new.kind = kind /\ new.turn = t /\ new.at = now /\ last = Len(queue) + 1
  OBVIOUS
<1>3. \A i \in DOMAIN queue' : i \in DOMAIN queue \/ i = last
  BY <1>1
<1>4. now \in Int /\ tick \in Int /\ counter \in Int /\ \A i \in DOMAIN queue : queue[i].at \in Int
  BY ElementOfSeq, DeliveryFields, LenProperties DEF TypeOK
<1>5. \A i \in DOMAIN queue : queue[i].turn \in Int
  BY ElementOfSeq, DeliveryFields, LenProperties DEF TypeOK, Turn
<1>6. counter <= counter' /\ counter' \in Int
  BY <1>4
<1> HIDE DEF new, last
<1>7. InOrder'
  <2>1. tick - Every - Stale <= now /\ tick - Every <= now /\ now <= tick
    BY <1>4, EveryIsPositive, MailboxAssumption DEF Whereabouts, InOrder
  <2>2. \A i \in DOMAIN queue' : queue'[i].at <= now /\ tick - Every - Stale <= queue'[i].at
    BY <1>1, <1>2, <1>3, <1>4, <2>1 DEF Whereabouts, InOrder
  <2>3. ASSUME NEW i \in DOMAIN queue', NEW j \in DOMAIN queue', i <= j
        PROVE  queue'[i].at <= queue'[j].at
    <3>1. CASE j = last
      BY <1>1, <1>2, <1>4, <2>2, <3>1
    <3>2. CASE j \in DOMAIN queue
      <4>1. i \in DOMAIN queue
        BY <1>1, <2>3, <3>2
      <4> QED BY <1>1, <2>3, <3>2, <4>1 DEF Whereabouts, InOrder
    <3> QED BY <1>3, <3>1, <3>2
  <2> QED BY <2>1, <2>2, <2>3 DEF InOrder
<1>8. NoPollSleepsOnMail'
  BY ParkType DEF NoPollSleepsOnMail
<1>9. ParkedOnce'
  <2>1. ASSUME NEW i \in DOMAIN queue, IsTurn(queue[i]), kind = "turn"
        PROVE  queue[i].turn # t
    BY <1>4, <1>5, <2>1 DEF Whereabouts, ParkedOnce
  <2>2. \A i, j \in DOMAIN queue' :
          IsTurn(queue'[i]) /\ IsTurn(queue'[j]) /\ queue'[i].turn = queue'[j].turn => i = j
    BY <1>1, <1>2, <1>3, <2>1 DEF Whereabouts, ParkedOnce, IsTurn
  <2>3. \A p \in Polls, u \in Turn : (Holds(p, u))' <=> Holds(p, u)
    BY DEF Holds
  <2>4. ASSUME NEW i \in DOMAIN queue', IsTurn(queue'[i]), NEW u \in Turn, u = queue'[i].turn
        PROVE  u \notin took /\ u <= counter' /\ \A p \in Polls : ~Holds(p, u)
    <3>1. CASE i = last
      <4>1. u = t /\ kind = "turn" /\ u = counter + 1 /\ u = counter'
        BY <1>1, <1>2, <2>4, <3>1 DEF IsTurn
      <4>2. ~(u <= counter) /\ u <= counter'
        BY <1>4, <4>1
      <4> QED BY <2>4, <4>2 DEF Whereabouts, ParkedOnce
    <3>2. CASE i \in DOMAIN queue
      <4>1. /\ IsTurn(queue[i]) /\ u = queue[i].turn /\ u \in Int /\ u <= counter
            /\ u \notin took /\ \A p \in Polls : ~Holds(p, u)
        BY <1>1, <1>5, <2>4, <3>2 DEF Whereabouts, ParkedOnce
      <4> QED BY <1>4, <1>6, <4>1
    <3> QED BY <1>3, <3>1, <3>2
  <2>5. ASSUME NEW u \in Turn, u <= counter
        PROVE  u <= counter'
    BY <1>4, <1>6, <2>5 DEF Turn
  <2>6. \A p \in Polls, u \in Turn : (Holds(p, u))' => u <= counter'
    BY <2>3, <2>5 DEF Whereabouts, ParkedOnce
  <2>7. \A u \in took' : u <= counter'
    BY <2>5 DEF Whereabouts, ParkedOnce, TypeOK
  <2>8. ASSUME NEW i \in DOMAIN queue', IsTurn(queue'[i])
        PROVE  /\ queue'[i].turn \notin took' /\ queue'[i].turn <= counter'
               /\ \A p \in Polls : ~(Holds(p, queue[i].turn))'
    <3>1. queue'[i].turn \in Turn
      BY <1>1, <2>8, ElementOfSeq, DeliveryFields
    <3> DEFINE u == queue'[i].turn
    <3>2. u \notin took' /\ u <= counter' /\ \A p \in Polls : ~Holds(p, u)
      BY <2>4, <2>8, <3>1
    <3> QED BY <3>2 DEF Holds
  <2> QED BY <2>2, <2>6, <2>7, <2>8 DEF ParkedOnce
<1>10. Somewhere'
  <2> SUFFICES ASSUME NEW u \in running'
               PROVE  \/ u \in took' \cup lost'
                      \/ \E p \in Polls : Holds(p, u)'
                      \/ \E i \in DOMAIN queue' : IsTurn(queue'[i]) /\ queue'[i].turn = u
    BY DEF Somewhere
  <2>1. CASE u \in running
    <3>1. \A i \in DOMAIN queue : i \in DOMAIN queue' /\ queue'[i] = queue[i]
      BY <1>1, <1>2
    <3> QED BY <2>1, <3>1 DEF Whereabouts, Somewhere, Holds
  <2>2. CASE u \notin running
    <3>1. kind = "turn" /\ u = t
      BY <2>2
    <3>2. last \in DOMAIN queue'
      BY <1>1, <1>2
    <3> QED BY <1>1, <1>2, <3>1, <3>2 DEF IsTurn
  <2> QED BY <2>1, <2>2
<1>11. StopFollowsTheTurn'
  <2> SUFFICES ASSUME NEW i \in DOMAIN queue', IsTurn(queue'[i]), queue'[i].turn \notin running'
               PROVE  \E j \in i + 1..Len(queue') :
                        queue'[j].kind = "interrupt" /\ queue'[j].turn = queue'[i].turn
    BY DEF StopFollowsTheTurn
  <2>1. i \in DOMAIN queue
    BY <1>1, <1>2, <1>3 DEF IsTurn
  <2>2. CASE queue[i].turn \in running
    <3>1. kind = "interrupt" /\ queue[i].turn = t
      BY <1>1, <2>1, <2>2
    <3>2. last \in i + 1..Len(queue')
      BY <1>1, <1>2, <2>1
    <3> QED BY <1>1, <1>2, <2>1, <3>1, <3>2
  <2>3. CASE queue[i].turn \notin running
    <3>1. PICK j \in i + 1..Len(queue) : queue[j].kind = "interrupt" /\ queue[j].turn = queue[i].turn
      BY <1>1, <2>1, <2>3 DEF Whereabouts, StopFollowsTheTurn
    <3>2. j \in DOMAIN queue /\ j \in i + 1..Len(queue')
      BY <1>1, <1>2, <2>1, <3>1
    <3> QED BY <1>1, <2>1, <3>1, <3>2
  <2> QED BY <2>2, <2>3
<1> QED BY <1>7, <1>8, <1>9, <1>10, <1>11 DEF Whereabouts

\* next: the oldest delivery passes from the queue into the hand of a poll, or the poll
\* waits beside an empty queue.
LEMMA QueueLooked ==
  ASSUME TypeOK, Whereabouts, NEW p \in Polls, Looks(p)
  PROVE  Whereabouts'
<1>1. CASE queue = <<>>
  <2>1. /\ pc' = [pc EXCEPT ![p] = "waits"]
        /\ UNCHANGED <<queue, hand, now, tick, counter, running, took, lost>>
    BY <1>1 DEF Looks, seen
  <2>2. InOrder' /\ ParkedOnce' /\ Somewhere' /\ StopFollowsTheTurn'
    BY <2>1 DEF Whereabouts, InOrder, ParkedOnce, Somewhere, StopFollowsTheTurn, Holds
  <2> QED BY <1>1, <2>1, <2>2 DEF Whereabouts, NoPollSleepsOnMail
<1>2. CASE queue # <<>>
  <2>1. /\ hand' = [hand EXCEPT ![p] = <<Head(queue)>>]
        /\ queue' = Tail(queue) /\ pc' = [pc EXCEPT ![p] = "writes"]
        /\ UNCHANGED <<now, tick, counter, running, took, lost>>
    BY <1>2 DEF Looks, seen
  <2>2. /\ 1 \in DOMAIN queue /\ Head(queue) = queue[1]
        /\ DOMAIN queue' = {i \in DOMAIN queue : i + 1 \in DOMAIN queue}
        /\ \A i \in DOMAIN queue' : queue'[i] = queue[i + 1]
    BY <1>2, <2>1, HeadAndTail DEF TypeOK
  <2>3. /\ Len(queue) \in Nat /\ DOMAIN queue = 1..Len(queue)
        /\ Len(queue') = Len(queue) - 1 /\ DOMAIN queue' = 1..Len(queue')
    BY <1>2, <2>1, HeadAndTail, LenProperties DEF TypeOK
  <2>4. \A i \in DOMAIN queue' : i \in Int /\ i + 1 \in DOMAIN queue /\ i + 1 # 1
    BY <2>2, <2>3
  <2>5. \A i \in DOMAIN queue : i = 1 \/ (i - 1 \in DOMAIN queue' /\ queue'[i - 1] = queue[i])
    <3> SUFFICES ASSUME NEW i \in DOMAIN queue, i # 1
                 PROVE  i - 1 \in DOMAIN queue' /\ queue'[i - 1] = queue[i]
      OBVIOUS
    <3>1. i - 1 \in DOMAIN queue' /\ (i - 1) + 1 = i
      BY <2>3
    <3> QED BY <2>2, <3>1
  <2>6. hand'[p] = <<queue[1]>> /\ \A o \in Polls \ {p} : hand'[o] = hand[o]
    BY <2>1, <2>2 DEF TypeOK
  <2>7. hand'[p] # <<>> /\ hand'[p][1] = queue[1]
    BY <2>6
  <2>8. hand[p] = <<>>
    BY <1>2, EmptySeq DEF Looks, TypeOK
  <2>9. \A o \in Polls, u \in Turn :
          (Holds(o, u))' <=> Holds(o, u) \/ (o = p /\ IsTurn(queue[1]) /\ queue[1].turn = u)
    BY <2>6, <2>7, <2>8 DEF Holds
  <2>10. \A i \in DOMAIN queue : queue[i].turn \in Turn
    BY <2>3, ElementOfSeq, DeliveryFields DEF TypeOK
  <2>11. InOrder'
    <3>1. \A i, j \in DOMAIN queue' : i <= j => i + 1 <= j + 1
      BY <2>4
    <3> QED BY <2>1, <2>2, <2>4, <3>1 DEF Whereabouts, InOrder
  <2>12. NoPollSleepsOnMail'
    BY <1>2, <2>1 DEF Whereabouts, NoPollSleepsOnMail, TypeOK
  <2>13. ParkedOnce'
    <3>1. \A i, j \in DOMAIN queue' :
            IsTurn(queue'[i]) /\ IsTurn(queue'[j]) /\ queue'[i].turn = queue'[j].turn => i = j
      <4> SUFFICES ASSUME NEW i \in DOMAIN queue', NEW j \in DOMAIN queue',
                          IsTurn(queue'[i]), IsTurn(queue'[j]), queue'[i].turn = queue'[j].turn
                   PROVE  i = j
        OBVIOUS
      <4>1. i + 1 = j + 1
        BY <2>2, <2>4 DEF Whereabouts, ParkedOnce
      <4> QED BY <2>4, <4>1
    <3>2. ASSUME NEW i \in DOMAIN queue', IsTurn(queue'[i]), NEW u \in Turn, u = queue'[i].turn
          PROVE  u \notin took /\ u <= counter /\ \A o \in Polls : ~(Holds(o, u))'
      <4>1. i + 1 \in DOMAIN queue /\ i + 1 # 1 /\ IsTurn(queue[i + 1]) /\ queue[i + 1].turn = u
        BY <2>2, <2>4, <3>2
      <4>2. u \notin took /\ u <= counter /\ \A o \in Polls : ~Holds(o, u)
        BY <4>1 DEF Whereabouts, ParkedOnce
      <4>3. ~(IsTurn(queue[1]) /\ queue[1].turn = u)
        BY <2>2, <4>1 DEF Whereabouts, ParkedOnce
      <4> QED BY <2>9, <4>2, <4>3
    <3>3. ASSUME NEW i \in DOMAIN queue', IsTurn(queue'[i])
          PROVE  /\ queue'[i].turn \notin took' /\ queue'[i].turn <= counter'
                 /\ \A o \in Polls : ~(Holds(o, queue[i].turn))'
      <4>1. queue'[i].turn \in Turn
        BY <2>2, <2>4, <2>10
      <4>2. PICK u \in Turn : u = queue'[i].turn
        BY <4>1
      <4>3. u \notin took /\ u <= counter /\ \A o \in Polls : ~(Holds(o, u))'
        BY <3>2, <3>3, <4>2
      <4>4. \A o \in Polls : ~(Holds(o, queue[i].turn))'
        BY <4>2, <4>3 DEF Holds
      <4> QED BY <2>1, <4>2, <4>3, <4>4
    <3>4. \A o \in Polls, u \in Turn : (Holds(o, u))' => u <= counter'
      BY <2>1, <2>2, <2>9 DEF Whereabouts, ParkedOnce
    <3> QED BY <2>1, <3>1, <3>3, <3>4 DEF Whereabouts, ParkedOnce
  <2>14. Somewhere'
    <3> SUFFICES ASSUME NEW u \in running
                 PROVE  \/ u \in took \cup lost
                        \/ \E o \in Polls : (Holds(o, u))'
                        \/ \E i \in DOMAIN queue' : IsTurn(queue'[i]) /\ queue'[i].turn = u
      BY <2>1 DEF Somewhere
    <3>1. u \in Turn
      BY DEF TypeOK
    <3>2. CASE u \in took \cup lost \/ \E o \in Polls : Holds(o, u)
      BY <2>9, <3>1, <3>2
    <3>3. CASE \E i \in DOMAIN queue : IsTurn(queue[i]) /\ queue[i].turn = u
      <4>1. PICK i \in DOMAIN queue : IsTurn(queue[i]) /\ queue[i].turn = u
        BY <3>3
      <4>2. CASE i = 1
        BY <2>9, <3>1, <4>1, <4>2
      <4>3. CASE i # 1
        BY <2>5, <4>1, <4>3
      <4> QED BY <4>2, <4>3
    <3> QED BY <3>2, <3>3 DEF Whereabouts, Somewhere
  <2>15. StopFollowsTheTurn'
    <3> SUFFICES ASSUME NEW i \in DOMAIN queue', IsTurn(queue'[i]), queue'[i].turn \notin running
                 PROVE  \E j \in i + 1..Len(queue') :
                          queue'[j].kind = "interrupt" /\ queue'[j].turn = queue'[i].turn
      BY <2>1 DEF StopFollowsTheTurn
    <3>1. i + 1 \in DOMAIN queue /\ queue'[i] = queue[i + 1]
      BY <2>2, <2>4
    <3>2. PICK j \in (i + 1) + 1..Len(queue) :
                 queue[j].kind = "interrupt" /\ queue[j].turn = queue[i + 1].turn
      BY <3>1 DEF Whereabouts, StopFollowsTheTurn
    <3>3. j - 1 \in i + 1..Len(queue') /\ j - 1 \in DOMAIN queue' /\ (j - 1) + 1 = j
      BY <2>3, <2>4, <3>2
    <3>4. queue'[j - 1] = queue[j]
      BY <2>2, <3>3
    <3> QED BY <3>1, <3>2, <3>3, <3>4
  <2> QED BY <2>11, <2>12, <2>13, <2>14, <2>15 DEF Whereabouts
<1> QED BY <1>1, <1>2

\* servePoll after the lock: the client has the delivery, or it is logged and gone.
LEMMA QueueWritten ==
  ASSUME TypeOK, Whereabouts, NEW p \in Polls, Writes(p)
  PROVE  Whereabouts'
<1> DEFINE d == Head(hand[p])
<1>1. /\ pc' = [pc EXCEPT ![p] = "idle"] /\ hand' = [hand EXCEPT ![p] = <<>>]
      /\ \/ took' = (IF d.kind = "turn" THEN took \cup {d.turn} ELSE took) /\ UNCHANGED lost
         \/ lost' = (IF d.kind = "turn" THEN lost \cup {d.turn} ELSE lost) /\ UNCHANGED took
      /\ UNCHANGED <<now, tick, counter, running, queue>>
  BY DEF Writes
<1>2. hand[p] \in Seq(Delivery) /\ hand[p] # <<>> /\ d = hand[p][1] /\ d \in Delivery
  <2>1. hand[p] \in Seq(Delivery) /\ Len(hand[p]) # 0
    BY DEF Writes, TypeOK
  <2>2. hand[p] # <<>>
    BY <2>1, EmptySeq
  <2> QED BY <2>1, <2>2, HeadAndTail
<1>3. d.turn \in Turn
  BY <1>2, DeliveryFields
<1>4. d.kind = "turn" => Holds(p, d.turn)
  BY <1>2 DEF Holds, IsTurn
<1>5. \A o \in Polls : \A u : (Holds(o, u))' <=> Holds(o, u) /\ o # p
  BY <1>1 DEF Holds, TypeOK
<1>6. \A u : Holds(p, u) <=> d.kind = "turn" /\ u = d.turn
  BY <1>2 DEF Holds, IsTurn
<1> HIDE DEF d
<1>7. InOrder' /\ NoPollSleepsOnMail' /\ StopFollowsTheTurn'
  BY <1>1 DEF Whereabouts, InOrder, NoPollSleepsOnMail, StopFollowsTheTurn, TypeOK
<1>8. took' \subseteq took \cup (IF d.kind = "turn" THEN {d.turn} ELSE {})
  BY <1>1
<1>9. ParkedOnce'
  <2>1. ASSUME NEW i \in DOMAIN queue, IsTurn(queue[i])
        PROVE  /\ queue[i].turn \notin took' /\ queue[i].turn <= counter
               /\ \A o \in Polls : ~Holds(o, queue[i].turn)
    BY <1>4, <1>8, <2>1 DEF Whereabouts, ParkedOnce
  <2>2. ASSUME NEW i \in DOMAIN queue, IsTurn(queue[i])
        PROVE  \A o \in Polls : ~(Holds(o, queue[i].turn))'
    <3>1. \A o \in Polls : ~Holds(o, queue[i].turn)
      BY <2>1, <2>2
    <3> QED BY <1>1, <3>1 DEF Holds, TypeOK
  <2>3. \A o \in Polls, u \in Turn : (Holds(o, u))' => u <= counter
    BY <1>5 DEF Whereabouts, ParkedOnce
  <2>4. \A u \in took' : u <= counter
    BY <1>3, <1>4, <1>8 DEF Whereabouts, ParkedOnce
  <2>5. \A i, j \in DOMAIN queue :
          IsTurn(queue[i]) /\ IsTurn(queue[j]) /\ queue[i].turn = queue[j].turn => i = j
    BY DEF Whereabouts, ParkedOnce
  <2> QED BY <1>1, <2>1, <2>2, <2>3, <2>4, <2>5 DEF ParkedOnce
<1>10. Somewhere'
  <2> SUFFICES ASSUME NEW u \in running
               PROVE  \/ u \in took' \cup lost'
                      \/ \E o \in Polls : (Holds(o, u))'
                      \/ \E i \in DOMAIN queue : IsTurn(queue[i]) /\ queue[i].turn = u
    BY <1>1 DEF Somewhere
  <2>1. Holds(p, u) => u \in took' \cup lost'
    BY <1>1, <1>6
  <2>2. took \cup lost \subseteq took' \cup lost'
    BY <1>1
  <2> QED BY <1>5, <2>1, <2>2 DEF Whereabouts, Somewhere
<1> QED BY <1>7, <1>9, <1>10 DEF Whereabouts

\* expire: what stood too long is dropped, and the turns among it end in the same step.
LEMMA QueueExpired ==
  ASSUME TypeOK, Whereabouts, Expire
  PROVE  Whereabouts'
<1> DEFINE kept == DOMAIN queue \ StalePlaces
<1> DEFINE ended == {i \in StalePlaces : IsTurn(queue[i]) /\ queue[i].turn \in running}
<1>1. /\ now = tick /\ tick' = now + Every /\ queue' = Picked(queue, kept)
      /\ running' = running \ {queue[i].turn : i \in ended}
      /\ UNCHANGED <<now, counter, pc, hand, took, lost>>
  BY DEF Expire, calls, seen
<1>2. queue \in Seq(Delivery) /\ kept \in SUBSET DOMAIN queue
  BY DEF TypeOK
<1>3. queue' \in Seq(Delivery)
  BY <1>1, <1>2, PickedInOrder
<1>4. PICK f \in [DOMAIN queue' -> kept] :
        /\ \A k \in DOMAIN queue' : queue'[k] = queue[f[k]]
        /\ \A k, l \in DOMAIN queue' : k < l <=> f[k] < f[l]
        /\ \A i \in kept : \E k \in DOMAIN queue' : f[k] = i
  <2> HIDE DEF kept
  <2> DEFINE r == Picked(queue, kept)
  <2>1. \E f \in [DOMAIN r -> kept] :
          /\ \A k \in DOMAIN r : r[k] = queue[f[k]]
          /\ \A k, l \in DOMAIN r : k < l <=> f[k] < f[l]
          /\ \A i \in kept : \E k \in DOMAIN r : f[k] = i
    BY <1>2, PickedInOrder, Z3
  <2>2. r = queue'
    BY <1>1
  <2> HIDE DEF r
  <2> QED BY <2>1, <2>2
<1>5. /\ Len(queue) \in Nat /\ DOMAIN queue = 1..Len(queue)
      /\ Len(queue') \in Nat /\ DOMAIN queue' = 1..Len(queue')
  BY <1>2, <1>3, LenProperties
<1>6. \A k \in DOMAIN queue' : f[k] \in DOMAIN queue /\ f[k] \notin StalePlaces /\ f[k] \in Int /\ k \in Int
  BY <1>4, <1>5
<1>7. \A i \in DOMAIN queue : queue[i].turn \in Turn /\ queue[i].at \in Int
  BY <1>2, <1>5, ElementOfSeq, DeliveryFields
<1>8. \A i \in DOMAIN queue : i \notin StalePlaces <=> now - Stale <= queue[i].at
  BY <1>7, MailboxAssumption DEF StalePlaces, IsStale, TypeOK
<1>9. \A k, l \in DOMAIN queue' : k = l <=> f[k] = f[l]
  <2>1. \A k, l \in DOMAIN queue' : k = l \/ k < l \/ l < k
    BY <1>6
  <2>2. \A k, l \in DOMAIN queue' : f[k] = f[l] => ~(f[k] < f[l]) /\ ~(f[l] < f[k])
    BY <1>6
  <2> QED BY <1>4, <2>1, <2>2
<1>10. now \in Int /\ tick \in Int /\ Every \in Nat /\ Stale \in Nat
  BY EveryIsPositive, MailboxAssumption DEF TypeOK
<1> HIDE DEF kept
<1>11. InOrder'
  <2>1. tick' - Every <= now /\ now <= tick' /\ tick' - Every - Stale = now - Stale
    BY <1>1, <1>10
  <2>2. \A k \in DOMAIN queue' : queue'[k].at <= now /\ now - Stale <= queue'[k].at
    BY <1>4, <1>6, <1>8 DEF Whereabouts, InOrder
  <2>3. ASSUME NEW k \in DOMAIN queue', NEW l \in DOMAIN queue', k <= l
        PROVE  queue'[k].at <= queue'[l].at
    <3>1. f[k] <= f[l]
      <4>1. k < l \/ k = l
        BY <1>6, <2>3
      <4>2. f[k] < f[l] \/ f[k] = f[l]
        BY <1>4, <4>1
      <4> QED BY <1>6, <4>2
    <3> QED BY <1>4, <1>6, <3>1 DEF Whereabouts, InOrder
  <2> QED BY <1>1, <2>1, <2>2, <2>3 DEF InOrder
<1>12. NoPollSleepsOnMail'
  <2> SUFFICES ASSUME queue = <<>> PROVE queue' = <<>>
    BY <1>1 DEF Whereabouts, NoPollSleepsOnMail
  <2>1. DOMAIN queue = {}
    OBVIOUS
  <2>2. DOMAIN queue' = {}
    BY <1>6, <2>1
  <2>3. ~(Len(queue') \in Nat \ {0})
    BY <1>5, <2>2
  <2> QED BY <1>3, <2>3, EmptySeq
<1>13. ParkedOnce'
  <2>1. \A k, l \in DOMAIN queue' :
          IsTurn(queue'[k]) /\ IsTurn(queue'[l]) /\ queue'[k].turn = queue'[l].turn => k = l
    BY <1>4, <1>6, <1>9 DEF Whereabouts, ParkedOnce
  <2>2. ASSUME NEW k \in DOMAIN queue', IsTurn(queue'[k])
        PROVE  /\ queue'[k].turn \notin took' /\ queue'[k].turn <= counter'
               /\ \A p \in Polls : ~(Holds(p, queue[k].turn))'
    <3>1. queue'[k] = queue[f[k]] /\ f[k] \in DOMAIN queue /\ IsTurn(queue[f[k]])
      BY <1>4, <1>6, <2>2
    <3>2. /\ queue[f[k]].turn \notin took /\ queue[f[k]].turn <= counter
          /\ \A p \in Polls : ~Holds(p, queue[f[k]].turn)
      BY <3>1 DEF Whereabouts, ParkedOnce
    <3>3. \A p \in Polls : ~(Holds(p, queue[k].turn))'
      BY <1>1, <3>1, <3>2 DEF Holds
    <3> QED BY <1>1, <3>1, <3>2, <3>3
  <2>3. \A p \in Polls, t \in Turn : (Holds(p, t))' => t <= counter
    BY <1>1 DEF Whereabouts, ParkedOnce, Holds
  <2>4. \A t \in took : t <= counter
    BY DEF Whereabouts, ParkedOnce
  <2> QED BY <1>1, <2>1, <2>2, <2>3, <2>4 DEF ParkedOnce
<1>14. Somewhere'
  <2> SUFFICES ASSUME NEW t \in running, t \notin {queue[i].turn : i \in ended}
               PROVE  \/ t \in took \cup lost
                      \/ \E p \in Polls : Holds(p, t)'
                      \/ \E k \in DOMAIN queue' : IsTurn(queue'[k]) /\ queue'[k].turn = t
    <3> HIDE DEF ended
    <3> QED BY <1>1 DEF Somewhere
  <2>1. CASE t \in took \cup lost \/ \E p \in Polls : Holds(p, t)
    BY <1>1, <2>1 DEF Holds
  <2>2. CASE \E i \in DOMAIN queue : IsTurn(queue[i]) /\ queue[i].turn = t
    <3>1. PICK i \in DOMAIN queue : IsTurn(queue[i]) /\ queue[i].turn = t
      BY <2>2
    <3>2. i \in kept
      BY <3>1 DEF kept
    <3> QED BY <1>4, <3>1, <3>2
  <2> QED BY <2>1, <2>2 DEF Whereabouts, Somewhere
<1>15. StopFollowsTheTurn'
  <2> SUFFICES ASSUME NEW k \in DOMAIN queue', IsTurn(queue'[k]), queue'[k].turn \notin running'
               PROVE  \E l \in k + 1..Len(queue') :
                        queue'[l].kind = "interrupt" /\ queue'[l].turn = queue'[k].turn
    BY DEF StopFollowsTheTurn
  <2>1. queue'[k] = queue[f[k]] /\ f[k] \in DOMAIN queue /\ f[k] \notin StalePlaces
    BY <1>4, <1>6
  <2>2. queue[f[k]].turn \notin running
    <3>1. \A i \in ended : i \in DOMAIN queue /\ IsTurn(queue[i]) /\ i # f[k]
      BY <2>1 DEF StalePlaces
    <3>2. \A i \in ended : queue[i].turn # queue[f[k]].turn
      BY <2>1, <3>1 DEF Whereabouts, ParkedOnce
    <3> HIDE DEF ended
    <3> QED BY <1>1, <2>1, <3>2
  <2>3. PICK j \in f[k] + 1..Len(queue) :
               queue[j].kind = "interrupt" /\ queue[j].turn = queue[f[k]].turn
    BY <2>1, <2>2 DEF Whereabouts, StopFollowsTheTurn
  <2>4. j \in DOMAIN queue /\ f[k] < j /\ j \in Int
    BY <1>5, <1>6, <2>3
  <2>5. queue[f[k]].at <= queue[j].at
    BY <1>6, <2>1, <2>4 DEF Whereabouts, InOrder
  <2>6. j \notin StalePlaces
    BY <1>7, <1>8, <1>10, <2>1, <2>4, <2>5
  <2>7. PICK l \in DOMAIN queue' : f[l] = j
    BY <1>4, <2>4, <2>6 DEF kept
  <2>8. k < l
    BY <1>4, <2>4, <2>7
  <2>9. l \in k + 1..Len(queue')
    BY <1>5, <1>6, <2>8
  <2> QED BY <1>4, <2>1, <2>3, <2>7, <2>9
<1> QED BY <1>11, <1>12, <1>13, <1>14, <1>15 DEF Whereabouts

\* Where a delivery may be outlasts every step: no call loses or doubles one.
LEMMA NextWhereabouts == TypeOK /\ Whereabouts /\ [Next]_vars => Whereabouts'
<1> SUFFICES ASSUME TypeOK, Whereabouts, [Next]_vars PROVE Whereabouts'
  OBVIOUS
<1>0. now \in Int /\ now <= now /\ now <= tick
  BY DEF TypeOK, Whereabouts, InOrder
<1> USE DEF calls, seen
<1>1. CASE StartTurn
  <2>1. counter' \in Turn
    BY <1>1, MailboxAssumption DEF StartTurn, TypeOK, Turn
  <2>2. /\ Park("turn", counter') /\ UNCHANGED <<now, tick, hand, took, lost>>
        /\ counter' = counter + 1 /\ running' = running \cup {counter'}
    BY <1>1 DEF StartTurn
  <2>3. \A u \in running : u \in running'
    BY <2>2
  <2> QED BY <2>1, <2>2, <2>3, QueueParked
<1>2. ASSUME NEW t \in Turn, Steer(t) PROVE Whereabouts'
  BY <1>2, QueueParked DEF Steer
<1>3. ASSUME NEW t \in Turn, Interrupt(t) PROVE Whereabouts'
  BY <1>3, QueueParked DEF Interrupt
<1>4. CASE Hears
  BY <1>0, <1>4, QueueUntouched DEF Hears
<1>5. ASSUME NEW p \in Polls, Looks(p) PROVE Whereabouts'
  BY <1>5, QueueLooked
<1>6. ASSUME NEW p \in Polls, GivesUp(p) PROVE Whereabouts'
  <2>1. \A o \in Polls : pc'[o] = "waits" => pc[o] = "waits"
    BY <1>6 DEF GivesUp, TypeOK
  <2> QED BY <1>0, <1>6, <2>1, QueueUntouched DEF GivesUp
<1>7. ASSUME NEW p \in Polls, Writes(p) PROVE Whereabouts'
  BY <1>7, QueueWritten
<1>8. ASSUME NEW t \in Turn, Say(t) PROVE Whereabouts'
  BY <1>0, <1>8, QueueUntouched DEF Say
<1>9. ASSUME NEW t \in Turn, PostDone(t) PROVE Whereabouts'
  BY <1>0, <1>9, QueueUntouched DEF PostDone
<1>10. CASE Expire
  BY <1>10, QueueExpired
<1>11. CASE ExpireEmits
  BY <1>0, <1>11, QueueUntouched DEF ExpireEmits
<1>12. ASSUME NEW s \in owed, Emits(s) PROVE Whereabouts'
  BY <1>0, <1>12, QueueUntouched DEF Emits
<1>13. CASE Advance
  <2>1. now' \in Int /\ now <= now' /\ now' <= tick
    BY <1>13 DEF Advance, TypeOK
  <2> QED BY <1>13, <2>1, QueueUntouched DEF Advance
<1>14. CASE UNCHANGED vars
  BY <1>0, <1>14, QueueUntouched DEF vars
<1> QED BY <1>1, <1>2, <1>3, <1>4, <1>5, <1>6, <1>7, <1>8, <1>9, <1>10, <1>11, <1>12,
           <1>13, <1>14 DEF Next, Harness, Client

-----------------------------------------------------------------------------
(* Completions.                                                            *)

\* The turns whose completion is on its way.
Owing == {t \in Turn : OnItsWay(t)}

\* What Interrupt and serveDone have to emit of a turn: a completion of this turn and of no
\* other, alone or behind a word.
LEMMA OwedForms ==
  ASSUME NEW t \in Turn
  PROVE  /\ \A u \in Turn : Contains(<<Done(t)>>, Done(u)) <=> u = t
         /\ \A u \in Turn : Contains(<<Text(t), Done(t)>>, Done(u)) <=> u = t
         /\ Len(<<Done(t)>>) = 1 /\ Head(<<Done(t)>>) = Done(t)
         /\ Len(<<Text(t), Done(t)>>) = 2 /\ Head(<<Text(t), Done(t)>>) = Text(t)
         /\ Tail(<<Text(t), Done(t)>>) = <<Done(t)>>
         /\ \A u \in Turn : Done(u) # Text(t) /\ (Done(u) = Done(t) <=> u = t)
<1>1. \A u \in Turn : Done(u) # Text(t) /\ (Done(u) = Done(t) <=> u = t)
  BY DEF Done, Text
<1>2. \A u \in Turn : Contains(<<Done(t)>>, Done(u)) <=> u = t
  BY <1>1 DEF Contains
<1>3. \A u \in Turn : Contains(<<Text(t), Done(t)>>, Done(u)) <=> u = t
  <2> DEFINE s == <<Text(t), Done(t)>>
  <2>1. Len(s) = 2 /\ s[1] = Text(t) /\ s[2] = Done(t)
    OBVIOUS
  <2>2. \A i \in 1..2 : i = 1 \/ i = 2
    OBVIOUS
  <2> HIDE DEF s
  <2>3. \A u \in Turn : Contains(s, Done(u)) <=> u = t
    BY <1>1, <2>1, <2>2 DEF Contains
  <2> QED BY <2>3 DEF s
<1>4. /\ Len(<<Done(t)>>) = 1 /\ Head(<<Done(t)>>) = Done(t)
      /\ Len(<<Text(t), Done(t)>>) = 2 /\ Head(<<Text(t), Done(t)>>) = Text(t)
  OBVIOUS
<1>5. Tail(<<Text(t), Done(t)>>) = <<Done(t)>>
  OBVIOUS
<1> QED BY <1>1, <1>2, <1>3, <1>4, <1>5

\* emit: of a completion the harness's channel has one more, or it was dropped.
LEMMA EmitTells ==
  ASSUME TypeOK, NEW e \in Event, Emit(e)
  PROVE  \A t \in Turn :
           /\ Contains(events', Done(t)) <=>
                Contains(events, Done(t)) \/ (e = Done(t) /\ Len(events) < EventBuffer)
           /\ OnceIn(events, Done(t)) /\ ~(e = Done(t) /\ Contains(events, Done(t))) =>
                OnceIn(events', Done(t))
<1>1. events \in Seq(Event)
  BY DEF TypeOK
<1>2. CASE Len(events) < EventBuffer
  <2>1. events' = Append(events, e)
    BY <1>2 DEF Emit
  <2> QED BY <1>1, <1>2, <2>1, ContainsOneMore
<1>3. CASE ~(Len(events) < EventBuffer)
  BY <1>3 DEF Emit
<1> QED BY <1>2, <1>3

\* Before the first turn nothing was told.
LEMMA InitTold == Init => ToldOnce
<1> SUFFICES ASSUME Init PROVE ToldOnce
  OBVIOUS
<1>1. owed = {} /\ expiring = <<>> /\ events = <<>> /\ running = {} /\ told = {}
  BY DEF Init
<1>2. \A x : ~Contains(<<>>, x)
  BY DEF Contains
<1>3. \A x : OnceIn(<<>>, x)
  BY DEF OnceIn
<1>4. \A t \in Turn : ~OnItsWay(t)
  BY <1>1, <1>2 DEF OnItsWay
<1> QED BY <1>1, <1>2, <1>3, <1>4 DEF ToldOnce

\* A step that leaves the completions and the turns in flight alone.
LEMMA ToldUntouched ==
  ASSUME ToldOnce, UNCHANGED <<owed, events, expiring, running, told, counter>>
  PROVE  ToldOnce' /\ Owing' = Owing
BY DEF ToldOnce, Owing, OnItsWay

\* StartTurn: nothing was ever said of a turn that was not started.
LEMMA ToldOfStarted ==
  ASSUME TypeOK, ToldOnce, StartTurn
  PROVE  ToldOnce' /\ Owing' = Owing /\ counter' \in Turn
         /\ counter' \notin running \cup Owing \cup told
<1>1. /\ counter' = counter + 1 /\ running' = running \cup {counter'}
      /\ UNCHANGED <<owed, events, expiring, told>>
  BY DEF StartTurn, seen
<1>2. counter \in Int /\ counter' \in Turn /\ counter' > counter
  BY MailboxAssumption DEF StartTurn, TypeOK, Turn
<1>3. \A t \in Turn : (OnItsWay(t))' <=> OnItsWay(t)
  BY <1>1 DEF OnItsWay
<1>4. counter' \notin running \cup told /\ ~OnItsWay(counter')
  BY <1>2 DEF ToldOnce
<1>5. \A t \in Turn : t > counter' => t > counter /\ t # counter'
  BY <1>1, <1>2 DEF Turn
<1>6. ASSUME NEW t \in Turn
      PROVE  (/\ OnItsWay(t) => t \notin running \cup told
              /\ t \in running => t \notin told
              /\ t > counter => t \notin running \cup told /\ ~OnItsWay(t))'
  <2>1. CASE t = counter'
    BY <1>1, <1>3, <1>4, <1>5, <2>1
  <2>2. CASE t # counter'
    BY <1>1, <1>3, <1>5, <2>2 DEF ToldOnce
  <2> QED BY <2>1, <2>2
<1>7. ToldOnce'
  BY <1>1, <1>6 DEF ToldOnce
<1>8. Owing' = Owing /\ counter' \notin Owing
  BY <1>3, <1>4 DEF Owing
<1> QED BY <1>2, <1>4, <1>7, <1>8

\* Interrupt and serveDone: one that held the lock and found the turn in flight, and no one
\* after it, has a completion of this turn to emit.
LEMMA ToldOfEnded ==
  ASSUME TypeOK, ToldOnce, NEW t \in running, NEW s \in {<<Done(t)>>, <<Text(t), Done(t)>>},
         running' = running \ {t}, owed' = owed \cup {s},
         UNCHANGED <<events, expiring, told, counter>>
  PROVE  ToldOnce' /\ Owing' = Owing \cup {t}
<1>1. t \in Turn /\ \A u \in Turn : Contains(s, Done(u)) <=> u = t
  <2>1. t \in Turn
    BY DEF TypeOK
  <2>2. CASE s = <<Done(t)>>
    BY <2>1, <2>2, OwedForms, Zenon
  <2>3. CASE s = <<Text(t), Done(t)>>
    BY <2>1, <2>3, OwedForms, Zenon
  <2> QED BY <2>1, <2>2, <2>3
<1>2. ~OnItsWay(t) /\ t \notin told /\ ~(t > counter)
  BY <1>1 DEF ToldOnce
<1>3. /\ ~Contains(events, Done(t)) /\ ~Contains(expiring, Done(t))
      /\ \A r \in owed : ~Contains(r, Done(t))
  BY <1>2 DEF OnItsWay
<1>4. \A u \in Turn : (OnItsWay(u))' <=> OnItsWay(u) \/ u = t
  BY <1>1 DEF OnItsWay
<1>5. owed' \subseteq {<<Done(u)>> : u \in Turn} \cup {<<Text(u), Done(u)>> : u \in Turn}
  BY <1>1 DEF ToldOnce
<1>6. ASSUME NEW u \in Turn
      PROVE  (/\ ~(Contains(events, Done(u)) /\ Contains(expiring, Done(u)))
              /\ \A q \in owed : Contains(q, Done(u)) =>
                   /\ ~Contains(events, Done(u)) /\ ~Contains(expiring, Done(u))
                   /\ \A r \in owed : Contains(r, Done(u)) => r = q)'
  <2>1. CASE u = t
    BY <1>1, <1>3, <2>1
  <2>2. CASE u # t
    BY <1>1, <2>2 DEF ToldOnce
  <2> QED BY <2>1, <2>2
<1>7. ASSUME NEW u \in Turn
      PROVE  (/\ OnItsWay(u) => u \notin running \cup told
              /\ u \in running => u \notin told
              /\ u > counter => u \notin running \cup told /\ ~OnItsWay(u))'
  BY <1>2, <1>4 DEF ToldOnce
<1>8. \A u \in Turn : (OnceIn(events, Done(u)) /\ OnceIn(expiring, Done(u)))'
  BY DEF ToldOnce
<1>9. ToldOnce'
  BY <1>5, <1>6, <1>7, <1>8 DEF ToldOnce
<1> QED BY <1>1, <1>4, <1>9 DEF Owing

\* followTheSession: what the harness reads is no longer on its way, and was not read before.
LEMMA ToldToHarness ==
  ASSUME TypeOK, ToldOnce, Hears
  PROVE  /\ ToldOnce'
         /\ \/ Owing' = Owing /\ told' = told
            \/ \E t \in Owing : Owing' = Owing \ {t} /\ told' = told \cup {t}
<1> DEFINE e == Head(events)
<1>1. events \in Seq(Event) /\ events # <<>> /\ events' = Tail(events)
      /\ told' = (IF e.kind = "done" THEN told \cup {e.turn} ELSE told)
      /\ UNCHANGED <<counter, running, expiring, owed>>
  BY DEF Hears, TypeOK
<1>2. e \in Event
  BY <1>1, HeadAndTail
<1>3. e.turn \in Turn /\ (e.kind = "done" <=> e = Done(e.turn))
  BY <1>2, EventFields
<1>4. \A t \in Turn : e = Done(t) <=> e.kind = "done" /\ e.turn = t
  BY <1>3 DEF Done
<1>5. \A t \in Turn :
        /\ Contains(events, Done(t)) <=> e = Done(t) \/ Contains(events', Done(t))
        /\ OnceIn(events', Done(t)) /\ ~(e = Done(t) /\ Contains(events', Done(t)))
  <2>1. ASSUME NEW x
        PROVE  /\ Contains(events, x) <=> Head(events) = x \/ Contains(Tail(events), x)
               /\ OnceIn(events, x) => /\ OnceIn(Tail(events), x)
                                       /\ ~(Head(events) = x /\ Contains(Tail(events), x))
    <3>1. events \in Seq(Event) /\ events # <<>>
      BY <1>1
    <3> QED BY <3>1, ContainsTail
  <2> QED BY <1>1, <2>1 DEF ToldOnce
<1> HIDE DEF e
<1>6. \A t \in Turn : t \in told' <=> t \in told \/ e = Done(t)
  BY <1>1, <1>4
<1>7. \A t \in Turn : (OnItsWay(t))' <=> OnItsWay(t) /\ e # Done(t)
  <2> SUFFICES ASSUME NEW t \in Turn PROVE (OnItsWay(t))' <=> OnItsWay(t) /\ e # Done(t)
    OBVIOUS
  <2>1. OnItsWay(t) <=> \/ Contains(events, Done(t)) \/ Contains(expiring, Done(t))
                        \/ \E s \in owed : Contains(s, Done(t))
    BY DEF OnItsWay
  <2>2. (OnItsWay(t))' <=> \/ Contains(events', Done(t)) \/ Contains(expiring, Done(t))
                           \/ \E s \in owed : Contains(s, Done(t))
    BY <1>1 DEF OnItsWay
  <2>3. Contains(events, Done(t)) =>
          ~Contains(expiring, Done(t)) /\ \A s \in owed : ~Contains(s, Done(t))
    BY DEF ToldOnce
  <2> QED BY <1>5, <2>1, <2>2, <2>3
<1>8. ASSUME NEW t \in Turn
      PROVE  (/\ ~(Contains(events, Done(t)) /\ Contains(expiring, Done(t)))
              /\ \A q \in owed : Contains(q, Done(t)) =>
                   /\ ~Contains(events, Done(t)) /\ ~Contains(expiring, Done(t))
                   /\ \A r \in owed : Contains(r, Done(t)) => r = q)'
  BY <1>1, <1>5 DEF ToldOnce
<1>9. ASSUME NEW t \in Turn
      PROVE  (/\ OnItsWay(t) => t \notin running \cup told
              /\ t \in running => t \notin told
              /\ t > counter => t \notin running \cup told /\ ~OnItsWay(t))'
  <2>1. e = Done(t) => OnItsWay(t)
    BY <1>5 DEF OnItsWay
  <2> QED BY <1>1, <1>6, <1>7, <2>1 DEF ToldOnce
<1>10. ToldOnce'
  BY <1>1, <1>5, <1>8, <1>9 DEF ToldOnce
<1>11. CASE e.kind = "done"
  <2>1. e.turn \in Owing
    BY <1>3, <1>5, <1>11 DEF Owing, OnItsWay
  <2>2. Owing' = Owing \ {e.turn}
    BY <1>4, <1>7, <1>11 DEF Owing
  <2>3. told' = told \cup {e.turn}
    BY <1>1, <1>11 DEF e
  <2> QED BY <1>10, <2>1, <2>2, <2>3
<1>12. CASE e.kind # "done"
  <2>1. Owing' = Owing
    BY <1>4, <1>7, <1>12 DEF Owing
  <2>2. told' = told
    BY <1>1, <1>12 DEF e
  <2> QED BY <1>10, <2>1, <2>2
<1> QED BY <1>11, <1>12

\* A completion that was dropped, or none.
Loses(t) == Owing' = Owing \ {t}

\* expire after the lock: an event passes into the harness's channel or is dropped.
LEMMA ToldByExpire ==
  ASSUME TypeOK, ToldOnce, ExpireEmits
  PROVE  ToldOnce' /\ (Owing' = Owing \/ \E t \in Owing : Loses(t))
<1> DEFINE e == Head(expiring)
<1>1. /\ expiring \in Seq(Event) /\ expiring # <<>> /\ expiring' = Tail(expiring) /\ Emit(e)
      /\ UNCHANGED <<counter, running, owed, told>>
  BY DEF ExpireEmits, TypeOK, seen
<1>2. e \in Event
  BY <1>1, HeadAndTail
<1>3. \A t \in Turn :
        /\ Contains(events', Done(t)) <=>
             Contains(events, Done(t)) \/ (e = Done(t) /\ Len(events) < EventBuffer)
        /\ OnceIn(events, Done(t)) /\ ~(e = Done(t) /\ Contains(events, Done(t))) =>
             OnceIn(events', Done(t))
  BY <1>1, <1>2, EmitTells
<1>4. \A t \in Turn :
        /\ Contains(expiring, Done(t)) <=> e = Done(t) \/ Contains(expiring', Done(t))
        /\ OnceIn(expiring', Done(t)) /\ ~(e = Done(t) /\ Contains(expiring', Done(t)))
  <2>1. ASSUME NEW x
        PROVE  /\ Contains(expiring, x) <=> Head(expiring) = x \/ Contains(Tail(expiring), x)
               /\ OnceIn(expiring, x) => /\ OnceIn(Tail(expiring), x)
                                         /\ ~(Head(expiring) = x /\ Contains(Tail(expiring), x))
    <3>1. expiring \in Seq(Event) /\ expiring # <<>>
      BY <1>1
    <3> QED BY <3>1, ContainsTail
  <2> QED BY <1>1, <2>1 DEF ToldOnce
<1> HIDE DEF e
<1>5. ASSUME NEW t \in Turn
      PROVE  /\ OnceIn(events', Done(t))
             /\ ~(Contains(events', Done(t)) /\ Contains(expiring', Done(t)))
             /\ Contains(events', Done(t)) \/ Contains(expiring', Done(t)) =>
                  Contains(events, Done(t)) \/ Contains(expiring, Done(t))
  BY <1>3, <1>4 DEF ToldOnce
<1>6. ASSUME NEW t \in Turn
      PROVE  (/\ ~(Contains(events, Done(t)) /\ Contains(expiring, Done(t)))
              /\ \A q \in owed : Contains(q, Done(t)) =>
                   /\ ~Contains(events, Done(t)) /\ ~Contains(expiring, Done(t))
                   /\ \A r \in owed : Contains(r, Done(t)) => r = q)'
  BY <1>1, <1>5 DEF ToldOnce
<1>7. \A t \in Turn : (OnItsWay(t))' <=> OnItsWay(t) /\ ~(e = Done(t) /\ ~(Len(events) < EventBuffer))
  <2> SUFFICES ASSUME NEW t \in Turn
               PROVE  (OnItsWay(t))' <=>
                        OnItsWay(t) /\ ~(e = Done(t) /\ ~(Len(events) < EventBuffer))
    OBVIOUS
  <2>1. OnItsWay(t) <=> \/ Contains(events, Done(t)) \/ Contains(expiring, Done(t))
                        \/ \E s \in owed : Contains(s, Done(t))
    BY DEF OnItsWay
  <2>2. (OnItsWay(t))' <=> \/ Contains(events', Done(t)) \/ Contains(expiring', Done(t))
                           \/ \E s \in owed : Contains(s, Done(t))
    BY <1>1 DEF OnItsWay
  <2>3. Contains(expiring, Done(t)) =>
          ~Contains(events, Done(t)) /\ \A s \in owed : ~Contains(s, Done(t))
    BY DEF ToldOnce
  <2> QED BY <1>3, <1>4, <2>1, <2>2, <2>3
<1>8. ASSUME NEW t \in Turn
      PROVE  (/\ OnItsWay(t) => t \notin running \cup told
              /\ t \in running => t \notin told
              /\ t > counter => t \notin running \cup told /\ ~OnItsWay(t))'
  BY <1>1, <1>7 DEF ToldOnce
<1>9. ToldOnce'
  BY <1>1, <1>4, <1>5, <1>6, <1>8 DEF ToldOnce
<1>10. CASE e.kind = "done" /\ ~(Len(events) < EventBuffer)
  <2>1. e.turn \in Turn /\ e = Done(e.turn) /\ \A t \in Turn : e = Done(t) <=> t = e.turn
    BY <1>2, <1>10, EventFields DEF Done
  <2>2. e.turn \in Owing
    BY <1>4, <2>1 DEF Owing, OnItsWay
  <2>3. Loses(e.turn)
    BY <1>7, <1>10, <2>1 DEF Owing, Loses
  <2> QED BY <1>9, <2>2, <2>3
<1>11. CASE ~(e.kind = "done" /\ ~(Len(events) < EventBuffer))
  <2>1. \A t \in Turn : (OnItsWay(t))' <=> OnItsWay(t)
    BY <1>7, <1>11 DEF Done
  <2> QED BY <1>9, <2>1 DEF Owing
<1> QED BY <1>10, <1>11

\* serveSay: a word is no completion.
LEMMA ToldBySay ==
  ASSUME TypeOK, ToldOnce, NEW t \in Turn, Say(t)
  PROVE  ToldOnce' /\ Owing' = Owing
<1>1. Text(t) \in Event /\ Emit(Text(t))
      /\ UNCHANGED <<counter, running, expiring, owed, told>>
  BY EventTypes DEF Say, seen
<1>2. \A u \in Turn : Done(u) # Text(t)
  BY OwedForms
<1>3. \A u \in Turn :
        /\ Contains(events', Done(u)) <=> Contains(events, Done(u))
        /\ OnceIn(events', Done(u))
  BY <1>1, <1>2, EmitTells DEF ToldOnce
<1>4. \A u \in Turn : (OnItsWay(u))' <=> OnItsWay(u)
  BY <1>1, <1>3 DEF OnItsWay
<1>5. ToldOnce'
  BY <1>1, <1>3, <1>4 DEF ToldOnce
<1> QED BY <1>4, <1>5 DEF Owing

\* Interrupt and serveDone after the lock, one event at a time.
LEMMA ToldByOthers ==
  ASSUME TypeOK, ToldOnce, NEW s \in owed, Emits(s)
  PROVE  ToldOnce' /\ (Owing' = Owing \/ \E t \in Owing : Loses(t))
<1>1. /\ Emit(Head(s)) /\ owed' = (owed \ {s}) \cup (IF Len(s) > 1 THEN {Tail(s)} ELSE {})
      /\ UNCHANGED <<counter, running, expiring, told>>
  BY DEF Emits, seen
<1>2. PICK t \in Turn : s = <<Done(t)>> \/ s = <<Text(t), Done(t)>>
  BY DEF ToldOnce
<1>3. Contains(s, Done(t)) /\ \A u \in Turn : Contains(s, Done(u)) => u = t
  <2>1. \A u \in Turn : /\ Contains(<<Done(t)>>, Done(u)) <=> u = t
                        /\ Contains(<<Text(t), Done(t)>>, Done(u)) <=> u = t
    BY OwedForms, Zenon
  <2>2. CASE s = <<Done(t)>>
    BY <2>1, <2>2, Zenon
  <2>3. CASE s = <<Text(t), Done(t)>>
    BY <2>1, <2>3, Zenon
  <2> QED BY <1>2, <2>2, <2>3
<1>4. /\ ~Contains(events, Done(t)) /\ ~Contains(expiring, Done(t))
      /\ \A r \in owed : Contains(r, Done(t)) => r = s
  BY <1>3 DEF ToldOnce
<1>5. CASE s = <<Text(t), Done(t)>>
  <2> DEFINE new == <<Done(t)>>
  <2>1. Head(s) = Text(t) /\ Len(s) = 2 /\ Tail(s) = new
    BY <1>5, OwedForms, Zenon
  <2>2. owed' = (owed \ {s}) \cup {new}
    <3>1. Len(s) > 1 /\ Tail(s) = new
      BY <2>1
    <3> HIDE DEF new
    <3> QED BY <1>1, <3>1, Zenon
  <2>3. \A u \in Turn : Contains(new, Done(u)) <=> u = t
    BY OwedForms, Zenon
  <2>4. \A u \in Turn : Done(u) # Text(t)
    BY OwedForms, Zenon
  <2>5. new \in {<<Done(u)>> : u \in Turn}
    OBVIOUS
  <2>6. Text(t) \in Event /\ Emit(Text(t))
    BY <1>1, <2>1, EventTypes
  <2> HIDE DEF new
  <2>7. \A u \in Turn :
          /\ Contains(events', Done(u)) <=> Contains(events, Done(u))
          /\ OnceIn(events', Done(u))
    BY <2>4, <2>6, EmitTells DEF ToldOnce
  <2>8. \A u \in Turn :
          (\E r \in owed' : Contains(r, Done(u))) <=> \E r \in owed : Contains(r, Done(u))
    BY <1>3, <1>4, <2>2, <2>3
  <2>9. \A u \in Turn : (OnItsWay(u))' <=> OnItsWay(u)
    BY <1>1, <2>7, <2>8 DEF OnItsWay
  <2>10. owed' \subseteq {<<Done(u)>> : u \in Turn} \cup {<<Text(u), Done(u)>> : u \in Turn}
    BY <2>2, <2>5 DEF ToldOnce
  <2>11. ASSUME NEW u \in Turn
         PROVE  (/\ ~(Contains(events, Done(u)) /\ Contains(expiring, Done(u)))
                 /\ \A q \in owed : Contains(q, Done(u)) =>
                      /\ ~Contains(events, Done(u)) /\ ~Contains(expiring, Done(u))
                      /\ \A r \in owed : Contains(r, Done(u)) => r = q)'
    <3>1. CASE u = t
      BY <1>1, <1>4, <2>2, <2>7, <3>1
    <3>2. CASE u # t
      BY <1>1, <2>2, <2>3, <2>7, <3>2 DEF ToldOnce
    <3> QED BY <3>1, <3>2
  <2>12. ToldOnce'
    BY <1>1, <2>7, <2>9, <2>10, <2>11 DEF ToldOnce
  <2> QED BY <2>9, <2>12 DEF Owing
<1>6. CASE s = <<Done(t)>>
  <2>1. Head(s) = Done(t) /\ ~(Len(s) > 1)
    <3>1. Head(s) = Done(t) /\ Len(s) = 1
      BY <1>6, OwedForms, Zenon
    <3> QED BY <3>1
  <2>2. owed' = owed \ {s}
    BY <1>1, <2>1
  <2>3. Done(t) \in Event /\ Emit(Done(t))
    BY <1>1, <2>1, EventTypes
  <2>4. \A u \in Turn : Done(u) = Done(t) <=> u = t
    BY OwedForms, Zenon
  <2>5. \A u \in Turn :
          /\ Contains(events', Done(u)) <=>
               Contains(events, Done(u)) \/ (u = t /\ Len(events) < EventBuffer)
          /\ OnceIn(events', Done(u))
    BY <1>4, <2>3, <2>4, EmitTells DEF ToldOnce
  <2>6. \A u \in Turn :
          (\E r \in owed' : Contains(r, Done(u))) <=> u # t /\ \E r \in owed : Contains(r, Done(u))
    BY <1>3, <1>4, <2>2
  <2>7. \A u \in Turn : (OnItsWay(u))' <=> OnItsWay(u) /\ (u = t => Len(events) < EventBuffer)
    <3> SUFFICES ASSUME NEW u \in Turn
                 PROVE  (OnItsWay(u))' <=> OnItsWay(u) /\ (u = t => Len(events) < EventBuffer)
      OBVIOUS
    <3>1. OnItsWay(u) <=> \/ Contains(events, Done(u)) \/ Contains(expiring, Done(u))
                          \/ \E r \in owed : Contains(r, Done(u))
      BY DEF OnItsWay
    <3>2. (OnItsWay(u))' <=> \/ Contains(events', Done(u)) \/ Contains(expiring, Done(u))
                             \/ \E r \in owed' : Contains(r, Done(u))
      BY <1>1 DEF OnItsWay
    <3> QED BY <1>3, <1>4, <2>5, <2>6, <3>1, <3>2
  <2>8. ASSUME NEW u \in Turn
        PROVE  (/\ ~(Contains(events, Done(u)) /\ Contains(expiring, Done(u)))
                /\ \A q \in owed : Contains(q, Done(u)) =>
                     /\ ~Contains(events, Done(u)) /\ ~Contains(expiring, Done(u))
                     /\ \A r \in owed : Contains(r, Done(u)) => r = q)'
    <3>1. CASE u = t
      BY <1>1, <1>4, <2>2, <3>1
    <3>2. CASE u # t
      BY <1>1, <2>2, <2>5, <3>2 DEF ToldOnce
    <3> QED BY <3>1, <3>2
  <2>9. ASSUME NEW u \in Turn
        PROVE  (/\ OnItsWay(u) => u \notin running \cup told
                /\ u \in running => u \notin told
                /\ u > counter => u \notin running \cup told /\ ~OnItsWay(u))'
    BY <1>1, <2>7 DEF ToldOnce
  <2>10. owed' \subseteq {<<Done(u)>> : u \in Turn} \cup {<<Text(u), Done(u)>> : u \in Turn}
    BY <2>2 DEF ToldOnce
  <2>11. ToldOnce'
    BY <1>1, <2>5, <2>8, <2>9, <2>10 DEF ToldOnce
  <2>12. CASE Len(events) < EventBuffer
    BY <2>7, <2>11, <2>12 DEF Owing
  <2>13. CASE ~(Len(events) < EventBuffer)
    <3>1. t \in Owing
      BY <1>3 DEF Owing, OnItsWay
    <3>2. Loses(t)
      BY <2>7, <2>13 DEF Owing, Loses
    <3> QED BY <2>11, <3>1, <3>2
  <2> QED BY <2>12, <2>13
<1> QED BY <1>2, <1>5, <1>6

\* expire under the lock: of each turn that ended and of no other it has one completion to
\* emit, in the order in which the turns were parked.
LEMMA ToldOfExpired ==
  ASSUME TypeOK, Whereabouts, ToldOnce, Expire
  PROVE  ToldOnce' /\ running \ running' \subseteq Turn /\ running' \subseteq running
         /\ Owing' = Owing \cup (running \ running')
<1> DEFINE ended == {i \in StalePlaces : IsTurn(queue[i]) /\ queue[i].turn \in running}
<1> DEFINE ts == {queue[i].turn : i \in ended}
<1> DEFINE r == Picked(queue, ended)
<1>1. /\ expiring = <<>> /\ expiring' = Closings(r) /\ running' = running \ ts
      /\ UNCHANGED <<counter, events, owed, told>>
  BY DEF Expire, calls, seen
<1>2. queue \in Seq(Delivery) /\ ended \in SUBSET DOMAIN queue
  BY DEF TypeOK, StalePlaces
<1>3. ts \subseteq running /\ ts \subseteq Turn
  BY DEF TypeOK
<1>4. \A i, j \in ended : queue[i].turn = queue[j].turn => i = j
  BY <1>2 DEF Whereabouts, ParkedOnce
<1>5. r \in Seq(Delivery)
  <2> HIDE DEF ended
  <2> QED BY <1>2, PickedInOrder
<1>6. \E f \in [DOMAIN r -> ended] :
        /\ \A k \in DOMAIN r : r[k] = queue[f[k]]
        /\ \A k, l \in DOMAIN r : k < l <=> f[k] < f[l]
        /\ \A i \in ended : \E k \in DOMAIN r : f[k] = i
  <2> HIDE DEF ended
  <2> QED BY <1>2, PickedInOrder, Z3
<1>7. /\ Len(r) \in Nat /\ DOMAIN r = 1..Len(r) /\ DOMAIN expiring' = 1..2 * Len(r)
      /\ Len(expiring') \in Nat /\ DOMAIN expiring' = 1..Len(expiring')
  <2> HIDE DEF r
  <2>1. Closings(r) \in Seq(Event) /\ DOMAIN Closings(r) = 1..2 * Len(r)
    BY <1>5, ClosingsType
  <2> QED BY <1>1, <1>5, <2>1, LenProperties
<1>8. \A i \in DOMAIN expiring' :
        /\ (i + 1) \div 2 \in DOMAIN r
        /\ expiring'[i] = IF i % 2 = 1 THEN Text(r[(i + 1) \div 2].turn)
                                       ELSE Done(r[(i + 1) \div 2].turn)
  <2> HIDE DEF r
  <2> QED BY <1>1, <1>5, ClosingsType
<1> HIDE DEF r
<1>9. PICK f \in [DOMAIN r -> ended] :
        /\ \A k \in DOMAIN r : r[k] = queue[f[k]]
        /\ \A k, l \in DOMAIN r : k < l <=> f[k] < f[l]
        /\ \A i \in ended : \E k \in DOMAIN r : f[k] = i
  BY <1>6
<1>10. \A k \in DOMAIN r : f[k] \in ended /\ f[k] \in Int /\ k \in Int /\ r[k].turn = queue[f[k]].turn
  <2>1. \A i \in DOMAIN queue : i \in Int
    BY <1>2, LenProperties
  <2> HIDE DEF ended
  <2> QED BY <1>2, <1>7, <1>9, <2>1
<1>11. \A k, l \in DOMAIN r : r[k].turn = r[l].turn => k = l
  <2> SUFFICES ASSUME NEW k \in DOMAIN r, NEW l \in DOMAIN r, r[k].turn = r[l].turn
               PROVE  k = l
    OBVIOUS
  <2>1. f[k] = f[l]
    BY <1>4, <1>10
  <2>2. ~(f[k] < f[l]) /\ ~(f[l] < f[k])
    BY <1>10, <2>1
  <2>3. ~(k < l) /\ ~(l < k)
    BY <1>9, <2>2
  <2> QED BY <1>10, <2>3
<1>12. \A k \in DOMAIN r : r[k].turn \in ts
  BY <1>10
<1>13. \A t \in ts : \E k \in DOMAIN r : r[k].turn = t
  BY <1>9, <1>10
<1> HIDE DEF ts, ended
<1>14. ASSUME NEW t \in Turn, NEW i \in DOMAIN expiring', expiring'[i] = Done(t)
       PROVE  /\ i \in Int /\ i = 2 * ((i + 1) \div 2)
              /\ (i + 1) \div 2 \in DOMAIN r /\ r[(i + 1) \div 2].turn = t
  <2>1. i \in Int
    BY <1>7
  <2>2. \A u : Text(u) # Done(t) /\ (Done(u) = Done(t) => u = t)
    BY DEF Text, Done
  <2>3. i % 2 # 1 /\ expiring'[i] = Done(r[(i + 1) \div 2].turn)
    BY <1>8, <1>14, <2>2
  <2>4. i = 2 * ((i + 1) \div 2)
    BY <2>1, <2>3
  <2>5. (i + 1) \div 2 \in DOMAIN r
    BY <1>8
  <2>6. Done(r[(i + 1) \div 2].turn) = Done(t)
    BY <1>14, <2>3, Zenon
  <2>7. r[(i + 1) \div 2].turn = t
    BY <2>2, <2>6, Zenon
  <2> QED BY <2>1, <2>4, <2>5, <2>7
<1>15. \A t \in Turn : Contains(expiring', Done(t)) <=> t \in ts
  <2>1. ASSUME NEW t \in Turn, Contains(expiring', Done(t)) PROVE t \in ts
    <3>1. PICK i \in DOMAIN expiring' : expiring'[i] = Done(t)
      BY <1>7, <2>1 DEF Contains
    <3> QED BY <1>12, <1>14, <3>1
  <2>2. ASSUME NEW t \in ts PROVE Contains(expiring', Done(t))
    <3>1. PICK k \in DOMAIN r : r[k].turn = t
      BY <1>13
    <3>2. 2 * k \in DOMAIN expiring' /\ (2 * k + 1) \div 2 = k /\ (2 * k) % 2 = 0
      BY <1>7
    <3>3. expiring'[2 * k] = Done(t)
      BY <1>8, <3>1, <3>2
    <3>4. 2 * k \in 1..Len(expiring')
      BY <1>7, <3>2
    <3> QED BY <3>3, <3>4 DEF Contains
  <2> QED BY <2>1, <2>2
<1>16. \A t \in Turn : OnceIn(expiring', Done(t))
  <2> SUFFICES ASSUME NEW t \in Turn, NEW i \in DOMAIN expiring', NEW j \in DOMAIN expiring',
                      expiring'[i] = Done(t), expiring'[j] = Done(t)
               PROVE  i = j
    BY DEF OnceIn
  <2>1. i = 2 * ((i + 1) \div 2) /\ j = 2 * ((j + 1) \div 2)
    BY <1>14
  <2>2. PICK k \in DOMAIN r : k = (i + 1) \div 2 /\ r[k].turn = t
    BY <1>14
  <2>3. PICK l \in DOMAIN r : l = (j + 1) \div 2 /\ r[l].turn = t
    BY <1>14
  <2>4. k = l
    <3>1. r[k].turn = r[l].turn
      BY <2>2, <2>3, Zenon
    <3> QED BY <1>11, <3>1, Zenon
  <2> QED BY <2>1, <2>2, <2>3, <2>4
<1>17. \A t \in Turn : ~Contains(expiring, Done(t))
  BY <1>1 DEF Contains
<1>18. \A t \in ts : ~OnItsWay(t) /\ t \notin told /\ ~(t > counter)
  BY <1>3 DEF ToldOnce
<1>19. \A t \in ts : ~Contains(events, Done(t)) /\ \A s \in owed : ~Contains(s, Done(t))
  BY <1>18 DEF OnItsWay
<1>20. \A t \in Turn : (OnItsWay(t))' <=> OnItsWay(t) \/ t \in ts
  <2> SUFFICES ASSUME NEW t \in Turn PROVE (OnItsWay(t))' <=> OnItsWay(t) \/ t \in ts
    OBVIOUS
  <2>1. OnItsWay(t) <=> \/ Contains(events, Done(t)) \/ Contains(expiring, Done(t))
                        \/ \E s \in owed : Contains(s, Done(t))
    BY DEF OnItsWay
  <2>2. (OnItsWay(t))' <=> \/ Contains(events, Done(t)) \/ Contains(expiring', Done(t))
                           \/ \E s \in owed : Contains(s, Done(t))
    BY <1>1 DEF OnItsWay
  <2> QED BY <1>15, <1>17, <2>1, <2>2
<1>21. ASSUME NEW t \in Turn
       PROVE  (/\ ~(Contains(events, Done(t)) /\ Contains(expiring, Done(t)))
               /\ \A q \in owed : Contains(q, Done(t)) =>
                    /\ ~Contains(events, Done(t)) /\ ~Contains(expiring, Done(t))
                    /\ \A s \in owed : Contains(s, Done(t)) => s = q)'
  BY <1>1, <1>15, <1>19 DEF ToldOnce
<1>22. ASSUME NEW t \in Turn
       PROVE  (/\ OnItsWay(t) => t \notin running \cup told
               /\ t \in running => t \notin told
               /\ t > counter => t \notin running \cup told /\ ~OnItsWay(t))'
  BY <1>1, <1>18, <1>20 DEF ToldOnce
<1>23. ToldOnce'
  BY <1>1, <1>16, <1>21, <1>22 DEF ToldOnce
<1>24. running \ running' = ts
  BY <1>1, <1>3
<1> QED BY <1>1, <1>3, <1>20, <1>23, <1>24 DEF Owing

\* What a step of the mailbox is to the harness: a turn starts, some end, a completion is
\* read, one is lost, or nothing happened.
AsConversation ==
  \/ \E t \in Turn : /\ t \notin running \cup Owing \cup told
                     /\ running' = running \cup {t} /\ Owing' = Owing /\ told' = told
  \/ \E ts \in SUBSET running : /\ running' = running \ ts
                                /\ Owing' = Owing \cup ts /\ told' = told
  \/ \E t \in Owing : Owing' = Owing \ {t} /\ told' = told \cup {t} /\ running' = running
  \/ \E t \in Owing : Owing' = Owing \ {t} /\ UNCHANGED <<running, told>>
  \/ Owing' = Owing /\ UNCHANGED <<running, told>>

\* Every step keeps what was told of a turn, and is one of a conversation.
LEMMA NextTold ==
  ASSUME TypeOK, Whereabouts, ToldOnce, [Next]_vars
  PROVE  ToldOnce' /\ AsConversation
<1> USE DEF calls, seen
<1>1. CASE StartTurn
  <2>1. ToldOnce' /\ Owing' = Owing /\ counter' \in Turn
        /\ counter' \notin running \cup Owing \cup told
    BY <1>1, ToldOfStarted
  <2>2. running' = running \cup {counter'} /\ told' = told
    BY <1>1 DEF StartTurn
  <2> QED BY <2>1, <2>2 DEF AsConversation
<1>2. ASSUME NEW t \in Turn, Steer(t) PROVE ToldOnce' /\ AsConversation
  BY <1>2, ToldUntouched DEF Steer, AsConversation
<1>3. ASSUME NEW t \in Turn, Interrupt(t) PROVE ToldOnce' /\ AsConversation
  <2>1. /\ t \in running /\ running' = running \ {t} /\ owed' = owed \cup {<<Done(t)>>}
        /\ UNCHANGED <<events, expiring, told, counter>>
    BY <1>3 DEF Interrupt
  <2>2. ToldOnce' /\ Owing' = Owing \cup {t}
    BY <2>1, ToldOfEnded
  <2> QED BY <2>1, <2>2 DEF AsConversation
<1>4. CASE Hears
  <2>1. UNCHANGED running
    BY <1>4 DEF Hears
  <2>2. /\ ToldOnce'
        /\ \/ Owing' = Owing /\ told' = told
           \/ \E t \in Owing : Owing' = Owing \ {t} /\ told' = told \cup {t}
    BY <1>4, ToldToHarness
  <2> QED BY <2>1, <2>2 DEF AsConversation
<1>5. ASSUME NEW p \in Polls, Looks(p) PROVE ToldOnce' /\ AsConversation
  BY <1>5, ToldUntouched DEF Looks, AsConversation
<1>6. ASSUME NEW p \in Polls, GivesUp(p) PROVE ToldOnce' /\ AsConversation
  BY <1>6, ToldUntouched DEF GivesUp, AsConversation
<1>7. ASSUME NEW p \in Polls, Writes(p) PROVE ToldOnce' /\ AsConversation
  BY <1>7, ToldUntouched DEF Writes, AsConversation
<1>8. ASSUME NEW t \in Turn, Say(t) PROVE ToldOnce' /\ AsConversation
  BY <1>8, ToldBySay DEF Say, AsConversation
<1>9. ASSUME NEW t \in Turn, PostDone(t) PROVE ToldOnce' /\ AsConversation
  <2>1. /\ t \in running /\ running' = running \ {t}
        /\ UNCHANGED <<events, expiring, told, counter>>
    BY <1>9 DEF PostDone
  <2>2. PICK s \in {<<Done(t)>>, <<Text(t), Done(t)>>} : owed' = owed \cup {s}
    BY <1>9 DEF PostDone
  <2>3. ToldOnce' /\ Owing' = Owing \cup {t}
    BY <2>1, <2>2, ToldOfEnded
  <2> QED BY <2>1, <2>3 DEF AsConversation
<1>10. CASE Expire
  <2>1. /\ ToldOnce' /\ running' \subseteq running
        /\ Owing' = Owing \cup (running \ running')
    BY <1>10, ToldOfExpired
  <2>2. told' = told
    BY <1>10 DEF Expire
  <2>3. running \ running' \in SUBSET running /\ running' = running \ (running \ running')
    BY <2>1
  <2> QED BY <2>1, <2>2, <2>3 DEF AsConversation
<1>11. CASE ExpireEmits
  <2>1. ToldOnce' /\ (Owing' = Owing \/ \E t \in Owing : Loses(t))
    BY <1>11, ToldByExpire
  <2> QED BY <1>11, <2>1 DEF ExpireEmits, AsConversation, Loses
<1>12. ASSUME NEW s \in owed, Emits(s) PROVE ToldOnce' /\ AsConversation
  <2>1. ToldOnce' /\ (Owing' = Owing \/ \E t \in Owing : Loses(t))
    BY <1>12, ToldByOthers
  <2> QED BY <1>12, <2>1 DEF Emits, AsConversation, Loses
<1>13. CASE Advance
  BY <1>13, ToldUntouched DEF Advance, AsConversation
<1>14. CASE UNCHANGED vars
  BY <1>14, ToldUntouched DEF vars, AsConversation
<1> QED BY <1>1, <1>2, <1>3, <1>4, <1>5, <1>6, <1>7, <1>8, <1>9, <1>10, <1>11, <1>12,
           <1>13, <1>14 DEF Next, Harness, Client

-----------------------------------------------------------------------------
(* Theorems.                                                               *)

\* The invariant: a delivery is in one place, in the order of the moments; a turn in flight
\* is somewhere; a completion is told once.
THEOREM Invariant == Spec => []MailboxInv
<1>1. Init => TypeOK /\ Whereabouts /\ ToldOnce
  BY InitType, InitWhereabouts, InitTold
<1>2. TypeOK /\ Whereabouts /\ ToldOnce /\ [Next]_vars => (TypeOK /\ Whereabouts /\ ToldOnce)'
  BY NextType, NextWhereabouts, NextTold
<1>3. TypeOK /\ Whereabouts /\ ToldOnce => MailboxInv
  BY DEF MailboxInv, Whereabouts
<1> QED BY <1>1, <1>2, <1>3, PTL DEF Spec

\* mailbox.go keeps its types whatever the calls and their order; the queue and the channel
\* to the harness stay within their bounds.
THEOREM Typed == Spec => []TypeOK
<1>1. MailboxInv => TypeOK
  BY DEF MailboxInv
<1> QED BY <1>1, Invariant, PTL

\* A turn in flight waits for no longer than Stale and one period of Run, or it is in the
\* hand of a poll, with the client, or its handing over failed (Run, expire).
THEOREM UnclaimedClosed == Spec => []UnclaimedIsClosed
<1>1. MailboxInv => UnclaimedIsClosed
  <2> SUFFICES ASSUME MailboxInv, NEW t \in running
               PROVE  \/ t \in took \cup lost
                      \/ \E p \in Polls : Holds(p, t)
                      \/ \E i \in DOMAIN queue : /\ IsTurn(queue[i]) /\ queue[i].turn = t
                                                 /\ now - queue[i].at <= Stale + Every
    BY DEF UnclaimedIsClosed
  <2>1. \A i \in DOMAIN queue : now - queue[i].at <= Stale + Every
    <3> SUFFICES ASSUME NEW i \in DOMAIN queue PROVE now - queue[i].at <= Stale + Every
      OBVIOUS
    <3>1. queue[i].at \in Int
      BY ElementOfSeq, DeliveryFields, LenProperties DEF MailboxInv, TypeOK
    <3>2. now \in Int /\ tick \in Int /\ Every \in Int /\ Stale \in Int
      BY EveryIsPositive, MailboxAssumption DEF MailboxInv, TypeOK
    <3>3. now <= tick /\ tick - Every - Stale <= queue[i].at
      BY DEF MailboxInv, InOrder
    <3> QED BY <3>1, <3>2, <3>3
  <2> QED BY <2>1 DEF MailboxInv, Somewhere
<1> QED BY <1>1, Invariant, PTL

\* A turn that ended while it waited is handed over with the request to stop behind it
\* (Interrupt leaves the delivery where it is; expire never parts the two).
THEOREM StopFollows == Spec => []StopFollowsTheTurn
<1>1. MailboxInv => StopFollowsTheTurn
  BY DEF MailboxInv
<1> QED BY <1>1, Invariant, PTL

\* No poll is held open beside a delivery (park closes `arrived` under the lock under which
\* next looks and reads it).
THEOREM NoPollSleeps == Spec => []NoPollSleepsOnMail
<1>1. MailboxInv => NoPollSleepsOnMail
  BY DEF MailboxInv
<1> QED BY <1>1, Invariant, PTL

\* The mailbox implements Conversation: however a turn ends, and by however many of the
\* ways at once, it ends once and the harness reads its completion at most once.
THEOREM IsConversation == Spec => IsAConversation
<1>1. Init => Abstract!Init
  <2> SUFFICES ASSUME Init PROVE Abstract!Init
    OBVIOUS
  <2>1. owed = {} /\ expiring = <<>> /\ events = <<>> /\ running = {} /\ told = {}
    BY DEF Init
  <2>2. \A x : ~Contains(<<>>, x)
    BY DEF Contains
  <2>3. \A t \in Turn : ~OnItsWay(t)
    BY <2>1, <2>2 DEF OnItsWay
  <2> QED BY <2>1, <2>3 DEF Abstract!Init
<1>2. MailboxInv /\ [Next]_vars => [Abstract!Next]_(Abstract!vars)
  <2> SUFFICES ASSUME MailboxInv, [Next]_vars PROVE [Abstract!Next]_(Abstract!vars)
    OBVIOUS
  <2>1. AsConversation
    BY NextTold DEF MailboxInv, Whereabouts
  <2>2. running \subseteq Turn /\ Owing \subseteq Turn
    BY DEF MailboxInv, TypeOK, Owing
  <2> USE DEF Owing
  <2>3. CASE \E t \in Turn : /\ t \notin running \cup Owing \cup told
                             /\ running' = running \cup {t} /\ Owing' = Owing /\ told' = told
    BY <2>3 DEF Abstract!Next, Abstract!Start
  <2>4. CASE \E ts \in SUBSET running : /\ running' = running \ ts
                                        /\ Owing' = Owing \cup ts /\ told' = told
    BY <2>4 DEF Abstract!Next, Abstract!End
  <2>5. CASE \E t \in Owing : /\ Owing' = Owing \ {t} /\ told' = told \cup {t}
                              /\ running' = running
    BY <2>2, <2>5 DEF Abstract!Next, Abstract!Tell
  <2>6. CASE \E t \in Owing : Owing' = Owing \ {t} /\ UNCHANGED <<running, told>>
    BY <2>2, <2>6 DEF Abstract!Next, Abstract!Lose
  <2>7. CASE Owing' = Owing /\ UNCHANGED <<running, told>>
    BY <2>7 DEF Abstract!vars
  <2> QED BY <2>1, <2>3, <2>4, <2>5, <2>6, <2>7 DEF AsConversation
<1> QED BY <1>1, <1>2, Invariant, PTL DEF Spec, IsAConversation, Abstract!Spec

=============================================================================
