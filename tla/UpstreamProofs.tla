--------------------------- MODULE UpstreamProofs ---------------------------
(***************************************************************************)
(* The link to the broker for any calls, keys and number of places.        *)
(***************************************************************************)
EXTENDS Upstream, TLAPS, SequenceTheorems, FiniteSetTheorems

-----------------------------------------------------------------------------
(* The queues.                                                             *)

\* What is left of a queue without its i-th is what stood there, in order.
LEMMA RemoveAtShifts ==
  ASSUME NEW S, NEW q \in Seq(S), NEW i \in DOMAIN q
  PROVE  /\ RemoveAt(q, i) \in Seq(S)
         /\ Len(RemoveAt(q, i)) = Len(q) - 1
         /\ \A j \in DOMAIN RemoveAt(q, i) :
              RemoveAt(q, i)[j] = q[IF j < i THEN j ELSE j + 1]
<1> DEFINE front == SubSeq(q, 1, i - 1)
<1> DEFINE back  == SubSeq(q, i + 1, Len(q))
<1>1. Len(q) \in Nat /\ i \in 1..Len(q)
  BY LenProperties
<1>2. front \in Seq(S) /\ Len(front) = i - 1 /\ \A j \in 1..(i - 1) : front[j] = q[j]
  BY <1>1, SubSeqProperties
<1>3. /\ back \in Seq(S) /\ Len(back) = Len(q) - i
      /\ \A j \in 1..(Len(q) - i) : back[j] = q[i + j]
  BY <1>1, SubSeqProperties
<1>4. RemoveAt(q, i) = front \o back
  BY DEF RemoveAt
<1> HIDE DEF front, back
<1>5. /\ front \o back \in Seq(S) /\ Len(front \o back) = Len(q) - 1
      /\ \A j \in 1..(Len(q) - 1) :
           (front \o back)[j] = IF j <= i - 1 THEN front[j] ELSE back[j - (i - 1)]
  <2>1. Len(front) + Len(back) = Len(q) - 1
    BY <1>1, <1>2, <1>3
  <2>2. /\ front \o back \in Seq(S) /\ Len(front \o back) = Len(front) + Len(back)
        /\ \A j \in 1..(Len(front) + Len(back)) :
             (front \o back)[j] = IF j <= Len(front) THEN front[j] ELSE back[j - Len(front)]
    BY <1>2, <1>3, ConcatProperties
  <2> QED BY <1>2, <2>1, <2>2
<1>6. ASSUME NEW j \in 1..(Len(q) - 1)
      PROVE  (front \o back)[j] = q[IF j < i THEN j ELSE j + 1]
  <2>1. CASE j < i
    BY <2>1, <1>1, <1>2, <1>5
  <2>2. CASE ~(j < i)
    <3>1. j - (i - 1) \in 1..(Len(q) - i) /\ i + (j - (i - 1)) = j + 1 /\ ~(j <= i - 1)
      BY <2>2, <1>1
    <3>2. (front \o back)[j] = back[j - (i - 1)]
      BY <3>1, <1>5
    <3> QED BY <2>2, <3>1, <3>2, <1>3
  <2> QED BY <2>1, <2>2
<1>7. DOMAIN (front \o back) = 1..(Len(q) - 1)
  BY <1>5, LenProperties
<1> QED BY <1>4, <1>5, <1>6, <1>7

\* A queue whose members differ, without one of them: they still differ, each is one
\* of the queue, and none is the one taken out.
LEMMA RemoveAtKeepsApart ==
  ASSUME NEW S, NEW q \in Seq(S), NEW i \in DOMAIN q, IsInjective(q)
  PROVE  /\ IsInjective(RemoveAt(q, i))
         /\ \A j \in DOMAIN RemoveAt(q, i) : \E k \in DOMAIN q :
              RemoveAt(q, i)[j] = q[k] /\ q[k] # q[i]
<1> DEFINE r == RemoveAt(q, i)
<1> DEFINE from(j) == IF j < i THEN j ELSE j + 1
<1>1. /\ Len(q) \in Nat /\ DOMAIN q = 1..Len(q) /\ DOMAIN r = 1..(Len(q) - 1)
      /\ \A j \in DOMAIN r : r[j] = q[from(j)]
  BY RemoveAtShifts, LenProperties
<1>2. \A j \in DOMAIN r : from(j) \in DOMAIN q /\ from(j) # i
  BY <1>1
<1>3. \A j, k \in DOMAIN r : from(j) = from(k) => j = k
  BY <1>1
<1> HIDE DEF r, from
<1>4. IsInjective(r)
  BY <1>1, <1>2, <1>3 DEF IsInjective
<1>5. \A j \in DOMAIN r : r[j] = q[from(j)] /\ q[from(j)] # q[i]
  BY <1>1, <1>2 DEF IsInjective
<1>6. \A j \in DOMAIN r : \E k \in DOMAIN q : r[j] = q[k] /\ q[k] # q[i]
  BY <1>2, <1>5
<1> QED BY <1>4, <1>6 DEF r

\* A queue is its head and what is left without it.
LEMMA TailIsRemoveAt ==
  ASSUME NEW S, NEW q \in Seq(S), q # <<>>
  PROVE  /\ Head(q) \in S /\ Tail(q) \in Seq(S)
         /\ 1 \in DOMAIN q /\ Head(q) = q[1] /\ Tail(q) = RemoveAt(q, 1)
<1>1. Len(q) \in Nat \ {0} /\ DOMAIN q = 1..Len(q)
  BY EmptySeq, LenProperties
<1>2. /\ RemoveAt(q, 1) \in Seq(S) /\ Len(RemoveAt(q, 1)) = Len(q) - 1
      /\ \A j \in 1..(Len(q) - 1) : RemoveAt(q, 1)[j] = q[j + 1]
  <2>1. 1 \in DOMAIN q
    BY <1>1
  <2>2. /\ RemoveAt(q, 1) \in Seq(S) /\ Len(RemoveAt(q, 1)) = Len(q) - 1
        /\ \A j \in DOMAIN RemoveAt(q, 1) : RemoveAt(q, 1)[j] = q[IF j < 1 THEN j ELSE j + 1]
    BY <2>1, RemoveAtShifts
  <2>3. DOMAIN RemoveAt(q, 1) = 1..(Len(q) - 1)
    BY <2>2, LenProperties
  <2>4. ASSUME NEW j \in 1..(Len(q) - 1) PROVE RemoveAt(q, 1)[j] = q[j + 1]
    <3>1. ~(j < 1) /\ j \in DOMAIN RemoveAt(q, 1)
      BY <1>1, <2>3
    <3> QED BY <2>2, <3>1
  <2> QED BY <2>2, <2>4
<1>3. /\ Tail(q) \in Seq(S) /\ Len(Tail(q)) = Len(q) - 1
      /\ \A j \in 1..(Len(q) - 1) : Tail(q)[j] = q[j + 1]
  BY HeadTailProperties
<1>4. Tail(q) = RemoveAt(q, 1)
  BY <1>1, <1>2, <1>3, SeqEqual
<1> QED BY <1>1, <1>4, HeadTailProperties

-----------------------------------------------------------------------------
(* Types.                                                                  *)

\* The link as it is built: no session, no call, an empty cache.
LEMMA InitType == Init => TypeOK
BY UpstreamAssumption DEF Init, TypeOK, Places, Prios

\* Every step of a call, of the broker and of the timers leaves each part what it is.
LEMMA NextType == TypeOK /\ [Next]_vars => TypeOK'
<1> SUFFICES ASSUME TypeOK, [Next]_vars PROVE TypeOK'
  OBVIOUS
<1> USE UpstreamAssumption DEF TypeOK, At, Goes, Fails, Places, cacheVars, gateVars, sessionVars
<1>1. ASSUME NEW c \in Calls, Ask(c) PROVE TypeOK'
  <2>1. CASE Key[c] = NoKey
    BY <1>1, <2>1 DEF Ask
  <2>2. CASE Key[c] # NoKey /\ hot[Key[c]] = NoCall
    <3>1. /\ hot' = [hot EXCEPT ![Key[c]] = c]
          /\ entry' = [entry EXCEPT ![c] = "running"]
          /\ pc' = [pc EXCEPT ![c] = "want"]
          /\ UNCHANGED <<on, result, gateVars, sessionVars>>
      BY <1>1, <2>2 DEF Ask, Begins
    <3>2. hot' \in [Keys -> Calls \cup {NoCall}] /\ entry' \in [Calls -> {"none", "running", "good", "failed", "stale"}]
      BY <3>1
    <3> QED BY <3>1, <3>2
  <2>3. CASE Key[c] # NoKey /\ hot[Key[c]] # NoCall
    <3>1. hot[Key[c]] \in Calls
      BY <2>3
    <3> QED BY <1>1, <2>3, <3>1 DEF Ask
  <2> QED BY <2>1, <2>2, <2>3
<1>2. ASSUME NEW c \in Calls, Shares(c) PROVE TypeOK'
  BY <1>2 DEF Shares
<1>3. ASSUME NEW c \in Calls, Again(c) PROVE TypeOK'
  BY <1>3 DEF Again, Begins
<1>4. ASSUME NEW c \in Calls, StopsWaiting(c) PROVE TypeOK'
  BY <1>4 DEF StopsWaiting
<1>5. ASSUME NEW c \in Calls, Publish(c) PROVE TypeOK'
  BY <1>5 DEF Publish
<1>6. ASSUME NEW c \in Calls, Tidy(c) PROVE TypeOK'
  BY <1>6 DEF Tidy
<1>7. ASSUME NEW c \in Calls, Ages(c) PROVE TypeOK'
  BY <1>7 DEF Ages
<1>8. ASSUME NEW c \in Calls, Enter(c) PROVE TypeOK'
  <2>1. CASE free > 0
    <3>1. /\ free' = free - 1 /\ pc' = [pc EXCEPT ![c] = "inside"]
          /\ UNCHANGED <<queues, result, cacheVars, sessionVars>>
      BY <1>8, <2>1 DEF Enter
    <3>2. free' \in Nat
      BY <2>1, <3>1
    <3> QED BY <3>1, <3>2
  <2>2. CASE ~(free > 0)
    <3>1. Prio[c] \in Prios /\ queues[Prio[c]] \in Seq(Calls)
      OBVIOUS
    <3>2. Append(queues[Prio[c]], c) \in Seq(Calls)
      BY <3>1, AppendProperties
    <3>3. /\ queues' = [queues EXCEPT ![Prio[c]] = Append(@, c)]
          /\ pc' = [pc EXCEPT ![c] = "queued"]
          /\ UNCHANGED <<free, result, cacheVars, sessionVars>>
      BY <1>8, <2>2 DEF Enter
    <3>4. queues' \in [Prios -> Seq(Calls)]
      BY <3>1, <3>2, <3>3
    <3> QED BY <3>3, <3>4
  <2> QED BY <2>1, <2>2
<1>9. ASSUME NEW c \in Calls, Wakes(c) PROVE TypeOK'
  BY <1>9 DEF Wakes
<1>10. ASSUME NEW c \in Calls, GivesUp(c) PROVE TypeOK'
  <2>1. CASE At(c, "queued")
    <3>1. PICK i \in DOMAIN queues[Prio[c]] :
            queues' = [queues EXCEPT ![Prio[c]] = RemoveAt(@, i)]
      BY <1>10, <2>1 DEF GivesUp, LeavesQueue
    <3>2. Prio[c] \in Prios /\ queues[Prio[c]] \in Seq(Calls)
      OBVIOUS
    <3>3. RemoveAt(queues[Prio[c]], i) \in Seq(Calls)
      BY <3>1, <3>2, RemoveAtShifts
    <3> QED BY <1>10, <3>1, <3>2, <3>3 DEF GivesUp
  <2>2. CASE At(c, "handed")
    BY <1>10, <2>2 DEF GivesUp
  <2> QED BY <1>10, <2>1, <2>2 DEF GivesUp
<1>11. ASSUME NEW c \in Calls, Leave(c) PROVE TypeOK'
  <2>1. ASSUME NEW p \in Prios, FirstOf(p), UNCHANGED free,
               pc' = [pc EXCEPT ![c] = "back", ![Head(queues[p])] = "handed"],
               queues' = [queues EXCEPT ![p] = Tail(@)]
        PROVE  TypeOK'
    <3>1. Head(queues[p]) \in Calls /\ Tail(queues[p]) \in Seq(Calls)
      BY <2>1, TailIsRemoveAt DEF FirstOf, Waiting
    <3>2. queues' \in [Prios -> Seq(Calls)]
      BY <2>1, <3>1
    <3>3. UNCHANGED <<result, cacheVars, sessionVars>>
      BY <1>11 DEF Leave
    <3> QED BY <2>1, <3>1, <3>2, <3>3
  <2>2. CASE free' = free + 1 /\ pc' = [pc EXCEPT ![c] = "back"] /\ UNCHANGED queues
    BY <1>11, <2>2 DEF Leave
  <2> QED BY <1>11, <2>1, <2>2 DEF Leave
<1>12. ASSUME NEW c \in Calls, Connect(c) PROVE TypeOK'
  <2>1. CASE session # NoCall
    <3>1. /\ mine' = [mine EXCEPT ![c] = session] /\ pc' = [pc EXCEPT ![c] = "calling"]
          /\ UNCHANGED <<result, cacheVars, gateVars, session, silent>>
      BY <1>12, <2>1 DEF Connect
    <3> QED BY <3>1
  <2>2. CASE session = NoCall
    <3>1. /\ pc' = [pc EXCEPT ![c] = "dialing"]
          /\ UNCHANGED <<result, cacheVars, gateVars, session, mine, silent>>
      BY <1>12, <2>2 DEF Connect
    <3> QED BY <3>1
  <2> QED BY <2>1, <2>2
<1>13. ASSUME NEW c \in Calls, Connected(c) PROVE TypeOK'
  BY <1>13 DEF Connected
<1>14. ASSUME NEW c \in Calls, ConnectFails(c) PROVE TypeOK'
  BY <1>14 DEF ConnectFails
<1>15. ASSUME NEW c \in Calls, Answers(c) PROVE TypeOK'
  BY <1>15 DEF Answers
<1>16. ASSUME NEW c \in Calls, Breaks(c) PROVE TypeOK'
  BY <1>16 DEF Breaks
<1>17. ASSUME NEW c \in Calls, Drops(c) PROVE TypeOK'
  BY <1>17 DEF Drops, Drop
<1>18. ASSUME NEW c \in Calls, GoesSilent(c) PROVE TypeOK'
  BY <1>18 DEF GoesSilent
<1>19. CASE UNCHANGED vars
  BY <1>19 DEF vars
<1> QED BY <1>1, <1>2, <1>3, <1>4, <1>5, <1>6, <1>7, <1>8, <1>9, <1>10, <1>11, <1>12,
           <1>13, <1>14, <1>15, <1>16, <1>17, <1>18, <1>19 DEF Next, Step, World

\* Typed: TypeOK for any calls and any number of places.
THEOREM Typed == Spec => []TypeOK
BY InitType, NextType, PTL DEF Spec

-----------------------------------------------------------------------------
(* The gate: the queues hold who waits, so that the place a caller leaves  *)
(* goes to one who holds none yet, and the places add up.                  *)

Gate == QueuesHoldWhoWaits /\ PlacesAddUp /\ NobodyWaitsBesideAFreePlace

\* Finitely many calls hold a place, so that they can be counted.
LEMMA HoldersAreFinite == IsFiniteSet(Holders) /\ Cardinality(Holders) \in Nat
<1>1. Holders \in SUBSET Calls
  BY DEF Holders
<1> QED BY <1>1, UpstreamAssumption, FS_Subset, FS_CardinalityType

\* All places free, and nobody waiting for one.
LEMMA InitGate == Init => Gate
<1> SUFFICES ASSUME Init PROVE Gate
  OBVIOUS
<1>1. QueuesHoldWhoWaits /\ NobodyWaitsBesideAFreePlace
  BY DEF Init, QueuesHoldWhoWaits, NobodyWaitsBesideAFreePlace, Waiting, IsInjective
<1>2. Holders = {}
  BY DEF Init, Holders, Places
<1>3. PlacesAddUp
  BY <1>2, FS_EmptySet, UpstreamAssumption DEF Init, PlacesAddUp
<1> QED BY <1>1, <1>3 DEF Gate

\* A caller that moves without touching the gate: out of it, or on a place it keeps.
LEMMA GateOnMove ==
  ASSUME TypeOK, Gate, NEW c \in Calls, NEW w, pc' = [pc EXCEPT ![c] = w],
         pc[c] # "queued", pc[c] \in Places <=> w \in Places, UNCHANGED gateVars
  PROVE  Gate'
<1>1. QueuesHoldWhoWaits'
  <2>1. ASSUME NEW p \in Prios, NEW i \in DOMAIN queues[p]
        PROVE  queues[p][i] \in Calls /\ queues[p][i] # c
    BY <2>1, LenProperties DEF TypeOK, Gate, QueuesHoldWhoWaits, At
  <2> QED BY <2>1 DEF TypeOK, Gate, QueuesHoldWhoWaits, At, gateVars
<1>2. Holders' = Holders
  BY DEF TypeOK, Holders
<1> QED BY <1>1, <1>2 DEF Gate, PlacesAddUp, NobodyWaitsBesideAFreePlace, Waiting, gateVars

\* A step that leaves the gate and the calls where they are.
LEMMA GateUntouched ==
  ASSUME Gate, UNCHANGED <<pc, free, queues>>
  PROVE  Gate'
BY DEF Gate, QueuesHoldWhoWaits, PlacesAddUp, NobodyWaitsBesideAFreePlace, Waiting, Holders, At

\* enter: a place is taken, or the end of a queue.
LEMMA GateOnEnter ==
  ASSUME TypeOK, Gate, NEW c \in Calls, Enter(c)
  PROVE  Gate'
<1> DEFINE p == Prio[c]
<1>1. p \in Prios /\ queues[p] \in Seq(Calls) /\ pc[c] = "want"
  BY UpstreamAssumption DEF TypeOK, Enter, At
<1>2. c \notin Holders
  BY <1>1 DEF Holders, Places
<1>3. \A r \in Prios : \A i \in DOMAIN queues[r] : queues[r][i] \in Calls \ {c}
  BY <1>1, LenProperties DEF TypeOK, Gate, QueuesHoldWhoWaits, At
<1>4. CASE free > 0
  <2>1. free' = free - 1 /\ pc' = [pc EXCEPT ![c] = "inside"] /\ UNCHANGED queues
    BY <1>4 DEF Enter, Goes
  <2>2. Holders' = Holders \cup {c}
    BY <2>1 DEF TypeOK, Holders, Places
  <2>3. Cardinality(Holders') = Cardinality(Holders) + 1
    BY <1>2, <2>2, HoldersAreFinite, FS_AddElement
  <2>4. PlacesAddUp'
    BY <1>4, <2>1, <2>3, HoldersAreFinite, UpstreamAssumption DEF Gate, PlacesAddUp, TypeOK
  <2>5. QueuesHoldWhoWaits'
    BY <1>3, <2>1 DEF TypeOK, Gate, QueuesHoldWhoWaits, At
  <2>6. NobodyWaitsBesideAFreePlace'
    BY <1>4, <2>1 DEF Gate, NobodyWaitsBesideAFreePlace, Waiting
  <2> QED BY <2>4, <2>5, <2>6 DEF Gate
<1>5. CASE ~(free > 0)
  <2>1. /\ queues' = [queues EXCEPT ![p] = Append(@, c)]
        /\ pc' = [pc EXCEPT ![c] = "queued"] /\ UNCHANGED free
    BY <1>5 DEF Enter, Goes
  <2>2. Holders' = Holders
    BY <1>2, <2>1 DEF TypeOK, Holders, Places
  <2>3. PlacesAddUp' /\ NobodyWaitsBesideAFreePlace'
    BY <1>5, <2>1, <2>2 DEF Gate, PlacesAddUp, NobodyWaitsBesideAFreePlace
  <2>4. /\ \A i \in DOMAIN queues'[p] :
             queues'[p][i] = IF i \in DOMAIN queues[p] THEN queues[p][i] ELSE c
        /\ \A i \in DOMAIN queues'[p] : i \in DOMAIN queues[p] \/ i = Len(queues[p]) + 1
    <3>1. queues'[p] = Append(queues[p], c)
      BY <1>1, <2>1 DEF TypeOK
    <3> QED BY <1>1, <3>1, AppendProperties, LenProperties
  <2>5. \A r \in Prios \ {p} : queues'[r] = queues[r]
    BY <2>1 DEF TypeOK
  <2>6. ASSUME NEW r \in Prios PROVE IsInjective(queues'[r])
    <3>1. IsInjective(queues[r])
      BY DEF Gate, QueuesHoldWhoWaits
    <3> QED BY <1>3, <2>4, <2>5, <3>1 DEF IsInjective
  <2>7. ASSUME NEW r \in Prios, NEW i \in DOMAIN queues'[r]
        PROVE  pc'[queues'[r][i]] = "queued" /\ Prio[queues'[r][i]] = r
    <3>1. CASE r = p /\ i \notin DOMAIN queues[p]
      BY <2>1, <2>4, <3>1 DEF TypeOK
    <3>2. CASE ~(r = p /\ i \notin DOMAIN queues[p])
      <4>1. i \in DOMAIN queues[r] /\ queues'[r][i] = queues[r][i]
        BY <2>4, <2>5, <2>7, <3>2
      <4>2. queues[r][i] \in Calls /\ pc[queues[r][i]] = "queued" /\ Prio[queues[r][i]] = r
        BY <1>3, <4>1 DEF Gate, QueuesHoldWhoWaits, At
      <4> QED BY <2>1, <4>1, <4>2 DEF TypeOK
    <3> QED BY <3>1, <3>2
  <2> QED BY <2>3, <2>6, <2>7 DEF Gate, QueuesHoldWhoWaits, At
<1> QED BY <1>4, <1>5

\* A caller that stops waiting leaves its queue, or the place it was given meanwhile.
LEMMA GateOnGivesUp ==
  ASSUME TypeOK, Gate, NEW c \in Calls, GivesUp(c)
  PROVE  Gate'
<1> DEFINE p == Prio[c]
<1>1. p \in Prios /\ queues[p] \in Seq(Calls)
  BY UpstreamAssumption DEF TypeOK
<1>2. CASE At(c, "queued")
  <2>1. /\ pc' = [pc EXCEPT ![c] = "back"] /\ UNCHANGED free
        /\ \E i \in DOMAIN queues[p] :
             queues[p][i] = c /\ queues' = [queues EXCEPT ![p] = RemoveAt(@, i)]
    BY <1>2 DEF GivesUp, LeavesQueue, Goes, At
  <2>2. PICK i \in DOMAIN queues[p] :
          queues[p][i] = c /\ queues' = [queues EXCEPT ![p] = RemoveAt(@, i)]
    BY <2>1
  <2>3. Holders' = Holders
    BY <1>2, <2>1 DEF TypeOK, Holders, Places, At
  <2>4. PlacesAddUp'
    BY <2>1, <2>3 DEF Gate, PlacesAddUp
  <2>5. queues'[p] = RemoveAt(queues[p], i) /\ \A r \in Prios \ {p} : queues'[r] = queues[r]
    BY <1>1, <2>2 DEF TypeOK
  <2>8. IsInjective(queues[p])
    BY <1>1 DEF Gate, QueuesHoldWhoWaits
  <2>10. /\ IsInjective(queues'[p])
         /\ \A j \in DOMAIN queues'[p] : \E k \in DOMAIN queues[p] :
              queues'[p][j] = queues[p][k] /\ queues[p][k] # c
    BY <1>1, <2>2, <2>5, <2>8, RemoveAtKeepsApart
  <2>11. ASSUME NEW r \in Prios PROVE IsInjective(queues'[r])
    BY <2>5, <2>10 DEF Gate, QueuesHoldWhoWaits
  <2>12. ASSUME NEW r \in Prios, NEW j \in DOMAIN queues'[r]
         PROVE  pc'[queues'[r][j]] = "queued" /\ Prio[queues'[r][j]] = r
    <3>1. PICK k \in DOMAIN queues[r] :
            queues'[r][j] = queues[r][k] /\ (r = p => queues[r][k] # c)
      BY <2>5, <2>10, <2>12
    <3>2. queues[r][k] \in Calls /\ pc[queues[r][k]] = "queued" /\ Prio[queues[r][k]] = r
      BY LenProperties DEF TypeOK, Gate, QueuesHoldWhoWaits, At
    <3>3. queues[r][k] # c
      BY <3>1, <3>2
    <3> QED BY <2>1, <3>1, <3>2, <3>3 DEF TypeOK
  <2>13. free = 0
    BY <1>1, <2>2 DEF TypeOK, Gate, NobodyWaitsBesideAFreePlace, Waiting
  <2>14. NobodyWaitsBesideAFreePlace'
    BY <2>1, <2>13 DEF NobodyWaitsBesideAFreePlace
  <2> QED BY <2>4, <2>11, <2>12, <2>14 DEF Gate, QueuesHoldWhoWaits, At
<1>3. CASE At(c, "handed")
  <2>1. pc' = [pc EXCEPT ![c] = "leaves"] /\ UNCHANGED gateVars
    BY <1>3 DEF GivesUp, Goes, At, gateVars
  <2> QED BY <1>3, <2>1, GateOnMove DEF At, Places
<1> QED BY <1>2, <1>3 DEF GivesUp

\* leave: the place goes to whoever waits first, the priority before the rest, or is free.
LEMMA GateOnLeave ==
  ASSUME TypeOK, Gate, NEW c \in Calls, Leave(c)
  PROVE  Gate'
<1>1. c \in Holders /\ pc[c] = "leaves"
  BY DEF Leave, At, Holders, Places
<1>2. \A r \in Prios : \A i \in DOMAIN queues[r] : queues[r][i] \in Calls \ {c}
  BY <1>1, LenProperties DEF TypeOK, Gate, QueuesHoldWhoWaits, At
<1>3. ASSUME NEW p \in Prios, FirstOf(p), UNCHANGED free,
             pc' = [pc EXCEPT ![c] = "back", ![Head(queues[p])] = "handed"],
             queues' = [queues EXCEPT ![p] = Tail(@)]
      PROVE  Gate'
  <2> DEFINE q == queues[p]
  <2> DEFINE d == Head(q)
  <2>1. q \in Seq(Calls) /\ q # <<>>
    BY <1>3 DEF TypeOK, FirstOf, Waiting
  <2>2. d \in Calls /\ d = q[1] /\ 1 \in DOMAIN q /\ Tail(q) = RemoveAt(q, 1)
    BY <2>1, TailIsRemoveAt
  <2>3. pc[d] = "queued" /\ d # c /\ d \notin Holders
    BY <1>2, <2>2 DEF Gate, QueuesHoldWhoWaits, At, Holders, Places
  <2>4. Holders' = (Holders \ {c}) \cup {d}
    BY <1>3, <2>2, <2>3 DEF TypeOK, Holders, Places
  <2>5. Cardinality(Holders') = Cardinality(Holders)
    <3>1. IsFiniteSet(Holders \ {c}) /\ Cardinality(Holders \ {c}) = Cardinality(Holders) - 1
      BY <1>1, HoldersAreFinite, FS_RemoveElement
    <3>2. Cardinality((Holders \ {c}) \cup {d}) = Cardinality(Holders \ {c}) + 1
      BY <2>3, <3>1, FS_AddElement
    <3> QED BY <2>4, <3>1, <3>2, HoldersAreFinite
  <2>6. PlacesAddUp'
    BY <1>3, <2>5 DEF Gate, PlacesAddUp
  <2>7. queues'[p] = Tail(q) /\ \A r \in Prios \ {p} : queues'[r] = queues[r]
    BY <1>3 DEF TypeOK
  <2>8. IsInjective(q)
    BY DEF Gate, QueuesHoldWhoWaits
  <2>9. /\ IsInjective(queues'[p])
        /\ \A j \in DOMAIN queues'[p] : \E k \in DOMAIN q : queues'[p][j] = q[k] /\ q[k] # d
    <3>1. /\ IsInjective(RemoveAt(q, 1))
          /\ \A j \in DOMAIN RemoveAt(q, 1) : \E k \in DOMAIN q :
               RemoveAt(q, 1)[j] = q[k] /\ q[k] # q[1]
      BY <2>1, <2>2, <2>8, RemoveAtKeepsApart
    <3>2. queues'[p] = RemoveAt(q, 1) /\ q[1] = d
      BY <2>2, <2>7
    <3> HIDE DEF q, d
    <3> QED BY <3>1, <3>2
  <2>10. ASSUME NEW r \in Prios PROVE IsInjective(queues'[r])
    BY <2>7, <2>9 DEF Gate, QueuesHoldWhoWaits
  <2>11. ASSUME NEW r \in Prios, NEW j \in DOMAIN queues'[r]
         PROVE  pc'[queues'[r][j]] = "queued" /\ Prio[queues'[r][j]] = r
    <3>1. PICK k \in DOMAIN queues[r] :
            queues'[r][j] = queues[r][k] /\ (r = p => queues[r][k] # d)
      BY <2>7, <2>9, <2>11
    <3>2. queues[r][k] \in Calls \ {c} /\ pc[queues[r][k]] = "queued" /\ Prio[queues[r][k]] = r
      BY <1>2 DEF Gate, QueuesHoldWhoWaits, At
    <3>3. queues[r][k] # d
      <4>1. Prio[d] = p
        BY <2>2 DEF Gate, QueuesHoldWhoWaits, At
      <4> QED BY <3>1, <3>2, <4>1
    <3>4. pc'[queues[r][k]] = pc[queues[r][k]]
      BY <1>3, <3>2, <3>3 DEF TypeOK
    <3> QED BY <3>1, <3>2, <3>4
  <2>12. free = 0
    BY <2>1 DEF TypeOK, Gate, NobodyWaitsBesideAFreePlace, Waiting
  <2>13. NobodyWaitsBesideAFreePlace'
    BY <1>3, <2>12 DEF NobodyWaitsBesideAFreePlace
  <2> QED BY <2>6, <2>10, <2>11, <2>13 DEF Gate, QueuesHoldWhoWaits, At
<1>4. CASE /\ \A p \in Prios : ~Waiting(p)
           /\ free' = free + 1 /\ pc' = [pc EXCEPT ![c] = "back"] /\ UNCHANGED queues
  <2>1. Holders' = Holders \ {c}
    BY <1>4 DEF TypeOK, Holders, Places
  <2>2. Cardinality(Holders') = Cardinality(Holders) - 1
    BY <1>1, <2>1, HoldersAreFinite, FS_RemoveElement
  <2>3. PlacesAddUp'
    BY <1>4, <2>2, HoldersAreFinite, UpstreamAssumption DEF Gate, PlacesAddUp, TypeOK
  <2>4. QueuesHoldWhoWaits'
    BY <1>2, <1>4 DEF TypeOK, Gate, QueuesHoldWhoWaits, At
  <2>5. NobodyWaitsBesideAFreePlace'
    BY <1>4 DEF NobodyWaitsBesideAFreePlace, Waiting
  <2> QED BY <2>3, <2>4, <2>5 DEF Gate
<1> QED BY <1>3, <1>4 DEF Leave, Goes

\* Every step keeps the places counted and given to whoever waits.
LEMMA NextGate == TypeOK /\ Gate /\ [Next]_vars => Gate'
<1> SUFFICES ASSUME TypeOK, Gate, [Next]_vars PROVE Gate'
  OBVIOUS
<1>1. ASSUME NEW c \in Calls, Ask(c) PROVE Gate'
  <2>1. CASE pc' = [pc EXCEPT ![c] = "want"]
    BY <1>1, <2>1, GateOnMove DEF Ask, At, Places
  <2>2. CASE pc' = [pc EXCEPT ![c] = "join"]
    BY <1>1, <2>2, GateOnMove DEF Ask, At, Places
  <2> QED BY <1>1, <2>1, <2>2 DEF Ask, Begins, Goes
<1>2. ASSUME NEW c \in Calls, Shares(c) PROVE Gate'
  <2>1. CASE pc' = [pc EXCEPT ![c] = "done"]
    BY <1>2, <2>1, GateOnMove DEF Shares, At, Places
  <2>2. CASE pc' = [pc EXCEPT ![c] = "again"]
    BY <1>2, <2>2, GateOnMove DEF Shares, At, Places
  <2> QED BY <1>2, <2>1, <2>2 DEF Shares, Goes
<1>3. ASSUME NEW c \in Calls, Again(c) PROVE Gate'
  BY <1>3, GateOnMove DEF Again, Begins, Goes, At, Places
<1>4. ASSUME NEW c \in Calls, StopsWaiting(c) PROVE Gate'
  BY <1>4, GateOnMove DEF StopsWaiting, Goes, At, Places
<1>5. ASSUME NEW c \in Calls, Publish(c) PROVE Gate'
  <2>1. CASE pc' = [pc EXCEPT ![c] = "done"]
    BY <1>5, <2>1, GateOnMove DEF Publish, At, Places
  <2>2. CASE pc' = [pc EXCEPT ![c] = "tidy"]
    BY <1>5, <2>2, GateOnMove DEF Publish, At, Places
  <2> QED BY <1>5, <2>1, <2>2 DEF Publish, Goes
<1>6. ASSUME NEW c \in Calls, Tidy(c) PROVE Gate'
  BY <1>6, GateOnMove DEF Tidy, Goes, At, Places
<1>7. ASSUME NEW c \in Calls, Ages(c) PROVE Gate'
  BY <1>7, GateUntouched DEF Ages, gateVars
<1>8. ASSUME NEW c \in Calls, Enter(c) PROVE Gate'
  BY <1>8, GateOnEnter
<1>9. ASSUME NEW c \in Calls, Wakes(c) PROVE Gate'
  BY <1>9, GateOnMove DEF Wakes, Goes, At, Places
<1>10. ASSUME NEW c \in Calls, GivesUp(c) PROVE Gate'
  BY <1>10, GateOnGivesUp
<1>11. ASSUME NEW c \in Calls, Leave(c) PROVE Gate'
  BY <1>11, GateOnLeave
<1>12. ASSUME NEW c \in Calls, Connect(c) PROVE Gate'
  <2>1. CASE pc' = [pc EXCEPT ![c] = "calling"]
    BY <1>12, <2>1, GateOnMove DEF Connect, At, Places
  <2>2. CASE pc' = [pc EXCEPT ![c] = "dialing"]
    BY <1>12, <2>2, GateOnMove DEF Connect, At, Places
  <2> QED BY <1>12, <2>1, <2>2 DEF Connect, Goes
<1>13. ASSUME NEW c \in Calls, Connected(c) PROVE Gate'
  BY <1>13, GateOnMove DEF Connected, Goes, At, Places
<1>14. ASSUME NEW c \in Calls, ConnectFails(c) PROVE Gate'
  BY <1>14, GateOnMove DEF ConnectFails, Goes, At, Places
<1>15. ASSUME NEW c \in Calls, Answers(c) PROVE Gate'
  BY <1>15, GateOnMove DEF Answers, Goes, At, Places
<1>16. ASSUME NEW c \in Calls, Breaks(c) PROVE Gate'
  BY <1>16, GateOnMove DEF Breaks, Goes, At, Places
<1>17. ASSUME NEW c \in Calls, Drops(c) PROVE Gate'
  BY <1>17, GateOnMove DEF Drops, Goes, At, Places
<1>18. CASE UNCHANGED <<pc, gateVars>>
  BY <1>18, GateUntouched DEF gateVars
<1> QED BY <1>1, <1>2, <1>3, <1>4, <1>5, <1>6, <1>7, <1>8, <1>9, <1>10, <1>11, <1>12,
           <1>13, <1>14, <1>15, <1>16, <1>17, <1>18 DEF Next, Step, World, GoesSilent, vars

\* The gate is in order in every state of the link.
LEMMA GateKept == Spec => [](TypeOK /\ Gate)
<1>1. Init => TypeOK /\ Gate
  BY InitType, InitGate
<1>2. TypeOK /\ Gate /\ [Next]_vars => (TypeOK /\ Gate)'
  BY NextType, NextGate
<1> QED BY <1>1, <1>2, PTL DEF Spec

\* PlacesKept: enter, remove and leave lose no place and make none, for any number of
\* callers and places and whoever gives up when.
THEOREM PlacesKept == Spec => []PlacesAddUp
BY GateKept, PTL DEF Gate

\* NoIdlePlace: leave hands a place over as long as somebody waits, so that none
\* stands free beside a queue.
THEOREM NoIdlePlace == Spec => []NobodyWaitsBesideAFreePlace
BY GateKept, PTL DEF Gate

-----------------------------------------------------------------------------
(* The cache.                                                              *)

CacheInv == FetchersHaveEntries /\ EntriesAreTheKeys /\ OneEntryUntilOneIsBad

\* Where a call stands whose answer is being fetched.
Away == {"want", "queued", "back"} \cup Places

\* Nothing is cached, and nothing is being fetched.
LEMMA InitCache == Init => CacheInv
BY UpstreamAssumption
   DEF Init, CacheInv, FetchersHaveEntries, EntriesAreTheKeys, OneEntryUntilOneIsBad,
       Fetching, Places

\* The gate and the session move calls about upstream only.
LEMMA CacheUntouched ==
  ASSUME TypeOK, CacheInv, UNCHANGED cacheVars,
         \A c \in Calls : pc'[c] = pc[c] \/ (pc[c] \in Away /\ pc'[c] \in Away),
         \A c \in Calls : pc'[c] \in {"leaves", "back"} => result'[c] # "none"
  PROVE  CacheInv'
<1> USE DEF CacheInv
<1>1. Fetching' = Fetching
  BY DEF Fetching, Away
<1>2. \A k : OneIsBad(k)' = OneIsBad(k)
  BY DEF OneIsBad, cacheVars
<1>3. \A c \in Calls : pc'[c] \in {"idle", "join", "again", "tidy"} => pc[c] = pc'[c]
  BY DEF Away, Places
<1>4. FetchersHaveEntries'
  BY <1>1, <1>3 DEF FetchersHaveEntries, cacheVars
<1>5. EntriesAreTheKeys'
  BY <1>2, <1>3 DEF EntriesAreTheKeys, cacheVars
<1>6. OneEntryUntilOneIsBad'
  BY <1>2 DEF OneEntryUntilOneIsBad, cacheVars
<1> QED BY <1>4, <1>5, <1>6

\* What was bad for a key stays so: no entry is made anew.
LEMMA BadStaysBad ==
  ASSUME NEW c \in Calls, NEW value,
         TypeOK, entry' = [entry EXCEPT ![c] = value],
         entry[c] \in {"failed", "stale"} => value \in {"failed", "stale"}
  PROVE  \A k : OneIsBad(k) => OneIsBad(k)'
<1> SUFFICES ASSUME NEW k, NEW e \in Calls, Key[e] = k, entry[e] \in {"failed", "stale"}
             PROVE  entry'[e] \in {"failed", "stale"}
  BY DEF OneIsBad
<1> QED BY DEF TypeOK

\* A call that begins an entry for its key, because the cache held none or because what
\* it held was bad.
LEMMA CacheOnBegin ==
  ASSUME NEW c \in Calls, TypeOK, CacheInv, Begins(c), UNCHANGED <<on, result>>,
         pc[c] \in {"idle", "again"}, Key[c] \in Keys,
         hot[Key[c]] = NoCall \/ OneIsBad(Key[c])
  PROVE  CacheInv'
<1> USE DEF CacheInv
<1>1. /\ hot' = [hot EXCEPT ![Key[c]] = c]
      /\ entry' = [entry EXCEPT ![c] = "running"]
      /\ pc' = [pc EXCEPT ![c] = "want"]
  BY DEF Begins, Goes
<1>2. entry[c] = "none" /\ Key[c] # NoKey /\ c # NoCall
  BY UpstreamAssumption DEF FetchersHaveEntries
<1>3. \A k : OneIsBad(k) => OneIsBad(k)'
  BY <1>1, <1>2, BadStaysBad
<1>4. \A d \in Calls : entry'[d] = IF d = c THEN "running" ELSE entry[d]
  BY <1>1 DEF TypeOK
<1>5. \A d \in Calls : pc'[d] = IF d = c THEN "want" ELSE pc[d]
  BY <1>1 DEF TypeOK
<1>6. FetchersHaveEntries'
  BY <1>2, <1>4, <1>5 DEF FetchersHaveEntries, Fetching
<1>7. EntriesAreTheKeys'
  <2>1. \A k \in Keys : hot'[k] # NoCall => Key[hot'[k]] = k /\ entry'[hot'[k]] # "none"
    BY <1>1, <1>4 DEF EntriesAreTheKeys, TypeOK
  <2>2. \A d \in Calls : pc'[d] = "join" =>
          on'[d] # NoCall /\ Key[d] # NoKey /\ Key[on'[d]] = Key[d] /\ entry'[on'[d]] # "none"
    BY <1>4, <1>5 DEF EntriesAreTheKeys, TypeOK
  <2> QED BY <1>3, <1>5, <2>1, <2>2 DEF EntriesAreTheKeys
<1>8. OneEntryUntilOneIsBad'
  <2> SUFFICES ASSUME NEW d \in Calls, Key[d] # NoKey, entry'[d] # "none"
               PROVE  hot'[Key[d]] = d \/ OneIsBad(Key[d])'
    BY DEF OneEntryUntilOneIsBad
  <2>0. Key[d] \in Keys
    BY UpstreamAssumption
  <2>1. CASE d = c
    BY <2>1, <1>1, <2>0 DEF TypeOK
  <2>2. CASE d # c /\ Key[d] # Key[c]
    BY <2>2, <2>0, <1>1, <1>3, <1>4 DEF OneEntryUntilOneIsBad, TypeOK
  <2>3. CASE d # c /\ Key[d] = Key[c]
    <3>1. hot[Key[d]] = d \/ OneIsBad(Key[d])
      BY <2>3, <1>4 DEF OneEntryUntilOneIsBad
    <3>2. d # NoCall
      BY UpstreamAssumption
    <3> QED BY <3>1, <3>2, <2>3, <1>3
  <2> QED BY <2>1, <2>2, <2>3
<1> QED BY <1>6, <1>7, <1>8

\* A call that comes back with no entry of its own, or leaves an entry it waited on.
LEMMA CacheOnDone ==
  ASSUME NEW c \in Calls, TypeOK, CacheInv, UNCHANGED <<hot, entry>>,
         pc' = [pc EXCEPT ![c] = "done"], c \notin Fetching,
         on' = [on EXCEPT ![c] = NoCall],
         \A d \in Calls \ {c} : result'[d] = result[d]
  PROVE  CacheInv'
<1> USE DEF CacheInv
<1>1. \A d \in Calls : pc'[d] = IF d = c THEN "done" ELSE pc[d]
  BY DEF TypeOK
<1>2. \A k : OneIsBad(k)' = OneIsBad(k)
  BY DEF OneIsBad
<1>3. FetchersHaveEntries'
  <2>1. Fetching' = Fetching
    BY <1>1 DEF Fetching, Places
  <2> QED BY <1>1, <2>1 DEF FetchersHaveEntries
<1>4. EntriesAreTheKeys'
  <2>1. \A d \in Calls : pc'[d] = "join" =>
          on'[d] # NoCall /\ Key[d] # NoKey /\ Key[on'[d]] = Key[d] /\ entry'[on'[d]] # "none"
    BY <1>1 DEF EntriesAreTheKeys, TypeOK
  <2> QED BY <1>1, <1>2, <2>1 DEF EntriesAreTheKeys
<1>5. OneEntryUntilOneIsBad'
  BY <1>2 DEF OneEntryUntilOneIsBad
<1> QED BY <1>3, <1>4, <1>5

\* The answer or the failure is published, and what waits on it finds it there.
LEMMA CacheOnPublish ==
  ASSUME NEW c \in Calls, TypeOK, CacheInv, Publish(c)
  PROVE  CacheInv'
<1> USE DEF CacheInv
<1>1. At(c, "back") /\ result[c] \in {"good", "failed"}
  BY DEF Publish, At, FetchersHaveEntries, TypeOK
<1>2. /\ UNCHANGED hot
      /\ on' = [on EXCEPT ![c] = NoCall] /\ result' = [result EXCEPT ![c] = "none"]
  BY DEF Publish
<1>3. CASE Key[c] = NoKey
  <2>1. c \notin Fetching /\ UNCHANGED entry /\ pc' = [pc EXCEPT ![c] = "done"]
    BY <1>3 DEF Publish, Goes, Fetching
  <2>2. \A d \in Calls \ {c} : result'[d] = result[d]
    BY <1>2 DEF TypeOK
  <2> QED BY <1>2, <2>1, <2>2, CacheOnDone
<1>4. CASE Key[c] # NoKey
  <2>1. /\ entry' = [entry EXCEPT ![c] = result[c]]
        /\ pc' = [pc EXCEPT ![c] = IF result[c] = "failed" THEN "tidy" ELSE "done"]
    BY <1>4 DEF Publish, Goes
  <2>2. entry[c] = "running"
    BY <1>1, <1>4 DEF FetchersHaveEntries, Fetching, At
  <2>3. \A k : OneIsBad(k) => OneIsBad(k)'
    BY <2>1, <2>2, BadStaysBad
  <2>4. \A d \in Calls : entry'[d] = IF d = c THEN result[c] ELSE entry[d]
    BY <2>1 DEF TypeOK
  <2>5. \A d \in Calls : pc'[d] = IF d # c THEN pc[d]
                                  ELSE IF result[c] = "failed" THEN "tidy" ELSE "done"
    BY <2>1 DEF TypeOK
  <2>6. FetchersHaveEntries'
    <3>1. \A d \in Calls : entry'[d] = "running" <=> d \in Fetching'
      BY <1>1, <2>4, <2>5 DEF FetchersHaveEntries, Fetching, Places
    <3>2. \A d \in Calls : pc'[d] \in {"leaves", "back"} => result'[d] # "none"
      BY <1>2, <2>5 DEF FetchersHaveEntries, TypeOK
    <3>3. \A d \in Calls : pc'[d] \in {"idle", "join", "again"} => entry'[d] = "none"
      BY <2>4, <2>5 DEF FetchersHaveEntries
    <3>4. \A d \in Calls : pc'[d] = "tidy" => Key[d] # NoKey /\ entry'[d] = "failed"
      BY <1>1, <1>4, <2>4, <2>5 DEF FetchersHaveEntries
    <3> QED BY <3>1, <3>2, <3>3, <3>4 DEF FetchersHaveEntries
  <2>7. EntriesAreTheKeys'
    <3>1. \A k \in Keys : hot'[k] # NoCall => Key[hot'[k]] = k /\ entry'[hot'[k]] # "none"
      BY <1>1, <1>2, <2>4 DEF EntriesAreTheKeys, TypeOK
    <3>2. \A d \in Calls : pc'[d] = "join" =>
            on'[d] # NoCall /\ Key[d] # NoKey /\ Key[on'[d]] = Key[d] /\ entry'[on'[d]] # "none"
      BY <1>1, <1>2, <2>4, <2>5 DEF EntriesAreTheKeys, TypeOK
    <3> QED BY <2>3, <2>5, <3>1, <3>2 DEF EntriesAreTheKeys
  <2>8. OneEntryUntilOneIsBad'
    BY <1>2, <2>2, <2>3, <2>4 DEF OneEntryUntilOneIsBad
  <2> QED BY <2>6, <2>7, <2>8
<1> QED BY <1>3, <1>4

\* Every step keeps one entry to a key that callers share, until its answer is seen to be bad.
LEMMA NextCache == TypeOK /\ Gate /\ CacheInv /\ [Next]_vars => CacheInv'
<1> SUFFICES ASSUME TypeOK, Gate, CacheInv, [Next]_vars PROVE CacheInv'
  OBVIOUS
<1> USE DEF CacheInv
<1>0. \A c \in Calls : pc[c] \in {"leaves", "back"} => result[c] # "none"
  BY DEF FetchersHaveEntries
<1>1. ASSUME NEW c \in Calls, Ask(c) PROVE CacheInv'
  <2>1. CASE Key[c] = NoKey
    <3>1. pc' = [pc EXCEPT ![c] = "want"] /\ UNCHANGED <<cacheVars, result>> /\ At(c, "idle")
      BY <1>1, <2>1 DEF Ask, Goes
    <3>2. \A d \in Calls : pc'[d] = IF d = c THEN "want" ELSE pc[d]
      BY <3>1 DEF TypeOK
    <3>3. Fetching' = Fetching
      BY <2>1, <3>2 DEF Fetching
    <3>4. \A k : OneIsBad(k)' = OneIsBad(k)
      BY <3>1 DEF OneIsBad, cacheVars
    <3>5. FetchersHaveEntries'
      BY <3>1, <3>2, <3>3 DEF FetchersHaveEntries, cacheVars
    <3>6. EntriesAreTheKeys' /\ OneEntryUntilOneIsBad'
      BY <3>1, <3>2, <3>4 DEF EntriesAreTheKeys, OneEntryUntilOneIsBad, cacheVars
    <3> QED BY <3>5, <3>6
  <2>2. CASE Key[c] # NoKey /\ hot[Key[c]] = NoCall
    <3>1. Begins(c) /\ UNCHANGED <<on, result>> /\ pc[c] = "idle" /\ Key[c] \in Keys
      BY <1>1, <2>2, UpstreamAssumption DEF Ask, At
    <3> QED BY <2>2, <3>1, CacheOnBegin
  <2>3. CASE Key[c] # NoKey /\ hot[Key[c]] # NoCall
    <3>1. /\ on' = [on EXCEPT ![c] = hot[Key[c]]] /\ pc' = [pc EXCEPT ![c] = "join"]
          /\ UNCHANGED <<hot, entry, result>> /\ pc[c] = "idle" /\ Key[c] \in Keys
      BY <1>1, <2>3, UpstreamAssumption DEF Ask, At, Goes
    <3>2. \A d \in Calls : pc'[d] = IF d = c THEN "join" ELSE pc[d]
      BY <3>1 DEF TypeOK
    <3>3. \A d \in Calls : on'[d] = IF d = c THEN hot[Key[c]] ELSE on[d]
      BY <3>1 DEF TypeOK
    <3>4. Fetching' = Fetching
      BY <3>1, <3>2 DEF Fetching, Places
    <3>5. \A k : OneIsBad(k)' = OneIsBad(k)
      BY <3>1 DEF OneIsBad
    <3>6. FetchersHaveEntries'
      BY <3>1, <3>2, <3>4 DEF FetchersHaveEntries
    <3>7. EntriesAreTheKeys'
      BY <2>3, <3>1, <3>2, <3>3, <3>5 DEF EntriesAreTheKeys
    <3>8. OneEntryUntilOneIsBad'
      BY <3>1, <3>5 DEF OneEntryUntilOneIsBad
    <3> QED BY <3>6, <3>7, <3>8
  <2> QED BY <2>1, <2>2, <2>3
<1>2. ASSUME NEW c \in Calls, Shares(c) PROVE CacheInv'
  <2>0. At(c, "join") /\ c \notin Fetching /\ UNCHANGED <<hot, entry, result>>
    BY <1>2 DEF Shares, At, Fetching, Places
  <2>1. CASE entry[on[c]] = "good"
    BY <1>2, <2>0, <2>1, CacheOnDone DEF Shares, Goes
  <2>2. CASE entry[on[c]] # "good"
    <3>1. pc' = [pc EXCEPT ![c] = "again"] /\ UNCHANGED on
      BY <1>2, <2>2 DEF Shares, Goes
    <3>2. \A d \in Calls : pc'[d] = IF d = c THEN "again" ELSE pc[d]
      BY <3>1 DEF TypeOK
    <3>3. on[c] \in Calls /\ Key[c] # NoKey /\ Key[on[c]] = Key[c] /\ entry[on[c]] # "none"
      BY <2>0 DEF At, EntriesAreTheKeys, TypeOK
    <3>4. entry[on[c]] \in {"failed", "stale"}
      BY <1>2, <2>2, <3>3 DEF Shares, TypeOK
    <3>5. OneIsBad(Key[c])
      BY <3>3, <3>4 DEF OneIsBad
    <3>6. \A k : OneIsBad(k)' = OneIsBad(k)
      BY <2>0 DEF OneIsBad
    <3>7. Fetching' = Fetching
      BY <2>0, <3>2 DEF Fetching, Places
    <3>8. FetchersHaveEntries'
      BY <2>0, <3>2, <3>7 DEF FetchersHaveEntries, At
    <3>9. EntriesAreTheKeys'
      BY <2>0, <3>1, <3>2, <3>3, <3>5, <3>6 DEF EntriesAreTheKeys
    <3>10. OneEntryUntilOneIsBad'
      BY <2>0, <3>6 DEF OneEntryUntilOneIsBad
    <3> QED BY <3>8, <3>9, <3>10
  <2> QED BY <2>1, <2>2
<1>3. ASSUME NEW c \in Calls, Again(c) PROVE CacheInv'
  <2>1. pc[c] = "again" /\ Begins(c) /\ UNCHANGED <<on, result>>
    BY <1>3 DEF Again, At
  <2>2. Key[c] \in Keys /\ OneIsBad(Key[c])
    BY <2>1, UpstreamAssumption DEF EntriesAreTheKeys
  <2> QED BY <2>1, <2>2, CacheOnBegin
<1>4. ASSUME NEW c \in Calls, StopsWaiting(c) PROVE CacheInv'
  <2>1. c \notin Fetching
    BY <1>4 DEF StopsWaiting, At, Fetching, Places
  <2> QED BY <1>4, <2>1, CacheOnDone DEF StopsWaiting, Goes
<1>5. ASSUME NEW c \in Calls, Publish(c) PROVE CacheInv'
  BY <1>5, CacheOnPublish
<1>6. ASSUME NEW c \in Calls, Tidy(c) PROVE CacheInv'
  <2>1. /\ pc[c] = "tidy" /\ pc' = [pc EXCEPT ![c] = "done"]
        /\ hot' = IF hot[Key[c]] = c THEN [hot EXCEPT ![Key[c]] = NoCall] ELSE hot
        /\ UNCHANGED <<on, entry, result>>
    BY <1>6 DEF Tidy, At, Goes
  <2>2. Key[c] # NoKey /\ entry[c] = "failed"
    BY <2>1 DEF FetchersHaveEntries
  <2>3. \A d \in Calls : pc'[d] = IF d = c THEN "done" ELSE pc[d]
    BY <2>1 DEF TypeOK
  <2>4. \A k : OneIsBad(k)' = OneIsBad(k)
    BY <2>1 DEF OneIsBad
  <2>5. OneIsBad(Key[c])
    BY <2>2 DEF OneIsBad
  <2>6. Fetching' = Fetching
    BY <2>1, <2>3 DEF Fetching, Places
  <2>7. \A k \in Keys : hot'[k] \in {hot[k], NoCall} /\ (k # Key[c] => hot'[k] = hot[k])
    BY <2>1 DEF TypeOK
  <2>8. FetchersHaveEntries'
    BY <2>1, <2>3, <2>6 DEF FetchersHaveEntries
  <2>9. EntriesAreTheKeys'
    BY <2>1, <2>3, <2>4, <2>7 DEF EntriesAreTheKeys
  <2>10. OneEntryUntilOneIsBad'
    BY <2>1, <2>4, <2>5, <2>7, UpstreamAssumption DEF OneEntryUntilOneIsBad
  <2> QED BY <2>8, <2>9, <2>10
<1>7. ASSUME NEW c \in Calls, Ages(c) PROVE CacheInv'
  <2>1. entry[c] = "good" /\ entry' = [entry EXCEPT ![c] = "stale"]
        /\ UNCHANGED <<pc, result, on, hot>>
    BY <1>7 DEF Ages
  <2>2. \A k : OneIsBad(k) => OneIsBad(k)'
    BY <2>1, BadStaysBad
  <2>3. \A d \in Calls : entry'[d] = IF d = c THEN "stale" ELSE entry[d]
    BY <2>1 DEF TypeOK
  <2>4. Fetching' = Fetching
    BY <2>1 DEF Fetching
  <2>5. FetchersHaveEntries'
    BY <2>1, <2>3, <2>4 DEF FetchersHaveEntries
  <2>6. EntriesAreTheKeys'
    BY <2>1, <2>2, <2>3 DEF EntriesAreTheKeys, TypeOK
  <2>7. OneEntryUntilOneIsBad'
    BY <2>1, <2>2, <2>3 DEF OneEntryUntilOneIsBad
  <2> QED BY <2>5, <2>6, <2>7
<1>8. ASSUME NEW c \in Calls, Enter(c) \/ Wakes(c) PROVE CacheInv'
  BY <1>0, <1>8, CacheUntouched DEF Enter, Wakes, Goes, At, Away, Places, TypeOK
<1>9. ASSUME NEW c \in Calls, GivesUp(c) PROVE CacheInv'
  <2>1. \A d \in Calls : result'[d] = IF d = c THEN "failed" ELSE result[d]
    BY <1>9 DEF GivesUp, Fails, TypeOK
  <2>2. \A d \in Calls : pc'[d] = pc[d] \/ (d = c /\ pc[d] \in Away /\ pc'[d] \in {"back", "leaves"})
    BY <1>9 DEF GivesUp, Goes, At, Away, Places, TypeOK
  <2>3. UNCHANGED cacheVars
    BY <1>9 DEF GivesUp
  <2> QED BY <1>0, <2>1, <2>2, <2>3, CacheUntouched DEF Away, Places
<1>10. ASSUME NEW c \in Calls, Leave(c) PROVE CacheInv'
  <2>1. UNCHANGED <<result, cacheVars>> /\ pc[c] = "leaves"
    BY <1>10 DEF Leave, At
  <2>2. CASE \E p \in Prios : FirstOf(p) /\ pc' = [pc EXCEPT ![c] = "back", ![Head(queues[p])] = "handed"]
    <3>1. PICK p \in Prios : FirstOf(p) /\ pc' = [pc EXCEPT ![c] = "back", ![Head(queues[p])] = "handed"]
      BY <2>2
    <3>2. queues[p] \in Seq(Calls) /\ queues[p] # <<>>
      BY <3>1 DEF FirstOf, Waiting, TypeOK
    <3>3. Head(queues[p]) \in Calls /\ 1 \in DOMAIN queues[p] /\ Head(queues[p]) = queues[p][1]
      BY <3>2, TailIsRemoveAt
    <3>4. pc[Head(queues[p])] = "queued"
      BY <3>3 DEF Gate, QueuesHoldWhoWaits, At
    <3>5. \A d \in Calls : pc'[d] = IF d = Head(queues[p]) THEN "handed"
                                    ELSE IF d = c THEN "back" ELSE pc[d]
      BY <3>1, <3>3 DEF TypeOK
    <3> QED BY <1>0, <2>1, <3>4, <3>5, CacheUntouched DEF Away, Places
  <2>3. CASE pc' = [pc EXCEPT ![c] = "back"]
    <3>1. \A d \in Calls : pc'[d] = IF d = c THEN "back" ELSE pc[d]
      BY <2>3 DEF TypeOK
    <3> QED BY <1>0, <2>1, <3>1, CacheUntouched DEF Away, Places
  <2> QED BY <1>10, <2>2, <2>3 DEF Leave, Goes
<1>11. ASSUME NEW c \in Calls, Connect(c) \/ Connected(c) \/ Breaks(c) PROVE CacheInv'
  <2>1. \A d \in Calls : pc'[d] = pc[d] \/ (pc[d] \in Away /\ pc'[d] \in {"dialing", "calling", "dropping"})
    BY <1>11 DEF Connect, Connected, Breaks, Goes, At, Away, Places, TypeOK
  <2>2. UNCHANGED <<result, cacheVars>>
    BY <1>11 DEF Connect, Connected, Breaks
  <2> QED BY <1>0, <2>1, <2>2, CacheUntouched DEF Away, Places
<1>12. ASSUME NEW c \in Calls, ConnectFails(c) \/ Answers(c) \/ Drops(c) PROVE CacheInv'
  <2>1. \A d \in Calls : result'[d] = result[d] \/ result'[d] \in {"good", "failed"}
    BY <1>12 DEF ConnectFails, Answers, Drops, Fails, TypeOK
  <2>2. \A d \in Calls : pc'[d] = pc[d]
                         \/ (pc[d] \in Away /\ pc'[d] = "leaves" /\ result'[d] # "none")
    BY <1>12 DEF ConnectFails, Answers, Drops, Fails, Goes, At, Away, Places, TypeOK
  <2>3. UNCHANGED cacheVars
    BY <1>12 DEF ConnectFails, Answers, Drops
  <2> QED BY <1>0, <2>1, <2>2, <2>3, CacheUntouched DEF Away, Places
<1>13. CASE UNCHANGED <<pc, result, cacheVars>>
  BY <1>0, <1>13, CacheUntouched
<1> QED BY <1>1, <1>2, <1>3, <1>4, <1>5, <1>6, <1>7, <1>8, <1>9, <1>10, <1>11, <1>12, <1>13
        DEF Next, Step, World, GoesSilent, vars

\* SharedUntilBad: until an answer for a key fails or goes stale, through lets one call at
\* most go upstream for it, for any callers, keys and places.
THEOREM SharedUntilBad == Spec => []SharedUntilOneIsBad
<1>1. TypeOK /\ CacheInv => SharedUntilOneIsBad
  <2> SUFFICES ASSUME TypeOK, CacheInv, NEW c \in Fetching, NEW d \in Fetching,
                      c # d, Key[c] = Key[d]
               PROVE  OneIsBad(Key[c])
    BY DEF SharedUntilOneIsBad, OneIsBad
  <2>1. c \in Calls /\ d \in Calls /\ Key[c] # NoKey
    BY DEF Fetching
  <2>2. entry[c] = "running" /\ entry[d] = "running"
    BY <2>1 DEF CacheInv, FetchersHaveEntries
  <2> QED BY <2>1, <2>2 DEF CacheInv, OneEntryUntilOneIsBad
<1>2. TypeOK /\ Gate /\ CacheInv /\ [Next]_vars => CacheInv'
  BY NextCache
<1> QED BY InitCache, GateKept, <1>1, <1>2, PTL DEF Spec

-----------------------------------------------------------------------------
(* The session.                                                            *)

\* connect's lock: one call at most dials, and none beside a session.
OneDials ==
  \A c \in Calls : At(c, "dialing") =>
    session = NoCall /\ \A d \in Calls : At(d, "dialing") => d = c

\* Nobody dials when the link is built.
LEMMA InitDials == Init => OneDials
BY DEF Init, OneDials, At

\* A call begins to dial when nobody does and there is no session, and stops as it raises one.
LEMMA NextDials == TypeOK /\ OneDials /\ [Next]_vars => OneDials'
<1> SUFFICES ASSUME TypeOK, OneDials, [Next]_vars PROVE OneDials'
  OBVIOUS
<1>1. ASSUME NEW c \in Calls, Connect(c) PROVE OneDials'
  <2>1. \A d \in Calls : pc[d] # "dialing" /\ (d # c => pc'[d] = pc[d])
    BY <1>1 DEF Connect, LockIsFree, At, Goes, TypeOK
  <2>2. CASE session # NoCall
    BY <1>1, <2>1, <2>2 DEF Connect, Goes, OneDials, At, TypeOK
  <2>3. CASE session = NoCall
    BY <1>1, <2>1, <2>3 DEF Connect, OneDials, At
  <2> QED BY <2>2, <2>3
<1>2. ASSUME NEW c \in Calls, Connected(c) PROVE OneDials'
  <2>1. At(c, "dialing") /\ pc' = [pc EXCEPT ![c] = "calling"]
    BY <1>2 DEF Connected, Goes
  <2> QED BY <2>1 DEF OneDials, At, TypeOK
<1>3. ASSUME NEW c \in Calls,
             \/ Ask(c) \/ Shares(c) \/ Again(c) \/ StopsWaiting(c) \/ Publish(c) \/ Tidy(c)
             \/ Enter(c) \/ Wakes(c) \/ GivesUp(c) \/ Leave(c)
             \/ ConnectFails(c) \/ Answers(c) \/ Breaks(c) \/ Drops(c)
      PROVE  OneDials'
  <2>1. \A d \in Calls : pc'[d] = "dialing" => pc[d] = "dialing"
    BY <1>3 DEF Ask, Shares, Again, StopsWaiting, Publish, Tidy, Enter, Wakes, GivesUp, Leave,
                ConnectFails, Answers, Breaks, Drops, Begins, Goes, TypeOK
  <2>2. session' \in {session, NoCall}
    BY <1>3 DEF Ask, Shares, Again, StopsWaiting, Publish, Tidy, Enter, Wakes, GivesUp, Leave,
                ConnectFails, Answers, Breaks, Drops, Drop, sessionVars
  <2> QED BY <2>1, <2>2 DEF OneDials, At
<1>4. CASE UNCHANGED <<pc, session>>
  BY <1>4 DEF OneDials, At
<1> QED BY <1>1, <1>2, <1>3, <1>4 DEF Next, Step, World, Ages, GoesSilent, vars, sessionVars

\* The session goes only when a call made on it fails.
LEMMA OnlyDropsDiscard ==
  ASSUME TypeOK, OneDials, [Next]_vars, session # NoCall, session' # session
  PROVE  \E c \in Calls : At(c, "dropping") /\ mine[c] = session /\ result'[c] = "failed"
<1>1. PICK c \in Calls : Step(c) \/ World(c)
  BY DEF Next, vars, sessionVars
<1>2. ~Connected(c)
  BY DEF Connected, OneDials
<1>3. Drops(c)
  BY <1>1, <1>2 DEF Step, World, Shares, Again, Publish, Tidy, Enter, Wakes, Leave, Connect,
              ConnectFails, Answers, Breaks, Ask, StopsWaiting, GivesUp, Ages, GoesSilent, sessionVars
<1>4. At(c, "dropping") /\ mine[c] = session
  BY <1>3 DEF Drops, Drop
<1>5. result'[c] = "failed"
  BY <1>3 DEF Drops, Fails, TypeOK
<1> QED BY <1>4, <1>5

\* OwnFailure: drop discards the session in use only for a failure of a call made on it.
THEOREM OwnFailure == Spec => DiscardedByItsOwn
<1>1. TypeOK /\ OneDials /\ [Next]_vars =>
        [session # NoCall /\ session' # session =>
           \E c \in Calls : At(c, "dropping") /\ mine[c] = session /\ result'[c] = "failed"]_vars
  BY OnlyDropsDiscard
<1> QED BY <1>1, InitDials, NextDials, Typed, PTL DEF Spec, DiscardedByItsOwn

=============================================================================
