---------------------------- MODULE ClockProofs ----------------------------
(***************************************************************************)
(* Proofs about what the clock's goroutine wakes the agent for: the        *)
(* schedule, for every set of names, every declaration the file may hold,  *)
(* every length of the day and every bound; and, after it, the store of    *)
(* wake-ups, for any number of requests, crashes and failed writes.        *)
(***************************************************************************)
EXTENDS Schedule, Wakeups, WellFoundedInduction, TLAPS

USE DEF ReadsTheClock, RunBegins, MomentPasses, RunBeginsAnew

\* Later minutes are in later days: Day divides by a positive number.
LEMMA DayIsMonotone ==
  ASSUME NEW a \in Nat, NEW b \in Nat, a <= b
  PROVE  Day(a) \in Nat /\ Day(b) \in Nat /\ Day(a) <= Day(b)
BY ScheduleAssumption DEF Day

\* What every declaration is, whatever the file holds.
LEMMA DeclarationFacts ==
  ASSUME NEW d \in Declarations
  PROVE  /\ d \in Seq(Session)
         /\ Len(d) \in Nat
         /\ DOMAIN d = 1..Len(d)
         /\ \A i \in DOMAIN d : d[i] \in Session /\ d[i].name \in Names
<1>1. d \in Seq(Session)
  BY DeclarationsAssumption DEF Declarations
<1>2. \A s \in Session : s.name \in Names
  BY DEF Session
<1>3. \A i \in DOMAIN d : d[i] \in Session
  BY <1>1
<1> QED BY <1>1, <1>2, <1>3

\* Reading the file again leaves a declaration in force, whatever it holds by then.
LEMMA InForceIsDeclaration ==
  ASSUME TypeOK
  PROVE  \A read \in Files : InForce(read) \in Declarations
BY DEF TypeOK, InForce

\* A pass that began in a session's hours is still in the same day.
LEMMA PassStaysInItsDay ==
  ASSUME NEW d \in Declarations, NEW i \in DOMAIN d, NEW t \in Time, NEW u \in Time,
         InWindow(d[i], t), t <= u, u <= t + PassLimit
  PROVE  Day(u) = Day(t)
BY DeclarationsAssumption

\* A name in hand is a declared name.
LEMMA InHandIsDeclared ==
  ASSUME TypeOK, pc \notin {"idle", "scan"}
  PROVE  /\ declared \in Declarations
         /\ pos \in DOMAIN declared
         /\ declared[pos] \in Session
         /\ declared[pos].name \in Names
         /\ Declares(declared, declared[pos].name)
<1>1. declared \in Declarations /\ pos \in DOMAIN declared
  BY DEF TypeOK
<1>2. declared[pos] \in Session /\ declared[pos].name \in Names
  BY <1>1, DeclarationFacts
<1> QED BY <1>1, <1>2 DEF Declares

-----------------------------------------------------------------------------
(* Types.                                                                  *)

\* alreadyRanToday: the record's answer is a moment, or that there was none.
LEMMA AlreadyRanTodayType ==
  ASSUME TypeOK, NEW d \in Declarations, NEW n \in Names
  PROVE  AlreadyRanToday(d, n) \in Time \cup {Never}
BY DEF TypeOK, AlreadyRanToday

\* What a reread drops from the memory are names of sessions.
LEMMA ToForgetType ==
  ASSUME TypeOK
  PROVE  ToForget \subseteq Names
<1>1. declared \in Declarations
  BY DEF TypeOK
<1> QED BY <1>1, DeclarationFacts DEF ToForget

\* The scheduler as it is built, with a declaration and nothing run.
LEMMA InitType == Init => TypeOK
<1> SUFFICES ASSUME Init PROVE TypeOK
  OBVIOUS
<1>1. declared \in Declarations /\ Len(declared) \in Nat
  BY DeclarationFacts DEF Init
<1>2. now \in Time /\ tnow \in Time
  BY ScheduleAssumption, HarnessClockAssumption DEF Init, Time
<1>3. emptyTurns \in Seq(Names \cup People) /\ Len(emptyTurns) <= slots /\ slots \in Nat
  BY <1>1 DEF Init
<1> QED BY <1>1, <1>2, <1>3 DEF Init, TypeOK

\* The clock, the file, the record and a crash leave every part what it is.
LEMMA NextType == TypeOK /\ [Next]_vars => TypeOK'
<1> SUFFICES ASSUME TypeOK, [Next]_vars PROVE TypeOK'
  OBVIOUS
<1> USE DEF TypeOK
<1>1. ASSUME NEW d \in Declarations, Crash(d) PROVE TypeOK'
  <2>1. Len(d) \in Nat
    BY DeclarationFacts
  <2>2. lastRun' \in [Names -> Time \cup {Never}]
    BY <1>1, AlreadyRanTodayType DEF Crash
  <2>3. emptyTurns' \in Seq(Names \cup People) /\ Len(emptyTurns') <= slots' /\ slots' \in Nat
    BY <1>1, <2>1 DEF Crash
  <2>4. 0 \in Time
    BY ScheduleAssumption, HarnessClockAssumption DEF Time
  <2>5. excused' \subseteq Names
    BY <1>1 DEF Crash
  <2> QED BY <1>1, <2>2, <2>3, <2>4, <2>5 DEF Crash
<1>2. ASSUME NEW d \in Declarations, Reread(d) PROVE TypeOK'
  <2>1. lastRun' \in [Names -> Time \cup {Never}]
    BY <1>2, AlreadyRanTodayType DEF Reread
  <2>2. excused' \subseteq Names
    BY <1>2 DEF Reread
  <2> QED BY <1>2, <2>1, <2>2 DEF Reread, clock
<1>3. CASE Pass
  <2>1. emptyTurns' \in Seq(Names \cup People) /\ Len(emptyTurns') <= slots'
    BY <1>3 DEF Pass
  <2> QED BY <1>3, <2>1, ToForgetType DEF Pass
<1>4. ASSUME PassReturns,
             UNCHANGED <<now, declared, lastRun, emptyTurns, slots, turn,
                         reporting, causes, history>>
      PROVE  TypeOK'
  <2>1. 0 \in Time
    BY ScheduleAssumption, HarnessClockAssumption DEF Time
  <2> QED BY <1>4, <2>1 DEF PassReturns, history
<1>5. CASE PassEnds
  BY <1>5, <1>4 DEF PassEnds
<1>6. CASE ComesTo
  <2> PICK i \in DueFrom(pos) :
         IF turn # Nobody /\ ~declared[i].cannotWait
         THEN PassReturns
         ELSE /\ pc' = IF turn = Nobody THEN "start" ELSE "steer"
              /\ pos' = i
              /\ UNCHANGED tnow
    BY <1>6 DEF ComesTo
  <2>1. i \in DOMAIN declared /\ i \in Nat \ {0}
    BY DeclarationFacts DEF DueFrom
  <2>2. CASE turn # Nobody /\ ~declared[i].cannotWait
    BY <2>2, <1>4, <1>6 DEF ComesTo
  <2>3. CASE ~(turn # Nobody /\ ~declared[i].cannotWait)
    BY <2>3, <2>1, <1>6 DEF ComesTo, history
  <2> QED BY <2>2, <2>3
<1>7. CASE Started
  BY <1>7, InHandIsDeclared DEF Started, Told
<1>8. CASE Steered
  BY <1>8, InHandIsDeclared DEF Steered, Told
<1>9. CASE NotTold
  BY <1>9, <1>4 DEF NotTold
<1>10. CASE Marked
  <2>1. declared[pos].name \in Names
    BY <1>10, InHandIsDeclared DEF Marked
  <2> QED BY <1>10, <2>1 DEF Marked, history
<1>11. ASSUME NEW p \in People, OtherStarts(p) PROVE TypeOK'
  BY <1>11 DEF OtherStarts, clock, history
<1>12. ASSUME NEW silent \in BOOLEAN, TurnEnds(silent) PROVE TypeOK'
  BY <1>12 DEF TurnEnds, clock, history
<1>13. ASSUME NEW n \in Names \cup People, Report(n) PROVE TypeOK'
  <2>1. emptyTurns' \in Seq(Names \cup People) /\ Len(emptyTurns') <= slots
    BY <1>13 DEF Report
  <2> QED BY <1>13, <2>1 DEF Report, clock, history
<1>14. CASE Advance
  BY <1>14, ScheduleAssumption, HarnessClockAssumption DEF Advance, Time, clock, history
<1>15. CASE UNCHANGED vars
  BY <1>15 DEF vars, clock, history
<1> QED BY <1>1, <1>2, <1>3, <1>5, <1>6, <1>7, <1>8, <1>9, <1>10, <1>11,
           <1>12, <1>13, <1>14, <1>15, InForceIsDeclaration DEF Next

\* TypeCorrect: TypeOK, which TLC checks on a five-minute day, for every
\* schedule: in particular the channel of empty turns never holds more than it
\* was made for, although a reread may bring in more sessions.
THEOREM TypeCorrect == Spec => []TypeOK
BY InitType, NextType, PTL DEF Spec

-----------------------------------------------------------------------------
(* The memory of what ran.                                                 *)

Memory == PassIsRecent /\ InHand /\ MarksAreTold /\ ToldIsKept

\* A scheduler that has run nothing remembers nothing wrong.
LEMMA InitMemory == Init => Memory
<1> SUFFICES ASSUME Init PROVE Memory
  OBVIOUS
<1>1. \A n \in Names : lastRun[n] = Never /\ toldAt[n] = Never /\ causes[n] = Never
  BY DEF Init
<1>2. pc = "idle" /\ now = 0
  BY DEF Init
<1> QED BY <1>1, <1>2 DEF Memory, PassIsRecent, InHand, MarksAreTold, ToldIsKept, Never

\* A step that touches neither the clock's goroutine, the time, the memory nor
\* the record.
LEMMA MemoryUntouched ==
  ASSUME Memory,
         UNCHANGED <<now, declared, lastRun, causes, clock, toldAt, excused>>
  PROVE  Memory'
BY DEF Memory, PassIsRecent, InHand, MarksAreTold, ToldIsKept, Pending, Declares, clock

\* The pass gives up or is through: nothing was pending.
LEMMA MemoryOnReturn ==
  ASSUME Memory, pc # "record", PassReturns,
         UNCHANGED <<now, declared, lastRun, causes, toldAt, excused>>
  PROVE  Memory'
BY DEF Memory, PassIsRecent, InHand, MarksAreTold, ToldIsKept, Pending, Declares,
       PassReturns

\* A restart takes the memory from the record (alreadyRanToday).
LEMMA MemoryOnCrash ==
  ASSUME TypeOK, Memory, NEW d \in Declarations, Crash(d)
  PROVE  Memory'
<1>1. ASSUME NEW n \in Names
      PROVE  /\ now \in Nat /\ now' = now
             /\ causes[n] \in Nat \cup {-1} /\ causes'[n] = causes[n]
             /\ toldAt[n] \in Nat \cup {-1} /\ toldAt'[n] = toldAt[n]
             /\ lastRun'[n] = AlreadyRanToday(d, n) \/ lastRun'[n] = Never
  BY DEF TypeOK, Crash, Time, Never
<1>2. ASSUME NEW n \in Names
      PROVE  lastRun'[n] = Never \/ lastRun'[n] = causes[n]
  BY <1>1 DEF AlreadyRanToday
<1>3. PassIsRecent'
  BY <1>1, <1>2 DEF Memory, PassIsRecent, Crash, Never
<1>4. InHand'
  BY DEF InHand, Crash
<1>5. MarksAreTold'
  BY <1>1, <1>2 DEF Memory, MarksAreTold
<1>6. ASSUME NEW n \in Names, n \notin excused', toldAt'[n] # Never
      PROVE  /\ lastRun'[n] >= toldAt'[n]
                 \/ (lastRun'[n] = Never /\ causes'[n] >= toldAt'[n])
             /\ Declares(declared', n) /\ Day(toldAt'[n]) = Day(now')
                  => lastRun'[n] >= toldAt'[n]
  <2>1. lastRun'[n] = AlreadyRanToday(d, n) /\ causes[n] >= toldAt[n]
    BY <1>1, <1>6 DEF Crash, TypeOK
  <2>2. causes[n] \in Nat /\ toldAt[n] \in Nat /\ causes[n] <= now
    BY <1>1, <1>6, <2>1 DEF Memory, PassIsRecent, Never
  <2>3. Day(toldAt[n]) <= Day(causes[n]) /\ Day(causes[n]) <= Day(now)
        /\ Day(toldAt[n]) \in Nat /\ Day(causes[n]) \in Nat /\ Day(now) \in Nat
    BY <1>1, <2>1, <2>2, DayIsMonotone
  <2>4. ASSUME Declares(declared', n), Day(toldAt'[n]) = Day(now')
        PROVE  lastRun'[n] >= toldAt'[n]
    <3>1. Day(causes[n]) = Day(now)
      BY <1>1, <2>3, <2>4
    <3>2. Declares(d, n)
      BY <2>4 DEF Crash
    <3> QED BY <1>1, <2>1, <2>2, <3>1, <3>2 DEF AlreadyRanToday, Never
  <2> QED BY <1>1, <1>2, <2>1, <2>4
<1>7. ToldIsKept'
  BY <1>6 DEF ToldIsKept
<1> QED BY <1>3, <1>4, <1>5, <1>7 DEF Memory

\* A reread of the declaration keeps what is remembered of the sessions that stay.
LEMMA MemoryOnReread ==
  ASSUME TypeOK, Memory, NEW d \in Declarations, Reread(d)
  PROVE  Memory'
<1>1. ASSUME NEW n \in Names
      PROVE  /\ now \in Nat /\ now' = now
             /\ causes[n] \in Nat \cup {-1} /\ causes'[n] = causes[n]
             /\ toldAt[n] \in Nat \cup {-1} /\ toldAt'[n] = toldAt[n]
             /\ lastRun[n] \in Nat \cup {-1}
             /\ \/ lastRun'[n] = lastRun[n]
                \/ lastRun[n] = Never /\ lastRun'[n] = AlreadyRanToday(d, n)
  BY DEF TypeOK, Reread, Time, Never
<1>2. ASSUME NEW n \in Names
      PROVE  lastRun'[n] = lastRun[n] \/ (lastRun[n] = Never /\ lastRun'[n] = causes[n])
  BY <1>1 DEF AlreadyRanToday
<1>3. pc = "idle" /\ pc' = "idle"
  BY DEF Reread, clock
<1>4. PassIsRecent'
  BY <1>1, <1>2, <1>3 DEF Memory, PassIsRecent
<1>5. InHand'
  BY <1>3 DEF InHand
<1>6. MarksAreTold'
  BY <1>1, <1>2 DEF Memory, MarksAreTold
<1>7. ASSUME NEW n \in Names, n \notin excused', toldAt'[n] # Never
      PROVE  /\ lastRun'[n] >= toldAt'[n]
                 \/ (lastRun'[n] = Never /\ causes'[n] >= toldAt'[n])
             /\ Declares(declared', n) /\ Day(toldAt'[n]) = Day(now')
                  => lastRun'[n] >= toldAt'[n]
  <2>1. n \notin excused /\ toldAt[n] # Never /\ ~Pending(n)
    BY <1>1, <1>3, <1>7 DEF Reread, Pending
  <2>2. lastRun[n] >= toldAt[n] \/ (lastRun[n] = Never /\ causes[n] >= toldAt[n])
    BY <2>1 DEF Memory, ToldIsKept
  <2>3. CASE lastRun[n] # Never
    <3>1. lastRun'[n] = lastRun[n] /\ lastRun[n] >= toldAt[n]
      BY <1>2, <2>2, <2>3
    <3> QED BY <1>1, <3>1
  <2>4. CASE lastRun[n] = Never
    <3>1. causes[n] >= toldAt[n] /\ toldAt[n] \in Nat /\ causes[n] \in Nat
      BY <1>1, <2>1, <2>2, <2>4 DEF Never
    <3>2. lastRun'[n] = AlreadyRanToday(d, n)
      BY <1>7, <2>4 DEF Reread, TypeOK
    <3>3. causes[n] <= now
      BY DEF Memory, PassIsRecent
    <3>4. Day(toldAt[n]) <= Day(causes[n]) /\ Day(causes[n]) <= Day(now)
          /\ Day(toldAt[n]) \in Nat /\ Day(causes[n]) \in Nat /\ Day(now) \in Nat
      BY <1>1, <3>1, <3>3, DayIsMonotone
    <3>5. ASSUME Declares(declared', n), Day(toldAt'[n]) = Day(now')
          PROVE  lastRun'[n] >= toldAt'[n]
      <4>1. Day(causes[n]) = Day(now)
        BY <1>1, <3>4, <3>5
      <4>2. Declares(d, n)
        BY <3>5 DEF Reread
      <4> QED BY <1>1, <3>1, <3>2, <4>1, <4>2 DEF AlreadyRanToday, Never
    <3> QED BY <1>1, <1>2, <2>4, <3>1, <3>5
  <2> QED BY <2>3, <2>4
<1>8. ToldIsKept'
  BY <1>7 DEF ToldIsKept
<1> QED BY <1>4, <1>5, <1>6, <1>8 DEF Memory

\* A pass begins: it forgets the windows that ran empty (forgetEmptyTurns), and marks none.
LEMMA MemoryOnPass ==
  ASSUME TypeOK, Memory, Pass
  PROVE  Memory'
<1>1. ASSUME NEW n \in Names
      PROVE  /\ now \in Nat /\ now' = now /\ tnow' = now
             /\ causes'[n] = causes[n]
             /\ toldAt[n] \in Nat \cup {-1} /\ toldAt'[n] = toldAt[n]
             /\ lastRun[n] \in Nat \cup {-1}
             /\ n \notin excused' => n \notin excused /\ lastRun'[n] = lastRun[n]
             /\ lastRun'[n] = lastRun[n] \/ lastRun'[n] = Never
  BY DEF TypeOK, Pass, Time, Never
<1>2. pc = "idle" /\ pc' = "scan" /\ declared' = declared /\ now' = now /\ tnow' = now
  BY DEF Pass
<1>3. PassIsRecent'
  <2>1. now \in Nat /\ PassLimit \in Nat
    BY ScheduleAssumption, HarnessClockAssumption DEF TypeOK, Time
  <2> QED BY <1>1, <1>2, <2>1 DEF Memory, PassIsRecent, Never
<1>4. InHand'
  BY <1>2 DEF InHand
<1>5. MarksAreTold'
  BY <1>1 DEF Memory, MarksAreTold
<1>6. ToldIsKept'
  BY <1>1, <1>2 DEF Memory, ToldIsKept, Pending, Declares
<1> QED BY <1>3, <1>4, <1>5, <1>6 DEF Memory

\* A session that is due is held in hand before it is marked.
LEMMA MemoryOnComesTo ==
  ASSUME TypeOK, Memory, ComesTo
  PROVE  Memory'
<1> PICK i \in DueFrom(pos) :
       IF turn # Nobody /\ ~declared[i].cannotWait
       THEN PassReturns
       ELSE /\ pc' = IF turn = Nobody THEN "start" ELSE "steer"
            /\ pos' = i
            /\ UNCHANGED tnow
  BY DEF ComesTo
<1>1. /\ pc = "scan"
      /\ UNCHANGED <<now, declared, lastRun, causes, toldAt, excused>>
  BY DEF ComesTo, history
<1>2. CASE turn # Nobody /\ ~declared[i].cannotWait
  BY <1>1, <1>2, MemoryOnReturn
<1>3. CASE ~(turn # Nobody /\ ~declared[i].cannotWait)
  <2>1. pc' \in {"start", "steer"} /\ pos' = i /\ tnow' = tnow
    BY <1>3
  <2>2. Due(declared[i], tnow, lastRun[declared[i].name])
    BY DEF DueFrom
  <2>3. InHand'
    BY <1>1, <2>1, <2>2 DEF InHand, Due, InWindow
  <2> QED BY <1>1, <2>1, <2>3
       DEF Memory, PassIsRecent, MarksAreTold, ToldIsKept, Pending, Declares
<1> QED BY <1>2, <1>3

\* A session told of is remembered as told before its mark is set.
LEMMA MemoryOnTold ==
  ASSUME TypeOK, Memory, pc \in {"start", "steer"}, Told
  PROVE  Memory'
<1> DEFINE n == declared[pos].name
<1>1. n \in Names
  BY InHandIsDeclared
<1>2. /\ toldAt' = [toldAt EXCEPT ![n] = tnow]
      /\ excused' = excused \ {n}
      /\ pc' = "record" /\ pos' = pos /\ tnow' = tnow
      /\ now' = now /\ declared' = declared /\ lastRun' = lastRun /\ causes' = causes
  BY DEF Told
<1>3. /\ toldAt'[n] = tnow /\ tnow \in Nat /\ now \in Nat /\ tnow # Never
      /\ \A m \in Names \ {n} : toldAt'[m] = toldAt[m]
  BY <1>1, <1>2 DEF TypeOK, Time, Never
<1>4. tnow <= now /\ \A m \in Names : lastRun[m] <= tnow /\ toldAt[m] <= tnow
  BY DEF Memory, PassIsRecent
<1>5. PassIsRecent'
  BY <1>2, <1>3, <1>4 DEF Memory, PassIsRecent
<1>6. InHand'
  BY <1>2, <1>3 DEF Memory, InHand, Due, InWindow
<1>7. MarksAreTold'
  <2>1. ASSUME NEW m \in Names, NEW t \in Nat, t <= tnow
        PROVE  Day(t) <= Day(tnow)
    BY <1>3, <2>1, DayIsMonotone
  <2>2. lastRun[n] # Never => Day(lastRun[n]) <= Day(tnow)
    BY <1>1, <1>4, <2>1 DEF TypeOK, Time
  <2>3. causes[n] # Never => Day(causes[n]) <= Day(tnow)
    <3> SUFFICES ASSUME causes[n] # Never PROVE Day(causes[n]) <= Day(tnow)
      OBVIOUS
    <3>1. toldAt[n] # Never /\ Day(causes[n]) <= Day(toldAt[n])
      BY <1>1 DEF Memory, MarksAreTold
    <3>2. causes[n] \in Nat /\ toldAt[n] \in Nat /\ toldAt[n] <= tnow
      BY <1>1, <1>4, <3>1 DEF TypeOK, Time
    <3>3. Day(toldAt[n]) <= Day(tnow) /\ Day(toldAt[n]) \in Nat /\ Day(tnow) \in Nat
      BY <1>3, <3>2, DayIsMonotone
    <3>4. Day(causes[n]) \in Nat
      BY <3>2, DayIsMonotone
    <3> QED BY <3>1, <3>3, <3>4
  <2> QED BY <1>1, <1>2, <1>3, <2>2, <2>3 DEF Memory, MarksAreTold
<1>8. ToldIsKept'
  <2>1. \A m \in Names : ~Pending(m)
    BY DEF Pending
  <2>2. \A m \in Names : ~Pending(m)' => m # n
    BY <1>2 DEF Pending
  <2> QED BY <1>2, <1>3, <2>1, <2>2 DEF Memory, ToldIsKept, Declares
<1> QED BY <1>5, <1>6, <1>7, <1>8 DEF Memory

\* The mark of a session, or of one the record refused.
LEMMA MemoryOnMarked ==
  ASSUME TypeOK, Memory, Marked
  PROVE  Memory'
<1> DEFINE n == declared[pos].name
<1>1. /\ n \in Names /\ declared \in Declarations /\ pos \in DOMAIN declared
  BY InHandIsDeclared DEF Marked
<1>2. /\ pc = "record" /\ pc' = "scan" /\ tnow' = tnow /\ now' = now
      /\ declared' = declared /\ toldAt' = toldAt /\ excused' = excused
      /\ lastRun' = [lastRun EXCEPT ![n] = tnow]
      /\ causes' = [causes EXCEPT ![n] = now] \/ causes' = causes
  BY DEF Marked, history
<1>3. /\ lastRun'[n] = tnow /\ tnow \in Nat /\ now \in Nat
      /\ causes'[n] = now \/ causes'[n] = causes[n]
      /\ \A m \in Names \ {n} : lastRun'[m] = lastRun[m] /\ causes'[m] = causes[m]
  BY <1>1, <1>2 DEF TypeOK, Time
<1>4. toldAt[n] = tnow /\ InWindow(declared[pos], tnow) /\ tnow <= now /\ now <= tnow + PassLimit
  BY <1>2 DEF Memory, InHand, PassIsRecent
<1>5. Day(now) = Day(tnow) /\ Day(tnow) \in Nat
  <2>1. Day(now) = Day(tnow)
    BY <1>1, <1>4, PassStaysInItsDay DEF TypeOK
  <2> QED BY <1>3, <2>1, DayIsMonotone
<1>6. PassIsRecent'
  BY <1>2, <1>3, <1>4 DEF Memory, PassIsRecent
<1>7. InHand'
  BY <1>2 DEF InHand
<1>8. MarksAreTold'
  <2>1. tnow # Never
    BY <1>3 DEF Never
  <2> QED BY <1>1, <1>2, <1>3, <1>4, <1>5, <2>1 DEF Memory, MarksAreTold
<1>9. ToldIsKept'
  <2>1. \A m \in Names \ {n} : ~Pending(m)
    BY DEF Pending
  <2> QED BY <1>1, <1>2, <1>3, <1>4, <2>1 DEF Memory, ToldIsKept, Declares
<1> QED BY <1>6, <1>7, <1>8, <1>9 DEF Memory

\* Time alone makes no mark untrue.
LEMMA MemoryOnAdvance ==
  ASSUME TypeOK, Memory, Advance
  PROVE  Memory'
<1>1. /\ now \in Nat /\ now' = now + 1
      /\ UNCHANGED <<declared, lastRun, causes, pc, pos, tnow, toldAt, excused>>
      /\ pc = "idle" \/ now < tnow + PassLimit
      /\ tnow \in Nat /\ PassLimit \in Nat
  BY ScheduleAssumption, HarnessClockAssumption DEF Advance, TypeOK, Time, clock, history
<1>2. \A n \in Names : /\ lastRun[n] \in Nat \cup {-1} /\ toldAt[n] \in Nat \cup {-1}
                       /\ causes[n] \in Nat \cup {-1}
  BY DEF TypeOK, Time, Never
<1>3. PassIsRecent'
  BY <1>1, <1>2 DEF Memory, PassIsRecent
<1>4. InHand' /\ MarksAreTold'
  BY <1>1 DEF Memory, InHand, MarksAreTold, Due, InWindow
<1>5. ASSUME NEW n \in Names, toldAt[n] # Never, Day(toldAt[n]) = Day(now')
      PROVE  Day(toldAt[n]) = Day(now)
  <2>1. toldAt[n] \in Nat /\ toldAt[n] <= now
    BY <1>2, <1>5 DEF Memory, PassIsRecent, Never
  <2>2. Day(toldAt[n]) <= Day(now) /\ Day(toldAt[n]) \in Nat /\ Day(now) \in Nat
    BY <1>1, <2>1, DayIsMonotone
  <2>3. Day(now) <= Day(now') /\ Day(now') \in Nat
    BY <1>1, DayIsMonotone
  <2> QED BY <1>5, <2>2, <2>3
<1>6. ToldIsKept'
  BY <1>1, <1>5 DEF Memory, ToldIsKept, Pending, Declares
<1> QED BY <1>3, <1>4, <1>6 DEF Memory

\* Every step of the scheduler keeps its memory true.
LEMMA NextMemory == TypeOK /\ Memory /\ [Next]_vars => Memory'
<1> SUFFICES ASSUME TypeOK, Memory, [Next]_vars PROVE Memory'
  OBVIOUS
<1>1. ASSUME NEW d \in Declarations, Crash(d) PROVE Memory'
  BY <1>1, MemoryOnCrash
<1>2. ASSUME NEW d \in Declarations, Reread(d) PROVE Memory'
  BY <1>2, MemoryOnReread
<1>3. CASE Pass
  BY <1>3, MemoryOnPass
<1>4. CASE PassEnds
  BY <1>4, MemoryOnReturn DEF PassEnds, history
<1>5. CASE ComesTo
  BY <1>5, MemoryOnComesTo
<1>6. CASE Started
  BY <1>6, MemoryOnTold DEF Started
<1>7. CASE Steered
  BY <1>7, MemoryOnTold DEF Steered
<1>8. CASE NotTold
  BY <1>8, MemoryOnReturn DEF NotTold, history
<1>9. CASE Marked
  BY <1>9, MemoryOnMarked
<1>10. ASSUME NEW p \in People, OtherStarts(p) PROVE Memory'
  BY <1>10, MemoryUntouched DEF OtherStarts, history
<1>11. ASSUME NEW silent \in BOOLEAN, TurnEnds(silent) PROVE Memory'
  BY <1>11, MemoryUntouched DEF TurnEnds, history
<1>12. ASSUME NEW n \in Names \cup People, Report(n) PROVE Memory'
  BY <1>12, MemoryUntouched DEF Report, history
<1>13. CASE Advance
  BY <1>13, MemoryOnAdvance
<1>14. CASE UNCHANGED vars
  BY <1>14, MemoryUntouched DEF vars, history
<1> QED BY <1>1, <1>2, <1>3, <1>4, <1>5, <1>6, <1>7, <1>8, <1>9, <1>10, <1>11,
           <1>12, <1>13, <1>14, InForceIsDeclaration DEF Next

\* The memory of what ran is true of every state of the scheduler.
LEMMA MemoryKept == Spec => [](TypeOK /\ Memory)
<1>1. Init => TypeOK /\ Memory
  BY InitType, InitMemory
<1>2. TypeOK /\ Memory /\ [Next]_vars => (TypeOK /\ Memory)'
  BY NextType, NextMemory
<1> QED BY <1>1, <1>2, PTL DEF Spec

-----------------------------------------------------------------------------
(* What follows from it.                                                   *)

\* What is remembered as run was told: the property follows from the memory.
LEMMA MemoryMeansTold == TypeOK /\ Memory => MarkedMeansTold
<1> SUFFICES ASSUME TypeOK, Memory, NEW n \in Names,
                    lastRun[n] # Never, Day(lastRun[n]) = Day(now)
             PROVE  toldAt[n] # Never /\ Day(toldAt[n]) = Day(now)
  BY DEF MarkedMeansTold
<1>1. toldAt[n] # Never /\ Day(lastRun[n]) <= Day(toldAt[n]) /\ toldAt[n] <= now
  BY DEF Memory, MarksAreTold, PassIsRecent
<1>2. toldAt[n] \in Nat /\ now \in Nat
  BY <1>1 DEF TypeOK, Time
<1>3. Day(toldAt[n]) <= Day(now) /\ Day(toldAt[n]) \in Nat /\ Day(now) \in Nat
  BY <1>1, <1>2, DayIsMonotone
<1> QED BY <1>1, <1>3

\* MarkedToday: fireDue, whatAlreadyRanToday and rereadTheDeclaration mark a
\* session as run today only when it was put in front of the agent today.
THEOREM MarkedToday == Spec => []MarkedMeansTold
BY MemoryKept, MemoryMeansTold, PTL

\* A session still due by the memory is spaced from what was told, or excused.
LEMMA DueMayBeTold ==
  ASSUME TypeOK, Memory, pc \in {"start", "steer"}
  PROVE  MayBeTold(declared[pos])
<1> DEFINE s == declared[pos]
<1> DEFINE n == s.name
<1>1. /\ declared \in Declarations /\ pos \in DOMAIN declared /\ s \in Session
      /\ n \in Names /\ Declares(declared, n)
  BY InHandIsDeclared
<1> SUFFICES ASSUME n \notin excused, toldAt[n] # Never, Day(toldAt[n]) = Day(tnow)
             PROVE  s.at = Never /\ tnow - toldAt[n] >= s.every
  BY DEF MayBeTold, Spaced
<1>2. Due(s, tnow, lastRun[n])
  BY DEF Memory, InHand
<1>3. tnow <= now /\ now <= tnow + PassLimit /\ lastRun[n] <= tnow
  BY <1>1 DEF Memory, PassIsRecent
<1>4. Day(now) = Day(tnow)
  BY <1>1, <1>2, <1>3, PassStaysInItsDay DEF Due, TypeOK
<1>5. lastRun[n] >= toldAt[n]
  <2>1. ~Pending(n)
    BY DEF Pending
  <2> QED BY <1>1, <1>4, <2>1 DEF Memory, ToldIsKept
<1>6. toldAt[n] \in Nat /\ lastRun[n] \in Nat /\ tnow \in Nat
  BY <1>1, <1>5 DEF TypeOK, Time, Never
<1>7. Day(lastRun[n]) = Day(tnow)
  <2>1. Day(toldAt[n]) <= Day(lastRun[n]) /\ Day(lastRun[n]) <= Day(tnow)
        /\ Day(toldAt[n]) \in Nat /\ Day(lastRun[n]) \in Nat /\ Day(tnow) \in Nat
    BY <1>3, <1>5, <1>6, DayIsMonotone
  <2> QED BY <2>1
<1>8. s.at = Never /\ tnow - lastRun[n] >= s.every
  BY <1>2, <1>6, <1>7 DEF Due, Never
<1>9. s.every \in Int
  BY <1>1 DEF Session
<1> QED BY <1>5, <1>6, <1>8, <1>9

\* NoUnexcusedRepeat: no restart, edit of the declaration, silent turn of
\* another session or steering makes fireDue tell a session twice without one of
\* the excuses RepeatsAreExcused names.
THEOREM NoUnexcusedRepeat == Spec => RepeatsAreExcused
<1>1. TypeOK /\ Memory /\ [Next]_vars =>
        [pc' = "record" /\ pc \in {"start", "steer"} => MayBeTold(declared[pos])]_vars
  BY DueMayBeTold
<1> QED BY <1>1, MemoryKept, PTL DEF Spec, RepeatsAreExcused


-----------------------------------------------------------------------------
(* The store of wake-ups: the numbers given out again.                     *)

\* A bounded set of numbers has a largest: the least distance from the bound.
LEMMA LargestExists ==
  ASSUME NEW S \in SUBSET Nat, S # {}, NEW n \in Nat, \A x \in S : x <= n
  PROVE  \E x \in S : \A y \in S : y <= x
<1> DEFINE T == {n - x : x \in S}
<1>0. PICK z \in S : TRUE
  OBVIOUS
<1>1. T \subseteq Nat /\ T # {}
  <2>1. \A x \in S : n - x \in Nat
    OBVIOUS
  <2>2. n - z \in T
    BY <1>0
  <2> QED
    BY <2>1, <2>2
<1>2. \E t \in T : \A u \in T : ~(<<u, t>> \in OpToRel(<, Nat))
  BY <1>1, NatLessThanWellFounded, WFMin, Zenon
<1>3. PICK t \in T : \A u \in T : ~(u < t)
  BY <1>1, <1>2 DEF OpToRel
<1>4. PICK x \in S : t = n - x
  BY <1>3
<1>5. ASSUME NEW y \in S
      PROVE  y <= x
  <2>1. n - y \in T
    OBVIOUS
  <2>2. ~(n - y < n - x)
    BY <1>3, <1>4, <2>1
  <2> QED
    BY <2>2, <1>4
<1> QED
  BY <1>5

\* Open goes on from a number no wake-up of the file is above.
LEMMA LastNumberIsLast ==
  ASSUME NEW ws \in SUBSET Wakeup, NEW n \in Nat, \A w \in ws : w.id <= n
  PROVE  LastNumber(ws) \in Nat /\ \A w \in ws : w.id <= LastNumber(ws)
<1> DEFINE S == {0} \cup {w.id : w \in ws}
<1>1. S \in SUBSET Nat /\ S # {} /\ \A x \in S : x <= n
  BY DEF Wakeup
<1>2. \E x \in S : \A y \in S : y <= x
  BY <1>1, LargestExists
<1>3. Max(S) \in S /\ \A y \in S : Max(S) >= y
  BY <1>1, <1>2 DEF Max
<1> QED
  BY <1>1, <1>3 DEF LastNumber

-----------------------------------------------------------------------------
(* The inductive invariant of the store.                                   *)

USE DEF Ask, Time, NoPrice

\* An empty store in memory and on disk.
LEMMA StoreBegins == StoreInit => WakeupsInv
<1> SUFFICES ASSUME StoreInit PROVE WakeupsInv
  OBVIOUS
<1>1. StoreTypeOK
  BY WakeupsAssumption, HarnessClockAssumption DEF StoreInit, StoreTypeOK
<1>2. Numbered /\ AskedFor /\ InOnePlace
  BY DEF StoreInit, Numbered, NumbersDiffer, AskedFor, InOnePlace, AsksDiffer, Asks
<1> QED
  BY <1>1, <1>2 DEF WakeupsInv

\* A new wake-up bears a number and stands for a request that nothing bears yet,
\* whether its write fails or not (add).
LEMMA AddKeeps ==
  ASSUME WakeupsInv, NEW kind \in {"at", "above", "below"}, NEW when \in Nat,
         Add(kind, when)
  PROVE  WakeupsInv'
<1> DEFINE w == [id |-> next + 1, ask |-> asks + 1, kind |-> kind, when |-> when]
<1> USE DEF WakeupsInv
<1>1. w \in Wakeup
  BY WakeupsAssumption DEF Add, StoreTypeOK, Wakeup
<1>2. /\ list' \subseteq list \cup {w} /\ file' \subseteq list \cup file \cup {w}
      /\ file' \in {list', file} /\ due' = due
      /\ next' = next + 1 /\ asks' = asks + 1 /\ asks < MaxAsks
      /\ told' = told /\ withdrawn' = withdrawn /\ returned' = returned
  <2>1. CASE list' = list \cup {w} /\ file' = list'
    BY <2>1 DEF Add
  <2>2. CASE UNCHANGED <<list, file, granted>>
    BY <2>2 DEF Add
  <2> QED
    BY <2>1, <2>2 DEF Add
<1>3. StoreTypeOK'
  <2>1. list' \subseteq Wakeup /\ file' \subseteq Wakeup /\ due' \subseteq Wakeup
    BY <1>1, <1>2 DEF StoreTypeOK
  <2>2. next' \in Nat /\ \A v \in list' : v.id <= next'
    BY <1>2 DEF StoreTypeOK, Wakeup
  <2>3. asks' \in 0..MaxAsks
    BY <1>2, WakeupsAssumption, HarnessClockAssumption DEF StoreTypeOK
  <2>4. granted' \subseteq granted \cup {w.ask}
    BY DEF Add
  <2>5. granted' \subseteq Ask
    BY <1>1, <2>4 DEF StoreTypeOK, Wakeup
  <2> QED
    BY <2>1, <2>2, <2>3, <2>5 DEF Add, StoreTypeOK
<1>4. \A v \in list \cup file \cup due : v \in Wakeup /\ v.id \in Nat /\ v.ask \in Nat
  BY DEF StoreTypeOK, Wakeup
<1>5. Numbered'
  <2>1. \A v \in list \cup file : v.id <= next /\ v.id # w.id
    BY <1>4 DEF Numbered, StoreTypeOK
  <2>2. \A v \in list' \cup file' : v.id <= next'
    BY <1>2, <1>4, <2>1 DEF StoreTypeOK
  <2>3. NumbersDiffer(list)' /\ NumbersDiffer(file)'
    BY <1>2, <2>1 DEF Numbered, NumbersDiffer
  <2> QED
    BY <2>2, <2>3 DEF Numbered
<1>6. \A v \in list \cup file \cup due : v.ask <= asks /\ v.ask # w.ask
  BY <1>4 DEF AskedFor, StoreTypeOK
<1>7. AskedFor'
  <2>1. \A v \in list' \cup file' \cup due' : v.ask <= asks'
    BY <1>2, <1>4, <1>6 DEF StoreTypeOK
  <2>2. \A a \in Ask : a > asks' => told'[a] = 0 /\ a \notin withdrawn'
    BY <1>2 DEF AskedFor, StoreTypeOK
  <2> QED
    BY <2>1, <2>2 DEF AskedFor
<1>8. InOnePlace'
  <2>1. AsksDiffer(list)' /\ AsksDiffer(file)' /\ AsksDiffer(due)'
    BY <1>2, <1>6 DEF InOnePlace, AsksDiffer
  <2>2. w.ask \in Ask /\ told[w.ask] = 0 /\ w.ask \notin withdrawn
    BY <1>2, WakeupsAssumption DEF AskedFor, StoreTypeOK
  <2>3. Asks(list') \subseteq Asks(list) \cup {w.ask} /\ w.ask \notin Asks(due)
    BY <1>2, <1>6 DEF Asks
  <2>4. Asks(list' \cup due') \subseteq Asks(list \cup due) \cup {w.ask}
    BY <1>2 DEF Asks
  <2> HIDE DEF w
  <2> QED
    BY <1>2, <2>1, <2>2, <2>3, <2>4 DEF InOnePlace
<1> QED
  BY <1>3, <1>5, <1>7, <1>8

\* What is taken back leaves the list, and a write that fails leaves the file as it was
\* (Cancel).
LEMMA CancelKeeps == WakeupsInv /\ Cancel => WakeupsInv'
<1> SUFFICES ASSUME WakeupsInv, Cancel PROVE WakeupsInv'
  OBVIOUS
<1> USE DEF WakeupsInv
<1>1. PICK w \in list :
        /\ list' = list \ {w}
        /\ file' = list' \/ (WriteErrors /\ file' = file)
        /\ withdrawn' = withdrawn \cup {w.ask}
        /\ UNCHANGED <<now, price, next, due, asks, granted, taken, told, returned, crashes>>
  BY DEF Cancel
<1>2. w.ask \in Ask /\ w.ask <= asks
  BY DEF StoreTypeOK, Wakeup, AskedFor
<1>3. StoreTypeOK'
  BY <1>1, <1>2 DEF StoreTypeOK
<1>4. Numbered'
  BY <1>1 DEF Numbered, NumbersDiffer
<1>5. AskedFor'
  BY <1>1, <1>2 DEF AskedFor, StoreTypeOK
<1>6. InOnePlace'
  <2>1. AsksDiffer(list)' /\ AsksDiffer(file)' /\ AsksDiffer(due)'
    BY <1>1 DEF InOnePlace, AsksDiffer
  <2>2. Asks(list') \subseteq Asks(list) /\ w.ask \notin Asks(list') /\ w.ask \in Asks(list)
    BY <1>1 DEF InOnePlace, AsksDiffer, Asks
  <2>3. Asks(list' \cup due') = Asks(list') \cup Asks(due)
    BY <1>1 DEF Asks
  <2>4. Asks(list \cup due) = Asks(list) \cup Asks(due)
    BY DEF Asks
  <2> QED
    BY <1>1, <2>1, <2>2, <2>3, <2>4 DEF InOnePlace
<1> QED
  BY <1>3, <1>4, <1>5, <1>6

\* What fires moves from the list to the hand of the clock (Due).
LEMMA TakeDueKeeps == WakeupsInv /\ TakeDue => WakeupsInv'
<1> SUFFICES ASSUME WakeupsInv, TakeDue PROVE WakeupsInv'
  OBVIOUS
<1> USE DEF WakeupsInv
<1>1. PICK fired \in SUBSET list :
        /\ due = {} /\ list' = list \ fired /\ due' = fired
        /\ taken' = taken \cup Asks(fired)
        /\ file' = list' \/ (WriteErrors /\ file' = file)
        /\ UNCHANGED <<now, price, next, asks, granted, withdrawn, told, returned, crashes>>
  BY DEF TakeDue
<1>2. Asks(fired) \subseteq Ask
  BY DEF StoreTypeOK, Wakeup, Asks
<1>3. StoreTypeOK'
  BY <1>1, <1>2 DEF StoreTypeOK
<1>4. Numbered'
  BY <1>1 DEF Numbered, NumbersDiffer
<1>5. AskedFor'
  BY <1>1 DEF AskedFor
<1>6. InOnePlace'
  <2>1. AsksDiffer(list)' /\ AsksDiffer(file)' /\ AsksDiffer(due)'
    BY <1>1 DEF InOnePlace, AsksDiffer
  <2>2. Asks(list') \cap Asks(due') = {}
    BY <1>1 DEF InOnePlace, AsksDiffer, Asks
  <2>3. Asks(list' \cup due') = Asks(list \cup due)
    BY <1>1 DEF Asks
  <2> QED
    BY <1>1, <2>1, <2>2, <2>3 DEF InOnePlace
<1> QED
  BY <1>3, <1>4, <1>5, <1>6

\* What is told was in the hand of the clock, and in no other place (fireWakeups).
LEMMA TellOneKeeps == WakeupsInv /\ TellOne => WakeupsInv'
<1> SUFFICES ASSUME WakeupsInv, TellOne PROVE WakeupsInv'
  OBVIOUS
<1> USE DEF WakeupsInv
<1>1. PICK w \in due :
        /\ due' = due \ {w}
        /\ told' = [told EXCEPT ![w.ask] = @ + 1]
        /\ UNCHANGED <<now, price, list, next, file, asks, granted, withdrawn, taken,
                       returned, crashes>>
  BY DEF TellOne
<1>2. w.ask \in Ask /\ w.ask <= asks
  BY DEF StoreTypeOK, Wakeup, AskedFor
<1>3. StoreTypeOK'
  BY <1>1, <1>2 DEF StoreTypeOK
<1>4. Numbered'
  BY <1>1 DEF Numbered, NumbersDiffer
<1>5. AskedFor'
  BY <1>1, <1>2 DEF AskedFor, StoreTypeOK
<1>6. InOnePlace'
  <2>1. AsksDiffer(list)' /\ AsksDiffer(file)' /\ AsksDiffer(due)'
    BY <1>1 DEF InOnePlace, AsksDiffer
  <2>2. Asks(due') \subseteq Asks(due) /\ w.ask \notin Asks(due') /\ w.ask \in Asks(due)
    BY <1>1 DEF InOnePlace, AsksDiffer, Asks
  <2>3. Asks(list' \cup due') = Asks(list) \cup Asks(due') /\ Asks(list') = Asks(list)
    BY <1>1 DEF Asks
  <2>4. Asks(list \cup due) = Asks(list) \cup Asks(due)
    BY DEF Asks
  <2>5. ASSUME NEW a \in Ask \ returned
        PROVE  /\ a \in Asks(list' \cup due') => told'[a] = 0 /\ a \notin withdrawn
               /\ a \notin Asks(list') \cap Asks(due')
               /\ told'[a] # 0 => told'[a] = 1 /\ a \notin withdrawn
    <3>1. CASE a = w.ask
      <4>1. told[a] = 0 /\ a \notin withdrawn /\ a \notin Asks(list)
        BY <2>2, <2>4, <3>1 DEF InOnePlace
      <4>2. told'[a] = 1
        BY <1>1, <1>2, <3>1, <4>1 DEF StoreTypeOK
      <4> QED
        BY <2>2, <2>3, <3>1, <4>1, <4>2
    <3>2. CASE a # w.ask
      <4>1. told'[a] = told[a]
        BY <1>1, <3>2 DEF StoreTypeOK
      <4> QED
        BY <2>2, <2>3, <2>4, <4>1 DEF InOnePlace
    <3> QED
      BY <3>1, <3>2
  <2> QED
    BY <1>1, <2>1, <2>5 DEF InOnePlace
<1> QED
  BY <1>3, <1>4, <1>5, <1>6

\* What only the file still had comes back, and is said to; the numbers go on from the
\* largest of the file (Open).
LEMMA RestartKeeps == WakeupsInv /\ Restart => WakeupsInv'
<1> SUFFICES ASSUME WakeupsInv, Restart PROVE WakeupsInv'
  OBVIOUS
<1> USE DEF WakeupsInv, Restart
<1>1. LastNumber(file) \in Nat /\ \A w \in file : w.id <= LastNumber(file)
  BY LastNumberIsLast DEF StoreTypeOK, Numbered
<1>2. Asks(file) \subseteq Ask /\ Asks(list) \subseteq Ask
  BY DEF StoreTypeOK, Wakeup, Asks
<1>3. StoreTypeOK'
  <2>1. list' = file /\ due' = {} /\ next' = LastNumber(file) /\ crashes' = crashes + 1
        /\ returned' = returned \cup (Asks(file) \ Asks(list))
        /\ UNCHANGED <<now, price, file, asks, granted, withdrawn, taken, told>>
    OBVIOUS
  <2>2. next' \in Nat /\ \A w \in list' : w.id <= next'
    BY <1>1, <2>1
  <2>3. returned' \subseteq Ask /\ crashes' \in Nat
    <3>1. returned \subseteq Ask /\ crashes \in Nat
      BY DEF StoreTypeOK
    <3> HIDE DEF Restart, WakeupsInv
    <3>2. returned' \subseteq Ask
      BY <1>2, <2>1, <3>1
    <3>3. crashes' \in Nat
      BY <2>1, <3>1
    <3> QED
      BY <3>2, <3>3
  <2>4. /\ now' \in Time /\ price' \in Prices /\ asks' \in 0..MaxAsks
        /\ list' \subseteq Wakeup /\ file' \subseteq Wakeup /\ due' \subseteq Wakeup
        /\ granted' \subseteq Ask /\ withdrawn' \subseteq Ask /\ taken' \subseteq Ask
        /\ told' \in [Ask -> Nat]
    BY <2>1 DEF StoreTypeOK
  <2> HIDE DEF Restart
  <2> QED
    BY <2>2, <2>3, <2>4 DEF StoreTypeOK
<1>4. Numbered'
  BY <1>1 DEF Numbered, NumbersDiffer
<1>5. AskedFor'
  BY DEF AskedFor
<1>6. InOnePlace'
  <2>1. AsksDiffer(list)' /\ AsksDiffer(file)' /\ AsksDiffer(due)'
    BY DEF InOnePlace, AsksDiffer
  <2>2. Asks(due') = {} /\ Asks(list') = Asks(file) /\ Asks(list' \cup due') = Asks(file)
    BY DEF Asks
  <2>3. Asks(list) \subseteq Asks(list \cup due)
    BY DEF Asks
  <2> QED
    BY <2>1, <2>2, <2>3 DEF InOnePlace
<1> QED
  BY <1>3, <1>4, <1>5, <1>6

\* Every step of the store, the clock and the world keeps the invariant.
LEMMA StoreStepKeeps == WakeupsInv /\ [StoreNext]_storeVars => WakeupsInv'
<1> SUFFICES ASSUME WakeupsInv, [StoreNext]_storeVars PROVE WakeupsInv'
  OBVIOUS
<1>1. CASE AddAt
  BY <1>1, AddKeeps DEF AddAt
<1>2. CASE AddPrice
  <2>1. PICK level \in Prices, side \in {"above", "below"} : Add(side, level)
    BY <1>2 DEF AddPrice
  <2> QED
    BY <2>1, AddKeeps, WakeupsAssumption
<1>3. CASE Cancel
  BY <1>3, CancelKeeps
<1>4. CASE TakeDue
  BY <1>4, TakeDueKeeps
<1>5. CASE TellOne
  BY <1>5, TellOneKeeps
<1>6. CASE Restart
  BY <1>6, RestartKeeps
<1>7. CASE TimeGoesBy
  <2>1. StoreTypeOK'
    BY <1>7, WakeupsAssumption, HarnessClockAssumption DEF WakeupsInv, StoreTypeOK, TimeGoesBy, storeHistory
  <2>2. Numbered' /\ AskedFor' /\ InOnePlace'
    BY <1>7 DEF WakeupsInv, TimeGoesBy, storeHistory, Numbered, AskedFor, InOnePlace,
                NumbersDiffer, AsksDiffer, Asks
  <2> QED
    BY <2>1, <2>2 DEF WakeupsInv
<1>8. CASE UNCHANGED storeVars
  BY <1>8 DEF WakeupsInv, storeVars, storeHistory, StoreTypeOK, Numbered, AskedFor, InOnePlace,
              NumbersDiffer, AsksDiffer, Asks
<1> QED
  BY <1>1, <1>2, <1>3, <1>4, <1>5, <1>6, <1>7, <1>8 DEF StoreNext, Finished

\* In every reachable state the store is of its type, its numbers are used once and every
\* request is in one place, for any constants (Store, fireWakeups).
THEOREM StoreKept == StoreSpec => []WakeupsInv
<1> QED
  BY StoreBegins, StoreStepKeeps, PTL DEF StoreSpec

-----------------------------------------------------------------------------
(* The properties of the store.                                            *)

\* Two standing wake-ups never share an id, although Open gives the numbers out again
\* from the largest that still stands (wakeup.go, add and Open).
THEOREM NumbersDistinct == StoreSpec => []IdsDiffer
<1>1. WakeupsInv => IdsDiffer
  BY DEF WakeupsInv, Numbered, NumbersDiffer, IdsDiffer
<1> QED
  BY <1>1, StoreKept, PTL

\* A wake-up wakes the session once, and one taken back not at all, unless a restart
\* brought it back because the file would not take its removal (Due, Cancel).
THEOREM OnceAwake == StoreSpec => []WakesOnce
<1>1. WakeupsInv => WakesOnce
  <2> SUFFICES ASSUME WakeupsInv, NEW a \in Ask \ returned
               PROVE  told[a] <= IF a \in withdrawn THEN 0 ELSE 1
    BY DEF WakesOnce
  <2>1. told[a] = 0 \/ (told[a] = 1 /\ a \notin withdrawn)
    BY DEF WakeupsInv, InOnePlace
  <2> QED
    BY <2>1
<1> QED
  BY <1>1, StoreKept, PTL

\* What the session was told it has stands in memory and on disk until it is due or
\* taken back, through failed writes and restarts: inductive as it is.
THEOREM StandsOnDisk == StoreSpec => []StandsUntilDue
<1>1. StoreInit => StandsUntilDue
  BY DEF StoreInit, StandsUntilDue
<1>2. StandsUntilDue /\ [StoreNext]_storeVars => StandsUntilDue'
  <2> SUFFICES ASSUME StandsUntilDue, [StoreNext]_storeVars PROVE StandsUntilDue'
    OBVIOUS
  <2> USE DEF StandsUntilDue, Asks
  <2>1. ASSUME NEW kind, NEW when, Add(kind, when) PROVE StandsUntilDue'
    <3>1. UNCHANGED <<withdrawn, taken>>
      BY <2>1 DEF Add
    <3>2. CASE UNCHANGED <<list, file, granted>>
      BY <3>1, <3>2
    <3>3. CASE ~UNCHANGED <<list, file, granted>>
      <4>1. PICK w : list' = list \cup {w} /\ file' = list' /\ granted' = granted \cup {w.ask}
        BY <2>1, <3>3 DEF Add
      <4> QED
        BY <3>1, <4>1
    <3> QED
      BY <3>2, <3>3
  <2>2. CASE Cancel
    BY <2>2 DEF Cancel
  <2>3. CASE TakeDue
    BY <2>3 DEF TakeDue
  <2>4. CASE TellOne \/ Restart \/ TimeGoesBy \/ UNCHANGED storeVars
    BY <2>4 DEF TellOne, Restart, TimeGoesBy, storeVars, storeHistory
  <2> QED
    BY <2>1, <2>2, <2>3, <2>4 DEF StoreNext, AddAt, AddPrice, Finished
<1> QED
  BY <1>1, <1>2, PTL DEF StoreSpec

=============================================================================
