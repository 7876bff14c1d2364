---------------------------- MODULE TurnsProofs ----------------------------
(***************************************************************************)
(* What Turns keeps for any number of callers, turns, events and crashes.  *)
(***************************************************************************)
EXTENDS Turns, TLAPS, SequenceTheorems

USE DEF NoTurn

-----------------------------------------------------------------------------
(* Types.                                                                  *)

\* The room and the clock are callers, and the follower of the agent's events acts beside them.
LEMMA CallersAreActors ==
  /\ Room \in Callers /\ Clock \in Callers
  /\ Callers \subseteq Actors /\ Follower \in Actors
BY CallersAssumption DEF Callers, Actors

\* An actor finishing nothing is at rest.
LEMMA NoFinishType == NoFinish \in Finish
BY DEF NoFinish, Finish

\* The harness drops an event that finds the channel full: it never outgrows its buffer.
LEMMA EmitType ==
  ASSUME events \in Seq(Event), Len(events) <= EventBuffer,
         NEW k \in {"text", "broker", "done"}, NEW t \in Turn
  PROVE  Emit(k, t) \in Seq(Event) /\ Len(Emit(k, t)) <= EventBuffer
<1>1. [kind |-> k, turn |-> t] \in Event
  BY DEF Event
<1> QED BY <1>1, BoundsAssumption DEF Emit

\* Taking an event from a stream leaves a shorter one.
LEMMA TailType ==
  ASSUME events \in Seq(Event), Len(events) <= EventBuffer, events # <<>>
  PROVE  /\ Tail(events) \in Seq(Event) /\ Len(Tail(events)) <= EventBuffer
         /\ Head(events) \in Event
<1>1. Len(Tail(events)) = Len(events) - 1 /\ Len(events) \in Nat
  BY HeadTailProperties
<1> QED BY <1>1, BoundsAssumption, HeadTailProperties

\* A caller moving on is at a step of its path, holding a turn or none.
LEMMA GoesType ==
  ASSUME TypeOK, NEW c \in Callers, NEW p \in Steps, NEW m \in Modes,
         NEW h \in Turn \cup {0}, NEW o \in Turn \cup {0}, Goes(c, p, m, h, o)
  PROVE  /\ pc' \in [Callers -> Steps]
         /\ mode' \in [Callers -> Modes]
         /\ held' \in [Callers -> Turn \cup {0}]
         /\ stale' \in [Callers -> Turn \cup {0}]
BY DEF TypeOK, Goes

\* The harness as it is built: no turn, no agent, nothing in the record.
LEMMA InitType == Init => TypeOK
<1> SUFFICES ASSUME Init PROVE TypeOK
  OBVIOUS
<1>1. fin \in [Actors -> Finish]
  BY NoFinishType DEF Init
<1>2. nextTurn \in 1..(MaxTurns + 1)
  BY BoundsAssumption DEF Init
<1>3. events \in Seq(Event) /\ Len(events) <= EventBuffer
  BY BoundsAssumption DEF Init
<1>4. /\ pc \in [Callers -> Steps]
      /\ mode \in [Callers -> Modes]
      /\ held \in [Callers -> Turn \cup {NoTurn}]
      /\ stale \in [Callers -> Turn \cup {NoTurn}]
      /\ rows \in [Turn -> RowState]
  BY DEF Init, Steps, Modes, RowState
<1>5. /\ live \subseteq Turn /\ reachable \subseteq Turn /\ spoke \subseteq Turn
      /\ mistaken \subseteq {"steer", "start", "clear"}
  BY DEF Init
<1>6. /\ brokerless \in Nat /\ refusedInterrupts \in Nat /\ crashes \in Nat
      /\ opening \in BOOLEAN /\ turnActed \in BOOLEAN /\ brokerCalled \in BOOLEAN
      /\ wpc \in {"idle", "interrupt", "row", "clear"}
      /\ turnID \in Turn \cup {NoTurn} /\ wid \in Turn \cup {NoTurn}
      /\ finishedBeforePublished \in Turn \cup {NoTurn}
  BY DEF Init
<1> QED BY <1>1, <1>2, <1>3, <1>4, <1>5, <1>6 DEF TypeOK

\* A restart leaves a harness as it is built, and the rows as they were.
LEMMA RestartType == TypeOK /\ Restart /\ crashes' \in Nat => TypeOK'
<1> SUFFICES ASSUME TypeOK, Restart, crashes' \in Nat PROVE TypeOK'
  OBVIOUS
<1>1. fin' \in [Actors -> Finish]
  BY NoFinishType DEF Restart
<1>2. /\ pc' \in [Callers -> Steps]
      /\ mode' \in [Callers -> Modes]
      /\ held' \in [Callers -> Turn \cup {NoTurn}]
      /\ stale' \in [Callers -> Turn \cup {NoTurn}]
  BY DEF Restart, Steps, Modes
<1>3. rows' \in [Turn -> RowState]
  BY DEF Restart, TypeOK, RowState
<1>4. /\ events' \in Seq(Event) /\ Len(events') <= EventBuffer /\ live' \subseteq Turn /\ reachable' \subseteq Turn
  BY BoundsAssumption DEF Restart
<1> QED BY <1>1, <1>2, <1>3, <1>4 DEF TypeOK, Restart

\* finishLocked: what is handed to the one that closes the row.
LEMMA FinishLockedType ==
  ASSUME TypeOK, NEW a \in Actors, NEW t \in Turn \cup {NoTurn}, FinishLocked(a, t)
  PROVE  /\ turnID' \in Turn \cup {NoTurn}
         /\ finishedBeforePublished' \in Turn \cup {NoTurn}
         /\ fin' \in [Actors -> Finish]
<1>1. [step |-> "rest", id |-> t, acted |-> turnActed, reached |-> brokerCalled]
        \in Finish
  BY DEF TypeOK, Finish
<1> QED BY <1>1 DEF TypeOK, FinishLocked

\* turnFinished: a row closed is a row.
LEMMA CloseRowType ==
  ASSUME TypeOK, NEW t \in Turn \cup {NoTurn}, NEW how \in RowState
  PROVE  TurnFinished(t, how) \in [Turn -> RowState]
BY DEF TypeOK, TurnFinished

\* A turn the interrupt reached is over, and its end is among the events.
LEMMA InterruptedType ==
  ASSUME TypeOK, NEW t, Interrupted(t)
  PROVE  live' \subseteq Turn /\ events' \in Seq(Event) /\ Len(events') <= EventBuffer
<1>1. t \in Turn
  BY DEF TypeOK, Interrupted
<1> QED BY <1>1, EmitType DEF TypeOK, Interrupted

\* A caller whose turn did not start waits for the one being opened, or returns.
LEMMA NotStartedType ==
  ASSUME TypeOK, NEW c \in Callers, NotStarted(c)
  PROVE  /\ pc' \in [Callers -> Steps]
         /\ mode' \in [Callers -> Modes]
         /\ held' \in [Callers -> Turn \cup {NoTurn}]
         /\ stale' \in [Callers -> Turn \cup {NoTurn}]
BY GoesType DEF NotStarted, Returns, Steps, Modes

\* No step of any goroutine, of the agent or of the supervisor leaves the types
\* of Harness's fields, of the record or of the stream of events.
LEMMA NextType == TypeOK /\ [Next]_vars => TypeOK'
<1> SUFFICES ASSUME TypeOK, [Next]_vars PROVE TypeOK'
  OBVIOUS
<1> USE CallersAreActors
<1>1. ASSUME NEW c \in Callers, Begin(c) PROVE TypeOK'
  <2>1. Goes(c, IF turnID # NoTurn THEN "steer" ELSE "claim", "first", turnID, NoTurn)
    BY <1>1 DEF Begin
  <2>2. (IF turnID # NoTurn THEN "steer" ELSE "claim") \in Steps /\ "first" \in Modes
    BY DEF Steps, Modes
  <2> QED BY <1>1, <2>1, <2>2, GoesType
          DEF Begin, TypeOK, harness, watcher, agent, history
<1>2. ASSUME NEW c \in Callers, SteerTaken(c) PROVE TypeOK'
  BY <1>2, GoesType
  DEF SteerTaken, TypeOK, harness, callers, watcher, agent, history, Returns, Steps, Modes
<1>3. ASSUME NEW c \in Callers, SteerFailed(c) PROVE TypeOK'
  <2>1. "claim" \in Steps /\ "idle" \in Steps /\ "first" \in Modes /\ "second" \in Modes
    BY DEF Steps, Modes
  <2>2. /\ pc' \in [Callers -> Steps]
        /\ mode' \in [Callers -> Modes]
        /\ held' \in [Callers -> Turn \cup {NoTurn}]
        /\ stale' \in [Callers -> Turn \cup {NoTurn}]
    <3>1. held[c] \in Turn \cup {NoTurn}
      BY DEF TypeOK
    <3> QED BY <1>3, <2>1, <3>1, GoesType DEF SteerFailed, Returns
  <2>3. mistaken' \subseteq {"steer", "start", "clear"}
    BY <1>3 DEF SteerFailed, TypeOK
  <2> QED BY <1>3, <2>2, <2>3
          DEF SteerFailed, TypeOK, harness, watcher, agent
<1>4. ASSUME NEW c \in Callers, WaitReady(c) PROVE TypeOK'
  BY <1>4, GoesType
  DEF WaitReady, TypeOK, harness, callers, watcher, agent, history, Returns, Steps, Modes
<1>5. ASSUME NEW c \in Callers, Claim(c) PROVE TypeOK'
  BY <1>5, GoesType, NotStartedType
  DEF Claim, TypeOK, harness, callers, watcher, agent, history, Steps
<1>6. ASSUME NEW c \in Callers, TurnAnswered(c) PROVE TypeOK'
  <2>1. nextTurn \in Turn /\ nextTurn' \in 1..(MaxTurns + 1)
    BY <1>6, BoundsAssumption DEF TurnAnswered, TypeOK, Turn
  <2> QED BY <1>6, <2>1
          DEF TurnAnswered, TypeOK, harness, watcher, Steps
<1>7. ASSUME NEW c \in Callers, TurnRefused(c) PROVE TypeOK'
  BY <1>7, NotStartedType
  DEF TurnRefused, TypeOK, harness, callers, watcher, agent, history
<1>8. ASSUME NEW c \in Callers, TurnAnswerLost(c) PROVE TypeOK'
  <2>1. mistaken' \subseteq {"steer", "start", "clear"}
    BY <1>8 DEF TurnAnswerLost, TypeOK
  <2>2. /\ nextTurn' \in 1..(MaxTurns + 1)
        /\ live' \subseteq Turn /\ reachable' \subseteq Turn
    <3>1. nextTurn \in 1..(MaxTurns + 1) /\ nextTurn <= MaxTurns /\ MaxTurns \in Nat
      BY <1>8, BoundsAssumption DEF TurnAnswerLost, TypeOK
    <3>2. nextTurn \in Turn /\ nextTurn + 1 \in 1..(MaxTurns + 1)
      BY <3>1 DEF Turn
    <3> QED BY <1>8, <3>2 DEF TurnAnswerLost, TypeOK
  <2>3. NotStarted(c)
    BY <1>8 DEF TurnAnswerLost
  <2> QED BY <1>8, <2>1, <2>2, <2>3, NotStartedType DEF TurnAnswerLost, TypeOK, watcher
<1>9. ASSUME NEW c \in Callers, Publish(c) PROVE TypeOK'
  BY <1>9
  DEF Publish, TypeOK, harness, callers, watcher, agent, history, Steps
<1>10. ASSUME NEW c \in Callers, RecordStart(c) PROVE TypeOK'
  BY <1>10
  DEF RecordStart, TypeOK, harness, callers, watcher, agent, history, Steps, RowState
<1>11. ASSUME NEW c \in Callers, Settle(c) PROVE TypeOK'
  BY <1>11, GoesType
  DEF Settle, TypeOK, harness, callers, watcher, agent, history, Returns, Steps, Modes
<1>12. ASSUME NEW c \in Callers, OpenerFinishes(c) PROVE TypeOK'
  BY <1>12, FinishLockedType
  DEF OpenerFinishes, TypeOK, harness, callers, watcher, agent, history, Steps
<1>13. ASSUME NEW c \in Callers, Release(c) PROVE TypeOK'
  BY <1>13, GoesType
  DEF Release, TypeOK, harness, callers, watcher, agent, history, Returns, Steps, Modes
<1>14. ASSUME NEW a \in Actors, FinishRest(a) PROVE TypeOK'
  <2>1. fin' \in [Actors -> Finish]
    BY <1>14, NoFinishType DEF FinishRest, TypeOK
  <2>2. fin[a].id \in Turn \cup {NoTurn}
    BY DEF TypeOK, Finish
  <2>3. rows' \in [Turn -> RowState]
    BY <1>14, <2>2, CloseRowType DEF FinishRest, TypeOK, RowState
  <2>4. brokerless' \in Nat /\ reachable' \subseteq Turn
    BY <1>14 DEF FinishRest, TypeOK
  <2> QED BY <1>14, <2>1, <2>3, <2>4 DEF FinishRest, TypeOK, callers, watcher, history
<1>15. ASSUME FollowActed PROVE TypeOK'
  <2>1. events' \in Seq(Event) /\ Len(events') <= EventBuffer
    BY <1>15, TailType DEF FollowActed, TypeOK
  <2>2. brokerCalled' \in BOOLEAN
    BY <1>15 DEF FollowActed
  <2> QED BY <1>15, <2>1, <2>2
          DEF FollowActed, TypeOK, callers, watcher, history
<1>16. ASSUME FollowDone PROVE TypeOK'
  <2>1. events' \in Seq(Event) /\ Len(events') <= EventBuffer /\ Head(events) \in Event
    BY <1>16, TailType DEF FollowDone, TypeOK
  <2>3. Head(events).turn \in Turn
    BY <2>1 DEF Event
  <2>2. FinishLocked(Follower, Head(events).turn)
    BY <1>16 DEF FollowDone
  <2> QED BY <1>16, <2>1, <2>2, <2>3, FinishLockedType
          DEF FollowDone, TypeOK, callers, watcher
<1>17. ASSUME FireDue PROVE TypeOK'
  <2>1. Goes(Clock, IF turnID # NoTurn THEN "steer" ELSE "claim", "due", turnID, NoTurn)
    BY <1>17 DEF FireDue
  <2>2. (IF turnID # NoTurn THEN "steer" ELSE "claim") \in Steps /\ "due" \in Modes
    BY DEF Steps, Modes
  <2> QED BY <1>17, <2>1, <2>2, GoesType
          DEF FireDue, TypeOK, harness, watcher, agent, history
<1>18. ASSUME NEW t \in Turn, AgentActs(t) PROVE TypeOK'
  <2>1. events' \in Seq(Event) /\ Len(events') <= EventBuffer
    BY <1>18, EmitType DEF AgentActs, TypeOK
  <2> QED BY <1>18, <2>1 DEF AgentActs, TypeOK, harness, callers, watcher
<1>19. ASSUME NEW t \in Turn, AgentEnds(t) PROVE TypeOK'
  <2>1. events' \in Seq(Event) /\ Len(events') <= EventBuffer
    BY <1>19, EmitType DEF AgentEnds, TypeOK
  <2> QED BY <1>19, <2>1 DEF AgentEnds, TypeOK, harness, callers, watcher, history
<1>20. ASSUME Stop PROVE TypeOK'
  BY <1>20, InterruptedType DEF Stop, TypeOK, harness, callers, watcher, history
<1>21. ASSUME WatchLooks PROVE TypeOK'
  BY <1>21 DEF WatchLooks, TypeOK, harness, callers, agent, history
<1>22. ASSUME WatchInterrupts PROVE TypeOK'
  <2>1. live' \subseteq Turn /\ events' \in Seq(Event) /\ Len(events') <= EventBuffer
    BY <1>22, InterruptedType DEF WatchInterrupts, TypeOK
  <2> QED BY <1>22, <2>1 DEF WatchInterrupts, TypeOK, callers, history
<1>23. ASSUME WatchRefused PROVE TypeOK'
  BY <1>23 DEF WatchRefused, TypeOK, callers, agent, history
<1>24. ASSUME WatchRow PROVE TypeOK'
  <2>1. rows' \in [Turn -> RowState]
    BY <1>24, CloseRowType DEF WatchRow, TypeOK, RowState
  <2> QED BY <1>24, <2>1 DEF WatchRow, TypeOK, harness, callers, agent, history
<1>25. ASSUME WatchClears PROVE TypeOK'
  BY <1>25 DEF WatchClears, TypeOK, callers, agent
<1>26. ASSUME WatchGivesUp PROVE TypeOK'
  BY <1>26, RestartType DEF WatchGivesUp, TypeOK
<1>27. ASSUME Crash PROVE TypeOK'
  BY <1>27, RestartType DEF Crash, TypeOK
<1>28. CASE UNCHANGED vars
  BY <1>28 DEF vars, TypeOK, harness, callers, watcher, agent, history
<1> QED
  BY <1>1, <1>2, <1>3, <1>4, <1>5, <1>6, <1>7, <1>8, <1>9, <1>10, <1>11, <1>12,
     <1>13, <1>14, <1>15, <1>16, <1>17, <1>18, <1>19, <1>20, <1>21, <1>22, <1>23,
     <1>24, <1>25, <1>26, <1>27, <1>28
  DEF Next, CallerStep, WatchStep

\* Every reachable state of the harness, the agent and the record is well typed.
THEOREM TypeCorrect == Spec => []TypeOK
<1> QED BY InitType, NextType, PTL DEF Spec

-----------------------------------------------------------------------------
(* One turn at a time.                                                     *)

\* Identifiers are integers, which the arithmetic of freshness needs to know.
LEMMA IdsAreIntegers ==
  ASSUME TypeOK
  PROVE  /\ nextTurn \in Int /\ turnID \in Int /\ finishedBeforePublished \in Int
         /\ wid \in Int /\ live \subseteq Int
         /\ \A d \in Callers : held[d] \in Int /\ stale[d] \in Int
         /\ \A i \in DOMAIN events : events[i].turn \in Int
<1>1. Turn \subseteq Int /\ 0 \in Int
  BY BoundsAssumption DEF Turn
<1>2. nextTurn \in Int
  BY BoundsAssumption DEF TypeOK
<1>3. turnID \in Int /\ finishedBeforePublished \in Int /\ wid \in Int
  BY <1>1 DEF TypeOK
<1>4. live \subseteq Int
  BY <1>1 DEF TypeOK
<1>5. \A d \in Callers : held[d] \in Int /\ stale[d] \in Int
  BY <1>1 DEF TypeOK
<1>6. \A i \in DOMAIN events : events[i].turn \in Int
  <2> SUFFICES ASSUME NEW i \in DOMAIN events PROVE events[i].turn \in Int
    OBVIOUS
  <2>1. events[i] \in Event
    BY DEF TypeOK
  <2> QED BY <1>1, <2>1 DEF Event
<1> QED BY <1>2, <1>3, <1>4, <1>5, <1>6

\* With no turn there is nothing out of place.
LEMMA InitPlace == Init => PlaceInv
BY DEF Init, PlaceInv, OpeningIsExclusive, IdsAreOld, DoneIsDead,
       TakeoverOnlyOfTheDead, NothingIsLost, Holding

\* Every step of a caller, of the agent and of the follower keeps the places in order.
LEMMA NextPlace == TypeOK /\ PlaceInv /\ [Next]_vars => PlaceInv'
<1> SUFFICES ASSUME TypeOK, PlaceInv, [Next]_vars PROVE PlaceInv'
  OBVIOUS
<1> USE CallersAreActors DEF PlaceInv
<1>0. NoTurn \notin live
  BY BoundsAssumption DEF TypeOK, Turn
<1>1. ASSUME NEW c \in Callers, Begin(c) PROVE PlaceInv'
  <2>1. OpeningIsExclusive'
    BY <1>1 DEF OpeningIsExclusive, TypeOK, Holding,
       Begin, Goes, harness, callers, watcher, agent, history
  <2>2. IdsAreOld'
    BY <1>1 DEF IdsAreOld, TypeOK, Holding,
       Begin, Goes, harness, callers, watcher, agent, history
  <2>3. DoneIsDead'
    BY <1>1 DEF DoneIsDead, IdsAreOld, TypeOK, Holding,
       Begin, Goes, harness, callers, watcher, agent, history
  <2>4. TakeoverOnlyOfTheDead'
    BY <1>1 DEF TakeoverOnlyOfTheDead, IdsAreOld, OpeningIsExclusive, NothingIsLost, TypeOK, Holding,
       Begin, Goes, harness, callers, watcher, agent, history
  <2>5. NothingIsLost'
    BY <1>0, <1>1 DEF NothingIsLost, TypeOK, Begin, Goes, harness, agent, history
  <2> QED BY <2>1, <2>2, <2>3, <2>4, <2>5
<1>2. ASSUME NEW c \in Callers, SteerTaken(c) PROVE PlaceInv'
  <2>1. OpeningIsExclusive'
    BY <1>2 DEF OpeningIsExclusive, TypeOK, Holding,
       SteerTaken, Goes, Returns, harness, callers, watcher, agent, history
  <2>2. IdsAreOld'
    BY <1>2 DEF IdsAreOld, TypeOK, Holding,
       SteerTaken, Goes, Returns, harness, callers, watcher, agent, history
  <2>3. DoneIsDead'
    BY <1>2 DEF DoneIsDead, IdsAreOld, TypeOK, Holding,
       SteerTaken, Goes, Returns, harness, callers, watcher, agent, history
  <2>4. TakeoverOnlyOfTheDead'
    BY <1>2 DEF TakeoverOnlyOfTheDead, IdsAreOld, OpeningIsExclusive, NothingIsLost, TypeOK, Holding,
       SteerTaken, Goes, Returns, harness, callers, watcher, agent, history
  <2>5. NothingIsLost'
    BY <1>2 DEF NothingIsLost, TakeoverOnlyOfTheDead, OpeningIsExclusive, IdsAreOld, TypeOK, Holding,
       SteerTaken, Goes, Returns, harness, callers, watcher, agent, history
  <2> QED BY <2>1, <2>2, <2>3, <2>4, <2>5
<1>3. ASSUME NEW c \in Callers, SteerFailed(c) PROVE PlaceInv'
  <2>1. OpeningIsExclusive'
    BY <1>3 DEF OpeningIsExclusive, TypeOK, Holding,
       SteerFailed, Goes, Returns, harness, callers, watcher, agent, history
  <2>2. IdsAreOld'
    BY <1>3 DEF IdsAreOld, TypeOK, Holding,
       SteerFailed, Goes, Returns, harness, callers, watcher, agent, history
  <2>3. DoneIsDead'
    BY <1>3 DEF DoneIsDead, IdsAreOld, TypeOK, Holding,
       SteerFailed, Goes, Returns, harness, callers, watcher, agent, history
  <2>4. TakeoverOnlyOfTheDead'
    BY <1>3 DEF TakeoverOnlyOfTheDead, IdsAreOld, OpeningIsExclusive, NothingIsLost, TypeOK, Holding,
       SteerFailed, Goes, Returns, harness, callers, watcher, agent, history
  <2>5. NothingIsLost'
    <3>1. CASE mode[c] = "first"
      <4>1. mistaken' = {} => mistaken = {} /\ held[c] \notin live
        BY <1>3, <3>1 DEF SteerFailed
      <4>2. /\ live' = live /\ turnID' = turnID
            /\ pc' = [pc EXCEPT ![c] = "claim"]
            /\ held' = [held EXCEPT ![c] = NoTurn]
            /\ stale' = [stale EXCEPT ![c] = held[c]]
            /\ pc[c] = "steer"
        BY <1>3, <3>1 DEF SteerFailed, Goes, harness, agent
      <4>3. /\ pc \in [Callers -> Steps]
            /\ held \in [Callers -> Turn \cup {NoTurn}]
            /\ stale \in [Callers -> Turn \cup {NoTurn}]
        BY DEF TypeOK
      <4> QED BY <4>1, <4>2, <4>3 DEF NothingIsLost
    <3>2. CASE mode[c] # "first"
      BY <1>0, <1>3, <3>2
      DEF SteerFailed, NothingIsLost, TypeOK, Goes, Returns, harness, agent
    <3> QED BY <3>1, <3>2
  <2> QED BY <2>1, <2>2, <2>3, <2>4, <2>5
<1>4. ASSUME NEW c \in Callers, WaitReady(c) PROVE PlaceInv'
  <2>1. OpeningIsExclusive'
    BY <1>4 DEF OpeningIsExclusive, TypeOK, Holding,
       WaitReady, Goes, harness, callers, watcher, agent, history
  <2>2. IdsAreOld'
    BY <1>4 DEF IdsAreOld, TypeOK, Holding,
       WaitReady, Goes, harness, callers, watcher, agent, history
  <2>3. DoneIsDead'
    BY <1>4 DEF DoneIsDead, IdsAreOld, TypeOK, Holding,
       WaitReady, Goes, harness, callers, watcher, agent, history
  <2>4. TakeoverOnlyOfTheDead'
    BY <1>4 DEF TakeoverOnlyOfTheDead, IdsAreOld, OpeningIsExclusive, NothingIsLost, TypeOK, Holding,
       WaitReady, Goes, harness, callers, watcher, agent, history
  <2>5. NothingIsLost'
    BY <1>0, <1>4 DEF NothingIsLost, TypeOK, WaitReady, Goes, harness, agent, history
  <2> QED BY <2>1, <2>2, <2>3, <2>4, <2>5
<1>5. ASSUME NEW c \in Callers, Claim(c) PROVE PlaceInv'
  <2>1. OpeningIsExclusive'
    BY <1>5 DEF OpeningIsExclusive, TypeOK, Holding,
       Claim, Goes, Returns, NotStarted, MayClaim, harness, callers, watcher, agent, history
  <2>2. IdsAreOld'
    BY <1>5 DEF IdsAreOld, TypeOK, Holding,
       Claim, Goes, Returns, NotStarted, MayClaim, harness, callers, watcher, agent, history
  <2>3. DoneIsDead'
    BY <1>5 DEF DoneIsDead, IdsAreOld, TypeOK, Holding,
       Claim, Goes, Returns, NotStarted, MayClaim, harness, callers, watcher, agent, history
  <2>4. TakeoverOnlyOfTheDead'
    <3>1. CASE MayClaim(c)
      BY <1>0, <1>5, <3>1
      DEF Claim, MayClaim, Goes, TakeoverOnlyOfTheDead, NothingIsLost, TypeOK, agent, history
    <3>2. CASE ~MayClaim(c)
      BY <1>5, <3>2
      DEF Claim, NotStarted, Returns, Goes, TakeoverOnlyOfTheDead, TypeOK, agent, history
    <3> QED BY <3>1, <3>2
  <2>5. NothingIsLost'
    BY <1>5 DEF NothingIsLost, TakeoverOnlyOfTheDead, OpeningIsExclusive, IdsAreOld, TypeOK, Holding,
       Claim, Goes, Returns, NotStarted, MayClaim, harness, callers, watcher, agent, history
  <2> QED BY <2>1, <2>2, <2>3, <2>4, <2>5
<1>6. ASSUME NEW c \in Callers, TurnAnswered(c) PROVE PlaceInv'
  <2>1. OpeningIsExclusive'
    BY <1>6 DEF OpeningIsExclusive, TypeOK, Holding,
       TurnAnswered, harness, callers, watcher, agent, history
  <2>2. IdsAreOld'
    <3>1. /\ nextTurn \in Int /\ turnID \in Int /\ finishedBeforePublished \in Int
          /\ wid \in Int /\ live \subseteq Int
          /\ \A d \in Callers : held[d] \in Int /\ stale[d] \in Int
          /\ \A i \in DOMAIN events : events[i].turn \in Int
      BY IdsAreIntegers
    <3> QED BY <1>6, <3>1
            DEF IdsAreOld, TypeOK, TurnAnswered, harness, watcher
  <2>3. DoneIsDead'
    BY <1>6 DEF DoneIsDead, IdsAreOld, TypeOK, Holding,
       TurnAnswered, harness, callers, watcher, agent, history
  <2>4. TakeoverOnlyOfTheDead'
    BY <1>6 DEF TakeoverOnlyOfTheDead, IdsAreOld, OpeningIsExclusive, NothingIsLost, TypeOK, Holding,
       TurnAnswered, harness, callers, watcher, agent, history
  <2>5. NothingIsLost'
    BY <1>6 DEF NothingIsLost, TakeoverOnlyOfTheDead, OpeningIsExclusive, IdsAreOld, TypeOK, Holding,
       TurnAnswered, harness, callers, watcher, agent, history
  <2> QED BY <2>1, <2>2, <2>3, <2>4, <2>5
<1>7. ASSUME NEW c \in Callers, TurnRefused(c) PROVE PlaceInv'
  <2>1. OpeningIsExclusive'
    BY <1>7 DEF OpeningIsExclusive, TypeOK, Holding,
       TurnRefused, Goes, Returns, NotStarted, harness, callers, watcher, agent, history
  <2>2. IdsAreOld'
    BY <1>7 DEF IdsAreOld, TypeOK, Holding,
       TurnRefused, Goes, Returns, NotStarted, harness, callers, watcher, agent, history
  <2>3. DoneIsDead'
    BY <1>7 DEF DoneIsDead, IdsAreOld, TypeOK, Holding,
       TurnRefused, Goes, Returns, NotStarted, harness, callers, watcher, agent, history
  <2>4. TakeoverOnlyOfTheDead'
    BY <1>7 DEF TakeoverOnlyOfTheDead, IdsAreOld, OpeningIsExclusive, NothingIsLost, TypeOK, Holding,
       TurnRefused, Goes, Returns, NotStarted, harness, callers, watcher, agent, history
  <2>5. NothingIsLost'
    BY <1>7 DEF NothingIsLost, TakeoverOnlyOfTheDead, OpeningIsExclusive, IdsAreOld, TypeOK, Holding,
       TurnRefused, Goes, Returns, NotStarted, harness, callers, watcher, agent, history
  <2> QED BY <2>1, <2>2, <2>3, <2>4, <2>5
<1>8. ASSUME NEW c \in Callers, TurnAnswerLost(c) PROVE PlaceInv'
  <2>1. OpeningIsExclusive'
    BY <1>8 DEF OpeningIsExclusive, TypeOK, Holding,
       TurnAnswerLost, Goes, Returns, NotStarted, harness, callers, watcher, agent, history
  <2>2. IdsAreOld'
    <3>1. /\ nextTurn \in Int /\ turnID \in Int /\ finishedBeforePublished \in Int
          /\ wid \in Int /\ live \subseteq Int
          /\ \A d \in Callers : held[d] \in Int /\ stale[d] \in Int
          /\ \A i \in DOMAIN events : events[i].turn \in Int
      BY IdsAreIntegers
    <3>2. /\ nextTurn' = nextTurn + 1 /\ live' = live \cup {nextTurn}
          /\ UNCHANGED <<turnID, finishedBeforePublished, wid, events>>
      BY <1>8 DEF TurnAnswerLost, watcher
    <3>3. \A d \in Callers : held'[d] \in {held[d], NoTurn} /\ stale'[d] \in {stale[d], NoTurn}
      BY <1>8 DEF TurnAnswerLost, NotStarted, Returns, Goes, TypeOK
    <3>4. nextTurn > 0
      BY BoundsAssumption DEF TypeOK
    <3> QED BY <3>1, <3>2, <3>3, <3>4 DEF IdsAreOld
  <2>3. DoneIsDead'
    BY <1>8 DEF DoneIsDead, IdsAreOld, TypeOK, Holding,
       TurnAnswerLost, Goes, Returns, NotStarted, harness, callers, watcher, agent, history
  <2>4. TakeoverOnlyOfTheDead'
    BY <1>8 DEF TakeoverOnlyOfTheDead, IdsAreOld, OpeningIsExclusive, NothingIsLost, TypeOK, Holding,
       TurnAnswerLost, Goes, Returns, NotStarted, harness, callers, watcher, agent, history
  <2>5. NothingIsLost'
    BY <1>8 DEF NothingIsLost, TakeoverOnlyOfTheDead, OpeningIsExclusive, IdsAreOld, TypeOK, Holding,
       TurnAnswerLost, Goes, Returns, NotStarted, harness, callers, watcher, agent, history
  <2> QED BY <2>1, <2>2, <2>3, <2>4, <2>5
<1>9. ASSUME NEW c \in Callers, Publish(c) PROVE PlaceInv'
  <2>1. OpeningIsExclusive'
    BY <1>9 DEF OpeningIsExclusive, TypeOK, Holding,
       Publish, harness, callers, watcher, agent, history
  <2>2. IdsAreOld'
    BY <1>9 DEF IdsAreOld, TypeOK, Holding,
       Publish, harness, callers, watcher, agent, history
  <2>3. DoneIsDead'
    BY <1>9 DEF DoneIsDead, IdsAreOld, TypeOK, Holding,
       Publish, harness, callers, watcher, agent, history
  <2>4. TakeoverOnlyOfTheDead'
    BY <1>9 DEF TakeoverOnlyOfTheDead, IdsAreOld, OpeningIsExclusive, NothingIsLost, TypeOK, Holding,
       Publish, harness, callers, watcher, agent, history
  <2>5. NothingIsLost'
    BY <1>9 DEF NothingIsLost, TakeoverOnlyOfTheDead, OpeningIsExclusive, IdsAreOld, TypeOK, Holding,
       Publish, harness, callers, watcher, agent, history
  <2> QED BY <2>1, <2>2, <2>3, <2>4, <2>5
<1>10. ASSUME NEW c \in Callers, RecordStart(c) PROVE PlaceInv'
  <2>1. OpeningIsExclusive'
    BY <1>10 DEF OpeningIsExclusive, TypeOK, Holding,
       RecordStart, harness, callers, watcher, agent, history
  <2>2. IdsAreOld'
    BY <1>10 DEF IdsAreOld, TypeOK, Holding,
       RecordStart, harness, callers, watcher, agent, history
  <2>3. DoneIsDead'
    BY <1>10 DEF DoneIsDead, IdsAreOld, TypeOK, Holding,
       RecordStart, harness, callers, watcher, agent, history
  <2>4. TakeoverOnlyOfTheDead'
    BY <1>10 DEF TakeoverOnlyOfTheDead, IdsAreOld, OpeningIsExclusive, NothingIsLost, TypeOK, Holding,
       RecordStart, harness, callers, watcher, agent, history
  <2>5. NothingIsLost'
    BY <1>10 DEF NothingIsLost, TakeoverOnlyOfTheDead, OpeningIsExclusive, IdsAreOld, TypeOK, Holding,
       RecordStart, harness, callers, watcher, agent, history
  <2> QED BY <2>1, <2>2, <2>3, <2>4, <2>5
<1>11. ASSUME NEW c \in Callers, Settle(c) PROVE PlaceInv'
  <2>1. OpeningIsExclusive'
    BY <1>11 DEF OpeningIsExclusive, TypeOK, Holding,
       Settle, Goes, Returns, harness, callers, watcher, agent, history
  <2>2. IdsAreOld'
    BY <1>11 DEF IdsAreOld, TypeOK, Holding,
       Settle, Goes, Returns, harness, callers, watcher, agent, history
  <2>3. DoneIsDead'
    <3>1. CASE finishedBeforePublished = held[c]
      BY <1>0, <1>11, <3>1 DEF Settle, DoneIsDead, TypeOK, agent
    <3>2. CASE finishedBeforePublished # held[c]
      BY <1>11, <3>2 DEF Settle, Goes, Returns, DoneIsDead, TypeOK, agent
    <3> QED BY <3>1, <3>2
  <2>4. TakeoverOnlyOfTheDead'
    BY <1>11 DEF TakeoverOnlyOfTheDead, IdsAreOld, OpeningIsExclusive, NothingIsLost, TypeOK, Holding,
       Settle, Goes, Returns, harness, callers, watcher, agent, history
  <2>5. NothingIsLost'
    BY <1>11 DEF NothingIsLost, TakeoverOnlyOfTheDead, OpeningIsExclusive, IdsAreOld, TypeOK, Holding,
       Settle, Goes, Returns, harness, callers, watcher, agent, history
  <2> QED BY <2>1, <2>2, <2>3, <2>4, <2>5
<1>12. ASSUME NEW c \in Callers, OpenerFinishes(c) PROVE PlaceInv'
  <2>1. OpeningIsExclusive'
    BY <1>12 DEF OpeningIsExclusive, TypeOK, Holding,
       OpenerFinishes, FinishLocked, harness, callers, watcher, agent, history
  <2>2. IdsAreOld'
    BY <1>12 DEF IdsAreOld, TypeOK, Holding,
       OpenerFinishes, FinishLocked, harness, callers, watcher, agent, history
  <2>3. DoneIsDead'
    BY <1>12 DEF DoneIsDead, IdsAreOld, TypeOK, Holding,
       OpenerFinishes, FinishLocked, harness, callers, watcher, agent, history
  <2>4. TakeoverOnlyOfTheDead'
    BY <1>12 DEF TakeoverOnlyOfTheDead, IdsAreOld, OpeningIsExclusive, NothingIsLost, TypeOK, Holding,
       OpenerFinishes, FinishLocked, harness, callers, watcher, agent, history
  <2>5. NothingIsLost'
    <3>1. held[c] \notin live
      BY <1>12 DEF OpenerFinishes, DoneIsDead
    <3> QED BY <1>12, <3>1
            DEF OpenerFinishes, FinishLocked, NothingIsLost, TypeOK, agent
  <2> QED BY <2>1, <2>2, <2>3, <2>4, <2>5
<1>13. ASSUME NEW c \in Callers, Release(c) PROVE PlaceInv'
  <2>1. OpeningIsExclusive'
    BY <1>13 DEF OpeningIsExclusive, TypeOK, Holding,
       Release, Goes, Returns, harness, callers, watcher, agent, history
  <2>2. IdsAreOld'
    BY <1>13 DEF IdsAreOld, TypeOK, Holding,
       Release, Goes, Returns, harness, callers, watcher, agent, history
  <2>3. DoneIsDead'
    BY <1>13 DEF DoneIsDead, IdsAreOld, TypeOK, Holding,
       Release, Goes, Returns, harness, callers, watcher, agent, history
  <2>4. TakeoverOnlyOfTheDead'
    BY <1>13 DEF TakeoverOnlyOfTheDead, IdsAreOld, OpeningIsExclusive, NothingIsLost, TypeOK, Holding,
       Release, Goes, Returns, harness, callers, watcher, agent, history
  <2>5. NothingIsLost'
    BY <1>13 DEF NothingIsLost, TakeoverOnlyOfTheDead, OpeningIsExclusive, IdsAreOld, TypeOK, Holding,
       Release, Goes, Returns, harness, callers, watcher, agent, history
  <2> QED BY <2>1, <2>2, <2>3, <2>4, <2>5
<1>14. ASSUME NEW a \in Actors, FinishRest(a) PROVE PlaceInv'
  <2>1. OpeningIsExclusive'
    BY <1>14 DEF OpeningIsExclusive, TypeOK, Holding,
       FinishRest, harness, callers, watcher, agent, history
  <2>2. IdsAreOld'
    BY <1>14 DEF IdsAreOld, TypeOK, Holding,
       FinishRest, harness, callers, watcher, agent, history
  <2>3. DoneIsDead'
    BY <1>14 DEF DoneIsDead, IdsAreOld, TypeOK, Holding,
       FinishRest, harness, callers, watcher, agent, history
  <2>4. TakeoverOnlyOfTheDead'
    BY <1>14 DEF TakeoverOnlyOfTheDead, IdsAreOld, OpeningIsExclusive, NothingIsLost, TypeOK, Holding,
       FinishRest, harness, callers, watcher, agent, history
  <2>5. NothingIsLost'
    BY <1>14 DEF NothingIsLost, TakeoverOnlyOfTheDead, OpeningIsExclusive, IdsAreOld, TypeOK, Holding,
       FinishRest, harness, callers, watcher, agent, history
  <2> QED BY <2>1, <2>2, <2>3, <2>4, <2>5
<1>15. ASSUME FollowActed PROVE PlaceInv'
  <2>1. OpeningIsExclusive'
    BY <1>15 DEF OpeningIsExclusive, TypeOK, Holding,
       FollowActed, harness, callers, watcher, agent, history
  <2>2. IdsAreOld'
    BY <1>15 DEF IdsAreOld, TypeOK, Holding,
       FollowActed, harness, callers, watcher, agent, history
  <2>3. DoneIsDead'
    BY <1>15 DEF DoneIsDead, IdsAreOld, TypeOK, Holding,
       FollowActed, harness, callers, watcher, agent, history
  <2>4. TakeoverOnlyOfTheDead'
    BY <1>15 DEF TakeoverOnlyOfTheDead, IdsAreOld, OpeningIsExclusive, NothingIsLost, TypeOK, Holding,
       FollowActed, harness, callers, watcher, agent, history
  <2>5. NothingIsLost'
    BY <1>15 DEF NothingIsLost, TakeoverOnlyOfTheDead, OpeningIsExclusive, IdsAreOld, TypeOK, Holding,
       FollowActed, harness, callers, watcher, agent, history
  <2> QED BY <2>1, <2>2, <2>3, <2>4, <2>5
<1>16. ASSUME FollowDone PROVE PlaceInv'
  <2>1. OpeningIsExclusive'
    BY <1>16 DEF OpeningIsExclusive, TypeOK, Holding,
       FollowDone, FinishLocked, harness, callers, watcher, agent, history
  <2>2. IdsAreOld'
    BY <1>16 DEF IdsAreOld, TypeOK, Holding,
       FollowDone, FinishLocked, harness, callers, watcher, agent, history
  <2>3. DoneIsDead'
    BY <1>16 DEF DoneIsDead, IdsAreOld, TypeOK, Holding,
       FollowDone, FinishLocked, harness, callers, watcher, agent, history
  <2>4. TakeoverOnlyOfTheDead'
    <3>1. Head(events).turn \notin live
      BY <1>16 DEF FollowDone, DoneIsDead, TypeOK
    <3> QED BY <1>0, <1>16, <3>1
            DEF FollowDone, FinishLocked, TakeoverOnlyOfTheDead, TypeOK, callers
  <2>5. NothingIsLost'
    <3>1. Head(events).turn \notin live
      BY <1>16 DEF FollowDone, DoneIsDead, TypeOK
    <3> QED BY <1>0, <1>16, <3>1
            DEF FollowDone, FinishLocked, NothingIsLost, TypeOK, callers
  <2> QED BY <2>1, <2>2, <2>3, <2>4, <2>5
<1>17. ASSUME FireDue PROVE PlaceInv'
  <2>1. OpeningIsExclusive'
    BY <1>17 DEF OpeningIsExclusive, TypeOK, Holding,
       FireDue, Goes, harness, callers, watcher, agent, history
  <2>2. IdsAreOld'
    BY <1>17 DEF IdsAreOld, TypeOK, Holding,
       FireDue, Goes, harness, callers, watcher, agent, history
  <2>3. DoneIsDead'
    BY <1>17 DEF DoneIsDead, IdsAreOld, TypeOK, Holding,
       FireDue, Goes, harness, callers, watcher, agent, history
  <2>4. TakeoverOnlyOfTheDead'
    BY <1>17 DEF TakeoverOnlyOfTheDead, IdsAreOld, OpeningIsExclusive, NothingIsLost, TypeOK, Holding,
       FireDue, Goes, harness, callers, watcher, agent, history
  <2>5. NothingIsLost'
    BY <1>0, <1>17 DEF NothingIsLost, TypeOK, FireDue, Goes, harness, agent, history
  <2> QED BY <2>1, <2>2, <2>3, <2>4, <2>5
<1>18. ASSUME NEW t \in Turn, AgentActs(t) PROVE PlaceInv'
  <2>1. OpeningIsExclusive'
    BY <1>18 DEF OpeningIsExclusive, TypeOK, Holding,
       AgentActs, Emit, harness, callers, watcher, agent, history
  <2>2. IdsAreOld'
    BY <1>18 DEF IdsAreOld, TypeOK, Holding,
       AgentActs, Emit, harness, callers, watcher, agent, history
  <2>3. DoneIsDead'
    BY <1>18 DEF DoneIsDead, IdsAreOld, TypeOK, Holding,
       AgentActs, Emit, harness, callers, watcher, agent, history
  <2>4. TakeoverOnlyOfTheDead'
    BY <1>18 DEF TakeoverOnlyOfTheDead, IdsAreOld, OpeningIsExclusive, NothingIsLost, TypeOK, Holding,
       AgentActs, Emit, harness, callers, watcher, agent, history
  <2>5. NothingIsLost'
    BY <1>18 DEF NothingIsLost, TakeoverOnlyOfTheDead, OpeningIsExclusive, IdsAreOld, TypeOK, Holding,
       AgentActs, Emit, harness, callers, watcher, agent, history
  <2> QED BY <2>1, <2>2, <2>3, <2>4, <2>5
<1>19. ASSUME NEW t \in Turn, AgentEnds(t) PROVE PlaceInv'
  <2>1. OpeningIsExclusive'
    BY <1>19 DEF OpeningIsExclusive, TypeOK, Holding,
       AgentEnds, Emit, harness, callers, watcher, agent, history
  <2>2. IdsAreOld'
    BY <1>19 DEF IdsAreOld, TypeOK, Holding,
       AgentEnds, Emit, harness, callers, watcher, agent, history
  <2>3. DoneIsDead'
    BY <1>19 DEF DoneIsDead, IdsAreOld, TypeOK, Holding,
       AgentEnds, Emit, harness, callers, watcher, agent, history
  <2>4. TakeoverOnlyOfTheDead'
    BY <1>19 DEF TakeoverOnlyOfTheDead, IdsAreOld, OpeningIsExclusive, NothingIsLost, TypeOK, Holding,
       AgentEnds, Emit, harness, callers, watcher, agent, history
  <2>5. NothingIsLost'
    BY <1>19 DEF NothingIsLost, TakeoverOnlyOfTheDead, OpeningIsExclusive, IdsAreOld, TypeOK, Holding,
       AgentEnds, Emit, harness, callers, watcher, agent, history
  <2> QED BY <2>1, <2>2, <2>3, <2>4, <2>5
<1>20. ASSUME Stop PROVE PlaceInv'
  <2>1. OpeningIsExclusive'
    BY <1>20 DEF OpeningIsExclusive, TypeOK, Holding,
       Stop, Interrupted, Emit, harness, callers, watcher, agent, history
  <2>2. IdsAreOld'
    BY <1>20 DEF IdsAreOld, TypeOK, Holding,
       Stop, Interrupted, Emit, harness, callers, watcher, agent, history
  <2>3. DoneIsDead'
    BY <1>20 DEF DoneIsDead, IdsAreOld, TypeOK, Holding,
       Stop, Interrupted, Emit, harness, callers, watcher, agent, history
  <2>4. TakeoverOnlyOfTheDead'
    BY <1>20 DEF TakeoverOnlyOfTheDead, IdsAreOld, OpeningIsExclusive, NothingIsLost, TypeOK, Holding,
       Stop, Interrupted, Emit, harness, callers, watcher, agent, history
  <2>5. NothingIsLost'
    BY <1>20 DEF NothingIsLost, TakeoverOnlyOfTheDead, OpeningIsExclusive, IdsAreOld, TypeOK, Holding,
       Stop, Interrupted, Emit, harness, callers, watcher, agent, history
  <2> QED BY <2>1, <2>2, <2>3, <2>4, <2>5
<1>21. ASSUME WatchLooks PROVE PlaceInv'
  <2>1. OpeningIsExclusive'
    BY <1>21 DEF OpeningIsExclusive, TypeOK, Holding,
       WatchLooks, harness, callers, watcher, agent, history
  <2>2. IdsAreOld'
    BY <1>21 DEF IdsAreOld, TypeOK, Holding,
       WatchLooks, harness, callers, watcher, agent, history
  <2>3. DoneIsDead'
    BY <1>21 DEF DoneIsDead, IdsAreOld, TypeOK, Holding,
       WatchLooks, harness, callers, watcher, agent, history
  <2>4. TakeoverOnlyOfTheDead'
    BY <1>21 DEF TakeoverOnlyOfTheDead, IdsAreOld, OpeningIsExclusive, NothingIsLost, TypeOK, Holding,
       WatchLooks, harness, callers, watcher, agent, history
  <2>5. NothingIsLost'
    BY <1>21 DEF NothingIsLost, TakeoverOnlyOfTheDead, OpeningIsExclusive, IdsAreOld, TypeOK, Holding,
       WatchLooks, harness, callers, watcher, agent, history
  <2> QED BY <2>1, <2>2, <2>3, <2>4, <2>5
<1>22. ASSUME WatchInterrupts PROVE PlaceInv'
  <2>1. OpeningIsExclusive'
    BY <1>22 DEF OpeningIsExclusive, TypeOK, Holding,
       WatchInterrupts, Interrupted, Emit, harness, callers, watcher, agent, history
  <2>2. IdsAreOld'
    <3>1. /\ turnID' = turnID /\ finishedBeforePublished' = finishedBeforePublished
          /\ wid' = wid /\ held' = held /\ stale' = stale /\ nextTurn' = nextTurn
          /\ live' \subseteq live
      BY <1>22 DEF WatchInterrupts, Interrupted, callers
    <3>2. \A i \in DOMAIN events' : events'[i].turn < nextTurn
      <4>1. CASE Interrupted(wid)
        BY <4>1 DEF Interrupted, Emit, IdsAreOld, TypeOK
      <4>2. CASE UNCHANGED events
        BY <4>2 DEF IdsAreOld
      <4> QED BY <1>22, <4>1, <4>2 DEF WatchInterrupts
    <3> QED BY <3>1, <3>2 DEF IdsAreOld
  <2>3. DoneIsDead'
    <3>1. CASE Interrupted(wid)
      BY <1>22, <3>1
      DEF WatchInterrupts, Interrupted, Emit, DoneIsDead, TypeOK, callers
    <3>2. CASE UNCHANGED <<live, events>>
      BY <1>22, <3>2 DEF WatchInterrupts, DoneIsDead, callers
    <3> QED BY <1>22, <3>1, <3>2 DEF WatchInterrupts
  <2>4. TakeoverOnlyOfTheDead'
    BY <1>22 DEF TakeoverOnlyOfTheDead, IdsAreOld, OpeningIsExclusive, NothingIsLost, TypeOK, Holding,
       WatchInterrupts, Interrupted, Emit, harness, callers, watcher, agent, history
  <2>5. NothingIsLost'
    BY <1>22 DEF NothingIsLost, TakeoverOnlyOfTheDead, OpeningIsExclusive, IdsAreOld, TypeOK, Holding,
       WatchInterrupts, Interrupted, Emit, harness, callers, watcher, agent, history
  <2> QED BY <2>1, <2>2, <2>3, <2>4, <2>5
<1>23. ASSUME WatchRefused PROVE PlaceInv'
  <2>1. OpeningIsExclusive'
    BY <1>23 DEF OpeningIsExclusive, TypeOK, Holding,
       WatchRefused, harness, callers, watcher, agent, history
  <2>2. IdsAreOld'
    BY <1>23 DEF IdsAreOld, TypeOK, Holding,
       WatchRefused, harness, callers, watcher, agent, history
  <2>3. DoneIsDead'
    BY <1>23 DEF DoneIsDead, IdsAreOld, TypeOK, Holding,
       WatchRefused, harness, callers, watcher, agent, history
  <2>4. TakeoverOnlyOfTheDead'
    BY <1>23 DEF TakeoverOnlyOfTheDead, IdsAreOld, OpeningIsExclusive, NothingIsLost, TypeOK, Holding,
       WatchRefused, harness, callers, watcher, agent, history
  <2>5. NothingIsLost'
    BY <1>23 DEF NothingIsLost, TakeoverOnlyOfTheDead, OpeningIsExclusive, IdsAreOld, TypeOK, Holding,
       WatchRefused, harness, callers, watcher, agent, history
  <2> QED BY <2>1, <2>2, <2>3, <2>4, <2>5
<1>24. ASSUME WatchRow PROVE PlaceInv'
  <2>1. OpeningIsExclusive'
    BY <1>24 DEF OpeningIsExclusive, TypeOK, Holding,
       WatchRow, harness, callers, watcher, agent, history
  <2>2. IdsAreOld'
    BY <1>24 DEF IdsAreOld, TypeOK, Holding,
       WatchRow, harness, callers, watcher, agent, history
  <2>3. DoneIsDead'
    BY <1>24 DEF DoneIsDead, IdsAreOld, TypeOK, Holding,
       WatchRow, harness, callers, watcher, agent, history
  <2>4. TakeoverOnlyOfTheDead'
    BY <1>24 DEF TakeoverOnlyOfTheDead, IdsAreOld, OpeningIsExclusive, NothingIsLost, TypeOK, Holding,
       WatchRow, harness, callers, watcher, agent, history
  <2>5. NothingIsLost'
    BY <1>24 DEF NothingIsLost, TakeoverOnlyOfTheDead, OpeningIsExclusive, IdsAreOld, TypeOK, Holding,
       WatchRow, harness, callers, watcher, agent, history
  <2> QED BY <2>1, <2>2, <2>3, <2>4, <2>5
<1>25. ASSUME WatchClears PROVE PlaceInv'
  <2>1. OpeningIsExclusive'
    BY <1>25 DEF OpeningIsExclusive, TypeOK, Holding,
       WatchClears, harness, callers, watcher, agent, history
  <2>2. IdsAreOld'
    BY <1>25 DEF IdsAreOld, TypeOK, Holding,
       WatchClears, harness, callers, watcher, agent, history
  <2>3. DoneIsDead'
    BY <1>25 DEF DoneIsDead, IdsAreOld, TypeOK, Holding,
       WatchClears, harness, callers, watcher, agent, history
  <2>4. TakeoverOnlyOfTheDead'
    BY <1>0, <1>25 DEF WatchClears, TakeoverOnlyOfTheDead, TypeOK, callers, agent
  <2>5. NothingIsLost'
    BY <1>25 DEF NothingIsLost, TakeoverOnlyOfTheDead, OpeningIsExclusive, IdsAreOld, TypeOK, Holding,
       WatchClears, harness, callers, watcher, agent, history
  <2> QED BY <2>1, <2>2, <2>3, <2>4, <2>5
<1>26. ASSUME WatchGivesUp PROVE PlaceInv'
  <2>1. OpeningIsExclusive'
    BY <1>26 DEF OpeningIsExclusive, TypeOK, Holding,
       WatchGivesUp, Restart, harness, callers, watcher, agent, history
  <2>2. IdsAreOld'
    BY <1>26 DEF IdsAreOld, TypeOK, Holding,
       WatchGivesUp, Restart, harness, callers, watcher, agent, history
  <2>3. DoneIsDead'
    BY <1>26 DEF DoneIsDead, IdsAreOld, TypeOK, Holding,
       WatchGivesUp, Restart, harness, callers, watcher, agent, history
  <2>4. TakeoverOnlyOfTheDead'
    BY <1>26 DEF TakeoverOnlyOfTheDead, IdsAreOld, OpeningIsExclusive, NothingIsLost, TypeOK, Holding,
       WatchGivesUp, Restart, harness, callers, watcher, agent, history
  <2>5. NothingIsLost'
    BY <1>26 DEF NothingIsLost, TakeoverOnlyOfTheDead, OpeningIsExclusive, IdsAreOld, TypeOK, Holding,
       WatchGivesUp, Restart, harness, callers, watcher, agent, history
  <2> QED BY <2>1, <2>2, <2>3, <2>4, <2>5
<1>27. ASSUME Crash PROVE PlaceInv'
  <2>1. OpeningIsExclusive'
    BY <1>27 DEF OpeningIsExclusive, TypeOK, Holding,
       Crash, Restart, harness, callers, watcher, agent, history
  <2>2. IdsAreOld'
    BY <1>27 DEF IdsAreOld, TypeOK, Holding,
       Crash, Restart, harness, callers, watcher, agent, history
  <2>3. DoneIsDead'
    BY <1>27 DEF DoneIsDead, IdsAreOld, TypeOK, Holding,
       Crash, Restart, harness, callers, watcher, agent, history
  <2>4. TakeoverOnlyOfTheDead'
    BY <1>27 DEF TakeoverOnlyOfTheDead, IdsAreOld, OpeningIsExclusive, NothingIsLost, TypeOK, Holding,
       Crash, Restart, harness, callers, watcher, agent, history
  <2>5. NothingIsLost'
    BY <1>27 DEF NothingIsLost, TakeoverOnlyOfTheDead, OpeningIsExclusive, IdsAreOld, TypeOK, Holding,
       Crash, Restart, harness, callers, watcher, agent, history
  <2> QED BY <2>1, <2>2, <2>3, <2>4, <2>5
<1>28. CASE UNCHANGED vars
  BY <1>28 DEF vars, OpeningIsExclusive, IdsAreOld, DoneIsDead,
       TakeoverOnlyOfTheDead, NothingIsLost, harness, callers, watcher, agent, history
<1> QED
  BY <1>1, <1>2, <1>3, <1>4, <1>5, <1>6, <1>7, <1>8, <1>9, <1>10, <1>11, <1>12, <1>13, <1>14, <1>15, <1>16, <1>17, <1>18, <1>19, <1>20, <1>21, <1>22, <1>23, <1>24, <1>25, <1>26, <1>27, <1>28
  DEF Next, CallerStep, WatchStep

\* The right to start a turn is one goroutine's at a time.
THEOREM OpeningExclusive == Spec => []OpeningIsExclusive
<1>1. PlaceInv => OpeningIsExclusive
  BY DEF PlaceInv
<1> QED BY <1>1, InitType, NextType, InitPlace, NextPlace, PTL DEF Spec

\* Until one of the three mistakes is made, two turns never work together.
THEOREM OneTurn == Spec => []OneTurnUnlessMistaken
<1>1. PlaceInv => OneTurnUnlessMistaken
  BY DEF PlaceInv, OneTurnUnlessMistaken, NeverTwoTurns, NothingIsLost,
         TakeoverOnlyOfTheDead, OpeningIsExclusive, Holding
<1> QED BY <1>1, InitType, NextType, InitPlace, NextPlace, PTL DEF Spec

\* What a claim takes over is never a turn at work.
THEOREM TakeoverDead == Spec => []TakeoverOnlyOfTheDead
<1>1. PlaceInv => TakeoverOnlyOfTheDead
  BY DEF PlaceInv
<1> QED BY <1>1, InitType, NextType, InitPlace, NextPlace, PTL DEF Spec

=============================================================================
