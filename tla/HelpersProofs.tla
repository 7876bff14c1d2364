---------------------------- MODULE HelpersProofs ----------------------------
(***************************************************************************)
(* What the two helpers that act for a session on its account keep.        *)
(*                                                                         *)
(* The execution ladder, for any orders, prices, sizes, risks, interval    *)
(* and patience: the worst price named, the patience, the arrival at the   *)
(* worst price, and the limit of the book.  PatienceInv, ArrivesInv and    *)
(* BookInv (module Ladder) are inductive, the last beside the first; types *)
(* come first, then the parts of each, in lemmas with a step per action.   *)
(*                                                                         *)
(* The watch that closes, for any contracts, families, listing and bounds: *)
(* its orders only make the book smaller.  WatchInv (module TakeProfit) is *)
(* inductive.                                                              *)
(***************************************************************************)
EXTENDS Ladder, TakeProfit, Sums, SequenceTheorems, TLAPS

-----------------------------------------------------------------------------
(* Prices.                                                                 *)

\* The larger of two prices is one of them and no smaller than either.
LEMMA MaxOfTwo ==
  ASSUME NEW a \in Int, NEW b \in Int
  PROVE  Max({a, b}) \in Int /\ a <= Max({a, b}) /\ b <= Max({a, b})
<1>1. \E x \in {a, b} : \A y \in {a, b} : x >= y
  <2>1. CASE a <= b
    BY <2>1
  <2>2. CASE b <= a
    BY <2>2
  <2> QED BY <2>1, <2>2
<1>2. Max({a, b}) \in {a, b} /\ \A y \in {a, b} : Max({a, b}) >= y
  BY <1>1 DEF Max
<1> QED BY <1>2

\* What the assumption says of one order, and of the lengths of time.
LEMMA Constants ==
  /\ \A o \in Orders : Ask[o] \in Int /\ Floor[o] \in Int /\ Sets[o] \in Nat \ {0}
  /\ \A p \in Prices : p \in Int
  /\ Every \in Nat \ {0} /\ Patience \in Nat \ {0} /\ Every <= Patience /\ Step \in Nat \ {0}
  /\ PassLimit \in Nat /\ MaxTime \in Nat
  /\ Longest \in Nat \ {0} /\ Every <= Longest /\ PassLimit <= Longest
BY LadderAssumption DEF Longest

\* stride and Toward: a step ends between where the order stood and where it walks to.
LEMMA StepIsBetween ==
  ASSUME NEW o \in DOMAIN shown, shown[o].limit \in Int, shown[o].submitted \in Int,
         NEW target \in Int, NEW price \in NextPrice(o, target)
  PROVE  /\ price \in Int
         /\ \/ shown[o].limit <= price /\ price <= target
            \/ target <= price /\ price <= shown[o].limit
<1> DEFINE was == shown[o].limit
           d   == IF target > was THEN target - was ELSE was - target
<1>1. d \in Nat /\ was \in Int
  OBVIOUS
<1>2. PICK m : /\ price = (IF target > was THEN was + m ELSE was - m)
               /\ m \in Rounded(d, StepsLeft(o)) \/ m = (IF Step < d THEN Step ELSE d)
  BY DEF NextPrice
<1>3. m \in 0..d
  <2>1. CASE m \in Rounded(d, StepsLeft(o))
    BY <2>1 DEF Rounded
  <2>2. CASE m = (IF Step < d THEN Step ELSE d)
    BY <1>1, <2>2, Constants
  <2> QED BY <1>2, <2>1, <2>2
<1> QED BY <1>1, <1>2, <1>3

\* walk: a replacement of an order that names its worst price is asked for at no worse.
LEMMA ConcessionIsBounded ==
  ASSUME NEW o \in Orders \cap DOMAIN shown, shown[o].limit \in Int, shown[o].submitted \in Int,
         NEW showing \in Int, NEW price \in Concessions(o, showing)
  PROVE  /\ o \in Named /\ price \in Int
         /\ price <= shown[o].limit \/ price <= Floor[o]
<1>1. o \in Named /\ price \in NextPrice(o, Target(o, showing))
  BY DEF Concessions
<1>2. Target(o, showing) \in Int /\ Target(o, showing) <= Floor[o] /\ Floor[o] \in Int
  BY Constants DEF Target
<1>3. /\ price \in Int
      /\ \/ shown[o].limit <= price /\ price <= Target(o, showing)
         \/ Target(o, showing) <= price /\ price <= shown[o].limit
  BY <1>1, <1>2, StepIsBetween
<1> QED BY <1>1, <1>2, <1>3

\* stride: with one step left the order arrives.
LEMMA LastStepArrives ==
  ASSUME NEW o \in Orders \cap DOMAIN shown, shown[o].limit \in Int, Stride = "arrive",
         StepsLeft(o) = 1, NEW showing \in Int, showing >= Floor[o],
         NEW price \in Concessions(o, showing)
  PROVE  price = Floor[o]
<1> DEFINE was == shown[o].limit
           d   == IF Floor[o] > was THEN Floor[o] - was ELSE was - Floor[o]
<1>1. Floor[o] \in Int /\ Target(o, showing) = Floor[o]
  BY Constants DEF Target
<1>2. price \in NextPrice(o, Floor[o])
  BY <1>1 DEF Concessions
<1>3. d \in Nat /\ was \in Int /\ Step \in Nat
  BY <1>1, Constants
<1>4. PICK m : /\ price = (IF Floor[o] > was THEN was + m ELSE was - m)
               /\ IF d > Step THEN m \in Rounded(d, 1) ELSE m = (IF Step < d THEN Step ELSE d)
  BY <1>2, <1>3 DEF NextPrice
<1>5. m = d
  BY <1>3, <1>4 DEF Rounded
<1> QED BY <1>1, <1>3, <1>4, <1>5

-----------------------------------------------------------------------------
(* Types.                                                                  *)

USE DEF clockVars, brokerVars, ageVars, limitVars, passVars, history, Time, Never

\* lifeOf: a moment, or that none is known.
LEMMA LifeType ==
  ASSUME OrderTypes, NEW o \in DOMAIN shown
  PROVE  LifeOf(o) \in Time
BY DEF OrderTypes, AgeTypes, PassTypes, Shown, LifeOf

\* The ticker of Ladder.Run and the moment step reads once a pass stay moments.
LEMMA NextClock ==
  ASSUME OrderTypes, [Next]_vars
  PROVE  ClockTypes'
<1>1. CASE Advance
  <2>1. now \in Nat /\ now < MaxTime /\ MaxTime \in Nat /\ now' = now + 1
    BY <1>1, Constants DEF Advance, OrderTypes, ClockTypes
  <2>2. nextTick' \in Nat
    <3>1. nextTick' = nextTick + Every \/ nextTick' = nextTick
      BY <1>1 DEF Advance
    <3> QED BY <3>1, Constants DEF OrderTypes, ClockTypes
  <2>4. tick' \in BOOLEAN
    <3>1. tick' = TRUE \/ tick' = tick
      BY <1>1 DEF Advance
    <3> QED BY <3>1, Zenon DEF OrderTypes, ClockTypes
  <2>3. now' \in Time
    BY <2>1
  <2> QED BY <1>1, <2>2, <2>3, <2>4 DEF Advance, OrderTypes, ClockTypes
<1>2. ASSUME NEW o \in Orders, Send(o) PROVE ClockTypes'
  BY <1>2 DEF Send, OrderTypes, ClockTypes
<1>3. ASSUME NEW o \in Orders, SessionCancels(o) PROVE ClockTypes'
  BY <1>3 DEF SessionCancels, OrderTypes, ClockTypes
<1>4. ASSUME NEW o \in Orders, Fill(o) PROVE ClockTypes'
  BY <1>4 DEF Fill, OrderTypes, ClockTypes
<1>5. CASE Restart
  <2>1. now \in Nat /\ nextTick' = now + Every /\ Every \in Nat
    BY <1>5, Constants DEF Restart, OrderTypes, ClockTypes
  <2>2. nextTick' \in Nat
    BY <2>1
  <2>3. tick' \in BOOLEAN
    BY <1>5, Zenon DEF Restart
  <2>4. restarts' \in Nat /\ now' \in Time /\ tnow' \in Time
    BY <1>5 DEF Restart, OrderTypes, ClockTypes
  <2> QED BY <2>2, <2>3, <2>4 DEF Restart, OrderTypes, ClockTypes
<1>6. CASE PassStarts
  BY <1>6 DEF PassStarts, OrderTypes, ClockTypes
<1>7. CASE ReadOrders
  BY <1>7 DEF ReadOrders, OrderTypes, ClockTypes
<1>8. CASE OrdersUnreadable
  BY <1>8 DEF OrdersUnreadable, PassEnds, OrderTypes, ClockTypes
<1>9. CASE ReadLimits
  BY <1>9 DEF ReadLimits, OrderTypes, ClockTypes
<1>10. CASE NextOrder
  BY <1>10 DEF NextOrder, FirstCheck, AfterFuse, AfterUnbounded, AfterTooBig, OrderTypes, ClockTypes
<1>11. CASE Refuse
  BY <1>11 DEF Refuse, OrderTypes, ClockTypes
<1>12. CASE RefuseFails
  BY <1>12 DEF RefuseFails, CancelFails, AfterUnbounded, AfterTooBig, OrderTypes, ClockTypes
<1>13. CASE TooFresh
  BY <1>13 DEF TooFresh, OrderTypes, ClockTypes
<1>14. CASE PatienceCancels
  BY <1>14 DEF PatienceCancels, OrderTypes, ClockTypes
<1>15. CASE PatienceCancelFails
  BY <1>15 DEF PatienceCancelFails, CancelFails, OrderTypes, ClockTypes
<1>16. CASE WalkLeavesAlone
  BY <1>16 DEF WalkLeavesAlone, OrderTypes, ClockTypes
<1>17. CASE Walk
  BY <1>17 DEF Walk, OrderTypes, ClockTypes
<1>18. CASE WalkFails
  BY <1>18 DEF WalkFails, OrderTypes, ClockTypes
<1>19. CASE WalkAnswerLost
  BY <1>19 DEF WalkAnswerLost, OrderTypes, ClockTypes
<1>20. CASE AllJudged
  BY <1>20 DEF AllJudged, OrderTypes, ClockTypes
<1>21. CASE Tell
  BY <1>21 DEF Tell, PassEnds, OrderTypes, ClockTypes
<1>22. CASE Finished
  BY <1>22 DEF Finished, vars, OrderTypes, ClockTypes
<1>23. CASE UNCHANGED vars
  BY <1>23 DEF vars, OrderTypes, ClockTypes
<1> QED BY <1>1, <1>2, <1>3, <1>4, <1>5, <1>6, <1>7, <1>8, <1>9, <1>10, <1>11, <1>12, <1>13,
       <1>14, <1>15, <1>16, <1>17, <1>18, <1>19, <1>20, <1>21, <1>22, <1>23 DEF Next

\* walk: the prices of a replacement are whole cents.
LEMMA WalkPrices ==
  ASSUME OrderTypes, pc = "price"
  PROVE  \A showing \in Prices : \A price \in Concessions(cur, showing) : price \in Int
<1>1. cur \in Orders \cap DOMAIN shown /\ shown[cur].limit \in Int /\ shown[cur].submitted \in Int
  BY DEF OrderTypes, PassTypes, Shown
<1> QED BY <1>1, ConcessionIsBounded, Constants

\* The broker's side of the orders: a fill takes a set of an order that still rests one, a
\* replacement (Broker.Replace) names a price in whole cents.
LEMMA NextBroker ==
  ASSUME OrderTypes, FloorIsKept, AsRead, [Next]_vars
  PROVE  BrokerTypes'
<1>1. CASE Advance
  BY <1>1 DEF Advance, OrderTypes, BrokerTypes, ClockTypes, PassTypes, Statuses, Working
<1>2. ASSUME NEW o \in Orders, Send(o) PROVE BrokerTypes'
  BY <1>2 DEF Send, OrderTypes, BrokerTypes, ClockTypes, PassTypes, Statuses, Working
<1>3. ASSUME NEW o \in Orders, SessionCancels(o) PROVE BrokerTypes'
  BY <1>3 DEF SessionCancels, OrderTypes, BrokerTypes, ClockTypes, PassTypes, Statuses, Working
<1>4. ASSUME NEW o \in Orders, Fill(o) PROVE BrokerTypes'
  <2>1. rest[o] \in Nat /\ rest[o] > 0
    BY <1>4 DEF Fill, OrderTypes, BrokerTypes, AsRead, Working
  <2> QED BY <1>4, <2>1 DEF Fill, OrderTypes, BrokerTypes, Statuses, Working
<1>5. CASE Restart
  BY <1>5 DEF Restart, OrderTypes, BrokerTypes, ClockTypes, PassTypes, Statuses, Working
<1>6. CASE PassStarts
  BY <1>6 DEF PassStarts, OrderTypes, BrokerTypes, ClockTypes, PassTypes, Statuses, Working
<1>7. CASE ReadOrders
  BY <1>7 DEF ReadOrders, OrderTypes, BrokerTypes, ClockTypes, PassTypes, Statuses, Working
<1>8. CASE OrdersUnreadable
  BY <1>8 DEF OrdersUnreadable, PassEnds, OrderTypes, BrokerTypes, ClockTypes, PassTypes,
         Statuses, Working
<1>9. CASE ReadLimits
  BY <1>9 DEF ReadLimits, OrderTypes, BrokerTypes, ClockTypes, PassTypes, Statuses, Working
<1>10. CASE NextOrder
  BY <1>10 DEF NextOrder, FirstCheck, AfterFuse, AfterUnbounded, AfterTooBig, OrderTypes,
         BrokerTypes, ClockTypes, PassTypes, Statuses, Working
<1>11. CASE Refuse
  BY <1>11 DEF Refuse, OrderTypes, BrokerTypes, ClockTypes, PassTypes, Statuses, Working
<1>12. CASE RefuseFails
  BY <1>12 DEF RefuseFails, CancelFails, AfterUnbounded, AfterTooBig, OrderTypes, BrokerTypes,
         ClockTypes, PassTypes, Statuses, Working
<1>13. CASE TooFresh
  BY <1>13 DEF TooFresh, OrderTypes, BrokerTypes, ClockTypes, PassTypes, Statuses, Working
<1>14. CASE PatienceCancels
  BY <1>14 DEF PatienceCancels, OrderTypes, BrokerTypes, ClockTypes, PassTypes, Statuses, Working
<1>15. CASE PatienceCancelFails
  BY <1>15 DEF PatienceCancelFails, CancelFails, OrderTypes, BrokerTypes, ClockTypes, PassTypes,
         Statuses, Working
<1>16. CASE WalkLeavesAlone
  BY <1>16 DEF WalkLeavesAlone, OrderTypes, BrokerTypes, ClockTypes, PassTypes, Statuses, Working
<1>17. CASE Walk
  <2>1. \A showing \in Prices : \A price \in Concessions(cur, showing) : price \in Int
    BY <1>17, WalkPrices DEF Walk
  <2> QED BY <1>17, <2>1 DEF Walk, OrderTypes, BrokerTypes, ClockTypes
<1>18. CASE WalkFails
  BY <1>18 DEF WalkFails, OrderTypes, BrokerTypes, ClockTypes, PassTypes, Statuses, Working
<1>19. CASE WalkAnswerLost
  <2>1. \A showing \in Prices : \A price \in Concessions(cur, showing) : price \in Int
    BY <1>19, WalkPrices DEF WalkAnswerLost
  <2> QED BY <1>19, <2>1 DEF WalkAnswerLost, OrderTypes, BrokerTypes, ClockTypes
<1>20. CASE AllJudged
  BY <1>20 DEF AllJudged, OrderTypes, BrokerTypes, ClockTypes, PassTypes, Statuses, Working
<1>21. CASE Tell
  BY <1>21 DEF Tell, PassEnds, OrderTypes, BrokerTypes, ClockTypes, PassTypes, Statuses, Working
<1>22. CASE Finished
  BY <1>22 DEF Finished, vars, OrderTypes, BrokerTypes, ClockTypes, PassTypes, Statuses, Working
<1>23. CASE UNCHANGED vars
  BY <1>23 DEF vars, OrderTypes, BrokerTypes, ClockTypes, PassTypes, Statuses, Working
<1> QED BY <1>1, <1>2, <1>3, <1>4, <1>5, <1>6, <1>7, <1>8, <1>9, <1>10, <1>11, <1>12, <1>13,
       <1>14, <1>15, <1>16, <1>17, <1>18, <1>19, <1>20, <1>21, <1>22, <1>23 DEF Next

\* Ladder.ages and Ladder.passes: a chain was moved in a pass that was, and begins at a moment.
LEMMA NextAges ==
  ASSUME OrderTypes, [Next]_vars
  PROVE  AgeTypes'
<1>1. CASE Advance
  BY <1>1 DEF Advance, OrderTypes, AgeTypes
<1>2. ASSUME NEW o \in Orders, Send(o) PROVE AgeTypes'
  BY <1>2 DEF Send, OrderTypes, AgeTypes
<1>3. ASSUME NEW o \in Orders, SessionCancels(o) PROVE AgeTypes'
  BY <1>3 DEF SessionCancels, OrderTypes, AgeTypes
<1>4. ASSUME NEW o \in Orders, Fill(o) PROVE AgeTypes'
  BY <1>4 DEF Fill, OrderTypes, AgeTypes
<1>5. CASE Restart
  BY <1>5 DEF Restart, OrderTypes, AgeTypes
<1>6. CASE PassStarts
  BY <1>6 DEF PassStarts, OrderTypes, AgeTypes
<1>7. CASE ReadOrders
  BY <1>7 DEF ReadOrders, OrderTypes, AgeTypes
<1>8. CASE OrdersUnreadable
  BY <1>8 DEF OrdersUnreadable, PassEnds, OrderTypes, AgeTypes
<1>9. CASE ReadLimits
  BY <1>9 DEF ReadLimits, OrderTypes, AgeTypes
<1>10. CASE NextOrder
  BY <1>10 DEF NextOrder, FirstCheck, AfterFuse, AfterUnbounded, AfterTooBig, OrderTypes, AgeTypes
<1>11. CASE Refuse
  <2>1. cur \in DOMAIN shown /\ passes' = passes
    BY <1>11 DEF Refuse, OrderTypes, PassTypes
  <2>2. placed' \in [Orders -> Time \cup {Never}]
    BY <1>11, <2>1 DEF Refuse, OrderTypes, AgeTypes
  <2>3. movedOn' \in [Orders -> 0..passes]
    <3>1. passes \in 0..passes /\ 0 \in 0..passes /\ movedOn \in [Orders -> 0..passes]
      BY DEF OrderTypes, AgeTypes
    <3>2. \E k \in 0..passes : movedOn' = [movedOn EXCEPT ![cur] = k]
      BY <1>11, <3>1 DEF Refuse
    <3> QED BY <3>1, <3>2
  <2> QED BY <2>1, <2>2, <2>3 DEF OrderTypes, AgeTypes
<1>12. CASE RefuseFails
  BY <1>12 DEF RefuseFails, CancelFails, AfterUnbounded, AfterTooBig, OrderTypes, AgeTypes
<1>13. CASE TooFresh
  <2>1. cur \in DOMAIN shown /\ LifeOf(cur) \in Time
    BY <1>13, LifeType DEF TooFresh, OrderTypes, PassTypes
  <2> QED BY <1>13, <2>1 DEF TooFresh, OrderTypes, AgeTypes
<1>14. CASE PatienceCancels
  <2>1. cur \in DOMAIN shown /\ passes' = passes
    BY <1>14 DEF PatienceCancels, OrderTypes, PassTypes
  <2>2. placed' \in [Orders -> Time \cup {Never}]
    BY <1>14, <2>1 DEF PatienceCancels, OrderTypes, AgeTypes
  <2>3. movedOn' \in [Orders -> 0..passes]
    <3>1. passes \in 0..passes /\ 0 \in 0..passes /\ movedOn \in [Orders -> 0..passes]
      BY DEF OrderTypes, AgeTypes
    <3>2. \E k \in 0..passes : movedOn' = [movedOn EXCEPT ![cur] = k]
      BY <1>14, <3>1 DEF PatienceCancels
    <3> QED BY <3>1, <3>2
  <2> QED BY <2>1, <2>2, <2>3 DEF OrderTypes, AgeTypes
<1>15. CASE PatienceCancelFails
  <2>1. cur \in DOMAIN shown /\ LifeOf(cur) \in Time
    BY <1>15, LifeType DEF PatienceCancelFails, OrderTypes, PassTypes
  <2> QED BY <1>15, <2>1 DEF PatienceCancelFails, OrderTypes, AgeTypes
<1>16. CASE WalkLeavesAlone
  <2>1. cur \in DOMAIN shown /\ LifeOf(cur) \in Time
    BY <1>16, LifeType DEF WalkLeavesAlone, OrderTypes, PassTypes
  <2> QED BY <1>16, <2>1 DEF WalkLeavesAlone, OrderTypes, AgeTypes
<1>17. CASE Walk
  <2>1. cur \in DOMAIN shown /\ LifeOf(cur) \in Time /\ passes' = passes
    BY <1>17, LifeType DEF Walk, OrderTypes, PassTypes
  <2>2. placed' \in [Orders -> Time \cup {Never}]
    BY <1>17, <2>1 DEF Walk, OrderTypes, AgeTypes
  <2>3. movedOn' \in [Orders -> 0..passes]
    <3>1. passes \in 0..passes /\ 0 \in 0..passes /\ movedOn \in [Orders -> 0..passes]
      BY DEF OrderTypes, AgeTypes
    <3>2. \E k \in 0..passes : movedOn' = [movedOn EXCEPT ![cur] = k]
      BY <1>17, <3>1 DEF Walk
    <3> QED BY <3>1, <3>2
  <2> QED BY <2>1, <2>2, <2>3 DEF OrderTypes, AgeTypes
<1>18. CASE WalkFails
  <2>1. cur \in DOMAIN shown /\ LifeOf(cur) \in Time
    BY <1>18, LifeType DEF WalkFails, OrderTypes, PassTypes
  <2> QED BY <1>18, <2>1 DEF WalkFails, OrderTypes, AgeTypes
<1>19. CASE WalkAnswerLost
  <2>1. cur \in DOMAIN shown /\ passes' = passes
    BY <1>19 DEF WalkAnswerLost, OrderTypes, PassTypes
  <2>2. placed' \in [Orders -> Time \cup {Never}]
    BY <1>19, <2>1 DEF WalkAnswerLost, OrderTypes, AgeTypes
  <2>3. movedOn' \in [Orders -> 0..passes]
    <3>1. passes \in 0..passes /\ 0 \in 0..passes /\ movedOn \in [Orders -> 0..passes]
      BY DEF OrderTypes, AgeTypes
    <3>2. \E k \in 0..passes : movedOn' = [movedOn EXCEPT ![cur] = k]
      BY <1>19, <3>1 DEF WalkAnswerLost
    <3> QED BY <3>1, <3>2
  <2> QED BY <2>1, <2>2, <2>3 DEF OrderTypes, AgeTypes
<1>20. CASE AllJudged
  BY <1>20 DEF AllJudged, OrderTypes, AgeTypes
<1>21. CASE Tell
  BY <1>21 DEF Tell, PassEnds, OrderTypes, AgeTypes
<1>22. CASE Finished
  BY <1>22 DEF Finished, vars, OrderTypes, AgeTypes
<1>23. CASE UNCHANGED vars
  BY <1>23 DEF vars, OrderTypes, AgeTypes
<1> QED BY <1>1, <1>2, <1>3, <1>4, <1>5, <1>6, <1>7, <1>8, <1>9, <1>10, <1>11, <1>12, <1>13,
       <1>14, <1>15, <1>16, <1>17, <1>18, <1>19, <1>20, <1>21, <1>22, <1>23 DEF Next

\* step: the listing holds orders that rested something, and the pass works through those only.
LEMMA NextPass ==
  ASSUME OrderTypes, AsRead, [Next]_vars
  PROVE  PassTypes'
<1>1. CASE Advance
  BY <1>1 DEF Advance, OrderTypes, PassTypes, Checks
<1>2. ASSUME NEW o \in Orders, Send(o) PROVE PassTypes'
  BY <1>2 DEF Send, OrderTypes, PassTypes, Checks
<1>3. ASSUME NEW o \in Orders, SessionCancels(o) PROVE PassTypes'
  BY <1>3 DEF SessionCancels, OrderTypes, PassTypes, Checks
<1>4. ASSUME NEW o \in Orders, Fill(o) PROVE PassTypes'
  BY <1>4 DEF Fill, OrderTypes, PassTypes, Checks
<1>5. CASE Restart
  BY <1>5 DEF Restart, OrderTypes, PassTypes, Checks
<1>6. CASE PassStarts
  BY <1>6 DEF PassStarts, OrderTypes, PassTypes, Checks
<1>7. CASE ReadOrders
  <2>1. PICK seen \in SUBSET {o \in Orders : Working(o)} :
               /\ shown' = [o \in seen |-> [limit |-> limit[o], rest |-> rest[o],
                                            submitted |-> submitted[o]]]
               /\ todo' = seen
    BY <1>7 DEF ReadOrders
  <2>2. \A o \in seen : o \in Orders /\ Working(o)
    OBVIOUS
  <2>3. \A o \in seen : /\ limit[o] \in Int /\ rest[o] \in Nat /\ rest[o] > 0
                        /\ submitted[o] \in Time
    BY <2>2 DEF OrderTypes, BrokerTypes, AsRead, Working
  <2>4. DOMAIN shown' = seen /\ \A o \in seen : shown'[o] \in Shown /\ shown'[o].rest > 0
    BY <2>1, <2>3 DEF Shown
  <2> QED BY <1>7, <2>1, <2>2, <2>4 DEF ReadOrders, OrderTypes, PassTypes, Checks
<1>8. CASE OrdersUnreadable
  BY <1>8 DEF OrdersUnreadable, PassEnds, OrderTypes, PassTypes, Checks
<1>9. CASE ReadLimits
  BY <1>9 DEF ReadLimits, OrderTypes, PassTypes, Checks
<1>10. CASE NextOrder
  BY <1>10 DEF NextOrder, FirstCheck, AfterFuse, AfterUnbounded, AfterTooBig, OrderTypes,
         PassTypes, Checks
<1>11. CASE Refuse
  BY <1>11 DEF Refuse, OrderTypes, PassTypes, Checks
<1>12. CASE RefuseFails
  BY <1>12 DEF RefuseFails, CancelFails, AfterUnbounded, AfterTooBig, OrderTypes, PassTypes, Checks
<1>13. CASE TooFresh
  BY <1>13 DEF TooFresh, OrderTypes, PassTypes, Checks
<1>14. CASE PatienceCancels
  BY <1>14 DEF PatienceCancels, OrderTypes, PassTypes, Checks
<1>15. CASE PatienceCancelFails
  BY <1>15 DEF PatienceCancelFails, CancelFails, OrderTypes, PassTypes, Checks
<1>16. CASE WalkLeavesAlone
  BY <1>16 DEF WalkLeavesAlone, OrderTypes, PassTypes, Checks
<1>17. CASE Walk
  BY <1>17 DEF Walk, OrderTypes, PassTypes, Checks
<1>18. CASE WalkFails
  BY <1>18 DEF WalkFails, OrderTypes, PassTypes, Checks
<1>19. CASE WalkAnswerLost
  BY <1>19 DEF WalkAnswerLost, OrderTypes, PassTypes, Checks
<1>20. CASE AllJudged
  BY <1>20 DEF AllJudged, OrderTypes, PassTypes, Checks
<1>21. CASE Tell
  BY <1>21 DEF Tell, PassEnds, OrderTypes, PassTypes, Checks
<1>22. CASE Finished
  BY <1>22 DEF Finished, vars, OrderTypes, PassTypes, Checks
<1>23. CASE UNCHANGED vars
  BY <1>23 DEF vars, OrderTypes, PassTypes, Checks
<1> QED BY <1>1, <1>2, <1>3, <1>4, <1>5, <1>6, <1>7, <1>8, <1>9, <1>10, <1>11, <1>12, <1>13,
       <1>14, <1>15, <1>16, <1>17, <1>18, <1>19, <1>20, <1>21, <1>22, <1>23 DEF Next

\* What the properties observe of the orders: when each was sent, who was spared, why it ended.
LEMMA NextHistory ==
  ASSUME OrderTypes, [Next]_vars
  PROVE  HistoryTypes'
<1>1. CASE Advance
  BY <1>1 DEF Advance, OrderTypes, HistoryTypes, ClockTypes, PassTypes, Overdue, Checks
<1>2. ASSUME NEW o \in Orders, Send(o) PROVE HistoryTypes'
  BY <1>2 DEF Send, OrderTypes, HistoryTypes, ClockTypes, PassTypes, Overdue, Checks
<1>3. ASSUME NEW o \in Orders, SessionCancels(o) PROVE HistoryTypes'
  BY <1>3 DEF SessionCancels, OrderTypes, HistoryTypes, ClockTypes, PassTypes, Overdue, Checks
<1>4. ASSUME NEW o \in Orders, Fill(o) PROVE HistoryTypes'
  BY <1>4 DEF Fill, OrderTypes, HistoryTypes, ClockTypes, PassTypes, Overdue, Checks
<1>5. CASE Restart
  BY <1>5 DEF Restart, OrderTypes, HistoryTypes, ClockTypes, PassTypes, Overdue, Checks
<1>6. CASE PassStarts
  BY <1>6 DEF PassStarts, OrderTypes, HistoryTypes, ClockTypes, PassTypes, Overdue, Checks
<1>7. CASE ReadOrders
  BY <1>7 DEF ReadOrders, OrderTypes, HistoryTypes, ClockTypes, PassTypes, Overdue, Checks
<1>8. CASE OrdersUnreadable
  BY <1>8 DEF OrdersUnreadable, PassEnds, OrderTypes, HistoryTypes, ClockTypes, PassTypes,
         Overdue, Checks
<1>9. CASE ReadLimits
  BY <1>9 DEF ReadLimits, OrderTypes, HistoryTypes, ClockTypes, PassTypes, Overdue, Checks
<1>10. CASE NextOrder
  BY <1>10 DEF NextOrder, FirstCheck, AfterFuse, AfterUnbounded, AfterTooBig, OrderTypes,
         HistoryTypes, ClockTypes, PassTypes, Overdue, Checks
<1>11. CASE Refuse
  BY <1>11 DEF Refuse, OrderTypes, HistoryTypes, ClockTypes, PassTypes, Overdue, Checks
<1>12. CASE RefuseFails
  BY <1>12 DEF RefuseFails, CancelFails, AfterUnbounded, AfterTooBig, OrderTypes, HistoryTypes,
         ClockTypes, PassTypes, Overdue, Checks
<1>13. CASE TooFresh
  BY <1>13 DEF TooFresh, OrderTypes, HistoryTypes, ClockTypes, PassTypes, Overdue, Checks
<1>14. CASE PatienceCancels
  BY <1>14 DEF PatienceCancels, OrderTypes, HistoryTypes, ClockTypes, PassTypes, Overdue, Checks
<1>15. CASE PatienceCancelFails
  BY <1>15 DEF PatienceCancelFails, CancelFails, OrderTypes, HistoryTypes, ClockTypes, PassTypes,
         Overdue, Checks
<1>16. CASE WalkLeavesAlone
  BY <1>16 DEF WalkLeavesAlone, OrderTypes, HistoryTypes, ClockTypes, PassTypes, Overdue, Checks
<1>17. CASE Walk
  BY <1>17 DEF Walk, OrderTypes, HistoryTypes, ClockTypes, PassTypes, Overdue, Checks
<1>18. CASE WalkFails
  BY <1>18 DEF WalkFails, OrderTypes, HistoryTypes, ClockTypes, PassTypes, Overdue, Checks
<1>19. CASE WalkAnswerLost
  BY <1>19 DEF WalkAnswerLost, OrderTypes, HistoryTypes, ClockTypes, PassTypes, Overdue, Checks
<1>20. CASE AllJudged
  BY <1>20 DEF AllJudged, OrderTypes, HistoryTypes, ClockTypes, PassTypes, Overdue, Checks
<1>21. CASE Tell
  BY <1>21 DEF Tell, PassEnds, OrderTypes, HistoryTypes, ClockTypes, PassTypes, Overdue, Checks
<1>22. CASE Finished
  BY <1>22 DEF Finished, vars, OrderTypes, HistoryTypes, ClockTypes, PassTypes, Overdue, Checks
<1>23. CASE UNCHANGED vars
  BY <1>23 DEF vars, OrderTypes, HistoryTypes, ClockTypes, PassTypes, Overdue, Checks
<1> QED BY <1>1, <1>2, <1>3, <1>4, <1>5, <1>6, <1>7, <1>8, <1>9, <1>10, <1>11, <1>12, <1>13,
       <1>14, <1>15, <1>16, <1>17, <1>18, <1>19, <1>20, <1>21, <1>22, <1>23 DEF Next

-----------------------------------------------------------------------------
(* What holds from pass to pass.                                           *)

\* A step of the pass, the session or the market takes no time; passes begin from idle.
LEMMA Instant ==
  ASSUME [Next]_vars
  PROVE  \/ Advance \/ Restart \/ PassStarts
         \/ UNCHANGED <<now, nextTick, tick, tnow>> /\ (pc # "idle" \/ pc' = pc)
BY DEF Next, Send, SessionCancels, Fill, ReadOrders, OrdersUnreadable, PassEnds, ReadLimits,
       NextOrder, Refuse, RefuseFails, TooFresh, PatienceCancels, PatienceCancelFails,
       WalkLeavesAlone, Walk, WalkFails, WalkAnswerLost, AllJudged, Tell, Finished, vars, Checks

\* The ticker has one slot: a tick that came while a pass ran starts the next at once.
LEMMA NextKeepsTime ==
  ASSUME OrderTypes, KeepsTime, [Next]_vars
  PROVE  KeepsTime'
<1>0. /\ now \in Nat /\ nextTick \in Nat /\ tnow \in Nat
      /\ Every \in Nat \ {0} /\ PassLimit \in Nat /\ Longest \in Nat
      /\ Every <= Longest /\ PassLimit <= Longest
  BY Constants DEF OrderTypes, ClockTypes
<1>1. CASE Advance
  <2>1. now' = now + 1 /\ UNCHANGED <<pc, tnow>>
        /\ (IF pc = "idle" THEN ~tick ELSE now - tnow < PassLimit)
    BY <1>1 DEF Advance
  <2>2. CASE now' = nextTick
    <3>1. nextTick' = nextTick + Every /\ tick'
      BY <1>1, <2>2 DEF Advance
    <3> QED BY <1>0, <2>1, <2>2, <3>1 DEF KeepsTime
  <2>3. CASE now' # nextTick
    <3>1. nextTick' = nextTick /\ (tick' <=> tick)
      BY <1>1, <2>3 DEF Advance
    <3> QED BY <1>0, <2>1, <2>3, <3>1 DEF KeepsTime
  <2> QED BY <2>2, <2>3
<1>2. CASE Restart
  <2>1. nextTick' = now + Every /\ ~tick' /\ tnow' = now /\ now' = now /\ pc' = "idle"
    BY <1>2 DEF Restart
  <2> QED BY <1>0, <2>1 DEF KeepsTime
<1>3. CASE PassStarts
  <2>1. ~tick' /\ tnow' = now /\ pc' = "orders" /\ UNCHANGED <<now, nextTick>>
    BY <1>3 DEF PassStarts
  <2> QED BY <1>0, <2>1 DEF KeepsTime
<1>4. CASE UNCHANGED <<now, nextTick, tick, tnow>> /\ (pc # "idle" \/ pc' = pc)
  <2>1. UNCHANGED <<now, nextTick, tnow>> /\ (tick' <=> tick)
    BY <1>4
  <2> QED BY <1>0, <1>4, <2>1 DEF KeepsTime
<1> QED BY <1>1, <1>2, <1>3, <1>4, Instant

\* Only a replacement changes a price, and Toward never passes the worst price named.
LEMMA NextFloor ==
  ASSUME OrderTypes, FloorIsKept, AsRead, [Next]_vars
  PROVE  FloorIsKept'
<1>1. CASE Walk \/ WalkAnswerLost
  <2>1. PICK showing \in Prices : \E price \in Concessions(cur, showing) :
               limit' = [limit EXCEPT ![cur] = price]
    BY <1>1 DEF Walk, WalkAnswerLost
  <2>2. PICK price \in Concessions(cur, showing) : limit' = [limit EXCEPT ![cur] = price]
    BY <2>1
  <2>3. /\ cur \in Orders \cap DOMAIN shown /\ shown[cur].limit \in Int
        /\ shown[cur].submitted \in Int /\ shown[cur].limit = limit[cur]
    BY <1>1 DEF Walk, WalkAnswerLost, OrderTypes, PassTypes, Shown, AsRead, ToJudge
  <2>4. cur \in Named /\ price \in Int /\ (price <= shown[cur].limit \/ price <= Floor[cur])
    BY <2>2, <2>3, ConcessionIsBounded, Constants
  <2>5. price <= Max({Ask[cur], Floor[cur]})
    <3>1. /\ Ask[cur] \in Int /\ Floor[cur] \in Int /\ Max({Ask[cur], Floor[cur]}) \in Int
          /\ Floor[cur] <= Max({Ask[cur], Floor[cur]})
      BY <2>3, Constants, MaxOfTwo
    <3>2. shown[cur].limit <= Max({Ask[cur], Floor[cur]})
      BY <2>3, <2>4 DEF FloorIsKept
    <3> QED BY <2>3, <2>4, <3>1, <3>2
  <2>6. limit' = [o \in Orders |-> IF o = cur THEN price ELSE limit[o]]
    BY <2>2 DEF OrderTypes, BrokerTypes
  <2> QED BY <2>3, <2>4, <2>5, <2>6 DEF FloorIsKept
<1>2. CASE limit' = limit
  BY <1>2 DEF FloorIsKept
<1>3. Walk \/ WalkAnswerLost \/ limit' = limit
  BY DEF Next, Advance, Send, SessionCancels, Fill, Restart, PassStarts, ReadOrders,
         OrdersUnreadable, ReadLimits, NextOrder, Refuse, RefuseFails, TooFresh,
         PatienceCancels, PatienceCancelFails, WalkLeavesAlone, WalkFails, AllJudged, Tell,
         Finished, vars
<1> QED BY <1>1, <1>2, <1>3

\* step: what is still to judge stands at the price and under the id the listing showed, since
\* only the pass itself replaces an order, and judges each once (passes, movedOn).
LEMMA NextAsRead ==
  ASSUME OrderTypes, AsRead, [Next]_vars
  PROVE  AsRead'
<1>1. CASE Advance
  BY <1>1 DEF Advance, AsRead, ToJudge, OrderTypes, BrokerTypes, AgeTypes, PassTypes, Checks,
         Working, Statuses
<1>2. ASSUME NEW o \in Orders, Send(o) PROVE AsRead'
  BY <1>2 DEF Send, AsRead, ToJudge, OrderTypes, ClockTypes, BrokerTypes, PassTypes, Checks
<1>3. ASSUME NEW o \in Orders, SessionCancels(o) PROVE AsRead'
  BY <1>3 DEF SessionCancels, AsRead, ToJudge, OrderTypes, BrokerTypes, AgeTypes, PassTypes,
         Checks, Working, Statuses
<1>4. ASSUME NEW o \in Orders, Fill(o) PROVE AsRead'
  BY <1>4 DEF Fill, AsRead, ToJudge, OrderTypes, BrokerTypes, AgeTypes, PassTypes, Checks,
         Working, Statuses
<1>5. CASE Restart
  BY <1>5 DEF Restart, AsRead, ToJudge, OrderTypes, BrokerTypes, AgeTypes, PassTypes, Checks,
         Working, Statuses
<1>6. CASE PassStarts
  BY <1>6 DEF PassStarts, AsRead, ToJudge, OrderTypes, BrokerTypes, AgeTypes, PassTypes, Checks,
         Working, Statuses
<1>7. CASE ReadOrders
  BY <1>7 DEF ReadOrders, AsRead, ToJudge, OrderTypes, BrokerTypes, AgeTypes, PassTypes, Checks,
         Working, Statuses
<1>8. CASE OrdersUnreadable
  BY <1>8 DEF OrdersUnreadable, PassEnds, AsRead, ToJudge, OrderTypes, BrokerTypes, AgeTypes,
         PassTypes, Checks, Working, Statuses
<1>9. CASE ReadLimits
  BY <1>9 DEF ReadLimits, AsRead, ToJudge, OrderTypes, BrokerTypes, AgeTypes, PassTypes, Checks,
         Working, Statuses
<1>10. CASE NextOrder
  BY <1>10 DEF NextOrder, FirstCheck, AfterFuse, AfterUnbounded, AfterTooBig, AsRead, ToJudge,
         OrderTypes, BrokerTypes, AgeTypes, PassTypes, Checks, Working, Statuses
<1>11. CASE Refuse
  BY <1>11 DEF Refuse, AsRead, ToJudge, OrderTypes, BrokerTypes, AgeTypes, PassTypes, Checks,
         Working, Statuses
<1>12. CASE RefuseFails
  BY <1>12 DEF RefuseFails, CancelFails, AfterUnbounded, AfterTooBig, AsRead, ToJudge, OrderTypes,
         BrokerTypes, AgeTypes, PassTypes, Checks, Working, Statuses
<1>13. CASE TooFresh
  BY <1>13 DEF TooFresh, AsRead, ToJudge, OrderTypes, BrokerTypes, AgeTypes, PassTypes, Checks,
         Working, Statuses
<1>14. CASE PatienceCancels
  BY <1>14 DEF PatienceCancels, AsRead, ToJudge, OrderTypes, BrokerTypes, AgeTypes, PassTypes,
         Checks, Working, Statuses
<1>15. CASE PatienceCancelFails
  BY <1>15 DEF PatienceCancelFails, CancelFails, AsRead, ToJudge, OrderTypes, BrokerTypes,
         AgeTypes, PassTypes, Checks, Working, Statuses
<1>16. CASE WalkLeavesAlone
  BY <1>16 DEF WalkLeavesAlone, AsRead, ToJudge, OrderTypes, BrokerTypes, AgeTypes, PassTypes,
         Checks, Working, Statuses
<1>17. CASE Walk
  BY <1>17 DEF Walk, AsRead, ToJudge, OrderTypes, ClockTypes, BrokerTypes, AgeTypes, PassTypes,
         Checks, Working
<1>18. CASE WalkFails
  BY <1>18 DEF WalkFails, AsRead, ToJudge, OrderTypes, BrokerTypes, AgeTypes, PassTypes, Checks,
         Working, Statuses
<1>19. CASE WalkAnswerLost
  BY <1>19 DEF WalkAnswerLost, AsRead, ToJudge, OrderTypes, ClockTypes, BrokerTypes, AgeTypes,
         PassTypes, Checks, Working
<1>20. CASE AllJudged
  BY <1>20 DEF AllJudged, AsRead, ToJudge, OrderTypes, BrokerTypes, AgeTypes, PassTypes, Checks,
         Working, Statuses
<1>21. CASE Tell
  BY <1>21 DEF Tell, PassEnds, AsRead, ToJudge, OrderTypes, BrokerTypes, AgeTypes, PassTypes,
         Checks, Working, Statuses
<1>22. CASE Finished
  BY <1>22 DEF Finished, vars, AsRead, ToJudge, OrderTypes, BrokerTypes, AgeTypes, PassTypes,
         Checks, Working, Statuses
<1>23. CASE UNCHANGED vars
  BY <1>23 DEF vars, AsRead, ToJudge, OrderTypes, BrokerTypes, AgeTypes, PassTypes, Checks,
         Working, Statuses
<1> QED BY <1>1, <1>2, <1>3, <1>4, <1>5, <1>6, <1>7, <1>8, <1>9, <1>10, <1>11, <1>12, <1>13,
       <1>14, <1>15, <1>16, <1>17, <1>18, <1>19, <1>20, <1>21, <1>22, <1>23 DEF Next

\* The moments compared below are numbers, and the lengths of time stand as the configuration
\* wants them (parseExecution).
LEMMA Moments ==
  ASSUME OrderTypes
  PROVE  /\ now \in Nat /\ tnow \in Nat
         /\ \A o \in Orders : sentAt[o] \in Int /\ placed[o] \in Int /\ submitted[o] \in Int
         /\ Patience \in Nat /\ Every \in Nat \ {0} /\ Every <= Patience
         /\ Longest \in Nat /\ PassLimit \in Nat /\ PassLimit <= Longest
<1>1. now \in Nat /\ tnow \in Nat
  BY DEF OrderTypes, ClockTypes
<1>2. \A o \in Orders : sentAt[o] \in Int /\ placed[o] \in Int /\ submitted[o] \in Int
  <2>1. \A m \in Time \cup {Never} : m \in Int
    BY Constants
  <2>2. \A f \in [Orders -> Time \cup {Never}], o \in Orders : f[o] \in Int
    BY <2>1, Zenon
  <2> QED BY <2>2 DEF OrderTypes, BrokerTypes, AgeTypes, HistoryTypes
<1> QED BY <1>1, <1>2, Constants

\* lifeOf, of an order that nothing spared: the moment the session sent it.
LEMMA LifeIsSent ==
  ASSUME OrderTypes, AsRead, ChainKept, NEW o \in ToJudge \ spared, Working(o)
  PROVE  LifeOf(o) = sentAt[o] /\ Age(o) = tnow - sentAt[o] /\ 0 <= sentAt[o]
BY DEF OrderTypes, PassTypes, AsRead, ChainKept, ToJudge, LifeOf, Age

\* Past its patience an order has rested, so the pass does not step it but cancels it.
LEMMA OverdueIsOutOfPatience ==
  ASSUME OrderTypes, AsRead, ChainKept, NEW o \in ToJudge \ spared, Working(o),
         tnow - sentAt[o] > Patience
  PROVE  Rested(o) /\ OutOfPatience(o)
<1>1. Age(o) = tnow - sentAt[o] /\ o \in Orders
  BY LifeIsSent DEF ToJudge, OrderTypes, PassTypes
<1>2. Age(o) \in Int /\ Age(o) > Patience /\ Age(o) >= Every
  BY <1>1, Moments
<1>3. movedOn[o] # passes
  BY <1>1 DEF AsRead, OrderTypes, AgeTypes
<1> QED BY <1>2, <1>3 DEF Rested, OutOfPatience

\* carried, lifeOf: a chain nothing spared keeps the moment the session sent it, through every
\* replacement, and forgetWhatIsDone drops it only when the order is over.
LEMMA NextChain ==
  ASSUME OrderTypes, AsRead, ChainKept, NoneOverlooked, [Next]_vars
  PROVE  ChainKept'
<1>1. CASE Advance
  <2>1. now <= now' /\ now \in Nat /\ now' \in Nat
    BY <1>1, Moments DEF Advance
  <2> QED BY <1>1, <2>1, Moments DEF Advance, ChainKept, Working
<1>2. ASSUME NEW o \in Orders, Send(o) PROVE ChainKept'
  <2>1. now \in Nat /\ placed[o] = Never /\ submitted'[o] = now /\ sentAt'[o] = now
    BY <1>2, Moments DEF Send, AsRead, OrderTypes, BrokerTypes, HistoryTypes
  <2>2. \A u \in Orders : u # o =>
          sentAt'[u] = sentAt[u] /\ status'[u] = status[u] /\ submitted'[u] = submitted[u]
    BY <1>2 DEF Send, OrderTypes, BrokerTypes, HistoryTypes
  <2> QED BY <1>2, <2>1, <2>2 DEF Send, ChainKept, Working
<1>3. ASSUME NEW o \in Orders, SessionCancels(o) PROVE ChainKept'
  BY <1>3 DEF SessionCancels, ChainKept, OrderTypes, ClockTypes, BrokerTypes, AgeTypes, PassTypes,
         HistoryTypes, Working
<1>4. ASSUME NEW o \in Orders, Fill(o) PROVE ChainKept'
  BY <1>4 DEF Fill, ChainKept, OrderTypes, ClockTypes, BrokerTypes, AgeTypes, PassTypes,
         HistoryTypes, Working
<1>5. CASE Restart
  BY <1>5 DEF Restart, ChainKept, OrderTypes, ClockTypes, BrokerTypes, AgeTypes, PassTypes,
         HistoryTypes, Working
<1>6. CASE PassStarts
  BY <1>6 DEF PassStarts, ChainKept, OrderTypes, ClockTypes, BrokerTypes, AgeTypes, PassTypes,
         HistoryTypes, Working
<1>7. CASE ReadOrders
  BY <1>7 DEF ReadOrders, ChainKept, OrderTypes, ClockTypes, BrokerTypes, AgeTypes, PassTypes,
         HistoryTypes, Working
<1>8. CASE OrdersUnreadable
  BY <1>8 DEF OrdersUnreadable, PassEnds, ChainKept, OrderTypes, ClockTypes, BrokerTypes,
         AgeTypes, PassTypes, HistoryTypes, Working
<1>9. CASE ReadLimits
  <2> SUFFICES ASSUME NEW o \in Orders \ spared, Working(o)
               PROVE  /\ 0 <= sentAt[o] /\ sentAt[o] <= now
                      /\ placed'[o] \in {Never, sentAt[o]}
                      /\ placed'[o] = Never => submitted[o] = sentAt[o]
    BY <1>9 DEF ReadLimits, ChainKept, Working
  <2>1. /\ 0 <= sentAt[o] /\ sentAt[o] <= now /\ placed[o] \in {Never, sentAt[o]}
        /\ placed[o] = Never => submitted[o] = sentAt[o]
    BY DEF ChainKept
  <2>2. CASE ~Forgotten(o)
    BY <1>9, <2>1, <2>2 DEF ReadLimits
  <2>3. CASE Forgotten(o)
    <3>1. o \notin ToJudge /\ placed[o] < tnow - (Patience + Every)
      BY <1>9, <2>3 DEF Forgotten, ReadLimits, ToJudge, Checks, OrderTypes, PassTypes
    <3>2. tnow - sentAt[o] <= Patience
      <4>1. ~(tnow - sentAt[o] > Patience)
        BY <1>9, <3>1 DEF ReadLimits, NoneOverlooked
      <4> QED BY <4>1, Moments
    <3>3. placed[o] # sentAt[o]
      BY <3>1, <3>2, Moments
    <3> QED BY <1>9, <2>1, <2>3, <3>3 DEF ReadLimits
  <2> QED BY <2>2, <2>3
<1>10. CASE NextOrder
  BY <1>10 DEF NextOrder, FirstCheck, AfterFuse, AfterUnbounded, AfterTooBig, ChainKept,
         OrderTypes, ClockTypes, BrokerTypes, AgeTypes, PassTypes, HistoryTypes, Working
<1>11. CASE Refuse
  BY <1>11 DEF Refuse, ChainKept, OrderTypes, ClockTypes, BrokerTypes, AgeTypes, PassTypes,
         HistoryTypes, Working
<1>12. CASE RefuseFails
  BY <1>12 DEF RefuseFails, CancelFails, AfterUnbounded, AfterTooBig, ChainKept, OrderTypes,
         ClockTypes, BrokerTypes, AgeTypes, PassTypes, HistoryTypes, Working
<1>13. CASE TooFresh
  <2>1. cur \in Orders /\ cur \in ToJudge
    BY <1>13 DEF TooFresh, ToJudge, OrderTypes, PassTypes
  <2>2. cur \notin spared /\ Working(cur) => LifeOf(cur) = sentAt[cur]
    BY <2>1, LifeIsSent
  <2> QED BY <1>13, <2>1, <2>2 DEF TooFresh, ChainKept, OrderTypes, BrokerTypes, AgeTypes, Working
<1>14. CASE PatienceCancels
  BY <1>14 DEF PatienceCancels, ChainKept, OrderTypes, ClockTypes, BrokerTypes, AgeTypes,
         PassTypes, HistoryTypes, Working
<1>15. CASE PatienceCancelFails
  <2>1. cur \in Orders /\ cur \in ToJudge
    BY <1>15 DEF PatienceCancelFails, ToJudge, OrderTypes, PassTypes
  <2>2. cur \notin spared /\ Working(cur) => LifeOf(cur) = sentAt[cur]
    BY <2>1, LifeIsSent
  <2> QED BY <1>15, <2>1, <2>2 DEF PatienceCancelFails, CancelFails, ChainKept, OrderTypes,
          BrokerTypes, AgeTypes, Working
<1>16. CASE WalkLeavesAlone
  <2>1. cur \in Orders /\ cur \in ToJudge
    BY <1>16 DEF WalkLeavesAlone, ToJudge, OrderTypes, PassTypes
  <2>2. cur \notin spared /\ Working(cur) => LifeOf(cur) = sentAt[cur]
    BY <2>1, LifeIsSent
  <2> QED BY <1>16, <2>1, <2>2 DEF WalkLeavesAlone, ChainKept, OrderTypes, BrokerTypes, AgeTypes,
          Working
<1>17. CASE Walk
  <2>1. cur \in Orders /\ cur \in ToJudge
    BY <1>17 DEF Walk, ToJudge, OrderTypes, PassTypes
  <2>2. cur \notin spared /\ Working(cur) => LifeOf(cur) = sentAt[cur]
    BY <2>1, LifeIsSent
  <2> QED BY <1>17, <2>1, <2>2 DEF Walk, ChainKept, OrderTypes, BrokerTypes, AgeTypes, Working
<1>18. CASE WalkFails
  <2>1. cur \in Orders /\ cur \in ToJudge
    BY <1>18 DEF WalkFails, ToJudge, OrderTypes, PassTypes
  <2>2. cur \notin spared /\ Working(cur) => LifeOf(cur) = sentAt[cur]
    BY <2>1, LifeIsSent
  <2> QED BY <1>18, <2>1, <2>2 DEF WalkFails, ChainKept, OrderTypes, BrokerTypes, AgeTypes, Working
<1>19. CASE WalkAnswerLost
  BY <1>19 DEF WalkAnswerLost, ChainKept, OrderTypes, ClockTypes, BrokerTypes, AgeTypes,
         PassTypes, HistoryTypes, Working
<1>20. CASE AllJudged
  BY <1>20 DEF AllJudged, ChainKept, OrderTypes, ClockTypes, BrokerTypes, AgeTypes, PassTypes,
         HistoryTypes, Working
<1>21. CASE Tell
  BY <1>21 DEF Tell, PassEnds, ChainKept, OrderTypes, ClockTypes, BrokerTypes, AgeTypes,
         PassTypes, HistoryTypes, Working
<1>22. CASE Finished
  BY <1>22 DEF Finished, vars, ChainKept, OrderTypes, ClockTypes, BrokerTypes, AgeTypes,
         PassTypes, HistoryTypes, Working
<1>23. CASE UNCHANGED vars
  BY <1>23 DEF vars, ChainKept, OrderTypes, ClockTypes, BrokerTypes, AgeTypes, PassTypes,
         HistoryTypes, Working
<1> QED BY <1>1, <1>2, <1>3, <1>4, <1>5, <1>6, <1>7, <1>8, <1>9, <1>10, <1>11, <1>12, <1>13,
       <1>14, <1>15, <1>16, <1>17, <1>18, <1>19, <1>20, <1>21, <1>22, <1>23 DEF Next

\* An order over its patience when the pass began is judged by that pass and cancelled, or it is
\* among the spared; so none is over its patience when the next begins, but for what passed since.
LEMMA NextNone ==
  ASSUME OrderTypes, KeepsTime, AsRead, ChainKept, NoneOverlooked, [Next]_vars
  PROVE  NoneOverlooked'
<1>1. CASE Advance
  BY <1>1 DEF Advance, NoneOverlooked, ToJudge, OrderTypes, ClockTypes, BrokerTypes, PassTypes,
         HistoryTypes, Working, Checks, Overdue
<1>2. ASSUME NEW o \in Orders, Send(o) PROVE NoneOverlooked'
  <2>1. tnow <= now /\ now \in Nat /\ tnow \in Nat /\ Patience \in Nat /\ Longest \in Nat
    BY Moments DEF KeepsTime
  <2>2. tnow - now <= Patience /\ tnow - now <= Patience + Longest /\ ~(tnow - now > Patience)
    BY <2>1
  <2>3. ToJudge' = ToJudge
    BY <1>2 DEF Send, ToJudge
  <2>4. \A u \in Orders : u # o => sentAt'[u] = sentAt[u] /\ status'[u] = status[u]
    BY <1>2 DEF Send, OrderTypes, BrokerTypes, HistoryTypes
  <2>5. sentAt'[o] = now
    BY <1>2 DEF Send, OrderTypes, HistoryTypes
  <2> QED BY <1>2, <2>2, <2>3, <2>4, <2>5 DEF Send, NoneOverlooked, Working
<1>3. ASSUME NEW o \in Orders, SessionCancels(o) PROVE NoneOverlooked'
  BY <1>3 DEF SessionCancels, NoneOverlooked, ToJudge, OrderTypes, ClockTypes, BrokerTypes,
         PassTypes, HistoryTypes, Working, Checks, Overdue
<1>4. ASSUME NEW o \in Orders, Fill(o) PROVE NoneOverlooked'
  BY <1>4 DEF Fill, NoneOverlooked, ToJudge, OrderTypes, ClockTypes, BrokerTypes, PassTypes,
         HistoryTypes, Working, Checks, Overdue
<1>5. CASE Restart
  BY <1>5 DEF Restart, NoneOverlooked, ToJudge, OrderTypes, ClockTypes, BrokerTypes, PassTypes,
         HistoryTypes, Working, Checks, Overdue
<1>6. CASE PassStarts
  <2> SUFFICES ASSUME NEW o \in Orders \ spared, Working(o)
               PROVE  now - sentAt[o] <= Patience + Longest
    BY <1>6 DEF PassStarts, NoneOverlooked, Working
  <2>1. now - tnow <= Longest /\ tnow - sentAt[o] <= Patience
    BY <1>6 DEF PassStarts, KeepsTime, NoneOverlooked
  <2> QED BY <2>1, Moments
<1>7. CASE ReadOrders
  BY <1>7 DEF ReadOrders, NoneOverlooked, ToJudge, OrderTypes, ClockTypes, BrokerTypes, PassTypes,
         HistoryTypes, Working, Checks, Overdue
<1>8. CASE OrdersUnreadable
  <2> SUFFICES ASSUME NEW o \in Orders \ spared', Working(o)
               PROVE  tnow - sentAt[o] <= Patience
    BY <1>8 DEF OrdersUnreadable, PassEnds, NoneOverlooked, Working
  <2>1. ~(tnow - sentAt[o] > Patience)
    BY <1>8 DEF OrdersUnreadable, Overdue
  <2> QED BY <2>1, Moments
<1>9. CASE ReadLimits
  BY <1>9 DEF ReadLimits, NoneOverlooked, ToJudge, OrderTypes, ClockTypes, BrokerTypes, PassTypes,
         HistoryTypes, Working, Checks, Overdue
<1>10. CASE NextOrder
  BY <1>10 DEF NextOrder, FirstCheck, AfterFuse, AfterUnbounded, AfterTooBig, NoneOverlooked,
         ToJudge, OrderTypes, ClockTypes, BrokerTypes, PassTypes, HistoryTypes, Working, Checks,
         Overdue
<1>11. CASE Refuse
  BY <1>11 DEF Refuse, NoneOverlooked, ToJudge, OrderTypes, ClockTypes, BrokerTypes, PassTypes,
         HistoryTypes, Working, Checks, Overdue
<1>12. CASE RefuseFails
  BY <1>12 DEF RefuseFails, CancelFails, AfterUnbounded, AfterTooBig, NoneOverlooked, ToJudge,
         OrderTypes, ClockTypes, BrokerTypes, PassTypes, HistoryTypes, Working, Checks, Overdue
<1>13. CASE TooFresh
  <2>1. cur \in Orders /\ cur \in ToJudge /\ ToJudge = todo \cup {cur}
    BY <1>13 DEF TooFresh, ToJudge, OrderTypes, PassTypes
  <2>2. cur \notin spared /\ Working(cur) => ~(tnow - sentAt[cur] > Patience)
    BY <1>13, <2>1, OverdueIsOutOfPatience DEF TooFresh
  <2>3. ToJudge' = todo
    BY <1>13 DEF TooFresh, ToJudge, Checks
  <2>4. UNCHANGED <<status, sentAt, tnow>> /\ pc # "idle" /\ pc' = "next" /\ pc = "price"
        /\ spared \subseteq spared'
    BY <1>13 DEF TooFresh
  <2> QED BY <2>1, <2>2, <2>3, <2>4 DEF NoneOverlooked, Working
<1>14. CASE PatienceCancels
  BY <1>14 DEF PatienceCancels, NoneOverlooked, ToJudge, OrderTypes, ClockTypes, BrokerTypes,
         PassTypes, HistoryTypes, Working, Checks, Overdue
<1>15. CASE PatienceCancelFails
  BY <1>15 DEF PatienceCancelFails, CancelFails, NoneOverlooked, ToJudge, OrderTypes, ClockTypes,
         BrokerTypes, PassTypes, HistoryTypes, Working, Checks, Overdue
<1>16. CASE WalkLeavesAlone
  <2>1. cur \in Orders /\ cur \in ToJudge /\ ToJudge = todo \cup {cur}
    BY <1>16 DEF WalkLeavesAlone, ToJudge, OrderTypes, PassTypes
  <2>2. cur \notin spared /\ Working(cur) => ~(tnow - sentAt[cur] > Patience)
    BY <1>16, <2>1, OverdueIsOutOfPatience DEF WalkLeavesAlone
  <2>3. ToJudge' = todo
    BY <1>16 DEF WalkLeavesAlone, ToJudge, Checks
  <2>4. UNCHANGED <<status, sentAt, tnow>> /\ pc # "idle" /\ pc' = "next" /\ pc = "price"
        /\ spared \subseteq spared'
    BY <1>16 DEF WalkLeavesAlone
  <2> QED BY <2>1, <2>2, <2>3, <2>4 DEF NoneOverlooked, Working
<1>17. CASE Walk
  <2>1. cur \in Orders /\ cur \in ToJudge /\ ToJudge = todo \cup {cur}
    BY <1>17 DEF Walk, ToJudge, OrderTypes, PassTypes
  <2>2. cur \notin spared /\ Working(cur) => ~(tnow - sentAt[cur] > Patience)
    BY <1>17, <2>1, OverdueIsOutOfPatience DEF Walk
  <2>3. ToJudge' = todo
    BY <1>17 DEF Walk, ToJudge, Checks
  <2>4. UNCHANGED <<status, sentAt, tnow>> /\ pc # "idle" /\ pc' = "next" /\ pc = "price"
        /\ spared \subseteq spared'
    BY <1>17 DEF Walk
  <2> QED BY <2>1, <2>2, <2>3, <2>4 DEF NoneOverlooked, Working
<1>18. CASE WalkFails
  <2>1. cur \in Orders /\ cur \in ToJudge /\ ToJudge = todo \cup {cur}
    BY <1>18 DEF WalkFails, ToJudge, OrderTypes, PassTypes
  <2>2. cur \notin spared /\ Working(cur) => ~(tnow - sentAt[cur] > Patience)
    BY <1>18, <2>1, OverdueIsOutOfPatience DEF WalkFails
  <2>3. ToJudge' = todo
    BY <1>18 DEF WalkFails, ToJudge, Checks
  <2>4. UNCHANGED <<status, sentAt, tnow>> /\ pc # "idle" /\ pc' = "next" /\ pc = "price"
        /\ spared \subseteq spared'
    BY <1>18 DEF WalkFails
  <2> QED BY <2>1, <2>2, <2>3, <2>4 DEF NoneOverlooked, Working
<1>19. CASE WalkAnswerLost
  BY <1>19 DEF WalkAnswerLost, NoneOverlooked, ToJudge, OrderTypes, ClockTypes, BrokerTypes,
         PassTypes, HistoryTypes, Working, Checks, Overdue
<1>20. CASE AllJudged
  BY <1>20 DEF AllJudged, NoneOverlooked, ToJudge, OrderTypes, ClockTypes, BrokerTypes, PassTypes,
         HistoryTypes, Working, Checks, Overdue
<1>21. CASE Tell
  <2> SUFFICES ASSUME NEW o \in Orders \ spared, Working(o)
               PROVE  tnow - sentAt[o] <= Patience
    BY <1>21 DEF Tell, PassEnds, NoneOverlooked, Working
  <2>1. ~(tnow - sentAt[o] > Patience)
    BY <1>21 DEF Tell, AsRead, NoneOverlooked, ToJudge, Checks
  <2> QED BY <2>1, Moments
<1>22. CASE Finished
  BY <1>22 DEF Finished, vars, NoneOverlooked, ToJudge, OrderTypes, ClockTypes, BrokerTypes,
         PassTypes, HistoryTypes, Working, Checks, Overdue
<1>23. CASE UNCHANGED vars
  BY <1>23 DEF vars, NoneOverlooked, ToJudge, OrderTypes, ClockTypes, BrokerTypes, PassTypes,
         HistoryTypes, Working, Checks, Overdue
<1> QED BY <1>1, <1>2, <1>3, <1>4, <1>5, <1>6, <1>7, <1>8, <1>9, <1>10, <1>11, <1>12, <1>13,
       <1>14, <1>15, <1>16, <1>17, <1>18, <1>19, <1>20, <1>21, <1>22, <1>23 DEF Next

-----------------------------------------------------------------------------
(* The theorems.                                                           *)

\* Nothing is sent, remembered or read when the ladder starts.
LEMMA InitPatience == Init => PatienceInv
<1> SUFFICES ASSUME Init PROVE PatienceInv
  OBVIOUS
<1>0. DOMAIN shown = {}
  <2>1. shown = <<>>
    BY DEF Init
  <2>2. DOMAIN <<>> = {}
    OBVIOUS
  <2> QED BY <2>1, <2>2
<1>1. OrderTypes
  <2>1. ClockTypes /\ AgeTypes
    <3>1. Every \in Nat /\ MaxTime \in Nat /\ 0 \in Time /\ 0 \in 0..0
      BY Constants
    <3> QED BY <3>1 DEF Init, ClockTypes, AgeTypes
  <2>2. BrokerTypes /\ HistoryTypes
    BY LadderAssumption DEF Init, BrokerTypes, HistoryTypes, Statuses
  <2>3. PassTypes
    <3>1. todo = {} /\ untold = {} /\ aside = {} /\ pc = "idle"
      BY DEF Init
    <3> QED BY <1>0, <3>1 DEF PassTypes, Checks
  <2> QED BY <2>1, <2>2, <2>3 DEF OrderTypes
<1>2. FloorIsKept
  BY Constants, MaxOfTwo DEF Init, FloorIsKept
<1>3. KeepsTime
  <2>1. Every \in Nat \ {0} /\ Longest \in Nat \ {0}
    BY Constants
  <2>2. now = 0 /\ tnow = 0 /\ nextTick = Every /\ pc = "idle"
    BY DEF Init
  <2> QED BY <2>1, <2>2 DEF KeepsTime
<1>4. AsRead
  <2>1. todo = {} /\ pc = "idle" /\ rest = Sets
        /\ \A o \in Orders : status[o] = "unsent" /\ placed[o] = Never
    BY DEF Init
  <2> QED BY <1>0, <2>1, Constants DEF AsRead, ToJudge, Checks
<1>5. ChainKept /\ NoneOverlooked
  BY DEF Init, ChainKept, NoneOverlooked, Working
<1> QED BY <1>1, <1>2, <1>3, <1>4, <1>5 DEF PatienceInv

\* Every step of the ladder, the session, the market and the clock keeps what the properties
\* rest on.
LEMMA NextPatience == PatienceInv /\ [Next]_vars => PatienceInv'
<1> SUFFICES ASSUME PatienceInv, [Next]_vars PROVE PatienceInv'
  OBVIOUS
<1>1. OrderTypes /\ FloorIsKept /\ KeepsTime /\ AsRead /\ ChainKept /\ NoneOverlooked
  BY DEF PatienceInv
<1>2. OrderTypes'
  BY <1>1, NextClock, NextBroker, NextAges, NextPass, NextHistory DEF OrderTypes
<1>3. FloorIsKept' /\ KeepsTime' /\ AsRead' /\ ChainKept' /\ NoneOverlooked'
  BY <1>1, NextFloor, NextKeepsTime, NextAsRead, NextChain, NextNone
<1> QED BY <1>2, <1>3 DEF PatienceInv

\* What the properties rest on holds of every state of the ladder.
THEOREM Kept == Spec => []PatienceInv
BY InitPatience, NextPatience, PTL DEF Spec

\* However the book moves, answers are lost and the ladder restarts, no order stands past the
\* worst price the session named, and one that names none stays where it was placed.
THEOREM FloorKept == Spec => []FloorIsKept
<1>1. PatienceInv => FloorIsKept
  BY DEF PatienceInv
<1> QED BY <1>1, Kept, PTL

\* An order outlives its patience by one pass and the time between two at most, however often
\* it was replaced under a new id: from one pass to the next it is not overlooked.
THEOREM PatienceKept == Spec => []PatienceEnds
<1>1. ASSUME PatienceInv PROVE PatienceEnds
  <2> SUFFICES ASSUME NEW o \in Orders \ spared, Working(o)
               PROVE  now - sentAt[o] <= Patience + Longest + PassLimit
    BY DEF PatienceEnds
  <2>1. OrderTypes /\ KeepsTime /\ NoneOverlooked
    BY <1>1 DEF PatienceInv
  <2>2. /\ tnow - sentAt[o] <= IF pc = "idle" THEN Patience ELSE Patience + Longest
        /\ now - tnow <= IF pc = "idle" THEN Longest ELSE PassLimit
    BY <2>1 DEF KeepsTime, NoneOverlooked
  <2>3. /\ now \in Nat /\ tnow \in Nat /\ sentAt[o] \in Int /\ Patience \in Nat
        /\ Longest \in Nat /\ PassLimit \in Nat
    BY <2>1, Moments
  <2> QED BY <2>2, <2>3
<1> QED BY <1>1, Kept, PTL

-----------------------------------------------------------------------------
(* The stride that arrives.                                                *)

\* A pass is over before the next is due, and the patience is long enough for the first pass
\* that may judge an order to rest it and the second to walk it.  With a shorter one an order
\* sent within an interval is over its patience before the ladder has asked for any step.
MayArrive == Stride = "arrive" /\ PassLimit <= Every /\ 2 * Every <= Patience + 1

\* What a pass has read of an order it has still to judge counts the life from the same moment.
LEMMA JudgedLife ==
  ASSUME OrderTypes, AsRead, NEW o \in ToJudge
  PROVE  LifeOf(o) = Life(o) /\ LifeOf(o) \in Nat
<1>1. o \in DOMAIN shown
  BY DEF ToJudge, OrderTypes, PassTypes
<1>2. LifeOf(o) = Life(o)
  BY DEF AsRead, LifeOf, Life
<1> QED BY <1>1, <1>2, LifeType

\* Walked or rested, an order has an interval of its patience left or stands at its worst price.
LEMMA NextArrives ==
  ASSUME MayArrive, OrderTypes, KeepsTime, AsRead, ArrivesInv, [Next]_vars
  PROVE  ArrivesInv'
<1>1. CASE Advance
  BY <1>1 DEF Advance, ArrivesInv, PatienceEndsAtTheFloor, OnItsWay, Life, ToJudge, Checks,
         OrderTypes, BrokerTypes, AgeTypes, PassTypes, HistoryTypes, Working
<1>2. ASSUME NEW o \in Orders, Send(o) PROVE ArrivesInv'
  <2>1. tnow \in Nat /\ now \in Nat /\ tnow <= now /\ Patience \in Nat /\ Every \in Nat
        /\ Every <= Patience
    BY Moments DEF KeepsTime
  <2>2. /\ placed[o] = Never /\ submitted'[o] = now /\ Life(o)' = now /\ why[o] # "patience"
        /\ UNCHANGED <<pc, tnow, placed, limit, hindered, why, shown>> /\ ToJudge' = ToJudge
    BY <1>2 DEF Send, AsRead, ArrivesInv, OrderTypes, BrokerTypes, Life, ToJudge
  <2>3. (OnItsWay(o))'
    <3>1. tnow - now <= Patience - Every /\ tnow - now <= Patience
      BY <2>1
    <3> QED BY <2>1, <2>2, <3>1 DEF OnItsWay
  <2>4. \A u \in Orders \ {o} :
          /\ status'[u] = status[u] /\ Life(u)' = Life(u) /\ ((OnItsWay(u))' <=> OnItsWay(u))
    BY <1>2, <2>2 DEF Send, OrderTypes, BrokerTypes, Life, OnItsWay
  <2> QED BY <2>2, <2>3, <2>4 DEF ArrivesInv, PatienceEndsAtTheFloor, Working
<1>3. ASSUME NEW o \in Orders, SessionCancels(o) PROVE ArrivesInv'
  BY <1>3 DEF SessionCancels, ArrivesInv, PatienceEndsAtTheFloor, OnItsWay, Life, ToJudge, Checks,
         OrderTypes, BrokerTypes, AgeTypes, PassTypes, HistoryTypes, Working
<1>4. ASSUME NEW o \in Orders, Fill(o) PROVE ArrivesInv'
  BY <1>4 DEF Fill, ArrivesInv, PatienceEndsAtTheFloor, OnItsWay, Life, ToJudge, Checks,
         OrderTypes, BrokerTypes, AgeTypes, PassTypes, HistoryTypes, Working
<1>5. CASE Restart
  BY <1>5 DEF Restart, ArrivesInv, PatienceEndsAtTheFloor, OnItsWay, Life, ToJudge, Checks,
         OrderTypes, BrokerTypes, AgeTypes, PassTypes, HistoryTypes, Working
<1>6. CASE PassStarts
  <2>1. todo = {}
    BY <1>6 DEF PassStarts, AsRead, OrderTypes, PassTypes
  <2>3. now - tnow <= Every
    <3>1. Longest = Every
      BY Constants DEF Longest, MayArrive
    <3> QED BY <1>6, <3>1 DEF PassStarts, KeepsTime
  <2>2. \A o \in Orders : OnItsWay(o) => (OnItsWay(o))'
    <3> SUFFICES ASSUME NEW o \in Orders, tnow - Life(o) <= Patience - Every
                 PROVE  now - Life(o) <= Patience
      BY <1>6, <2>1 DEF PassStarts, OnItsWay, ToJudge, Checks, Life
    <3>1. Life(o) \in Int /\ now \in Int /\ tnow \in Int /\ Every \in Int /\ Patience \in Int
      BY Moments DEF Life
    <3> QED BY <2>3, <3>1
  <2> QED BY <1>6, <2>2 DEF PassStarts, ArrivesInv, PatienceEndsAtTheFloor, Working
<1>7. CASE ReadOrders
  BY <1>7 DEF ReadOrders, ArrivesInv, PatienceEndsAtTheFloor, OnItsWay, Life, ToJudge, Checks,
         OrderTypes, BrokerTypes, AgeTypes, PassTypes, HistoryTypes, Working
<1>8. CASE OrdersUnreadable
  BY <1>8 DEF OrdersUnreadable, PassEnds, ArrivesInv, PatienceEndsAtTheFloor, OnItsWay, Life,
         ToJudge, Checks, OrderTypes, BrokerTypes, AgeTypes, PassTypes, HistoryTypes, Working
<1>9. CASE ReadLimits
  <2>1. \A o \in Orders \ hindered : Working(o) => placed'[o] = placed[o]
    BY <1>9 DEF ReadLimits, Forgotten, ArrivesInv
  <2>2. ToJudge' = ToJudge /\ UNCHANGED <<status, submitted, limit, hindered, why, tnow>>
    BY <1>9 DEF ReadLimits, ToJudge, Checks
  <2>3. pc = "limits" /\ pc' = "next"
    BY <1>9 DEF ReadLimits
  <2>4. \A o \in Orders \ hindered : Working(o) /\ OnItsWay(o) => (OnItsWay(o))'
    BY <2>1, <2>2, <2>3 DEF OnItsWay, Life
  <2> QED BY <2>2, <2>3, <2>4 DEF ArrivesInv, PatienceEndsAtTheFloor, Working
<1>10. CASE NextOrder
  <2>1. ToJudge' = ToJudge /\ pc' \notin {"orders", "limits"} /\ pc = "next"
    BY <1>10 DEF NextOrder, FirstCheck, AfterFuse, AfterUnbounded, AfterTooBig, ToJudge, Checks
  <2> QED BY <1>10, <2>1 DEF NextOrder, ArrivesInv, PatienceEndsAtTheFloor, OnItsWay, Life, Working
<1>11. CASE Refuse
  BY <1>11 DEF Refuse, ArrivesInv, PatienceEndsAtTheFloor, OnItsWay, Life, ToJudge, Checks,
         OrderTypes, BrokerTypes, AgeTypes, PassTypes, HistoryTypes, Working
<1>12. CASE RefuseFails
  BY <1>12 DEF RefuseFails, CancelFails, AfterUnbounded, AfterTooBig, ArrivesInv,
         PatienceEndsAtTheFloor, OnItsWay, Life, ToJudge, Checks, OrderTypes, BrokerTypes,
         AgeTypes, PassTypes, HistoryTypes, Working
<1>13. CASE TooFresh
  <2>1. cur \in Orders /\ cur \in ToJudge /\ ToJudge' = ToJudge \ {cur} /\ pc = "price"
        /\ pc' = "next" /\ UNCHANGED tnow
    BY <1>13 DEF TooFresh, ToJudge, Checks, OrderTypes, PassTypes
  <2>2. \A o \in Orders \ {cur} :
          /\ status'[o] = status[o] /\ limit'[o] = limit[o] /\ why'[o] = why[o]
          /\ submitted'[o] = submitted[o] /\ placed'[o] = placed[o]
          /\ o \in hindered' <=> o \in hindered
    BY <1>13, <2>1 DEF TooFresh, OrderTypes, BrokerTypes, AgeTypes, HistoryTypes
  <2>3. \A o \in Orders \ {cur} : OnItsWay(o) => (OnItsWay(o))'
    BY <2>1, <2>2 DEF OnItsWay, Life
  <2>4. LifeOf(cur) \in Nat /\ \A o \in Orders : o = cur => Life(o)' = LifeOf(cur)
    BY <1>13, <2>1, JudgedLife DEF TooFresh, OrderTypes, AgeTypes, Life
  <2>5. tnow - LifeOf(cur) < Every
    <3>1. ~(tnow - LifeOf(cur) >= Every)
      <4>1. movedOn[cur] # passes
        BY <2>1 DEF AsRead, OrderTypes, AgeTypes
      <4> QED BY <1>13, <4>1 DEF TooFresh, Rested, Age
    <3> QED BY <2>4, <3>1, Moments
  <2>6. tnow - LifeOf(cur) <= Patience - Every
    BY <2>4, <2>5, Moments DEF MayArrive
  <2>7. \A o \in Orders : o = cur => (OnItsWay(o))'
    BY <2>1, <2>4, <2>6 DEF OnItsWay
  <2>8. UNCHANGED <<status, hindered, why, limit>>
    BY <1>13 DEF TooFresh
  <2> QED BY <2>1, <2>2, <2>3, <2>7, <2>8 DEF ArrivesInv, PatienceEndsAtTheFloor, Working
<1>14. CASE PatienceCancels
  <2>1. cur \in Orders /\ cur \in ToJudge /\ ToJudge' = ToJudge \ {cur} /\ pc = "price"
        /\ pc' = "next" /\ UNCHANGED tnow
    BY <1>14 DEF PatienceCancels, ToJudge, Checks, OrderTypes, PassTypes
  <2>2. \A o \in Orders \ {cur} :
          /\ status'[o] = status[o] /\ limit'[o] = limit[o] /\ why'[o] = why[o]
          /\ submitted'[o] = submitted[o] /\ placed'[o] = placed[o]
          /\ o \in hindered' <=> o \in hindered
    BY <1>14, <2>1 DEF PatienceCancels, OrderTypes, BrokerTypes, AgeTypes, HistoryTypes
  <2>3. \A o \in Orders \ {cur} : OnItsWay(o) => (OnItsWay(o))'
    BY <2>1, <2>2 DEF OnItsWay, Life
  <2>4. cur \notin hindered => limit[cur] = Floor[cur]
    <3>1. Working(cur) /\ tnow - LifeOf(cur) > Patience /\ LifeOf(cur) = Life(cur)
      BY <1>14, <2>1, JudgedLife DEF PatienceCancels, OutOfPatience, Age
    <3>2. tnow - Life(cur) \in Int /\ Patience \in Int
      BY <2>1, Moments DEF Life
    <3> QED BY <2>1, <3>1, <3>2 DEF ArrivesInv, OnItsWay
  <2>5. status'[cur] = "cancelled" /\ limit' = limit /\ hindered' = hindered
    BY <1>14, <2>1 DEF PatienceCancels, OrderTypes, BrokerTypes
  <2> QED BY <2>1, <2>2, <2>3, <2>4, <2>5 DEF ArrivesInv, PatienceEndsAtTheFloor, Working
<1>15. CASE PatienceCancelFails
  <2>1. cur \in Orders /\ cur \in ToJudge /\ ToJudge' = ToJudge \ {cur} /\ pc = "price"
        /\ pc' = "next" /\ UNCHANGED tnow
    BY <1>15 DEF PatienceCancelFails, ToJudge, Checks, OrderTypes, PassTypes
  <2>2. \A o \in Orders \ {cur} :
          /\ status'[o] = status[o] /\ limit'[o] = limit[o] /\ why'[o] = why[o]
          /\ submitted'[o] = submitted[o] /\ placed'[o] = placed[o]
          /\ o \in hindered' <=> o \in hindered
    BY <1>15, <2>1 DEF PatienceCancelFails, CancelFails, OrderTypes, BrokerTypes, AgeTypes,
           HistoryTypes
  <2>3. \A o \in Orders \ {cur} : OnItsWay(o) => (OnItsWay(o))'
    BY <2>1, <2>2 DEF OnItsWay, Life
  <2>4. cur \in hindered' /\ (why'[cur] = "patience" => status'[cur] = "cancelled")
    BY <1>15, <2>1 DEF PatienceCancelFails, CancelFails, ArrivesInv, OrderTypes, HistoryTypes,
           BrokerTypes, Working
  <2> QED BY <2>1, <2>2, <2>3, <2>4 DEF ArrivesInv, PatienceEndsAtTheFloor, Working
<1>16. CASE WalkLeavesAlone
  <2>1. cur \in Orders /\ cur \in ToJudge /\ ToJudge' = ToJudge \ {cur} /\ pc = "price"
        /\ pc' = "next" /\ UNCHANGED tnow
    BY <1>16 DEF WalkLeavesAlone, ToJudge, Checks, OrderTypes, PassTypes
  <2>2. \A o \in Orders \ {cur} :
          /\ status'[o] = status[o] /\ limit'[o] = limit[o] /\ why'[o] = why[o]
          /\ submitted'[o] = submitted[o] /\ placed'[o] = placed[o]
          /\ o \in hindered' <=> o \in hindered
    BY <1>16, <2>1 DEF WalkLeavesAlone, OrderTypes, BrokerTypes, AgeTypes, HistoryTypes
  <2>3. \A o \in Orders \ {cur} : OnItsWay(o) => (OnItsWay(o))'
    BY <2>1, <2>2 DEF OnItsWay, Life
  <2>4. cur \notin hindered' => limit'[cur] = Floor[cur]
    BY <1>16, <2>1 DEF WalkLeavesAlone, AsRead
  <2>5. UNCHANGED <<status, why>> /\ (cur \notin hindered' => cur \notin hindered)
    BY <1>16 DEF WalkLeavesAlone
  <2> QED BY <2>1, <2>2, <2>3, <2>4, <2>5 DEF ArrivesInv, OnItsWay, PatienceEndsAtTheFloor, Working
<1>17. CASE Walk
  <2>1. cur \in Orders /\ cur \in ToJudge /\ ToJudge' = ToJudge \ {cur} /\ pc = "price"
        /\ pc' = "next" /\ UNCHANGED tnow
    BY <1>17 DEF Walk, ToJudge, Checks, OrderTypes, PassTypes
  <2>2. \A o \in Orders \ {cur} :
          /\ status'[o] = status[o] /\ limit'[o] = limit[o] /\ why'[o] = why[o]
          /\ submitted'[o] = submitted[o] /\ placed'[o] = placed[o]
          /\ o \in hindered' <=> o \in hindered
    BY <1>17, <2>1 DEF Walk, OrderTypes, BrokerTypes, AgeTypes, HistoryTypes
  <2>3. \A o \in Orders \ {cur} : OnItsWay(o) => (OnItsWay(o))'
    BY <2>1, <2>2 DEF OnItsWay, Life
  <2>4. LifeOf(cur) \in Nat /\ \A o \in Orders : o = cur => Life(o)' = LifeOf(cur)
    BY <1>17, <2>1, JudgedLife DEF Walk, OrderTypes, AgeTypes, Life
  <2>5. \A o \in Orders : o = cur /\ cur \notin hindered' => (OnItsWay(o))'
    <3> SUFFICES ASSUME cur \notin hindered', tnow - LifeOf(cur) > Patience - Every
                 PROVE  limit'[cur] = Floor[cur]
      <4>1. tnow - LifeOf(cur) \in Int /\ Patience - Every \in Int /\ Patience \in Int
        BY <2>4, Moments
      <4> QED BY <2>1, <2>4, <4>1 DEF OnItsWay
    <3>1. tnow - LifeOf(cur) <= Patience
      <4>1. ~(tnow - LifeOf(cur) > Patience)
        BY <1>17 DEF Walk, OutOfPatience, Age
      <4> QED BY <2>4, <4>1, Moments
    <3>2. StepsLeft(cur) = 1
      <4>1. 0 <= Patience - Age(cur) /\ Patience - Age(cur) < Every /\ Patience - Age(cur) \in Int
        BY <2>4, <3>1, Moments DEF Age
      <4>2. (Patience - Age(cur)) \div Every = 0
        BY <4>1, Moments
      <4> QED BY <4>2 DEF StepsLeft
    <3>3. PICK showing \in Prices : \E price \in Concessions(cur, showing) :
            /\ limit' = [limit EXCEPT ![cur] = price]
            /\ hindered' = IF showing < Floor[cur] THEN hindered \cup {cur}
                                                   ELSE hindered \ {cur}
      BY <1>17 DEF Walk
    <3>7. PICK price \in Concessions(cur, showing) :
            /\ limit' = [limit EXCEPT ![cur] = price]
            /\ hindered' = IF showing < Floor[cur] THEN hindered \cup {cur}
                                                   ELSE hindered \ {cur}
      BY <3>3
    <3>4. showing \in Int /\ showing >= Floor[cur]
      BY <2>1, <3>7, Constants
    <3>5. cur \in Orders \cap DOMAIN shown /\ shown[cur].limit \in Int
      BY <1>17 DEF Walk, OrderTypes, PassTypes, Shown
    <3>6. price = Floor[cur]
      BY <3>2, <3>7, <3>4, <3>5, LastStepArrives DEF MayArrive
    <3> QED BY <2>1, <3>7, <3>6 DEF OrderTypes, BrokerTypes
  <2>6. UNCHANGED <<status, why>> /\ Working(cur)
    BY <1>17 DEF Walk
  <2> QED BY <2>1, <2>2, <2>3, <2>5, <2>6 DEF ArrivesInv, PatienceEndsAtTheFloor, Working
<1>18. CASE WalkFails
  <2>1. cur \in Orders /\ cur \in ToJudge /\ ToJudge' = ToJudge \ {cur} /\ pc = "price"
        /\ pc' = "next" /\ UNCHANGED tnow
    BY <1>18 DEF WalkFails, ToJudge, Checks, OrderTypes, PassTypes
  <2>2. \A o \in Orders \ {cur} :
          /\ status'[o] = status[o] /\ limit'[o] = limit[o] /\ why'[o] = why[o]
          /\ submitted'[o] = submitted[o] /\ placed'[o] = placed[o]
          /\ o \in hindered' <=> o \in hindered
    BY <1>18, <2>1 DEF WalkFails, OrderTypes, BrokerTypes, AgeTypes, HistoryTypes
  <2>3. \A o \in Orders \ {cur} : OnItsWay(o) => (OnItsWay(o))'
    BY <2>1, <2>2 DEF OnItsWay, Life
  <2>4. cur \in hindered' /\ (why'[cur] = "patience" => status'[cur] = "cancelled")
    BY <1>18, <2>1 DEF WalkFails, ArrivesInv, OrderTypes, HistoryTypes, BrokerTypes, Working
  <2> QED BY <2>1, <2>2, <2>3, <2>4 DEF ArrivesInv, PatienceEndsAtTheFloor, Working
<1>19. CASE WalkAnswerLost
  <2>1. cur \in Orders /\ cur \in ToJudge /\ ToJudge' = ToJudge \ {cur} /\ pc = "price"
        /\ pc' = "next" /\ UNCHANGED tnow
    BY <1>19 DEF WalkAnswerLost, ToJudge, Checks, OrderTypes, PassTypes
  <2>2. \A o \in Orders \ {cur} :
          /\ status'[o] = status[o] /\ limit'[o] = limit[o] /\ why'[o] = why[o]
          /\ submitted'[o] = submitted[o] /\ placed'[o] = placed[o]
          /\ o \in hindered' <=> o \in hindered
    BY <1>19, <2>1 DEF WalkAnswerLost, OrderTypes, BrokerTypes, AgeTypes, HistoryTypes
  <2>3. \A o \in Orders \ {cur} : OnItsWay(o) => (OnItsWay(o))'
    BY <2>1, <2>2 DEF OnItsWay, Life
  <2>4. cur \in hindered' /\ (why'[cur] = "patience" => status'[cur] = "cancelled")
    BY <1>19, <2>1 DEF WalkAnswerLost, ArrivesInv, OrderTypes, HistoryTypes, BrokerTypes, Working
  <2> QED BY <2>1, <2>2, <2>3, <2>4 DEF ArrivesInv, PatienceEndsAtTheFloor, Working
<1>20. CASE AllJudged
  BY <1>20 DEF AllJudged, ArrivesInv, PatienceEndsAtTheFloor, OnItsWay, Life, ToJudge, Checks,
         OrderTypes, BrokerTypes, AgeTypes, PassTypes, HistoryTypes, Working
<1>21. CASE Tell
  <2>1. ToJudge' = ToJudge
    BY <1>21 DEF Tell, PassEnds, AsRead, ToJudge, Checks
  <2> QED BY <1>21, <2>1 DEF Tell, PassEnds, ArrivesInv, PatienceEndsAtTheFloor, OnItsWay, Life,
          Working
<1>22. CASE Finished
  BY <1>22 DEF Finished, vars, ArrivesInv, PatienceEndsAtTheFloor, OnItsWay, Life, ToJudge,
         Checks, OrderTypes, BrokerTypes, AgeTypes, PassTypes, HistoryTypes, Working
<1>23. CASE UNCHANGED vars
  BY <1>23 DEF vars, ArrivesInv, PatienceEndsAtTheFloor, OnItsWay, Life, ToJudge, Working
<1> QED BY <1>1, <1>2, <1>3, <1>4, <1>5, <1>6, <1>7, <1>8, <1>9, <1>10, <1>11, <1>12, <1>13,
       <1>14, <1>15, <1>16, <1>17, <1>18, <1>19, <1>20, <1>21, <1>22, <1>23 DEF Next

\* With the stride that arrives, patience ends an order at its worst price unless something
\* hindered the last step before: the steps before that one may have been missed.
THEOREM EndsAtTheFloor == ASSUME MayArrive PROVE Spec => []PatienceEndsAtTheFloor
<1>1. Init => ArrivesInv
  BY DEF Init, ArrivesInv, PatienceEndsAtTheFloor, Working
<1>2. PatienceInv /\ ArrivesInv /\ [Next]_vars => ArrivesInv'
  BY NextArrives DEF PatienceInv
<1>3. ArrivesInv => PatienceEndsAtTheFloor
  BY DEF ArrivesInv
<1> QED BY <1>1, <1>2, <1>3, Kept, PTL DEF Spec

-----------------------------------------------------------------------------
(* The book.  BookInv (module Ladder) is inductive: the number a pass      *)
(* carries from order to order covers what is held and what it let stand.  *)

\* The sets an order is for, and what one of them may lose.
LEMMA OrderSizes ==
  /\ \A o \in Orders : Sets[o] \in Nat /\ PerSet[o] \in Nat /\ PerSet[o] > 0
  /\ AlreadyHeld \in Int /\ Books \subseteq Int
  /\ IsFiniteSet(Orders) /\ IsFiniteSet(Opening) /\ IsFiniteSet(Closing)
  /\ Opening \subseteq Orders /\ Closing \subseteq Orders
<1>1. IsFiniteSet(Opening) /\ IsFiniteSet(Closing)
  BY LadderAssumption, FS_Subset DEF Opening
<1> QED BY <1>1, LadderAssumption DEF Opening

\* One set of the largest loss there is among the orders that open.
LEMMA LargestBounds ==
  ASSUME NEW o \in Opening
  PROVE  Largest \in Int /\ PerSet[o] <= Largest /\ 0 < Largest
<1> DEFINE S == {PerSet[p] : p \in Opening}
<1>1. PICK a \in Opening : \A p \in Opening : PerSet[p] <= PerSet[a]
  BY OrderSizes, HasLargest
<1>2. S \in SUBSET Int /\ PerSet[a] \in S /\ \A x \in S : PerSet[a] >= x
  BY <1>1, OrderSizes
<1>3. Max(S) \in S /\ \A x \in S : Max(S) >= x
  <2> HIDE DEF S
  <2> QED BY <1>2 DEF Max
<1>4. Max(S) \in Int /\ PerSet[o] <= Max(S)
  BY <1>2, <1>3
<1> QED BY <1>4, OrderSizes DEF Largest

\* What a number of sets may lose.
LEMMA Times ==
  ASSUME NEW p \in Nat, NEW a \in Nat, NEW b \in Nat
  PROVE  /\ p * a \in Nat /\ a * p = p * a
         /\ a <= b => p * a <= p * b
         /\ p * (a + b) = p * a + p * b
<1>1. p * a \in Nat /\ a * p = p * a /\ p * (a + b) = p * a + p * b
  OBVIOUS
<1>2. ASSUME a <= b PROVE p * a <= p * b
  <2>1. PICK c \in Nat : b = a + c
    BY <1>2
  <2>2. p * c \in Nat /\ p * b = p * a + p * c
    BY <2>1
  <2> QED BY <1>1, <2>2
<1> QED BY <1>1, <1>2

\* Losses are counted in money, never below zero.
CountedInNat ==
  /\ \A o \in Orders : Filled(o) \in 0..Sets[o] /\ Filling[o] \in Nat /\ Answered[o] \in Nat
  /\ \A o \in DOMAIN shown : Worst(o) \in Nat

\* The fills of each order, and what the pass answers for, are losses of no less than nothing.
LEMMA Losses == OrderTypes /\ RestFalls => CountedInNat
<1> SUFFICES ASSUME OrderTypes, RestFalls PROVE CountedInNat
  OBVIOUS
<1>1. ASSUME NEW o \in Orders PROVE Filled(o) \in 0..Sets[o] /\ Filling[o] \in Nat
  <2>1. Filled(o) \in 0..Sets[o]
    BY OrderSizes DEF OrderTypes, BrokerTypes, RestFalls, Filled
  <2>2. Filling[o] = Filled(o) * PerSet[o]
    BY DEF Filling
  <2> QED BY <2>1, <2>2, OrderSizes, Times
<1>2. ASSUME NEW o \in Orders PROVE Answered[o] \in Nat
  <2>1. o \in ToJudge => Sets[o] - shown[o].rest \in Nat
    BY OrderSizes DEF ToJudge, OrderTypes, PassTypes, Shown, RestFalls
  <2>2. Answered[o] = PerSet[o] * CASE o \in ToJudge -> Sets[o] - shown[o].rest
                                    [] Working(o) /\ o \notin ToJudge -> Sets[o]
                                    [] OTHER -> Filled(o)
    BY DEF Answered
  <2>3. PICK n \in Nat : Answered[o] = PerSet[o] * n
    <3>1. CASE o \in ToJudge
      BY <2>1, <2>2, <3>1
    <3>2. CASE o \notin ToJudge /\ Working(o)
      BY <2>2, <3>2, OrderSizes
    <3>3. CASE o \notin ToJudge /\ ~Working(o)
      BY <1>1, <2>2, <3>3, OrderSizes
    <3> QED BY <3>1, <3>2, <3>3
  <2> QED BY <2>3, OrderSizes, Times
<1>3. ASSUME NEW o \in DOMAIN shown PROVE Worst(o) \in Nat
  <2>1. shown[o].rest \in Nat /\ o \in Orders
    BY DEF OrderTypes, PassTypes, Shown
  <2>2. Worst(o) = shown[o].rest * PerSet[o]
    BY DEF Worst
  <2> QED BY <2>1, <2>2, OrderSizes, Times
<1> QED BY <1>1, <1>2, <1>3 DEF CountedInNat

\* The same of what a step leaves.
LEMMA LossesNext == OrderTypes' /\ RestFalls' => CountedInNat'
BY Losses, PTL

\* The limits a pass reads are what it finds at the broker, and the number it carries a number.
LEMMA NextLimits ==
  ASSUME OrderTypes, LimitTypes, RestFalls, [Next]_vars
  PROVE  LimitTypes'
<1>1. CASE ReadLimits
  <2>1. Held \in Int
    <3>1. (\A o \in Opening : Filling[o] \in Int) /\ \A o \in Closing : Filling[o] \in Int
      BY Losses, OrderSizes DEF CountedInNat
    <3>2. SumFunctionOnSet(Filling, Opening) \in Int /\ SumFunctionOnSet(Filling, Closing) \in Int
      BY <3>1, OrderSizes, SumIsInt
    <3> QED BY <3>2, OrderSizes DEF Held
  <2>2. ceiling' \in Ceilings \cup {Unread} /\ book' \in Books \cup {Unread} /\ atRisk' \in Int
    BY <1>1, <2>1 DEF ReadLimits
  <2>3. full' \in BOOLEAN /\ fused' \in BOOLEAN
    BY <1>1, LadderAssumption, Zenon DEF ReadLimits
  <2> QED BY <2>2, <2>3 DEF LimitTypes
<1>2. CASE TooFresh \/ PatienceCancels \/ PatienceCancelFails \/ WalkLeavesAlone \/ Walk
           \/ WalkFails \/ WalkAnswerLost
  <2>1. pc = "price" /\ atRisk' = NextAtRisk(cur) /\ UNCHANGED <<book, full, ceiling, fused>>
    BY <1>2 DEF TooFresh, PatienceCancels, PatienceCancelFails, WalkLeavesAlone, Walk, WalkFails,
         WalkAnswerLost
  <2>2. Worst(cur) \in Nat
    BY <2>1, Losses DEF CountedInNat, OrderTypes, PassTypes
  <2>3. atRisk' \in Int
    BY <2>1, <2>2 DEF LimitTypes, NextAtRisk, Counted
  <2> QED BY <2>1, <2>3 DEF LimitTypes
<1>3. CASE Restart \/ OrdersUnreadable \/ Tell
  <2>1. book' = Unread /\ atRisk' = 0 /\ full' = FALSE /\ ceiling' = Unread /\ fused' = FALSE
    BY <1>3 DEF Restart, OrdersUnreadable, Tell, PassEnds
  <2>2. full' \in BOOLEAN /\ fused' \in BOOLEAN
    BY <2>1, Zenon
  <2>3. book' \in Books \cup {Unread} /\ ceiling' \in Ceilings \cup {Unread} /\ atRisk' \in Int
    BY <2>1
  <2> QED BY <2>2, <2>3 DEF LimitTypes
<1>4. CASE UNCHANGED limitVars
  BY <1>4 DEF LimitTypes
<1>5. \/ ReadLimits \/ Restart \/ OrdersUnreadable \/ Tell \/ UNCHANGED limitVars
      \/ TooFresh \/ PatienceCancels \/ PatienceCancelFails \/ WalkLeavesAlone \/ Walk
      \/ WalkFails \/ WalkAnswerLost
  BY DEF Next, Advance, Send, SessionCancels, Fill, PassStarts, ReadOrders, NextOrder, Refuse,
         RefuseFails, AllJudged, Finished, vars
<1> QED BY <1>1, <1>2, <1>3, <1>4, <1>5

\* What may still fill of an order only falls, and an order a listing lacks is set aside while
\* it may fill.
LEMMA NextRest ==
  ASSUME OrderTypes, AsRead, RestFalls, [Next]_vars, OrderTypes'
  PROVE  RestFalls'
<1>1. \A o \in Orders : rest'[o] <= rest[o]
  <2>1. ASSUME NEW p \in Orders, Fill(p), NEW o \in Orders PROVE rest'[o] <= rest[o]
    BY <2>1 DEF Fill, OrderTypes, BrokerTypes
  <2>2. rest' = rest \/ \E p \in Orders : Fill(p)
    BY DEF Next, Advance, Send, SessionCancels, Restart, PassStarts, ReadOrders,
           OrdersUnreadable, ReadLimits, NextOrder, Refuse, RefuseFails, CancelFails, TooFresh,
           PatienceCancels, PatienceCancelFails, WalkLeavesAlone, Walk, WalkFails,
           WalkAnswerLost, AllJudged, Tell, Finished, vars
  <2>3. CASE rest' = rest
    BY <2>3 DEF OrderTypes, BrokerTypes
  <2> QED BY <2>1, <2>2, <2>3
<1>2. \A o \in Orders : rest'[o] \in Nat /\ rest[o] \in Nat /\ Sets[o] \in Nat
  BY OrderSizes DEF OrderTypes, BrokerTypes
<1>3. \A o \in Orders : rest'[o] <= Sets[o]
  <2> SUFFICES ASSUME NEW o \in Orders PROVE rest'[o] <= Sets[o]
    OBVIOUS
  <2>1. rest[o] <= Sets[o]
    BY DEF RestFalls
  <2> QED BY <1>1, <1>2, <2>1
<1>4. CASE ReadOrders
  BY <1>3, <1>4 DEF ReadOrders, RestFalls, OrderTypes, BrokerTypes, Working
<1>5. CASE shown' = <<>> /\ pc' \in {"idle", "orders"}
  BY <1>3, <1>5 DEF RestFalls
<1>6. CASE /\ shown' = shown /\ aside \subseteq aside'
           /\ pc' \notin {"idle", "orders"} => pc \notin {"idle", "orders"}
           /\ pc' = "limits" => pc = "limits" /\ todo' = todo
           /\ \A o \in Orders \ DOMAIN shown :
                status'[o] \in {"unsent", "working"} => status[o] \in {"unsent", "working"}
  <2>1. \A o \in DOMAIN shown : rest'[o] <= shown[o].rest
    <3> SUFFICES ASSUME NEW o \in DOMAIN shown PROVE rest'[o] <= shown[o].rest
      OBVIOUS
    <3>1. o \in Orders /\ shown[o].rest \in Nat /\ rest[o] <= shown[o].rest
      BY DEF OrderTypes, PassTypes, Shown, RestFalls
    <3> QED BY <1>1, <1>2, <3>1
  <2> QED BY <1>3, <1>6, <2>1 DEF RestFalls
<1>7. CASE Restart \/ OrdersUnreadable \/ Tell
  BY <1>5, <1>7 DEF Restart, OrdersUnreadable, Tell, PassEnds
<1>8. CASE /\ UNCHANGED <<shown, aside, pc, todo>>
           /\ \A o \in Orders :
                status'[o] \in {"unsent", "working"} => status[o] \in {"unsent", "working"}
  BY <1>6, <1>8
<1>9. ASSUME NEW p \in Orders, Send(p) \/ SessionCancels(p) \/ Fill(p) PROVE RestFalls'
  <2>1. UNCHANGED <<shown, aside, pc, todo>> /\ status[p] \in {"unsent", "working"}
    BY <1>9 DEF Send, SessionCancels, Fill, Working
  <2>2. \A o \in Orders : o # p => status'[o] = status[o]
    BY <1>9 DEF Send, SessionCancels, Fill, OrderTypes, BrokerTypes
  <2> QED BY <1>8, <2>1, <2>2
<1>10. CASE Refuse \/ RefuseFails
  <2>1. shown' = shown /\ aside \subseteq aside' /\ pc \in Checks
        /\ todo' = todo /\ pc' # "limits"
    BY <1>10 DEF Refuse, RefuseFails, AfterUnbounded, AfterTooBig
  <2>2. pc \notin {"idle", "orders"}
    BY <2>1 DEF Checks
  <2>3. \A o \in Orders \ DOMAIN shown : status'[o] = status[o]
    BY <1>10 DEF Refuse, RefuseFails, CancelFails, OrderTypes, PassTypes, BrokerTypes
  <2> QED BY <1>6, <2>1, <2>2, <2>3
<1>11. CASE PatienceCancels \/ PatienceCancelFails
  <2>1. shown' = shown /\ aside \subseteq aside' /\ pc = "price" /\ pc' = "next"
    BY <1>11 DEF PatienceCancels, PatienceCancelFails
  <2>2. \A o \in Orders \ DOMAIN shown : status'[o] = status[o]
    BY <1>11 DEF PatienceCancels, PatienceCancelFails, CancelFails, OrderTypes, PassTypes,
         BrokerTypes
  <2> QED BY <1>6, <2>1, <2>2
<1>12. CASE Advance \/ PassStarts \/ ReadLimits \/ NextOrder \/ TooFresh \/ WalkLeavesAlone
            \/ Walk \/ WalkFails \/ WalkAnswerLost \/ AllJudged \/ Finished \/ UNCHANGED vars
  <2>1. UNCHANGED <<shown, aside, status>>
    BY <1>12 DEF Advance, PassStarts, ReadLimits, NextOrder, TooFresh, WalkLeavesAlone, Walk,
         WalkFails, WalkAnswerLost, AllJudged, Finished, vars
  <2>2. /\ pc' \notin {"idle", "orders"} => pc \notin {"idle", "orders"}
        /\ pc' = "limits" => pc = "limits" /\ todo' = todo
    BY <1>12 DEF FirstCheck, AfterFuse, AfterUnbounded, AfterTooBig, Advance, PassStarts,
         ReadLimits, NextOrder, TooFresh, WalkLeavesAlone, Walk, WalkFails, WalkAnswerLost,
         AllJudged, Finished, vars
  <2> QED BY <1>6, <2>1, <2>2
<1> QED BY <1>4, <1>7, <1>9, <1>10, <1>11, <1>12 DEF Next

\* An order the pass has still to judge, or has judged before, is not answered for with more
\* after a step that does not judge it: what fills was counted with it.
LEMMA AnsweredKept ==
  ASSUME OrderTypes, OrderTypes', RestFalls, RestFalls', shown' = shown, NEW o \in Orders,
         o \in ToJudge' <=> o \in ToJudge, Working(o)' => Working(o),
         ~Working(o) => rest'[o] = rest[o]
  PROVE  Answered'[o] <= Answered[o]
<1>1. Filled(o) \in 0..Sets[o] /\ Filled(o)' \in 0..Sets[o] /\ Answered[o] \in Nat
  BY Losses, LossesNext, OrderSizes DEF CountedInNat
<1>2. /\ Answered[o] = PerSet[o] * CASE o \in ToJudge -> Sets[o] - shown[o].rest
                                     [] Working(o) /\ o \notin ToJudge -> Sets[o]
                                     [] OTHER -> Filled(o)
      /\ Answered'[o] = PerSet[o] * CASE o \in ToJudge' -> Sets[o] - shown[o].rest
                                      [] Working(o)' /\ o \notin ToJudge' -> Sets[o]
                                      [] OTHER -> Filled(o)'
  BY DEF Answered
<1>3. CASE o \in ToJudge
  BY <1>1, <1>2, <1>3
<1>4. CASE o \notin ToJudge /\ Working(o)
  <2>1. Answered[o] = PerSet[o] * Sets[o]
    BY <1>2, <1>4
  <2>2. Answered'[o] = PerSet[o] * Sets[o] \/ Answered'[o] = PerSet[o] * Filled(o)'
    BY <1>2, <1>4
  <2> QED BY <1>1, <2>1, <2>2, OrderSizes, Times
<1>5. CASE o \notin ToJudge /\ ~Working(o)
  <2>1. Filled(o)' = Filled(o)
    BY <1>5 DEF Filled
  <2>2. Answered'[o] = Answered[o]
    BY <1>2, <1>5, <2>1
  <2> QED BY <1>1, <2>2
<1> QED BY <1>3, <1>4, <1>5

\* Once judged, an order is answered for with what was left of it besides.
LEMMA AnsweredJudged ==
  ASSUME OrderTypes, OrderTypes', RestFalls, RestFalls', shown' = shown, NEW o \in ToJudge,
         o \notin ToJudge'
  PROVE  Answered'[o] <= Answered[o] + Worst(o)
<1>1. o \in Orders /\ o \in DOMAIN shown
  BY DEF ToJudge, OrderTypes, PassTypes
<1>2. Filled(o)' \in 0..Sets[o] /\ Answered[o] \in Nat /\ Worst(o) \in Nat
  BY <1>1, Losses, LossesNext DEF CountedInNat
<1>3. /\ shown[o].rest \in Nat /\ Sets[o] - shown[o].rest \in Nat
      /\ Sets[o] \in Nat /\ PerSet[o] \in Nat
  BY <1>1, OrderSizes DEF OrderTypes, PassTypes, Shown, RestFalls
<1>4. Answered[o] = PerSet[o] * (Sets[o] - shown[o].rest) /\ Worst(o) = PerSet[o] * shown[o].rest
  BY <1>1, <1>3, Times DEF Answered, Worst
<1>5. PerSet[o] * Sets[o] = Answered[o] + Worst(o)
  <2> DEFINE gone == Sets[o] - shown[o].rest
             left == shown[o].rest
  <2>1. gone \in Nat /\ left \in Nat /\ Sets[o] = gone + left
    BY <1>3
  <2>2. Answered[o] = PerSet[o] * gone /\ Worst(o) = PerSet[o] * left
    BY <1>4
  <2> HIDE DEF gone, left
  <2>3. PerSet[o] * (gone + left) = PerSet[o] * gone + PerSet[o] * left
    BY <1>3, <2>1, Times
  <2> QED BY <2>1, <2>2, <2>3
<1>6. Answered'[o] = PerSet[o] * Sets[o] \/ Answered'[o] = PerSet[o] * Filled(o)'
  <2>1. Answered'[o] = PerSet[o] * CASE o \in ToJudge' -> Sets[o] - shown'[o].rest
                                     [] Working(o)' /\ o \notin ToJudge' -> Sets[o]
                                     [] OTHER -> Filled(o)'
    BY <1>1 DEF Answered
  <2> QED BY <2>1
<1>7. PerSet[o] * Filled(o)' <= PerSet[o] * Sets[o] /\ PerSet[o] * Sets[o] \in Nat
  BY <1>2, <1>3, Times
<1> QED BY <1>5, <1>6, <1>7

\* The sums of a pass are over finitely many orders, and integers.
SumsInInt ==
  /\ IsFiniteSet(Opening \ aside) /\ Opening \ aside \subseteq Orders
  /\ SumFunctionOnSet(Answered, Opening \ aside) \in Int
  /\ SumFunctionOnSet(Filling, Closing) \in Int

\* What a pass sums over.
LEMMA SumsOfBook == OrderTypes /\ RestFalls => SumsInInt
<1> SUFFICES ASSUME OrderTypes, RestFalls PROVE SumsInInt
  OBVIOUS
<1>1. IsFiniteSet(Opening \ aside) /\ Opening \ aside \subseteq Orders
  BY OrderSizes, FS_Subset
<1>2. (\A o \in Opening \ aside : Answered[o] \in Int) /\ \A o \in Closing : Filling[o] \in Int
  BY Losses, OrderSizes DEF CountedInNat
<1> QED BY <1>1, <1>2, OrderSizes, SumIsInt DEF SumsInInt

\* The same of what a step leaves.
LEMMA SumsOfBookNext == OrderTypes' /\ RestFalls' => SumsInInt'
BY SumsOfBook, PTL

\* Fills and cancellations beside a pass, and an order it refuses, leave the number covering.
LEMMA CountHolds ==
  ASSUME OrderTypes, OrderTypes', RestFalls, RestFalls', LimitTypes, Covered, StaysBelow,
         UNCHANGED <<shown, book, atRisk>>, aside \subseteq aside',
         ToJudge' \subseteq ToJudge, ToJudge \ ToJudge' \subseteq aside',
         \A o \in Orders \ aside' : /\ Working(o)' => Working(o)
                                    /\ ~Working(o) => rest'[o] = rest[o],
         \A o \in Closing : rest'[o] <= rest[o]
  PROVE  Covered' /\ StaysBelow'
<1> DEFINE S == Opening \ aside
           T == Opening \ aside'
<1>1. /\ IsFiniteSet(S) /\ S \subseteq Orders /\ IsFiniteSet(T) /\ T \subseteq S
      /\ SumFunctionOnSet(Answered, S) \in Int /\ SumFunctionOnSet(Answered', T) \in Int
      /\ SumFunctionOnSet(Filling, Closing) \in Int /\ SumFunctionOnSet(Filling', Closing) \in Int
  <2>1. /\ IsFiniteSet(T) /\ SumFunctionOnSet(Answered', T) \in Int
        /\ SumFunctionOnSet(Filling', Closing) \in Int
    BY SumsOfBookNext DEF SumsInInt
  <2> QED BY <2>1, SumsOfBook DEF SumsInInt
<1>2. /\ \A o \in Orders : Answered[o] \in Nat /\ Answered'[o] \in Nat
      /\ \A o \in Orders : Filling[o] \in Nat /\ Filling'[o] \in Nat
  <2>1. \A o \in Orders : Answered'[o] \in Nat /\ Filling'[o] \in Nat
    BY LossesNext DEF CountedInNat
  <2> QED BY <2>1, Losses DEF CountedInNat
<1>3. \A o \in T : Answered'[o] <= Answered[o]
  <2> SUFFICES ASSUME NEW o \in T PROVE Answered'[o] <= Answered[o]
    OBVIOUS
  <2>1. o \in Orders \ aside' /\ (o \in ToJudge' <=> o \in ToJudge)
    BY OrderSizes
  <2> HIDE DEF T
  <2> QED BY <2>1, AnsweredKept
<1>4. \A o \in Closing : Filling[o] <= Filling'[o]
  <2> SUFFICES ASSUME NEW o \in Closing PROVE Filling[o] <= Filling'[o]
    OBVIOUS
  <2>1. /\ Filled(o) \in Nat /\ Filled(o)' \in Nat /\ Filled(o) <= Filled(o)'
        /\ o \in Orders /\ PerSet[o] \in Nat
    <3>1. Filled(o) \in 0..Sets[o] /\ Filled(o)' \in 0..Sets[o] /\ o \in Orders
      <4>1. o \in Orders
        BY OrderSizes
      <4> QED BY <4>1, Losses, LossesNext DEF CountedInNat
    <3>2. rest'[o] <= rest[o] /\ rest[o] \in Int /\ rest'[o] \in Int /\ Sets[o] \in Nat
      BY <3>1, OrderSizes DEF OrderTypes, BrokerTypes
    <3> QED BY <3>1, <3>2, OrderSizes DEF Filled
  <2>2. Filling[o] = Filled(o) * PerSet[o] /\ Filling'[o] = Filled(o)' * PerSet[o]
    BY <2>1 DEF Filling
  <2> QED BY <2>1, <2>2, Times
<1>5. SumFunctionOnSet(Filling, Closing) <= SumFunctionOnSet(Filling', Closing)
  <2>1. \A o \in Closing : Filling[o] \in Int /\ Filling'[o] \in Int
    BY <1>2, OrderSizes
  <2> QED BY <1>4, <2>1, OrderSizes, SumIsMonotone
<1>6. SumFunctionOnSet(Answered', T) <= SumFunctionOnSet(Answered, T)
  <2>1. \A o \in T : Answered[o] \in Int /\ Answered'[o] \in Int
    BY <1>1, <1>2
  <2> HIDE DEF T
  <2> QED BY <1>1, <1>3, <2>1, SumIsMonotone
<1>7. /\ SumFunctionOnSet(Answered, T) <= SumFunctionOnSet(Answered, S)
      /\ SumFunctionOnSet(Answered, T) \in Int
  <2>1. (\A o \in S : Answered[o] \in Nat) /\ \A o \in T : Answered[o] \in Int
    BY <1>1, <1>2
  <2> HIDE DEF S, T
  <2> QED BY <1>1, <2>1, SumOfPart, SumIsInt
<1>8. Covered'
  <2>1. AlreadyHeld + SumFunctionOnSet(Answered, S) - SumFunctionOnSet(Filling, Closing) <= atRisk
    BY DEF Covered
  <2>2. AlreadyHeld \in Int /\ atRisk \in Int /\ atRisk' = atRisk
    BY OrderSizes DEF LimitTypes
  <2>3. AlreadyHeld + SumFunctionOnSet(Answered', T) - SumFunctionOnSet(Filling', Closing)
          <= atRisk'
    <3> HIDE DEF S, T
    <3> QED BY <1>1, <1>5, <1>6, <1>7, <2>1, <2>2
  <2> QED BY <2>3 DEF Covered
<1>9. StaysBelow'
  <2>1. Passed' \subseteq Passed
    BY DEF Passed
  <2> QED BY <2>1 DEF StaysBelow, Largest
<1> QED BY <1>8, <1>9

\* What an opening order not refused adds keeps below the book and a set: a breach of less than
\* one set is forgiven, and no larger one.
LEMMA Fitting ==
  ASSUME OrderTypes, LimitTypes, RestFalls, book # Unread, NEW o \in DOMAIN shown, o \in Opening,
         "price" \in {FirstCheck(o), AfterUnbounded(o), AfterTooBig(o)}
  PROVE  atRisk + Worst(o) < book + Largest
<1>1. ~OverBook(o)
  <2>1. AfterTooBig(o) = "price"
    BY DEF FirstCheck, AfterFuse, AfterUnbounded
  <2> QED BY <2>1 DEF AfterTooBig
<1>2. /\ atRisk \in Int /\ book \in Int /\ Worst(o) \in Nat
      /\ Largest \in Int /\ PerSet[o] <= Largest /\ 0 < Largest /\ PerSet[o] \in Nat
  <2>1. Worst(o) \in Nat
    BY Losses DEF CountedInNat
  <2>2. atRisk \in Int /\ book \in Int
    BY OrderSizes DEF LimitTypes
  <2> QED BY <2>1, <2>2, LargestBounds, OrderSizes
<1>3. atRisk + Worst(o) - book <= 0 \/ atRisk + Worst(o) - book < PerSet[o]
  BY <1>1, <1>2 DEF OverBook, Forgiven
<1> QED BY <1>2, <1>3

\* The order priced is counted with all that was left of it, whether it is replaced, left alone
\* or cancelled by its patience.
LEMMA CountPriced ==
  ASSUME OrderTypes, OrderTypes', RestFalls, RestFalls', LimitTypes, CountCovers, book # Unread,
         pc = "price", pc' = "next", UNCHANGED <<shown, todo, cur, book, aside, rest>>,
         atRisk' = NextAtRisk(cur), \A o \in Orders \ {cur} : status'[o] = status[o],
         Working(cur)' => Working(cur)
  PROVE  CountCovers'
<1> DEFINE S == Opening \ aside
           f == [o \in Orders |-> IF o = cur THEN Answered[o] + Worst(cur) ELSE Answered[o]]
<1>1. cur \in DOMAIN shown /\ cur \in Orders /\ ToJudge = todo \cup {cur} /\ cur \notin todo
  BY DEF OrderTypes, PassTypes, ToJudge
<1>2. ToJudge' = todo
  BY DEF ToJudge, Checks
<1>3. /\ \A o \in Orders : Answered[o] \in Nat /\ Answered'[o] \in Nat
      /\ Worst(cur) \in Nat /\ atRisk \in Int /\ AlreadyHeld \in Int
  BY <1>1, Losses, LossesNext, OrderSizes DEF CountedInNat, LimitTypes
<1>4. \A o \in Orders : Answered'[o] <= f[o]
  <2> SUFFICES ASSUME NEW o \in Orders PROVE Answered'[o] <= f[o]
    OBVIOUS
  <2>1. CASE o = cur
    BY <1>1, <1>2, <2>1, AnsweredJudged
  <2>2. CASE o # cur
    <3>1. (o \in ToJudge' <=> o \in ToJudge) /\ rest'[o] = rest[o]
      BY <1>1, <1>2, <2>2
    <3>2. Working(o)' => Working(o)
      BY <2>2 DEF Working
    <3> QED BY <2>2, <3>1, <3>2, AnsweredKept
  <2> QED BY <2>1, <2>2
<1>5. /\ IsFiniteSet(S) /\ S \subseteq Orders /\ SumFunctionOnSet(Answered, S) \in Int
      /\ SumFunctionOnSet(Answered', S) \in Int /\ SumFunctionOnSet(Filling, Closing) \in Int
  <2>1. S = (Opening \ aside)' /\ SumFunctionOnSet(Answered', (Opening \ aside)') \in Int
    BY SumsOfBookNext DEF SumsInInt
  <2> QED BY <2>1, SumsOfBook DEF SumsInInt
<1>6. SumFunctionOnSet(Answered', S) <= SumFunctionOnSet(f, S)
  <2>1. \A o \in S : Answered'[o] \in Int /\ f[o] \in Int /\ Answered'[o] <= f[o]
    BY <1>3, <1>4, <1>5
  <2> HIDE DEF S, f
  <2> QED BY <1>5, <2>1, SumIsMonotone
<1>7. IF cur \in S THEN SumFunctionOnSet(f, S) = SumFunctionOnSet(Answered, S) + Worst(cur)
                   ELSE SumFunctionOnSet(f, S) = SumFunctionOnSet(Answered, S)
  <2>1. CASE cur \in S
    <3>1. /\ \A o \in S : Answered[o] \in Int
          /\ \A o \in S \ {cur} : f[o] = Answered[o]
          /\ f[cur] = Answered[cur] + Worst(cur) /\ Worst(cur) \in Int
      BY <1>1, <1>3, <1>5
    <3> HIDE DEF S, f
    <3> QED BY <1>5, <2>1, <3>1, SumChanged
  <2>2. CASE cur \notin S
    <3>1. \A o \in S : f[o] = Answered[o]
      BY <1>5, <2>2
    <3> HIDE DEF S, f
    <3> QED BY <1>5, <2>2, <3>1, SumOfSame
  <2> QED BY <2>1, <2>2
<1>8. IF cur \in Opening THEN atRisk' = atRisk + Worst(cur) ELSE atRisk' = atRisk
  BY DEF NextAtRisk, Counted
<1>9. Covered'
  <2>1. AlreadyHeld + SumFunctionOnSet(Answered, S) - SumFunctionOnSet(Filling, Closing) <= atRisk
    BY DEF CountCovers, Covered
  <2>2. cur \in S => cur \in Opening
    OBVIOUS
  <2>3. Filling' = Filling
    BY DEF Filling, Filled
  <2>4. AlreadyHeld + SumFunctionOnSet(Answered', S) - SumFunctionOnSet(Filling, Closing) <= atRisk'
    <3> HIDE DEF S, f
    <3>1. SumFunctionOnSet(Answered', S) <= SumFunctionOnSet(Answered, S)
            + IF cur \in S THEN Worst(cur) ELSE 0
      BY <1>3, <1>5, <1>6, <1>7
    <3>2. CASE cur \in S
      BY <1>3, <1>5, <1>8, <2>1, <2>2, <3>1, <3>2
    <3>3. CASE cur \notin S
      BY <1>3, <1>5, <1>8, <2>1, <3>1, <3>3
    <3> QED BY <3>2, <3>3
  <2> QED BY <2>3, <2>4 DEF Covered
<1>10. StaysBelow'
  <2>1. CASE cur \in Opening
    BY <1>8, <2>1 DEF CountCovers, NextFits, StaysBelow, Largest
  <2>2. CASE cur \notin Opening
    <3>1. Passed' \subseteq Passed
      BY <1>1, <1>2, <2>2 DEF Passed
    <3> QED BY <1>8, <2>2, <3>1 DEF CountCovers, StaysBelow, Largest
  <2> QED BY <2>1, <2>2
<1> QED BY <1>9, <1>10 DEF CountCovers, NextFits

\* The number a pass begins with covers what is held, and no order is let stand yet.
LEMMA CountStarts ==
  ASSUME OrderTypes, OrderTypes', RestFalls, RestFalls', ReadLimits, book' # Unread
  PROVE  CountCovers'
<1> DEFINE S == Opening \ aside
<1>1. /\ pc = "limits" /\ pc' = "next" /\ todo = DOMAIN shown /\ ToJudge' = DOMAIN shown
      /\ atRisk' = Held /\ UNCHANGED <<status, rest, shown, aside>>
  <2>1. pc = "limits" /\ pc' = "next" /\ UNCHANGED <<status, rest, shown, aside, todo>>
    BY DEF ReadLimits
  <2>2. todo = DOMAIN shown
    BY <2>1 DEF RestFalls
  <2>3. ToJudge' = DOMAIN shown
    BY <2>1, <2>2 DEF ToJudge, Checks
  <2> QED BY <2>1, <2>2, <2>3 DEF ReadLimits
<1>2. /\ \A o \in Orders : Answered'[o] \in Nat /\ Filling[o] \in Nat
      /\ IsFiniteSet(S) /\ S \subseteq Orders /\ SumFunctionOnSet(Answered', S) \in Int
      /\ SumFunctionOnSet(Filling, Closing) \in Int /\ AlreadyHeld \in Int
  <2>1. SumFunctionOnSet(Answered', (Opening \ aside)') \in Int
    BY SumsOfBookNext DEF SumsInInt
  <2>2. S = (Opening \ aside)'
    BY <1>1
  <2> QED BY <2>1, <2>2, Losses, LossesNext, SumsOfBook, OrderSizes DEF CountedInNat, SumsInInt
<1>3. \A o \in S : Answered'[o] <= Filling[o]
  <2> SUFFICES ASSUME NEW o \in S PROVE Answered'[o] <= Filling[o]
    OBVIOUS
  <2>1. o \in Orders /\ o \notin aside
    BY OrderSizes
  <2>2. /\ Answered'[o] = PerSet[o] * CASE o \in ToJudge' -> Sets[o] - shown[o].rest
                                        [] Working(o) /\ o \notin ToJudge' -> Sets[o]
                                        [] OTHER -> Filled(o)
        /\ Filling[o] = Filled(o) * PerSet[o]
        /\ Filled(o) \in Nat /\ PerSet[o] \in Nat
    BY <1>1, <2>1, Losses, OrderSizes DEF CountedInNat, Answered, Working, Filled, Filling
  <2>3. CASE o \in DOMAIN shown
    <3>1. /\ Sets[o] - shown[o].rest \in Nat
          /\ Sets[o] - shown[o].rest <= Filled(o)
      BY <2>1, <2>3, OrderSizes
         DEF RestFalls, OrderTypes, PassTypes, BrokerTypes, Shown, Filled
    <3>2. Answered'[o] = PerSet[o] * (Sets[o] - shown[o].rest)
      BY <1>1, <2>2, <2>3
    <3> QED BY <2>2, <3>1, <3>2, Times
  <2>4. CASE o \notin DOMAIN shown
    <3>1. ~Working(o)
      BY <1>1, <2>1, <2>4 DEF RestFalls, Working
    <3>2. Answered'[o] = PerSet[o] * Filled(o)
      BY <1>1, <2>2, <2>4, <3>1
    <3> QED BY <2>2, <3>2, Times
  <2> QED BY <2>3, <2>4
<1>4. /\ SumFunctionOnSet(Answered', S) <= SumFunctionOnSet(Filling, S)
      /\ SumFunctionOnSet(Filling, S) \in Int
  <2>1. \A o \in S : Answered'[o] \in Int /\ Filling[o] \in Int
    BY <1>2
  <2> HIDE DEF S
  <2> QED BY <1>2, <1>3, <2>1, SumIsMonotone, SumIsInt
<1>5. /\ SumFunctionOnSet(Filling, S) <= SumFunctionOnSet(Filling, Opening)
      /\ SumFunctionOnSet(Filling, Opening) \in Int
  <2>1. /\ \A o \in Opening : Filling[o] \in Nat /\ Filling[o] \in Int
        /\ S \subseteq Opening
    BY <1>2, OrderSizes
  <2> HIDE DEF S
  <2> QED BY <2>1, OrderSizes, SumOfPart, SumIsInt
<1>6. Covered'
  <2>1. Filling' = Filling
    BY <1>1 DEF Filling, Filled
  <2>2. AlreadyHeld + SumFunctionOnSet(Answered', S) - SumFunctionOnSet(Filling, Closing) <= atRisk'
    <3> HIDE DEF S
    <3> QED BY <1>1, <1>2, <1>4, <1>5 DEF Held
  <2> QED BY <1>1, <2>1, <2>2 DEF Covered
<1>7. StaysBelow' /\ NextFits'
  BY <1>1 DEF StaysBelow, Passed, NextFits
<1> QED BY <1>6, <1>7 DEF CountCovers

\* From the moment its limits are read a pass that read how much the book may lose counts.
Counts == pc \notin {"idle", "orders", "limits"} /\ book # Unread

\* The session, the market and the clock beside a pass.
LEMMA CountBeside ==
  ASSUME BookInv, OrderTypes', RestFalls', Counts, CountCovers, UNCHANGED passVars, aside' = aside,
         \/ UNCHANGED brokerVars
         \/ \E o \in Orders : Send(o) \/ SessionCancels(o) \/ Fill(o)
  PROVE  CountCovers'
<1>1. /\ OrderTypes /\ LimitTypes /\ RestFalls /\ AsRead
      /\ Covered /\ StaysBelow /\ NextFits
  BY DEF BookInv, PatienceInv, CountCovers
<1>2. ToJudge' = ToJudge
  BY DEF ToJudge
<1>3. /\ \A o \in Orders \ aside : /\ Working(o)' => Working(o)
                                   /\ ~Working(o) => rest'[o] = rest[o]
      /\ \A o \in Closing : rest'[o] <= rest[o]
  <2>1. CASE UNCHANGED brokerVars
    BY <1>1, <2>1, OrderSizes DEF Working, OrderTypes, BrokerTypes
  <2>2. ASSUME NEW o \in Orders, Send(o)
        PROVE  /\ \A p \in Orders \ aside : /\ Working(p)' => Working(p)
                                            /\ ~Working(p) => rest'[p] = rest[p]
               /\ \A p \in Closing : rest'[p] <= rest[p]
    <3>1. o \in aside
      BY <1>1, <2>2 DEF Send, AsRead, RestFalls, Counts
    <3>2. /\ rest' = rest /\ \A p \in Orders \ aside : status'[p] = status[p]
          /\ \A p \in Closing : rest[p] \in Int
      BY <1>1, <2>2, <3>1, OrderSizes DEF Send, OrderTypes, BrokerTypes
    <3> QED BY <3>2 DEF Working
  <2>3. ASSUME NEW o \in Orders, SessionCancels(o)
        PROVE  /\ \A p \in Orders \ aside : /\ Working(p)' => Working(p)
                                            /\ ~Working(p) => rest'[p] = rest[p]
               /\ \A p \in Closing : rest'[p] <= rest[p]
    BY <1>1, <2>3, OrderSizes DEF SessionCancels, Working, OrderTypes, BrokerTypes
  <2>4. ASSUME NEW o \in Orders, Fill(o)
        PROVE  /\ \A p \in Orders \ aside : /\ Working(p)' => Working(p)
                                            /\ ~Working(p) => rest'[p] = rest[p]
               /\ \A p \in Closing : rest'[p] <= rest[p]
    BY <1>1, <2>4, OrderSizes DEF Fill, Working, OrderTypes, BrokerTypes
  <2> QED BY <2>1, <2>2, <2>3, <2>4
<1>4. Covered' /\ StaysBelow'
  BY <1>1, <1>2, <1>3, CountHolds
<1>5. NextFits'
  BY <1>1 DEF NextFits, Worst, Largest
<1> QED BY <1>4, <1>5 DEF CountCovers

\* An order taken from the listing, or refused.
LEMMA CountAtTheLimits ==
  ASSUME BookInv, OrderTypes', RestFalls', Counts, CountCovers, NextOrder \/ Refuse \/ RefuseFails
  PROVE  CountCovers'
<1>1. /\ OrderTypes /\ LimitTypes /\ RestFalls
      /\ Covered /\ StaysBelow
  BY DEF BookInv, PatienceInv, CountCovers
<1>2. CASE NextOrder
  <2>1. PICK o \in todo : todo' = todo \ {o} /\ cur' = o /\ pc' = FirstCheck(o)
    BY <1>2 DEF NextOrder
  <2>2. pc' \in Checks \cup {"price"} /\ pc = "next"
    BY <1>2, <2>1 DEF NextOrder, FirstCheck, AfterFuse, AfterUnbounded, AfterTooBig, Checks
  <2>3. ToJudge' = ToJudge
    BY <2>1, <2>2 DEF ToJudge, Checks
  <2>4. UNCHANGED <<shown, book, atRisk, aside, status, rest>>
    BY <1>2 DEF NextOrder
  <2>5. \A p \in Closing : rest[p] \in Int
    BY <1>1, OrderSizes DEF OrderTypes, BrokerTypes
  <2>6. Covered' /\ StaysBelow'
    BY <1>1, <2>3, <2>4, <2>5, CountHolds DEF Working
  <2>7. NextFits'
    <3>1. ASSUME pc' = "price", o \in Opening PROVE atRisk + Worst(o) < book + Largest
      <4>1. o \in DOMAIN shown /\ FirstCheck(o) = "price"
        BY <1>1, <2>1, <3>1 DEF OrderTypes, PassTypes
      <4> QED BY <1>1, <3>1, <4>1, Fitting DEF Counts
    <3> QED BY <2>1, <2>4, <3>1 DEF NextFits, Worst, Largest
  <2> QED BY <2>6, <2>7 DEF CountCovers
<1>3. CASE Refuse \/ RefuseFails
  <2>1. /\ pc \in Checks /\ cur \in DOMAIN shown /\ cur \in Orders
        /\ UNCHANGED <<shown, book, atRisk, rest, todo, cur>> /\ aside \subseteq aside'
    BY <1>1, <1>3 DEF Refuse, RefuseFails, CancelFails, OrderTypes, PassTypes
  <2>2. /\ \A o \in Orders : Working(o)' => Working(o)
        /\ \A o \in Closing : rest'[o] <= rest[o]
    BY <1>1, <1>3, <2>1, OrderSizes
       DEF Refuse, RefuseFails, CancelFails, Working, OrderTypes, BrokerTypes
  <2>3. \/ pc' = "next" /\ cur \in aside'
        \/ pc' \in Checks \cup {"price"} /\ pc' \in {AfterUnbounded(cur), AfterTooBig(cur)}
    BY <1>3 DEF Refuse, RefuseFails, AfterUnbounded, AfterTooBig, Checks
  <2>4. ToJudge' \subseteq ToJudge /\ ToJudge \ ToJudge' \subseteq aside'
    BY <2>1, <2>3 DEF ToJudge, Checks
  <2>5. Covered' /\ StaysBelow'
    BY <1>1, <2>1, <2>2, <2>4, CountHolds
  <2>6. NextFits'
    <3>1. ASSUME pc' = "price", cur \in Opening PROVE atRisk + Worst(cur) < book + Largest
      <4>1. "price" \in {AfterUnbounded(cur), AfterTooBig(cur)}
        BY <2>3, <3>1
      <4> QED BY <1>1, <2>1, <3>1, <4>1, Fitting DEF Counts
    <3> QED BY <2>1, <3>1 DEF NextFits, Worst, Largest
  <2> QED BY <2>5, <2>6 DEF CountCovers
<1> QED BY <1>2, <1>3

\* Each order is judged after the ones before it: what the pass counts with goes on covering.
LEMMA NextCount ==
  ASSUME BookInv, [Next]_vars, OrderTypes', RestFalls', Counts'
  PROVE  CountCovers'
<1>1. OrderTypes /\ LimitTypes /\ RestFalls /\ (Counts => CountCovers)
  BY DEF BookInv, PatienceInv, Counts
<1>2. CASE ReadLimits
  BY <1>1, <1>2, CountStarts DEF Counts
<1>3. CASE Restart \/ OrdersUnreadable \/ Tell \/ PassStarts \/ ReadOrders
  BY <1>3 DEF Restart, OrdersUnreadable, Tell, PassEnds, PassStarts, ReadOrders, Counts
<1>4. ASSUME NEW o \in Orders, Send(o) \/ SessionCancels(o) \/ Fill(o) PROVE CountCovers'
  <2>1. UNCHANGED passVars /\ aside' = aside
    BY <1>4 DEF Send, SessionCancels, Fill
  <2>2. Counts
    BY <2>1 DEF Counts
  <2> QED BY <1>1, <1>4, <2>1, <2>2, CountBeside
<1>5. CASE Advance \/ Finished \/ UNCHANGED vars
  <2>1. UNCHANGED passVars /\ aside' = aside /\ UNCHANGED brokerVars
    BY <1>5 DEF Advance, Finished, vars
  <2>2. Counts
    BY <2>1 DEF Counts
  <2> QED BY <1>1, <2>1, <2>2, CountBeside
<1>6. CASE NextOrder \/ Refuse \/ RefuseFails
  <2>1. Counts
    BY <1>6 DEF NextOrder, Refuse, RefuseFails, Counts, Checks
  <2> QED BY <1>1, <1>6, <2>1, CountAtTheLimits
<1>7. CASE TooFresh \/ PatienceCancels \/ PatienceCancelFails \/ WalkLeavesAlone \/ Walk
           \/ WalkFails \/ WalkAnswerLost
  <2>1. /\ pc = "price" /\ pc' = "next" /\ UNCHANGED <<shown, todo, cur, book, aside, rest>>
        /\ atRisk' = NextAtRisk(cur)
    BY <1>7 DEF TooFresh, PatienceCancels, PatienceCancelFails, CancelFails, WalkLeavesAlone,
         Walk, WalkFails, WalkAnswerLost
  <2>2. cur \in Orders
    BY <1>1, <2>1 DEF OrderTypes, PassTypes
  <2>3. (\A o \in Orders \ {cur} : status'[o] = status[o]) /\ (Working(cur)' => Working(cur))
    BY <1>1, <1>7, <2>1, <2>2
       DEF TooFresh, PatienceCancels, PatienceCancelFails, CancelFails, WalkLeavesAlone, Walk,
           WalkFails, WalkAnswerLost, Working, OrderTypes, BrokerTypes
  <2>4. Counts
    BY <2>1 DEF Counts
  <2> QED BY <1>1, <2>1, <2>3, <2>4, CountPriced DEF Counts
<1>8. CASE AllJudged
  <2>1. /\ pc' = "tell" /\ UNCHANGED <<shown, todo, cur, book, atRisk, aside, status, rest>>
        /\ pc = "next" /\ Counts
    BY <1>8 DEF AllJudged, Counts
  <2>2. ToJudge' = ToJudge /\ \A o \in Closing : rest[o] \in Int
    BY <1>1, <2>1, OrderSizes DEF ToJudge, Checks, OrderTypes, BrokerTypes
  <2>3. Covered' /\ StaysBelow'
    BY <1>1, <2>1, <2>2, CountHolds DEF Working, CountCovers
  <2> QED BY <2>1, <2>3 DEF CountCovers, NextFits
<1> QED BY <1>2, <1>3, <1>4, <1>5, <1>6, <1>7, <1>8 DEF Next

\* Before the first pass nothing is counted.
LEMMA InitBook == Init => BookInv
<1> SUFFICES ASSUME Init PROVE BookInv
  OBVIOUS
<1>1. PatienceInv
  BY InitPatience
<1>2. LimitTypes
  <2>1. full \in BOOLEAN /\ fused \in BOOLEAN
    BY Zenon DEF Init
  <2>2. book \in Books \cup {Unread} /\ ceiling \in Ceilings \cup {Unread} /\ atRisk \in Int
    <3>1. book = Unread /\ ceiling = Unread /\ atRisk = 0
      BY Zenon DEF Init
    <3> QED BY <3>1
  <2> QED BY <2>1, <2>2 DEF LimitTypes
<1>3. RestFalls
  <2>1. rest = Sets /\ shown = <<>> /\ pc = "idle"
    BY Zenon DEF Init
  <2>2. \A o \in Orders : rest[o] <= Sets[o]
    BY <2>1, OrderSizes
  <2> QED BY <2>1, <2>2 DEF RestFalls
<1> QED BY <1>1, <1>2, <1>3 DEF Init, BookInv

\* What BookHolds rests on outlasts every step of the ladder, the session and the market.
LEMMA NextBook == BookInv /\ [Next]_vars => BookInv'
<1> SUFFICES ASSUME BookInv, [Next]_vars PROVE BookInv'
  OBVIOUS
<1>1. PatienceInv' /\ PatienceInv /\ LimitTypes /\ RestFalls
  BY NextPatience DEF BookInv
<1>2. OrderTypes /\ OrderTypes' /\ AsRead
  BY <1>1 DEF PatienceInv
<1>3. LimitTypes' /\ RestFalls'
  BY <1>1, <1>2, NextLimits, NextRest
<1>4. Counts' => CountCovers'
  BY <1>2, <1>3, NextCount
<1> QED BY <1>1, <1>3, <1>4 DEF BookInv, Counts

\* Whatever fills, fails or is cancelled while a pass runs, the orders it lets stand keep, with
\* all that is held beside them, within what the book may lose and a set.
THEOREM BookKept == Spec => []BookHolds
<1>1. ASSUME BookInv PROVE BookHolds
  <2> DEFINE stand == {o \in (DOMAIN shown \cap Opening) \ aside : Working(o)}
             S     == Opening \ aside
             left  == [o \in Orders |-> rest[o] * PerSet[o]]
             adds  == [o \in Orders |-> IF o \in stand THEN left[o] ELSE 0]
             sum   == [o \in Orders |-> Filling[o] + adds[o]]
             before == AlreadyHeld + SumFunctionOnSet(Filling, S)
                                   - SumFunctionOnSet(Filling, Closing)
  <2>1. SUFFICES ASSUME pc = "tell", book # Unread, stand # {}
                 PROVE  before + SumFunctionOnSet(left, stand) < book + Largest
    BY DEF BookHolds, Largest
  <2>2. OrderTypes /\ LimitTypes /\ RestFalls /\ AsRead /\ CountCovers
    BY <1>1, <2>1 DEF BookInv, PatienceInv
  <2>3. ToJudge = {}
    BY <2>1, <2>2 DEF AsRead, ToJudge, Checks
  <2>4. atRisk < book + Largest /\ Largest \in Int
    <3>1. PICK o \in stand : o \in Passed
      BY <2>1, <2>3 DEF Passed
    <3> QED BY <2>2, <3>1, LargestBounds DEF CountCovers, StaysBelow
  <2>5. /\ IsFiniteSet(S) /\ S \subseteq Orders /\ stand \subseteq S /\ IsFiniteSet(stand)
        /\ SumFunctionOnSet(Answered, S) \in Int /\ SumFunctionOnSet(Filling, Closing) \in Int
    <3>1. IsFiniteSet(S) /\ stand \subseteq S
      BY <2>2, SumsOfBook DEF SumsInInt
    <3> HIDE DEF stand, S
    <3> QED BY <2>2, <3>1, SumsOfBook, FS_Subset DEF SumsInInt, S
  <2>6. \A o \in Orders : /\ left[o] \in Nat /\ adds[o] \in Nat /\ Filling[o] \in Nat
                          /\ Answered[o] \in Nat
    <3>1. \A o \in Orders : left[o] \in Nat
      <4> SUFFICES ASSUME NEW o \in Orders PROVE left[o] \in Nat
        OBVIOUS
      <4>1. rest[o] \in Nat /\ PerSet[o] \in Nat
        BY <2>2, OrderSizes DEF OrderTypes, BrokerTypes
      <4> QED BY <4>1, Times
    <3> QED BY <2>2, <3>1, Losses DEF CountedInNat
  <2>7. SumFunctionOnSet(left, stand) <= SumFunctionOnSet(adds, S)
    <3>1. /\ \A o \in stand : left[o] = adds[o]
          /\ \A o \in S : adds[o] \in Nat
      BY <2>5, <2>6
    <3> HIDE DEF stand, S, left, adds
    <3>2. SumFunctionOnSet(left, stand) = SumFunctionOnSet(adds, stand)
      BY <2>5, <3>1, SumOfSame
    <3> QED BY <2>5, <3>1, <3>2, SumOfPart
  <2>8. /\ SumFunctionOnSet(sum, S) = SumFunctionOnSet(Filling, S) + SumFunctionOnSet(adds, S)
        /\ SumFunctionOnSet(Filling, S) \in Int /\ SumFunctionOnSet(adds, S) \in Int
    <3>1. \A o \in S : /\ Filling[o] \in Int /\ adds[o] \in Int
                       /\ sum[o] = Filling[o] + adds[o]
      BY <2>5, <2>6
    <3> HIDE DEF S, adds, sum
    <3> QED BY <2>5, <3>1, SumOfSums, SumIsInt
  <2>9. SumFunctionOnSet(sum, S) <= SumFunctionOnSet(Answered, S)
    <3>1. ASSUME NEW o \in S PROVE sum[o] <= Answered[o]
      <4>1. /\ o \in Orders /\ rest[o] \in Nat /\ Sets[o] \in Nat /\ PerSet[o] \in Nat
            /\ Filled(o) \in Nat
        BY <2>2, <2>5, Losses, OrderSizes DEF OrderTypes, BrokerTypes, CountedInNat
      <4>2. Filling[o] = PerSet[o] * Filled(o)
        BY <4>1, Times DEF Filling
      <4>3. CASE o \in stand
        <5>1. Answered[o] = PerSet[o] * Sets[o] /\ Sets[o] = Filled(o) + rest[o]
          BY <2>3, <4>1, <4>3 DEF Answered, Filled
        <5>2. sum[o] = PerSet[o] * Filled(o) + PerSet[o] * rest[o]
          BY <4>1, <4>2, <4>3, Times
        <5> QED BY <2>6, <4>1, <5>1, <5>2, Times
      <4>4. CASE o \notin stand
        <5>1. Working(o) => o \notin DOMAIN shown
          BY <4>4
        <5>2. ~Working(o)
          BY <2>1, <2>2, <4>1, <5>1 DEF RestFalls, Working
        <5>3. Answered[o] = PerSet[o] * Filled(o)
          BY <2>3, <4>1, <5>2 DEF Answered
        <5>4. sum[o] = PerSet[o] * Filled(o)
          BY <2>6, <4>1, <4>2, <4>4
        <5> QED BY <2>6, <4>1, <5>3, <5>4
      <4> QED BY <4>3, <4>4
    <3>2. \A o \in S : sum[o] \in Int /\ Answered[o] \in Int /\ sum[o] <= Answered[o]
      BY <2>5, <2>6, <3>1
    <3> HIDE DEF S, sum
    <3> QED BY <2>5, <3>2, SumIsMonotone
  <2>10. AlreadyHeld + SumFunctionOnSet(Answered, S) - SumFunctionOnSet(Filling, Closing) <= atRisk
    BY <2>2 DEF CountCovers, Covered
  <2>11. /\ AlreadyHeld \in Int /\ atRisk \in Int /\ book \in Int
         /\ SumFunctionOnSet(left, stand) \in Int
    <3>1. \A o \in stand : left[o] \in Int
      BY <2>5, <2>6
    <3>2. SumFunctionOnSet(left, stand) \in Int
      <4> HIDE DEF left, stand
      <4> QED BY <2>5, <3>1, SumIsInt
    <3> QED BY <2>1, <2>2, <3>2, OrderSizes DEF LimitTypes
  <2> HIDE DEF stand, S, left, adds, sum
  <2> QED BY <2>4, <2>5, <2>7, <2>8, <2>9, <2>10, <2>11 DEF before
<1>2. Spec => []BookInv
  BY InitBook, NextBook, PTL DEF Spec
<1> QED BY <1>1, <1>2, PTL

-----------------------------------------------------------------------------
(* The watch that closes: the broker's list.                               *)

\* What a group of places has in it, it has a first of.
LEMMA FirstPlace ==
  ASSUME NEW n \in Nat, NEW S, S \subseteq 1..n, S # {}
  PROVE  Min(S) \in S
<1> DEFINE minus == [x \in S |-> -x]
<1>1. IsFiniteSet(S)
  <2>1. IsFiniteSet(1..n)
    BY FS_Interval
  <2> QED BY <2>1, FS_Subset
<1>2. \A x \in S : minus[x] = -x /\ minus[x] \in Int /\ x \in Int
  OBVIOUS
<1> HIDE DEF minus
<1>3. \E a \in S : \A x \in S : minus[x] <= minus[a]
  BY <1>1, <1>2, HasLargest
<1>4. \E a \in S : \A x \in S : a <= x
  BY <1>2, <1>3
<1> QED BY <1>4 DEF Min

\* What is kept of a list, is kept once and as it was.
LEMMA ForgetKeeps ==
  ASSUME NEW list \in Seq(Order), Len(list) < MaxOrders \/ \E i \in 1..Len(list) : ~list[i].active
  PROVE  /\ Forget(list) \in Seq(Order)
         /\ \E g \in [1..Len(Forget(list)) -> 1..Len(list)] :
              /\ \A j \in 1..Len(Forget(list)) : Forget(list)[j] = list[g[j]]
              /\ \A j, k \in 1..Len(Forget(list)) : j # k => g[j] # g[k]
<1>1. CASE Len(list) < MaxOrders
  <2>1. Forget(list) = list
    BY <1>1 DEF Forget
  <2> DEFINE g == [j \in 1..Len(list) |-> j]
  <2>2. g \in [1..Len(list) -> 1..Len(list)] /\ \A j \in 1..Len(list) : g[j] = j
    OBVIOUS
  <2> HIDE DEF g
  <2> QED BY <2>1, <2>2
<1>2. CASE ~(Len(list) < MaxOrders)
  <2> DEFINE S == {i \in 1..Len(list) : ~list[i].active}
             m == Min(S)
             n == Len(list)
  <2>1. n \in Nat /\ DOMAIN list = 1..n /\ \A i \in 1..n : list[i] \in Order
    OBVIOUS
  <2>2. S # {} /\ S \subseteq 1..n
    BY <1>2
  <2>3. m \in 1..n
    <3> HIDE DEF S
    <3> QED BY <2>1, <2>2, FirstPlace
  <2>4. Forget(list) = SubSeq(list, 1, m - 1) \o SubSeq(list, m + 1, n)
    BY <1>2, <2>1 DEF Forget, RemoveAt
  <2> HIDE DEF S, m
  <2> DEFINE kept == SubSeq(list, 1, m - 1) \o SubSeq(list, m + 1, n)
             g == [j \in 1..(n - 1) |-> IF j < m THEN j ELSE j + 1]
  <2>5. /\ kept \in Seq(Order) /\ Len(kept) = n - 1
        /\ \A j \in 1..(n - 1) : kept[j] = IF j < m THEN list[j] ELSE list[j + 1]
    <3> DEFINE p == SubSeq(list, 1, m - 1)
               q == SubSeq(list, m + 1, n)
    <3>1. p \in Seq(Order) /\ Len(p) = m - 1 /\ \A j \in 1..(m - 1) : p[j] = list[j]
      <4>1. 1 \in Int /\ m - 1 \in Int /\ \A i \in 1..(m - 1) : list[i] \in Order
        BY <2>1, <2>3
      <4>2. p \in Seq(Order) /\ Len(p) = (IF 1 <= m - 1 THEN m - 1 - 1 + 1 ELSE 0)
            /\ \A j \in 1..(m - 1 - 1 + 1) : p[j] = list[1 + j - 1]
        BY <4>1, SubSeqProperties
      <4> HIDE DEF p
      <4> QED BY <2>3, <4>2
    <3>2. q \in Seq(Order) /\ Len(q) = n - m /\ \A j \in 1..(n - m) : q[j] = list[m + j]
      <4>1. m + 1 \in Int /\ n \in Int /\ \A i \in (m + 1)..n : list[i] \in Order
        BY <2>1, <2>3
      <4>2. q \in Seq(Order) /\ Len(q) = (IF m + 1 <= n THEN n - (m + 1) + 1 ELSE 0)
            /\ \A j \in 1..(n - (m + 1) + 1) : q[j] = list[m + 1 + j - 1]
        BY <4>1, SubSeqProperties
      <4> HIDE DEF p, q
      <4>3. \A j \in 1..(n - m) : q[j] = list[m + j]
        <5> SUFFICES ASSUME NEW j \in 1..(n - m) PROVE q[j] = list[m + j]
          OBVIOUS
        <5>1. m + 1 + j - 1 = m + j /\ j \in 1..(n - (m + 1) + 1)
          BY <2>1, <2>3
        <5> QED BY <4>2, <5>1
      <4>4. (IF m + 1 <= n THEN n - (m + 1) + 1 ELSE 0) = n - m
        <5>1. m \in Int /\ n \in Int /\ m <= n
          BY <2>1, <2>3
        <5> HIDE DEF n
        <5>2. n - (m + 1) + 1 = n - m
          BY <5>1
        <5>3. ~(m + 1 <= n) => n - m = 0
          BY <5>1
        <5> QED BY <5>2, <5>3
      <4> QED BY <4>2, <4>3, <4>4
    <3> HIDE DEF p, q
    <3>3. kept = p \o q
      BY DEF p, q
    <3> HIDE DEF kept
    <3>4. /\ kept \in Seq(Order) /\ Len(kept) = Len(p) + Len(q)
          /\ \A j \in 1..(Len(p) + Len(q)) :
               kept[j] = IF j <= Len(p) THEN p[j] ELSE q[j - Len(p)]
      BY <3>1, <3>2, <3>3, ConcatProperties
    <3>5. ASSUME NEW j \in 1..(n - 1)
          PROVE  kept[j] = IF j < m THEN list[j] ELSE list[j + 1]
      <4>1. CASE j < m
        <5>1. j \in 1..(m - 1) /\ j \in 1..(Len(p) + Len(q)) /\ j <= Len(p)
          BY <2>1, <2>3, <3>1, <3>2, <4>1
        <5> QED BY <3>1, <3>4, <4>1, <5>1
      <4>2. CASE ~(j < m)
        <5> DEFINE k == j - (m - 1)
        <5>1. /\ k \in 1..(n - m) /\ m + k = j + 1 /\ j - Len(p) = k
              /\ j \in 1..(Len(p) + Len(q)) /\ ~(j <= Len(p))
          BY <2>1, <2>3, <3>1, <3>2, <4>2
        <5> HIDE DEF k
        <5> QED BY <3>2, <3>4, <4>2, <5>1
      <4> QED BY <4>1, <4>2
    <3> QED BY <2>1, <2>3, <3>1, <3>2, <3>4, <3>5
  <2>6. /\ g \in [1..(n - 1) -> 1..n]
        /\ \A j \in 1..(n - 1) : g[j] = IF j < m THEN j ELSE j + 1
    BY <2>1, <2>3
  <2> HIDE DEF kept, g
  <2>7. \A j \in 1..(n - 1) : kept[j] = list[g[j]]
    BY <2>5, <2>6
  <2>8. \A j, k \in 1..(n - 1) : j # k => g[j] # g[k]
    BY <2>1, <2>3, <2>6
  <2>9. Forget(list) = kept
    BY <2>4 DEF kept
  <2>10. \E h \in [1..Len(kept) -> 1..n] :
            /\ \A j \in 1..Len(kept) : kept[j] = list[h[j]]
            /\ \A j, k \in 1..Len(kept) : j # k => h[j] # h[k]
    BY <2>5, <2>6, <2>7, <2>8
  <2> QED BY <2>5, <2>9, <2>10
<1> QED BY <1>1, <1>2

\* What was there and is one order more: every place of the new list is the last, or that
\* of an order that was there.
Enlarged(last, g, new) ==
  /\ last \in Nat /\ orders' \in Seq(Order) /\ Places' = 1..last
  /\ last \in Places' /\ orders'[last] = new
  /\ \A j \in Places' : j # last => g[j] \in Places /\ orders'[j] = orders[g[j]]
  /\ \A j, k \in Places' : j # last /\ k # last /\ j # k => g[j] # g[k]

LEMMA AddEnlarges ==
  ASSUME orders \in Seq(Order), Room, NEW change \in Accounts, NEW byWatch \in BOOLEAN,
         NEW alone \in BOOLEAN, Add(change, byWatch, alone)
  PROVE  \E last, g : Enlarged(last, g, [change |-> change, active |-> TRUE,
                                         byWatch |-> byWatch, alone |-> alone])
<1> DEFINE new == [change |-> change, active |-> TRUE, byWatch |-> byWatch, alone |-> alone]
           kept == Forget(orders)
           last == Len(kept) + 1
<1>1. new \in Order
  BY DEF Order
<1>2. orders' = Append(kept, new)
  BY DEF Add
<1>3. Len(orders) < MaxOrders \/ \E i \in 1..Len(orders) : ~orders[i].active
  BY DEF Room, Places
<1>4. /\ kept \in Seq(Order)
      /\ \E g \in [1..Len(kept) -> 1..Len(orders)] :
           /\ \A j \in 1..Len(kept) : kept[j] = orders[g[j]]
           /\ \A j, k \in 1..Len(kept) : j # k => g[j] # g[k]
  BY <1>3, ForgetKeeps
<1>5. PICK g \in [1..Len(kept) -> 1..Len(orders)] :
           /\ \A j \in 1..Len(kept) : kept[j] = orders[g[j]]
           /\ \A j, k \in 1..Len(kept) : j # k => g[j] # g[k]
  BY <1>4
<1> HIDE DEF new, kept
<1>6. /\ orders' \in Seq(Order) /\ Len(orders') = last /\ last \in Nat \ {0}
      /\ orders'[last] = new /\ \A j \in 1..Len(kept) : orders'[j] = kept[j]
  BY <1>1, <1>2, <1>4
<1>7. Places' = 1..last /\ \A j \in Places' : j # last => j \in 1..Len(kept)
  BY <1>4, <1>6 DEF Places
<1>8. Enlarged(last, g, new)
  BY <1>5, <1>6, <1>7 DEF Enlarged, Places
<1> QED BY <1>8 DEF new

-----------------------------------------------------------------------------
(* What holds of every state of the watch.                                 *)

\* A contract is of one family, so two families share no leg.
LEMMA LegsApart ==
  ASSUME NEW account, NEW f, NEW g, f # g
  PROVE  Legs(account, f) \cap Legs(account, g) = {}
BY DEF Legs

\* The order that closes a family touches its legs, each with the opposite of what is held.
LEMMA CloseIs ==
  ASSUME NEW account \in Accounts, NEW f
  PROVE  /\ CloseStructure(account, f) \in Accounts
         /\ Touches(CloseStructure(account, f)) = Legs(account, f)
         /\ \A c \in Legs(account, f) : CloseStructure(account, f)[c] = -account[c]
<1> DEFINE change == CloseStructure(account, f)
<1>1. \A c \in Contracts : account[c] \in Int
  BY DEF Accounts
<1>2. \A c \in Contracts : change[c] = (IF Family[c] = f THEN -account[c] ELSE 0) /\ change[c] \in Int
  BY <1>1 DEF CloseStructure
<1>3. change = [c \in Contracts |-> change[c]]
  BY DEF CloseStructure
<1> HIDE DEF change
<1>4. change \in Accounts
  BY <1>2, <1>3 DEF Accounts
<1>5. \A c \in Contracts : change[c] # 0 <=> (Family[c] = f /\ account[c] # 0)
  BY <1>1, <1>2
<1>6. Touches(change) = Legs(account, f)
  BY <1>5 DEF Touches, Legs
<1>7. \A c \in Legs(account, f) : change[c] = -account[c]
  BY <1>2 DEF Legs
<1> QED BY <1>4, <1>6, <1>7 DEF change

LEMMA WatchFirst == WatchInit => WatchInv
<1> SUFFICES ASSUME WatchInit PROVE WatchInv
  OBVIOUS
<1>1. orders = <<>> /\ Places = {} /\ held = AtFirst /\ share \in Nat
  BY TakeProfitAssumption DEF WatchInit, Places
<1>2. watch = Resting /\ AtFirst \in Accounts
  BY TakeProfitAssumption DEF WatchInit
<1>3. /\ watch.at = "rest" /\ watch.now = {} /\ watch.todo = {}
      /\ watch \in [at : {"rest", "orders", "structures", "send"}, book : Accounts,
                    walking : SUBSET Contracts, share : Nat, todo : SUBSET Families,
                    now : SUBSET Families, still : BOOLEAN]
  BY <1>2 DEF Resting
<1>4. WatchTypeOK
  BY <1>1, <1>2, <1>3 DEF WatchTypeOK
<1> QED BY <1>1, <1>3, <1>4 DEF WatchInv, ClosesWhatIsHeld, NoneTwice, ReadsTheAccount, KnowsTheOrders

\* With the account and the orders as they were, what the orders do holds still.
LEMMA OrdersStay ==
  ASSUME ClosesWhatIsHeld, NoneTwice, UNCHANGED <<held, orders>>
  PROVE  ClosesWhatIsHeld' /\ NoneTwice'
BY DEF ClosesWhatIsHeld, NoneTwice, Places, Sound

\* A pass that rests has read nothing, whatever the account is by now.
LEMMA RestKeeps ==
  ASSUME WatchTypeOK, Rests, UNCHANGED <<held, share, orders>>
  PROVE  WatchTypeOK' /\ ReadsTheAccount' /\ KnowsTheOrders'
<1>1. /\ watch'.at = "rest" /\ watch'.now = {} /\ watch'.todo = {}
      /\ watch' \in [at : {"rest", "orders", "structures", "send"}, book : Accounts,
                     walking : SUBSET Contracts, share : Nat, todo : SUBSET Families,
                     now : SUBSET Families, still : BOOLEAN]
  BY TakeProfitAssumption DEF Rests, Resting
<1>2. WatchTypeOK'
  BY <1>1 DEF WatchTypeOK
<1> QED BY <1>1, <1>2 DEF ReadsTheAccount, KnowsTheOrders

\* Look and the reading of positions.
LEMMA LookKeeps == WatchInv /\ Look => WatchInv'
<1> SUFFICES ASSUME WatchInv, Look PROVE WatchInv'
  OBVIOUS
<1>1. UNCHANGED <<held, share, orders>>
  BY DEF Look, world
<1>2. Structures(held) \subseteq Families /\ held \in Accounts
  BY DEF Structures, WatchInv, WatchTypeOK
<1>3. /\ watch' = [Resting EXCEPT !.at = "orders", !.book = held, !.todo = Structures(held)]
  BY DEF Look
<1>4. /\ watch'.at = "orders" /\ watch'.now = {} /\ watch'.book = held
      /\ watch' \in [at : {"rest", "orders", "structures", "send"}, book : Accounts,
                     walking : SUBSET Contracts, share : Nat, todo : SUBSET Families,
                     now : SUBSET Families, still : BOOLEAN]
  BY <1>2, <1>3 DEF Resting
<1>5. WatchTypeOK'
  BY <1>1, <1>4 DEF WatchInv, WatchTypeOK
<1>6. ReadsTheAccount' /\ KnowsTheOrders'
  BY <1>1, <1>4 DEF ReadsTheAccount, KnowsTheOrders
<1> QED BY <1>1, <1>5, <1>6, OrdersStay DEF WatchInv

\* What is in play on a list is touched by an order of it.
LEMMA WalkingIs ==
  ASSUME orders \in Seq(Order), NEW i \in Places, orders[i].active
  PROVE  Touches(orders[i].change) \subseteq WalkingIn(orders)
<1>1. i \in {j \in DOMAIN orders : orders[j].active}
  BY DEF Places
<1> QED BY <1>1 DEF WalkingIn

LEMMA LookAtOrdersKeeps == WatchInv /\ LookAtOrders => WatchInv'
<1> SUFFICES ASSUME WatchInv, LookAtOrders PROVE WatchInv'
  OBVIOUS
<1>1. UNCHANGED <<held, share, orders>> /\ watch.at = "orders"
  BY DEF LookAtOrders, world
<1>2. WatchTypeOK /\ ClosesWhatIsHeld' /\ NoneTwice'
  BY <1>1, OrdersStay DEF WatchInv
<1>3. CASE ~Readable(share)
  BY <1>1, <1>2, <1>3, RestKeeps DEF LookAtOrders, WatchInv
<1>4. CASE Readable(share)
  <2> DEFINE all == WalkingIn(orders)
             seen == WalkingIn(Newest(orders))
  <2>1. watch' = [watch EXCEPT !.at = "structures", !.walking = seen, !.share = share,
                    !.still = @ /\ all = seen]
    BY <1>4 DEF LookAtOrders
  <2>2. seen \subseteq Contracts /\ share \in Nat
    BY <1>2 DEF WalkingIn, Touches, WatchTypeOK
  <2> DEFINE b == watch.still /\ all = seen
  <2> HIDE DEF all, seen
  <2>9. b \in BOOLEAN /\ watch' = [watch EXCEPT !.at = "structures", !.walking = seen,
                                      !.share = share, !.still = b]
    BY <2>1
  <2> HIDE DEF b
  <2>3. /\ watch'.at = "structures" /\ watch'.now = watch.now /\ watch'.todo = watch.todo
        /\ watch'.book = watch.book /\ watch'.walking = seen
        /\ watch'.still = b
        /\ watch' \in [at : {"rest", "orders", "structures", "send"}, book : Accounts,
                       walking : SUBSET Contracts, share : Nat, todo : SUBSET Families,
                       now : SUBSET Families, still : BOOLEAN]
    BY <1>2, <2>2, <2>9 DEF WatchTypeOK
  <2>4. watch.now = {} /\ watch.todo \cap watch.now = {} /\ (watch.still => watch.book = held)
    BY <1>1 DEF WatchInv, KnowsTheOrders, ReadsTheAccount
  <2>5. WatchTypeOK' /\ ReadsTheAccount'
    BY <1>1, <1>2, <2>3, <2>4 DEF WatchTypeOK, ReadsTheAccount, b
  <2>6. \A i \in Places : orders[i].active => Touches(orders[i].change) \subseteq all
    BY <1>2, WalkingIs DEF WatchTypeOK, all
  <2>7. watch'.still => \A f : \A i \in Places : orders'[i].active =>
          Touches(orders'[i].change) \cap Legs(watch'.book, f) \subseteq watch'.walking
    BY <1>1, <2>3, <2>6 DEF b
  <2>8. KnowsTheOrders'
    BY <1>1, <2>3, <2>4, <2>7 DEF KnowsTheOrders, Places
  <2> QED BY <1>2, <2>5, <2>8 DEF WatchInv
<1> QED BY <1>3, <1>4

\* A structure is passed over, or could not be priced: there is less to decide.
LEMMA LessToDo ==
  ASSUME WatchInv, NEW f, watch.at = "structures", watch' = [watch EXCEPT !.todo = @ \ {f}],
         UNCHANGED <<held, share, orders>>
  PROVE  WatchInv'
<1>1. WatchTypeOK /\ ClosesWhatIsHeld' /\ NoneTwice'
  BY OrdersStay DEF WatchInv
<1>2. /\ watch'.at = watch.at /\ watch'.now = watch.now /\ watch'.todo = watch.todo \ {f}
      /\ watch'.book = watch.book /\ watch'.walking = watch.walking /\ watch'.still = watch.still
      /\ watch' \in [at : {"rest", "orders", "structures", "send"}, book : Accounts,
                     walking : SUBSET Contracts, share : Nat, todo : SUBSET Families,
                     now : SUBSET Families, still : BOOLEAN]
  BY <1>1 DEF WatchTypeOK
<1>3. WatchTypeOK' /\ ReadsTheAccount'
  BY <1>1, <1>2 DEF WatchTypeOK, ReadsTheAccount, WatchInv
<1>4. KnowsTheOrders'
  BY <1>2 DEF KnowsTheOrders, WatchInv, Places
<1> QED BY <1>1, <1>3, <1>4 DEF WatchInv

\* One is decided on: no order in play that the pass knows of is on its legs.
LEMMA DecideKeeps ==
  ASSUME WatchInv, NEW f \in Families, Decide(f)
  PROVE  WatchInv'
<1>1. /\ UNCHANGED <<held, share, orders>> /\ watch.at = "structures" /\ f \in watch.todo
      /\ Legs(watch.book, f) \cap watch.walking = {}
  BY DEF Decide, Considered, world
<1>2. WatchTypeOK /\ ClosesWhatIsHeld' /\ NoneTwice'
  BY <1>1, OrdersStay DEF WatchInv
<1>3. watch' = [watch EXCEPT !.at = "send", !.todo = @ \ {f}, !.now = {f}]
  BY DEF Decide
<1>4. /\ watch'.at = "send" /\ watch'.now = {f} /\ watch'.todo = watch.todo \ {f}
      /\ watch'.book = watch.book /\ watch'.walking = watch.walking /\ watch'.still = watch.still
      /\ watch' \in [at : {"rest", "orders", "structures", "send"}, book : Accounts,
                     walking : SUBSET Contracts, share : Nat, todo : SUBSET Families,
                     now : SUBSET Families, still : BOOLEAN]
  BY <1>2, <1>3 DEF WatchTypeOK
<1>5. WatchTypeOK' /\ ReadsTheAccount'
  BY <1>1, <1>2, <1>4 DEF WatchTypeOK, ReadsTheAccount, WatchInv
<1>6. KnowsTheOrders'
  BY <1>1, <1>4 DEF KnowsTheOrders, WatchInv, Places
<1> QED BY <1>2, <1>5, <1>6 DEF WatchInv

\* An order more: it is touched by nothing the others are, or it is not one that counts.
LEMMA OneMore ==
  ASSUME ClosesWhatIsHeld, NoneTwice, UNCHANGED held, NEW new \in Order,
         NEW last, NEW g, Enlarged(last, g, new),
         new.byWatch /\ new.alone =>
           /\ \A c \in Touches(new.change) : held[c] = -new.change[c]
           /\ \A i \in Places : orders[i].active =>
                Touches(orders[i].change) \cap Touches(new.change) = {}
  PROVE  ClosesWhatIsHeld' /\ NoneTwice'
<1>1. \A j \in Places' : /\ j = last => orders'[j] = new
                         /\ j # last => g[j] \in Places /\ orders'[j] = orders[g[j]]
  BY DEF Enlarged
<1>2. \A j, k \in Places' : j # last /\ k # last /\ j # k => g[j] # g[k]
  BY DEF Enlarged
<1>3. \A j \in Places' : Sound(j)' = (orders'[j].active /\ orders'[j].byWatch /\ orders'[j].alone)
  BY DEF Sound
<1>4. ClosesWhatIsHeld'
  <2> SUFFICES ASSUME NEW j \in Places', Sound(j)', NEW c \in Touches(orders'[j].change)
               PROVE  held[c] = -orders'[j].change[c]
    BY DEF ClosesWhatIsHeld, Touches
  <2>1. CASE j = last
    BY <1>1, <1>3, <2>1
  <2>2. CASE j # last
    BY <1>1, <1>3, <2>2 DEF ClosesWhatIsHeld, Sound
  <2> QED BY <2>1, <2>2
<1>5. NoneTwice'
  <2> SUFFICES ASSUME NEW j \in Places', NEW k \in Places', j # k, Sound(j)', Sound(k)'
               PROVE  Touches(orders'[j].change) \cap Touches(orders'[k].change) = {}
    BY DEF NoneTwice, Touches
  <2>1. CASE j # last /\ k # last
    BY <1>1, <1>2, <1>3, <2>1 DEF NoneTwice, Sound
  <2>2. CASE j = last
    BY <1>1, <1>3, <2>2
  <2>3. CASE k = last
    BY <1>1, <1>3, <2>3
  <2> QED BY <2>1, <2>2, <2>3
<1> QED BY <1>4, <1>5

\* The account changes under a pass, or the orders do: what it has read counts no more.
LEMMA StirsKeeps ==
  ASSUME WatchInv, Stirs
  PROVE  /\ watch' \in [at : {"rest", "orders", "structures", "send"}, book : Accounts,
                        walking : SUBSET Contracts, share : Nat, todo : SUBSET Families,
                        now : SUBSET Families, still : BOOLEAN]
         /\ ReadsTheAccount' /\ KnowsTheOrders'
<1>1. WatchTypeOK
  BY DEF WatchInv
<1>2. CASE watch.at = "rest"
  <2>1. watch' = watch
    BY <1>2 DEF Stirs
  <2> QED BY <1>1, <1>2, <2>1 DEF WatchInv, WatchTypeOK, ReadsTheAccount, KnowsTheOrders
<1>3. CASE watch.at # "rest"
  <2>1. watch' = [watch EXCEPT !.still = FALSE]
    BY <1>3 DEF Stirs
  <2>2. /\ watch'.at = watch.at /\ watch'.now = watch.now /\ watch'.todo = watch.todo
        /\ watch'.still = FALSE
        /\ watch' \in [at : {"rest", "orders", "structures", "send"}, book : Accounts,
                       walking : SUBSET Contracts, share : Nat, todo : SUBSET Families,
                       now : SUBSET Families, still : BOOLEAN]
    BY <1>1, <2>1 DEF WatchTypeOK
  <2> QED BY <2>2 DEF WatchInv, ReadsTheAccount, KnowsTheOrders
<1> QED BY <1>2, <1>3

\* The session orders something: what a pass has read is no longer so.
LEMMA SessionKeeps == WatchInv /\ SessionOrders => WatchInv'
<1> SUFFICES ASSUME WatchInv, SessionOrders PROVE WatchInv'
  OBVIOUS
<1>1. UNCHANGED <<held, share>> /\ Room /\ WatchTypeOK
  BY DEF SessionOrders, world, WatchInv
<1>2. PICK t \in Trades : Add(t, FALSE, FALSE)
  BY DEF SessionOrders
<1> DEFINE new == [change |-> t, active |-> TRUE, byWatch |-> FALSE, alone |-> FALSE]
<1>3. t \in Accounts /\ new \in Order /\ new.byWatch = FALSE
  BY TakeProfitAssumption DEF Order
<1>4. PICK last, g : Enlarged(last, g, new)
  BY <1>1, <1>2, <1>3, AddEnlarges DEF WatchTypeOK
<1> HIDE DEF new
<1>5. ClosesWhatIsHeld' /\ NoneTwice'
  BY <1>1, <1>3, <1>4, OneMore DEF WatchInv
<1>6. orders' \in Seq(Order)
  BY <1>4 DEF Enlarged
<1> QED BY <1>1, <1>5, <1>6, StirsKeeps DEF SessionOrders, WatchInv, WatchTypeOK

\* The close that is sent, whether its answer comes or not: on a true reading it is of what
\* is held, and no other order in play is on its legs.
LEMMA CloseAdded ==
  ASSUME WatchInv, NEW f \in Families, watch.at = "send", f \in watch.now, Room,
         Add(CloseStructure(watch.book, f), TRUE, watch.still),
         watch' = [watch EXCEPT !.at = "structures", !.now = {}], UNCHANGED <<held, share>>
  PROVE  WatchInv'
<1> DEFINE change == CloseStructure(watch.book, f)
           still == watch.still
           new == [change |-> change, active |-> TRUE, byWatch |-> TRUE, alone |-> still]
<1>1. WatchTypeOK /\ watch.book \in Accounts /\ still \in BOOLEAN
  BY DEF WatchInv, WatchTypeOK
<1>2. /\ change \in Accounts /\ Touches(change) = Legs(watch.book, f)
      /\ \A c \in Legs(watch.book, f) : change[c] = -watch.book[c]
  BY <1>1, CloseIs
<1>3. Add(change, TRUE, still)
  OBVIOUS
<1> HIDE DEF change, still
<1>4. new \in Order /\ new.change = change /\ new.alone = still /\ new.active
  BY <1>1, <1>2 DEF Order
<1>5. PICK last, g : Enlarged(last, g, new)
  BY <1>1, <1>2, <1>3, AddEnlarges DEF WatchTypeOK
<1> HIDE DEF new
<1>6. still => /\ watch.book = held
               /\ \A h \in watch.todo \cup watch.now, i \in Places : orders[i].active =>
                    Touches(orders[i].change) \cap Legs(watch.book, h) \subseteq watch.walking
               /\ Legs(watch.book, f) \cap watch.walking = {}
  BY DEF WatchInv, ReadsTheAccount, KnowsTheOrders, still
<1>7. still => \A i \in Places : orders[i].active => Touches(orders[i].change) \cap Touches(change) = {}
  BY <1>2, <1>6
<1>8. still => \A c \in Touches(change) : held[c] = -change[c]
  <2> SUFFICES ASSUME still, NEW c \in Touches(change) PROVE held[c] = -change[c]
    OBVIOUS
  <2>1. c \in Contracts /\ watch.book = held /\ change[c] = -watch.book[c] /\ watch.book[c] \in Int
    BY <1>1, <1>2, <1>6 DEF Accounts, Touches
  <2> QED BY <2>1
<1>9. ClosesWhatIsHeld' /\ NoneTwice'
  BY <1>4, <1>5, <1>7, <1>8, OneMore DEF WatchInv
<1>10. /\ watch'.at = "structures" /\ watch'.now = {} /\ watch'.todo = watch.todo
       /\ watch'.book = watch.book /\ watch'.walking = watch.walking /\ watch'.still = watch.still
       /\ watch' \in [at : {"rest", "orders", "structures", "send"}, book : Accounts,
                      walking : SUBSET Contracts, share : Nat, todo : SUBSET Families,
                      now : SUBSET Families, still : BOOLEAN]
  BY <1>1 DEF WatchTypeOK
<1>11. WatchTypeOK' /\ ReadsTheAccount'
  BY <1>1, <1>5, <1>10 DEF WatchTypeOK, ReadsTheAccount, WatchInv, Enlarged
<1>12. f \notin watch.todo
  BY DEF WatchInv, KnowsTheOrders
<1>13. KnowsTheOrders'
  <2>1. ASSUME still, NEW h \in watch.todo, NEW j \in Places', orders'[j].active
        PROVE  Touches(orders'[j].change) \cap Legs(watch.book, h) \subseteq watch.walking
    <3>1. CASE j = last
      <4>1. orders'[j].change = change /\ h # f
        BY <1>4, <1>5, <1>12, <3>1 DEF Enlarged
      <4> QED BY <1>2, <4>1, LegsApart
    <3>2. CASE j # last
      <4>1. g[j] \in Places /\ orders'[j] = orders[g[j]]
        BY <1>5, <3>2 DEF Enlarged
      <4> QED BY <1>6, <2>1, <4>1
    <3> QED BY <3>1, <3>2
  <2> QED BY <1>10, <2>1 DEF KnowsTheOrders, still, Touches
<1> QED BY <1>9, <1>11, <1>13 DEF WatchInv

\* An order is filled.  The orders that count after it counted before it, and are on other
\* contracts: of two that count no contract is the same, and one that does not count takes
\* from all the others of its contracts that they do.
LEMMA FillsKeeps ==
  ASSUME WatchInv, NEW i \in Places, Fills(i)
  PROVE  WatchInv'
<1>1. WatchTypeOK /\ orders[i] \in Order /\ \A j \in Places : orders[j] \in Order
  BY DEF WatchInv, WatchTypeOK, Places
<1> DEFINE spoils == ~(orders[i].byWatch /\ orders[i].alone)
           after(j) == IF j = i THEN [orders[j] EXCEPT !.active = FALSE]
                       ELSE IF spoils /\ Touches(orders[i].change) \cap Touches(orders[j].change) # {}
                            THEN [orders[j] EXCEPT !.alone = FALSE]
                            ELSE orders[j]
<1>2. orders' = [j \in Places |-> after(j)] /\ orders[i].active /\ share' = share
  BY DEF Fills
<1>3. \A j \in Places : /\ after(j) \in Order /\ after(j).change = orders[j].change
                        /\ after(j).byWatch = orders[j].byWatch
                        /\ after(j).active => orders[j].active /\ j # i
                        /\ after(j).alone => orders[j].alone
    BY <1>1 DEF Order
<1>4. ASSUME NEW j \in Places, j # i, after(j).alone, spoils
      PROVE  Touches(orders[i].change) \cap Touches(orders[j].change) = {}
  BY <1>1, <1>4 DEF Order
<1> HIDE DEF after
<1>5. Len(orders) \in Nat /\ Places = 1..Len(orders)
  BY <1>1 DEF WatchTypeOK, Places
<1>6. orders' \in Seq(Order) /\ Places' = Places /\ \A j \in Places : orders'[j] = after(j)
  BY <1>2, <1>3, <1>5 DEF Places
<1>7. /\ held \in Accounts /\ orders[i].change \in Accounts
      /\ held' = [c \in Contracts |-> held[c] + orders[i].change[c]]
  BY <1>1 DEF WatchTypeOK, Fills, Order
<1>8. held' \in Accounts /\ \A c \in Contracts : held'[c] = held[c] + orders[i].change[c]
  BY <1>7 DEF Accounts
<1>9. ASSUME NEW j \in Places, Sound(j)'
      PROVE  /\ Sound(j) /\ j # i
             /\ Touches(orders[i].change) \cap Touches(orders[j].change) = {}
  <2>1. Sound(j) /\ j # i /\ after(j).alone
    BY <1>3, <1>6, <1>9 DEF Sound
  <2>2. CASE spoils
    BY <1>4, <2>1, <2>2
  <2>3. CASE ~spoils
    <3>1. Sound(i)
      BY <1>2, <2>3 DEF Sound
    <3> QED BY <2>1, <3>1 DEF WatchInv, NoneTwice
  <2> QED BY <2>1, <2>2, <2>3
<1>10. ClosesWhatIsHeld'
  <2> SUFFICES ASSUME NEW j \in Places, Sound(j)', NEW c \in Touches(orders[j].change)
               PROVE  held'[c] = -orders[j].change[c]
    BY <1>3, <1>6 DEF ClosesWhatIsHeld, Touches
  <2>1. Sound(j) /\ c \in Contracts /\ c \notin Touches(orders[i].change)
    BY <1>9 DEF Touches
  <2>2. orders[i].change[c] = 0
    BY <2>1 DEF Touches
  <2>3. held[c] = -orders[j].change[c] /\ held[c] \in Int
    BY <1>7, <2>1 DEF WatchInv, ClosesWhatIsHeld, Accounts
  <2> QED BY <1>8, <2>1, <2>2, <2>3
<1>11. NoneTwice'
  <2> SUFFICES ASSUME NEW j \in Places, NEW k \in Places, j # k, Sound(j)', Sound(k)'
               PROVE  Touches(orders[j].change) \cap Touches(orders[k].change) = {}
    BY <1>3, <1>6 DEF NoneTwice, Touches
  <2>1. Sound(j) /\ Sound(k)
    BY <1>9
  <2> QED BY <2>1 DEF WatchInv, NoneTwice
<1>12. WatchTypeOK' /\ ReadsTheAccount' /\ KnowsTheOrders'
  BY <1>1, <1>2, <1>6, <1>8, StirsKeeps DEF WatchTypeOK, Fills
<1> QED BY <1>10, <1>11, <1>12 DEF WatchInv

\* An order ends unfilled: fewer are in play.
LEMMA EndsKeeps ==
  ASSUME WatchInv, NEW i \in Places, Ends(i)
  PROVE  WatchInv'
<1>1. WatchTypeOK /\ orders[i] \in Order /\ \A j \in Places : orders[j] \in Order
  BY DEF WatchInv, WatchTypeOK, Places
<1>2. UNCHANGED <<held, share, watch>> /\ orders' = [orders EXCEPT ![i].active = FALSE]
  BY DEF Ends, world
<1> DEFINE ended == [orders[i] EXCEPT !.active = FALSE]
<1>3. /\ ended \in Order /\ ended.change = orders[i].change /\ ended.active = FALSE
  BY <1>1 DEF Order
<1> HIDE DEF ended
<1>4. orders' = [orders EXCEPT ![i] = ended]
  BY <1>2 DEF ended
<1>5. orders \in Seq(Order) /\ Places = 1..Len(orders)
  BY <1>1 DEF WatchTypeOK, Places
<1>6. /\ orders' \in Seq(Order) /\ Places' = Places
      /\ \A j \in Places : orders'[j] = IF j = i THEN ended ELSE orders[j]
  BY <1>3, <1>4, <1>5 DEF Places
<1>7. \A j \in Places : /\ orders'[j].change = orders[j].change
                        /\ orders'[j].active => orders[j].active
                        /\ Sound(j)' => Sound(j)
  BY <1>3, <1>6 DEF Sound
<1>8. ClosesWhatIsHeld'
  <2> SUFFICES ASSUME NEW j \in Places, Sound(j)', NEW c \in Touches(orders[j].change)
               PROVE  held[c] = -orders[j].change[c]
    BY <1>2, <1>6, <1>7 DEF ClosesWhatIsHeld, Touches
  <2> QED BY <1>7 DEF WatchInv, ClosesWhatIsHeld
<1>9. NoneTwice'
  <2> SUFFICES ASSUME NEW j \in Places, NEW k \in Places, j # k, Sound(j)', Sound(k)'
               PROVE  Touches(orders[j].change) \cap Touches(orders[k].change) = {}
    BY <1>6, <1>7 DEF NoneTwice, Touches
  <2> QED BY <1>7 DEF WatchInv, NoneTwice
<1>10. WatchTypeOK' /\ ReadsTheAccount'
  BY <1>1, <1>2, <1>6 DEF WatchTypeOK, ReadsTheAccount, WatchInv
<1>11. KnowsTheOrders'
  <2>1. \A S : \A j \in Places : orders'[j].active =>
          orders[j].active /\ Touches(orders'[j].change) = Touches(orders[j].change)
    BY <1>7 DEF Touches
  <2> QED BY <1>2, <1>6, <2>1 DEF KnowsTheOrders, WatchInv
<1> QED BY <1>8, <1>9, <1>10, <1>11 DEF WatchInv

\* The send that fails and that the broker did not take: nothing is on its way any more.
LEMMA NotTaken ==
  ASSUME WatchInv, UNCHANGED <<held, share, orders>>, watch.at = "send",
         watch' = [watch EXCEPT !.at = "structures", !.now = {}]
  PROVE  WatchInv'
<1>1. WatchTypeOK /\ ClosesWhatIsHeld' /\ NoneTwice'
  BY OrdersStay DEF WatchInv
<1>2. /\ watch'.at = "structures" /\ watch'.now = {} /\ watch'.todo = watch.todo
      /\ watch'.book = watch.book /\ watch'.walking = watch.walking /\ watch'.still = watch.still
      /\ watch' \in [at : {"rest", "orders", "structures", "send"}, book : Accounts,
                     walking : SUBSET Contracts, share : Nat, todo : SUBSET Families,
                     now : SUBSET Families, still : BOOLEAN]
  BY <1>1 DEF WatchTypeOK
<1>3. WatchTypeOK' /\ ReadsTheAccount'
  BY <1>1, <1>2 DEF WatchTypeOK, ReadsTheAccount, WatchInv
<1>4. KnowsTheOrders'
  BY <1>2 DEF KnowsTheOrders, WatchInv, Places
<1> QED BY <1>1, <1>3, <1>4 DEF WatchInv

\* With the account, the orders and the pass as they were, so is what holds of them.
LEMMA NothingTouched ==
  ASSUME WatchInv, UNCHANGED <<held, orders, watch>>, share' \in Nat
  PROVE  WatchInv'
<1>1. ClosesWhatIsHeld' /\ NoneTwice'
  BY OrdersStay DEF WatchInv
<1> QED BY <1>1 DEF WatchInv, WatchTypeOK, ReadsTheAccount, KnowsTheOrders, Places

\* A pass that ends, or a watch that begins anew.
LEMMA WatchPassEnds ==
  ASSUME WatchInv, Rests, UNCHANGED <<held, share, orders>>
  PROVE  WatchInv'
BY OrdersStay, RestKeeps DEF WatchInv

LEMMA WatchNextKeeps == WatchInv /\ [WatchNext]_watchVars => WatchInv'
<1> SUFFICES ASSUME WatchInv, [WatchNext]_watchVars PROVE WatchInv'
  OBVIOUS
<1>0. share \in Nat
  BY DEF WatchInv, WatchTypeOK
<1>1. CASE Look
  BY <1>1, LookKeeps
<1>2. CASE LookAtOrders
  BY <1>2, LookAtOrdersKeeps
<1>3. CASE EndPass
  BY <1>3, WatchPassEnds DEF EndPass, world
<1>4. ASSUME NEW f \in Families, PassOver(f) PROVE WatchInv'
  BY <1>4, LessToDo DEF PassOver, world
<1>5. ASSUME NEW f \in Families, Decide(f) PROVE WatchInv'
  BY <1>5, DecideKeeps
<1>6. ASSUME NEW f \in Families, Sends(f) PROVE WatchInv'
  BY <1>6, CloseAdded DEF Sends, world
<1>7. CASE ReadFails
  <2>1. UNCHANGED <<held, share, orders>>
    BY <1>7 DEF ReadFails, world
  <2>2. CASE Rests
    BY <2>1, <2>2, WatchPassEnds
  <2>3. ASSUME watch.at = "structures", NEW f \in watch.todo, watch' = [watch EXCEPT !.todo = @ \ {f}]
        PROVE  WatchInv'
    BY <2>1, <2>3, LessToDo
  <2> QED BY <1>7, <2>2, <2>3 DEF ReadFails
<1>8. CASE WatchRestarts
  BY <1>8, WatchPassEnds DEF WatchRestarts, world
<1>9. CASE Tick
  BY <1>0, <1>9, NothingTouched DEF Tick, world
<1>10. CASE SessionOrders
  BY <1>10, SessionKeeps
<1>11. CASE Moves
  <2>1. share' \in Nat
    BY <1>0, <1>11, TakeProfitAssumption DEF Moves
  <2> QED BY <1>11, <2>1, NothingTouched DEF Moves
<1>12. CASE DayEnds
  BY <1>0, <1>12, NothingTouched DEF DayEnds
<1>13. ASSUME NEW i \in Places, Fills(i) PROVE WatchInv'
  BY <1>13, FillsKeeps
<1>14. ASSUME NEW i \in Places, Ends(i) PROVE WatchInv'
  BY <1>14, EndsKeeps
<1>15. ASSUME NEW f \in Families, SendFails(f) PROVE WatchInv'
  <2>1. /\ UNCHANGED <<held, share>> /\ watch.at = "send" /\ f \in watch.now
        /\ watch' = [watch EXCEPT !.at = "structures", !.now = {}]
    BY <1>15 DEF SendFails, world
  <2>2. CASE UNCHANGED orders
    BY <2>1, <2>2, NotTaken
  <2>3. CASE Room /\ Add(CloseStructure(watch.book, f), TRUE, watch.still)
    BY <2>1, <2>3, CloseAdded
  <2> QED BY <1>15, <2>2, <2>3 DEF SendFails
<1>16. CASE UNCHANGED watchVars
  BY <1>0, <1>16, NothingTouched DEF watchVars, world
<1>17. CASE WatchNext
  BY <1>1, <1>2, <1>3, <1>4, <1>5, <1>6, <1>7, <1>8, <1>9, <1>10, <1>11, <1>12, <1>13, <1>14,
     <1>15, <1>17 DEF WatchNext, WatchSteps, World
<1> QED BY <1>16, <1>17

\* takeprofit/step.go, Step: while what a pass read of positions and orders is still so, the
\* orders the watch has in play close just what is held, no two of them the same contract, and
\* what the pass has yet to send is touched by none - through failed reads, refused and lost
\* sends, restarts, the session's own orders and a listing that leaves orders out.
THEOREM WatchKept == WatchSpec => []WatchInv
<1>1. WatchInit => WatchInv
  BY WatchFirst
<1>2. WatchInv /\ [WatchNext]_watchVars => WatchInv'
  BY WatchNextKeeps
<1> QED BY <1>1, <1>2, PTL DEF WatchSpec

\* takeprofit.go, "It can only make the book smaller": an order of the watch, sent on what was
\* so and with its book left to it, takes every contract of it to nothing when it fills, and
\* turns none round, for any contracts, listing, ratio of legs and number of failures.
THEOREM WatchOnlyShrinks == WatchSpec => OnlyShrinks
<1> DEFINE shrinks == \A i \in Places :
             (orders[i].byWatch /\ orders[i].alone /\ Fills(i)) => Smaller(orders[i].change)
<1>1. WatchInv /\ [WatchNext]_watchVars => [shrinks]_watchVars
  <2> SUFFICES ASSUME WatchInv, NEW i \in Places, orders[i].byWatch, orders[i].alone, Fills(i),
                      NEW c \in Contracts, orders[i].change[c] # 0
               PROVE  \/ held[c] > 0 /\ held'[c] \in 0..held[c]
                      \/ held[c] < 0 /\ held'[c] \in held[c]..0
    BY DEF Smaller
  <2>1. Sound(i) /\ c \in Touches(orders[i].change)
    BY DEF Sound, Fills, Touches
  <2>2. held[c] = -orders[i].change[c]
    BY <2>1 DEF WatchInv, ClosesWhatIsHeld
  <2>3. orders[i].change[c] \in Int /\ held[c] \in Int
    <3>1. orders[i] \in Order /\ held \in Accounts
      BY DEF WatchInv, WatchTypeOK, Places
    <3> QED BY <3>1 DEF Order, Accounts
  <2>4. held'[c] = held[c] + orders[i].change[c]
    BY DEF Fills
  <2>5. held'[c] = 0 /\ held[c] # 0
    BY <2>2, <2>3, <2>4
  <2> QED BY <2>3, <2>5
<1> HIDE DEF shrinks
<1>2. WatchSpec => [][shrinks]_watchVars
  BY <1>1, WatchKept, PTL DEF WatchSpec
<1> QED BY <1>2 DEF OnlyShrinks, shrinks
=============================================================================
