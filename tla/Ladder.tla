------------------------------- MODULE Ladder -------------------------------
(***************************************************************************)
(* The execution ladder of golang/internal/execution/execution.go: once an *)
(* interval it reads the working orders, cancels those a limit refuses or  *)
(* whose patience is over, and concedes a step of price on the rest.       *)
(*                                                                         *)
(* The broker and the market run beside it.  A replacement is a new order  *)
(* under a new id, with a submission time of its own; what this module     *)
(* calls an order is the whole chain of replacements, and `submitted` and  *)
(* `placed` are those of the id the broker shows now.  A price is a number *)
(* of cents, larger is worse for the account, as the broker states it.     *)
(***************************************************************************)
EXTENDS Integers, FiniteSets, FiniteSetsExt, Functions

CONSTANTS
  Orders,        \* the orders the session may send
  Closing,       \* those every leg of which declares itself closing
  NoFloorLoss,   \* those left net short calls, whose loss has no floor
  Sets,          \* how many sets each order is for
  PerSet,        \* what a set of it loses at worst, at the worst price named
  Ask,           \* the price it is placed at
  Named,         \* the orders whose name states a worst price
  Floor,         \* that price
  Prices,        \* the prices the book may show
  AlreadyHeld,   \* what the positions risk before any of these orders
  Books,         \* what the whole book may lose: the answers of Ladder.Book
  Ceilings,      \* what one position may lose: the answers of Ladder.Ceiling
  Fuses,         \* the answers of Ladder.Fuse, a set of Booleans
  Every, Patience, Step, Stride,
  PassLimit,     \* bound: how long a pass may last
  MaxTime,       \* bound: the last moment
  MayMiss,       \* the bounded listing may leave a working order out
  BrokerErrors,  \* a call to the broker may fail, or its answer be lost
  MaxRestarts    \* bound: restarts

NoOrder == "none"
Unread  == -1      \* a limit that could not be read, or is not checked
Never   == -1      \* no time
Time    == 0..MaxTime

\* The configuration refuses a patience shorter than an interval (parseExecution in
\* golang/internal/config/config.go).
ASSUME LadderAssumption ==
  /\ IsFiniteSet(Orders)
  /\ Closing \subseteq Orders /\ NoFloorLoss \subseteq Orders
  /\ Sets \in [Orders -> Nat \ {0}] /\ PerSet \in [Orders -> Nat \ {0}]
  /\ Named \subseteq Orders
  /\ Ask \in [Orders -> Int] /\ Floor \in [Orders -> Int]
  /\ Prices \subseteq Int
  /\ AlreadyHeld \in Nat /\ Books \subseteq Nat /\ Ceilings \subseteq Nat
  /\ Fuses \subseteq BOOLEAN /\ Fuses # {}
  /\ Every \in Nat \ {0} /\ Patience \in Nat \ {0} /\ Every <= Patience
  /\ Step \in Nat \ {0}
  /\ Stride \in {"tick", "arrive"}
  /\ PassLimit \in Nat /\ MaxTime \in Nat /\ MaxRestarts \in Nat
  /\ MayMiss \in BOOLEAN /\ BrokerErrors \in BOOLEAN

VARIABLES
  now, nextTick, tick,        \* the clock, and the ticker with its one slot
  status, limit, rest, submitted,            \* the broker's side of each order
  placed, movedOn, passes,                   \* Ladder.ages and Ladder.passes
  pc, tnow, shown, todo, cur,                \* the pass: its step, its moment,
                                             \* its listing, what is left of it
  book, atRisk, full, ceiling, fused,        \* the limits read for the pass
  untold,                     \* cancelled in this pass, to be told of at its end
  \* Observed by the properties only: when the session sent each order; the
  \* orders a pass after their patience could not act on, or whose age was lost;
  \* those the last pass did not walk toward their worst price; why each was
  \* cancelled; and those whose fills the pass does not account for.
  sentAt, spared, hindered, why, aside, restarts

clockVars  == <<now, nextTick, tick>>
brokerVars == <<status, limit, rest, submitted>>
ageVars    == <<placed, movedOn, passes>>
limitVars  == <<book, atRisk, full, ceiling, fused>>
passVars   == <<pc, tnow, shown, todo, cur, limitVars, untold>>
history    == <<sentAt, spared, hindered, why, aside, restarts>>
vars == <<clockVars, brokerVars, ageVars, passVars, history>>

Statuses == {"unsent", "working", "filled", "cancelled"}
Checks   == {"fuse", "unbounded", "tooBig", "overBook"}
Shown    == [limit : Int, rest : Nat, submitted : Time]

ClockTypes ==
  /\ now \in Time /\ nextTick \in Nat /\ tick \in BOOLEAN /\ tnow \in Time
  /\ restarts \in Nat

BrokerTypes ==
  /\ status \in [Orders -> Statuses]
  /\ limit \in [Orders -> Int]
  /\ rest \in [Orders -> Nat]
  /\ submitted \in [Orders -> Time \cup {Never}]

AgeTypes ==
  /\ placed \in [Orders -> Time \cup {Never}]
  /\ movedOn \in [Orders -> 0..passes]
  /\ passes \in Nat

PassTypes ==
  /\ pc \in {"idle", "orders", "limits", "next", "price", "tell"} \cup Checks
  /\ DOMAIN shown \subseteq Orders
  /\ \A o \in DOMAIN shown : shown[o] \in Shown /\ shown[o].rest > 0
  /\ todo \subseteq DOMAIN shown
  /\ pc \in Checks \cup {"price"} => cur \in DOMAIN shown \ todo
  /\ untold \subseteq Orders /\ aside \subseteq Orders

HistoryTypes ==
  /\ sentAt \in [Orders -> Time \cup {Never}]
  /\ spared \subseteq Orders /\ hindered \subseteq Orders
  /\ why \in [Orders -> {"", "session", "unconfirmed", "patience"} \cup Checks]

LimitTypes ==
  /\ book \in Books \cup {Unread} /\ atRisk \in Int /\ full \in BOOLEAN
  /\ ceiling \in Ceilings \cup {Unread} /\ fused \in BOOLEAN

OrderTypes == ClockTypes /\ BrokerTypes /\ AgeTypes /\ PassTypes /\ HistoryTypes

TypeOK == OrderTypes /\ LimitTypes

Working(o) == status[o] = "working"
Opening    == Orders \ Closing
Filled(o)  == Sets[o] - rest[o]
Filling    == [o \in Orders |-> Filled(o) * PerSet[o]]

\* AtRisk over the positions: what was held, and what the fills added or gave
\* back.  Each order is a series of its own, filled at the worst price it names.
Held == AlreadyHeld + SumFunctionOnSet(Filling, Opening) - SumFunctionOnSet(Filling, Closing)

Init ==
  /\ now = 0 /\ nextTick = Every /\ tick = FALSE
  /\ status = [o \in Orders |-> "unsent"]
  /\ limit = Ask /\ rest = Sets
  /\ submitted = [o \in Orders |-> Never]
  /\ placed = [o \in Orders |-> Never]
  /\ movedOn = [o \in Orders |-> 0]
  /\ passes = 0
  /\ pc = "idle" /\ tnow = 0 /\ shown = <<>> /\ todo = {} /\ cur = NoOrder
  /\ book = Unread /\ atRisk = 0 /\ full = FALSE /\ ceiling = Unread /\ fused = FALSE
  /\ untold = {}
  /\ sentAt = [o \in Orders |-> Never]
  /\ spared = {} /\ hindered = {}
  /\ why = [o \in Orders |-> ""]
  /\ aside = {} /\ restarts = 0

-----------------------------------------------------------------------------
(* The clock, the session and the market.                                  *)

\* Time.  A ticker drops a tick nobody took; a waiting pass starts at once.
Advance ==
  /\ now < MaxTime
  /\ IF pc = "idle" THEN ~tick ELSE now - tnow < PassLimit
  /\ now' = now + 1
  /\ IF now' = nextTick THEN nextTick' = nextTick + Every /\ tick' = TRUE
                        ELSE UNCHANGED <<nextTick, tick>>
  /\ UNCHANGED <<brokerVars, ageVars, passVars, history>>

\* The session sends an order, under a name that may state its worst price.
Send(o) ==
  /\ status[o] = "unsent"
  /\ status' = [status EXCEPT ![o] = "working"]
  /\ submitted' = [submitted EXCEPT ![o] = now]
  /\ sentAt' = [sentAt EXCEPT ![o] = now]
  /\ UNCHANGED <<clockVars, limit, rest, ageVars, passVars,
                 spared, hindered, why, aside, restarts>>

SessionCancels(o) ==
  /\ Working(o)
  /\ status' = [status EXCEPT ![o] = "cancelled"]
  /\ why' = [why EXCEPT ![o] = "session"]
  /\ UNCHANGED <<clockVars, limit, rest, submitted, ageVars, passVars,
                 sentAt, spared, hindered, aside, restarts>>

\* One set of a working order fills.
Fill(o) ==
  /\ Working(o)
  /\ rest' = [rest EXCEPT ![o] = @ - 1]
  /\ status' = [status EXCEPT ![o] = IF rest[o] = 1 THEN "filled" ELSE @]
  /\ UNCHANGED <<clockVars, limit, submitted, ageVars, passVars, history>>

\* The process stops and starts again: the memory and the pass are gone.
Restart ==
  /\ restarts < MaxRestarts
  /\ restarts' = restarts + 1
  /\ nextTick' = now + Every /\ tick' = FALSE
  /\ placed' = [o \in Orders |-> Never]
  /\ movedOn' = [o \in Orders |-> 0]
  /\ passes' = 0
  /\ pc' = "idle" /\ tnow' = now /\ shown' = <<>> /\ todo' = {} /\ cur' = NoOrder
  /\ book' = Unread /\ atRisk' = 0 /\ full' = FALSE /\ ceiling' = Unread
  /\ fused' = FALSE /\ untold' = {} /\ aside' = {}
  /\ LET working == {o \in Orders : Working(o)}
     IN  /\ spared' = spared \cup working
         /\ hindered' = hindered \cup working
  /\ UNCHANGED <<now, brokerVars, sentAt, why>>

-----------------------------------------------------------------------------
(* A pass: Ladder.step.                                                    *)

\* Orders whose patience was over when the pass began.
Overdue == {o \in Orders : Working(o) /\ tnow - sentAt[o] > Patience}

PassEnds == /\ pc' = "idle" /\ shown' = <<>> /\ todo' = {} /\ cur' = NoOrder
            /\ book' = Unread /\ atRisk' = 0 /\ full' = FALSE
            /\ ceiling' = Unread /\ fused' = FALSE /\ untold' = {} /\ aside' = {}

\* One moment for the whole pass.
PassStarts ==
  /\ pc = "idle" /\ tick
  /\ tick' = FALSE /\ tnow' = now /\ passes' = passes + 1
  /\ pc' = "orders"
  /\ UNCHANGED <<now, nextTick, brokerVars, placed, movedOn, shown, todo, cur,
                 limitVars, untold, sentAt, spared, hindered, why, aside, restarts>>

\* The newest orders, as the broker had them at this moment.
ReadOrders ==
  /\ pc = "orders"
  /\ \E seen \in SUBSET {o \in Orders : Working(o)} :
       /\ MayMiss \/ seen = {o \in Orders : Working(o)}
       /\ shown' = [o \in seen |-> [limit |-> limit[o], rest |-> rest[o],
                                    submitted |-> submitted[o]]]
       /\ todo' = seen
       /\ spared' = spared \cup (Overdue \ seen)
       /\ hindered' = hindered \cup ({o \in Orders : Working(o)} \ seen)
       /\ aside' = {o \in Orders \ seen : status[o] \in {"unsent", "working"}}
  /\ pc' = "limits"
  /\ UNCHANGED <<clockVars, brokerVars, ageVars, tnow, cur, limitVars, untold,
                 sentAt, why, restarts>>

OrdersUnreadable ==
  /\ pc = "orders" /\ BrokerErrors
  /\ PassEnds
  /\ spared' = spared \cup Overdue
  /\ hindered' = hindered \cup {o \in Orders : Working(o)}
  /\ UNCHANGED <<clockVars, brokerVars, ageVars, tnow, sentAt, why, restarts>>

\* Mutant of Forgotten: an order is dropped because one listing lacks it.
ForgottenByAbsence(o) == o \notin DOMAIN shown

\* forgetWhatIsDone: age only reaps what the listing does not show as working.
Forgotten(o) ==
  \/ ~Working(o) /\ o \notin DOMAIN shown
  \/ o \notin DOMAIN shown /\ placed[o] < tnow - (Patience + Every)

\* What one position and the whole book may lose, what the positions risk, and
\* whether the day is over, each read once for the pass and each possibly not
\* readable; then the ages of the orders that are done are dropped.
ReadLimits ==
  /\ pc = "limits"
  /\ \E c \in Ceilings \cup {Unread} : ceiling' = c
  /\ \E b \in Books \cup {Unread} :
       /\ book' = b
       /\ atRisk' = IF b = Unread THEN 0 ELSE Held
       /\ full' \in IF b = Unread THEN {FALSE} ELSE BOOLEAN
  /\ fused' \in Fuses \cup {FALSE}
  /\ placed' = [o \in Orders |-> IF Forgotten(o) THEN Never ELSE placed[o]]
  /\ movedOn' = [o \in Orders |-> IF Forgotten(o) THEN 0 ELSE movedOn[o]]
  /\ pc' = "next"
  /\ UNCHANGED <<clockVars, brokerVars, passes, tnow, shown, todo, cur, untold, history>>

-----------------------------------------------------------------------------
(* The limits an opening order is held to.                                 *)

\* WorstCase: what is still resting, at the worst price named.
Worst(o) == shown[o].rest * PerSet[o]

\* A breach of less than one set is forgiven while there is a set to give up.
Forgiven(o, over) == shown[o].rest > 1 /\ over < PerSet[o]

TooBig(o) == Worst(o) > ceiling /\ ~Forgiven(o, Worst(o) - ceiling)

OverBook(o) ==
  LET over == atRisk + Worst(o) - book
  IN  full \/ (over > 0 /\ ~Forgiven(o, over))

\* The check that refuses an order, or the pricing of one nothing refuses.  The
\* closing order is exempt: it gives exposure back.
AfterTooBig(o) ==
  IF o \in Opening /\ book # Unread /\ OverBook(o) THEN "overBook" ELSE "price"
AfterUnbounded(o) ==
  IF o \in Opening /\ ceiling # Unread /\ TooBig(o) THEN "tooBig" ELSE AfterTooBig(o)
AfterFuse(o) ==
  IF o \in Opening /\ o \in NoFloorLoss THEN "unbounded" ELSE AfterUnbounded(o)
FirstCheck(o) ==
  IF o \in Opening /\ fused THEN "fuse" ELSE AfterFuse(o)

\* The next order of the listing.
NextOrder ==
  /\ pc = "next"
  /\ \E o \in todo :
       /\ todo' = todo \ {o}
       /\ cur' = o
       /\ pc' = FirstCheck(o)
  /\ UNCHANGED <<clockVars, brokerVars, ageVars, tnow, shown, limitVars, untold, history>>

\* A cancellation the broker confirms.  A fuse that blew is told of at the end
\* of the pass, the other three at once.
Refuse ==
  /\ pc \in Checks /\ Working(cur)
  /\ status' = [status EXCEPT ![cur] = "cancelled"]
  /\ why' = [why EXCEPT ![cur] = pc]
  /\ untold' = IF pc = "fuse" THEN untold \cup {cur} ELSE untold
  /\ aside' = aside \cup {cur}
  /\ placed' = [placed EXCEPT ![cur] = IF pc = "fuse" THEN Never ELSE @]
  /\ movedOn' = [movedOn EXCEPT ![cur] = IF pc = "fuse" THEN 0 ELSE @]
  /\ pc' = "next"
  /\ UNCHANGED <<clockVars, limit, rest, submitted, passes, tnow, shown, todo, cur,
                 limitVars, sentAt, spared, hindered, restarts>>

\* One that is not confirmed: the order is over already, the broker failed, or
\* it did cancel and the answer was lost.  The fuse and the book leave such an
\* order for the next pass; the other two go on to price it.
CancelFails(o) ==
  /\ ~Working(o) \/ BrokerErrors
  /\ status' \in {status} \cup
       (IF Working(o) THEN {[status EXCEPT ![o] = "cancelled"]} ELSE {})
  /\ why' = [why EXCEPT ![o] = IF status'[o] # status[o] THEN "unconfirmed" ELSE @]
  /\ spared' = spared \cup (Overdue \cap {o})
  /\ hindered' = hindered \cup {o}

RefuseFails ==
  /\ pc \in Checks
  /\ CancelFails(cur)
  /\ pc' = CASE pc = "unbounded" -> AfterUnbounded(cur)
             [] pc = "tooBig"    -> AfterTooBig(cur)
             [] OTHER            -> "next"
  /\ aside' = IF pc' = "next" THEN aside \cup {cur} ELSE aside
  /\ UNCHANGED <<clockVars, limit, rest, submitted, ageVars, tnow, shown, todo, cur,
                 limitVars, untold, sentAt, restarts>>

-----------------------------------------------------------------------------
(* Patience and price.                                                     *)

\* lifeOf: the memory of the chain, or the order taken at the broker's word.
LifeOf(o) == IF placed[o] # Never THEN placed[o] ELSE shown[o].submitted
Age(o)    == tnow - LifeOf(o)

\* Only an order never moved has to rest an interval first.
Rested(o) == movedOn[o] # passes /\ (movedOn[o] = 0 => Age(o) >= Every)

\* Mutant of Counted: the order is left out.
Uncounted(o) == atRisk

\* Orders in one pass add up.
Counted(o) == atRisk + Worst(o)
NextAtRisk(o) == IF o \in Opening /\ book # Unread THEN Counted(o) ELSE atRisk

\* The order has not rested its interval yet.
TooFresh ==
  /\ pc = "price" /\ ~Rested(cur)
  /\ placed' = [placed EXCEPT ![cur] = LifeOf(cur)]
  /\ atRisk' = NextAtRisk(cur)
  /\ pc' = "next"
  /\ UNCHANGED <<clockVars, brokerVars, movedOn, passes, tnow, shown, todo, cur,
                 book, full, ceiling, fused, untold, history>>

OutOfPatience(o) == Rested(o) /\ Age(o) > Patience

PatienceCancels ==
  /\ pc = "price" /\ OutOfPatience(cur) /\ Working(cur)
  /\ status' = [status EXCEPT ![cur] = "cancelled"]
  /\ why' = [why EXCEPT ![cur] = "patience"]
  /\ placed' = [placed EXCEPT ![cur] = Never]
  /\ movedOn' = [movedOn EXCEPT ![cur] = 0]
  /\ untold' = untold \cup {cur}
  /\ atRisk' = NextAtRisk(cur)
  /\ pc' = "next"
  /\ UNCHANGED <<clockVars, limit, rest, submitted, passes, tnow, shown, todo, cur,
                 book, full, ceiling, fused, sentAt, spared, hindered, aside,
                 restarts>>

PatienceCancelFails ==
  /\ pc = "price" /\ OutOfPatience(cur)
  /\ CancelFails(cur)
  /\ placed' = [placed EXCEPT ![cur] = LifeOf(cur)]
  /\ atRisk' = NextAtRisk(cur)
  /\ pc' = "next"
  /\ UNCHANGED <<clockVars, limit, rest, submitted, movedOn, passes, tnow, shown, todo,
                 cur, book, full, ceiling, fused, untold, sentAt, aside, restarts>>

\* Mutants of Target and of StepsLeft: the book alone is walked to; the steps are
\* counted one too many.
PastTheFloor(o, showing) == showing
OneStepMore(o) ==
  LET left == (Patience - Age(o)) \div Every IN IF left < 1 THEN 2 ELSE left + 1

\* The price the order walks toward: the book, and never past the floor.
Target(o, showing) == IF showing > Floor[o] THEN Floor[o] ELSE showing

StepsLeft(o) ==
  LET left == (Patience - Age(o)) \div Every IN IF left < 1 THEN 1 ELSE left

\* The whole cents a quotient rounds to: two of them at a half, which a float
\* may stand on either side of.
Rounded(d, n) == {r \in 0..d : 2 * r * n - n <= 2 * d /\ 2 * d <= 2 * r * n + n}

\* stride, then Toward: one step in the direction of target, never past it.
NextPrice(o, target) ==
  LET was  == shown[o].limit
      d    == IF target > was THEN target - was ELSE was - target
      far  == Stride = "arrive" /\ d > Step * StepsLeft(o)
      move == IF far THEN Rounded(d, StepsLeft(o)) ELSE {IF Step < d THEN Step ELSE d}
  IN  {IF target > was THEN was + m ELSE was - m : m \in move}

\* The order is left alone: a leg has no two-sided quote, none could be read, the
\* book stands better, no worst price is named, the worst price pays too little
\* (refusesTheFloor), or the order already stands where it walks to.
WalkLeavesAlone ==
  /\ pc = "price" /\ Rested(cur) /\ ~OutOfPatience(cur)
  /\ placed' = [placed EXCEPT ![cur] = LifeOf(cur)]
  /\ atRisk' = NextAtRisk(cur)
  /\ hindered' = IF cur \in Named /\ shown[cur].limit = Floor[cur]
                   THEN hindered ELSE hindered \cup {cur}
  /\ pc' = "next"
  /\ UNCHANGED <<clockVars, brokerVars, movedOn, passes, tnow, shown, todo, cur,
                 book, full, ceiling, fused, untold, sentAt, spared, why, aside,
                 restarts>>

\* The prices a replacement may be asked for at: the ladder only concedes, and
\* only where the session named how far.
Concessions(o, showing) ==
  IF o \in Named /\ showing > shown[o].limit
    THEN NextPrice(o, Target(o, showing)) \ {shown[o].limit}
    ELSE {}

\* carried: the chain's age goes over to the replacement's id.
Walk ==
  /\ pc = "price" /\ Rested(cur) /\ ~OutOfPatience(cur) /\ Working(cur)
  /\ \E showing \in Prices : \E price \in Concessions(cur, showing) :
       /\ limit' = [limit EXCEPT ![cur] = price]
       /\ hindered' = IF showing < Floor[cur] THEN hindered \cup {cur}
                                                ELSE hindered \ {cur}
  /\ submitted' = [submitted EXCEPT ![cur] = now]
  /\ placed' = [placed EXCEPT ![cur] = LifeOf(cur)]
  /\ movedOn' = [movedOn EXCEPT ![cur] = passes]
  /\ atRisk' = NextAtRisk(cur)
  /\ pc' = "next"
  /\ UNCHANGED <<clockVars, status, rest, passes, tnow, shown, todo, cur,
                 book, full, ceiling, fused, untold, sentAt, spared, why, aside,
                 restarts>>

\* A replacement that is refused or fails; the order keeps its price.
WalkFails ==
  /\ pc = "price" /\ Rested(cur) /\ ~OutOfPatience(cur)
  /\ ~Working(cur) \/ BrokerErrors
  /\ \E showing \in Prices : Concessions(cur, showing) # {}
  /\ placed' = [placed EXCEPT ![cur] = LifeOf(cur)]
  /\ atRisk' = NextAtRisk(cur)
  /\ hindered' = hindered \cup {cur}
  /\ pc' = "next"
  /\ UNCHANGED <<clockVars, brokerVars, movedOn, passes, tnow, shown, todo, cur,
                 book, full, ceiling, fused, untold, sentAt, spared, why, aside,
                 restarts>>

\* The broker replaced the order and its answer was lost or named no id: there
\* is nothing to carry the chain's age onto.
WalkAnswerLost ==
  /\ pc = "price" /\ Rested(cur) /\ ~OutOfPatience(cur)
  /\ Working(cur) /\ BrokerErrors
  /\ \E showing \in Prices : \E price \in Concessions(cur, showing) :
       limit' = [limit EXCEPT ![cur] = price]
  /\ submitted' = [submitted EXCEPT ![cur] = now]
  /\ placed' = [placed EXCEPT ![cur] = Never]
  /\ movedOn' = [movedOn EXCEPT ![cur] = 0]
  /\ atRisk' = NextAtRisk(cur)
  /\ spared' = spared \cup {cur}
  /\ hindered' = hindered \cup {cur}
  /\ pc' = "next"
  /\ UNCHANGED <<clockVars, status, rest, passes, tnow, shown, todo, cur,
                 book, full, ceiling, fused, untold, sentAt, why, aside, restarts>>

\* The listing is through.
AllJudged ==
  /\ pc = "next" /\ todo = {}
  /\ pc' = "tell"
  /\ UNCHANGED <<clockVars, brokerVars, ageVars, tnow, shown, todo, cur, limitVars,
                 untold, history>>

\* One pass, one telling of what was cancelled in it; then the ticker again.
Tell ==
  /\ pc = "tell"
  /\ PassEnds
  /\ UNCHANGED <<clockVars, brokerVars, ageVars, tnow, sentAt, spared, hindered,
                 why, restarts>>

Finished == now = MaxTime /\ pc = "idle" /\ ~tick /\ UNCHANGED vars

Next ==
  \/ Advance
  \/ \E o \in Orders : Send(o) \/ SessionCancels(o) \/ Fill(o)
  \/ Restart
  \/ PassStarts \/ ReadOrders \/ OrdersUnreadable \/ ReadLimits
  \/ NextOrder \/ Refuse \/ RefuseFails
  \/ TooFresh \/ PatienceCancels \/ PatienceCancelFails
  \/ WalkLeavesAlone \/ Walk \/ WalkFails \/ WalkAnswerLost
  \/ AllJudged \/ Tell
  \/ Finished

Spec == Init /\ [][Next]_vars

-----------------------------------------------------------------------------
(* Properties.                                                             *)

\* The worst price the session named is never passed, however the book moves,
\* answers are lost and the ladder restarts; an order that names none keeps the
\* price it was placed at.  (walk, Toward, stride)
FloorIsKept ==
  \A o \in Orders :
    IF o \in Named THEN limit[o] <= Max({Ask[o], Floor[o]}) ELSE limit[o] = Ask[o]

\* The longest there may be from the moment of one pass to the next: a pass that outlasts
\* the interval is followed by the next at once.
Longest == IF Every > PassLimit THEN Every ELSE PassLimit

\* An order does not outlive its patience by more than an interval and a pass:
\* not by stepping, which gives it a new id and a new submission time, and not
\* by being absent from a listing.  Only a pass after patience that could not
\* see or cancel it, a restart or a lost replacement spares it.  (lifeOf,
\* carried, forgetWhatIsDone)
PatienceEnds ==
  \A o \in Orders \ spared :
    Working(o) => now - sentAt[o] <= Patience + Longest + PassLimit

\* With the stride that arrives, patience ends an order only at its worst price,
\* unless the last pass before that could not walk it there: what hindered the
\* passes before is made up for.  (stride)
PatienceEndsAtTheFloor ==
  \A o \in Orders \ hindered : why[o] = "patience" => limit[o] = Floor[o]

\* The opening orders a pass lets stand, with all that is held beside them,
\* stay within what the book may lose and a set: each is judged after the ones
\* before it, whatever fills while the pass runs.  (atRisk in step)
BookHolds ==
  LET stand == {o \in (DOMAIN shown \cap Opening) \ aside : Working(o)}
      held  == AlreadyHeld + SumFunctionOnSet(Filling, Opening \ aside)
                           - SumFunctionOnSet(Filling, Closing)
      adds  == SumFunctionOnSet([o \in Orders |-> rest[o] * PerSet[o]], stand)
  IN  pc = "tell" /\ book # Unread /\ stand # {}
        => held + adds < book + Max({PerSet[o] : o \in Opening})

-----------------------------------------------------------------------------
(* What the properties rest on.                                            *)

\* The orders of the listing that the pass has still to judge.
ToJudge == todo \cup (IF pc \in Checks \cup {"price"} THEN {cur} ELSE {})

\* Passes begin no further apart than they may, and none lasts longer than it may.
KeepsTime ==
  /\ tnow <= now /\ now < nextTick /\ nextTick <= now + Every
  /\ ~tick => nextTick <= tnow + Every
  /\ now - tnow <= IF pc = "idle" THEN Longest ELSE PassLimit

\* What the pass has still to judge stands as it was read, and was not moved in this pass.
AsRead ==
  /\ pc \in {"idle", "orders"} => DOMAIN shown = {}
  /\ pc \in {"orders", "limits"} => \A o \in Orders : movedOn[o] < passes
  /\ pc = "tell" => todo = {}
  /\ \A o \in DOMAIN shown : status[o] # "unsent"
  /\ \A o \in ToJudge : /\ movedOn[o] < passes /\ shown[o].limit = limit[o]
                        /\ shown[o].submitted = submitted[o]
  /\ \A o \in Orders : /\ status[o] \in {"unsent", "working"} => rest[o] > 0
                       /\ status[o] = "unsent" => placed[o] = Never
                       /\ status[o] = "working" => submitted[o] # Never

\* The life of an order that nothing spared is counted from when the session sent it.
ChainKept ==
  \A o \in Orders \ spared : Working(o) =>
    /\ 0 <= sentAt[o] /\ sentAt[o] <= now
    /\ placed[o] \in {Never, sentAt[o]}
    /\ placed[o] = Never => submitted[o] = sentAt[o]

\* Whoever was over its patience when the pass began is still to be judged by it.
NoneOverlooked ==
  \A o \in Orders \ spared : Working(o) =>
    /\ tnow - sentAt[o] <= IF pc = "idle" THEN Patience ELSE Patience + Longest
    /\ pc \notin {"idle", "orders"} /\ tnow - sentAt[o] > Patience => o \in ToJudge

PatienceInv ==
  /\ OrderTypes /\ FloorIsKept /\ KeepsTime /\ AsRead /\ ChainKept /\ NoneOverlooked

\* The moment from which the age of an order is counted.
Life(o) == IF placed[o] # Never THEN placed[o] ELSE submitted[o]

\* An order nothing hindered stands at its worst price when the pass that finds its patience
\* over judges it; once judged it stands there one pass before.
OnItsWay(o) ==
  \/ limit[o] = Floor[o]
  \/ tnow - Life(o) <= IF pc = "orders" \/ o \in ToJudge THEN Patience ELSE Patience - Every

ArrivesInv ==
  /\ PatienceEndsAtTheFloor
  /\ \A o \in Orders : why[o] = "patience" => status[o] = "cancelled"
  /\ \A o \in Orders \ hindered : Working(o) =>
       /\ OnItsWay(o)
       /\ pc = "limits" /\ o \notin DOMAIN shown => placed[o] = Never

\* What the listing shows of an order is more than what is left of it, and one that may still
\* fill without being in the listing is set aside.
RestFalls ==
  /\ \A o \in Orders : rest[o] <= Sets[o]
  /\ \A o \in DOMAIN shown : rest[o] <= shown[o].rest /\ shown[o].rest <= Sets[o]
  /\ pc \notin {"idle", "orders"} =>
       \A o \in Orders \ DOMAIN shown : status[o] \in {"unsent", "working"} => o \in aside
  /\ pc = "limits" => todo = DOMAIN shown

\* What the pass answers for with an order: what was filled when the listing was read, until
\* the order is judged; then all of it, while it works.
Answered ==
  [o \in Orders |-> PerSet[o] * CASE o \in ToJudge -> Sets[o] - shown[o].rest
                                  [] Working(o) /\ o \notin ToJudge -> Sets[o]
                                  [] OTHER -> Filled(o)]

\* The orders of the listing that were judged and let stand.
Passed == (DOMAIN shown \cap Opening) \ (aside \cup ToJudge)

Largest == Max({PerSet[o] : o \in Opening})

\* The number the pass carries covers what it answers for; it stays below the book and a set
\* once an opening order was let stand, and the order to be priced next keeps it there.
Covered ==
  AlreadyHeld + SumFunctionOnSet(Answered, Opening \ aside) - SumFunctionOnSet(Filling, Closing)
    <= atRisk
StaysBelow == Passed # {} => atRisk < book + Largest
NextFits   == pc = "price" /\ cur \in Opening => atRisk + Worst(cur) < book + Largest

CountCovers == Covered /\ StaysBelow /\ NextFits

BookInv ==
  /\ PatienceInv /\ LimitTypes /\ RestFalls
  /\ pc \notin {"idle", "orders", "limits"} /\ book # Unread => CountCovers

=============================================================================
