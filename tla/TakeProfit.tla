------------------------------ MODULE TakeProfit ------------------------------
(***************************************************************************)
(* Closing what has given back enough of its credit:                       *)
(* src/golang/internal/takeprofit.  The watch reads the positions, then    *)
(* the orders, then the prices of one structure after another, and sends   *)
(* an order that buys the structure back; the account meanwhile belongs to *)
(* the session too, and to the market.                                     *)
(*                                                                         *)
(* The broker here fills what it was sent, whatever that does to the book: *)
(* that an order may only close is marketdata.CloseStructure's word to a   *)
(* broker that keeps it, and the simulated broker of testbed/proxy does    *)
(* not look at it.                                                         *)
(***************************************************************************)
EXTENDS Integers, Sequences, FiniteSets, FiniteSetsExt, SequencesExt

CONSTANTS
  Contracts,  \* the option contracts
  Family,     \* [Contracts -> an underlying, expiration and type]
  Entry,      \* [Contracts -> what one was entered at, in cents]
  AtFirst,    \* what is held at first
  Trades,     \* what the session may order: changes of what is held
  Markets,    \* [Contracts -> [bid, ask]], the books there may be
  Shares,     \* what the declaration may say, in percent; 0 is unreadable
  Standing,   \* how many ticks a sent order is remembered
  Listed,     \* how many of the newest orders the broker lists
  MaxOrders,  \* bound: orders the broker keeps
  MaxTrades,  \* bound: orders of the session
  MaxFaults   \* bound: calls that fail, and restarts

Accounts    == [Contracts -> Int]
Families == {Family[c] : c \in Contracts}

ASSUME TakeProfitAssumption ==
  /\ AtFirst \in Accounts /\ Trades \subseteq Accounts
  /\ Entry \in [Contracts -> Nat]
  /\ Shares \subseteq Nat
  /\ {Standing, Listed, MaxOrders} \subseteq Nat \ {0}
  /\ {MaxTrades, MaxFaults} \subseteq Nat

VARIABLES
  held, market, share, expired,  \* the account, the market, the declaration, the day
  orders,                        \* Seq of orders, the newest last
  sent,                          \* [Families -> ticks a sent order is still remembered]
  watch,                         \* where the pass stands and what it has read
  traded, faults                 \* the bounds

world == <<held, market, share, expired>>
watchVars  == <<world, orders, sent, watch, traded, faults>>

Abs(n) == IF n < 0 THEN -n ELSE n

\* A pass that has not begun has read nothing.
Resting == [at |-> "rest", book |-> AtFirst, walking |-> {}, share |-> 0, todo |-> {},
            now |-> {}, still |-> TRUE]

WatchInit ==
  /\ held = AtFirst /\ market \in Markets /\ share \in Shares /\ expired = FALSE
  /\ orders = <<>>
  /\ sent = [f \in Families |-> 0]
  /\ watch = Resting
  /\ traded = 0 /\ faults = 0

Places == 1..Len(orders)

------------------------------------------------------------------------------
(* What the watch works out.                                               *)

Legs(book, f) == {c \in Contracts : Family[c] = f /\ book[c] # 0}

\* The largest number of sets the held quantities all divide by.
SetsIn(book, f) ==
  Max({n \in 1..Max({Abs(book[c]) : c \in Legs(book, f)}) :
         \A c \in Legs(book, f) : book[c] % n = 0})

Ratio(book, f, c) == Abs(book[c]) \div SetsIn(book, f)

\* One leg sold, one bought, and as many of the one as of the other.
OneForOne(book, f) ==
  /\ Cardinality(Legs(book, f)) = 2
  /\ \E c, d \in Legs(book, f) : book[c] < 0 /\ book[d] = -book[c]

Structures(book) == {f \in Families : Legs(book, f) # {} /\ OneForOne(book, f)}

\* What a set brought in, and what buying it back costs at the sides an order
\* crosses: a minus is money received.
Signed(book, f, cents) ==
  MapThenSumSet(LAMBDA c : Ratio(book, f, c) * (IF book[c] < 0 THEN cents[c] ELSE -cents[c]),
                Legs(book, f))

Credit(book, f) == Signed(book, f, Entry)

Priced(book, f, quotes) ==
  \A c \in Legs(book, f) : 0 < quotes[c].bid /\ quotes[c].bid <= quotes[c].ask

BuyBack(book, f, quotes) ==
  Signed(book, f, [c \in Contracts |-> IF book[c] < 0 THEN quotes[c].ask ELSE quotes[c].bid])

\* A share that nothing or everything would satisfy is not one.
Readable(percent) == 0 < percent /\ percent <= 100

GivenBack(book, f, quotes, percent) ==
  /\ Priced(book, f, quotes)
  /\ BuyBack(book, f, quotes) >= 0
  /\ 100 * BuyBack(book, f, quotes) <= percent * Credit(book, f)

\* The order that closes every set there is.
CloseStructure(book, f) == [c \in Contracts |-> IF Family[c] = f THEN -book[c] ELSE 0]

Touches(change) == {c \in Contracts : change[c] # 0}

\* Mutant of WalkingIn: an order is known by its own symbol, and one of several legs
\* carries none.
WalkingBySymbol(list) == {}

\* Mutant of WalkingIn: an order that has ended is in play still.
WalkingEver(list) == UNION {Touches(list[i].change) : i \in DOMAIN list}

\* The contracts of the orders in play.
WalkingIn(list) ==
  UNION {Touches(list[i].change) : i \in {j \in DOMAIN list : list[j].active}}

------------------------------------------------------------------------------
(* The broker's list of orders.                                            *)

Newest(list) == SubSeq(list, Max({1, Len(list) - Listed + 1}), Len(list))

\* An order is added; the oldest that has ended and is listed no more is forgotten.
Room == Len(orders) < MaxOrders \/ \E i \in Places : ~orders[i].active

Forget(list) ==
  IF Len(list) < MaxOrders THEN list
  ELSE RemoveAt(list, Min({i \in DOMAIN list : ~list[i].active}))

Add(change, byWatch, alone) ==
  orders' = Append(Forget(orders), [change |-> change, active |-> TRUE,
                                    byWatch |-> byWatch, alone |-> alone])

\* Whether what a pass has read is still so: a note for the properties.
Stirs == watch' = IF watch.at = "rest" THEN watch ELSE [watch EXCEPT !.still = FALSE]

------------------------------------------------------------------------------
(* A pass of the watch.                                                    *)

Rests == watch' = Resting

Fault == faults < MaxFaults /\ faults' = faults + 1

\* A read fails, and the pass - or this structure of it - ends.
ReadFails ==
  /\ Fault
  /\ \/ watch.at \in {"rest", "orders"} /\ Rests
     \/ /\ watch.at = "structures"
        /\ \E f \in watch.todo : watch' = [watch EXCEPT !.todo = @ \ {f}]
  /\ UNCHANGED <<world, orders, sent, traded>>

\* The positions; a book with nothing in it to read ends the pass.
Look ==
  /\ watch.at = "rest" /\ Structures(held) # {}
  /\ watch' = [Resting EXCEPT !.at = "orders", !.book = held, !.todo = Structures(held)]
  /\ UNCHANGED <<world, orders, sent, traded, faults>>

\* The orders, and then the share.
LookAtOrders ==
  /\ watch.at = "orders"
  /\ IF Readable(share)
     THEN watch' = [watch EXCEPT !.at = "structures", !.walking = WalkingIn(Newest(orders)),
                      !.share = share,
                      !.still = @ /\ WalkingIn(orders) = WalkingIn(Newest(orders))]
     ELSE Rests
  /\ UNCHANGED <<world, orders, sent, traded, faults>>

Considered(f) ==
  /\ Credit(watch.book, f) > 0
  /\ ~expired
  /\ sent[f] = 0
  /\ Legs(watch.book, f) \cap watch.walking = {}

\* A structure is left for this pass ...
PassOver(f) ==
  /\ watch.at = "structures" /\ f \in watch.todo
  /\ ~(Considered(f) /\ GivenBack(watch.book, f, market, watch.share))
  /\ watch' = [watch EXCEPT !.todo = @ \ {f}]
  /\ UNCHANGED <<world, orders, sent, traded, faults>>

\* ... or its price has come, and the order is on its way.
Decide(f) ==
  /\ watch.at = "structures" /\ f \in watch.todo
  /\ Considered(f) /\ GivenBack(watch.book, f, market, watch.share)
  /\ watch' = [watch EXCEPT !.at = "send", !.todo = @ \ {f}, !.now = {f}]
  /\ UNCHANGED <<world, orders, sent, traded, faults>>

Sends(f) ==
  /\ watch.at = "send" /\ f \in watch.now /\ Room
  /\ Add(CloseStructure(watch.book, f), TRUE, watch.still)
  /\ sent' = [sent EXCEPT ![f] = Standing]
  /\ watch' = [watch EXCEPT !.at = "structures", !.now = {}]
  /\ UNCHANGED <<world, traded, faults>>

\* The broker refuses the order, or takes it and its answer is lost: nothing is
\* remembered of it either way.
SendFails(f) ==
  /\ watch.at = "send" /\ f \in watch.now /\ Fault
  /\ \/ UNCHANGED orders
     \/ Room /\ Add(CloseStructure(watch.book, f), TRUE, watch.still)
  /\ watch' = [watch EXCEPT !.at = "structures", !.now = {}]
  /\ UNCHANGED <<world, sent, traded>>

EndPass ==
  /\ watch.at = "structures" /\ watch.todo = {}
  /\ Rests
  /\ UNCHANGED <<world, orders, sent, traded, faults>>

WatchRestarts ==
  /\ Fault
  /\ Rests /\ sent' = [f \in Families |-> 0]
  /\ UNCHANGED <<world, orders, traded>>

\* Time goes by for what is remembered.
Tick ==
  /\ \E f \in Families : sent[f] > 0
  /\ sent' = [f \in Families |-> Max({0, sent[f] - 1})]
  /\ UNCHANGED <<world, orders, watch, traded, faults>>

------------------------------------------------------------------------------
(* The account, the market and the session.                                *)

SessionOrders ==
  /\ traded < MaxTrades /\ traded' = traded + 1 /\ Room
  /\ \E t \in Trades : Add(t, FALSE, FALSE)
  /\ Stirs
  /\ UNCHANGED <<world, sent, faults>>

\* An order is filled.  Unless the watch wrote it on a true reading, and nothing came in
\* between, it takes from every other one of its contracts the book that one was written
\* for.
Fills(i) ==
  /\ orders[i].active /\ ~expired
  /\ held' = [c \in Contracts |-> held[c] + orders[i].change[c]]
  /\ orders' = [j \in Places |->
                  IF j = i THEN [orders[j] EXCEPT !.active = FALSE]
                  ELSE IF ~(orders[i].byWatch /\ orders[i].alone)
                          /\ Touches(orders[i].change) \cap Touches(orders[j].change) # {}
                       THEN [orders[j] EXCEPT !.alone = FALSE]
                       ELSE orders[j]]
  /\ Stirs
  /\ UNCHANGED <<market, share, expired, sent, traded, faults>>

\* Patience, the close of the day or a hand ends an order that was not filled.
Ends(i) ==
  /\ orders[i].active
  /\ orders' = [orders EXCEPT ![i].active = FALSE]
  /\ UNCHANGED <<world, sent, watch, traded, faults>>

Moves ==
  /\ \/ \E m \in Markets \ {market} : market' = m /\ UNCHANGED share
     \/ \E s \in Shares \ {share} : share' = s /\ UNCHANGED market
  /\ UNCHANGED <<held, expired, orders, sent, watch, traded, faults>>

DayEnds ==
  /\ ~expired /\ expired' = TRUE
  /\ UNCHANGED <<held, market, share, orders, sent, watch, traded, faults>>

WatchSteps ==
  \/ Look \/ LookAtOrders \/ EndPass
  \/ \E f \in Families : PassOver(f) \/ Decide(f) \/ Sends(f)

World ==
  \/ SessionOrders \/ Moves \/ DayEnds
  \/ \E i \in Places : Fills(i) \/ Ends(i)

WatchNext ==
  \/ WatchSteps \/ ReadFails \/ WatchRestarts \/ Tick \/ World
  \/ \E f \in Families : SendFails(f)

\* The ticker goes on and a call to the broker ends; the clock runs.
WatchSpec == WatchInit /\ [][WatchNext]_watchVars /\ WF_watchVars(WatchSteps) /\ WF_watchVars(Tick)

------------------------------------------------------------------------------
(* What the watch promises.                                                *)

Order == [change : Accounts, active : BOOLEAN, byWatch : BOOLEAN, alone : BOOLEAN]

WatchTypeOK ==
  /\ held \in Accounts /\ orders \in Seq(Order)
  /\ watch \in [at : {"rest", "orders", "structures", "send"}, book : Accounts,
               walking : SUBSET Contracts, share : Nat, todo : SUBSET Families,
               now : SUBSET Families, still : BOOLEAN]
  /\ share \in Nat

\* An order in play that the watch wrote on a true reading, and that nothing else took
\* the book from.
Sound(i) == orders[i].active /\ orders[i].byWatch /\ orders[i].alone

\* Such an order closes what is held, and no two of them the same.
ClosesWhatIsHeld ==
  \A i \in Places : Sound(i) =>
    \A c \in Touches(orders[i].change) : held[c] = -orders[i].change[c]
NoneTwice ==
  \A i, j \in Places : i # j /\ Sound(i) /\ Sound(j) =>
    Touches(orders[i].change) \cap Touches(orders[j].change) = {}

\* While what a pass read is still so, it is the account, and what it has yet to decide
\* and to send is touched by no order in play that it does not know of.
ReadsTheAccount == watch.at # "rest" /\ watch.still => watch.book = held
KnowsTheOrders ==
  /\ watch.at # "send" => watch.now = {}
  /\ watch.todo \cap watch.now = {}
  /\ watch.at \in {"structures", "send"} /\ watch.still =>
       /\ \A f \in watch.todo \cup watch.now, i \in Places : orders[i].active =>
            Touches(orders[i].change) \cap Legs(watch.book, f) \subseteq watch.walking
       /\ \A f \in watch.now : Legs(watch.book, f) \cap watch.walking = {}

WatchInv ==
  WatchTypeOK /\ ClosesWhatIsHeld /\ NoneTwice /\ ReadsTheAccount /\ KnowsTheOrders

Smaller(change) ==
  \A c \in Contracts :
    \/ change[c] = 0
    \/ held[c] > 0 /\ held'[c] \in 0..held[c]
    \/ held[c] < 0 /\ held'[c] \in held[c]..0

\* takeprofit.go: "It can only make the book smaller."  No order of the watch that
\* fills leaves the account with more of a contract, or short what it never held,
\* however often the pass failed, the answer was lost or the watch began anew - where
\* what the pass had read was still so when it sent, and since then nothing filled on
\* those contracts that the session sent, or the watch on what was not so.
OnlyShrinks ==
  [][\A i \in Places :
       (orders[i].byWatch /\ orders[i].alone /\ Fills(i)) => Smaller(orders[i].change)]_watchVars

Ripe(f) ==
  /\ f \in Structures(held) /\ Credit(held, f) > 0
  /\ ~expired
  /\ Readable(share) /\ GivenBack(held, f, market, share)

\* takeprofit.go, standing: an order the book never took does not lock the position
\* out of ever being closed.  A structure that stays ripe has, ever again, an order on
\* it in the market.
NeverLockedOut ==
  \A f \in Families :
    <>[]Ripe(f) => []<>(\E i \in Places : orders[i].active
                          /\ \E c \in Touches(orders[i].change) : Family[c] = f)

=============================================================================
