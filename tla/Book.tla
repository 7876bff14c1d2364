-------------------------------- MODULE Book --------------------------------
(***************************************************************************)
(* A participant's account in the arena: testbed/proxy/book.go and the     *)
(* settling of expiry.go.  Every operation of the code takes the book's    *)
(* lock, changes the book and writes it whole; here an operation is the    *)
(* book it leaves behind and the condition on which the code accepts it.   *)
(*                                                                         *)
(* Prices are whole cents of a unit, a credit is negative.  The average    *)
(* price of an order is kept as what it paid in all, FilledAvg times       *)
(* FilledQty; the legs of an order are a function from contracts to signed *)
(* ratios, so one that names a contract twice is out of the model.         *)
(***************************************************************************)
EXTENDS Valuation, Sequences, SequencesExt

CONSTANTS
  Start,       \* the cash a book is opened with
  Names        \* the names an agent gives its orders, client_order_id

NoName == ""
NoEnd  == -1   \* an order good till cancelled
None   == 0    \* no order

ASSUME BookAssumption ==
  /\ Start \in Nat
  /\ NoName \notin Names

Open     == {"new", "partially_filled"}
Statuses == Open \cup {"filled", "canceled", "expired", "replaced"}

IsOpen(o)    == o.status \in Open
Remaining(o) == o.qty - o.filled

NewBook ==
  [cash   |-> Start,
   held   |-> Empty,
   shares |-> [r \in Roots |-> 0],
   mark   |-> [r \in Roots |-> 0],
   orders |-> <<>>,
   \* The contracts there are events of expiry of, and what those add up to: the
   \* contracts gone, the money.
   settled |-> {},
   gone    |-> Empty,
   money   |-> 0]

Projected(held, legs, sets) == [c \in Contracts |-> held[c] + legs[c] * sets]

\* The orders that stand, the one left out excepted.
Standing(bk, skip) == {i \in DOMAIN bk.orders : i # skip /\ IsOpen(bk.orders[i])}

\* What every standing order and the new one leave of the contracts and of the
\* cash once all of them filled, each at its own limit.
Reserved(bk, o, skip) ==
  LET s      == Standing(bk, skip)
      cost(x, sets) == x.limit * sets * Multiplier + ContractsIn(x.legs, sets) * PerContract
  IN [held |-> [c \in Contracts |->
                 bk.held[c] + o.legs[c] * o.qty
                 + MapThenSumSet(LAMBDA i : bk.orders[i].legs[c] * Remaining(bk.orders[i]), s)],
      cash |-> bk.cash - cost(o, o.qty)
               - MapThenSumSet(LAMBDA i : cost(bk.orders[i], Remaining(bk.orders[i])), s)]

\* The collateral of an order is counted in full when it is submitted, together
\* with what already stands; an order moved takes its own out of the count.
Acceptable(bk, o, skip) ==
  LET after == Reserved(bk, o, skip)
  IN Backed(after.cash, after.held, bk.shares, bk.mark)

Submitted(bk, o) == [bk EXCEPT !.orders = Append(@, o)]

\* The part of an order the market has reached is booked at its price per set.
CashAfter(bk, o, sets, price) ==
  bk.cash - price * sets * Multiplier - ContractsIn(o.legs, sets) * PerContract

\* Mutant of MayFill: the order is not looked at again before it fills.
MayFillAsSnapshot(bk, i, sets) ==
  /\ i \in DOMAIN bk.orders
  /\ sets \in 1..Remaining(bk.orders[i])

MayFill(bk, i, sets) ==
  /\ i \in DOMAIN bk.orders /\ IsOpen(bk.orders[i])
  /\ sets \in 1..Remaining(bk.orders[i])

\* Mutant of Affordable: the check at submission is taken for enough.
CheckedWhenSubmitted(bk, i, sets, price) == TRUE

Affordable(bk, i, sets, price) ==
  LET o == bk.orders[i]
  IN Backed(CashAfter(bk, o, sets, price), Projected(bk.held, o.legs, sets),
            bk.shares, bk.mark)

\* Mutant of Filled: an average is weighted by the number of fills.
FilledByTheFill(bk, i, sets, price) ==
  LET o == bk.orders[i]
  IN [bk EXCEPT
       !.held = Projected(@, o.legs, sets),
       !.cash = CashAfter(bk, o, sets, price),
       !.orders[i] = [o EXCEPT
         !.paid = @ + price, !.fees = @ + ContractsIn(o.legs, sets) * PerContract,
         !.filled = @ + sets,
         !.status = IF o.filled + sets >= o.qty THEN "filled" ELSE "partially_filled"]]

Filled(bk, i, sets, price) ==
  LET o == bk.orders[i]
  IN [bk EXCEPT
       !.held = Projected(@, o.legs, sets),
       !.cash = CashAfter(bk, o, sets, price),
       !.orders[i] = [o EXCEPT
         !.paid = @ + price * sets,
         !.fees = @ + ContractsIn(o.legs, sets) * PerContract,
         !.filled = @ + sets,
         !.status = IF o.filled + sets >= o.qty THEN "filled" ELSE "partially_filled"]]

Ended(bk, i, how) == [bk EXCEPT !.orders[i].status = how]

\* Moving an order ends it and puts its remainder into a new one; a size asked
\* for counts what has filled already.
RestOf(o, qty)   == IF qty > 0 THEN qty - o.filled ELSE Remaining(o)
MayMove(o, qty)  == IsOpen(o) /\ RestOf(o, qty) >= 1
Successor(bk, i, limit, name, qty, at, seen) ==
  LET old == bk.orders[i]
  IN [name |-> IF name = NoName THEN old.name ELSE name,
      legs |-> old.legs, qty |-> RestOf(old, qty), filled |-> 0,
      limit |-> limit, market |-> FALSE, ends |-> old.ends, at |-> at,
      status |-> "new", paid |-> 0, fees |-> 0, stand |-> FALSE,
      replaces |-> i, late |-> old.late,
      seen |-> IF name = NoName THEN old.seen ELSE seen, born |-> old.born]
Moved(bk, i, next) == Submitted(Ended(bk, i, "replaced"), next)

\* Mutant of Outlived: an order lives through the moment its session ends.
OutlivedAfter(bk, t) ==
  {i \in DOMAIN bk.orders :
     IsOpen(bk.orders[i]) /\ bk.orders[i].ends # NoEnd /\ t > bk.orders[i].ends}

\* Day orders whose session has ended by t.
Outlived(bk, t) ==
  {i \in DOMAIN bk.orders :
     IsOpen(bk.orders[i]) /\ bk.orders[i].ends # NoEnd /\ t >= bk.orders[i].ends}

ExpireDay(bk, t) ==
  [bk EXCEPT !.orders =
     [i \in DOMAIN @ |-> IF i \in Outlived(bk, t)
                         THEN [@[i] EXCEPT !.status = "expired"] ELSE @[i]]]

\* The contracts held that have expired by t; a contract's expiry is the close
\* it ends with.
Due(bk, t) == {c \in Held(bk.held) : t >= Term[c].expiry}

\* Expiry against the price of the underlying.  Below a cent in the money the
\* contract disappears; otherwise it turns into shares at its strike.
Settled(bk, c, under) ==
  LET qty    == bk.held[c]
      root   == Term[c].root
      sign   == IF Term[c].call THEN 1 ELSE -1
      exercised == Intrinsic(c, under) > 0
      money  == IF exercised THEN -sign * Term[c].strike * qty * Multiplier ELSE 0
      turned == IF exercised THEN sign * qty * Multiplier ELSE 0
  IN [bk EXCEPT
       !.held[c] = 0,
       !.settled = @ \cup {c},
       !.gone[c] = @ + qty,
       !.cash = @ + money,
       !.money = @ + money,
       !.shares[root] = @ + turned,
       !.mark[root] = IF bk.shares[root] + turned = 0 THEN 0
                      ELSE IF exercised THEN under ELSE @]

\* The last prices seen of shares that are held.
Marked(bk, price) ==
  [bk EXCEPT !.mark = [r \in Roots |->
     IF bk.shares[r] # 0 /\ price > 0 THEN price ELSE @[r]]]

\* The oldest order under a name, which the agent finds its order by.
Called(bk, name) == {i \in DOMAIN bk.orders : name # NoName /\ bk.orders[i].name = name}

=============================================================================
