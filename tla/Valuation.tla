------------------------------ MODULE Valuation ------------------------------
(***************************************************************************)
(* What a quote of the simulated broker is good for: what an order fills   *)
(* at (match.go), what a position cost and is worth (book.go, quotes.go)   *)
(* and what the account says of all of them (tools.go).                    *)
(*                                                                         *)
(* A quote carries a bid and an ask, zero where there is none; mid-market  *)
(* numbers are kept doubled.  An average entry price is a fraction.        *)
(***************************************************************************)
EXTENDS Risk

CONSTANTS PerContract   \* the broker's fee per contract and leg

Instruments == Contracts \cup Roots

ASSUME ValuationAssumption == PerContract \in Nat /\ Contracts \cap Roots = {}

\* What is read of an instrument, and of all of them.
IsQuote(quote) == quote \in [quoted : BOOLEAN, fresh : BOOLEAN, bid : Int, ask : Int]
IsReading(m)   == \A x \in Instruments : IsQuote(m[x])

\* An order: a leg at least, and a set of them.
IsTrade(t) ==
  t.legs \in Holdings /\ t.sets \in Nat \ {0} /\ \E c \in Contracts : t.legs[c] # 0

\* A contract carries a hundred shares, a share itself.
SizeOf(x) == IF x \in Contracts THEN Multiplier ELSE 1

ContractsIn(legs, sets) ==
  sets * SumFunctionOnSet([c \in Contracts |-> Abs(legs[c])], Contracts)

------------------------------------------------------------------------------
(* What fills.                                                             *)

\* Mutant of Executable: a crossed quote fills.
ExecutableCrossed(legs, m, anyAge) ==
  \A c \in Contracts : legs[c] # 0 =>
    /\ m[c].quoted
    /\ anyAge \/ m[c].fresh
    /\ IF legs[c] > 0 THEN m[c].ask > 0 ELSE m[c].bid > 0

\* Every leg is quoted on the side it takes, fresh unless on the bench, and no quote is
\* crossed.
Executable(legs, m, anyAge) ==
  \A c \in Contracts : legs[c] # 0 =>
    /\ m[c].quoted
    /\ anyAge \/ m[c].fresh
    /\ ~(m[c].bid > 0 /\ m[c].ask > 0 /\ m[c].bid > m[c].ask)
    /\ IF legs[c] > 0 THEN m[c].ask > 0 ELSE m[c].bid > 0

Side(quote, buy) == IF buy THEN quote.ask ELSE quote.bid

SetPrice(legs, m) ==
  LET cost == [c \in Contracts |-> legs[c] * Side(m[c], legs[c] > 0)]
  IN SumFunctionOnSet(cost, {c \in Contracts : legs[c] # 0})

------------------------------------------------------------------------------
(* What a position cost.                                                   *)

Fractions == [num : Int, den : Nat \ {0}]

Fraction(num, den) ==
  LET common == Max({k \in 1..den : num % k = 0 /\ den % k = 0})
  IN [num |-> num \div common, den |-> den \div common]
Whole(n)   == [num |-> n, den |-> 1]
Sum2(a, b) == Fraction(a.num * b.den + b.num * a.den, a.den * b.den)
Times(n, a) == Fraction(n * a.num, a.den)

TotalOf(f, S) == FoldFunctionOnSet(Sum2, Whole(0), f, S)

Positions  == [qty : Int, avg : Fractions]
NoPosition == [qty |-> 0, avg |-> Whole(0)]

\* Mutant of Adjusted: an average is weighted by the number of orders.
AdjustedByOrders(p, signed, price) ==
  LET qty == p.qty + signed
  IN IF qty = 0 THEN NoPosition
     ELSE [qty |-> qty,
           avg |-> IF p.qty * signed > 0 THEN Fraction(p.avg.num + price * p.avg.den, 2 * p.avg.den)
                   ELSE IF Abs(signed) > Abs(p.qty) THEN Whole(price)
                   ELSE p.avg]

\* move: a position added to averages its price by quantity, one closed in part keeps
\* it, and one turned over has the price of its new side.
Adjusted(p, signed, price) ==
  LET qty == p.qty + signed
  IN IF qty = 0 THEN NoPosition
     ELSE [qty |-> qty,
           avg |-> IF p.qty * signed > 0
                     THEN Fraction(p.avg.num * Abs(p.qty) + price * Abs(signed) * p.avg.den,
                                   p.avg.den * Abs(qty))
                   ELSE IF Abs(signed) > Abs(p.qty) THEN Whole(price)
                   ELSE p.avg]

\* Fill: the price of a set moves the cash, the price of each leg its position.
Traded(cash, held, legs, sets, m) ==
  [cash |-> cash - SetPrice(legs, m) * sets * Multiplier - ContractsIn(legs, sets) * PerContract,
   held |-> [x \in Instruments |->
               IF x \in Contracts
               THEN Adjusted(held[x], legs[x] * sets, Side(m[x], legs[x] > 0)) ELSE held[x]]]

\* Settle: a contract out of the money disappears, any other turns into shares at its
\* strike.
Exercised(cash, held, c, under) ==
  LET worth  == Intrinsic(c, under) > 0
      shares == (IF Term[c].call THEN 1 ELSE -1) * held[c].qty * Multiplier
      root   == Term[c].root
  IN [cash |-> IF worth THEN cash - Term[c].strike * shares ELSE cash,
      held |-> [held EXCEPT
        ![c] = NoPosition,
        ![root] = IF worth THEN Adjusted(@, shares, Term[c].strike) ELSE @]]

------------------------------------------------------------------------------
(* What is shown.                                                          *)

\* The middle of the market; of one side, half of it.
TwiceMark(quote) == quote.bid + quote.ask

Liquidation(quote, long) == Side(quote, ~long)

\* value, over what is held.
Valued(held, m) ==
  LET all   == {x \in Instruments : held[x].qty # 0}
      twice == [x \in Instruments |-> TwiceMark(m[x]) * held[x].qty * SizeOf(x)]
      now   == [x \in Instruments |->
                  Liquidation(m[x], held[x].qty > 0) * held[x].qty * SizeOf(x)]
  IN [market      |-> SumFunctionOnSet(twice, all),
      long        |-> SumFunctionOnSet(twice, {x \in all : held[x].qty > 0}),
      short       |-> SumFunctionOnSet(twice, {x \in all : held[x].qty < 0}),
      liquidation |-> SumFunctionOnSet(now, all),
      unpriced    |-> {x \in all : TwiceMark(m[x]) = 0}]

\* positions: a row for what is held of one instrument.  The profit is doubled.
CostBasis(held, x) == Times(held[x].qty * SizeOf(x), held[x].avg)
TwiceProfit(held, m, x) ==
  Sum2(Whole(TwiceMark(m[x]) * held[x].qty * SizeOf(x)), Times(-2, CostBasis(held, x)))

\* What the shares and the contracts demand, in halves; mark is the price remembered of
\* an underlying.
Demanded(held, mark) ==
  TwiceRequirement([c \in Contracts |-> held[c].qty], [r \in Roots |-> held[r].qty], mark)

\* Mutant of Power: the collateral is not taken off.
PowerOfCash(cash, held, mark) == Max({0, 2 * cash})

\* The buying power, doubled.
Power(cash, held, mark) ==
  IF Unbounded([c \in Contracts |-> held[c].qty]) THEN 0
  ELSE Max({0, 2 * cash - Demanded(held, mark)})

\* account, its money doubled but for the cash.
Account(cash, held, m, mark) ==
  LET v == Valued(held, m)
  IN [cash |-> cash, equity |-> 2 * cash + v.market, liquidation |-> 2 * (cash + v.liquidation),
      long |-> v.long, short |-> v.short, power |-> Power(cash, held, mark),
      unpriced |-> v.unpriced]

=============================================================================
