-------------------------------- MODULE Risk --------------------------------
(***************************************************************************)
(* What a book of contracts may lose: testbed/proxy/risk.go.  A book is a  *)
(* function from contracts to signed quantities, a minus meaning sold, and *)
(* a quantity of zero a contract not held.  The payoff at expiry is        *)
(* piecewise linear in the price of the underlying; contracts of one       *)
(* underlying and one expiry share that price and form a group.            *)
(***************************************************************************)
EXTENDS Integers, FiniteSets, FiniteSetsExt, Functions

CONSTANTS
  Contracts,   \* the contracts there are
  Term,        \* [Contracts -> [root, expiry, call, strike]], a parsed symbol
  Roots,       \* the underlyings
  Multiplier   \* how much of the underlying a contract carries

ASSUME RiskAssumption ==
  /\ IsFiniteSet(Contracts) /\ IsFiniteSet(Roots)
  /\ \A c \in Contracts :
       /\ Term[c].root \in Roots
       /\ Term[c].expiry \in Nat /\ Term[c].call \in BOOLEAN
       /\ Term[c].strike \in Nat \ {0}
  /\ Multiplier \in Nat \ {0}

Holdings == [Contracts -> Int]
Empty    == [c \in Contracts |-> 0]

Abs(n) == IF n < 0 THEN -n ELSE n

\* What a contract is worth at expiry with the underlying at s.
Intrinsic(c, s) ==
  IF Term[c].call THEN Max({0, s - Term[c].strike})
                  ELSE Max({0, Term[c].strike - s})

GroupOf(c)       == <<Term[c].root, Term[c].expiry>>
Held(held)       == {c \in Contracts : held[c] # 0}
Groups(held)     == {GroupOf(c) : c \in Held(held)}
InGroup(held, g) == {c \in Held(held) : GroupOf(c) = g}

\* The slope of the payoff past the last strike: every call is in the money
\* there and every put is worth nothing.
Slope(held, g) ==
  SumFunctionOnSet(held, {c \in InGroup(held, g) : Term[c].call})

Unbounded(held) == \E g \in Groups(held) : Slope(held, g) < 0

PayoffAt(held, g, s) ==
  LET value == [c \in Contracts |-> Intrinsic(c, s) * held[c]]
  IN Multiplier * SumFunctionOnSet(value, InGroup(held, g))

\* The payoff bends only at a strike, and the underlying stops at zero.
Points(held, g) == {0} \cup {Term[c].strike : c \in InGroup(held, g)}

WorstOf(held, g) == Min({PayoffAt(held, g, s) : s \in Points(held, g)})

\* The value at expiry at the worst point of each group, for a book whose loss
\* has an end.
Worst(held) == SumFunction([g \in Groups(held) |-> WorstOf(held, g)])

\* The money a book must hold, in halves of a unit since shares sold short take
\* one and a half times their price; shares are per underlying, signed, and mark
\* is the last price known of them.
TwiceRequirement(held, shares, mark) ==
  2 * Max({0, -Worst(held)})
  + SumFunction([r \in Roots |-> 3 * Max({0, -shares[r]}) * mark[r]])

\* Whether an amount of cash backs a book: nothing backs a loss without an end.
Backed(cash, held, shares, mark) ==
  /\ ~Unbounded(held)
  /\ 2 * cash >= TwiceRequirement(held, shares, mark)

=============================================================================
