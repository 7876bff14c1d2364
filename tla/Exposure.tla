------------------------------ MODULE Exposure ------------------------------
(***************************************************************************)
(* What an order may lose and what is at risk already, as the ladder works *)
(* them out: execution/toobig.go and marketdata/exposure.go.  It is not    *)
(* the broker's reckoning (Risk): the premium counts, the payoff is looked *)
(* at twice as high as the last strike, and an order is taken as one       *)
(* series, whatever its legs expire against.                               *)
(***************************************************************************)
EXTENDS Risk

CONSTANTS NoFloor   \* an order whose name states no worst price

\* An order: signed ratios of its legs, sets ordered and filled, the price it stands
\* at and the worst its name states.  A price is money paid for a share of a set, a
\* credit is negative.
IsOrder(o) ==
  o \in [legs : Holdings, quantity : Int, filled : Int, limit : Int, floor : Int \cup {NoFloor}]

\* What is held and what it cost: the broker reports the cost of positions only.
IsAccount(a) ==
  /\ a.held \in Holdings /\ a.paid \in Holdings
  /\ \A c \in Contracts : a.held[c] = 0 => a.paid[c] = 0

Resting(o)    == o.quantity - o.filled
LegsOf(o)     == {c \in Contracts : o.legs[c] # 0}
WorstCaseIsKnown(o) == LegsOf(o) # {} /\ o.quantity > 0 /\ Resting(o) > 0

\* Sold calls no bought call stands against: the loss grows with the price.
Uncovered(o) ==
  SumFunctionOnSet([c \in Contracts |-> o.legs[c] * o.quantity],
                   {c \in LegsOf(o) : Term[c].call}) < 0

\* Mutant of Probes: the underlying stops at the lowest strike.
ProbesAtStrikes(cs) == LET ks == {Term[c].strike : c \in cs} IN ks \cup {2 * Max(ks)}

\* Where a payoff may bend, and a point past the last bend.
Probes(cs) == LET ks == {Term[c].strike : c \in cs} IN {0, 2 * Max(ks)} \cup ks

\* The worst price the order may reach.
WorstPrice(o) == IF o.floor = NoFloor THEN o.limit ELSE o.floor

\* What the resting part of an order is worth when it has filled at a price p and the
\* underlying ends at s.
FilledWorth(o, p, s) ==
  Multiplier * Resting(o)
    * (SumFunctionOnSet([c \in Contracts |-> Intrinsic(c, s) * o.legs[c]], LegsOf(o)) - p)

WorstCase(o) ==
  Min({0} \cup {FilledWorth(o, WorstPrice(o), s) : s \in Probes(LegsOf(o))})

\* Mutant of WorstAtExpiry: money taken in is counted as money paid.
WorstAtExpiryPaid(held, paid, g) ==
  SumFunctionOnSet(paid, InGroup(held, g))
    + Min({PayoffAt(held, g, s) : s \in Probes(InGroup(held, g))})

\* What one group of what is held comes to at its worst, what it cost included.
WorstAtExpiry(held, paid, g) ==
  Min({PayoffAt(held, g, s) : s \in Probes(InGroup(held, g))})
    - SumFunctionOnSet(paid, InGroup(held, g))

\* A group that can only gain offsets no other.
AtRisk(held, paid) ==
  -SumFunction([g \in Groups(held) |-> Min({0, WorstAtExpiry(held, paid, g)})])

\* Groups left with more calls sold than bought.
WithoutAFloor(held) == {g \in Groups(held) : Slope(held, g) < 0}

=============================================================================
