------------------------------ MODULE MCArena ------------------------------
EXTENDS Arena, TLC

\* Two calls of one underlying and one expiry: near is sold, far is bought further up.
CONSTANTS near, far, ratio, hedge, spy

MCTerm == [c \in Contracts |->
  [root |-> spy, expiry |-> 1, call |-> TRUE, strike |-> IF c = near THEN 2 ELSE 4]]

Legs(x, y) == [c \in Contracts |-> IF c = near THEN x ELSE y]

\* Two near sold for each far bought, a loss without an end unless the hedge stands or is
\* held; the hedge is asked for at the market.
MCShape == [k \in Kinds |->
  IF k = ratio
  THEN [name |-> "n", legs |-> Legs(-2, 1), qty |-> 2, limit |-> -3, market |-> FALSE, day |-> TRUE]
  ELSE [name |-> "m", legs |-> Legs(0, 1), qty |-> 2, limit |-> 0, market |-> TRUE, day |-> FALSE]]

Quote(bid, ask, bidSize, askSize, fresh) ==
  [bid |-> bid, ask |-> ask, bidSize |-> bidSize, askSize |-> askSize,
   fresh |-> fresh, quoted |-> TRUE]

\* In one far is short of the sizes asked for, in the other near has gone stale and far dear.
MCMarkets == {
  [c \in Contracts |-> IF c = near THEN Quote(2, 3, 4, 1, TRUE)  ELSE Quote(0, 1, 0, 1, TRUE)],
  [c \in Contracts |-> IF c = near THEN Quote(3, 3, 4, 1, FALSE) ELSE Quote(0, 2, 0, 2, TRUE)]}

\* Calls differ by nothing but their place.
Alike == Permutations(Callers)

=============================================================================
