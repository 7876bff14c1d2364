---------------------------- MODULE MCTakeProfit ----------------------------
EXTENDS TakeProfit

\* One vertical, near sold and far bought, entered for a credit of 60.
CONSTANTS near, far, calls

Quote(b, a) == [bid |-> b, ask |-> a]
Change(n, f) == (near :> n) @@ (far :> f)

MCFamily  == [c \in Contracts |-> calls]
MCEntry   == (near :> 100) @@ (far :> 40)
MCAtFirst == Change(-1, 1)

\* Another set, its closing, and one more of the hedge: a backspread.
MCTrades  == {Change(-1, 1), Change(1, -1), Change(0, 1)}

\* Not ripe, ripe, and a leg nobody bids for.
MCMarkets ==
  {(near :> Quote(70, 75)) @@ (far :> Quote(20, 25)),
   (near :> Quote(10, 15)) @@ (far :> Quote(5, 8)),
   (near :> Quote(10, 15)) @@ (far :> Quote(0, 8))}

=============================================================================
