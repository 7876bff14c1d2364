----------------------------- MODULE MCWakeups -----------------------------
(***************************************************************************)
(* Wakeups for TLC: a price on either side of the levels asked for.        *)
(***************************************************************************)
EXTENDS Wakeups

TwoPrices == {1, 2}

=============================================================================
