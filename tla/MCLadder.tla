------------------------------ MODULE MCLadder ------------------------------
(***************************************************************************)
(* Ladder for TLC.  One order walked from six cents of credit to two, for  *)
(* patience and price; three orders that never walk, for the limits: two   *)
(* that open, of two sets each, and one that closes.                       *)
(***************************************************************************)
EXTENDS Ladder

OneOrder == {"put"}
ThreeOrders == {"put", "call", "close"}

OneSet   == [o \in Orders |-> 1]
SetsOf   == [o \in Orders |-> IF o = "close" THEN 1 ELSE 2]
PerSetOf == [o \in Orders |-> IF o = "call" THEN 3 ELSE 2]
AskOf    == [o \in Orders |-> -6]
FloorOf  == [o \in Orders |-> -2]
MCPrices == {-7, -4, -1}

=============================================================================
