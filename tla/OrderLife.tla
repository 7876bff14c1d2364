----------------------------- MODULE OrderLife -----------------------------
(***************************************************************************)
(* What a participant may count on of the orders it has given: the books   *)
(* as the store shows them.  An order is known by its place among those    *)
(* given; what is written of it later never contradicts what was written   *)
(* before.  One write may carry several changes, since one that failed is  *)
(* made good by the next.                                                  *)
(***************************************************************************)
EXTENDS Naturals, Sequences

CONSTANTS Books

VARIABLE orders   \* [Books -> Seq([qty, filled, open])]

Order == [qty : Nat \ {0}, filled : Nat, open : BOOLEAN]

Sound(o) == o \in Order /\ o.filled <= o.qty /\ (o.open => o.filled < o.qty)

\* A later state of one order: fills grow while it stands, and then nothing does.
Follows(o, p) ==
  /\ p.qty = o.qty
  /\ p.filled >= o.filled
  /\ ~o.open => p = o

Init == orders = [b \in Books |-> <<>>]

\* A book is written, or left as it is.
Write(b) ==
  /\ DOMAIN orders[b] \subseteq DOMAIN orders'[b]
  /\ \A i \in DOMAIN orders'[b] : Sound(orders'[b][i])
  /\ \A i \in DOMAIN orders[b]  : Follows(orders[b][i], orders'[b][i])

\* Several books may be written on one occasion.
Next == \A b \in Books : Write(b)

Spec == Init /\ [][Next]_orders

=============================================================================
