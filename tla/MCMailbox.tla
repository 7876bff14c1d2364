----------------------------- MODULE MCMailbox -----------------------------
(***************************************************************************)
(* Mailbox for TLC: two polls that may be held open at once.               *)
(***************************************************************************)
EXTENDS Mailbox, TLC

CONSTANTS p1, p2

TwoPolls == {p1, p2}
Symmetry == Permutations(TwoPolls)

=============================================================================
