----------------------------- MODULE MCSchedule -----------------------------
(***************************************************************************)
(* Schedule for TLC: a five-minute day, a session that repeats every two   *)
(* minutes and the closing window that cannot wait, declared after it as   *)
(* in every declaration under agent/.                                      *)
(***************************************************************************)
EXTENDS Schedule

Scan  == [name |-> "scan", at |-> Never, within |-> 0, every |-> 2,
          from |-> 1, to |-> 3, days |-> {}, cannotWait |-> FALSE]
Close == [name |-> "close", at |-> 2, within |-> 1, every |-> Never,
          from |-> 0, to |-> 0, days |-> {}, cannotWait |-> TRUE]

\* A session that declares both ways to wake.
Muddled == [Scan EXCEPT !.at = 2, !.within = 1]

\* The closing window is taken out of the file and put back, and the file is also read
\* while it is empty or wrong.
MCFiles == {<<Scan, Close>>, <<Scan>>, <<>>, <<Scan, Muddled>>}

=============================================================================
