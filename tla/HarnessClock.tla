---- MODULE HarnessClock ----
(***************************************************************************)
(* What Harness.Now tells, and how often the harness was started again:    *)
(* Run and keepTheClock of golang/internal/harness/harness.go.             *)
(*                                                                         *)
(* The declared sessions and the wake-ups are both looked after by the one *)
(* goroutine of keepTheClock: they read one clock and end together.  The   *)
(* clock of the wall does not stop while the harness is down, nor does it  *)
(* go back.                                                                *)
(***************************************************************************)
EXTENDS Integers

CONSTANTS MaxTime, MaxCrashes  \* bounds: moments, and ends of the process

ASSUME HarnessClockAssumption == {MaxTime, MaxCrashes} \subseteq Nat

Time == 0..MaxTime

VARIABLES now, crashes

ReadsTheClock == now \in Time /\ crashes \in Nat

\* Run, the first time.
RunBegins == now = 0 /\ crashes = 0

\* A moment goes by; what else a moment brings is the part's own affair.
MomentPasses == now < MaxTime /\ now' = now + 1

\* Run ends, with all the process had in memory, and begins anew in the same moment.
RunBeginsAnew == crashes < MaxCrashes /\ crashes' = crashes + 1 /\ UNCHANGED now

====
