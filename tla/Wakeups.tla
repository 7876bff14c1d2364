------------------------------ MODULE Wakeups ------------------------------
(***************************************************************************)
(* The wake-ups a session asks for itself: golang/internal/wakeup and      *)
(* fireWakeups of golang/internal/harness/harness.go.                      *)
(*                                                                         *)
(* The store keeps a list in memory and writes the whole of it through to  *)
(* a file on every change; a restart reads the file back.  The clock takes *)
(* what came true out of the store and then tells the session, one wake-up *)
(* after the other; what a telling does is module Turns.                   *)
(***************************************************************************)
EXTENDS HarnessClock, Sequences, FiniteSets, FiniteSetsExt

CONSTANTS
  Prices,       \* the prices the watched symbol may trade at
  MaxAsks,      \* bound: wake-ups asked for
  WriteErrors   \* the file may refuse a write

NoPrice == 0    \* no price was read this tick
Ask     == 1..MaxAsks

ASSUME WakeupsAssumption ==
  /\ Prices \subseteq Nat \ {NoPrice}
  /\ MaxAsks \in Nat
  /\ WriteErrors \in BOOLEAN

VARIABLES
  price,         \* the last trade
  list, next,    \* Store: what stands, and the last number given out
  file,          \* the wake-ups on disk
  due,           \* what Due returned and the clock has not told yet
  \* Observed by the properties only: how many were asked for, those the session
  \* was told it has, those it took back, those Due took out, how often
  \* the session was woken for each, and those a restart brought back because
  \* their removal had not reached the file.
  asks, granted, withdrawn, taken, told, returned

storeHistory == <<asks, granted, withdrawn, taken, told, returned, crashes>>
storeVars == <<now, price, list, next, file, due, storeHistory>>

\* A standing request.  `ask` tells requests apart; the session knows only `id`.
Wakeup == [id : Nat \ {0}, ask : Ask, kind : {"at", "above", "below"}, when : Nat]

StoreTypeOK ==
  /\ ReadsTheClock /\ price \in Prices
  /\ list \subseteq Wakeup /\ file \subseteq Wakeup /\ due \subseteq Wakeup
  /\ next \in Nat /\ \A w \in list : w.id <= next
  /\ asks \in 0..MaxAsks
  /\ granted \subseteq Ask /\ withdrawn \subseteq Ask /\ taken \subseteq Ask
  /\ told \in [Ask -> Nat]
  /\ returned \subseteq Ask

StoreInit ==
  /\ RunBegins /\ price \in Prices
  /\ list = {} /\ file = {} /\ due = {} /\ next = 0
  /\ asks = 0 /\ granted = {} /\ withdrawn = {} /\ taken = {}
  /\ told = [a \in Ask |-> 0]
  /\ returned = {}

Asks(ws) == {w.ask : w \in ws}

-----------------------------------------------------------------------------
(* The session's side.                                                     *)

\* Mutant of Add: the wake-up is granted and the file left for the next change.
AddUnwritten(kind, when) ==
  LET w == [id |-> next + 1, ask |-> asks + 1, kind |-> kind, when |-> when]
  IN  /\ asks < MaxAsks
      /\ asks' = asks + 1
      /\ next' = next + 1
      /\ list' = list \cup {w} /\ granted' = granted \cup {w.ask}
      /\ UNCHANGED <<now, price, file, due, withdrawn, taken, told, returned, crashes>>

\* add: a write that fails takes the wake-up off the list again, and not its
\* number.
Add(kind, when) ==
  LET w == [id |-> next + 1, ask |-> asks + 1, kind |-> kind, when |-> when]
  IN  /\ asks < MaxAsks
      /\ asks' = asks + 1
      /\ next' = next + 1
      /\ \/ /\ list' = list \cup {w} /\ file' = list'
            /\ granted' = granted \cup {w.ask}
         \/ WriteErrors /\ UNCHANGED <<list, file, granted>>
      /\ UNCHANGED <<now, price, due, withdrawn, taken, told, returned, crashes>>

AddAt    == \E at \in Time : at > now /\ Add("at", at)
AddPrice == \E level \in Prices : \E side \in {"above", "below"} : Add(side, level)

\* Cancel: gone from memory in any case; the session hears of a failed write.
Cancel ==
  \E w \in list :
    /\ list' = list \ {w}
    /\ file' = list' \/ (WriteErrors /\ file' = file)
    /\ withdrawn' = withdrawn \cup {w.ask}
    /\ UNCHANGED <<now, price, next, due, asks, granted, taken, told, returned,
                   crashes>>

-----------------------------------------------------------------------------
(* The clock's side.                                                       *)

Fires(w, last) ==
  \/ w.kind = "at" /\ now >= w.when
  \/ w.kind = "above" /\ last # NoPrice /\ last >= w.when
  \/ w.kind = "below" /\ last # NoPrice /\ last <= w.when

\* Those that wait for a price.
Watching == {w \in list : w.kind # "at"}

\* fireWakeups: the market is asked only when somebody waits for a price, not on every
\* tick, and may not answer; the wake-ups that wait for a time fire all the same.
LastTrade == {NoPrice} \cup (IF Watching = {} THEN {} ELSE {price})

\* Mutant of TakeDue: what fired is told and stays until the session cancels it.
TakeDueAndKeep ==
  /\ due = {}
  /\ \E last \in LastTrade :
       LET fired == {w \in list : Fires(w, last)}
       IN  fired # {} /\ due' = fired /\ taken' = taken \cup Asks(fired)
  /\ UNCHANGED <<now, price, list, next, file, asks, granted, withdrawn, told,
                 returned, crashes>>

\* Due: what came true leaves the store, and the file if it can be written, before
\* anybody is told.
TakeDue ==
  /\ due = {}
  /\ \E last \in LastTrade :
       LET fired == {w \in list : Fires(w, last)}
       IN  /\ fired # {}
           /\ list' = list \ fired
           /\ due' = fired
           /\ taken' = taken \cup Asks(fired)
           /\ file' = list' \/ (WriteErrors /\ file' = file)
  /\ UNCHANGED <<now, price, next, asks, granted, withdrawn, told, returned, crashes>>

\* Harness.Tell for one of them.
TellOne ==
  /\ \E w \in due :
       /\ due' = due \ {w}
       /\ told' = [told EXCEPT ![w.ask] = @ + 1]
  /\ UNCHANGED <<now, price, list, next, file, asks, granted, withdrawn, taken,
                 returned, crashes>>

-----------------------------------------------------------------------------
(* The world.                                                              *)

TimeGoesBy ==
  /\ MomentPasses
  /\ price' \in Prices
  /\ UNCHANGED <<list, next, file, due, storeHistory>>

\* Mutant of LastNumber: the numbers go on from how many stand.
HowManyStand(ws) == Cardinality(ws)

\* Open gives the numbers out again from the largest that still stands.
LastNumber(ws) == Max({0} \cup {w.id : w \in ws})

\* The process ends and starts again: Open reads the file back.
Restart ==
  /\ RunBeginsAnew
  /\ list' = file /\ next' = LastNumber(file)
  /\ due' = {}
  /\ returned' = returned \cup (Asks(file) \ Asks(list))
  /\ UNCHANGED <<price, file, asks, granted, withdrawn, taken, told>>

Finished == now = MaxTime /\ UNCHANGED storeVars

StoreNext ==
  \/ AddAt \/ AddPrice \/ Cancel
  \/ TakeDue \/ TellOne
  \/ TimeGoesBy \/ Restart \/ Finished

StoreSpec == StoreInit /\ [][StoreNext]_storeVars

-----------------------------------------------------------------------------
(* Properties.                                                             *)

\* What the session was told it has, and neither took back nor was taken out by
\* the clock, stands in memory and on disk, through failed writes and restarts.
StandsUntilDue ==
  (granted \ (withdrawn \cup taken)) \subseteq Asks(list) \cap Asks(file)

\* Two standing wake-ups never share an id, although Open gives numbers out
\* again: Cancel takes the first that bears the id.
IdsDiffer == \A v, w \in list : v.id = w.id => v = w

\* A wake-up wakes the session once, and one taken back not at all, unless the
\* file would not take its removal and a restart brought it back.  (Due, Cancel)
WakesOnce ==
  \A a \in Ask \ returned : told[a] <= IF a \in withdrawn THEN 0 ELSE 1

\* "They live on disk, so a restart does not forget them": what the session was
\* told it has, and did not take back, stands, is about to be told, or was told.
PromiseIsKept ==
  \A a \in granted \ withdrawn : told[a] > 0 \/ a \in Asks(list \cup due)

-----------------------------------------------------------------------------
(* What the properties rest on.                                            *)

NumbersDiffer(ws) == \A v, w \in ws : v.id = w.id => v = w
AsksDiffer(ws)    == \A v, w \in ws : v.ask = w.ask => v = w

\* No number above the last one given out stands anywhere, and none stands twice.
Numbered ==
  /\ \A w \in list \cup file : w.id <= next
  /\ NumbersDiffer(list) /\ NumbersDiffer(file)

\* What was not asked for yet is nowhere.
AskedFor ==
  /\ \A w \in list \cup file \cup due : w.ask <= asks
  /\ \A a \in Ask : a > asks => told[a] = 0 /\ a \notin withdrawn

\* What stands, or is about to be told, has not been told nor taken back, and is in one
\* place only; what was told was not taken back.  A restart may undo this, and says so.
InOnePlace ==
  /\ AsksDiffer(list) /\ AsksDiffer(file) /\ AsksDiffer(due)
  /\ \A a \in Ask \ returned :
       /\ a \in Asks(list \cup due) => told[a] = 0 /\ a \notin withdrawn
       /\ a \notin Asks(list) \cap Asks(due)
       /\ told[a] # 0 => told[a] = 1 /\ a \notin withdrawn

WakeupsInv == StoreTypeOK /\ Numbered /\ AskedFor /\ InOnePlace

=============================================================================
