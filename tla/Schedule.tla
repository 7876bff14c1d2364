------------------------------ MODULE Schedule ------------------------------
(***************************************************************************)
(* What wakes the agent by the clock, and what counts as having run:       *)
(* fireDue, forgetEmptyTurns, rereadTheDeclaration and whatAlreadyRanToday *)
(* of golang/internal/harness/harness.go over Session.Due and the watcher  *)
(* of golang/internal/declaration.                                         *)
(*                                                                         *)
(* The clock's goroutine passes over the declared sessions once a minute.  *)
(* It remembers by NAME when each last ran; the memory is filled from the  *)
(* record at start and on a changed declaration, and a finished turn that  *)
(* did nothing is reported to it over a channel.  A turn is only who it is *)
(* for: how one starts, ends and is found silent is module Turns.          *)
(***************************************************************************)
EXTENDS HarnessClock, Sequences, FiniteSets

CONSTANTS
  Names,         \* the names sessions are declared under
  People,        \* other causes of a turn: chat names, wake-ups, the ladder
  Files,         \* what the file may hold when it is read: sequences of sessions
  DayLength,     \* minutes in a day
  PassLimit,     \* bound: minutes one pass over the sessions may take
  StoreErrors    \* a read or a write of the record may fail

Never  == -1     \* the zero time
Nobody == "nobody"
Day(t) == t \div DayLength
SinceMidnight(t) == t % DayLength

\* The fields of declaration.Session that decide when it wakes.  at is Never in
\* a session that repeats, every is Never in one that does not.
Session ==
  [name : Names, at : Int, within : Int, every : Int, from : Int, to : Int,
   days : SUBSET (0..6), cannotWait : BOOLEAN]

\* Session.check: one way to wake, a lateness that is not never, a window that
\* does not end before it starts.  It does not ask that names differ.
WellFormed(s) ==
  \/ s.every = Never /\ s.at >= 0 /\ s.within > 0
  \/ s.at = Never /\ s.every >= 1 /\ s.from < s.to

ASSUME ScheduleAssumption ==
  /\ Nobody \notin Names \cup People
  /\ Names \cap People = {}
  /\ DayLength \in Nat \ {0}
  /\ PassLimit \in Nat
  /\ StoreErrors \in BOOLEAN

\* The hours of a session, to the minute.
InWindow(s, t) ==
  IF s.at # Never THEN SinceMidnight(t) \in s.at..(s.at + s.within)
                  ELSE SinceMidnight(t) \in s.from..s.to

\* parse: only a file that wakes somebody, and whose every session checks out, is a
\* declaration.
Declarations == {d \in Files : d # <<>> /\ \A i \in DOMAIN d : WellFormed(d[i])}

\* The minutes of a window, and those a pass begun in it may still take, lie in
\* one day: no declared session is near midnight.
ASSUME DeclarationsAssumption ==
  /\ Files \subseteq Seq(Session)
  /\ \A d \in Declarations : \A i \in DOMAIN d : \A t, u \in Time :
       InWindow(d[i], t) /\ t <= u /\ u <= t + PassLimit => Day(u) = Day(t)

VARIABLES
  declared,    \* the declaration in force
  lastRun,     \* the clock's memory, Never where the map has no entry
  emptyTurns,  \* the channel of names whose turn did nothing
  slots,       \* its capacity, made once in Run
  turn,        \* who the running turn is for
  reporting,   \* silent turns whose finishTurn has not reached the channel yet
  causes,      \* turn_causes in Postgres: the latest time of each session's name
  pc, pos, tnow, \* the clock's goroutine: its step, the session, its "now"
  \* Observed by the properties only: the pass that last told each session, the
  \* sessions that may be told again, and those un-marked and not told since.
  toldAt, excused, retry

clock   == <<pc, pos, tnow>>
history == <<toldAt, excused, retry, crashes>>
vars    == <<now, declared, lastRun, emptyTurns, slots, turn, reporting,
             causes, clock, history>>

TypeOK ==
  /\ ReadsTheClock
  /\ declared \in Declarations
  /\ lastRun \in [Names -> Time \cup {Never}]
  /\ emptyTurns \in Seq(Names \cup People)
  /\ slots \in Nat
  /\ Len(emptyTurns) <= slots
  /\ turn \in Names \cup People \cup {Nobody}
  /\ reporting \subseteq Names \cup People
  /\ causes \in [Names -> Time \cup {Never}]
  /\ pc \in {"idle", "scan", "steer", "start", "record"}
  /\ pos \in Nat \ {0}
  /\ pc \notin {"idle", "scan"} => pos \in DOMAIN declared
  /\ tnow \in Time
  /\ toldAt \in [Names -> Time \cup {Never}]
  /\ excused \subseteq Names
  /\ retry \subseteq Names

-----------------------------------------------------------------------------
(* When a session is due.                                                  *)

\* Session.Due: late is allowed for a window with `at`, once a day; one with
\* `every` comes round inside its hours.
Due(s, t, last) ==
  /\ s.days = {} \/ Day(t) % 7 \in s.days
  /\ InWindow(s, t)
  /\ \/ last = Never
     \/ s.at # Never /\ Day(last) # Day(t)
     \/ s.at = Never /\ t - last >= s.every

Declares(d, n) == \E i \in DOMAIN d : d[i].name = n

\* The due sessions the pass has not come to yet.
DueFrom(i) ==
  {j \in DOMAIN declared :
     j >= i /\ Due(declared[j], tnow, lastRun[declared[j].name])}

\* LastRuns since midnight, of the names the declaration knows.
AlreadyRanToday(d, n) ==
  IF Declares(d, n) /\ causes[n] # Never /\ Day(causes[n]) = Day(now)
  THEN causes[n] ELSE Never

-----------------------------------------------------------------------------
(* The start of the process.                                               *)

Init ==
  /\ RunBegins
  /\ declared \in Declarations
  /\ lastRun = [n \in Names |-> Never]
  /\ emptyTurns = <<>>
  /\ slots = Len(declared) + 1
  /\ turn = Nobody
  /\ reporting = {}
  /\ causes = [n \in Names |-> Never]
  /\ pc = "idle"
  /\ pos = 1
  /\ tnow = 0
  /\ toldAt = [n \in Names |-> Never]
  /\ excused = {}
  /\ retry = {}

\* The process ends and is started again on whatever the file holds by then:
\* everything but the record is lost.  A told session the record has no cause
\* for may run again, and so may every one when the record cannot be read.
Crash(d) ==
  /\ RunBeginsAnew
  /\ declared' = d
  /\ slots' = Len(d) + 1
  /\ emptyTurns' = <<>>
  /\ turn' = Nobody
  /\ reporting' = {}
  /\ pc' = "idle" /\ pos' = 1 /\ tnow' = 0
  /\ retry' = {}
  /\ \/ /\ lastRun' = [n \in Names |-> AlreadyRanToday(d, n)]
        /\ excused' = excused \cup {n \in Names : causes[n] < toldAt[n]}
     \/ /\ StoreErrors
        /\ lastRun' = [n \in Names |-> Never]
        /\ excused' = Names
  /\ UNCHANGED <<causes, toldAt>>

\* Watcher.Reread: what is in force after the file was read again.  One that is half
\* saved, or does not check out, leaves the declaration that was.
InForce(file) == IF file \in Declarations THEN file ELSE declared

\* Mutant of Reread: the memory is read from the record anew.
RereadReplaces(d) ==
  /\ pc = "idle"
  /\ d # declared
  /\ declared' = d
  /\ lastRun' = [n \in Names |-> AlreadyRanToday(d, n)]
  /\ UNCHANGED <<now, emptyTurns, slots, turn, reporting, causes, clock, history>>

\* rereadTheDeclaration: the record fills in the names the memory has no entry
\* for.  When it cannot be read the new declaration is in force all the same.
Reread(d) ==
  /\ pc = "idle"
  /\ d # declared
  /\ declared' = d
  /\ \/ /\ lastRun' = [n \in Names |-> IF lastRun[n] = Never
                                       THEN AlreadyRanToday(d, n) ELSE lastRun[n]]
        /\ UNCHANGED excused
     \/ /\ StoreErrors
        /\ excused' = excused \cup {n \in Names : lastRun[n] = Never}
        /\ UNCHANGED lastRun
  /\ UNCHANGED <<now, emptyTurns, slots, turn, reporting, causes, clock,
                 toldAt, retry, crashes>>

-----------------------------------------------------------------------------
(* One pass of fireDue.                                                    *)

\* The names reported empty that are once-a-day windows of this declaration.
ToForget ==
  {declared[i].name : i \in {j \in DOMAIN declared :
     /\ declared[j].at # Never
     /\ \E k \in DOMAIN emptyTurns : emptyTurns[k] = declared[j].name}}

\* The time is read once, and forgetEmptyTurns drains the channel.
Pass ==
  /\ pc = "idle"
  /\ pc' = "scan"
  /\ pos' = 1
  /\ tnow' = now
  /\ emptyTurns' = <<>>
  /\ lastRun' = [n \in Names |-> IF n \in ToForget THEN Never ELSE lastRun[n]]
  /\ excused' = excused \cup ToForget
  /\ retry' = retry \cup ToForget
  /\ UNCHANGED <<now, declared, slots, turn, reporting, causes, toldAt, crashes>>

\* The clock's goroutine is back in its loop, and the locals of the pass gone.
PassReturns == pc' = "idle" /\ pos' = 1 /\ tnow' = 0

PassEnds ==
  /\ pc = "scan"
  /\ DueFrom(pos) = {}
  /\ PassReturns
  /\ UNCHANGED <<now, declared, lastRun, emptyTurns, slots, turn, reporting,
                 causes, history>>

\* The first due session from here on.  A free agent starts it, a running turn
\* is told it when it cannot wait, and otherwise the whole pass is over.
ComesTo ==
  /\ pc = "scan"
  /\ \E i \in DueFrom(pos) :
       /\ \A j \in DueFrom(pos) : i <= j
       /\ IF turn # Nobody /\ ~declared[i].cannotWait
          THEN PassReturns
          ELSE /\ pc' = IF turn = Nobody THEN "start" ELSE "steer"
               /\ pos' = i
               /\ UNCHANGED tnow
  /\ UNCHANGED <<now, declared, lastRun, emptyTurns, slots, turn, reporting,
                 causes, history>>

\* The session's prompt reached the agent; recording and marking it comes next.
Told ==
  LET n == declared[pos].name
  IN /\ toldAt' = [toldAt EXCEPT ![n] = tnow]
     /\ excused' = excused \ {n}
     /\ retry' = retry \ {n}
     /\ pc' = "record"
     /\ UNCHANGED <<now, declared, lastRun, emptyTurns, slots, reporting,
                    causes, pos, tnow, crashes>>

Started ==
  /\ pc = "start"
  /\ turn = Nobody
  /\ turn' = declared[pos].name
  /\ Told

Steered ==
  /\ pc = "steer"
  /\ turn # Nobody
  /\ Told
  /\ UNCHANGED turn

\* Mutant of NotTold: the session is marked before it is known to have started.
NotToldButMarked ==
  /\ pc \in {"start", "steer"}
  /\ PassReturns
  /\ lastRun' = [lastRun EXCEPT ![declared[pos].name] = tnow]
  /\ UNCHANGED <<now, declared, emptyTurns, slots, turn, reporting, causes, history>>

\* The place was taken, the agent refused, or the turn to be told had ended:
\* the session is not marked and the pass is over.
NotTold ==
  /\ pc \in {"start", "steer"}
  /\ PassReturns
  /\ UNCHANGED <<now, declared, lastRun, emptyTurns, slots, turn, reporting,
                 causes, history>>

\* TurnStarted or AppendTurnCause with the time it is by now, then the mark with
\* the time of the pass.  A write that fails does not keep the mark back.
Marked ==
  /\ pc = "record"
  /\ LET n == declared[pos].name
     IN /\ lastRun' = [lastRun EXCEPT ![n] = tnow]
        /\ \/ causes' = [causes EXCEPT ![n] = now]
           \/ StoreErrors /\ UNCHANGED causes
  /\ pos' = pos + 1
  /\ pc' = "scan"
  /\ UNCHANGED <<now, declared, emptyTurns, slots, turn, reporting, tnow, history>>

-----------------------------------------------------------------------------
(* What happens beside the clock.                                          *)

\* A person, a wake-up or the ladder starts a turn.  Its cause is recorded under
\* a name that is no session's.
OtherStarts(p) ==
  /\ turn = Nobody
  /\ turn' = p
  /\ UNCHANGED <<now, declared, lastRun, emptyTurns, slots, reporting, causes,
                 clock, history>>

\* finishTurn, or the watcher that cuts a turn; one that finishTurn finds to have
\* done nothing will be reported.
TurnEnds(silent) ==
  /\ turn # Nobody
  /\ turn' = Nobody
  /\ reporting' = IF silent THEN reporting \cup {turn} ELSE reporting
  /\ UNCHANGED <<now, declared, lastRun, emptyTurns, slots, causes, clock, history>>

\* Mutant of Report: the name is queued whatever the channel holds.
ReportUnbounded(n) ==
  /\ n \in reporting
  /\ reporting' = reporting \ {n}
  /\ emptyTurns' = Append(emptyTurns, n)
  /\ UNCHANGED <<now, declared, lastRun, slots, turn, causes, clock, history>>

\* finishTurn tells the clock, and a full channel drops the name.
Report(n) ==
  /\ n \in reporting
  /\ reporting' = reporting \ {n}
  /\ emptyTurns' = IF Len(emptyTurns) < slots THEN Append(emptyTurns, n) ELSE emptyTurns
  /\ UNCHANGED <<now, declared, lastRun, slots, turn, causes, clock, history>>

\* One call to the agent is bounded, and so is a pass.
Advance ==
  /\ MomentPasses
  /\ pc = "idle" \/ now < tnow + PassLimit
  /\ UNCHANGED <<declared, lastRun, emptyTurns, slots, turn, reporting, causes,
                 clock, history>>

Next ==
  \/ \E d \in Declarations : Crash(d)
  \/ \E file \in Files : Reread(InForce(file))
  \/ Pass \/ PassEnds \/ ComesTo \/ Started \/ Steered \/ NotTold \/ Marked
  \/ \E p \in People : OtherStarts(p)
  \/ \E silent \in BOOLEAN : TurnEnds(silent)
  \/ \E n \in Names \cup People : Report(n)
  \/ Advance

Spec == Init /\ [][Next]_vars

-----------------------------------------------------------------------------
(* Properties.                                                             *)

\* fireDue: "Marked as run only when it ran. A session recorded against a turn
\* that never started would be skipped for the rest of the day."  Whatever
\* crashes, rereads and silent turns come between, a session remembered as run
\* today was put in front of the agent today.
MarkedMeansTold ==
  \A n \in Names :
    lastRun[n] # Never /\ Day(lastRun[n]) = Day(now)
      => toldAt[n] # Never /\ Day(toldAt[n]) = Day(now)

Spaced(s, t, last) ==
  \/ last = Never
  \/ Day(last) # Day(t)
  \/ s.at = Never /\ t - last >= s.every

MayBeTold(s) == s.name \in excused \/ Spaced(s, tnow, toldAt[s.name])

\* No session is told twice: a once-a-day window not on the same day and a
\* repeating one not before its time is up, through restarts, edits of the
\* declaration and sessions said into another's turn.  Excused are the windows
\* whose turn was found silent, and what the record never heard of before the
\* process ended or cannot tell.
RepeatsAreExcused ==
  [][pc' = "record" /\ pc \in {"start", "steer"} =>
       MayBeTold(declared[pos])]_vars

\* The inductive invariant behind the two.  A pass works with a time that is at
\* most a pass old, and nothing it compares with is from after it...
PassIsRecent ==
  /\ \A n \in Names : lastRun[n] <= now /\ toldAt[n] <= now /\ causes[n] <= now
  /\ pc # "idle" =>
       /\ tnow <= now /\ now <= tnow + PassLimit
       /\ \A n \in Names : lastRun[n] <= tnow /\ toldAt[n] <= tnow

\* ... the session in hand is due still, and the one told is being recorded...
Pending(n) == pc = "record" /\ declared[pos].name = n
InHand ==
  /\ pc \in {"start", "steer"} =>
       Due(declared[pos], tnow, lastRun[declared[pos].name])
  /\ pc = "record" =>
       /\ InWindow(declared[pos], tnow)
       /\ toldAt[declared[pos].name] = tnow

\* ... what is remembered or recorded was told, that day or later...
MarksAreTold ==
  \A n \in Names :
    /\ lastRun[n] # Never => toldAt[n] # Never /\ Day(lastRun[n]) <= Day(toldAt[n])
    /\ causes[n] # Never => toldAt[n] # Never /\ Day(causes[n]) <= Day(toldAt[n])

\* ... and what was told is not forgotten without an excuse: the memory has it,
\* or the record still does, and for a session declared today the memory.
ToldIsKept ==
  \A n \in Names :
    n \notin excused /\ toldAt[n] # Never /\ ~Pending(n) =>
      /\ lastRun[n] >= toldAt[n] \/ (lastRun[n] = Never /\ causes[n] >= toldAt[n])
      /\ Declares(declared, n) /\ Day(toldAt[n]) = Day(now) => lastRun[n] >= toldAt[n]

ScheduleInv ==
  TypeOK /\ PassIsRecent /\ InHand /\ MarksAreTold /\ ToldIsKept

\* forgetEmptyTurns: "un-marks a once-a-day window whose turn produced nothing,
\* so the next tick starts it again", and rereadTheDeclaration: what the record
\* says "fills in the names that are new, and only those".
SilentStaysDue == \A n \in retry : lastRun[n] = Never

\* A session that cannot wait "goes into whatever turn is already running
\* instead of waiting for a free agent": no pass gives up on a running turn with
\* such a session due and not said into it.
CannotWaitIsSaid ==
  [][pc = "scan" /\ pc' = "idle" /\ crashes' = crashes =>
       ~\E i \in DueFrom(1) : declared[i].cannotWait]_vars

=============================================================================
