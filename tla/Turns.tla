------------------------------- MODULE Turns -------------------------------
(***************************************************************************)
(* The life of a turn in golang/internal/harness/harness.go.               *)
(*                                                                         *)
(* One agent works one brokerage account, and a turn is the agent at work. *)
(* Several goroutines may want a turn at the same moment: the clock (a     *)
(* session is due, or a wake-up fired), the room (a person wrote) and the  *)
(* execution ladder (an order was cancelled or filled).  Others end one:   *)
(* the follower reads the agent's events, and the watcher cuts a turn that *)
(* outlived TURN_LIMIT.  They share the fields of Harness under h.mu, but  *)
(* none of them holds the lock across a call to the agent, the record or   *)
(* the chat, so each goroutine is a sequence of small steps here, broken   *)
(* exactly where the code gives up the lock or makes such a call.          *)
(*                                                                         *)
(* Left out here: which session is due and what counts as having run       *)
(* (module Schedule), what a wake-up waits for (module Wakeups), the       *)
(* wording of prompts, the status line and the typing cue.                 *)
(***************************************************************************)
EXTENDS Naturals, Sequences, FiniteSets

CONSTANTS
  Tellers,           \* goroutines that call Tell or handle: the room, the ladder
  Room,              \* the one of them that also serves /stop
  Clock,             \* keepTheClock's goroutine
  MaxTurns,          \* bound: turns the agent ever starts
  EventBuffer,       \* agent.eventBuffer: events beyond it are dropped
  InterruptAttempts, \* refusals in a row before the process ends itself
  BrokerlessLimit,   \* brokerlessBeforeFresh
  MaxCrashes,        \* bound: crashes from outside the harness
  TurnLimited,       \* TURN_LIMIT is set, so the watcher runs
  ReportsToolCalls,  \* the driver streams tool calls: codex does, the mailbox not
  AgentErrors,       \* a call to the agent may fail whatever the agent did
  StoreErrors        \* a write to the record may fail

Callers  == Tellers \cup {Clock}
Follower == "follower"
Actors   == Callers \cup {Follower}
Turn     == 1..MaxTurns
NoTurn   == 0

ASSUME CallersAssumption ==
  /\ Room \in Tellers
  /\ Clock \notin Tellers
  /\ Follower \notin Callers

ASSUME BoundsAssumption ==
  /\ MaxTurns \in Nat
  /\ EventBuffer \in Nat
  /\ MaxCrashes \in Nat
  /\ InterruptAttempts \in Nat \ {0}
  /\ BrokerlessLimit \in Nat \ {0}
  /\ {TurnLimited, ReportsToolCalls, AgentErrors, StoreErrors} \subseteq BOOLEAN

VARIABLES
  \* The fields of Harness under h.mu.
  turnID, opening, finishedBeforePublished,
  turnActed, brokerCalled, brokerless, refusedInterrupts,
  \* Where each caller stands: the step, why it is there, the turn in hand
  \* and the turn it believes is over.
  pc, mode, held, stale,
  \* A finishTurn under way, one at most per actor, and the watcher.
  fin, wpc, wid,
  \* The agent: turns at work, turns on the conversation's thread, the
  \* stream of events and the next identifier.
  live, reachable, events, nextTurn,
  \* The turns table in Postgres.
  rows,
  \* Observed by the properties only.
  spoke, mistaken, crashes

harness == <<turnID, opening, finishedBeforePublished,
             turnActed, brokerCalled, brokerless, refusedInterrupts>>
callers == <<pc, mode, held, stale>>
watcher == <<wpc, wid>>
agent   == <<live, reachable, events, nextTurn>>
history == <<spoke, mistaken, crashes>>
vars    == <<harness, callers, fin, watcher, agent, rows, history>>

-----------------------------------------------------------------------------
(* Types.                                                                  *)

Steps    == {"idle", "steer", "claim", "wait",
             "turn", "publish", "record", "settle", "finish", "release"}
\* From a successful claim until release: the place is this caller's.
Holding  == {"turn", "publish", "record", "settle", "finish", "release"}
Modes    == {"first", "late", "second", "due"}
RowState == {"none", "open", "done", "silent", "overran", "restarted"}
NoFinish == [step |-> "idle", id |-> NoTurn,
             acted |-> FALSE, reached |-> FALSE]
Finish   == [step : {"idle", "rest"}, id : Turn \cup {NoTurn},
             acted : BOOLEAN, reached : BOOLEAN]
Event    == [kind : {"text", "broker", "done"}, turn : Turn]

TypeOK ==
  /\ turnID \in Turn \cup {NoTurn}
  /\ opening \in BOOLEAN
  /\ finishedBeforePublished \in Turn \cup {NoTurn}
  /\ turnActed \in BOOLEAN
  /\ brokerCalled \in BOOLEAN
  /\ brokerless \in Nat
  /\ refusedInterrupts \in Nat
  /\ pc \in [Callers -> Steps]
  /\ mode \in [Callers -> Modes]
  /\ held \in [Callers -> Turn \cup {NoTurn}]
  /\ stale \in [Callers -> Turn \cup {NoTurn}]
  /\ fin \in [Actors -> Finish]
  /\ wpc \in {"idle", "interrupt", "row", "clear"}
  /\ wid \in Turn \cup {NoTurn}
  /\ live \subseteq Turn
  /\ reachable \subseteq Turn
  /\ events \in Seq(Event) /\ Len(events) <= EventBuffer
  /\ nextTurn \in 1..(MaxTurns + 1)
  /\ rows \in [Turn -> RowState]
  /\ spoke \subseteq Turn
  /\ mistaken \subseteq {"steer", "start", "clear"}
  /\ crashes \in Nat

Init ==
  /\ turnID = NoTurn
  /\ opening = FALSE
  /\ finishedBeforePublished = NoTurn
  /\ turnActed = FALSE
  /\ brokerCalled = FALSE
  /\ brokerless = 0
  /\ refusedInterrupts = 0
  /\ pc = [c \in Callers |-> "idle"]
  /\ mode = [c \in Callers |-> "first"]
  /\ held = [c \in Callers |-> NoTurn]
  /\ stale = [c \in Callers |-> NoTurn]
  /\ fin = [a \in Actors |-> NoFinish]
  /\ wpc = "idle"
  /\ wid = NoTurn
  /\ live = {}
  /\ reachable = {}
  /\ events = <<>>
  /\ nextTurn = 1
  /\ rows = [t \in Turn |-> "none"]
  /\ spoke = {}
  /\ mistaken = {}
  /\ crashes = 0

-----------------------------------------------------------------------------
(* Helpers.                                                                *)

\* Mutant of Emit: the stream is taken to be as long as it needs to be.
EmitUnbounded(kind, t) == Append(events, [kind |-> kind, turn |-> t])

\* The events channel is written without blocking: a full one drops the event.
Emit(kind, t) ==
  IF Len(events) < EventBuffer
  THEN Append(events, [kind |-> kind, turn |-> t])
  ELSE events

\* UPDATE turns ... WHERE turn_ref = ref: no row, no effect.
TurnFinished(t, how) ==
  IF rows[t] = "none" THEN rows ELSE [rows EXCEPT ![t] = how]

\* A caller goes to step p, why m, with turn h in hand and turn o given up on.
Goes(c, p, m, h, o) ==
  /\ pc' = [pc EXCEPT ![c] = p]
  /\ mode' = [mode EXCEPT ![c] = m]
  /\ held' = [held EXCEPT ![c] = h]
  /\ stale' = [stale EXCEPT ![c] = o]

Returns(c) == Goes(c, "idle", "first", NoTurn, NoTurn)

\* Where a caller goes when it could neither start a turn nor say its prompt:
\* Tell and handle wait for the turn being opened, then try once more, then
\* give up; fireDue returns, and the session stays due.
NotStarted(c) ==
  IF mode[c] = "first" THEN Goes(c, "wait", "first", NoTurn, NoTurn) ELSE Returns(c)

-----------------------------------------------------------------------------
(* Tell and handle: say it into the running turn, or start one.            *)

\* (Bound: nobody asks once the last turn is out.)
Begin(c) ==
  /\ pc[c] = "idle"
  /\ nextTurn <= MaxTurns
  /\ Goes(c, IF turnID # NoTurn THEN "steer" ELSE "claim", "first", turnID, NoTurn)
  /\ UNCHANGED <<harness, fin, watcher, agent, rows, history>>

\* The agent takes the message into the turn it names.
SteerTaken(c) ==
  /\ pc[c] = "steer"
  /\ held[c] \in live \cap reachable
  /\ Returns(c)
  /\ UNCHANGED <<harness, fin, watcher, agent, rows, history>>

\* The steer failed.  The agent refuses a turn that has ended, and one that is
\* not on the thread it is given; a call can also fail on its deadline, taken
\* or not.  Tell and handle treat every error as proof that the turn is over.
SteerFailed(c) ==
  /\ pc[c] = "steer"
  /\ held[c] \notin live \cap reachable \/ AgentErrors
  /\ \/ mode[c] = "first" /\ Goes(c, "claim", "first", NoTurn, held[c])
     \/ mode[c] = "late" /\ Goes(c, "claim", "second", NoTurn, NoTurn)
     \/ mode[c] = "due" /\ Returns(c)
  /\ mistaken' = IF mode[c] = "first" /\ held[c] \in live
                 THEN mistaken \cup {"steer"} ELSE mistaken
  /\ UNCHANGED <<harness, fin, watcher, agent, rows, spoke, crashes>>

\* steerWhenReady: a turn got its id, or nobody is opening one any more, or the
\* wait ran out on one that was still being opened.
WaitReady(c) ==
  /\ pc[c] = "wait"
  /\ \/ turnID # NoTurn /\ Goes(c, "steer", "late", turnID, NoTurn)
     \/ (turnID = NoTurn \/ opening) /\ Goes(c, "claim", "second", NoTurn, NoTurn)
  /\ UNCHANGED <<harness, fin, watcher, agent, rows, history>>

-----------------------------------------------------------------------------
(* startTurnReplacing: claim the place, start the turn, publish its id,    *)
(* record it, reset what is known of it, and give the place up.            *)

\* Mutant of MayClaim: only a published turn holds the place.
MayClaimOverOpening(c) == turnID = NoTurn \/ turnID = stale[c]

\* Mutant of MayClaim: only a turn being opened holds the place.
MayClaimOverRunning(c) == ~opening

\* Mutant of MayClaim: a caller whose turn is over takes whatever runs by now.
MayClaimAny(c) == ~opening /\ (turnID = NoTurn \/ stale[c] # NoTurn)

MayClaim(c) == ~opening /\ (turnID = NoTurn \/ turnID = stale[c])

Claim(c) ==
  /\ pc[c] = "claim"
  /\ IF MayClaim(c)
     THEN /\ opening' = TRUE
          /\ Goes(c, "turn", mode[c], NoTurn, NoTurn)
     ELSE /\ NotStarted(c)
          /\ UNCHANGED opening
  /\ UNCHANGED <<turnID, finishedBeforePublished, turnActed, brokerCalled,
                 brokerless, refusedInterrupts, fin, watcher, agent, rows,
                 history>>

\* Conversation.Turn answered with an id.  openThread is part of this step: it
\* can only fail, and fails the way Turn does.
TurnAnswered(c) ==
  /\ pc[c] = "turn"
  /\ nextTurn <= MaxTurns
  /\ pc' = [pc EXCEPT ![c] = "publish"]
  /\ held' = [held EXCEPT ![c] = nextTurn]
  /\ live' = live \cup {nextTurn}
  /\ reachable' = reachable \cup {nextTurn}
  /\ nextTurn' = nextTurn + 1
  /\ UNCHANGED <<harness, mode, stale, fin, watcher, events, rows, spoke,
                 mistaken, crashes>>

\* Mutant of TurnRefused: the early return forgets to give the place up.
TurnRefusedKeepsPlace(c) ==
  /\ pc[c] = "turn"
  /\ NotStarted(c)
  /\ UNCHANGED <<harness, fin, watcher, agent, rows, history>>

\* The agent would not start the turn: release runs and the caller is told.
TurnRefused(c) ==
  /\ pc[c] = "turn"
  /\ opening' = FALSE
  /\ NotStarted(c)
  /\ UNCHANGED <<turnID, finishedBeforePublished, turnActed, brokerCalled,
                 brokerless, refusedInterrupts, fin, watcher, agent, rows,
                 history>>

\* The call failed on its deadline although the agent did start the turn: it
\* is at work under an id nobody here holds.
TurnAnswerLost(c) ==
  /\ pc[c] = "turn"
  /\ AgentErrors
  /\ nextTurn <= MaxTurns
  /\ opening' = FALSE
  /\ NotStarted(c)
  /\ live' = live \cup {nextTurn}
  /\ reachable' = reachable \cup {nextTurn}
  /\ nextTurn' = nextTurn + 1
  /\ mistaken' = mistaken \cup {"start"}
  /\ UNCHANGED <<turnID, finishedBeforePublished, turnActed, brokerCalled,
                 brokerless, refusedInterrupts, fin, watcher, events,
                 rows, spoke, crashes>>

Publish(c) ==
  /\ pc[c] = "publish"
  /\ pc' = [pc EXCEPT ![c] = "record"]
  /\ turnID' = held[c]
  /\ UNCHANGED <<opening, finishedBeforePublished, turnActed, brokerCalled,
                 brokerless, refusedInterrupts, mode, held, stale, fin,
                 watcher, agent, rows, history>>

\* TurnStarted: the turn and what opened it, in one transaction.
RecordStart(c) ==
  /\ pc[c] = "record"
  /\ pc' = [pc EXCEPT ![c] = "settle"]
  /\ \/ rows' = [rows EXCEPT ![held[c]] = "open"]
     \/ StoreErrors /\ UNCHANGED rows
  /\ UNCHANGED <<harness, mode, held, stale, fin, watcher, agent, history>>

\* Only now is what the last turn did forgotten, and in a lock of its own: what
\* another goroutine does between it and the check that follows commutes with
\* one of the two.  A turn that ended before its
\* name arrived is left for its opener to finish; any other gives up the place.
Settle(c) ==
  /\ pc[c] = "settle"
  /\ turnActed' = FALSE
  /\ brokerCalled' = FALSE
  /\ IF finishedBeforePublished = held[c]
     THEN /\ pc' = [pc EXCEPT ![c] = "finish"]
          /\ finishedBeforePublished' = NoTurn
          /\ UNCHANGED <<opening, mode, held, stale>>
     ELSE /\ opening' = FALSE
          /\ Returns(c)
          /\ UNCHANGED finishedBeforePublished
  /\ UNCHANGED <<turnID, brokerless, refusedInterrupts, fin, watcher, agent,
                 rows, history>>

-----------------------------------------------------------------------------
(* finishTurn, by the follower or by the turn's own opener.                *)

\* The part under the lock.  A turn that is not the running one is ignored,
\* unless a turn is being opened: then it may be that one.
FinishLocked(a, t) ==
  IF t # turnID
  THEN /\ finishedBeforePublished' = IF opening THEN t ELSE finishedBeforePublished
       /\ UNCHANGED <<turnID, fin>>
  ELSE /\ turnID' = NoTurn
       /\ fin' = [fin EXCEPT ![a] = [step |-> "rest", id |-> t,
                                     acted |-> turnActed, reached |-> brokerCalled]]
       /\ UNCHANGED finishedBeforePublished

\* The opener's own finishTurn, deferred behind its start.
OpenerFinishes(c) ==
  /\ pc[c] = "finish"
  /\ FinishLocked(c, held[c])
  /\ pc' = [pc EXCEPT ![c] = "release"]
  /\ UNCHANGED <<opening, turnActed, brokerCalled, brokerless,
                 refusedInterrupts, mode, held, stale, watcher, agent,
                 rows, spoke, mistaken, crashes>>

\* The release deferred before that.
Release(c) ==
  /\ pc[c] = "release"
  /\ fin[c].step = "idle"
  /\ opening' = FALSE
  /\ Returns(c)
  /\ UNCHANGED <<turnID, finishedBeforePublished, turnActed, brokerCalled,
                 brokerless, refusedInterrupts, fin, watcher, agent, rows,
                 history>>

\* The part after the lock, behind several posts to the chat.  The row is closed
\* and checkBrokerReach runs: turns that acted without reaching the broker cost
\* the conversation, whatever turn has been started on it since.  Nothing another
\* goroutine does can come between the two and be told apart.
FinishRest(a) ==
  /\ fin[a].step = "rest"
  /\ fin' = [fin EXCEPT ![a] = NoFinish]
  /\ \/ rows' = TurnFinished(fin[a].id, IF fin[a].acted THEN "done" ELSE "silent")
     \/ StoreErrors /\ UNCHANGED rows
  /\ LET blind == ReportsToolCalls /\ fin[a].acted /\ ~fin[a].reached
         fresh == blind /\ brokerless + 1 >= BrokerlessLimit
     IN /\ brokerless' = IF ~fin[a].acted THEN brokerless
                         ELSE IF blind /\ ~fresh THEN brokerless + 1 ELSE 0
        /\ reachable' = IF fresh THEN {} ELSE reachable
  /\ UNCHANGED <<turnID, opening, finishedBeforePublished, turnActed,
                 brokerCalled, refusedInterrupts, callers, watcher, live,
                 events, nextTurn, history>>

-----------------------------------------------------------------------------
(* followTheSession.                                                       *)

\* A message or a started call marks the running turn, whichever turn it came
\* from; a call to the broker marks that it was reached.
FollowActed ==
  /\ fin[Follower].step = "idle"
  /\ events # <<>>
  /\ Head(events).kind # "done"
  /\ events' = Tail(events)
  /\ turnActed' = TRUE
  /\ brokerCalled' = (brokerCalled \/ Head(events).kind = "broker")
  /\ UNCHANGED <<turnID, opening, finishedBeforePublished, brokerless,
                 refusedInterrupts, callers, fin, watcher, live,
                 reachable, nextTurn, rows, history>>

FollowDone ==
  /\ fin[Follower].step = "idle"
  /\ events # <<>>
  /\ Head(events).kind = "done"
  /\ events' = Tail(events)
  /\ FinishLocked(Follower, Head(events).turn)
  /\ UNCHANGED <<opening, turnActed, brokerCalled, brokerless,
                 refusedInterrupts, callers, watcher, live, reachable,
                 nextTurn, rows, spoke, mistaken, crashes>>

-----------------------------------------------------------------------------
(* The clock: fireDue, for one due session.  Behind a running turn it only *)
(* speaks when the session cannot wait; it takes over nothing.             *)

FireDue ==
  /\ pc[Clock] = "idle"
  /\ Goes(Clock, IF turnID # NoTurn THEN "steer" ELSE "claim", "due", turnID, NoTurn)
  /\ UNCHANGED <<harness, fin, watcher, agent, rows, history>>

-----------------------------------------------------------------------------
(* The agent.  It is a child process, driven over its standard streams.    *)

\* It says something or starts a call: at most once per turn here.
AgentActs(t) ==
  /\ t \in live \ spoke
  /\ spoke' = spoke \cup {t}
  /\ \E kind \in {"text"} \cup (IF ReportsToolCalls THEN {"broker"} ELSE {}) :
       events' = Emit(kind, t)
  /\ UNCHANGED <<harness, callers, fin, watcher, live, reachable, nextTurn,
                 rows, mistaken, crashes>>

AgentEnds(t) ==
  /\ t \in live
  /\ live' = live \ {t}
  /\ events' = Emit("done", t)
  /\ UNCHANGED <<harness, callers, fin, watcher, reachable, nextTurn, rows,
                 history>>

\* Interrupt reached the turn: it ends and says so.
Interrupted(t) ==
  /\ t \in live \cap reachable
  /\ live' = live \ {t}
  /\ events' = Emit("done", t)

-----------------------------------------------------------------------------
(* /stop.  A turn that is stopped is left to the follower to finish; one   *)
(* that cannot be is only talked about.                                    *)

Stop ==
  /\ pc[Room] = "idle"
  /\ Interrupted(turnID)
  /\ UNCHANGED <<harness, callers, fin, watcher, reachable, nextTurn, rows,
                 history>>

-----------------------------------------------------------------------------
(* endAnOverrunningTurn.                                                   *)

WatchLooks ==
  /\ TurnLimited
  /\ wpc = "idle"
  /\ turnID # NoTurn
  /\ wpc' = "interrupt"
  /\ wid' = turnID
  /\ UNCHANGED <<harness, callers, fin, agent, rows, history>>

\* The agent gave the turn up, or says there is none: both are answers.
WatchInterrupts ==
  /\ wpc = "interrupt"
  /\ \/ Interrupted(wid)
     \/ /\ wid \in reachable \ live
        /\ UNCHANGED <<live, events>>
  /\ refusedInterrupts' = 0
  /\ wpc' = "row"
  /\ UNCHANGED <<turnID, opening, finishedBeforePublished, turnActed,
                 brokerCalled, brokerless, callers, fin, wid, reachable,
                 nextTurn, rows, history>>

\* The call failed and the process still has patience.
WatchRefused ==
  /\ wpc = "interrupt"
  /\ wid \notin reachable \/ AgentErrors
  /\ refusedInterrupts + 1 < InterruptAttempts
  /\ refusedInterrupts' = refusedInterrupts + 1
  /\ wpc' = "idle"
  /\ wid' = NoTurn
  /\ UNCHANGED <<turnID, opening, finishedBeforePublished, turnActed,
                 brokerCalled, brokerless, callers, fin, agent, rows,
                 history>>

WatchRow ==
  /\ wpc = "row"
  /\ wpc' = "clear"
  /\ \/ rows' = TurnFinished(wid, "overran")
     \/ StoreErrors /\ UNCHANGED rows
  /\ UNCHANGED <<harness, callers, fin, wid, agent, history>>

\* Mutant of WatchClears: the follower will clear the turn when it ends.
WatchLeavesTheTurn ==
  /\ wpc = "clear"
  /\ wpc' = "idle"
  /\ wid' = NoTurn
  /\ UNCHANGED <<harness, callers, fin, agent, rows, history>>

\* clearTurn forgets the running turn, whichever it is by now.
WatchClears ==
  /\ wpc = "clear"
  /\ wpc' = "idle"
  /\ wid' = NoTurn
  /\ turnID' = NoTurn
  /\ mistaken' = IF turnID \in live THEN mistaken \cup {"clear"} ELSE mistaken
  /\ UNCHANGED <<opening, finishedBeforePublished, turnActed, brokerCalled,
                 brokerless, refusedInterrupts, callers, fin, agent, rows,
                 spoke, crashes>>

-----------------------------------------------------------------------------
(* The end of the process.  The agent dies with it; the record does not.   *)
(* The next start closes the turns left open and asks the record which     *)
(* sessions already ran today.                                             *)

Restart ==
  /\ turnID' = NoTurn
  /\ opening' = FALSE
  /\ finishedBeforePublished' = NoTurn
  /\ turnActed' = FALSE
  /\ brokerCalled' = FALSE
  /\ brokerless' = 0
  /\ refusedInterrupts' = 0
  /\ pc' = [c \in Callers |-> "idle"]
  /\ mode' = [c \in Callers |-> "first"]
  /\ held' = [c \in Callers |-> NoTurn]
  /\ stale' = [c \in Callers |-> NoTurn]
  /\ fin' = [a \in Actors |-> NoFinish]
  /\ wpc' = "idle"
  /\ wid' = NoTurn
  /\ live' = {}
  /\ reachable' = {}
  /\ events' = <<>>
  /\ rows' = [t \in Turn |-> IF rows[t] = "open" THEN "restarted" ELSE rows[t]]
  /\ UNCHANGED <<nextTurn, spoke, mistaken>>

\* Log.Fatal after the last refusal.
WatchGivesUp ==
  /\ wpc = "interrupt"
  /\ wid \notin reachable \/ AgentErrors
  /\ refusedInterrupts + 1 >= InterruptAttempts
  /\ Restart
  /\ UNCHANGED crashes

Crash ==
  /\ crashes < MaxCrashes
  /\ crashes' = crashes + 1
  /\ Restart

-----------------------------------------------------------------------------
CallerStep(c) ==
  \/ SteerTaken(c) \/ SteerFailed(c) \/ WaitReady(c)
  \/ Claim(c) \/ TurnAnswered(c) \/ TurnRefused(c) \/ TurnAnswerLost(c)
  \/ Publish(c) \/ RecordStart(c) \/ Settle(c)
  \/ OpenerFinishes(c) \/ Release(c)

WatchStep ==
  \/ WatchLooks \/ WatchInterrupts \/ WatchRefused \/ WatchRow \/ WatchClears
  \/ WatchGivesUp

Next ==
  \/ \E c \in Callers : Begin(c) \/ CallerStep(c)
  \/ \E a \in Actors : FinishRest(a)
  \/ FollowActed \/ FollowDone
  \/ FireDue
  \/ \E t \in Turn : AgentActs(t) \/ AgentEnds(t)
  \/ Stop
  \/ WatchStep
  \/ Crash

Spec == Init /\ [][Next]_vars

\* Every goroutine that has something to do goes on doing it, and the watcher
\* asks every second.  The agent is owed nothing: a turn may never end, and no
\* person, wake-up or schedule has to come.
FairSpec ==
  /\ Spec
  /\ \A c \in Callers : WF_vars(CallerStep(c))
  /\ \A a \in Actors : WF_vars(FinishRest(a))
  /\ WF_vars(FollowActed \/ FollowDone)
  /\ WF_vars(WatchStep)

-----------------------------------------------------------------------------
(* Properties.                                                             *)

\* claim and release: the right to start a turn is one goroutine's at a time,
\* and the flag says exactly whether somebody has it, through every early
\* return, refusal and takeover.
OpeningIsExclusive ==
  /\ opening <=> \E c \in Callers : pc[c] \in Holding
  /\ \A c, d \in Callers : pc[c] \in Holding /\ pc[d] \in Holding => c = d

\* Two turns never work the account together.  README.md and the comments of
\* claim and Tell promise it outright.
NeverTwoTurns == \A t, u \in live : t = u

\* What the code does keep of that promise, whatever the clock, the room, the
\* ladder, the follower and the watcher do at the same moment: two turns are at
\* work only after one of three named mistakes - a failed steer taken as proof
\* that a live turn is over ("steer"), a start whose answer was lost ("start"),
\* or a watcher that cleared a turn it had not interrupted ("clear").
OneTurnUnlessMistaken == mistaken = {} => NeverTwoTurns

\* A turn whose place was taken by a claim is over: what the harness holds as
\* running while a new turn is being opened is never at work.
TakeoverOnlyOfTheDead ==
  mistaken = {} =>
    \A c \in Callers : pc[c] \in {"turn", "publish"} => turnID \notin live

\* The inductive invariant behind the three.  Identifiers are never used again...
IdsAreOld ==
  /\ turnID < nextTurn
  /\ finishedBeforePublished < nextTurn
  /\ wid < nextTurn
  /\ \A c \in Callers : held[c] < nextTurn /\ stale[c] < nextTurn
  /\ \A t \in live : t < nextTurn
  /\ \A i \in DOMAIN events : events[i].turn < nextTurn

\* ... a turn the agent reported as ended is not at work...
DoneIsDead ==
  /\ finishedBeforePublished \notin live
  /\ \A i \in DOMAIN events : events[i].kind = "done" => events[i].turn \notin live
  /\ \A c \in Callers : pc[c] = "finish" => held[c] \notin live

\* ... and until a mistake is made, what a caller gave up on is over, and a turn
\* at work is the one published or the one about to be.
NothingIsLost ==
  mistaken = {} =>
    /\ \A c \in Callers : pc[c] = "claim" => stale[c] \notin live
    /\ \A t \in live :
         t = turnID \/ \E c \in Callers : pc[c] = "publish" /\ held[c] = t

PlaceInv ==
  /\ OpeningIsExclusive
  /\ IdsAreOld
  /\ DoneIsDead
  /\ TakeoverOnlyOfTheDead
  /\ NothingIsLost

\* finishTurn: a turn recorded as having said and called nothing did say and
\* call nothing ("turnActed records whether the agent said or called ANYTHING
\* this turn").
SilentMeansSilent == \A t \in spoke : rows[t] # "silent"

\* With a limit on turns, no turn is held as running for ever: not when its
\* completion was dropped, not when the agent will not give it up.
EveryTurnIsLetGo == \A t \in Turn : turnID = t ~> turnID # t

\* Nobody keeps the place of the turn being opened for ever.
ThePlaceIsGivenUp == opening ~> ~opening

=============================================================================
