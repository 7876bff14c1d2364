------------------------------ MODULE Mailbox ------------------------------
(***************************************************************************)
(* The conversation with a session run elsewhere:                          *)
(* golang/internal/mailbox/mailbox.go.                                     *)
(*                                                                         *)
(* The harness parks turns, words and requests to stop in a queue; whoever *)
(* holds the token polls for them and posts back what the session said.    *)
(* Everything under Mailbox.mu is one action; what a goroutine emits to    *)
(* the harness after it gave the lock up is a step of its own.  Names of   *)
(* turns are their numbers: the counter outlives Forget, so the thread in  *)
(* a name tells nothing more, and Open and Forget change the thread only.  *)
(***************************************************************************)
EXTENDS Integers, Sequences, FiniteSets, SequencesExt

CONSTANTS
  Polls,         \* requests of the client that may be held open together
  Stale,         \* Mailbox.Stale, in seconds
  EventBuffer,   \* eventBuffer
  MaxTurns,      \* bound: turns started
  MaxQueue,      \* bound: deliveries parked at once
  MaxTime        \* bound: the last moment

Second == 1
Turn   == 1..MaxTurns
Time   == 0..MaxTime

\* The period of Run.
Every == LET quarter == Stale \div 4
         IN  IF quarter < Second THEN Second ELSE quarter

ASSUME MailboxAssumption ==
  /\ Stale \in Nat \ {0} /\ EventBuffer \in Nat \ {0}
  /\ MaxTurns \in Nat /\ MaxQueue \in Nat /\ MaxTime \in Nat

VARIABLES
  now, tick,   \* the wall clock, and when the ticker of Run fires next
  counter,     \* turns started
  running,     \* the turns the harness believes are in flight
  queue,       \* deliveries, the oldest first
  events,      \* the channel to the harness
  pc, hand,    \* per poll: where it is, and what it took from the queue
  expiring,    \* what expire has still to emit
  owed,        \* what every other goroutine has still to emit after the lock
  \* The client, and what only properties observe: turns handed to it, turns
  \* whose handing over failed, and completions the harness has read.
  took, lost, told

calls == <<pc, hand>>
seen  == <<took, lost, told>>
vars  == <<now, tick, counter, running, queue, events, calls, expiring, owed, seen>>

Delivery == [kind : {"turn", "steer", "interrupt"}, turn : Turn, at : Time]
Event    == [kind : {"text", "done"}, turn : Turn]

Text(t) == [kind |-> "text", turn |-> t]
Done(t) == [kind |-> "done", turn |-> t]

TypeOK ==
  /\ now \in Time /\ tick \in Nat
  /\ counter \in 0..MaxTurns
  /\ running \subseteq Turn
  /\ queue \in Seq(Delivery) /\ Len(queue) <= MaxQueue
  /\ events \in Seq(Event) /\ Len(events) <= EventBuffer
  /\ pc \in [Polls -> {"idle", "waits", "writes"}]
  /\ hand \in [Polls -> Seq(Delivery)]
  /\ \A p \in Polls : Len(hand[p]) = (IF pc[p] = "writes" THEN 1 ELSE 0)
  /\ expiring \in Seq(Event) /\ owed \subseteq Seq(Event) \ {<<>>}
  /\ took \subseteq Turn /\ lost \subseteq Turn /\ told \subseteq Turn

Init ==
  /\ now = 0 /\ tick = Every
  /\ counter = 0 /\ running = {} /\ queue = <<>> /\ events = <<>>
  /\ pc = [p \in Polls |-> "idle"] /\ hand = [p \in Polls |-> <<>>]
  /\ expiring = <<>> /\ owed = {}
  /\ took = {} /\ lost = {} /\ told = {}

-----------------------------------------------------------------------------
(* Under the lock.                                                         *)

\* Mutant of Park: the channel the polls wait on is left open.
ParkQuietly(kind, t) ==
  /\ queue' = Append(queue, [kind |-> kind, turn |-> t, at |-> now])
  /\ UNCHANGED pc

\* park: `arrived` is closed, so every poll that waits on it is free to look
\* again.
Park(kind, t) ==
  /\ Len(queue) < MaxQueue
  /\ queue' = Append(queue, [kind |-> kind, turn |-> t, at |-> now])
  /\ pc' = [p \in Polls |-> IF pc[p] = "waits" THEN "idle" ELSE pc[p]]

\* emit: on a full buffer the event is dropped.
Emit(ev) ==
  events' = IF Len(events) < EventBuffer THEN Append(events, ev) ELSE events

-----------------------------------------------------------------------------
(* The harness.                                                            *)

StartTurn ==
  /\ counter < MaxTurns
  /\ counter' = counter + 1
  /\ running' = running \cup {counter'}
  /\ Park("turn", counter')
  /\ UNCHANGED <<now, tick, events, hand, expiring, owed, seen>>

\* A steer of a turn that is not running is refused and changes nothing.
Steer(t) ==
  /\ t \in running
  /\ Park("steer", t)
  /\ UNCHANGED <<now, tick, counter, running, events, hand, expiring, owed, seen>>

\* Mutant of Interrupt: nothing is parked for a session that may be listening.
InterruptSilently(t) ==
  /\ t \in running
  /\ running' = running \ {t}
  /\ owed' = owed \cup {<<Done(t)>>}
  /\ UNCHANGED <<now, tick, counter, queue, events, calls, expiring, seen>>

\* An interrupt of a turn that is not running changes nothing.
Interrupt(t) ==
  /\ t \in running
  /\ Park("interrupt", t)
  /\ running' = running \ {t}
  /\ owed' = owed \cup {<<Done(t)>>}
  /\ UNCHANGED <<now, tick, counter, events, hand, expiring, seen>>

\* followTheSession takes one event.
Hears ==
  /\ events # <<>>
  /\ events' = Tail(events)
  /\ told' = IF Head(events).kind = "done" THEN told \cup {Head(events).turn} ELSE told
  /\ UNCHANGED <<now, tick, counter, running, queue, calls, expiring, owed, took, lost>>

-----------------------------------------------------------------------------
(* A poll: servePoll and next.                                             *)

\* The queue is looked at and `arrived` read under one lock, by a new poll or
\* one that was woken.
Looks(p) ==
  /\ pc[p] = "idle"
  /\ IF queue = <<>>
     THEN pc' = [pc EXCEPT ![p] = "waits"] /\ UNCHANGED <<queue, hand>>
     ELSE /\ hand' = [hand EXCEPT ![p] = <<Head(queue)>>]
          /\ queue' = Tail(queue)
          /\ pc' = [pc EXCEPT ![p] = "writes"]
  /\ UNCHANGED <<now, tick, counter, running, events, expiring, owed, seen>>

\* The hold expires or the client hangs up; a poll that was woken may do so too
\* (both are ready in the select), and is then as idle as before.
GivesUp(p) ==
  /\ pc[p] = "waits"
  /\ pc' = [pc EXCEPT ![p] = "idle"]
  /\ UNCHANGED <<now, tick, counter, running, queue, events, hand, expiring, owed, seen>>

\* The delivery reaches the client, or is logged and gone.
Writes(p) ==
  LET d == Head(hand[p])
  IN  /\ pc[p] = "writes"
      /\ pc' = [pc EXCEPT ![p] = "idle"]
      /\ hand' = [hand EXCEPT ![p] = <<>>]
      /\ \/ took' = (IF d.kind = "turn" THEN took \cup {d.turn} ELSE took) /\ UNCHANGED lost
         \/ lost' = (IF d.kind = "turn" THEN lost \cup {d.turn} ELSE lost) /\ UNCHANGED took
      /\ UNCHANGED <<now, tick, counter, running, queue, events, expiring, owed, told>>

-----------------------------------------------------------------------------
(* What the client posts: serveSay and serveDone.  It names turns it took; *)
(* it may repeat itself.                                                   *)

Say(t) ==
  /\ t \in took
  /\ Emit(Text(t))
  /\ UNCHANGED <<now, tick, counter, running, queue, calls, expiring, owed, seen>>

\* Mutant of PostDone: a repeated post ends the turn again.
PostDoneAgain(t) ==
  /\ t \in took
  /\ running' = running \ {t}
  /\ owed' \in {owed \cup {<<Done(t)>>}, owed \cup {<<Text(t), Done(t)>>}}
  /\ UNCHANGED <<now, tick, counter, queue, events, calls, expiring, seen>>

\* With a failure or without; a turn that already ended is answered and no more.
PostDone(t) ==
  /\ t \in took /\ t \in running
  /\ running' = running \ {t}
  /\ owed' \in {owed \cup {<<Done(t)>>}, owed \cup {<<Text(t), Done(t)>>}}
  /\ UNCHANGED <<now, tick, counter, queue, events, calls, expiring, seen>>

-----------------------------------------------------------------------------
(* Run.                                                                    *)

\* The members of a queue that stand at these places, in their order.
Picked(q, places) ==
  [k \in 1..Cardinality(places) |->
     q[CHOOSE i \in places : Cardinality({j \in places : j <= i}) = k]]

IsStale(d) == d.at < now - Stale
StalePlaces == {i \in DOMAIN queue : IsStale(queue[i])}

IsTurn(d) == d.kind = "turn"

\* What is told of the turns that nobody came for, two events for each.
Closings(ended) ==
  [i \in 1..2 * Len(ended) |->
     LET t == ended[(i + 1) \div 2].turn IN IF i % 2 = 1 THEN Text(t) ELSE Done(t)]

\* Mutant of Expire: what was dropped stays in flight.
ExpireQueueOnly ==
  /\ now = tick /\ expiring = <<>>
  /\ tick' = now + Every
  /\ queue' = Picked(queue, DOMAIN queue \ StalePlaces)
  /\ UNCHANGED <<now, counter, running, events, calls, expiring, owed, seen>>

\* expire: the turns among what was dropped are closed, in their order.
Expire ==
  LET ended == {i \in StalePlaces : IsTurn(queue[i]) /\ queue[i].turn \in running}
  IN  /\ now = tick /\ expiring = <<>>
      /\ tick' = now + Every
      /\ queue' = Picked(queue, DOMAIN queue \ StalePlaces)
      /\ running' = running \ {queue[i].turn : i \in ended}
      /\ expiring' = Closings(Picked(queue, ended))
      /\ UNCHANGED <<now, counter, events, calls, owed, seen>>

ExpireEmits ==
  /\ expiring # <<>>
  /\ Emit(Head(expiring))
  /\ expiring' = Tail(expiring)
  /\ UNCHANGED <<now, tick, counter, running, queue, calls, owed, seen>>

\* The rest of Interrupt or serveDone, one event at a time.
Emits(s) ==
  /\ Emit(Head(s))
  /\ owed' = (owed \ {s}) \cup (IF Len(s) > 1 THEN {Tail(s)} ELSE {})
  /\ UNCHANGED <<now, tick, counter, running, queue, calls, expiring, seen>>

\* Nothing in Run waits for long, so its tick is not overtaken by the clock.
Advance ==
  /\ now < MaxTime /\ now < tick
  /\ now' = now + 1
  /\ UNCHANGED <<tick, counter, running, queue, events, calls, expiring, owed, seen>>

-----------------------------------------------------------------------------

Harness == StartTurn \/ Hears \/ (\E t \in Turn : Steer(t) \/ Interrupt(t))

Client == \/ \E p \in Polls : Looks(p) \/ GivesUp(p) \/ Writes(p)
          \/ \E t \in Turn : Say(t) \/ PostDone(t)

Next == \/ Harness \/ Client
        \/ Expire \/ ExpireEmits \/ (\E s \in owed : Emits(s))
        \/ Advance

Spec == Init /\ [][Next]_vars

-----------------------------------------------------------------------------
(* Properties.                                                             *)

Holds(p, t) == hand[p] # <<>> /\ IsTurn(hand[p][1]) /\ hand[p][1].turn = t

\* A turn that is not closed is somewhere: waiting, and no longer than the
\* staleness and one period of Run; in the hand of a poll; with the client; or
\* its handing over failed, and then only the harness's own watch ends it.
\* It is what Run is for ("gives up on turns nobody came for").
UnclaimedIsClosed ==
  \A t \in running :
    \/ t \in took \cup lost
    \/ \E p \in Polls : Holds(p, t)
    \/ \E i \in DOMAIN queue : /\ IsTurn(queue[i]) /\ queue[i].turn = t
                               /\ now - queue[i].at <= Stale + Every

\* A turn that was interrupted before the session came for it is still handed
\* over when it comes (Interrupt leaves the delivery in the queue), but never
\* without the request to stop behind it.
StopFollowsTheTurn ==
  \A i \in DOMAIN queue :
    IsTurn(queue[i]) /\ queue[i].turn \notin running =>
      \E j \in i + 1..Len(queue) : queue[j].kind = "interrupt" /\ queue[j].turn = queue[i].turn

\* A hold ends the instant there is something to say: no poll goes on waiting
\* beside a delivery, whichever poll took the one that woke it (next, park).
NoPollSleepsOnMail == (\E p \in Polls : pc[p] = "waits") => queue = <<>>

OnItsWay(t) == \E s \in owed \cup {expiring, events} : Contains(s, Done(t))

Abstract == INSTANCE Conversation
              WITH live <- running, owing <- {t \in Turn : OnItsWay(t)}

\* The mailbox is a Conversation: however a turn ends - by the client's word
\* and its repetitions, by an interrupt or because nobody came, or by several of
\* these at once - it ends once and the harness is told so at most once.
IsAConversation == Abstract!Spec

-----------------------------------------------------------------------------
(* What the properties rest on.                                            *)

\* The queue is in the order of its moments, none of them later than now, and since Run
\* last looked nothing has stood in it for longer than it may.
InOrder ==
  /\ tick - Every <= now /\ now <= tick
  /\ \A i \in DOMAIN queue : queue[i].at <= now /\ tick - Every - Stale <= queue[i].at
  /\ \A i, j \in DOMAIN queue : i <= j => queue[i].at <= queue[j].at

\* A turn is parked once: while it waits no client has it nor is being handed it.
ParkedOnce ==
  /\ \A i, j \in DOMAIN queue :
       IsTurn(queue[i]) /\ IsTurn(queue[j]) /\ queue[i].turn = queue[j].turn => i = j
  /\ \A i \in DOMAIN queue : IsTurn(queue[i]) =>
       /\ queue[i].turn \notin took /\ queue[i].turn <= counter
       /\ \A p \in Polls : ~Holds(p, queue[i].turn)
  /\ \A p \in Polls, t \in Turn : Holds(p, t) => t <= counter
  /\ \A t \in took : t <= counter

\* No turn in flight is nowhere.
Somewhere ==
  \A t \in running :
    \/ t \in took \cup lost
    \/ \E p \in Polls : Holds(p, t)
    \/ \E i \in DOMAIN queue : IsTurn(queue[i]) /\ queue[i].turn = t

OnceIn(s, e) == \A i, j \in DOMAIN s : s[i] = e /\ s[j] = e => i = j

\* A completion is on its way in one place and once, and not of a turn that is in flight,
\* or whose completion was read, or that was not started.
ToldOnce ==
  /\ owed \subseteq {<<Done(t)>> : t \in Turn} \cup {<<Text(t), Done(t)>> : t \in Turn}
  /\ \A t \in Turn : OnceIn(events, Done(t)) /\ OnceIn(expiring, Done(t))
  /\ \A t \in Turn :
       /\ ~(Contains(events, Done(t)) /\ Contains(expiring, Done(t)))
       /\ \A s \in owed : Contains(s, Done(t)) =>
            /\ ~Contains(events, Done(t)) /\ ~Contains(expiring, Done(t))
            /\ \A r \in owed : Contains(r, Done(t)) => r = s
       /\ OnItsWay(t) => t \notin running \cup told
       /\ t \in running => t \notin told
       /\ t > counter => t \notin running \cup told /\ ~OnItsWay(t)

MailboxInv ==
  /\ TypeOK /\ InOrder /\ NoPollSleepsOnMail
  /\ ParkedOnce /\ Somewhere /\ StopFollowsTheTurn
  /\ ToldOnce

=============================================================================
