------------------------------ MODULE Upstream ------------------------------
(***************************************************************************)
(* The arena's one link to the broker: testbed/proxy/upstream.go.  A call  *)
(* that may be cached shares the answer of a call for the same key         *)
(* (cache.through); one that goes out waits for one of a few places in a   *)
(* queue by priority (gate.enter, gate.leave), takes the shared session or *)
(* raises a new one (connect) and discards it when it fails (drop).        *)
(*                                                                         *)
(* Every step here is what a goroutine does under one lock, or one wait it *)
(* comes back from.  A caller whose context dies may notice at any wait    *)
(* but the one for the session's lock, which is held while one dials.      *)
(***************************************************************************)
EXTENDS Integers, Sequences, FiniteSets, SequencesExt

CONSTANTS
  Calls,     \* the calls made
  Prio,      \* [Calls -> 0..2], the lower the more important
  Keys, Key, \* [Calls -> Keys \cup {NoKey}], what its answer is kept under
  NoKey,
  Parallel,  \* places upstream
  NoCall

Prios == 0..2

ASSUME UpstreamAssumption ==
  /\ Prio \in [Calls -> Prios]
  /\ NoKey \notin Keys /\ Key \in [Calls -> Keys \cup {NoKey}]
  /\ NoCall \notin Calls /\ IsFiniteSet(Calls)
  /\ Parallel \in Nat \ {0}

VARIABLES
  pc,        \* [Calls -> where its goroutine stands]
  result,    \* [Calls -> what its call upstream came to, until that is published]
  on,        \* [Calls -> the call whose answer it waits for]
  hot,       \* [Keys -> the call whose entry the cache holds]
  entry,     \* [Calls -> the entry it made]
  free,      \* places nobody holds
  queues,    \* [Prios -> Seq(Calls)]
  session,   \* the session in use, known by the call that raised it
  mine,      \* [Calls -> the session it is calling on]
  silent     \* the calls whose answer, to the dialling or to the call, was begun and stalls

cacheVars   == <<on, hot, entry>>
gateVars    == <<free, queues>>
sessionVars == <<session, mine, silent>>
vars == <<pc, result, cacheVars, gateVars, sessionVars>>

Init ==
  /\ pc = [c \in Calls |-> "idle"] /\ result = [c \in Calls |-> "none"]
  /\ on = [c \in Calls |-> NoCall] /\ hot = [k \in Keys |-> NoCall]
  /\ entry = [c \in Calls |-> "none"]
  /\ free = Parallel /\ queues = [p \in Prios |-> <<>>]
  /\ session = NoCall /\ mine = [c \in Calls |-> NoCall] /\ silent = {}

At(c, where)  == pc[c] = where
Goes(c, where) == pc' = [pc EXCEPT ![c] = where]
Fails(c)      == result' = [result EXCEPT ![c] = "failed"]

------------------------------------------------------------------------------
(* cache.through                                                           *)

\* A call that cannot be cached goes upstream; one that can starts an entry of its
\* own where the cache holds none, and otherwise waits on the one that is there.
Begins(c) ==
  /\ hot' = [hot EXCEPT ![Key[c]] = c]
  /\ entry' = [entry EXCEPT ![c] = "running"]
  /\ Goes(c, "want")

\* Mutant of Ask: an answer that is still being fetched is not waited for.
AskBeside(c) ==
  /\ At(c, "idle")
  /\ \/ /\ Key[c] = NoKey
        /\ Goes(c, "want") /\ UNCHANGED cacheVars
     \/ /\ Key[c] # NoKey /\ ~\E d \in Calls : hot[Key[c]] = d /\ entry[d] # "running"
        /\ Begins(c) /\ UNCHANGED on
     \/ /\ Key[c] # NoKey /\ \E d \in Calls : hot[Key[c]] = d /\ entry[d] # "running"
        /\ on' = [on EXCEPT ![c] = hot[Key[c]]]
        /\ Goes(c, "join") /\ UNCHANGED <<hot, entry>>
  /\ UNCHANGED <<result, gateVars, sessionVars>>

Ask(c) ==
  /\ At(c, "idle")
  /\ \/ /\ Key[c] = NoKey
        /\ Goes(c, "want") /\ UNCHANGED cacheVars
     \/ /\ Key[c] # NoKey /\ hot[Key[c]] = NoCall
        /\ Begins(c) /\ UNCHANGED on
     \/ /\ Key[c] # NoKey /\ hot[Key[c]] # NoCall
        /\ on' = [on EXCEPT ![c] = hot[Key[c]]]
        /\ Goes(c, "join") /\ UNCHANGED <<hot, entry>>
  /\ UNCHANGED <<result, gateVars, sessionVars>>

\* The entry waited for is ready: an answer that holds is taken ...
Shares(c) ==
  /\ At(c, "join") /\ entry[on[c]] # "running"
  /\ IF entry[on[c]] = "good"
     THEN Goes(c, "done") /\ on' = [on EXCEPT ![c] = NoCall]
     ELSE Goes(c, "again") /\ UNCHANGED on
  /\ UNCHANGED <<result, hot, entry, gateVars, sessionVars>>

\* ... one that failed or went stale is not, and the caller starts an entry of its
\* own, whatever the cache holds by now.
Again(c) ==
  /\ At(c, "again")
  /\ Begins(c)
  /\ UNCHANGED <<result, on, gateVars, sessionVars>>

StopsWaiting(c) ==
  /\ At(c, "join")
  /\ Goes(c, "done") /\ on' = [on EXCEPT ![c] = NoCall]
  /\ UNCHANGED <<result, hot, entry, gateVars, sessionVars>>

\* Mutant of Publish: a failure is not published to those who wait for the answer.
PublishAnswers(c) ==
  /\ At(c, "back")
  /\ IF Key[c] = NoKey
     THEN Goes(c, "done") /\ UNCHANGED entry
     ELSE /\ entry' = [entry EXCEPT ![c] = IF result[c] = "failed" THEN @ ELSE "good"]
          /\ Goes(c, IF result[c] = "failed" THEN "tidy" ELSE "done")
  /\ result' = [result EXCEPT ![c] = "none"] /\ on' = [on EXCEPT ![c] = NoCall]
  /\ UNCHANGED <<hot, gateVars, sessionVars>>

\* The call is back: the entry is made ready, and removed again when it failed.
Publish(c) ==
  /\ At(c, "back")
  /\ IF Key[c] = NoKey
     THEN Goes(c, "done") /\ UNCHANGED entry
     ELSE /\ entry' = [entry EXCEPT ![c] = result[c]]
          /\ Goes(c, IF result[c] = "failed" THEN "tidy" ELSE "done")
  /\ result' = [result EXCEPT ![c] = "none"] /\ on' = [on EXCEPT ![c] = NoCall]
  /\ UNCHANGED <<hot, gateVars, sessionVars>>

Tidy(c) ==
  /\ At(c, "tidy")
  /\ hot' = IF hot[Key[c]] = c THEN [hot EXCEPT ![Key[c]] = NoCall] ELSE hot
  /\ Goes(c, "done")
  /\ UNCHANGED <<result, on, entry, gateVars, sessionVars>>

\* An answer somebody may still be given outlives its time.
Ages(c) ==
  /\ entry[c] = "good"
  /\ c \in Range(hot) \cup Range(on)
  /\ entry' = [entry EXCEPT ![c] = "stale"]
  /\ UNCHANGED <<pc, result, on, hot, gateVars, sessionVars>>

------------------------------------------------------------------------------
(* The gate.                                                               *)

Enter(c) ==
  /\ At(c, "want")
  /\ IF free > 0
     THEN free' = free - 1 /\ Goes(c, "inside") /\ UNCHANGED queues
     ELSE /\ queues' = [queues EXCEPT ![Prio[c]] = Append(@, c)]
          /\ Goes(c, "queued") /\ UNCHANGED free
  /\ UNCHANGED <<result, cacheVars, sessionVars>>

\* A place was handed over, and the caller wakes.
Wakes(c) ==
  /\ At(c, "handed")
  /\ Goes(c, "inside")
  /\ UNCHANGED <<result, cacheVars, gateVars, sessionVars>>

LeavesQueue(c) ==
  \E i \in DOMAIN queues[Prio[c]] :
    /\ queues[Prio[c]][i] = c
    /\ queues' = [queues EXCEPT ![Prio[c]] = RemoveAt(@, i)]

\* Mutant of GivesUp: a place handed over at that very moment is kept by nobody.
GivesUpAndKeeps(c) ==
  /\ \/ At(c, "queued") /\ LeavesQueue(c)
     \/ At(c, "handed") /\ UNCHANGED queues
  /\ Goes(c, "back")
  /\ Fails(c)
  /\ UNCHANGED <<cacheVars, free, sessionVars>>

\* A waiting caller's context dies: it leaves the queue, or gives back the place
\* that was handed to it meanwhile.
GivesUp(c) ==
  /\ \/ At(c, "queued") /\ LeavesQueue(c) /\ Goes(c, "back")
     \/ At(c, "handed") /\ UNCHANGED queues /\ Goes(c, "leaves")
  /\ Fails(c)
  /\ UNCHANGED <<cacheVars, free, sessionVars>>

Waiting(p) == queues[p] # <<>>

\* Whose the place is: the first of the most important queue's.
FirstOf(p) == Waiting(p) /\ \A q \in Prios : Waiting(q) => p <= q

\* Mutant of Leave: the place goes back to the heap though somebody waits.
LeaveUnseen(c) ==
  /\ At(c, "leaves")
  /\ free' = free + 1
  /\ Goes(c, "back") /\ UNCHANGED queues
  /\ UNCHANGED <<result, cacheVars, sessionVars>>

Leave(c) ==
  /\ At(c, "leaves")
  /\ \/ \E p \in Prios :
          /\ FirstOf(p)
          /\ pc' = [pc EXCEPT ![c] = "back", ![Head(queues[p])] = "handed"]
          /\ queues' = [queues EXCEPT ![p] = Tail(@)]
          /\ UNCHANGED free
     \/ /\ \A p \in Prios : ~Waiting(p)
        /\ free' = free + 1
        /\ Goes(c, "back") /\ UNCHANGED queues
  /\ UNCHANGED <<result, cacheVars, sessionVars>>

------------------------------------------------------------------------------
(* The session.                                                            *)

\* The session is read and raised under one lock, that of who dials.
LockIsFree == \A d \in Calls : ~At(d, "dialing")

\* The session in use is taken, or the lock kept to raise one.
Connect(c) ==
  /\ At(c, "inside") /\ LockIsFree
  /\ \/ /\ session # NoCall
        /\ mine' = [mine EXCEPT ![c] = session] /\ Goes(c, "calling")
     \/ /\ session = NoCall
        /\ Goes(c, "dialing") /\ UNCHANGED mine
  /\ UNCHANGED <<result, cacheVars, gateVars, session, silent>>

Connected(c) ==
  /\ At(c, "dialing") /\ c \notin silent
  /\ session' = c /\ mine' = [mine EXCEPT ![c] = c]
  /\ Goes(c, "calling")
  /\ UNCHANGED <<result, cacheVars, gateVars, silent>>

ConnectFails(c) ==
  /\ At(c, "dialing")
  /\ Goes(c, "leaves") /\ Fails(c)
  /\ silent' = silent \ {c}
  /\ UNCHANGED <<cacheVars, gateVars, session, mine>>

Answers(c) ==
  /\ At(c, "calling") /\ c \notin silent
  /\ Goes(c, "leaves") /\ result' = [result EXCEPT ![c] = "good"]
  /\ mine' = [mine EXCEPT ![c] = NoCall]
  /\ UNCHANGED <<cacheVars, gateVars, session, silent>>

\* The transport fails, or the caller's context dies.
Breaks(c) ==
  /\ At(c, "calling")
  /\ Goes(c, "dropping")
  /\ silent' = silent \ {c}
  /\ UNCHANGED <<result, cacheVars, gateVars, session, mine>>

\* Mutant of Drop: whatever session is in use by now is discarded.
DropCurrent(s) == session' = NoCall

Drop(s) == session' = IF session = s THEN NoCall ELSE session

\* A call that broke discards the session it was made on, as soon as nobody dials.
Drops(c) ==
  /\ At(c, "dropping") /\ LockIsFree
  /\ Drop(mine[c])
  /\ mine' = [mine EXCEPT ![c] = NoCall]
  /\ Goes(c, "leaves") /\ Fails(c)
  /\ UNCHANGED <<cacheVars, gateVars, silent>>

\* The server sends the headers of its answer and not the rest: the transport's limit
\* is on the headers, and the matcher's context has none.
GoesSilent(c) ==
  /\ pc[c] \in {"dialing", "calling"} /\ c \notin silent
  /\ silent' = silent \cup {c}
  /\ UNCHANGED <<pc, result, cacheVars, gateVars, session, mine>>

Step(c) ==
  \/ Shares(c) \/ Again(c) \/ Publish(c) \/ Tidy(c)
  \/ Enter(c) \/ Wakes(c) \/ Leave(c)
  \/ Connect(c) \/ Connected(c) \/ Answers(c) \/ Drops(c)
  \/ c \notin silent /\ (ConnectFails(c) \/ Breaks(c))

World(c) ==
  \/ Ask(c) \/ StopsWaiting(c) \/ GivesUp(c) \/ Ages(c)
  \/ GoesSilent(c) \/ ConnectFails(c) \/ Breaks(c)

Next == \E c \in Calls : Step(c) \/ World(c)

\* A goroutine that can go on does, and the server answers, fails or is given up before
\* its headers come.  Nothing ends an answer that was begun and stalls: that a link
\* breaks or a context dies is nobody's duty.
Fairness == \A c \in Calls : WF_vars(Step(c))

Spec == Init /\ [][Next]_vars /\ Fairness

------------------------------------------------------------------------------
(* What the link promises.                                                 *)

Places == {"inside", "dialing", "calling", "dropping", "leaves", "handed"}
Holders == {c \in Calls : pc[c] \in Places}

\* upstream.go, enter, remove and leave: a place is held or free, none is lost and
\* none is made, whoever gives up while a place is being handed to it.
PlacesAddUp == free >= 0 /\ free + Cardinality(Holders) = Parallel

\* The variables are of their types.
TypeOK ==
  /\ pc \in [Calls -> {"idle", "join", "again", "want", "queued", "back", "tidy", "done"} \cup Places]
  /\ result \in [Calls -> {"none", "good", "failed"}]
  /\ on \in [Calls -> Calls \cup {NoCall}] /\ hot \in [Keys -> Calls \cup {NoCall}]
  /\ entry \in [Calls -> {"none", "running", "good", "failed", "stale"}]
  /\ free \in Nat /\ queues \in [Prios -> Seq(Calls)]
  /\ session \in Calls \cup {NoCall} /\ mine \in [Calls -> Calls \cup {NoCall}]
  /\ silent \subseteq Calls

\* upstream.go, enter and remove: a queue holds only callers that wait in it, each
\* once and in the queue of its priority.
QueuesHoldWhoWaits ==
  \A p \in Prios :
    /\ IsInjective(queues[p])
    /\ \A i \in DOMAIN queues[p] : At(queues[p][i], "queued") /\ Prio[queues[p][i]] = p

\* upstream.go, gate: nobody stands in a queue beside a place nobody holds.
NobodyWaitsBesideAFreePlace == free > 0 => \A p \in Prios : ~Waiting(p)

Fetching == {c \in Calls : Key[c] # NoKey /\ pc[c] \in {"want", "queued", "back"} \cup Places}

\* An answer for the key failed or went stale.
OneIsBad(k) == \E e \in Calls : Key[e] = k /\ entry[e] \in {"failed", "stale"}

\* upstream.go, through: who is upstream for a key has an entry that is not ready, and
\* comes back with an answer or a failure.
FetchersHaveEntries ==
  /\ \A c \in Calls : entry[c] = "running" <=> c \in Fetching
  /\ \A c \in Calls : pc[c] \in {"leaves", "back"} => result[c] # "none"
  /\ \A c \in Calls : pc[c] \in {"idle", "join", "again"} => entry[c] = "none"
  /\ \A c \in Calls : pc[c] = "tidy" => Key[c] # NoKey /\ entry[c] = "failed"

\* upstream.go, through: the cache holds an entry made for the key, who waits does so on
\* such a one, and who goes round again found one bad.
EntriesAreTheKeys ==
  /\ \A k \in Keys : hot[k] # NoCall => Key[hot[k]] = k /\ entry[hot[k]] # "none"
  /\ \A c \in Calls : pc[c] = "join" =>
       on[c] # NoCall /\ Key[c] # NoKey /\ Key[on[c]] = Key[c] /\ entry[on[c]] # "none"
  /\ \A c \in Calls : pc[c] = "again" => Key[c] # NoKey /\ OneIsBad(Key[c])

\* upstream.go, through: a second entry for a key, or one the cache does not hold, is made
\* or left only after one was bad.
OneEntryUntilOneIsBad ==
  \A c \in Calls : Key[c] # NoKey /\ entry[c] # "none" =>
    hot[Key[c]] = c \/ OneIsBad(Key[c])

\* upstream.go, through: as long as no answer for a key has failed or gone stale, one
\* call at most is upstream for it, made "ONCE on behalf of everyone who asked".
SharedUntilOneIsBad ==
  \A c, d \in Fetching :
    c # d /\ Key[c] = Key[d] =>
      \E e \in Calls : Key[e] = Key[c] /\ entry[e] \in {"failed", "stale"}

\* The comment on through: a caller that found the answer bad goes "round again,
\* where we either start a new entry or join somebody else's fresh call".  The code
\* never joins there, so this does not hold.
JoinsAFreshCall ==
  \A c, d \in Fetching : c # d => Key[c] # Key[d]

\* upstream.go, drop: a session is discarded only by the failure of a call made on it,
\* never by the late failure of a call on an earlier one.
DiscardedByItsOwn ==
  [][session # NoCall /\ session' # session =>
       \E c \in Calls : At(c, "dropping") /\ mine[c] = session /\ result'[c] = "failed"]_vars

\* upstream.go, Call, enter and leave: "a participant is NEVER refused because of the
\* queue", it waits - and what it waits for comes, as long as an answer that stalls holds
\* up neither the session's lock nor the last place.  Then only the stalled calls, and
\* who shares their answer, are left: each keeps one place and nothing else.  The calls
\* are as many as there are, each made once, so that every call begun ends is that in
\* the end none is under way.
StallsLeaveAPlace ==
  Cardinality(silent) < Parallel /\ \A c \in silent : ~At(c, "dialing")

HeldByAStall(c) == c \in silent \/ (At(c, "join") /\ on[c] \in silent)

EveryCallEnds ==
  <>[]StallsLeaveAPlace =>
    <>[](\A c \in Calls : pc[c] \in {"idle", "done"} \/ HeldByAStall(c))

\* match.go, once: the matcher "is required to survive both a dropped connection and a
\* silent broker": each call it makes of the broker ends, with an answer or an error.
\* ResponseHeaderTimeout does not end one whose headers came, so this does not hold.
SurvivesASilentBroker ==
  \A c \in Calls : Prio[c] = 0 => (At(c, "want") ~> At(c, "done"))

=============================================================================
