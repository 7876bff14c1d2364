# The options agent in TLA+

A verification development for `swiftward-alpaca-options-agents`: TLA+ modules
translated from the Go sources under `golang/internal` and `testbed/proxy`, TLC
configurations that
check them on small instances, and TLAPS proofs that hold for every value of
the constants. `PROJECT.json` lists the runs, the mutants of the code each
property catches, the lines every definition stands for, the findings and the
hazards.

    tlc -workers 2 -config Turns_safe.cfg MCTurns     # one run
    tlapm TurnsProofs.tla                             # one module's proofs

## The system

One AI agent works one brokerage account. The harness wakes it: on a declared
schedule, because a person wrote in the chat, because it asked to be woken, or
because an order did not go through. What it decides it places at the broker
itself; two helpers then work on the account without it, the execution ladder
and the take-profit watcher. Postgres keeps the record.

| Part | State it keeps | Operations | Talks to |
|---|---|---|---|
| harness, turns (`harness.go`) | the running turn, the place of the turn being opened, what the turn did, refusals in a row | Tell, handle, claim, startTurn, steer, stop, follow, finish, cut an overrunning turn, forget the conversation | agent (calls, event channel), record, chat |
| harness, schedule (`harness.go`, `declaration`) | when each session last ran, by name; the declaration in force; a channel of silent turns | fireDue, forgetEmptyTurns, rereadTheDeclaration, whatAlreadyRanToday | turns, record, the declaration's file |
| agent (`agent/protocol.go`) | requests waiting for an answer, a bounded event buffer | start, steer, interrupt, read events | a child process over its standard streams |
| mailbox (`mailbox.go`) | a queue of deliveries, the running turns | the same conversation for a session run elsewhere: park, poll, reply, expire | HTTP clients, the harness |
| execution ladder (`execution`) | the age of every order's chain, the number of passes | one pass per interval: read, refuse, cancel on patience, walk | broker, record, harness (Tell) |
| take-profit (`takeprofit`) | what it sent lately | one pass per interval: read positions and orders, close | broker, record |
| wake-ups (`wakeup`) | the list, the last number, the file | add, cancel, take what is due | the session's tools, the clock |
| record (`record`) | turns, causes, calls, fills, steps in Postgres | insert, close, read back | everybody |
| arena, books (`testbed/proxy`: `book`, `match`, `expiry`, `store`, `risk`, `tools`) | a participant's cash, contracts, shares and orders, in memory and in SQLite; the flags it was started with | place, move, cancel, value; a pass every tick: end day orders, settle, fill | the session, ladder and take-profit of a trial, as their broker; the link |
| arena, link (`upstream.go`) | one session to the real broker, places in use, queues, an answer cache | call, give up | the real broker's MCP server |
| arena, staged markets (`scenario`, `overlay`, `quotes`) | a scenario and when it began | read a price, a clock | the session's reads, the matcher |

The rest (screener, placement, envelope, volatility, session tools, skills,
telegram, api, page, research) computes from what it reads or moves bytes; its
components are listed in `PROJECT.json` with the reason they are left out.

**What is hard here.** The turn has no single owner: the clock, the room and
the ladder start turns, the follower and the watcher end them, and every one of
them reads the shared fields under a lock, gives the lock up, calls the agent,
the database or the chat for up to a bounded time, and acts on what it read.
The agent's events arrive late or not at all. The schedule must survive
restarts, edits of its file and turns that did nothing, from a memory keyed by
name. The ladder knows an order only by an id that changes with each step, from
listings that are bounded, with calls that fail or lose their answer. The
wake-ups stand between a file and a session. In the arena, calls of participants
and the matcher's pass change one book while prices and the clock are read
between their steps, every write may fail, and everybody shares a few places to
one broker. And there is arithmetic that money rests on: what an order may lose,
what a book owes, at what price a position was entered, how far a staged market
has moved.

What makes each part correct:

- turns: one caller opens a turn at a time; no two turns at work; a running
  turn is always let go of; a turn that acted is not taken for a silent one.
- schedule: marked as run means it was told; nothing is told again before its
  time; a silent window is retried; what cannot wait does not wait.
- ladder: the worst price is never passed; patience ends every order, and only
  at the worst price it named; orders let stand fit into the book together.
- mailbox: a turn ends once however it ends; nobody waits for a turn nobody took;
  a session that comes late is told to stop.
- wake-ups: what was promised stands until due, wakes once, and is not lost.
- take-profit: it only ever makes the book smaller, and it never locks itself out.
- arena, books: what fills is backed, counted once, on time, and adds up; the store
  never contradicts what it said.
- arena, link: no place is lost, nobody waits beside a free one, every call ends.
- arena, staged markets: what the session reads is what it is filled by.
- calculations: the worst case is the worst, sums cover what they stand for, an
  account's numbers can be relied on, a name keeps its worst price.

## The modules

| Module | Models | Lines of the model stand for |
|---|---|---|
| `Turns` | the life of a turn | the goroutines of `harness.go` as sequences of steps, broken where the code gives up `h.mu` or makes a call; the agent; the rows of `turns` |
| `Schedule` | the clock and the declaration | one pass of `fireDue` broken at the call that starts or steers; the record's causes; crashes and rereads |
| `Ladder` | a pass of the execution ladder | `step` broken at every call to the broker, the order's chain, the market and session beside it |
| `Conversation` | what the harness may count on in a conversation | an abstract specification, implemented by `Mailbox` |
| `Mailbox` | the conversation with a session run elsewhere | what `Mailbox` does under its lock, what its goroutines emit after it, the polls and replies of the client |
| `Wakeups` | the store, its file and the clock's taking and telling | `Store`'s operations, each under its lock, and `fireWakeups` |
| `TakeProfit` | the take-profit watch on an account it shares | a pass of `Watch.step` broken at every call, the account, the session's trades and the broker's list beside it |
| `Risk` | what a book of contracts may lose, to the arena | `risk.go`: payoffs, slopes, collateral |
| `Valuation` | fills, entry prices and the account's numbers | `executable`, `move`, `Settle`, `value`, `account`, `positions` |
| `Book` | a participant's account as pure operations | `book.go`, `expiry.go`: the book an operation leaves behind and the condition it is accepted on; `EXTENDS Valuation`, which extends `Risk` |
| `OrderLife` | what may be written of an order, ever | an abstract specification, implemented by `Arena`'s store |
| `Arena` | participants, matcher, store, restarts | the handlers of `tools.go` and `matcher.once`, broken where they wait for the clock or the market and, in the matcher, between bookings |
| `Upstream` | the link to the broker | `gate`, `cache.through`, `connect`, `drop`: one action per lock taken or wait ended |
| `Exposure` | what an order or a book may lose, to the ladder | `WorstCase`, `Unbounded`, `AtRisk`, `WithoutAFloor` |
| `Concession` | the next price of an order and the name that carries its worst | `walk`, `Toward`, `Showing`, `EdgeAt`, `NameCarrying`, `Reservation` |
| `Staging` | a staged market on both paths it is read on | `LoadScenario`, the scenario's clock, `shiftAt`, `shiftQuote`; the session's answers and the arena's own reads |
| `Arithmetic` | enumerated inputs and histories for the four above and `Valuation` | one small state machine per calculation, and the reference definitions |
| `HarnessClock` | the harness's clock, how a moment passes, and the harness ending and beginning anew | `Run` and `keepTheClock`, as far as `Schedule` and `Wakeups` share them: both live in one process and are looked after by one goroutine |
| `MC...` | instances for TLC | |
| `TurnsProofs`, `UpstreamProofs`, `MailboxProofs`, `ArenaProofs`, `ArithmeticProofs` | theorems about the module each is named after | |
| `ClockProofs` | theorems about `Schedule` and, after them, `Wakeups` | |
| `HelpersProofs` | theorems about `Ladder` and, after them, `TakeProfit` | |
| `Sums` | lemmas about finite sums and about payoffs, for the proofs of `Ladder`, `Arena` and `Arithmetic` | |

They meet at narrow seams, each modelled on both sides. `Schedule` sees of a
turn only whom it is for, that it may not start, and that it may end silent;
`Turns` sees of the schedule a caller that may come at any time (`FireDue`). A
wake-up that is taken out and told (`Wakeups!TellOne`) is one `Begin` of the
clock in `Turns`; the ladder's telling is a `Begin` of another caller. `Ladder`
takes an order's worst case, its worst price and what is at risk as constants of
the order; `Exposure` and `Concession` compute them, and `SumCoversTheBook` and
`WorstPriceTravels` are what `Ladder` takes for granted. `Arena` is the broker of
a trial: its orders end, fill and are replaced as `Ladder` and `TakeProfit` allow
their broker to. `Arena`'s reads of clock and market may fail or be refused
(`CallRefused`, `PassFails`), which is all it sees of `Upstream`; its quotes are
any, which is all it sees of `Staging`.

### Turns

State: the fields of `Harness` under `h.mu` (`turnID`, `opening`,
`finishedBeforePublished`, `turnActed`, `brokerCalled`, `brokerless`,
`refusedInterrupts`); per caller a program counter with the turn in hand
(`held`) and the one it gave up on (`stale`); a `finishTurn` under way per
actor (`fin`); the watcher (`wpc`, `wid`); the agent (`live` turns, the turns on
the conversation's present thread `reachable`, the event buffer); the rows.

| Action | Code |
|---|---|
| `Begin`, `SteerTaken`, `SteerFailed`, `WaitReady` | `Tell`/`handle`, `steerInto`, `steerWhenReady` |
| `Claim`, `TurnAnswered`, `TurnRefused`, `TurnAnswerLost`, `Publish`, `RecordStart`, `Settle`, `OpenerFinishes`, `Release` | `startTurnReplacing`, in its order, with the deferred calls |
| `FinishLocked`, `FinishRest` | `finishTurn` under and after the lock, `checkBrokerReach` |
| `FollowActed`, `FollowDone` | `followTheSession` |
| `FireDue` | `fireDue` for one session |
| `Stop`, `WatchLooks` ... `WatchClears`, `WatchGivesUp` | `stop`, `endAnOverrunningTurn`, `clearTurn`, `Log.Fatal` |
| `AgentActs`, `AgentEnds`, `Interrupted` | the agent, external; the drop of an event on a full buffer is `Emit` |
| `Restart`, `Crash` | the end of the process and `CloseTurnsLeftOpen` |

The lock itself is not modelled: an action is what happens under it. Reads
that commute with every other goroutine's steps are merged into the step that
follows, where the comment of the action says so. The variables `spoke`,
`mistaken` and `crashes` are observed by properties and bounds only.

### Schedule

Time is a count of minutes, a day `DayLength` of them. `lastRun` is the map of
the clock's goroutine, `causes` what `turn_causes` knows of each name,
`emptyTurns` the channel of `slots` places. `Pass` reads the time once and
drains the channel, `ComesTo` goes to the first due session, `Started` /
`Steered` / `NotTold` are the outcomes of the call, `Marked` the write to the
record and the mark after it. `Reread` and `Crash` take any declaration of
`Declarations`. An `excused` name is one that may be told again: its turn was
silent, or the record does not know or could not be read.
`DeclarationsAssumption` says that no window, with the length of a pass added,
reaches over midnight; the declarations under `agent/` meet it.

### Ladder

An order is its whole chain of replacements. `status`, `limit`, `rest` and
`submitted` are the broker's side, `placed` and `movedOn` are `Ladder.ages`,
`passes` counts passes. A pass is `PassStarts`, `ReadOrders`, `ReadLimits`, then
per order the checks (`NextOrder`, `Refuse`, `RefuseFails`), patience
(`TooFresh`, `PatienceCancels`, `PatienceCancelFails`) and price
(`WalkLeavesAlone`, `Walk`, `WalkFails`, `WalkAnswerLost`), and `Tell`. Between
any two of these an order may be sent, cancelled or filled and time may pass,
up to `PassLimit`. Prices are cents, larger is worse. What a set of an order
loses at worst (`WorstCase`) and the price its name states (`Reservation`) are
constants here and `Exposure`'s and `Concession`'s business. A quotient that
rounds to a half cent may go either way (`Rounded`), as a float does.
What the limits add up over orders is `SumFunctionOnSet` of the community modules,
about which `Sums` has lemmas. `PatienceEnds` allows an order its patience, the
longest there may be from one pass to the next and one pass: the pass that finds the
patience over is late by the second and reaches the order by the end of the third.
`config.go` (`parseExecution`) refuses a patience shorter than an interval, which
`LadderAssumption` takes over; what `PatienceEndsAtTheFloor` needs beside it is below.
`spared`, `hindered`, `why`, `sentAt` and `aside` are observed by properties only.

### Mailbox

`running`, `queue`, `counter` and `events` are the fields of `Mailbox`; `pc` and
`hand` the requests held open in `servePoll`; `expiring` and `owed` what
`expire`, `Interrupt` and `serveDone` still have to emit after the lock. `arrived`
needs no variable: a poll that `waits` waits on the present one, and `Park`, which
closes it, lets all of them look again. The filter `expire` runs over the queue is
`Picked`, the members at the places that stay.

| Action | Code |
|---|---|
| `StartTurn`, `Steer`, `Interrupt` | `Turn`, `Steer`, `Interrupt` with `park` |
| `Hears` | `followTheSession` taking one event |
| `Looks`, `GivesUp` | `next`: the queue and `arrived` under one lock, then the select |
| `Writes` | the rest of `servePoll`: the delivery arrives, or is logged and gone |
| `Say`, `PostDone` | `serveSay`, `serveDone`; a client names only turns it took, as `reply.sh` does |
| `Expire`, `ExpireEmits`, `Emits` | `expire` under the lock; what follows it, one event at a time |

`Conversation` is what the harness relies on: a turn is live until it ends, ends
once, and is told at most once, possibly never. `Mailbox!IsAConversation` maps
`live` to `running` and what is owed to the completions on their way.

### Wakeups

`list` and `next` are the store's memory, `file` the disk. `Add`, `Cancel` and
`TakeDue` write the whole list through, and each write may fail; the rename
makes a write atomic, so a crash is between operations. `due` is what
`Store.Due` returned and the clock has not told yet. The store shares a process and its
clock with the schedule, so its specification is `StoreSpec`, of `StoreInit` and
`StoreNext`, beside the schedule's `Spec`; `Restart` and `TimeGoesBy` are its crash and
its clock.

### TakeProfit

`held` is the account, `orders` the broker's list, `sent` the watch's memory with
the ticks it has left, `watch` where a pass stands and what it has read so far.
A pass is `Look` (positions), `LookAtOrders` (the newest orders, then the share of
the declaration), per structure `PassOver` or `Decide` (the price) and `Sends`, and
`EndPass`. `ReadFails` ends the pass or the structure, `SendFails` refuses the order
or takes it and loses the answer, `WatchRestarts` forgets what was sent. Beside it the
session orders, orders fill (`Fills`) or end, the market and the declaration change,
and the day of expiry ends. The broker fills whatever it was sent: that an order may
only close is a word to a broker that honours it, and the arena does not. `still` and
`alone` note for `OnlyShrinks` whether what the pass had read was still so when it
sent (the account as read, and no order that works left out of the list), and
whether since then something filled on the same contracts that the session sent, or
the watch on what was not so. `Ladder` and `TakeProfit` name nothing alike, so that
one module of proofs can extend both: the watch's specification is `WatchSpec`.

### Book, Arena, OrderLife

A book is a record: `cash`, `held` contracts, `shares`, the `mark` remembered of
them, `orders` in the order they were submitted, the contracts with an event of
expiry (`settled`), and `gone` and `money`, which add up what expiry took. `Arena` holds every book twice, in memory and in the store.
`Written` and `WriteFails` are the two ends of `persist`: a write that fails
leaves memory changed and its caller an error. Two writes of one book do not fail
in a row.

| Action | Code |
|---|---|
| `PlaceBegin`, `PlaceSubmit` | `placeOrder`: the name and the clock; then the quotes and `Submit` |
| `MoveBegin`, `MoveSubmit` | `replaceOrder`: the order, the name and the clock; then `Replace` |
| `CallRefused`, `Cancel`, `Remember` | a refusal, `cancelOrder`, `remember` of `account` and `positions` |
| `PassBegin`, `PassExpire`, `PassSettle`, `PassSettled` | `once`: the clock; `ExpireDay` and the due contracts; one booking each; the next book |
| `PassGather`, `PassQuotes`, `PassFails` | the standing orders, oldest first; the quotes |
| `PassFill`, `PassMark` | `fill`: what is reached, `Fill`, what is left of the size; `MarkStand` on the bench |
| `Advance`, `Crash` | time; the end of the process and `Load` |

Time counts sessions and the pauses between them. A reading of the clock may be
the one of the phase before, as `clock` holds an answer for fifteen seconds.
`late`, `seen`, `born`, `took` and `exposed` are observed by properties only.
The orders of a pass are a set of which the oldest is taken next (`NextInQueue`);
`once` sorts them by their submission, and orders of two books submitted at the same
moment may go either way there too. One step of `Arena` may write several books
(`Crash` loads all of them), so one step of `OrderLife` may as well.
A book is named in `exposed` once a restart finds in the store a group of contracts
of which some were settled and others are still held (`PartSettled`). That looks at
`settled`: `gone`, the net of what expiry took, comes back to zero when an expired
contract is traded again and settled the other way.
`OrderLife` says what a participant may count on whatever happens: an order, once
written, is never lost, its fills never shrink, and nothing happens to it after
its end.

### Upstream

`pc` of each call; the cache (`on`, `hot`, `entry`), the gate (`free`, `queues`),
the session in use and the one each call works on, and the calls whose answer was
begun and stalls (`silent`). `Ask`, `Shares`, `Again`, `StopsWaiting`, `Publish`,
`Tidy` are `through`, `Enter`, `Wakes`, `GivesUp`, `Leave` the gate, `Connect`,
`Connected`, `ConnectFails` are `connect`, which keeps the session's lock while it
dials, `Answers` and `Breaks` the call itself and `Drops` the discarding of its
session, which needs that lock (`LockIsFree`). `GoesSilent` is the server that sends
the headers of its answer and then nothing: no limit of the link is on that. How long
an answer keeps depends on the tool; here one may go stale at any time (`Ages`).

### Exposure, Concession, Staging, Valuation, Arithmetic

Calculations, as operators. `Arithmetic` is the state machine around them: an order
is filled in part or a set more, time passes on a staged market, the ladder passes
over two orders and renames them (`Pass`), and an account trades at a reading
(`Trade`), sees contracts expire (`Settles`) and remembers prices (`Remembers`).
Each property compares what the code computes with a definition it does not use:
every end of the day up to a price past the last bend, every fill the walk may
take, the sum of what was paid and made. Prices are whole cents, entry prices
fractions, money in halves where a mark or one and a half times a price is taken.
Black-Scholes is the constant `Worth`; the instance uses its value on the last day.

## Runs

Passing runs, with the bounds that matter:

| Run | Shows | Bounds and why they are enough |
|---|---|---|
| `turns_safe` | `OpeningIsExclusive`, `OneTurnUnlessMistaken`, `TakeoverOnlyOfTheDead` | two turns, one teller and the clock, follower, watcher: a second turn is what all three are about, and every pair of goroutines that can race is there. An event buffer of one fills; two refusals end the process. A conversation is forgotten after one blind turn where the code waits for two, which only makes it happen within two turns. |
| `turns_live` | `EveryTurnIsLetGo`, `ThePlaceIsGivenUp` | one turn, a crash, the code's three refusals, failing calls and writes |
| `schedule_safe` | `MarkedMeansTold`, `RepeatsAreExcused` | a repeating session and a closing window that cannot wait, taken out of the file and put back; a day and a bit, one crash, a record that fails |
| `ladder_patience` | `FloorIsKept`, `PatienceEnds`, `PatienceEndsAtTheFloor` | one order from six cents of credit to a floor of two, in an interval of two and a patience of five moments: three passes, one of them late, a restart, and three moments more than the longest life it may have |
| `ladder_book` | `BookHolds` | two opening orders of two sets and a closing one, all four limits, one pass in which everything may fill, be cancelled or fail to be |
| `mailbox_safe` | `UnclaimedIsClosed`, `StopFollowsTheTurn`, `NoPollSleepsOnMail`, `IsAConversation` | two turns, two deliveries parked at once and two polls: a turn and its stop, two turns, a poll woken for what the other takes; a channel of one event fills; three moments past a staleness of one let a turn and its successor expire |
| `wakeups_safe` | `StandsUntilDue`, `IdsDiffer`, `WakesOnce` | three requests, a restart, every write able to fail: ids are reused after the first |
| `takeprofit_safe` | `OnlyShrinks`, `NeverLockedOut` | one vertical, near and far; the session may add a set, close it or add to the hedge; a market that is not ripe, ripe, and without a bid; a share that is unreadable or 35; a list of one order of three, so that a close still working falls out of it; two failures or restarts: a lost answer and a restart after it is the shortest way to two closes |
| `arena_safe` | `LossIsBacked`, `SizeIsShared`, `BookAddsUp`, `OneOrderPerName`, `FillsOnTime`, `ImplementsOrderLife` | one book and two calls in flight: a ratio order whose loss has no end without the hedge, and the hedge; a size that fits one of two, a quote gone stale; a session and the pause after it, in which the day order ends and both calls expire, once without a published price and once in the money; any number of restarts |
| `upstream_safe` | `PlacesAddUp`, `NobodyWaitsBesideAFreePlace`, `SharedUntilOneIsBad`, `DiscardedByItsOwn`, `EveryCallEnds` | a trade and three reads of one chain over two places: two may hold, one queue of each priority may wait, and a read may find the answer of another bad while a third starts anew; any of the four may stall, dialling or calling, so that there are runs with a place and the lock left and runs without |
| `arithmetic` | `WorstIsTheWorst`, `SumCoversTheBook`, `OneReality`, `NoTeleport`, `WorstPriceTravels`, `ProfitAddsUp`, `AccountIsHonest` | two calls and a put of one day and a call of another; every order of up to two bought and one sold of each; six accounts; ten lists of steps with every way of starting, closing and failing; names with and without room; four trades, two moments of expiry, three readings, one of them crossed and stale |

`Turns` and `Schedule` also check their type invariants, where the bound that
matters (the event buffer, the channel of silent turns) is a conjunct. The other
modules keep theirs (`TypeOK`) as a definition, for `UpstreamProofs` and for a
reader.

One run must find a promise of the repository's text violated (`findings` in
`PROJECT.json` quotes the lines):

| Run | Promise | What happens |
|---|---|---|
| `turns_two` | two sessions never hold the account together | `clearTurn` clears whichever turn runs by then; no call has to fail for it |

More such promises are stated in the modules, next to the code that does not keep
them. Each is violated when it is added to the configuration named:

| Definition | Promise | What happens |
|---|---|---|
| `Turns!SilentMeansSilent`, invariant, `Turns_safe.cfg` | `turnActed` records whether the agent said or called anything (`harness.go:193-195`) | the reset (`harness.go:1036`) comes after the turn was published and recorded, and erases what was said in between |
| `Schedule!CannotWaitIsSaid`, property, `Schedule_safe.cfg` | what cannot wait is not queued (`docs/capabilities.md:95`, `docs/algorithm.md:46`) | a due session that can wait, declared first, ends the pass (`harness.go:758`) before it is reached |
| `Schedule!SilentStaysDue`, invariant, `Schedule_safe.cfg` | a silent window is started again by the next tick (`harness.go:792-793`) | a reread takes it for a new name (`harness.go:387`) and marks it from the record |
| `Wakeups!PromiseIsKept`, invariant, `Wakeups_safe.cfg` | a restart does not forget a wake-up (`wakeup.go:4-6`) | it leaves the file (`wakeup.go:202`) before it is told |
| `Upstream!JoinsAFreshCall`, invariant, `Upstream_safe.cfg` | who found an answer bad goes "round again, where we either start a new entry or join somebody else's fresh call" (`upstream.go:371-372`) | every such caller starts its own |
| `Upstream!SurvivesASilentBroker`, property, `Upstream_safe.cfg` | the matcher "is required to survive both a dropped connection and a silent broker" (`match.go:58-60`) | `ResponseHeaderTimeout` (`upstream.go:69`) ends the wait for headers only; an answer that begins and stalls is waited for without end, on a context that has none (`main.go:121`, `match.go:35-46`). `marketdata.go` met this hang and bounds every call (`brokerCallLimit`, `heldstream_test.go`); the arena's link does not |

Deadlock is checked unless a program may really stop. `Ladder` and `Wakeups` end
at `MaxTime` (`Finished`), a bound of the model. `Upstream`'s calls are all made
and answered or stalled in the end, `TakeProfit`'s book can be empty with every order ended,
`Arithmetic`'s histories are over when their elapsed time is: these three say
`CHECK_DEADLOCK FALSE`. The other modules never stop.

### What the properties leave out

Several are true only with an exception the code makes. Each is in the
property's text, none wider than the case:

- `RepeatsAreExcused`: a silent turn, a record that could not be read or written, a
  process that ends between the prompt and the record.
- `OneTurnUnlessMistaken`, `TakeoverOnlyOfTheDead`: until a steer that failed is taken
  for the end of a turn, a start's answer is lost, or the watcher clears late.
- `PatienceEnds`: a restart loses the ages, as the comment on `Ladder.ages` accepts.
- `LossIsBacked`: while contracts of one book are being settled one by one, and after
  an assignment has left shares or a restart has cut a settlement short, a book may be
  short of cover until what is left settles too.
- `SizeIsShared`: `Fill` changes memory before `persist` fails; `matcher.fill` takes the
  error for no fill and deals the same size again to the next order.
- `OneOrderPerName`: of two calls under one name that both looked it up before either was
  in the book, both stay.
- `FillsOnTime`: `clock` answers from memory for up to fifteen seconds, so an order
  submitted just after the close is dated to the session that is over.
- `SharedUntilOneIsBad`: after an answer failed or went stale, each that waited on it may
  be upstream at once, and with four calls two that did not wait as well.
- `EveryCallEnds`: with as many answers stalled as there are places, or one stalled while
  it dials and keeps the session's lock, nothing goes upstream again. While a place and
  the lock are left, a stalled call keeps its own place and those who share its answer,
  and every other call ends. What nothing ends is the stalled call
  itself (`SurvivesASilentBroker`).
- `OnlyShrinks`: a close that fills between the reading of positions and of orders is in
  neither, and is sent again; so is one still working that a hundred newer orders push out
  of the list (`step.go:53`). Neither the second close nor, once it has filled, the first
  is claimed to find its book. The session's own fills after a pass looked are its own.
- `WorstIsTheWorst`, `SumCoversTheBook`: orders of one underlying and one expiration
  (`WorstCase` nets legs of different expirations, which `exposure.go` says "would read
  as covered when it is not"), whose limit is not past their own floor, and no naked
  calls, which `Unbounded` refuses.
- `WorstPriceTravels`: names that have no room for what they said lose the rest; names
  that differ in a trailing number only are one name after one pass, and the broker
  refuses the second order; an order placed past its own floor is walked back to it.
- `AccountIsHonest`: a bid with no ask beside it is marked at half, so selling to it
  raises the equity; a reading with a bid above its ask may show more in liquidation
  than in equity; the buying power is worked out from the share prices remembered before
  the reading and does not count what standing orders reserve.

### Fairness

Three runs use it. `turns_live`: `FairSpec` is weak fairness of each caller's
started work (a goroutine with something to do is scheduled, and every call it
makes is bounded by `AGENT_CALL_TIMEOUT`, so a step ends), of the follower, of a
`finishTurn` under way and of the watcher, whose ticker fires every second. The
agent is owed nothing, and nobody has to write or be due. `EveryTurnIsLetGo`
needs a TURN_LIMIT, which the code allows to be zero with a warning
(`harness.go:259-265`); with it off a turn whose completion was dropped is held
for ever.

`upstream_safe`: weak fairness of each call's own steps. A
goroutine that can go on does; a server that does not begin to answer is given up on
(`ResponseHeaderTimeout`, 30 s), and one that began either ends its answer, or the link
breaks, or the call is `silent`. A silent call is owed nothing: that its link breaks or
its context dies is possible (`Breaks` and `ConnectFails` in `World`) and nobody's duty,
`direct` adding no deadline and the matcher's context having none. The lock being kept
only by a call that dials, and each call dialling once, weak fairness is enough for those
that wait for it. No call is owed a beginning, and nobody has to give up.

`takeprofit_safe`: weak fairness of the watch's steps (the ticker fires, and calls
are bounded) and of the time that what was sent is remembered. The broker need
not fill, the market need not stay.

## Proofs

The theorems hold for every value of the constants that meets the assumptions of the
module, which TLC evaluates in the runs:

| Assumption | What it asks, and why the code justifies it |
|---|---|
| `CallersAssumption`, `BoundsAssumption` (`Turns`) | the callers differ from each other; bounds are numbers |
| `ScheduleAssumption`, `DeclarationsAssumption` | windows that stay within their day, a pass included; see Schedule above |
| `HarnessClockAssumption` | bounds are numbers |
| `WakeupsAssumption` | bounds are numbers, prices are not the mark for none |
| `UpstreamAssumption` | finitely many calls, each with a priority and a key or none; one place at least |
| `MailboxAssumption` | a staleness and an event buffer of one at least: `New` takes a default for a staleness that is not positive, the buffer is a constant |
| `LadderAssumption` | orders have a size and may lose something; prices are whole cents; an interval is no longer than the patience, as `parseExecution` of `config.go` insists |
| `RiskAssumption` (`Risk`) | finitely many contracts, a strike above zero, numbers are whole: prices are cents |
| `ArenaAssumption` | an order has legs and a size, sizes and quotes are not negative; limits may have any sign |
| `ValuationAssumption` | a contract is no share; the fee of a contract is not negative |
| `TakeProfitAssumption` | quantities are whole contracts, entry prices whole cents, a share a whole percent that may be unreadable; bounds are numbers |
| `ConcessionAssumption` | a name has room for a worst price and a stamp, as the constants of `reservation.go` do |
| `StagingAssumption` | finitely many contracts are staged; a refusal looks like no answer |
| `ArithmeticAssumption` | every input has the shape its Go type gives it, in whole cents and whole contracts: orders, accounts, scenarios, markets, books, trades, readings and ends. An order as sent stands at its first price under its own name. Nothing is asked of signs or of sizes beside these: quotes may be crossed or negative, cash may be short |

`TurnsProofs`:

- `TypeCorrect`: `Spec => []TypeOK`.
- `OpeningExclusive`, `OneTurn`, `TakeoverDead`: the three safety invariants,
  from one inductive invariant, `PlaceInv`. That nobody runs beside a turn
  follows only from knowing where every live turn is: published, or in the hand
  of the caller that is about to publish it (`NothingIsLost`). That in turn
  needs that what a caller gives up on is over, that a completion in the buffer
  or remembered as `finishedBeforePublished` is of a turn that is over
  (`DoneIsDead`), and that identifiers are not used again (`IdsAreOld`), so that
  "over" stays true. All of it is conditioned on `mistaken`, because a failed
  steer, a lost answer and the late clear do break it.

`ClockProofs`, of the schedule:

- `TypeCorrect`: `Spec => []TypeOK`, with the channel within its capacity.
- `MarkedToday` and `NoUnexcusedRepeat` (an action property): from
  `ScheduleInv`. A mark means a telling on that day or later (`MarksAreTold`);
  what was told is remembered, by the memory or the record, unless excused, and
  by the memory where it is declared today (`ToldIsKept`); a pass works with a
  time at most a pass old, and nothing it compares with is later
  (`PassIsRecent`); the session in hand is still due (`InHand`). That windows
  stay within their day is what lets a time of the pass and a time of the record
  be compared by day.

`UpstreamProofs`:

- `Typed`: `Spec => []TypeOK`.
- `PlacesKept`, `NoIdlePlace`: from `TypeOK /\ Gate`. That free and held places add up is
  inductive only with `QueuesHoldWhoWaits`: a place is handed to the head of a queue,
  and the sum is kept only if that head is a caller that waits, once, and holds none.
  A caller that gives up is taken out of its queue under the same lock, or was handed a
  place and gives it back. The steps that move one caller between places rest on
  lemmas about the cardinality of the set of holders.
- `OwnFailure`, an action property: only `Drops` gives a session up, of the call that
  was made on it. A call that raises one replaces none, which rests on `OneDials`: who
  dials holds the lock alone, and there is no session beside it.
- `SharedUntilBad`: from `CacheInv`. Whoever is upstream for a key has made an entry
  that is not ready (`FetchersHaveEntries`), an entry is what the cache holds for its
  key unless one was bad (`OneEntryUntilOneIsBad`), and who goes round again found a
  bad one (`EntriesAreTheKeys`).

`ClockProofs`, of the wake-ups:

- `StandsOnDisk`: inductive as it is; a write that fails grants nothing.
- `NumbersDistinct`, `OnceAwake`: from `WakeupsInv`. Numbers given out again stay
  apart because no number of the list or of the file is above the last one given
  out (`Numbered`); after a restart that rests on the largest number of the file
  being its largest, which `LargestExists` gets from the well-foundedness of `<`, the
  file being bounded. A request is told once because it is in one place only, the
  list or the hand of the clock, and was neither told nor taken back while it is
  there (`InOnePlace`); a restart may undo this for what only the file still had, and
  `returned` names those.

`MailboxProofs`, all from `MailboxInv`:

- `UnclaimedClosed`, `StopFollows`, `NoPollSleeps`: a turn in flight is in the queue,
  in the hand of a poll, with the client, or its handing over failed (`Whereabouts`);
  what is queued keeps its order through every filter, because what `Picked` keeps it
  keeps once and in place (`PickedInOrder`, from cardinalities of initial parts).
- `IsConversation`, the refinement: initial states map to initial states, and every
  step to a step of `Conversation` or a stutter. It needs `ToldOnce`: the completions
  of a turn that are owed, being expired or in the channel are one together at most,
  and none while it runs.

`HelpersProofs`, of the ladder:

- `FloorKept`, `PatienceKept`: from `PatienceInv`. An order that was not spared counts
  its age from when the session sent it, whatever id it has by now (`ChainKept`), and
  whoever was over its patience when the pass began is still to be judged by it
  (`NoneOverlooked`); passes begin no further apart than `Longest` (`KeepsTime`).
- `EndsAtTheFloor`: from `ArrivesInv`, under `MayArrive`: the stride is the one that
  arrives, a pass is over within the interval, and the patience is two intervals less
  one moment at least. An order that nothing hindered stands at its worst price one
  pass before its patience is over (`OnItsWay`). The last hypothesis is needed: with a
  shorter patience an order sent between two passes rests in the first and is
  cancelled by the second without a step, though `config.go:557-558` names only a
  patience shorter than one interval as too short.
- `BookKept`: from `BookInv`. The number a pass carries from order to order covers
  what is held and what it has let stand (`Covered`): an order not judged yet counts
  with what had filled when the listing was read, one judged and let stand with all of
  it, and what fills meanwhile is in the latter already because the rest of an order
  only falls (`RestFalls`). Where a limit is broken an order is cancelled, and a
  cancellation that fails leaves less than a set of the largest order above the book
  (`StaysBelow`, `NextFits`).

`HelpersProofs`, of the watch:

- `WatchKept`, `WatchOnlyShrinks` (an action property): from `WatchInv`. An order that
  counts, sent on what was so and with its book left to it, closes what is held of every
  contract it touches (`ClosesWhatIsHeld`), and no two of those touch the same one
  (`NoneTwice`), so one that fills takes nothing from another. A new one is such because
  a pass whose reading is still so reads the account (`ReadsTheAccount`), and no order in
  play that it does not know of is on what it has yet to send (`KnowsTheOrders`): of two
  families no contract is the same, and each is decided on once in a pass. What was sent
  and is remembered plays no part, which is why a restart and a lost answer change
  nothing of this.

`ArenaProofs`:

- `NamesKept`, `SizeShared`, `FilledOnTime`, and `IsOrderLife`, the refinement: from
  `ArenaInv`. The store is behind the book and contradicts nothing in it (`Grows`,
  preserved by every operation: the `...GoesOn` lemmas); a call knows of every order
  it saw that none bears its name (`Knows`); no order a pass has been past outlived its
  session (`OnTime`); what was booked and what is left of a size are no more than was
  shown (`SizesLeft`), which rests on `Fits`, the least number of sets every leg has
  room for.
- `AddsUpKept`: with `AccountsInv`. An operation leaves the account alone, fills one
  order or settles one contract, in memory, in the store or in both, and each of the
  three adds up where it did before.
- `LossBacked`: with `BackedInv`. `Fill` lets nothing through that the cash does not
  bear; the settlement is what needs an argument, since midway a book may owe more than
  it has. It is `Sustained`: at the prices it is settled at, with shares worth what
  they cost there, what is left of the groups a settlement has begun and every other
  group at its worst are borne by the cash. One contract more
  of a group moves value from contracts to cash or shares and changes no sum
  (`SettledSustains`, `SettledCarries`), and at the end nothing of those groups is left:
  all that is held is at its worst (`BearingIs`). The beginning needs that no price
  is worse than the worst of `Points`: a payoff is straight between the strikes and
  rises after the last (`StraightBetween`, `WorstIsLeast`). A restart brings back what
  the store was written from, which was `Sustained` at some prices.

`ArithmeticProofs`. Every property the run `arithmetic` checks is a theorem, each with a
strengthening that says its inputs stay readable as the history goes on
(`OrderIsReadable`, `StagingIsReadable`, `WalkIsReadable`, `WalletIsReadable`); TLC finds
these, and `BooksBalance`, true of the instance of the run.

- `WorstKnown`: a payoff is straight between two strikes, so at its ends it is least
  (`LeastAtABend` of `Sums`), and past the last bend it only rises when there is no naked
  call. One of the prices the ladder probes is therefore as bad as any end of the day, and
  what rests of an order fills at no worse a price than the walk may reach.
- `BookBounded`: an order of one underlying and expiration changes one group
  (`OtherGroups`, `ItsGroup`). Wherever that group is worst afterwards, the order is worth
  no less there than its worst case and the rest no less than it was at its worst
  (`GroupCovered`); the other groups are added up unchanged (`BookCovered`).
- `RealityIsOne`, under `WorthIsWhole`, that the pricing model answers in whole parts of
  a cent for every price of the underlying. An accepted scenario has steps of one kind
  only (`StepsAre`), so an answer is relayed and displaced, or staged, and never part of
  each; the session's path and the arena's find the same step and the same displacement,
  and `shiftQuote` leaves a side that was quoted above zero and two sides in their order
  (`QuotedStill`).
- `DisplacementIsSteady`: two moments on one line between two steps are no further apart
  than the steepest line goes (`LineNear`), so are two steps (`KnotsNear`), and a moment of
  the run that several steps begin in is a chain of such parts (`NearChain`), the first
  from the moment to the next step, the last from a step to the moment after. Where the
  code counts up (the steepest line, the step a chain reaches) the proof takes the first
  it fails for, in place of an induction.
- `NameTravels`: from `WalkIsReadable`, whose parts are that a name states a worst price
  once at most (`NamedOnce`) and that the limit is between the first price and the worst
  (`BetweenFirstAndWorst`). A name is a sequence of fields of words, of any length.
  `NameCarrying` takes the last field off if it is its own stamp, keeps the rest or else
  only the worst price, and stamps again: a name carried twice is the name carried once
  under another stamp (`CarriedTwice`), and names that differ still do (`CarriedApart`).
- `AccountHonest`: at quotes that are not crossed, and an executable order finds none
  crossed, neither the middle of the market nor what closing fetches makes more of a fill
  than was paid (`QuoteGivesNothing`, leg by leg). Closing everything at the sides an order
  crosses fetches what `Liquidation` adds up (`ClosingFetches`). That buying power can be
  spent on an order that only buys rests on a comparison of books: more of every contract
  is no riskier, at any price (`MorePays`) and so at the worst (`MoreIsSafer`).
- `BooksAreBalanced`, then `ProfitIsWhole`: entry prices are fractions whose denominators
  grow with every weighting. Any finite set of fractions has a common denominator
  (`HasCommon`), so both sides of a step are counted in parts of one size and the
  equations are of whole numbers, of degree two (`MoveKeeps`, one case for a position
  opened, added to, reduced, closed and turned over). What is held at cost, and the cash,
  are the start less the fees and what was made (`BooksBalance`); the profits shown are
  the marks less the cost, and the rest cancels.

`Sums`: the sums of the limits, of accounts and of payoffs are folds, and the library's
induction over finite sets takes an operator for a parameter. What an induction would
show of every set is shown here of a least subset it fails for, which exists by the
well-foundedness of the strict subset ordering (`LeastSet`). `SumExists` shows so that
the recursive function of a fold is there at all, `SumUnfolds` that it takes out one
member, `SumWithout` that any member may be taken out first, which is where the order
the community module picks stops to matter. The rest (`SumWith`, `SumChanged`,
`SumOfSums`, `SumIsMonotone`, `SumPadded`, `SumScaled`) is what the proofs reckon with,
and after it stand the payoffs `Arena` and `Arithmetic` share.

Three properties changed when they were proved. `OneOrderPerName` said that of two orders
under one name the later had not seen the earlier, which is false of three: a call that
looked before both, the second of which moves an order and keeps its name. It is asked
now of the order that brings a name into its chain of moves. And `PartSettled` looked
at `gone`, as above. `OnlyShrinks` did not except the working close that the bounded
listing leaves out: a pass sends it again, the second fills, and the first turns the book
round, though it was written on a true reading. The run listed too many orders to meet
it; it lists one of three now, and `Fills` notes that a fill of the second takes from the
first the book it was written for.

Only model-checked: the liveness properties `EveryTurnIsLetGo`, `ThePlaceIsGivenUp`,
`EveryCallEnds` and `NeverLockedOut`, fairness being out of the prover's reach. Every
other property of a passing run is a theorem.

## Not modelled

Of the harness: the text of prompts and chat lines, the status line, typing and
held-back speech, rereading of skills, the calls of a turn in the record. Of the
ladder: the report of fills (`report`, `NoteFill`) and the record of steps. Of the
mailbox: thread, token and state route. Of the arena: a day's closing equity,
events and notes (but that a note writes the book), HTTP, who a participant is, an
order that names one contract twice, and indices that settle in cash, which
`settle` leaves as they are (an underlying without a published price is the same
to a book). JSON, YAML and SQL anywhere. The components marked `not_modelled` in
`PROJECT.json` compute from what they read or move bytes.

Names of people are taken to differ from names of sessions: a chat user named
like a session would silence or un-mark it. The declarations checked name every
session once, though `Session.check` does not ask for it.

Some things go wrong in ways no document promises against, are modelled, and have
no property: a late event of an interrupted turn marks the next one as having
acted (`harness.go:1402`); the row of a turn interrupted before its row is
inserted stays open until the next start (`harness.go:1024`); a cancellation that fails
in `unbounded` or `tooBig` lets the order be priced and walked (`execution.go:843`);
orders cancelled in a pass whose process ends before its end are not told of
(`execution.go:472`); an id of a wake-up is given out again after a restart
(`wakeup.go:177`); a call of the ladder or the watch that returned at its bound may
still be delivered by its goroutine; an overlay reprices the contracts of every
underlying by one displacement, though only its own moves in `lastTrades`.

## Next

1. `Turns`'s agent as a `Conversation` too.
2. The ladder's report of fills, and `Ladder` and `TakeProfit` on one account.
3. Skills laid out on disk, and the envelope's numbers.
