------------------------------- MODULE Staging -------------------------------
(***************************************************************************)
(* A staged market of the arena: testbed/proxy/scenario.go and overlay.go. *)
(* A scenario either invents the market - each step says what changes - or *)
(* lays a displacement of the underlying over the real one.                *)
(*                                                                         *)
(* Two readers ask it the same questions: the session, through the tools   *)
(* of main.go, and the arena itself, when it fills and settles by          *)
(* quotes.go.  Prices are whole cents, a displacement is a fraction of     *)
(* them; greeks are known by the step or the displacement they go with.    *)
(***************************************************************************)
EXTENDS Integers, Sequences, FiniteSets, FiniteSetsExt, Functions

CONSTANTS
  Staged,      \* the contracts a scenario may quote or displace
  Dark,        \* those the broker sends without a volatility
  Symbols,     \* what a last trade may be asked of
  Underlying,  \* the one of them a scenario is about
  Worth(_, _), \* what a contract is worth to the pricing model at a price [num, den], times den
  Session,     \* how long a session is when the scenario does not say when it closes
  None,        \* what a scenario leaves out
  Refused      \* the answer of a tool, or of a read, that fails


------------------------------------------------------------------------------
(* What a file may hold.                                                   *)

Sides == [bid : Nat, ask : Nat]

ASSUME StagingAssumption ==
  /\ Dark \subseteq Staged /\ IsFiniteSet(Staged) /\ Underlying \in Symbols
  /\ \A cs \in SUBSET Staged : Refused \notin [cs -> Sides]   \* no quotes look refused

IsStep(step) ==
  /\ step \in [offset : Int, price : Int, delta : Int \cup {None}, open : BOOLEAN \cup {None},
               quotes : {step.quotes}]
  /\ DOMAIN step.quotes \subseteq Staged /\ Range(step.quotes) \subseteq [bid : Int, ask : Int]

Faults == [from : Int, until : Int, tools : SUBSET {"snapshot", "trade", "clock"}]

IsScenario(s) ==
  /\ s \in [mode : STRING, anchor : STRING, start : BOOLEAN,
            close : Nat \cup {None}, open : BOOLEAN, speed : Int, steps : {s.steps},
            faults : SUBSET Faults]
  /\ s.steps \in Seq(Range(s.steps)) /\ \A i \in DOMAIN s.steps : IsStep(s.steps[i])

------------------------------------------------------------------------------
(* LoadScenario: what may be staged.                                       *)

Overlay(s) == s.mode = "overlay"

ClockIsOne(s) ==
  /\ Overlay(s) => s.anchor = "" /\ ~s.start /\ s.close = None /\ ~s.open
  /\ s.anchor \in {"", "now"}
  /\ s.anchor = "" => Overlay(s) \/ s.start
  /\ s.anchor = "now" => ~s.start /\ s.speed \in {0, 1}

InOrder(steps) ==
  /\ steps # <<>>
  /\ \A i \in DOMAIN steps : steps[i].offset >= 0
  /\ \A i \in DOMAIN steps : i > 1 => steps[i].offset > steps[i - 1].offset

StepFits(s, step) ==
  /\ IF Overlay(s) THEN step.delta # None /\ step.price = 0 /\ DOMAIN step.quotes = {}
                   ELSE step.delta = None /\ step.price > 0
  /\ Range(step.quotes) \subseteq Sides

FaultFits(f) == f.until > f.from /\ f.tools # {}

Accepted(s) ==
  /\ s.mode \in {"", "overlay"}
  /\ ClockIsOne(s)
  /\ InOrder(s.steps) /\ \A i \in DOMAIN s.steps : StepFits(s, s.steps[i])
  /\ \A f \in s.faults : FaultFits(f)

Speed(s) == IF s.speed <= 0 THEN 1 ELSE s.speed

------------------------------------------------------------------------------
(* Reading it at a moment of the run, counted from its start.              *)

Moment(s, elapsed) == elapsed * Speed(s)

\* The steps that have begun.
Begun(s, elapsed) == {i \in DOMAIN s.steps : s.steps[i].offset <= Moment(s, elapsed)}

\* The step whose quote of a contract stands, and the one whose greeks do; none is 0.
QuoteOf(s, elapsed, c) ==
  Max({0} \cup {i \in Begun(s, elapsed) : c \in DOMAIN s.steps[i].quotes})
GreeksOf(s, elapsed, c) ==
  Max({0} \cup {i \in Begun(s, elapsed) : c \in DOMAIN s.steps[i].quotes})

\* The price of the underlying: nothing until the first step begins.
StagedPrice(s, elapsed) ==
  IF Begun(s, elapsed) = {} THEN 0 ELSE s.steps[Max(Begun(s, elapsed))].price

\* Whether the session is open: a step may say otherwise than the scenario.
StagedOpen(s, elapsed) ==
  LET said == {i \in Begun(s, elapsed) : s.steps[i].open # None}
  IN IF said = {} THEN s.open ELSE s.steps[Max(said)].open

CloseAt(s) == IF s.close = None THEN Session ELSE s.close

\* Mutant of ShiftAt: the displacement stands still until the next step.
Staircase(s, elapsed) ==
  LET i == Max({1} \cup Begun(s, elapsed))
  IN [num |-> s.steps[i].delta, den |-> 1]

\* The displacement, a fraction: it moves along a line from a step to the next.
ShiftAt(s, elapsed) ==
  LET i    == Max({1} \cup Begun(s, elapsed))
      from == s.steps[i]
      to   == s.steps[i + 1]
      span == to.offset - from.offset
  IN IF Begun(s, elapsed) = {} \/ i = Len(s.steps)
     THEN [num |-> from.delta, den |-> 1]
     ELSE [num |-> from.delta * span
                     + (Moment(s, elapsed) - from.offset) * (to.delta - from.delta),
           den |-> span]

Refuses(s, elapsed, tool) ==
  \E f \in s.faults : /\ f.from <= Moment(s, elapsed) /\ Moment(s, elapsed) < f.until
                      /\ tool \in f.tools

------------------------------------------------------------------------------
(* The broker's own prices, as a reader gets them: the rows it sends of    *)
(* contracts and of last trades, and the price of the underlying when a    *)
(* reading of it is held still.                                            *)

IsMarket(m) ==
  /\ m \in [quotes : {m.quotes}, trades : {m.trades}, held : Nat]
  /\ DOMAIN m.quotes \subseteq Staged  /\ Range(m.quotes) \subseteq Sides
  /\ DOMAIN m.trades \subseteq Symbols /\ Range(m.trades) \subseteq Nat

\* To the whole cent, a half away from zero.
Rounded(num, den) ==
  IF num < 0 THEN -((den - 2 * num) \div (2 * den)) ELSE (2 * num + den) \div (2 * den)

\* The price every contract of an answer is repriced against.
RealSpot(m) ==
  IF m.held > 0 THEN m.held
  ELSE IF Underlying \in DOMAIN m.trades /\ m.trades[Underlying] > 0
  THEN m.trades[Underlying] ELSE Refused

\* What the displacement is worth to a contract.
Move(c, spot, shift) ==
  Worth(c, [num |-> spot * shift.den + shift.num, den |-> shift.den])
    - Worth(c, [num |-> spot * shift.den, den |-> shift.den])

\* A side that is quoted stays quoted, and a bid does not pass its ask.
ShiftedQuote(q, c, spot, shift) ==
  LET move == Move(c, spot, shift)
      bid  == IF q.bid > 0 THEN Max({0, Rounded(q.bid * shift.den + move, shift.den)}) ELSE q.bid
      ask  == IF q.ask > 0 THEN Max({1, Rounded(q.ask * shift.den + move, shift.den)}) ELSE q.ask
  IN IF shift.num = 0 THEN q
     ELSE [bid |-> IF ask > 0 /\ bid > ask THEN ask ELSE bid, ask |-> ask]

\* Nothing can be displaced without a price of the underlying, nor a contract without a
\* volatility: then none of an answer is.
Displaceable(m, sent) == RealSpot(m) # Refused /\ sent \cap Dark = {}

ShiftedTrade(price, shift) == Rounded(price * shift.den + shift.num, shift.den)

------------------------------------------------------------------------------
(* What the session is told.                                               *)

StagedSnapshot(s, elapsed, asked) ==
  [c \in {d \in asked : QuoteOf(s, elapsed, d) # 0} |->
     [quote  |-> s.steps[QuoteOf(s, elapsed, c)].quotes[c],
      by     |-> QuoteOf(s, elapsed, c),
      greeks |-> GreeksOf(s, elapsed, c)]]

OverlaySnapshot(s, elapsed, m, asked) ==
  LET shift == ShiftAt(s, elapsed)
      sent  == asked \cap DOMAIN m.quotes
  IN IF shift.num # 0 /\ ~Displaceable(m, sent) THEN Refused
     ELSE [c \in sent |-> [quote  |-> ShiftedQuote(m.quotes[c], c, RealSpot(m), shift),
                           by     |-> shift,
                           greeks |-> shift]]

StagedTrade(s, elapsed, asked) ==
  [x \in asked \cap {Underlying} |-> StagedPrice(s, elapsed)]

\* Only the underlying of the scenario moves, and without its price nothing is said.
OverlayTrade(s, elapsed, m, asked) ==
  LET shift == ShiftAt(s, elapsed)
      sent  == asked \cap DOMAIN m.trades
      moved == sent \cap {Underlying}
  IN IF shift.num = 0 THEN Restrict(m.trades, sent)
     ELSE IF RealSpot(m) = Refused \/ \E x \in moved : m.trades[x] <= 0 THEN Refused
     ELSE [x \in sent |-> IF x \in moved THEN ShiftedTrade(m.trades[x], shift) ELSE m.trades[x]]

\* A read that names nothing is refused, never answered with nothing.
StagedAnswer(s, elapsed, tool, asked) ==
  IF asked = {} THEN Refused
  ELSE IF tool = "trade" THEN StagedTrade(s, elapsed, asked) ELSE StagedSnapshot(s, elapsed, asked)

OverlaidAnswer(s, elapsed, m, tool, asked) ==
  IF asked = {} THEN Refused
  ELSE IF tool = "trade" THEN OverlayTrade(s, elapsed, m, asked)
  ELSE OverlaySnapshot(s, elapsed, m, asked)

Relayed(s, elapsed, m, tool, asked) ==
  IF Overlay(s) THEN OverlaidAnswer(s, elapsed, m, tool, asked)
                ELSE StagedAnswer(s, elapsed, tool, asked)

\* The answer to a read of prices, a fault of the scenario first.
Answer(s, elapsed, m, tool, asked) ==
  IF Refuses(s, elapsed, tool) THEN Refused ELSE Relayed(s, elapsed, m, tool, asked)

\* The answer to a read of a staged clock.
ClockAnswer(s, elapsed) ==
  IF Refuses(s, elapsed, "clock") THEN Refused
  ELSE [time |-> Moment(s, elapsed), open |-> StagedOpen(s, elapsed), close |-> CloseAt(s)]

------------------------------------------------------------------------------
(* What the arena fills, expires and settles by.                           *)

OptionQuotes(s, elapsed, m, asked) ==
  LET shift == ShiftAt(s, elapsed)
      sent  == asked \cap DOMAIN m.quotes
  IN IF ~Overlay(s)
     THEN [c \in {d \in asked : QuoteOf(s, elapsed, d) # 0} |->
             s.steps[QuoteOf(s, elapsed, c)].quotes[c]]
     ELSE IF shift.num # 0 /\ ~Displaceable(m, sent) THEN Refused
     ELSE [c \in sent |-> ShiftedQuote(m.quotes[c], c, RealSpot(m), shift)]

\* Mutant of LastTrades: the arena settles by the price of the real market.
LastTradesAsTheyAre(s, elapsed, m, asked) ==
  IF ~Overlay(s) THEN [x \in asked \cap {Underlying} |-> StagedPrice(s, elapsed)]
  ELSE [x \in {y \in asked \cap DOMAIN m.trades : m.trades[y] > 0} |-> m.trades[x]]

\* A trade at no price is passed over.
LastTrades(s, elapsed, m, asked) ==
  LET shift == ShiftAt(s, elapsed)
  IN IF ~Overlay(s) THEN [x \in asked \cap {Underlying} |-> StagedPrice(s, elapsed)]
     ELSE [x \in {y \in asked \cap DOMAIN m.trades : m.trades[y] > 0} |->
             IF x = Underlying /\ shift.num # 0
             THEN ShiftedTrade(m.trades[x], shift) ELSE m.trades[x]]

StagedClock(s, elapsed) ==
  [time |-> Moment(s, elapsed), open |-> StagedOpen(s, elapsed), close |-> CloseAt(s)]

=============================================================================
