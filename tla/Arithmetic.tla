----------------------------- MODULE Arithmetic -----------------------------
(***************************************************************************)
(* What is worked out from its arguments alone, over bounded arguments:    *)
(* what an order may lose (Exposure) while it fills part by part, beside   *)
(* what is held; what a staged market answers (Staging) while its time     *)
(* goes by; where two orders are walked, and under which names             *)
(* (Concession), pass after pass; and what an account shows (Valuation) as *)
(* it trades.                                                              *)
(***************************************************************************)
EXTENDS Exposure, Staging, Concession, Valuation

CONSTANTS
  Orders,      \* orders the ladder may judge
  Accounts,    \* what may be held: [held, paid]
  Scenarios,   \* what a scenario file may say
  RealMarkets, \* what the broker may send while one is staged
  Walks,       \* two orders under their first names: [legs, limit, name, was, first]
  Books,       \* the quotes a pass may read
  Leasts,      \* the least edge a declaration may demand, or that it demands none
  Strides,     \* how far a step may go
  Start,       \* the cash of an account
  Trades,      \* the legs and the size an account may trade
  Readings,    \* the quotes of all instruments one reading may hold
  Ends,        \* the prices an underlying may end at
  MaxElapsed,  \* bound: moments of a staged run, passes of a walk
  MaxTrades,   \* bound: fills and settlements of an account
  Nothing

ASSUME ArithmeticAssumption ==
  /\ (\A o \in Orders : IsOrder(o)) /\ (\A a \in Accounts : IsAccount(a))
  /\ (\A s \in Scenarios : IsScenario(s)) /\ (\A m \in RealMarkets : IsMarket(m))
  /\ \A w \in Walks, i \in {1, 2} :
       IsWalkable(w[i]) /\ w[i].limit = w[i].first /\ w[i].name = w[i].was
  /\ (\A q \in Books : IsBook(q))
  /\ Strides \subseteq Nat
  /\ Start \in Int /\ Ends \subseteq Int
  /\ (\A t \in Trades : IsTrade(t)) /\ (\A m \in Readings : IsReading(m))

VARIABLES order, account, scenario, market, walk, wallet, elapsed

vars == <<order, account, scenario, market, walk, wallet, elapsed>>

\* The day a wallet is of, what it made and what it paid the broker are for the
\* properties.
NewWallet ==
  [cash |-> Start, held |-> [x \in Instruments |-> NoPosition],
   mark |-> [r \in Roots |-> 0], day |-> 0,
   made |-> Whole(0), fees |-> 0]

Init ==
  /\ elapsed = 0
  /\ \/ /\ order \in {o \in Orders : WorstCaseIsKnown(o)} /\ account \in Accounts
        /\ scenario = Nothing /\ market = Nothing /\ walk = Nothing /\ wallet = Nothing
     \/ /\ scenario \in {s \in Scenarios : Accepted(s)} /\ market \in RealMarkets
        /\ order = Nothing /\ account = Nothing /\ walk = Nothing /\ wallet = Nothing
     \/ /\ walk \in Walks
        /\ order = Nothing /\ account = Nothing /\ scenario = Nothing /\ market = Nothing
        /\ wallet = Nothing
     \/ /\ wallet = NewWallet
        /\ order = Nothing /\ account = Nothing /\ scenario = Nothing /\ market = Nothing
        /\ walk = Nothing

\* The broker fills a set of the order.
FillsPart ==
  /\ order # Nothing /\ Resting(order) > 1
  /\ order' = [order EXCEPT !.filled = @ + 1]
  /\ UNCHANGED <<account, scenario, market, walk, wallet, elapsed>>

TimePasses ==
  /\ scenario # Nothing /\ elapsed < MaxElapsed
  /\ elapsed' = elapsed + 1
  /\ market' \in IF Overlay(scenario) THEN RealMarkets ELSE {market}
  /\ UNCHANGED <<order, account, scenario, walk, wallet>>

\* A pass: both orders, one after the other, at one moment.
Pass ==
  /\ walk # Nothing /\ elapsed < MaxElapsed
  /\ elapsed' = elapsed + 1
  /\ \E quotes \in Books, least \in Leasts, step \in Strides :
       LET first  == Walked(walk[1], quotes, least, step, elapsed', {})
           second == Walked(walk[2], quotes, least, step, elapsed', {first.name})
       IN walk' = <<first, second>>
  /\ UNCHANGED <<order, account, scenario, market, wallet>>

Bare(held)   == [c \in Contracts |-> held[c].qty]
Shares(held) == [r \in Roots |-> held[r].qty]

\* The account or its positions are read: the prices seen of what is held are kept.
Remembers ==
  /\ wallet # Nothing
  /\ \E m \in Readings :
       wallet' = [wallet EXCEPT !.mark = [r \in Roots |->
         IF wallet.held[r].qty # 0 /\ TwiceMark(m[r]) > 0 THEN TwiceMark(m[r]) \div 2 ELSE @[r]]]
  /\ UNCHANGED <<order, account, scenario, market, walk, elapsed>>

\* What a position makes when part of it is closed at a price.
ClosedAt(p, signed, price, size) ==
  IF p.qty * signed >= 0 THEN Whole(0)
  ELSE LET closed == Min({Abs(p.qty), Abs(signed)})
       IN Times(IF p.qty > 0 THEN closed * size ELSE -closed * size,
                Sum2(Whole(price), Times(-1, p.avg)))

\* A fill at the quotes of a reading, where what it leaves is backed.
Trade ==
  /\ wallet # Nothing /\ elapsed < MaxTrades
  /\ elapsed' = elapsed + 1
  /\ \E t \in Trades, m \in Readings :
       LET after == Traded(wallet.cash, wallet.held, t.legs, t.sets, m)
           made  == [c \in Contracts |-> ClosedAt(wallet.held[c], t.legs[c] * t.sets,
                                                 Side(m[c], t.legs[c] > 0), Multiplier)]
       IN /\ \A c \in Contracts : t.legs[c] # 0 => Term[c].expiry > wallet.day
          /\ Executable(t.legs, m, FALSE)
          /\ Backed(after.cash, Bare(after.held), Shares(after.held), wallet.mark)
          /\ wallet' = [wallet EXCEPT
               !.cash = after.cash, !.held = after.held,
               !.made = Sum2(@, TotalOf(made, Contracts)),
               !.fees = @ + ContractsIn(t.legs, t.sets) * PerContract]
  /\ UNCHANGED <<order, account, scenario, market, walk>>

\* A contract held is settled, on its day or after it.
Settles ==
  /\ wallet # Nothing /\ elapsed < MaxTrades
  /\ elapsed' = elapsed + 1
  /\ \E c \in Held(Bare(wallet.held)), under \in Ends :
       LET after  == Exercised(wallet.cash, wallet.held, c, under)
           root   == Term[c].root
           turned == (IF Term[c].call THEN 1 ELSE -1) * wallet.held[c].qty * Multiplier
       IN wallet' = [wallet EXCEPT
            !.cash = after.cash, !.held = after.held, !.day = Max({@, Term[c].expiry}),
            !.mark[root] = IF after.held[root].qty = 0 THEN 0
                           ELSE IF Intrinsic(c, under) > 0 THEN under ELSE @,
            !.made = Sum2(Sum2(@, ClosedAt(wallet.held[c], -wallet.held[c].qty, 0, Multiplier)),
                          IF Intrinsic(c, under) = 0 THEN Whole(0)
                          ELSE ClosedAt(wallet.held[root], turned, Term[c].strike, 1))]
  /\ UNCHANGED <<order, account, scenario, market, walk>>

Next == FillsPart \/ TimePasses \/ Pass \/ Trade \/ Settles \/ Remembers

Spec == Init /\ [][Next]_vars

------------------------------------------------------------------------------

\* An order that is judged stays one that can be, whatever of it has filled.
OrderIsReadable ==
  order # Nothing =>
    /\ IsOrder(order) /\ WorstCaseIsKnown(order)
    /\ IsAccount(account)

\* What is staged was accepted, and stays what it was while its time goes by.
StagingIsReadable ==
  /\ elapsed \in Nat
  /\ scenario # Nothing => IsScenario(scenario) /\ Accepted(scenario) /\ IsMarket(market)

\* However often an order was replaced, it is as if it had been once.
NamedOnce(o) == o.name = o.was \/ \E at \in 0..elapsed : o.name = NameCarrying(o.was, at)

\* Its price is between the first and the worst of its name, or the first.
BetweenFirstAndWorst(o) ==
  LET floor == Reservation(o.was)
  IN IF floor = NoPrice THEN o.limit = o.first
     ELSE o.limit \in o.first..floor \cup floor..o.first

WalkIsReadable ==
  /\ elapsed \in Nat
  /\ walk # Nothing =>
       \A i \in {1, 2} :
         IsWalkable(walk[i]) /\ NamedOnce(walk[i]) /\ BetweenFirstAndWorst(walk[i])

\* Every amount of an account is a number, and every entry price a fraction.
WalletIsReadable ==
  wallet # Nothing =>
    wallet \in [cash : Int, held : [Instruments -> Positions], mark : [Roots -> Int],
                day : Int, made : Fractions, fees : Int]

Highest == 3 * Max({Term[c].strike : c \in Contracts})

\* The prices an order may fill at while the ladder walks it.
MayFillAt(o) == o.limit..Max({o.limit, WorstPrice(o)})

\* Every leg is of one series, and none closes what is held.
SettlesTogether(o) == Cardinality({GroupOf(c) : c \in LegsOf(o)}) = 1
ClosesNothing(o, held) == \A c \in LegsOf(o) : o.legs[c] * held[c] >= 0

\* An order the ladder can judge by its worst price: its loss has an end, its legs end
\* at one price, and it does not stand past the price its own name calls the worst.
Judged(o) == ~Uncovered(o) /\ SettlesTogether(o) /\ o.limit <= WorstPrice(o)

\* toobig.go, WorstCase: "can this order lose more than one position may, at any price
\* it can fill at?"  A few prices of the underlying answer for all of them, and a few
\* fills of it for whatever is left: no end of the day and no price of the walk is
\* worse than the worst case, and one is as bad.
WorstIsTheWorst ==
  order # Nothing /\ Judged(order) =>
    /\ \A s \in 0..Highest : \A p \in MayFillAt(order) : FilledWorth(order, p, s) >= WorstCase(order)
    /\ \/ WorstCase(order) = 0
       \/ \E s \in 0..Highest : FilledWorth(order, WorstPrice(order), s) = WorstCase(order)

After(o, held) == [c \in Contracts |-> held[c] + Resting(o) * o.legs[c]]

\* What the fill cost, put on one of its legs.
PaidAfter(o, paid, p) ==
  LET c == CHOOSE d \in LegsOf(o) : TRUE
  IN [paid EXCEPT ![c] = @ + Multiplier * Resting(o) * p]

\* execution.go, the limit of the whole book: what is at risk and the worst of an order
\* are added up and held against one number.  When that order has filled, wherever the
\* walk took it, what is at risk is no more than their sum.
SumCoversTheBook ==
  order # Nothing /\ Judged(order)
    /\ WithoutAFloor(account.held) = {} /\ ClosesNothing(order, account.held) =>
    \A p \in MayFillAt(order) :
      AtRisk(After(order, account.held), PaidAfter(order, account.paid, p))
        <= AtRisk(account.held, account.paid) - WorstCase(order)

Said(tool, asked) == Answer(scenario, elapsed, market, tool, asked)

\* The quotes and the greeks of one answer belong together: they are of one step, or
\* displaced by one distance, and a staged quote has a price of the underlying beside it.
OneAnswerIsOfOneMarket ==
  \A asked \in SUBSET Staged :
    LET said == Said("snapshot", asked)
    IN said # Refused =>
         /\ \A c \in DOMAIN said : said[c].by = said[c].greeks
         /\ Overlay(scenario) => \A c, d \in DOMAIN said : said[c].by = said[d].by
         /\ ~Overlay(scenario) /\ DOMAIN said # {} => StagedPrice(scenario, elapsed) > 0

\* Displaced, a contract that is quoted is still quoted, its sides in their order.
StillQuoted ==
  \A c \in Staged :
    LET dealt == OptionQuotes(scenario, elapsed, market, {c})
    IN Overlay(scenario) /\ dealt # Refused /\ c \in DOMAIN dealt =>
         /\ market.quotes[c].ask > 0 => dealt[c].ask > 0
         /\ market.quotes[c].bid <= market.quotes[c].ask => dealt[c].bid <= dealt[c].ask

\* What is read at a moment is what is dealt and settled by at that moment.
ReadAsDealt ==
  /\ \A asked \in SUBSET Staged :
       LET said  == Said("snapshot", asked)
           dealt == OptionQuotes(scenario, elapsed, market, asked)
       IN said # Refused =>
            dealt # Refused /\ dealt = [c \in DOMAIN said |-> said[c].quote]
  /\ \A asked \in SUBSET Symbols :
       LET said    == Said("trade", asked)
           settled == LastTrades(scenario, elapsed, market, asked)
       IN said # Refused => \A x \in DOMAIN settled : said[x] = settled[x]
  /\ ~Overlay(scenario) /\ ~Refuses(scenario, elapsed, "clock") =>
       ClockAnswer(scenario, elapsed) = StagedClock(scenario, elapsed)

\* quotes.go: "the book fills against the SAME prices the agent read.  Anything else
\* would be a bench in which the agent sees one market and trades another."  No answer
\* mixes two markets either, and a displacement takes no quote off the market.
OneReality ==
  scenario # Nothing => OneAnswerIsOfOneMarket /\ StillQuoted /\ ReadAsDealt

Distance(a, b) == Abs(a.num * b.den - b.num * a.den)

\* overlay.go, shiftAt: the displacement never jumps.  In a moment of the run it moves no
\* further than the steepest line between two steps goes in that time.
NoTeleport ==
  [][scenario # Nothing /\ Overlay(scenario) =>
       LET now   == ShiftAt(scenario, elapsed)
           then  == ShiftAt(scenario, elapsed')
           steps == scenario.steps
       IN \/ Distance(now, then) = 0
          \/ \E i \in 1..(Len(steps) - 1) :
               Distance(now, then) * (steps[i + 1].offset - steps[i].offset)
                 <= Speed(scenario) * Abs(steps[i + 1].delta - steps[i].delta)
                      * now.den * then.den]_vars

\* What a replacement keeps of the name, where it has the room to.
Kept(o) == HasRoom(Unstamped(o.was)) => o.name = o.was \/ Unstamped(o.name) = Unstamped(o.was)

\* reservation.go, NameCarrying and its tests: "the floor is what must survive", "the turn
\* survives", "it does not grow", "the broker refuses a name it has seen".  However often
\* an order is replaced, its name still states the same worst price or still none, says
\* all it said if there is room, fits, and is not the name a second order gets in the same
\* pass if they differ in more than a number at the end; and the price has gone from the
\* first to the worst at most, never the other way but for an order first placed past it.
WorstPriceTravels ==
  walk # Nothing =>
    /\ \A i \in {1, 2} :
         LET o == walk[i]
         IN /\ Reservation(o.name) = Reservation(o.was)
            /\ Kept(o)
            /\ Size(o.name) <= NameLimit
            /\ BetweenFirstAndWorst(o)
    /\ HasRoom(Unstamped(walk[1].was)) /\ HasRoom(Unstamped(walk[2].was))
         /\ Unstamped(walk[1].was) # Unstamped(walk[2].was)
       => NameCarrying(walk[1].name, elapsed + 1) # NameCarrying(walk[2].name, elapsed + 1)

\* Two fractions are one number.
Same(a, b) == a.num * b.den = b.num * a.den

\* What is held at what it cost, and the cash, are what the account began with, less the
\* fees, and what closed positions made.
CostOfAll(held) == TotalOf([x \in Instruments |-> CostBasis(held, x)], Instruments)
BooksBalance ==
  wallet # Nothing =>
    Same(Sum2(CostOfAll(wallet.held), Whole(wallet.cash)),
         Sum2(wallet.made, Whole(Start - wallet.fees)))

\* The account answers with the collateral of the prices it remembered before.
Shown(m) == Account(wallet.cash, wallet.held, m, wallet.mark)

\* book.go, move: entry prices are weighted by quantity, or "the P&L would drift
\* silently".  Whatever was bought, sold, added to, turned over, assigned and expired, the
\* equity is what the account began with, less the fees, plus what closed positions made
\* and the profits shown of those still held.
ProfitAddsUp ==
  wallet # Nothing =>
    \A m \in Readings :
      LET rows   == {x \in Instruments : wallet.held[x].qty # 0}
          profit == [x \in Instruments |-> TwiceProfit(wallet.held, m, x)]
      IN Same(Sum2(Whole(2 * (Start - wallet.fees)), TotalOf(profit, rows)),
              Sum2(Whole(Shown(m).equity), Times(-2, wallet.made)))

\* match.go: filling must not hand out "money that does not exist".  No fill at the quotes
\* of a reading raises the equity or the liquidation value of that reading, but where a
\* leg is sold to a bid with no ask beside it, whose mark is half the bid.
ReadingGivesNothing ==
  \A m \in Readings, t \in Trades :
    LET after == Traded(wallet.cash, wallet.held, t.legs, t.sets, m)
        then  == Account(after.cash, after.held, m, wallet.mark)
    IN Executable(t.legs, m, FALSE) /\ (\A c \in Contracts : t.legs[c] < 0 => m[c].ask > 0) =>
         then.equity <= Shown(m).equity /\ then.liquidation <= Shown(m).liquidation

\* Closing every contract at the quotes of a reading fetches the liquidation value.
ClosingFetchesIt ==
  \A m \in Readings :
    LET legs == [c \in Contracts |-> -wallet.held[c].qty]
    IN Executable(legs, m, FALSE) /\ (\A r \in Roots : wallet.held[r].qty = 0) =>
         2 * (Traded(wallet.cash, wallet.held, legs, 1, m).cash
                + ContractsIn(legs, 1) * PerContract) = Shown(m).liquidation

\* What is bought for no more than the buying power is backed when it has filled, at the
\* prices of shares it was worked out from.
PowerIsSpendable ==
  \A m \in Readings, t \in Trades :
    LET after == Traded(wallet.cash, wallet.held, t.legs, t.sets, m)
    IN (\A c \in Contracts : t.legs[c] >= 0) /\ Executable(t.legs, m, FALSE)
         /\ 2 * (wallet.cash - after.cash) <= Shown(m).power =>
         Backed(after.cash, Bare(after.held), Shares(after.held), wallet.mark)

\* tools.go, account: its numbers are those an agent sizes by.  A reading gives nothing
\* away, the liquidation value is what closing fetches and no more than the equity where
\* no bid is above its ask, and the buying power can be spent.
AccountIsHonest ==
  wallet # Nothing =>
    /\ ReadingGivesNothing /\ ClosingFetchesIt /\ PowerIsSpendable
    /\ \A m \in Readings :
         (\A x \in Instruments : m[x].bid <= m[x].ask) => Shown(m).liquidation <= Shown(m).equity

=============================================================================
