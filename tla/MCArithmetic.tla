---------------------------- MODULE MCArithmetic ----------------------------
EXTENDS Arithmetic, TLC

\* Two calls and a put of one day, and a call of another.
CONSTANTS low, high, put, later, spy, qqq

MCTerm ==
  [c \in Contracts |->
     [root |-> spy, expiry |-> IF c = later THEN 2 ELSE 1,
      call |-> c # put, strike |-> CASE c = low -> 2 [] c = put -> 3 [] OTHER -> 4]]

\* Every order of up to two bought and one sold of each contract, two sets of it, for a
\* credit or a debit, conceding a little, nothing, or naming no price or a better one.
MCOrders ==
  [legs : [Contracts -> -1..2], quantity : {2}, filled : {0},
   limit : {-2, 1}, floor : {NoFloor, -1, 1}]

\* Flat, a sold vertical, a sold put, a backspread, and a spread of two days.
Carried(l, h, p, t, paid) ==
  [held |-> [c \in Contracts |-> CASE c = low -> l [] c = high -> h [] c = put -> p [] OTHER -> t],
   paid |-> [c \in Contracts |-> IF c = low THEN paid ELSE 0]]

MCAccounts ==
  {Carried(0, 0, 0, 0, 0), Carried(-1, 1, 0, 0, -2), Carried(-1, 1, -1, 0, -4),
   Carried(-1, 2, 0, 0, 1), Carried(1, 0, 0, 1, 3), Carried(1, 0, 0, -1, -1)}

\* Steps of a staged market and of an overlay, every way of starting and of closing the
\* session, two faults.
Step(o, p, d, q) ==
  [offset |-> o, price |-> p, delta |-> d, open |-> IF o = 3 THEN FALSE ELSE None,
   quotes |-> [c \in q |-> [bid |-> p - 4, ask |-> p - 3]]]

MCSteps ==
  {<<>>, <<Step(0, 5, None, {low})>>,
   <<Step(0, 5, None, {low, high}), Step(2, 6, None, {high})>>,
   <<Step(1, 5, None, {low}), Step(3, 7, None, {low, high}), Step(4, 5, None, {})>>,
   <<Step(2, 5, None, {low}), Step(2, 6, None, {})>>,
   <<Step(0, 3, None, {low})>>,
   <<Step(0, 0, 2, {})>>, <<Step(0, 0, 0, {}), Step(3, 0, -4, {})>>,
   <<Step(1, 0, 1, {}), Step(2, 0, 5, {}), Step(5, 0, 0, {})>>,
   <<Step(0, 0, 1, {low}), Step(3, 0, None, {})>>}

Outage(from, until, tools) == [from |-> from, until |-> until, tools |-> tools]

MCScenarios ==
  [mode : {"", "overlay", "replay"}, anchor : {"", "now"}, start : BOOLEAN, close : {None, 3},
   open : BOOLEAN, speed : {0, 1, 2}, steps : MCSteps,
   faults : {{}, {Outage(1, 2, {"snapshot"})}, {Outage(2, 4, {"trade", "clock"})},
             {Outage(2, 1, {"trade"})}}]

\* A quote of both sides, of an ask alone, and one crossed; the broker sends all it has, a
\* row less, no price of the underlying, one of nothing, and one read a while ago.
Quoted(b, a) == [bid |-> b, ask |-> a]

MCMarkets ==
  {[quotes |-> (low :> Quoted(1, 3)) @@ (high :> Quoted(0, 1)), trades |-> (spy :> 4) @@ (qqq :> 7), held |-> 0],
   [quotes |-> (low :> Quoted(3, 2)), trades |-> (spy :> 3), held |-> 5],
   [quotes |-> (low :> Quoted(2, 2)), trades |-> (qqq :> 7), held |-> 0],
   [quotes |-> (low :> Quoted(1, 2)), trades |-> (spy :> 0), held |-> 4]}

\* The pricing model, on the day a contract ends.
MCWorth(c, at) ==
  LET over == at.num - Term[c].strike * at.den
  IN Max({0, IF Term[c].call THEN over ELSE -over})

\* A vertical, a backspread, a closing vertical, and a vertical that says neither.
Leg(c, sell, ratio, intent) ==
  [contract |-> c, sell |-> sell, ratio |-> ratio, quantity |-> 1, intent |-> intent]

MCShapes ==
  {{Leg(low, TRUE, 1, "open"), Leg(high, FALSE, 1, "open")},
   {Leg(low, TRUE, 1, "open"), Leg(high, FALSE, 2, "open")},
   {Leg(low, TRUE, 0, "close"), Leg(high, FALSE, 0, "close")}}

\* Names that state a price, a worse one, a better one, one that is no number and one too
\* many, with a turn, a long word and a number of the session's own.
Price(p)  == <<WorstWord(p)>>
Turn      == <<TextWord("turn", 3)>>
MCNames   ==
  {<<>>, <<Price(-1)>>, <<Price(1), Turn>>, <<Price(1), Turn, <<NumberWord(9)>>>>,
   <<Turn, <<WorstWord(-1), TextWord("why", 2)>>>>, <<<<NumberWord(9)>>>>, <<Price(NoPrice), Price(1)>>,
   <<Price(-3), <<NumberWord(9)>>, <<NumberWord(8)>>>>, <<Price(-1), <<TextWord("long", 9)>>>>}

Placed(legs, name) == [legs |-> legs, limit |-> -2, first |-> -2, name |-> name, was |-> name]

MCWalks ==
  {<<Placed(l, n), Placed(k, m)>> : l, k \in MCShapes, n, m \in MCNames}

\* Quotes that stand close, and far away, of little delta and of much; one that lacks a
\* leg, and one with no bid for it.
Book(b, a, d, hb) ==
  (low :> [bid |-> b, ask |-> b + 1, delta |-> d]) @@ (high :> [bid |-> hb, ask |-> a, delta |-> 10])

MCBooks ==
  {Book(3, 2, 20, 1), Book(2, 4, 45, 1), Book(2, 3, NoPrice, 1), Book(2, 3, 20, 0),
   (low :> [bid |-> 2, ask |-> 3, delta |-> 20])}

\* A contract bought and sold, a vertical, two sold for one bought, a put, a contract of
\* another day.
One(c, n) == [d \in Contracts |-> IF d = c THEN n ELSE 0]
Pair(n, k) == [d \in Contracts |-> CASE d = low -> n [] d = high -> k [] OTHER -> 0]

MCTrades ==
  {[legs |-> One(low, 1), sets |-> 1], [legs |-> One(low, 1), sets |-> 2],
   [legs |-> One(low, -1), sets |-> 3], [legs |-> Pair(-1, 1), sets |-> 2],
   [legs |-> Pair(2, -1), sets |-> 1], [legs |-> One(put, 1), sets |-> 1],
   [legs |-> One(put, -1), sets |-> 1], [legs |-> One(later, 1), sets |-> 1]}

\* A market of two sides; one that moved; one crossed, one-sided and stale.
Dealt(b, a, fresh) == [quoted |-> b + a > 0, fresh |-> fresh, bid |-> b, ask |-> a]

Reading(l, h, p, t, s) ==
  (low :> l) @@ (high :> h) @@ (put :> p) @@ (later :> t) @@ (spy :> s)

MCReadings ==
  {Reading(Dealt(2, 3, TRUE), Dealt(1, 2, TRUE), Dealt(1, 1, TRUE), Dealt(2, 4, TRUE), Dealt(3, 5, TRUE)),
   Reading(Dealt(4, 5, TRUE), Dealt(2, 2, TRUE), Dealt(0, 1, TRUE), Dealt(0, 0, TRUE), Dealt(6, 6, TRUE)),
   Reading(Dealt(3, 2, TRUE), Dealt(1, 0, TRUE), Dealt(2, 3, FALSE), Dealt(3, 3, TRUE), Dealt(0, 4, TRUE))}

=============================================================================
