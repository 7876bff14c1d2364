------------------------------- MODULE Arena -------------------------------
(***************************************************************************)
(* The simulated broker of testbed/proxy: participants submit, move and    *)
(* cancel orders (tools.go) while a matcher passes over every book once a  *)
(* tick (match.go), ends day orders, settles what has expired (expiry.go)  *)
(* and fills what the market has reached.  A book is written whole on      *)
(* every change (store.go); a write may fail and the process may end.      *)
(*                                                                         *)
(* A handler is broken where it waits for the clock or the market, a pass  *)
(* also between one booking and the next.  Time counts phases: an even one *)
(* is a session, an odd one the pause after it.                            *)
(***************************************************************************)
EXTENDS Book

CONSTANTS
  Books,         \* the participants
  Callers,       \* calls of participants in flight at once
  Kinds,         \* what may be asked for
  Shape,         \* [Kinds -> [name, legs, qty, limit, market, day]]
  Limits,        \* the limits an order may be moved to
  Sizes,         \* the sizes it may be moved to, 0 for the remainder
  Markets,       \* the quotes the market may show: sets of
                 \* [Contracts -> [ask, askSize, bid, bidSize, fresh, quoted]]
  Unders,        \* prices of an underlying at expiry, 0 where none is published
  Prices,        \* prices of an underlying whose shares are held
  MaxOrders, MaxTime  \* bounds

ASSUME ArenaAssumption ==
  /\ Books # {} /\ Kinds # {}
  /\ \A k \in Kinds :
       /\ Shape[k].name \in Names \cup {NoName}
       /\ Shape[k].legs \in Holdings /\ Shape[k].legs # Empty
       /\ Shape[k].qty \in Nat \ {0} /\ Shape[k].limit \in Int
       /\ Shape[k].market \in BOOLEAN /\ Shape[k].day \in BOOLEAN
  /\ Limits \subseteq Int /\ Sizes \subseteq Nat /\ Unders \subseteq Nat
  /\ Prices \subseteq Nat \ {0}
  /\ \A m \in Markets, c \in Contracts :
       {m[c].ask, m[c].bid, m[c].askSize, m[c].bidSize} \subseteq Nat
  /\ {MaxOrders, MaxTime} \subseteq Nat

VARIABLES
  now, heldClock,       \* the phase, and the one the clock in hand was read in
  bench,                \* -ignore-session, as the process was started
  book, file,           \* the books in memory and in the store
  calls,                \* [Callers -> what its call waits with]
  pass,                 \* the matcher's pass
  \* Observed only: books whose last write failed, and books an assignment or an
  \* interrupted settlement left without a bound.
  unwritten, exposed

vars == <<now, heldClock, bench, book, file, calls, pass, unwritten, exposed>>

SessionOpen(t) == t % 2 = 0
NextClose(t)   == IF SessionOpen(t) THEN t + 1 ELSE t + 2

NoCall == [op |-> "none"]
NoPass == [pc |-> "idle"]
NoEntry == "none"
NoBookings == [c \in Contracts |-> [buy |-> 0, sell |-> 0]]

Init ==
  /\ now = 0 /\ heldClock = 0 /\ bench \in BOOLEAN
  /\ book = [b \in Books |-> NewBook] /\ file = book
  /\ calls = [k \in Callers |-> NoCall] /\ pass = NoPass
  /\ unwritten = {} /\ exposed = {}

------------------------------------------------------------------------------
(* The clock and the store.                                                *)

\* A reading of the clock is used again for a while, its time moved on and its
\* session as it was read; otherwise the broker is asked.
Readings == {now} \cup {t \in {heldClock} : t = now - 1}
Read(t)  == heldClock' = t

\* A booking changes memory and then writes the book whole; a write that fails
\* leaves the booking standing in memory.  Two writes of a book do not fail in a
\* row here, so the file is one booking behind at most.
Written(b, after) ==
  /\ book' = [book EXCEPT ![b] = after]
  /\ file' = [file EXCEPT ![b] = after]
  /\ unwritten' = unwritten \ {b}
WriteFails(b, after) ==
  /\ b \notin unwritten
  /\ book' = [book EXCEPT ![b] = after]
  /\ unwritten' = unwritten \cup {b}
  /\ UNCHANGED file
Keep(b, after) == Written(b, after) \/ WriteFails(b, after)
Unkept == UNCHANGED <<book, file, unwritten>>

\* Why an order does not fill is noted in its book, which writes it if it is news.
Noted(bs) ==
  \E written \in SUBSET bs :
    /\ file' = [b \in Books |-> IF b \in written THEN book[b] ELSE file[b]]
    /\ unwritten' = unwritten \ written
    /\ UNCHANGED book

------------------------------------------------------------------------------
(* What fills an order.                                                    *)

Priced(legs, m) == \A c \in Contracts : legs[c] # 0 => m[c].quoted

SizesOf(m) == [c \in Contracts |-> [buy |-> m[c].askSize, sell |-> m[c].bidSize]]

\* How many sets the sizes left leave: the leg that fits fewest decides.
Fits(legs, left) ==
  Min({(IF legs[c] > 0 THEN left[c].buy ELSE left[c].sell) \div Abs(legs[c]) :
         c \in {x \in Contracts : legs[x] # 0}})

\* Mutant of Taken: every order meets the size shown.
TakenByNobody(left, legs, sets) == left

Taken(left, legs, sets) ==
  [c \in Contracts |->
     [buy  |-> left[c].buy  - (IF legs[c] > 0 THEN legs[c] * sets ELSE 0),
      sell |-> left[c].sell - (IF legs[c] < 0 THEN -legs[c] * sets ELSE 0)]]

\* What the pass has booked and written so far, observed by SizeIsShared only.
Booked(took, legs, sets) ==
  [c \in Contracts |->
     [buy  |-> took[c].buy  + Max({0, legs[c]}) * sets,
      sell |-> took[c].sell + Max({0, -legs[c]}) * sets]]

------------------------------------------------------------------------------
(* The participants.                                                       *)

\* The order a call makes.  Three fields are for the properties alone: `late`, that
\* its session was over when it was submitted, `seen`, how many orders stood in the
\* book when its name was looked up, and `born`, the order its chain of moves began with.
NewOrder(call, limit) ==
  LET s == Shape[call.kind]
  IN [name |-> s.name, legs |-> s.legs, qty |-> s.qty, filled |-> 0,
      limit |-> limit, market |-> s.market,
      ends |-> IF s.day THEN call.close ELSE NoEnd, at |-> call.at,
      status |-> "new", paid |-> 0, fees |-> 0, stand |-> FALSE,
      replaces |-> None, late |-> call.close <= now,
      seen |-> call.seen, born |-> Len(book[call.b].orders) + 1]

\* MaxOrders bounds the orders of a book and the calls that may yet add one.
Room(b) == Len(book[b].orders) + Cardinality({k \in Callers : calls[k] # NoCall /\ calls[k].b = b})
             < MaxOrders

\* Mutant of PlaceBegin: an order of the same name is let in.
PlaceAnyName(k, b, kind) ==
  /\ calls[k] = NoCall /\ Room(b)
  /\ \E t \in Readings :
       /\ Read(t)
       /\ calls' = [calls EXCEPT ![k] =
            [op |-> "place", b |-> b, kind |-> kind,
             at |-> now, close |-> NextClose(t), seen |-> Len(book[b].orders)]]
  /\ UNCHANGED <<now, bench, book, file, pass, unwritten, exposed>>

\* placeOrder: a name already taken is refused, the clock is read ...
PlaceBegin(k, b, kind) ==
  /\ calls[k] = NoCall /\ Room(b)
  /\ Called(book[b], Shape[kind].name) = {}
  /\ \E t \in Readings :
       /\ Read(t)
       /\ calls' = [calls EXCEPT ![k] =
            [op |-> "place", b |-> b, kind |-> kind,
             at |-> now, close |-> NextClose(t), seen |-> Len(book[b].orders)]]
  /\ UNCHANGED <<now, bench, book, file, pass, unwritten, exposed>>

\* ... then the quotes, and the order is submitted.  A market order is given the
\* price of the moment for a limit.
PlaceSubmit(k) ==
  /\ calls[k].op = "place"
  /\ LET call == calls[k]
         bk   == book[call.b]
         s    == Shape[call.kind]
     IN \E m \in Markets :
          /\ Priced(s.legs, m)
          /\ s.market => Executable(s.legs, m, TRUE)
          /\ LET o == NewOrder(call, IF s.market THEN SetPrice(s.legs, m) ELSE s.limit)
             IN /\ Acceptable(bk, o, None)
                /\ Keep(call.b, Submitted(bk, o))
  /\ calls' = [calls EXCEPT ![k] = NoCall]
  /\ UNCHANGED <<now, heldClock, bench, pass, exposed>>

\* replaceOrder: the order and the name are looked at, the clock is read ...
MoveBegin(k, b, i, limit, qty, name) ==
  /\ calls[k] = NoCall /\ Room(b)
  /\ i \in DOMAIN book[b].orders
  /\ Called(book[b], name) # {} => Min(Called(book[b], name)) = i
  /\ \E t \in Readings :
       /\ Read(t)
       /\ calls' = [calls EXCEPT ![k] =
            [op |-> "move", b |-> b, i |-> i, limit |-> limit, qty |-> qty,
             name |-> name, at |-> now, seen |-> Len(book[b].orders)]]
  /\ UNCHANGED <<now, bench, book, file, pass, unwritten, exposed>>

\* ... and the order is moved, if it still stands.
MoveSubmit(k) ==
  /\ calls[k].op = "move"
  /\ LET call == calls[k]
         bk   == book[call.b]
     IN /\ MayMove(bk.orders[call.i], call.qty)
        /\ LET next == Successor(bk, call.i, call.limit, call.name, call.qty, call.at, call.seen)
           IN /\ Acceptable(bk, next, call.i)
              /\ Keep(call.b, Moved(bk, call.i, next))
  /\ calls' = [calls EXCEPT ![k] = NoCall]
  /\ UNCHANGED <<now, heldClock, bench, pass, exposed>>

\* A call refused, or one whose reads upstream failed, leaves nothing behind.
CallRefused(k) ==
  /\ calls[k] # NoCall
  /\ calls' = [calls EXCEPT ![k] = NoCall]
  /\ UNCHANGED <<now, heldClock, bench, book, file, pass, unwritten, exposed>>

\* cancelOrder cancels by the clock it read or by its own.
Cancel(b, i) ==
  /\ i \in DOMAIN book[b].orders /\ IsOpen(book[b].orders[i])
  /\ Keep(b, Ended(book[b], i, "canceled"))
  /\ UNCHANGED <<now, heldClock, bench, calls, pass, exposed>>

\* account and positions remember the prices they valued shares at.
Remember(b, price) ==
  /\ Marked(book[b], price) # book[b]
  /\ Keep(b, Marked(book[b], price))
  /\ UNCHANGED <<now, heldClock, bench, calls, pass, exposed>>

------------------------------------------------------------------------------
(* The matcher's pass.                                                     *)

\* once: the clock is read; no clock, no pass.
PassBegin ==
  /\ pass = NoPass
  /\ \E t \in Readings :
       /\ Read(t)
       /\ pass' = [pc |-> "expire", now |-> now, open |-> SessionOpen(t), todo |-> Books]
  /\ UNCHANGED <<now, bench, book, file, calls, unwritten, exposed>>

\* The day orders of one book end and what has expired in it is looked up; the
\* prices of the underlyings are read before any of it is settled.
PassExpire(b) ==
  /\ pass.pc = "expire" /\ b \in pass.todo
  /\ LET due == Due(book[b], pass.now)
     IN \E under \in [Roots -> Unders] :
          pass' = [pc |-> "settle", now |-> pass.now, open |-> pass.open,
                   todo |-> pass.todo \ {b}, b |-> b,
                   due |-> {c \in due : under[Term[c].root] > 0},
                   under |-> [r \in Roots |->
                     IF \E c \in due : Term[c].root = r THEN under[r] ELSE 0]]
  /\ IF Outlived(book[b], pass.now) = {} THEN Unkept
     ELSE Keep(b, ExpireDay(book[b], pass.now))
  /\ UNCHANGED <<now, heldClock, bench, calls, exposed>>

\* One contract is settled, each in a booking of its own.
PassSettle(c) ==
  /\ pass.pc = "settle" /\ c \in pass.due
  /\ Keep(pass.b, Settled(book[pass.b], c, pass.under[Term[c].root]))
  /\ pass' = [pass EXCEPT !.due = @ \ {c}]
  /\ UNCHANGED <<now, heldClock, bench, calls, exposed>>

\* The book is done; shares left over by it are a position without a bound.
PassSettled ==
  /\ pass.pc = "settle" /\ pass.due = {}
  /\ pass' = [pc |-> "expire", now |-> pass.now, open |-> pass.open, todo |-> pass.todo]
  /\ exposed' = exposed \cup {b \in {pass.b} : \E r \in Roots : book[b].shares[r] # 0}
  /\ UNCHANGED <<now, heldClock, bench, book, file, calls, unwritten>>

\* The orders that stand are taken down, to be filled in the order they were submitted
\* in, whichever book each is of, and the quotes of their legs are read; a closed market
\* ends the pass.
Queue ==
  UNION {{[b |-> b, i |-> i, rest |-> Remaining(book[b].orders[i]), at |-> book[b].orders[i].at] :
            i \in Standing(book[b], None)} : b \in Books}

Before(x, y) == x.at < y.at \/ (x.at = y.at /\ x.b = y.b /\ x.i < y.i)

PassGather ==
  /\ pass.pc = "expire" /\ pass.todo = {}
  /\ IF Queue # {} /\ (pass.open \/ bench)
     THEN pass' = [pc |-> "quotes", now |-> pass.now, queue |-> Queue] /\ Unkept
     ELSE pass' = NoPass /\ Noted({b \in Books : Standing(book[b], None) # {}})
  /\ UNCHANGED <<now, heldClock, bench, calls, exposed>>

PassQuotes ==
  /\ pass.pc = "quotes"
  /\ \E m \in Markets :
       pass' = [pc |-> "fill", now |-> pass.now, queue |-> pass.queue, cur |-> NoEntry,
                m |-> m, left |-> SizesOf(m), took |-> NoBookings]
  /\ UNCHANGED <<now, heldClock, bench, book, file, calls, unwritten, exposed>>

\* A pass that gets no quotes ends there.
PassFails ==
  /\ pass.pc = "quotes"
  /\ pass' = NoPass
  /\ UNCHANGED <<now, heldClock, bench, book, file, calls, unwritten, exposed>>

\* What the market reaches of an order: the snapshot's remainder, no more than
\* the sizes left, at no worse than its limit.
Reach(e) ==
  LET o == book[e.b].orders[e.i]
  IN IF /\ Executable(o.legs, pass.m, bench)
        /\ o.market \/ SetPrice(o.legs, pass.m) <= o.limit
     THEN Min({Fits(o.legs, pass.left), e.rest})
     ELSE 0

NextInQueue(p) ==
  IF p.queue = {} THEN NoPass ELSE [p EXCEPT !.pc = "fill", !.cur = NoEntry]

\* fill: the book looks once more at whether the order stands and is backed.  A fill
\* it refuses for collateral still counts against the sizes left; one whose write failed
\* is taken for one that was not made, and does not.
PassFill ==
  /\ pass.pc = "fill"
  /\ \E e \in pass.queue :
       /\ \A x \in pass.queue : ~Before(x, e)
       /\ LET bk    == book[e.b]
              legs  == bk.orders[e.i].legs
              sets  == Reach(e)
              price == SetPrice(legs, pass.m)
              backed == Affordable(bk, e.i, sets, price)
              after == IF backed THEN Filled(bk, e.i, sets, price) ELSE bk
              done  == [pass EXCEPT !.queue = @ \ {e}]
              told  == [done EXCEPT !.left = Taken(@, legs, sets),
                                    !.took = IF backed THEN Booked(@, legs, sets) ELSE @]
          IN \/ /\ sets = 0 \/ ~MayFill(bk, e.i, sets)
                /\ pass' = NextInQueue(done)
                /\ Noted({b \in {e.b} : sets = 0 /\ IsOpen(bk.orders[e.i])})
             \/ /\ sets > 0 /\ MayFill(bk, e.i, sets)
                /\ Written(e.b, after)
                /\ pass' = IF bench THEN [told EXCEPT !.pc = "mark", !.cur = e]
                                    ELSE NextInQueue(told)
             \/ /\ sets > 0 /\ MayFill(bk, e.i, sets)
                /\ WriteFails(e.b, after)
                /\ pass' = NextInQueue(done)
  /\ UNCHANGED <<now, heldClock, bench, calls, exposed>>

\* On the bench the order is marked so, in a booking of its own, whether the fill was
\* booked or refused for collateral.
PassMark ==
  /\ pass.pc = "mark"
  /\ LET e      == pass.cur
         marked == [book[e.b] EXCEPT !.orders[e.i].stand = TRUE]
     IN IF marked = book[e.b] THEN Unkept ELSE Keep(e.b, marked)
  /\ pass' = NextInQueue(pass)
  /\ UNCHANGED <<now, heldClock, bench, calls, exposed>>

------------------------------------------------------------------------------
(* The world.                                                              *)

Advance ==
  /\ now < MaxTime
  /\ now' = now + 1
  /\ UNCHANGED <<heldClock, bench, book, file, calls, pass, unwritten, exposed>>

\* Of some group one contract has expired and one is held: a settlement cut short.
PartSettled(bk) ==
  \E c, d \in Contracts :
    GroupOf(c) = GroupOf(d) /\ c \in bk.settled /\ bk.held[d] # 0

\* The process ends and is started again with the flags it had: books are raised
\* from the file, calls and the pass are gone.
Crash ==
  /\ book' = file
  /\ unwritten' = {}
  /\ calls' = [k \in Callers |-> NoCall]
  /\ pass' = NoPass
  /\ heldClock' = now
  /\ exposed' = exposed \cup {b \in Books : PartSettled(file[b])
                                            \/ \E r \in Roots : file[b].shares[r] # 0}
  /\ UNCHANGED <<now, bench, file>>

Participants ==
  \/ \E k \in Callers, b \in Books, kind \in Kinds : PlaceBegin(k, b, kind)
  \/ \E k \in Callers, b \in Books, i \in 1..MaxOrders, limit \in Limits,
       qty \in Sizes, name \in Names \cup {NoName} : MoveBegin(k, b, i, limit, qty, name)
  \/ \E k \in Callers : PlaceSubmit(k) \/ MoveSubmit(k) \/ CallRefused(k)
  \/ \E b \in Books, i \in 1..MaxOrders : Cancel(b, i)
  \/ \E b \in Books, price \in Prices : Remember(b, price)

Matcher ==
  \/ PassBegin \/ PassSettled \/ PassGather \/ PassQuotes
  \/ PassFails \/ PassFill \/ PassMark
  \/ \E b \in Books : PassExpire(b)
  \/ \E c \in Contracts : PassSettle(c)

Next == Participants \/ Matcher \/ Advance \/ Crash

Spec == Init /\ [][Next]_vars

------------------------------------------------------------------------------
(* What the arena promises.                                                *)

TwoSides == [Contracts -> [buy : Int, sell : Int]]

OrderType ==
  [name : Names \cup {NoName}, legs : Holdings, qty : Nat \ {0}, filled : Nat,
   limit : Int, market : BOOLEAN, ends : Nat \cup {NoEnd}, at : Nat,
   status : Statuses, paid : Int, fees : Nat, stand : BOOLEAN, replaces : Nat,
   late : BOOLEAN, seen : Nat, born : Nat \ {0}]

BookType(bk) ==
  /\ bk.cash \in Int /\ bk.held \in Holdings /\ bk.gone \in Holdings /\ bk.money \in Int
  /\ bk.shares \in [Roots -> Int] /\ bk.mark \in [Roots -> Nat] /\ bk.settled \subseteq Contracts
  /\ \A i \in DOMAIN bk.orders :
       LET o == bk.orders[i]
       IN /\ o \in OrderType
          /\ o.filled \in 0..o.qty
          /\ o.replaces < i /\ o.born <= i
          /\ o.status = "filled" <=> o.filled = o.qty
          /\ o.status = "new" => o.filled = 0
          /\ (o.status = "replaced") <=> \E j \in DOMAIN bk.orders : bk.orders[j].replaces = i

\* The books, in memory and in the store, are of the shape book.go keeps: an order
\* is filled exactly when nothing of it remains and is replaced exactly when another
\* names it as what it replaces.
TypeOK ==
  /\ now \in 0..MaxTime /\ heldClock \in 0..now /\ bench \in BOOLEAN
  /\ \A b \in Books : BookType(book[b]) /\ BookType(file[b])
  /\ pass.pc \in {"idle", "expire", "settle", "quotes", "fill", "mark"}
  /\ pass.pc \in {"fill", "mark"} => pass.left \in TwoSides /\ pass.took \in TwoSides
  /\ unwritten \subseteq Books /\ exposed \subseteq Books

\* The loss of what a book holds has an end, and the cash bears it.
Bears(bk) == ~Unbounded(bk.held) /\ bk.cash + Worst(bk.held) >= 0

\* book.go, Fill: whatever order fills, in whatever order and in whatever part, an
\* account that holds contracts only has a loss with an end and the cash to bear it.
\* Exempt while a settlement is under way and for good once one left shares or was
\* cut short.
LossIsBacked ==
  \A b \in Books : b \in exposed \/ (pass.pc = "settle" /\ pass.b = b) \/ Bears(book[b])

\* match.go, once: orders of one tick share the size shown, whoever queued first.  A
\* pass never books more of a contract's side than the quote showed there, bookings
\* whose write failed apart.
SizeIsShared ==
  pass.pc \in {"fill", "mark"} =>
    \A c \in Contracts :
      /\ pass.took[c].buy  <= pass.m[c].askSize
      /\ pass.took[c].sell <= pass.m[c].bidSize

AddsUp(bk) ==
  LET all       == DOMAIN bk.orders
      traded(c) == [i \in all |-> bk.orders[i].legs[c] * bk.orders[i].filled]
      spent     == [i \in all |-> bk.orders[i].paid * Multiplier + bk.orders[i].fees]
  IN /\ \A c \in Contracts : bk.held[c] + bk.gone[c] = SumFunctionOnSet(traded(c), all)
     /\ bk.cash = Start + bk.money - SumFunctionOnSet(spent, all)

\* book.go, Fill and Settle: positions are what the orders filled less what expiry
\* took, cash what was opened with less what the orders cost and expiry moved - in
\* memory and in the store, through failed writes and restarts.
BookAddsUp == \A b \in Books : AddsUp(book[b]) /\ AddsUp(file[b])

\* An order of a chain of moves none before which bore its name.
BringsItsName(bk, j) ==
  \A k \in DOMAIN bk.orders :
    k < j /\ bk.orders[k].born = bk.orders[j].born => bk.orders[k].name # bk.orders[j].name

\* tools.go, placeOrder and replaceOrder, ByClientID of book.go: an order that brings a
\* name into its chain of moves is the first in the book to bear it, but for those that
\* were not there yet when the call that let it in looked the name up.
OneOrderPerName ==
  \A b \in Books : \A i, j \in DOMAIN book[b].orders :
    LET o == book[b].orders[i]
        p == book[b].orders[j]
    IN i < j /\ o.name # NoName /\ o.name = p.name /\ BringsItsName(book[b], j) => p.seen < i

\* book.go, ExpireDay: an order left standing from the session before is never
\* filled, by whatever pass and after whatever restart, unless its session was over
\* already when it was submitted.
FillsOnTime ==
  [][\A b \in Books : \A i \in DOMAIN book[b].orders :
       LET o == book[b].orders[i]
       IN /\ pass.pc = "fill" /\ i \in DOMAIN book'[b].orders
          /\ book'[b].orders[i].filled > o.filled
          => o.late \/ o.ends = NoEnd \/ pass.now < o.ends]_vars

\* What the store holds of an order's life implements OrderLife: see there.
Life == INSTANCE OrderLife WITH
  orders <- [b \in Books |-> [i \in DOMAIN file[b].orders |->
               [qty    |-> file[b].orders[i].qty,
                filled |-> file[b].orders[i].filled,
                open   |-> IsOpen(file[b].orders[i])]]]

\* store.go, Save and Load: an order once written is never lost, its fills are never
\* taken back and an order that ended never stands or fills again, through failed
\* writes, restarts and every operation of the book.
ImplementsOrderLife == Life!Spec

------------------------------------------------------------------------------
(* What the promises rest on.                                              *)

\* A later state of one order, as the book has it: what it is known by and when its day
\* ends stay, what it filled is not taken back, and once it ended nothing fills any more.
Ages(o, p) ==
  /\ <<p.name, p.legs, p.qty, p.ends, p.late, p.seen, p.born>>
       = <<o.name, o.legs, o.qty, o.ends, o.late, o.seen, o.born>>
  /\ p.filled >= o.filled
  /\ ~IsOpen(o) => ~IsOpen(p) /\ p.filled = o.filled

\* The store is never ahead of the book, and the book contradicts nothing it was told.
Grows(bk, after) ==
  /\ DOMAIN bk.orders \subseteq DOMAIN after.orders
  /\ \A i \in DOMAIN bk.orders : Ages(bk.orders[i], after.orders[i])

OrderFields == {"name", "legs", "qty", "filled", "limit", "market", "ends", "at", "status",
                "paid", "fees", "stand", "replaces", "late", "seen", "born"}

SoundOrder(o) ==
  /\ DOMAIN o = OrderFields
  /\ o.legs \in Holdings /\ o.legs # Empty
  /\ o.qty \in Nat \ {0} /\ o.filled \in 0..o.qty
  /\ o.status \in Statuses /\ (IsOpen(o) => o.filled < o.qty)
  /\ o.ends \in Nat \cup {NoEnd}

SoundBook(bk) ==
  /\ "orders" \in DOMAIN bk
  /\ bk.orders \in Seq(Range(bk.orders))
  /\ \A i \in DOMAIN bk.orders : SoundOrder(bk.orders[i])

BooksKept ==
  /\ DOMAIN book = Books /\ DOMAIN file = Books
  /\ \A b \in Books : SoundBook(book[b]) /\ SoundBook(file[b]) /\ Grows(file[b], book[b])

\* A call is about to act on these orders; none of those it has looked at bears the name
\* it will submit under, but the one it moves.
Knows(call, orders) ==
  LET name == IF call.op = "place" THEN Shape[call.kind].name ELSE call.name
  IN /\ call.op \in {"place", "move"} /\ call.seen \in 0..Len(orders)
     /\ call.op = "place" => call.kind \in Kinds /\ call.close \in Nat
     /\ call.op = "move"  => call.i \in DOMAIN orders /\ call.qty \in Sizes
     /\ \/ name = NoName
        \/ call.op = "move" /\ orders[call.i].name = name
        \/ \A i \in DOMAIN orders : i <= call.seen => orders[i].name # name

CallsKnow ==
  /\ DOMAIN calls = Callers
  /\ \A k \in Callers : calls[k] # NoCall =>
       calls[k].b \in Books /\ Knows(calls[k], book[calls[k].b].orders)

PassFields ==
  CASE pass.pc = "idle"   -> {"pc"}
    [] pass.pc = "expire" -> {"pc", "now", "open", "todo"}
    [] pass.pc = "settle" -> {"pc", "now", "open", "todo", "b", "due", "under"}
    [] pass.pc = "quotes" -> {"pc", "now", "queue"}
    [] OTHER              -> {"pc", "now", "queue", "cur", "m", "left", "took"}

\* No order that stands outlived its session by t.
OnTime(bk, t) ==
  \A i \in DOMAIN bk.orders :
    LET o == bk.orders[i]
    IN IsOpen(o) => o.late \/ o.ends = NoEnd \/ t < o.ends

\* Once a pass has been through a book, none of its day orders outlived its session.
PassOnTime ==
  /\ now \in Nat /\ heldClock \in Nat
  /\ pass.pc \in {"idle", "expire", "settle", "quotes", "fill", "mark"}
  /\ DOMAIN pass = PassFields
  /\ pass.pc # "idle" => pass.now \in Nat /\ pass.now <= now
  /\ \A b \in Books :
       \/ pass.pc \in {"quotes", "fill", "mark"}
       \/ pass.pc \in {"expire", "settle"} /\ b \notin pass.todo
       => OnTime(book[b], pass.now)

Sides == [Contracts -> [buy : Nat, sell : Nat]]

\* What is queued is in the books, and what a pass has booked it took off the size shown.
SizesLeft ==
  /\ pass.pc \in {"quotes", "fill", "mark"} =>
       \A e \in pass.queue :
         e.b \in Books /\ e.i \in DOMAIN book[e.b].orders /\ e.rest \in Nat
  /\ pass.pc \in {"fill", "mark"} =>
       /\ pass.m \in Markets
       /\ pass.left \in Sides /\ pass.took \in Sides
       /\ \A c \in Contracts :
            /\ pass.took[c].buy  + pass.left[c].buy  <= pass.m[c].askSize
            /\ pass.took[c].sell + pass.left[c].sell <= pass.m[c].bidSize

ArenaInv == BooksKept /\ CallsKnow /\ PassOnTime /\ SizesLeft /\ OneOrderPerName

\* What a book is reckoned in.
Reckoned(bk) ==
  /\ DOMAIN bk = DOMAIN NewBook
  /\ bk.cash \in Int /\ bk.money \in Int /\ bk.held \in Holdings /\ bk.gone \in Holdings
  /\ bk.shares \in [Roots -> Int] /\ bk.mark \in [Roots -> Nat] /\ bk.settled \subseteq Contracts
  /\ \A i \in DOMAIN bk.orders : bk.orders[i].paid \in Int /\ bk.orders[i].fees \in Int

\* And what a settlement is reckoned at.
Settling ==
  pass.pc = "settle" =>
    /\ pass.b \in Books /\ pass.due \subseteq Contracts
    /\ pass.under \in [Roots -> Unders \cup {0}]

AccountsInv ==
  Settling /\ BookAddsUp /\ \A b \in Books : Reckoned(book[b]) /\ Reckoned(file[b])

GroupsOf(cs) == {GroupOf(c) : c \in cs}
NoShares(bk) == \A r \in Roots : bk.shares[r] = 0

\* The cash bears what a book holds if the groups of G end at the prices u, at which
\* shares are worth what they cost, and every other group at its worst.
Sustained(bk, u, G) ==
  LET ends == [g \in Groups(bk.held) |->
                 IF g \in G THEN PayoffAt(bk.held, g, u[g[1]]) ELSE WorstOf(bk.held, g)]
  IN /\ \A g \in Groups(bk.held) \ G : Slope(bk.held, g) >= 0
     /\ bk.cash + SumFunction([r \in Roots |-> bk.shares[r] * u[r]]) + SumFunction(ends) >= 0

\* A settlement takes a book from prices nobody knows to the ones it is settled at: group
\* by group the worst is given up for what the rest of the group comes to there.  What the
\* store was written from was sustained at some prices.
BackedInv ==
  \A b \in Books \ exposed :
    /\ \E u \in [Roots -> Unders \cup {0}] : Sustained(file[b], u, GroupsOf(file[b].settled))
    /\ IF pass.pc = "settle" /\ pass.b = b
       THEN LET due == GroupsOf(pass.due)
            IN /\ Sustained(book[b], pass.under, GroupsOf(book[b].settled) \cap due)
               /\ \A c \in Held(book[b].held) : GroupOf(c) \in due => c \in pass.due
       ELSE NoShares(book[b]) /\ Bears(book[b])

=============================================================================
