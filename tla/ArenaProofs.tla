---------------------------- MODULE ArenaProofs ----------------------------
(***************************************************************************)
(* What the simulated broker keeps for any participants, calls, orders,    *)
(* sizes and markets: its orders as the store shows them, one order per    *)
(* name, the sizes shared by the orders of a pass, and the end of the day  *)
(* of an order.  ArenaInv (module Arena) is inductive: a book goes on only *)
(* by what contradicts nothing in it (Grows), the store is never ahead of  *)
(* memory, and the rest follows call by call and step by step of a pass.   *)
(***************************************************************************)
EXTENDS Arena, Sums, SequenceTheorems

-----------------------------------------------------------------------------
(* Numbers.                                                                *)

\* A set of counts has a least one.
LEMMA LeastOf ==
  ASSUME NEW S \in SUBSET Nat, S # {}
  PROVE  Min(S) \in S /\ \A y \in S : Min(S) <= y
<1> DEFINE upTo(x) == {y \in S : y <= x}
<1> DEFINE all == {upTo(x) : x \in S}
<1>1. \A x \in S : upTo(x) \in FiniteSubsetsOf(Nat)
  <2> SUFFICES ASSUME NEW x \in S PROVE upTo(x) \in FiniteSubsetsOf(Nat)
    OBVIOUS
  <2>1. IsFiniteSet(0..x)
    BY FS_Interval
  <2>3. upTo(x) \subseteq 0..x
    <3> SUFFICES ASSUME NEW y \in S, y <= x PROVE y \in 0..x
      OBVIOUS
    <3> QED OBVIOUS
  <2> QED BY <2>1, <2>3, FS_Subset DEF FiniteSubsetsOf
<1>2. all \subseteq FiniteSubsetsOf(Nat) /\ all # {}
  BY <1>1
<1>3. PICK u \in all : \A v \in all : ~(<<v, u>> \in StrictSubsetOrdering(Nat))
  <2> HIDE DEF all
  <2> QED BY <1>2, FS_StrictSubsetOrderingWellFounded, WFMin
<1>4. PICK x \in S : u = upTo(x)
  OBVIOUS
<1>5. ASSUME NEW y \in S, y < x PROVE FALSE
  <2>0. x \in Nat /\ y \in Nat /\ \A z \in S : z \in Nat
    OBVIOUS
  <2>1. upTo(y) \in all
    OBVIOUS
  <2>3. upTo(y) \subseteq u
    <3> SUFFICES ASSUME NEW z \in S, z <= y PROVE z <= x
      BY <1>4
    <3> QED BY <1>5, <2>0
  <2>4. x \in u /\ x \notin upTo(y)
    BY <1>4, <1>5, <2>0
  <2>2. u \in SUBSET Nat /\ upTo(y) \in SUBSET Nat
    BY <1>4
  <2> QED BY <1>3, <2>1, <2>2, <2>3, <2>4 DEF StrictSubsetOrdering
<1>6. \E z \in S : \A y \in S : z <= y
  BY <1>5
<1> QED BY <1>6 DEF Min

\* The larger of two numbers.
LEMMA MaxOfTwo ==
  ASSUME NEW a \in Int, NEW b \in Int
  PROVE  Max({a, b}) = IF a <= b THEN b ELSE a
<1>1. \E x \in {a, b} : \A y \in {a, b} : x >= y
  <2>1. CASE a <= b
    BY <2>1
  <2>2. CASE b <= a
    BY <2>2
  <2> QED BY <2>1, <2>2
<1>2. Max({a, b}) \in {a, b} /\ \A y \in {a, b} : Max({a, b}) >= y
  BY <1>1 DEF Max
<1> QED BY <1>2

\* Sets that fit take no more lots than there are.
LEMMA WholeSets ==
  ASSUME NEW a \in Nat, NEW d \in Nat \ {0}, NEW s \in Nat, s <= a \div d
  PROVE  d * s <= a
OBVIOUS
-----------------------------------------------------------------------------
(* Books.                                                                  *)

\* The orders of a book are a sequence of sound orders.
LEMMA OrdersOf ==
  ASSUME NEW bk, SoundBook(bk)
  PROVE  /\ Len(bk.orders) \in Nat /\ DOMAIN bk.orders = 1..Len(bk.orders)
         /\ bk.orders = [i \in 1..Len(bk.orders) |-> bk.orders[i]]
<1> DEFINE q == bk.orders
<1>1. q \in Seq(Range(q))
  BY DEF SoundBook
<1> HIDE DEF q
<1>2. Len(q) \in Nat /\ DOMAIN q = 1..Len(q) /\ q \in [1..Len(q) -> Range(q)]
  BY <1>1, LenProperties
<1> QED BY <1>2 DEF q

\* An order that nothing happens to goes on as it is, and what happens in two steps
\* contradicts no more than what happens in one.
LEMMA AgesOn ==
  /\ \A o : SoundOrder(o) => Ages(o, o)
  /\ \A o, p, q : SoundOrder(o) /\ SoundOrder(p) /\ SoundOrder(q) /\ Ages(o, p) /\ Ages(p, q)
                    => Ages(o, q)
BY DEF SoundOrder, Ages

\* So a book left alone goes on, and a later state of a later state is one.
LEMMA GrowsOn ==
  /\ \A bk : SoundBook(bk) => Grows(bk, bk)
  /\ \A bk, cl, dk :
       /\ SoundBook(bk) /\ SoundBook(cl) /\ SoundBook(dk)
       /\ Grows(bk, cl) /\ Grows(cl, dk)
       => Grows(bk, dk)
<1>1. \A bk : SoundBook(bk) => Grows(bk, bk)
  BY AgesOn DEF Grows, SoundBook
<1>2. ASSUME NEW bk, NEW cl, NEW dk,
             SoundBook(bk), SoundBook(cl), SoundBook(dk), Grows(bk, cl), Grows(cl, dk)
      PROVE  Grows(bk, dk)
  BY <1>2, AgesOn DEF Grows, SoundBook
<1> QED BY <1>1, <1>2

\* A book whose orders are those of another, each gone on and perhaps some added.
LEMMA BookGoesOn ==
  ASSUME NEW bk, SoundBook(bk), NEW after, "orders" \in DOMAIN after, NEW n \in Nat,
         after.orders = [i \in 1..n |-> after.orders[i]], Len(bk.orders) <= n,
         \A i \in 1..n : SoundOrder(after.orders[i]),
         \A i \in 1..Len(bk.orders) : Ages(bk.orders[i], after.orders[i])
  PROVE  SoundBook(after) /\ Grows(bk, after) /\ Len(after.orders) = n
<1> DEFINE q == after.orders
<1>1. q = [i \in 1..n |-> q[i]]
  OBVIOUS
<1> HIDE DEF q
<1>2. DOMAIN q = 1..n /\ q \in [1..n -> Range(q)]
  BY <1>1 DEF Range
<1>3. q \in Seq(Range(q))
  BY <1>2, SeqDef
<1>4. Len(q) = n
  BY <1>2, <1>3, LenProperties
<1>5. DOMAIN bk.orders \subseteq DOMAIN q
  BY <1>2, OrdersOf
<1> QED BY <1>2, <1>3, <1>4, <1>5, OrdersOf DEF q, SoundBook, Grows

\* What changes nothing of the orders: marks, and what expiry settles.
LEMMA OrdersLeft ==
  ASSUME NEW bk, SoundBook(bk), NEW after, "orders" \in DOMAIN after, after.orders = bk.orders
  PROVE  SoundBook(after) /\ Grows(bk, after) /\ Len(after.orders) = Len(bk.orders)
BY GrowsOn DEF SoundBook, Grows

\* One order of a book goes on: Cancel, Replace, Fill and MarkStand.
LEMMA OneGoesOn ==
  ASSUME NEW bk, SoundBook(bk), NEW after, "orders" \in DOMAIN after,
         NEW i \in DOMAIN bk.orders, NEW p, after.orders = [bk.orders EXCEPT ![i] = p],
         SoundOrder(p), Ages(bk.orders[i], p)
  PROVE  SoundBook(after) /\ Grows(bk, after) /\ Len(after.orders) = Len(bk.orders)
<1> DEFINE n == Len(bk.orders)
<1>1. n \in Nat /\ DOMAIN bk.orders = 1..n
  BY OrdersOf
<1>2. after.orders = [j \in 1..n |-> after.orders[j]]
  BY <1>1
<1>3. \A j \in 1..n : after.orders[j] = IF j = i THEN p ELSE bk.orders[j]
  BY <1>1
<1>4. \A j \in 1..n : SoundOrder(bk.orders[j]) /\ Ages(bk.orders[j], bk.orders[j])
  BY <1>1, AgesOn DEF SoundBook
<1> HIDE DEF n
<1> QED BY <1>1, <1>2, <1>3, <1>4, BookGoesOn DEF n

\* Cancel, and Replace of the order it ends.
LEMMA EndedGoesOn ==
  ASSUME NEW bk, SoundBook(bk), NEW i \in DOMAIN bk.orders, IsOpen(bk.orders[i]),
         NEW how \in Statuses \ Open
  PROVE  /\ SoundBook(Ended(bk, i, how)) /\ Grows(bk, Ended(bk, i, how))
         /\ Len(Ended(bk, i, how).orders) = Len(bk.orders)
<1> DEFINE o == bk.orders[i]
           p == [o EXCEPT !.status = how]
<1>1. SoundOrder(o)
  BY DEF SoundBook
<1>2. SoundOrder(p) /\ Ages(o, p)
  BY <1>1 DEF SoundOrder, Ages, IsOpen, OrderFields
<1>3. /\ "orders" \in DOMAIN Ended(bk, i, how)
      /\ Ended(bk, i, how).orders = [bk.orders EXCEPT ![i] = p]
  BY DEF Ended, SoundBook
<1> QED BY <1>2, <1>3, OneGoesOn

\* Fill: no more than remains, of an order that stands.
LEMMA FilledGoesOn ==
  ASSUME NEW bk, SoundBook(bk), NEW i, NEW sets, NEW price, MayFill(bk, i, sets)
  PROVE  /\ SoundBook(Filled(bk, i, sets, price)) /\ Grows(bk, Filled(bk, i, sets, price))
         /\ Len(Filled(bk, i, sets, price).orders) = Len(bk.orders)
         /\ \A j \in DOMAIN bk.orders \ {i} :
              Filled(bk, i, sets, price).orders[j] = bk.orders[j]
<1> DEFINE o == bk.orders[i]
           p == [o EXCEPT !.paid = @ + price * sets,
                          !.fees = @ + ContractsIn(o.legs, sets) * PerContract,
                          !.filled = @ + sets,
                          !.status = IF o.filled + sets >= o.qty THEN "filled"
                                                                 ELSE "partially_filled"]
<1>1. SoundOrder(o) /\ i \in DOMAIN bk.orders /\ IsOpen(o) /\ sets \in 1..(o.qty - o.filled)
  BY DEF SoundBook, MayFill, Remaining
<1>2. /\ p.qty = o.qty /\ p.filled = o.filled + sets /\ DOMAIN p = DOMAIN o
      /\ p.status = IF o.filled + sets >= o.qty THEN "filled" ELSE "partially_filled"
      /\ <<p.name, p.legs, p.ends, p.late, p.seen, p.born>>
           = <<o.name, o.legs, o.ends, o.late, o.seen, o.born>>
  BY <1>1 DEF SoundOrder, OrderFields
<1>3. SoundOrder(p) /\ Ages(o, p)
  BY <1>1, <1>2 DEF SoundOrder, Ages, IsOpen, Open, Statuses
<1>4. /\ "orders" \in DOMAIN Filled(bk, i, sets, price)
      /\ Filled(bk, i, sets, price).orders = [bk.orders EXCEPT ![i] = p]
  BY DEF Filled, SoundBook
<1> HIDE DEF p
<1> QED BY <1>1, <1>3, <1>4, OneGoesOn

\* MarkStand.
LEMMA MarkedGoesOn ==
  ASSUME NEW bk, SoundBook(bk), NEW i
  PROVE  LET after == [bk EXCEPT !.orders[i].stand = TRUE]
         IN  SoundBook(after) /\ Grows(bk, after) /\ Len(after.orders) = Len(bk.orders)
<1> DEFINE after == [bk EXCEPT !.orders[i].stand = TRUE]
           o == bk.orders[i]
           p == [o EXCEPT !.stand = TRUE]
<1>1. "orders" \in DOMAIN after /\ after.orders = [bk.orders EXCEPT ![i] = p]
  BY DEF SoundBook
<1>2. CASE i \in DOMAIN bk.orders
  <2>1. SoundOrder(o)
    BY <1>2 DEF SoundBook
  <2>2. SoundOrder(p) /\ Ages(o, p)
    BY <2>1 DEF SoundOrder, Ages, IsOpen, OrderFields
  <2> QED BY <1>1, <1>2, <2>2, OneGoesOn
<1>3. CASE i \notin DOMAIN bk.orders
  <2>1. after.orders = bk.orders
    BY <1>1, <1>3, OrdersOf
  <2> QED BY <1>1, <2>1, OrdersLeft
<1> QED BY <1>2, <1>3

\* ExpireDay.
LEMMA ExpiredGoesOn ==
  ASSUME NEW bk, SoundBook(bk), NEW t \in Nat
  PROVE  /\ SoundBook(ExpireDay(bk, t)) /\ Grows(bk, ExpireDay(bk, t))
         /\ Len(ExpireDay(bk, t).orders) = Len(bk.orders)
         /\ \A i \in DOMAIN bk.orders :
              IsOpen(ExpireDay(bk, t).orders[i])
                => bk.orders[i].ends = NoEnd \/ t < bk.orders[i].ends
<1> DEFINE n == Len(bk.orders)
           after == ExpireDay(bk, t)
<1>1. n \in Nat /\ DOMAIN bk.orders = 1..n
  BY OrdersOf
<1>2. /\ "orders" \in DOMAIN after
      /\ after.orders = [i \in 1..n |-> IF i \in Outlived(bk, t)
                           THEN [bk.orders[i] EXCEPT !.status = "expired"] ELSE bk.orders[i]]
  BY <1>1 DEF ExpireDay, SoundBook
<1>3. ASSUME NEW i \in 1..n
      PROVE  /\ SoundOrder(after.orders[i]) /\ Ages(bk.orders[i], after.orders[i])
             /\ IsOpen(after.orders[i]) => bk.orders[i].ends = NoEnd \/ t < bk.orders[i].ends
  <2>1. SoundOrder(bk.orders[i])
    BY <1>1 DEF SoundBook
  <2>2. CASE i \in Outlived(bk, t)
    <3>1. after.orders[i] = [bk.orders[i] EXCEPT !.status = "expired"] /\ IsOpen(bk.orders[i])
      BY <1>2, <2>2 DEF Outlived
    <3> QED BY <2>1, <3>1 DEF SoundOrder, Ages, IsOpen, Open, Statuses, OrderFields
  <2>3. CASE i \notin Outlived(bk, t)
    <3>1. after.orders[i] = bk.orders[i]
      BY <1>2, <2>3
    <3>2. IsOpen(bk.orders[i]) => bk.orders[i].ends = NoEnd \/ ~(t >= bk.orders[i].ends)
      BY <1>1, <2>3 DEF Outlived
    <3> QED BY <2>1, <3>1, <3>2, AgesOn DEF SoundOrder
  <2> QED BY <2>2, <2>3
<1>4. after.orders = [i \in 1..n |-> after.orders[i]]
  BY <1>2
<1>5. Len(bk.orders) = n /\ n <= n
  BY <1>1
<1>6. "orders" \in DOMAIN after
  BY <1>2
<1> HIDE DEF n, after
<1>7. SoundBook(after) /\ Grows(bk, after) /\ Len(after.orders) = n
  BY <1>1, <1>3, <1>4, <1>5, <1>6, BookGoesOn
<1> QED BY <1>1, <1>3, <1>5, <1>7 DEF after

\* Submit: the order comes behind those that are there.
LEMMA SubmittedGoesOn ==
  ASSUME NEW bk, SoundBook(bk), NEW o, SoundOrder(o)
  PROVE  LET n == Len(bk.orders)
         IN  /\ SoundBook(Submitted(bk, o)) /\ Grows(bk, Submitted(bk, o))
             /\ Len(Submitted(bk, o).orders) = n + 1
             /\ Submitted(bk, o).orders[n + 1] = o
             /\ \A i \in 1..n : Submitted(bk, o).orders[i] = bk.orders[i]
<1> DEFINE n == Len(bk.orders)
           q == bk.orders
           S == Range(q) \cup {o}
           a == Append(q, o)
<1>1. n \in Nat /\ DOMAIN q = 1..n
  BY OrdersOf
<1>2. q \in Seq(S) /\ o \in S
  <2>1. q \in Seq(Range(q)) /\ Range(q) \subseteq S
    BY DEF SoundBook
  <2> HIDE DEF q, S
  <2>2. q \in Seq(S)
    BY <2>1, SeqMonotonic
  <2> QED BY <2>2 DEF S
<1>3. a \in Seq(S) /\ Len(a) = n + 1 /\ a[n + 1] = o /\ \A i \in 1..n : a[i] = q[i]
  <2> HIDE DEF S, q
  <2> QED BY <1>2, AppendProperties DEF q
<1>4. a = [i \in 1..(n + 1) |-> a[i]]
  <2> HIDE DEF S, a
  <2>1. a \in [1..Len(a) -> S]
    BY <1>3, LenProperties
  <2> QED BY <1>3, <2>1
<1>5. "orders" \in DOMAIN Submitted(bk, o) /\ Submitted(bk, o).orders = a
  BY DEF Submitted, SoundBook
<1>6. /\ \A i \in 1..(n + 1) : SoundOrder(a[i])
      /\ \A i \in 1..n : Ages(q[i], a[i])
  <2>1. \A i \in 1..n : SoundOrder(q[i]) /\ Ages(q[i], q[i])
    BY <1>1, AgesOn DEF SoundBook
  <2>2. \A i \in 1..(n + 1) : i \in 1..n \/ i = n + 1
    BY <1>1
  <2> HIDE DEF a, q, n
  <2> QED BY <1>3, <2>1, <2>2
<1>7. n + 1 \in Nat /\ n <= n + 1
  BY <1>1
<1> DEFINE after == Submitted(bk, o)
<1>8. /\ after.orders = a /\ "orders" \in DOMAIN after /\ Len(bk.orders) = n
      /\ bk.orders = q
  BY <1>5
<1> HIDE DEF a, n, q, after
<1>9. SoundBook(after) /\ Grows(bk, after) /\ Len(after.orders) = n + 1
  BY <1>4, <1>6, <1>7, <1>8, BookGoesOn
<1> QED BY <1>3, <1>8, <1>9 DEF after, n, q

-----------------------------------------------------------------------------
(* Memory and the store.                                                   *)

\* Memory goes on from what it was and the store is written from it, or left.
BooksGoOn ==
  /\ DOMAIN book' = Books /\ DOMAIN file' = Books
  /\ \A b \in Books :
       /\ SoundBook(book'[b]) /\ Grows(book[b], book'[b])
       /\ file'[b] \in {file[b], book[b], book'[b]}

\* None added an order to a book.
NoneAdded == \A b \in Books : Len(book'[b].orders) = Len(book[b].orders)

\* persist: a booking that contradicts nothing in its book contradicts nothing anywhere.
LEMMA KeepGoesOn ==
  ASSUME BooksKept, NEW b, NEW after, Keep(b, after),
         b \in Books => SoundBook(after) /\ Grows(book[b], after)
  PROVE  /\ BooksGoOn
         /\ book' = [book EXCEPT ![b] = after]
         /\ (b \in Books => Len(after.orders) = Len(book[b].orders)) => NoneAdded
<1>1. DOMAIN book = Books /\ DOMAIN file = Books /\ \A x \in Books : SoundBook(book[x])
  BY DEF BooksKept
<1>2. book' = [book EXCEPT ![b] = after] /\ (file' = file \/ file' = [file EXCEPT ![b] = after])
  BY DEF Keep, Written, WriteFails
<1>3. \A x \in Books : Grows(book[x], book[x])
  BY <1>1, GrowsOn
<1> QED BY <1>1, <1>2, <1>3 DEF BooksGoOn, NoneAdded

\* Note: the book is written as it is.
LEMMA NotedGoesOn ==
  ASSUME BooksKept, NEW bs, Noted(bs)
  PROVE  BooksGoOn /\ NoneAdded /\ book' = book
<1>1. DOMAIN book = Books /\ DOMAIN file = Books /\ \A x \in Books : SoundBook(book[x])
  BY DEF BooksKept
<1>2. /\ book' = book
      /\ \E written :
           file' = [b \in Books |-> IF b \in written THEN book[b] ELSE file[b]]
  BY DEF Noted
<1>3. \A x \in Books : Grows(book[x], book[x])
  BY <1>1, GrowsOn
<1> QED BY <1>1, <1>2, <1>3 DEF BooksGoOn, NoneAdded

\* Nothing was booked and nothing written.
LEMMA LeftGoesOn ==
  ASSUME BooksKept, UNCHANGED <<book, file>>
  PROVE  BooksGoOn /\ NoneAdded /\ book' = book
<1>1. DOMAIN book = Books /\ DOMAIN file = Books /\ \A x \in Books : SoundBook(book[x])
  BY DEF BooksKept
<1>2. \A x \in Books : Grows(book[x], book[x])
  BY <1>1, GrowsOn
<1> QED BY <1>1, <1>2 DEF BooksGoOn, NoneAdded

\* So the store, in its turn, contradicts nothing it held, and memory is not behind it.
LEMMA StoreGoesOn ==
  ASSUME BooksKept, BooksGoOn
  PROVE  BooksKept' /\ \A b \in Books : Grows(file[b], file'[b])
<1>1. ASSUME NEW b \in Books
      PROVE  /\ SoundBook(book'[b]) /\ SoundBook(file'[b]) /\ Grows(file'[b], book'[b])
             /\ Grows(file[b], file'[b])
  <2>1. /\ SoundBook(book[b]) /\ SoundBook(file[b]) /\ Grows(file[b], book[b])
        /\ SoundBook(book'[b]) /\ Grows(book[b], book'[b])
        /\ file'[b] = file[b] \/ file'[b] = book[b] \/ file'[b] = book'[b]
    BY DEF BooksKept, BooksGoOn
  <2>2. /\ Grows(file[b], file[b]) /\ Grows(book[b], book[b]) /\ Grows(book'[b], book'[b])
        /\ Grows(file[b], book'[b])
    BY <2>1, GrowsOn
  <2> QED BY <2>1, <2>2
<1> QED BY <1>1 DEF BooksKept, BooksGoOn

\* The order a call makes is a sound one (placeOrder, Replace).
LEMMA NewOrderIsSound ==
  ASSUME CallsKnow, NEW k \in Callers, calls[k] # NoCall, calls[k].op = "place", NEW limit
  PROVE  SoundOrder(NewOrder(calls[k], limit))
<1> DEFINE call == calls[k]
           s == Shape[call.kind]
           o == NewOrder(call, limit)
<1>1. call.kind \in Kinds /\ call.close \in Nat
  BY DEF CallsKnow, Knows
<1>2. s.legs \in Holdings /\ s.legs # Empty /\ s.qty \in Nat \ {0} /\ s.day \in BOOLEAN
  BY <1>1, ArenaAssumption
<1>3. /\ DOMAIN o = OrderFields /\ o.legs = s.legs /\ o.qty = s.qty /\ o.filled = 0
      /\ o.status = "new" /\ o.ends = IF s.day THEN call.close ELSE NoEnd
  BY DEF NewOrder, OrderFields
<1> QED BY <1>1, <1>2, <1>3 DEF SoundOrder, IsOpen, Open, Statuses, NoEnd

\* So is the one Replace puts in the place of the order it moves: what remained of it, or of the
\* size asked for, and never nothing.
LEMMA SuccessorIsSound ==
  ASSUME NEW bk, SoundBook(bk), NEW i \in DOMAIN bk.orders, NEW limit, NEW name, NEW qty, NEW at,
         NEW seen, MayMove(bk.orders[i], qty), qty \in Int
  PROVE  SoundOrder(Successor(bk, i, limit, name, qty, at, seen))
<1> DEFINE old == bk.orders[i]
           o == Successor(bk, i, limit, name, qty, at, seen)
<1>1. SoundOrder(old) /\ IsOpen(old)
  BY DEF SoundBook, MayMove
<1>2. RestOf(old, qty) \in Nat \ {0}
  BY <1>1 DEF MayMove, RestOf, Remaining, SoundOrder
<1>3. /\ DOMAIN o = OrderFields /\ o.legs = old.legs /\ o.qty = RestOf(old, qty) /\ o.filled = 0
      /\ o.status = "new" /\ o.ends = old.ends
  BY DEF Successor, OrderFields
<1> QED BY <1>1, <1>2, <1>3 DEF SoundOrder, IsOpen, Open, Statuses

-----------------------------------------------------------------------------
(* Every step.                                                             *)

\* One book came to hold one order more, p, and nothing else of the books changed.
Added(b, p) ==
  LET n == Len(book[b].orders)
  IN /\ Len(book'[b].orders) = n + 1 /\ book'[b].orders[n + 1] = p
     /\ \A x \in Books \ {b} : book'[x] = book[x]

\* placeOrder adds the order of its call.
LEMMA PlaceSubmitGoesOn ==
  ASSUME BooksKept, CallsKnow, NEW k \in Callers, PlaceSubmit(k)
  PROVE  /\ BooksGoOn /\ calls[k] # NoCall /\ calls[k].op = "place"
         /\ \E limit : Added(calls[k].b, NewOrder(calls[k], limit))
<1> DEFINE call == calls[k]
<1>1. call.op = "place" /\ call # NoCall
  BY DEF PlaceSubmit, NoCall
<1>2. PICK limit : Keep(call.b, Submitted(book[call.b], NewOrder(call, limit)))
  BY DEF PlaceSubmit
<1> DEFINE bk == book[call.b]
           o == NewOrder(call, limit)
<1>3. call.b \in Books /\ SoundBook(bk)
  BY <1>1 DEF CallsKnow, Knows, BooksKept
<1>4. SoundOrder(o)
  BY <1>1, NewOrderIsSound
<1> HIDE DEF o, bk
<1>5. /\ SoundBook(Submitted(bk, o)) /\ Grows(bk, Submitted(bk, o))
      /\ Len(Submitted(bk, o).orders) = Len(bk.orders) + 1
      /\ Submitted(bk, o).orders[Len(bk.orders) + 1] = o
  BY <1>3, <1>4, SubmittedGoesOn
<1>6. BooksGoOn /\ book' = [book EXCEPT ![call.b] = Submitted(bk, o)]
  BY <1>2, <1>5, KeepGoesOn DEF o, bk
<1>7. DOMAIN book = Books
  BY DEF BooksKept
<1>8. Added(call.b, o)
  BY <1>3, <1>5, <1>6, <1>7 DEF Added, bk
<1> QED BY <1>1, <1>6, <1>8 DEF o

\* Replace ends the order it moves and adds the one that comes in its place.
LEMMA MoveSubmitGoesOn ==
  ASSUME BooksKept, CallsKnow, NEW k \in Callers, MoveSubmit(k)
  PROVE  LET call == calls[k]
             bk == book[call.b]
         IN  /\ BooksGoOn /\ call # NoCall /\ call.op = "move"
             /\ MayMove(bk.orders[call.i], call.qty)
             /\ Added(call.b, Successor(bk, call.i, call.limit, call.name, call.qty,
                                        call.at, call.seen))
<1> DEFINE call == calls[k]
           bk == book[call.b]
           o == Successor(bk, call.i, call.limit, call.name, call.qty, call.at, call.seen)
           mid == Ended(bk, call.i, "replaced")
<1>1. call.op = "move" /\ call # NoCall
  BY DEF MoveSubmit, NoCall
<1>2. MayMove(bk.orders[call.i], call.qty) /\ Keep(call.b, Moved(bk, call.i, o))
  BY DEF MoveSubmit
<1>3. /\ call.b \in Books /\ SoundBook(bk) /\ call.i \in DOMAIN bk.orders
      /\ call.qty \in Int
  <2>1. call.b \in Books /\ call.i \in DOMAIN bk.orders /\ call.qty \in Sizes
    BY <1>1 DEF CallsKnow, Knows
  <2>2. Sizes \subseteq Nat
    BY ArenaAssumption
  <2>3. \A s \in Sizes : s \in Int
    BY <2>2
  <2>4. SoundBook(bk)
    BY <2>1 DEF BooksKept
  <2> HIDE DEF call, bk
  <2> QED BY <2>1, <2>3, <2>4
<1>4. SoundOrder(o)
  BY <1>2, <1>3, SuccessorIsSound
<1>5. SoundBook(mid) /\ Grows(bk, mid) /\ Len(mid.orders) = Len(bk.orders)
  <2>1. IsOpen(bk.orders[call.i]) /\ "replaced" \in Statuses \ Open
    BY <1>2 DEF MayMove, Statuses, Open
  <2> QED BY <1>3, <2>1, EndedGoesOn
<1> HIDE DEF o, bk, mid
<1>6. /\ SoundBook(Submitted(mid, o)) /\ Grows(mid, Submitted(mid, o))
      /\ Len(Submitted(mid, o).orders) = Len(mid.orders) + 1
      /\ Submitted(mid, o).orders[Len(mid.orders) + 1] = o
  BY <1>4, <1>5, SubmittedGoesOn
<1>7. Grows(bk, Submitted(mid, o))
  BY <1>3, <1>5, <1>6, GrowsOn
<1>8. Moved(bk, call.i, o) = Submitted(mid, o)
  BY DEF Moved, mid
<1>9. BooksGoOn /\ book' = [book EXCEPT ![call.b] = Submitted(mid, o)]
  BY <1>2, <1>6, <1>7, <1>8, KeepGoesOn DEF bk
<1>10. DOMAIN book = Books
  BY DEF BooksKept
<1>11. Added(call.b, o)
  BY <1>3, <1>5, <1>6, <1>9, <1>10 DEF Added, bk
<1> QED BY <1>1, <1>2, <1>9, <1>11 DEF o, bk

\* once: the day orders of a book end.
LEMMA PassExpireGoesOn ==
  ASSUME BooksKept, PassOnTime, NEW b \in Books, PassExpire(b)
  PROVE  /\ BooksGoOn /\ NoneAdded
         /\ \A x \in Books \ {b} : book'[x] = book[x]
         /\ \A i \in DOMAIN book'[b].orders : IsOpen(book'[b].orders[i])
              => book'[b].orders[i].ends = NoEnd \/ pass.now < book'[b].orders[i].ends
<1> DEFINE bk == book[b]
           after == ExpireDay(bk, pass.now)
<1>1. pass.now \in Nat /\ SoundBook(bk) /\ DOMAIN book = Books
  BY DEF PassOnTime, PassExpire, BooksKept
<1>2. CASE Outlived(bk, pass.now) = {}
  <2>1. UNCHANGED <<book, file>>
    BY <1>2 DEF PassExpire, Unkept
  <2>2. ASSUME NEW i \in DOMAIN bk.orders, IsOpen(bk.orders[i])
        PROVE  bk.orders[i].ends = NoEnd \/ pass.now < bk.orders[i].ends
    <3>1. bk.orders[i].ends \in Nat \cup {NoEnd}
      BY <1>1 DEF SoundBook, SoundOrder
    <3> QED BY <1>1, <1>2, <2>2, <3>1 DEF Outlived
  <2> QED BY <2>1, <2>2, LeftGoesOn
<1>3. CASE Outlived(bk, pass.now) # {}
  <2>1. Keep(b, after)
    BY <1>3 DEF PassExpire
  <2>2. /\ SoundBook(after) /\ Grows(bk, after) /\ Len(after.orders) = Len(bk.orders)
        /\ \A i \in DOMAIN bk.orders : IsOpen(after.orders[i])
             => bk.orders[i].ends = NoEnd \/ pass.now < bk.orders[i].ends
    BY <1>1, ExpiredGoesOn
  <2>3. DOMAIN after.orders = DOMAIN bk.orders
    BY <1>1, <2>2, OrdersOf
  <2>4. \A i \in DOMAIN bk.orders : after.orders[i].ends = bk.orders[i].ends
    BY <2>2 DEF Grows, Ages
  <2> HIDE DEF after
  <2>5. BooksGoOn /\ NoneAdded /\ book' = [book EXCEPT ![b] = after]
    BY <2>1, <2>2, KeepGoesOn
  <2> QED BY <1>1, <2>2, <2>3, <2>4, <2>5
<1> QED BY <1>2, <1>3

\* fill: what is booked of an entry of the queue is a fill the book has backing for, or
\* nothing, or a note why not.
LEMMA PassFillBooks ==
  ASSUME PassFill
  PROVE  \E e \in pass.queue :
           LET bk == book[e.b]
               sets == Reach(e)
               price == SetPrice(bk.orders[e.i].legs, pass.m)
               after == IF Affordable(bk, e.i, sets, price) THEN Filled(bk, e.i, sets, price)
                                                            ELSE bk
           IN \/ Noted({b \in {e.b} : sets = 0 /\ IsOpen(bk.orders[e.i])})
              \/ MayFill(bk, e.i, sets) /\ Keep(e.b, after)
BY DEF PassFill, Keep

\* A step of the process takes every book on, or the process ends; only placeOrder and
\* Replace add an order.
LEMMA StepGoesOn ==
  ASSUME BooksKept, CallsKnow, PassOnTime, [Next]_vars
  PROVE  \/ Crash
         \/ BooksGoOn /\ NoneAdded
         \/ BooksGoOn /\ \E k \in Callers : PlaceSubmit(k) \/ MoveSubmit(k)
<1> DEFINE Goal == BooksGoOn /\ NoneAdded
<1>0. ASSUME UNCHANGED <<book, file>> PROVE Goal
  BY <1>0, LeftGoesOn
<1>1. CASE UNCHANGED vars
  BY <1>0, <1>1 DEF vars
<1>2. ASSUME NEW k \in Callers, NEW b \in Books, NEW kind \in Kinds, PlaceBegin(k, b, kind)
      PROVE  Goal
  <2>1. UNCHANGED <<book, file>>
    BY <1>2 DEF PlaceBegin
  <2> QED BY <1>0, <2>1
<1>3. ASSUME NEW k \in Callers, NEW b \in Books, NEW i, NEW limit, NEW qty, NEW name,
             MoveBegin(k, b, i, limit, qty, name)
      PROVE  Goal
  <2>1. UNCHANGED <<book, file>>
    BY <1>3 DEF MoveBegin
  <2> QED BY <1>0, <2>1
<1>4. ASSUME NEW k \in Callers, PlaceSubmit(k) PROVE BooksGoOn
  BY <1>4, PlaceSubmitGoesOn
<1>5. ASSUME NEW k \in Callers, MoveSubmit(k) PROVE BooksGoOn
  BY <1>5, MoveSubmitGoesOn
<1>6. ASSUME NEW k \in Callers, CallRefused(k) PROVE Goal
  <2>1. UNCHANGED <<book, file>>
    BY <1>6 DEF CallRefused
  <2> QED BY <1>0, <2>1
<1>7. ASSUME NEW b \in Books, NEW i, Cancel(b, i) PROVE Goal
  <2> DEFINE after == Ended(book[b], i, "canceled")
  <2>1. i \in DOMAIN book[b].orders /\ IsOpen(book[b].orders[i]) /\ Keep(b, after)
    BY <1>7 DEF Cancel
  <2>2. SoundBook(book[b]) /\ "canceled" \in Statuses \ Open
    BY DEF BooksKept, Statuses, Open
  <2>3. SoundBook(after) /\ Grows(book[b], after) /\ Len(after.orders) = Len(book[b].orders)
    BY <2>1, <2>2, EndedGoesOn
  <2> QED BY <2>1, <2>3, KeepGoesOn
<1>8. ASSUME NEW b \in Books, NEW price, Remember(b, price) PROVE Goal
  <2> DEFINE after == Marked(book[b], price)
  <2>1. Keep(b, after)
    BY <1>8 DEF Remember
  <2>2. SoundBook(book[b])
    BY DEF BooksKept
  <2>3. "orders" \in DOMAIN after /\ after.orders = book[b].orders
    BY <2>2 DEF Marked, SoundBook
  <2>4. SoundBook(after) /\ Grows(book[b], after) /\ Len(after.orders) = Len(book[b].orders)
    BY <2>2, <2>3, OrdersLeft
  <2> QED BY <2>1, <2>4, KeepGoesOn
<1>9. ASSUME PassBegin PROVE Goal
  BY <1>0, <1>9 DEF PassBegin
<1>10. ASSUME NEW b \in Books, PassExpire(b) PROVE Goal
  BY <1>10, PassExpireGoesOn
<1>11. ASSUME NEW c, PassSettle(c) PROVE Goal
  <2> DEFINE b == pass.b
             after == Settled(book[b], c, pass.under[Term[c].root])
  <2>1. Keep(b, after)
    BY <1>11 DEF PassSettle
  <2>2. ASSUME b \in Books
        PROVE  SoundBook(after) /\ Grows(book[b], after)
               /\ Len(after.orders) = Len(book[b].orders)
    <3>1. SoundBook(book[b])
      BY <2>2 DEF BooksKept
    <3>2. "orders" \in DOMAIN after /\ after.orders = book[b].orders
      BY <3>1 DEF Settled, SoundBook
    <3> QED BY <3>1, <3>2, OrdersLeft
  <2> HIDE DEF after, b
  <2> QED BY <2>1, <2>2, KeepGoesOn
<1>12. ASSUME PassSettled PROVE Goal
  BY <1>0, <1>12 DEF PassSettled
<1>13. ASSUME PassGather PROVE Goal
  <2>1. Unkept \/ Noted({b \in Books : Standing(book[b], None) # {}})
    BY <1>13 DEF PassGather
  <2> QED BY <1>0, <2>1, NotedGoesOn DEF Unkept
<1>14. ASSUME PassQuotes PROVE Goal
  BY <1>0, <1>14 DEF PassQuotes
<1>15. ASSUME PassFails PROVE Goal
  BY <1>0, <1>15 DEF PassFails
<1>16. ASSUME PassFill PROVE Goal
  <2>1. PICK e \in pass.queue :
          LET bk == book[e.b]
              sets == Reach(e)
              price == SetPrice(bk.orders[e.i].legs, pass.m)
              after == IF Affordable(bk, e.i, sets, price) THEN Filled(bk, e.i, sets, price)
                                                           ELSE bk
          IN \/ Noted({b \in {e.b} : sets = 0 /\ IsOpen(bk.orders[e.i])})
             \/ MayFill(bk, e.i, sets) /\ Keep(e.b, after)
    BY <1>16, PassFillBooks
  <2> DEFINE bk == book[e.b]
             sets == Reach(e)
             price == SetPrice(bk.orders[e.i].legs, pass.m)
             after == IF Affordable(bk, e.i, sets, price) THEN Filled(bk, e.i, sets, price)
                                                          ELSE bk
  <2>2. CASE MayFill(bk, e.i, sets) /\ Keep(e.b, after)
    <3>1. ASSUME e.b \in Books
          PROVE  SoundBook(after) /\ Grows(bk, after) /\ Len(after.orders) = Len(bk.orders)
      <4>1. SoundBook(bk)
        BY <3>1 DEF BooksKept
      <4> HIDE DEF sets, price, bk
      <4> QED BY <2>2, <4>1, FilledGoesOn, GrowsOn
    <3> HIDE DEF after, sets, price
    <3> QED BY <2>2, <3>1, KeepGoesOn
  <2>3. CASE Noted({b \in {e.b} : sets = 0 /\ IsOpen(bk.orders[e.i])})
    BY <2>3, NotedGoesOn
  <2> QED BY <2>1, <2>2, <2>3
<1>17. ASSUME PassMark PROVE Goal
  <2> DEFINE e == pass.cur
             bk == book[e.b]
             after == [bk EXCEPT !.orders[e.i].stand = TRUE]
  <2>1. UNCHANGED <<book, file>> \/ Keep(e.b, after)
    BY <1>17 DEF PassMark, Unkept
  <2>2. ASSUME e.b \in Books
        PROVE  SoundBook(after) /\ Grows(bk, after) /\ Len(after.orders) = Len(bk.orders)
    <3>1. SoundBook(bk)
      BY <2>2 DEF BooksKept
    <3> HIDE DEF bk, e
    <3> QED BY <3>1, MarkedGoesOn
  <2> HIDE DEF after
  <2> QED BY <1>0, <2>1, <2>2, KeepGoesOn
<1>18. ASSUME Advance PROVE Goal
  BY <1>0, <1>18 DEF Advance
<1> HIDE DEF Goal
<1>19. ASSUME Participants
       PROVE  Goal \/ (BooksGoOn /\ \E k \in Callers : PlaceSubmit(k) \/ MoveSubmit(k))
  BY <1>19, <1>2, <1>3, <1>4, <1>5, <1>6, <1>7, <1>8 DEF Participants
<1>20. ASSUME Matcher PROVE Goal
  BY <1>20, <1>9, <1>10, <1>11, <1>12, <1>13, <1>14, <1>15, <1>16, <1>17 DEF Matcher
<1> QED BY <1>1, <1>18, <1>19, <1>20 DEF Next, Goal
-----------------------------------------------------------------------------
(* Calls and names.                                                        *)

\* A book that goes on has as many orders at least, each under the name it had.
LEMMA NamesStay ==
  ASSUME NEW bk, NEW after, SoundBook(bk), SoundBook(after), Grows(bk, after)
  PROVE  /\ Len(bk.orders) \in Nat /\ Len(after.orders) \in Nat
         /\ Len(bk.orders) <= Len(after.orders)
         /\ DOMAIN bk.orders = 1..Len(bk.orders) /\ DOMAIN after.orders = 1..Len(after.orders)
         /\ \A i \in DOMAIN bk.orders :
              /\ i \in DOMAIN after.orders
              /\ after.orders[i].name = bk.orders[i].name
              /\ after.orders[i].seen = bk.orders[i].seen
              /\ after.orders[i].born = bk.orders[i].born
<1>1. /\ Len(bk.orders) \in Nat /\ Len(after.orders) \in Nat
      /\ DOMAIN bk.orders = 1..Len(bk.orders) /\ DOMAIN after.orders = 1..Len(after.orders)
  BY OrdersOf
<1>2. DOMAIN bk.orders \subseteq DOMAIN after.orders
  BY DEF Grows
<1>3. Len(bk.orders) <= Len(after.orders)
  <2> DEFINE m == Len(bk.orders)
             n == Len(after.orders)
  <2>1. m \in Nat /\ n \in Nat /\ 1..m \subseteq 1..n
    BY <1>1, <1>2
  <2> HIDE DEF m, n
  <2>2. m <= n
    BY <2>1
  <2> QED BY <2>2 DEF m, n
<1> QED BY <1>1, <1>2, <1>3 DEF Grows, Ages

\* What a call knew stays known: of the orders it looked at none changes its name.
LEMMA KnownStays ==
  ASSUME NEW call, NEW bk, NEW after, SoundBook(bk), SoundBook(after), Grows(bk, after),
         Knows(call, bk.orders)
  PROVE  Knows(call, after.orders)
<1> DEFINE m == Len(bk.orders)
           n == Len(after.orders)
<1>1. /\ m \in Nat /\ n \in Nat /\ m <= n
      /\ DOMAIN bk.orders = 1..m /\ DOMAIN after.orders = 1..n
      /\ \A i \in DOMAIN bk.orders : i \in DOMAIN after.orders
                                     /\ after.orders[i].name = bk.orders[i].name
  BY NamesStay
<1>2. call.seen \in 0..m
  BY DEF Knows
<1> HIDE DEF m, n
<1>3. call.seen \in 0..n /\ \A i \in 1..n : i <= call.seen => i \in 1..m
  BY <1>1, <1>2
<1>4. Len(after.orders) = n /\ Len(bk.orders) = m
  BY DEF m, n
<1> QED BY <1>1, <1>3, <1>4 DEF Knows

\* Whether an order brings its name in is settled when it is submitted.
LEMMA BroughtStays ==
  ASSUME NEW bk, NEW after, SoundBook(bk), SoundBook(after), Grows(bk, after),
         NEW j \in DOMAIN bk.orders
  PROVE  BringsItsName(after, j) <=> BringsItsName(bk, j)
<1> DEFINE m == Len(bk.orders)
           n == Len(after.orders)
<1>1. /\ m \in Nat /\ n \in Nat /\ m <= n
      /\ DOMAIN bk.orders = 1..m /\ DOMAIN after.orders = 1..n
      /\ \A i \in DOMAIN bk.orders : /\ i \in DOMAIN after.orders
                                     /\ after.orders[i].name = bk.orders[i].name
                                     /\ after.orders[i].born = bk.orders[i].born
  BY NamesStay
<1> HIDE DEF m, n
<1>2. j \in 1..m /\ \A k \in 1..n : k < j => k \in 1..m
  BY <1>1
<1> QED BY <1>1, <1>2 DEF BringsItsName

\* OneOrderPerName of one book.
NamedOnce(bk) ==
  \A i, j \in DOMAIN bk.orders :
    LET o == bk.orders[i]
        p == bk.orders[j]
    IN i < j /\ o.name # NoName /\ o.name = p.name /\ BringsItsName(bk, j) => p.seen < i

\* What the store holds is an earlier book.
LEMMA NamedOnceBefore ==
  ASSUME NEW bk, NEW after, SoundBook(bk), SoundBook(after), Grows(bk, after), NamedOnce(after)
  PROVE  NamedOnce(bk)
BY NamesStay, BroughtStays DEF NamedOnce

\* A booking that adds no order disturbs no name.
LEMMA NamedOnceAfter ==
  ASSUME NEW bk, NEW after, SoundBook(bk), SoundBook(after), Grows(bk, after), NamedOnce(bk),
         Len(after.orders) = Len(bk.orders)
  PROVE  NamedOnce(after)
BY NamesStay, BroughtStays DEF NamedOnce

\* An order whose name none had that its call looked at, or one of its own chain had.
LEMMA NamedOnceAdded ==
  ASSUME NEW bk, NEW after, SoundBook(bk), SoundBook(after), Grows(bk, after), NamedOnce(bk),
         NEW n, n = Len(bk.orders), Len(after.orders) = n + 1, NEW p, after.orders[n + 1] = p,
         \/ p.name = NoName
         \/ \E i \in DOMAIN bk.orders : bk.orders[i].born = p.born /\ bk.orders[i].name = p.name
         \/ \A i \in DOMAIN bk.orders : bk.orders[i].name = p.name => p.seen < i
  PROVE  NamedOnce(after)
<1>1. /\ n \in Nat /\ DOMAIN bk.orders = 1..n /\ DOMAIN after.orders = 1..(n + 1)
      /\ \A i \in 1..n : /\ i \in DOMAIN after.orders
                         /\ after.orders[i].name = bk.orders[i].name
                         /\ after.orders[i].seen = bk.orders[i].seen
                         /\ after.orders[i].born = bk.orders[i].born
  BY NamesStay
<1>2. SUFFICES ASSUME NEW i \in DOMAIN after.orders, NEW j \in DOMAIN after.orders, i < j,
                      after.orders[i].name # NoName,
                      after.orders[i].name = after.orders[j].name, BringsItsName(after, j)
               PROVE  after.orders[j].seen < i
  BY DEF NamedOnce
<1>3. CASE j \in 1..n
  <2>1. i \in 1..n /\ BringsItsName(bk, j)
    BY <1>1, <1>2, <1>3, BroughtStays
  <2> QED BY <1>1, <1>2, <1>3, <2>1 DEF NamedOnce
<1>4. CASE j = n + 1
  <2>1. i \in 1..n /\ after.orders[j] = p /\ bk.orders[i].name = p.name
    BY <1>1, <1>2, <1>4
  <2>2. ~ \E x \in DOMAIN bk.orders : bk.orders[x].born = p.born /\ bk.orders[x].name = p.name
    <3> SUFFICES ASSUME NEW x \in 1..n, bk.orders[x].born = p.born, bk.orders[x].name = p.name
                 PROVE  FALSE
      BY <1>1
    <3>1. x < j /\ x \in DOMAIN after.orders
      BY <1>1, <1>4
    <3> QED BY <1>1, <1>2, <2>1, <3>1 DEF BringsItsName
  <2> QED BY <1>1, <1>2, <2>1, <2>2
<1> QED BY <1>1, <1>3, <1>4
\* A call goes on as it was or ends, one that begins knows what it has looked up, and
\* calls do not outlive the process.
LEMMA CallsStep ==
  ASSUME BooksKept, CallsKnow, PassOnTime, [Next]_vars, BooksKept'
  PROVE  CallsKnow'
<1> DEFINE Quiet == DOMAIN calls' = Callers /\ \A k \in Callers : calls'[k] \in {calls[k], NoCall}
<1>0. DOMAIN calls = Callers
  BY DEF CallsKnow
<1>1. CASE Crash
  BY <1>1 DEF Crash, CallsKnow
<1>2. ASSUME NEW k \in Callers, NEW b \in Books, NEW kind \in Kinds, PlaceBegin(k, b, kind)
      PROVE  CallsKnow'
  <2>1. PICK t \in Readings :
          calls' = [calls EXCEPT ![k] =
            [op |-> "place", b |-> b, kind |-> kind,
             at |-> now, close |-> NextClose(t), seen |-> Len(book[b].orders)]]
    BY <1>2 DEF PlaceBegin
  <2>2. book' = book /\ Called(book[b], Shape[kind].name) = {}
    BY <1>2 DEF PlaceBegin
  <2>3. Len(book[b].orders) \in Nat
    BY OrdersOf DEF BooksKept
  <2>4. NextClose(t) \in Nat
    <3>1. t \in Nat
      BY <2>1 DEF Readings, PassOnTime
    <3> QED BY <3>1 DEF NextClose
  <2>5. Knows(calls'[k], book[b].orders)
    BY <1>0, <2>1, <2>2, <2>3, <2>4 DEF Knows, Called
  <2>6. calls'[k].b = b /\ DOMAIN calls' = Callers /\ \A x \in Callers \ {k} : calls'[x] = calls[x]
    BY <1>0, <2>1
  <2> QED BY <2>2, <2>5, <2>6 DEF CallsKnow
<1>3. ASSUME NEW k \in Callers, NEW b \in Books, NEW i, NEW limit, NEW qty \in Sizes, NEW name,
             MoveBegin(k, b, i, limit, qty, name)
      PROVE  CallsKnow'
  <2>1. PICK t \in Readings :
          calls' = [calls EXCEPT ![k] =
            [op |-> "move", b |-> b, i |-> i, limit |-> limit, qty |-> qty,
             name |-> name, at |-> now, seen |-> Len(book[b].orders)]]
    BY <1>3 DEF MoveBegin
  <2>2. /\ book' = book /\ i \in DOMAIN book[b].orders
        /\ Called(book[b], name) # {} => Min(Called(book[b], name)) = i
    BY <1>3 DEF MoveBegin
  <2>3. Len(book[b].orders) \in Nat /\ DOMAIN book[b].orders = 1..Len(book[b].orders)
    BY OrdersOf DEF BooksKept
  <2>4. \/ name = NoName
        \/ book[b].orders[i].name = name
        \/ \A j \in DOMAIN book[b].orders : book[b].orders[j].name # name
    <3>1. CASE Called(book[b], name) = {}
      BY <3>1 DEF Called
    <3>2. CASE Called(book[b], name) # {}
      <4>1. Called(book[b], name) \in SUBSET Nat
        BY <2>3 DEF Called
      <4>2. i \in Called(book[b], name)
        <5> DEFINE S == Called(book[b], name)
        <5>1. S \in SUBSET Nat /\ S # {} /\ Min(S) = i
          BY <2>2, <3>2, <4>1
        <5> HIDE DEF S
        <5>2. Min(S) \in S
          BY <5>1, LeastOf
        <5> QED BY <5>1, <5>2 DEF S
      <4> QED BY <4>2 DEF Called
    <3> QED BY <3>1, <3>2
  <2>5. Knows(calls'[k], book[b].orders)
    BY <1>0, <2>1, <2>2, <2>3, <2>4 DEF Knows
  <2>6. calls'[k].b = b /\ DOMAIN calls' = Callers /\ \A x \in Callers \ {k} : calls'[x] = calls[x]
    BY <1>0, <2>1
  <2> QED BY <2>2, <2>5, <2>6 DEF CallsKnow
<1>4. ASSUME Quiet, BooksGoOn PROVE CallsKnow'
  <2> SUFFICES ASSUME NEW k \in Callers, calls'[k] # NoCall
               PROVE  calls'[k].b \in Books /\ Knows(calls'[k], book'[calls'[k].b].orders)
    BY <1>4 DEF CallsKnow
  <2>1. calls'[k] = calls[k] /\ calls[k] # NoCall
    BY <1>4
  <2>2. calls[k].b \in Books /\ Knows(calls[k], book[calls[k].b].orders)
    BY <2>1 DEF CallsKnow
  <2> QED BY <1>4, <2>1, <2>2, KnownStays DEF BooksKept, BooksGoOn
<1>5. ASSUME NEW k \in Callers, PlaceSubmit(k) \/ MoveSubmit(k) \/ CallRefused(k) PROVE Quiet
  BY <1>0, <1>5 DEF PlaceSubmit, MoveSubmit, CallRefused
<1>6. ASSUME calls' = calls PROVE Quiet
  BY <1>0, <1>6
<1>7. ASSUME Matcher PROVE calls' = calls
  BY <1>7 DEF Matcher, PassBegin, PassSettled, PassGather, PassQuotes, PassFails, PassFill,
              PassMark, PassExpire, PassSettle
<1>8. ASSUME Participants PROVE CallsKnow' \/ Quiet
  <2>1. ASSUME NEW b, NEW i, Cancel(b, i) PROVE Quiet
    BY <1>6, <2>1 DEF Cancel
  <2>2. ASSUME NEW b, NEW price, Remember(b, price) PROVE Quiet
    BY <1>6, <2>2 DEF Remember
  <2> HIDE DEF Quiet
  <2> QED BY <1>2, <1>3, <1>5, <1>8, <2>1, <2>2 DEF Participants
<1>9. Crash \/ Quiet \/ CallsKnow'
  <2> HIDE DEF Quiet
  <2> QED BY <1>6, <1>7, <1>8 DEF Next, Advance, vars
<1>10. Crash \/ BooksGoOn
  BY StepGoesOn
<1> HIDE DEF Quiet
<1> QED BY <1>1, <1>4, <1>9, <1>10

\* tools.go: no step gives a name a second order, but for calls that looked it up both.
LEMMA NamesStep ==
  ASSUME BooksKept, CallsKnow, PassOnTime, OneOrderPerName, [Next]_vars, BooksKept'
  PROVE  OneOrderPerName'
<1>1. \A b \in Books : NamedOnce(book[b])
  BY DEF OneOrderPerName, NamedOnce
<1>2. SUFFICES ASSUME NEW b \in Books PROVE NamedOnce(book'[b])
  BY DEF OneOrderPerName, NamedOnce, BringsItsName
<1>3. SoundBook(book[b]) /\ SoundBook(file[b]) /\ Grows(file[b], book[b]) /\ SoundBook(book'[b])
  BY DEF BooksKept
<1>4. CASE Crash
  <2>1. book' = file
    BY <1>4 DEF Crash
  <2> QED BY <1>1, <1>3, <2>1, NamedOnceBefore
<1>5. CASE BooksGoOn /\ NoneAdded
  BY <1>1, <1>3, <1>5, NamedOnceAfter DEF BooksGoOn, NoneAdded
<1>6. ASSUME BooksGoOn, NEW k \in Callers, NEW p, Added(calls[k].b, p),
             LET orders == book[calls[k].b].orders
             IN  \/ p.name = NoName
                 \/ \E i \in DOMAIN orders : orders[i].born = p.born /\ orders[i].name = p.name
                 \/ \A i \in DOMAIN orders : orders[i].name = p.name => p.seen < i
      PROVE  NamedOnce(book'[b])
  <2>1. CASE b = calls[k].b
    <3> DEFINE bk == book[b]
               after == book'[b]
               n == Len(bk.orders)
    <3>1. SoundBook(bk) /\ SoundBook(after) /\ Grows(bk, after) /\ NamedOnce(bk)
      BY <1>1, <1>3, <1>6 DEF BooksGoOn
    <3>2. Len(after.orders) = n + 1 /\ after.orders[n + 1] = p
      BY <1>6, <2>1 DEF Added
    <3>3. \/ p.name = NoName
          \/ \E i \in DOMAIN bk.orders : bk.orders[i].born = p.born /\ bk.orders[i].name = p.name
          \/ \A i \in DOMAIN bk.orders : bk.orders[i].name = p.name => p.seen < i
      BY <1>6, <2>1
    <3>4. n = Len(bk.orders)
      OBVIOUS
    <3> HIDE DEF bk, after, n
    <3>5. NamedOnce(after)
      BY <3>1, <3>2, <3>3, <3>4, NamedOnceAdded
    <3> QED BY <3>5 DEF after
  <2>2. CASE b # calls[k].b
    BY <1>1, <1>6, <2>2 DEF Added
  <2> QED BY <2>1, <2>2
<1>7. ASSUME NEW k \in Callers, PlaceSubmit(k) PROVE NamedOnce(book'[b])
  <2> DEFINE call == calls[k]
             orders == book[call.b].orders
  <2>1. BooksGoOn /\ call # NoCall /\ call.op = "place"
    BY <1>7, PlaceSubmitGoesOn
  <2>2. PICK limit : Added(call.b, NewOrder(call, limit))
    BY <1>7, PlaceSubmitGoesOn
  <2> DEFINE p == NewOrder(call, limit)
  <2>3. p.name = Shape[call.kind].name /\ p.seen = call.seen
    BY DEF NewOrder
  <2>4. Knows(call, orders) /\ SoundBook(book[call.b])
    BY <2>1 DEF CallsKnow, BooksKept
  <2>5. p.name = NoName \/ \A i \in DOMAIN orders : orders[i].name = p.name => p.seen < i
    <3>1. call.seen \in Nat /\ DOMAIN orders \subseteq Nat
      BY <2>4, OrdersOf DEF Knows
    <3> HIDE DEF p, orders
    <3> QED BY <2>1, <2>3, <2>4, <3>1 DEF Knows
  <2> HIDE DEF p
  <2> QED BY <1>6, <2>1, <2>2, <2>5 DEF p
<1>8. ASSUME NEW k \in Callers, MoveSubmit(k) PROVE NamedOnce(book'[b])
  <2> DEFINE call == calls[k]
             bk == book[call.b]
             orders == bk.orders
             old == orders[call.i]
             p == Successor(bk, call.i, call.limit, call.name, call.qty, call.at, call.seen)
  <2>1. BooksGoOn /\ call # NoCall /\ call.op = "move" /\ Added(call.b, p)
    BY <1>8, MoveSubmitGoesOn
  <2>2. /\ p.born = old.born
        /\ call.name = NoName => p.name = old.name
        /\ call.name # NoName => p.name = call.name /\ p.seen = call.seen
    BY DEF Successor
  <2>3. Knows(call, orders) /\ SoundBook(bk)
    BY <2>1 DEF CallsKnow, BooksKept
  <2>4. \/ \E i \in DOMAIN orders : orders[i].born = p.born /\ orders[i].name = p.name
        \/ \A i \in DOMAIN orders : orders[i].name = p.name => p.seen < i
    <3>1. call.seen \in Nat /\ DOMAIN orders \subseteq Nat
      BY <2>3, OrdersOf DEF Knows
    <3>2. call.i \in DOMAIN orders
      BY <2>1, <2>3 DEF Knows
    <3> HIDE DEF p, orders
    <3> QED BY <2>1, <2>2, <2>3, <3>1, <3>2 DEF Knows
  <2> HIDE DEF p
  <2> QED BY <1>6, <2>1, <2>4
<1> QED BY <1>4, <1>5, <1>7, <1>8, StepGoesOn
-----------------------------------------------------------------------------
(* The pass.                                                               *)

\* An order that did not stand does not come to stand.
LEMMA OnTimeAfter ==
  ASSUME NEW bk, NEW after, SoundBook(bk), SoundBook(after), Grows(bk, after),
         Len(after.orders) = Len(bk.orders), NEW t, OnTime(bk, t)
  PROVE  OnTime(after, t)
BY NamesStay DEF OnTime, Grows, Ages

\* An order that is added comes before the close of its session, or says that it is late.
LEMMA OnTimeAdded ==
  ASSUME NEW bk, NEW after, SoundBook(bk), SoundBook(after), Grows(bk, after),
         NEW n, n = Len(bk.orders), Len(after.orders) = n + 1, NEW p, after.orders[n + 1] = p,
         NEW t, OnTime(bk, t), p.late \/ p.ends = NoEnd \/ t < p.ends
  PROVE  OnTime(after, t)
<1>1. n \in Nat /\ DOMAIN bk.orders = 1..n /\ DOMAIN after.orders = 1..(n + 1)
  BY NamesStay
<1>2. ASSUME NEW i \in 1..n, IsOpen(after.orders[i])
      PROVE  after.orders[i].late \/ after.orders[i].ends = NoEnd \/ t < after.orders[i].ends
  BY <1>1, <1>2 DEF OnTime, Grows, Ages
<1>3. \A i \in 1..(n + 1) : i \in 1..n \/ i = n + 1
  BY <1>1
<1> QED BY <1>1, <1>2, <1>3 DEF OnTime

\* No step but a restart brings back an order whose session was over by t.
LEMMA OnTimeStays ==
  ASSUME BooksKept, CallsKnow, PassOnTime, [Next]_vars, BooksKept', ~Crash,
         NEW b \in Books, NEW t \in Nat, t <= now, OnTime(book[b], t)
  PROVE  OnTime(book'[b], t)
<1> DEFINE bk == book[b]
           after == book'[b]
<1>1. SoundBook(bk) /\ SoundBook(after)
  BY DEF BooksKept
<1>2. CASE BooksGoOn /\ NoneAdded
  BY <1>1, <1>2, OnTimeAfter DEF BooksGoOn, NoneAdded
<1>3. ASSUME BooksGoOn, NEW k \in Callers, NEW p, Added(calls[k].b, p),
             calls[k].b = b => p.late \/ p.ends = NoEnd \/ t < p.ends
      PROVE  OnTime(after, t)
  <2>1. CASE b = calls[k].b
    <3> DEFINE n == Len(bk.orders)
    <3>1. Grows(bk, after) /\ OnTime(bk, t)
      BY <1>3 DEF BooksGoOn
    <3>2. Len(after.orders) = n + 1 /\ after.orders[n + 1] = p
      BY <1>3, <2>1 DEF Added
    <3>3. n = Len(bk.orders) /\ (p.late \/ p.ends = NoEnd \/ t < p.ends)
      BY <1>3, <2>1
    <3> HIDE DEF bk, after, n
    <3> QED BY <1>1, <3>1, <3>2, <3>3, OnTimeAdded
  <2>2. CASE b # calls[k].b
    BY <1>3, <2>2 DEF Added
  <2> QED BY <2>1, <2>2
<1>4. ASSUME NEW k \in Callers, PlaceSubmit(k) PROVE OnTime(after, t)
  <2> DEFINE call == calls[k]
  <2>1. BooksGoOn /\ call # NoCall /\ call.op = "place"
    BY <1>4, PlaceSubmitGoesOn
  <2>2. PICK limit : Added(call.b, NewOrder(call, limit))
    BY <1>4, PlaceSubmitGoesOn
  <2> DEFINE p == NewOrder(call, limit)
  <2>3. call.close \in Nat /\ now \in Nat
    BY <2>1 DEF CallsKnow, Knows, PassOnTime
  <2>4. /\ p.ends = (IF Shape[call.kind].day THEN call.close ELSE NoEnd)
        /\ call.close <= now => p.late
    BY DEF NewOrder
  <2>5. p.late \/ p.ends = NoEnd \/ t < p.ends
    <3> HIDE DEF p
    <3>1. CASE Shape[call.kind].day
      BY <2>3, <2>4, <3>1
    <3>2. CASE ~Shape[call.kind].day
      BY <2>4, <3>2
    <3> QED BY <3>1, <3>2
  <2> HIDE DEF p, after
  <2> QED BY <1>3, <2>1, <2>2, <2>5 DEF p
<1>5. ASSUME NEW k \in Callers, MoveSubmit(k) PROVE OnTime(after, t)
  <2> DEFINE call == calls[k]
             old == book[call.b].orders[call.i]
             p == Successor(book[call.b], call.i, call.limit, call.name, call.qty, call.at,
                            call.seen)
  <2>1. /\ BooksGoOn /\ call # NoCall /\ call.op = "move" /\ Added(call.b, p)
        /\ MayMove(old, call.qty)
    BY <1>5, MoveSubmitGoesOn
  <2>2. p.ends = old.ends /\ p.late = old.late
    BY DEF Successor
  <2>3. call.i \in DOMAIN book[call.b].orders /\ IsOpen(old)
    BY <2>1 DEF CallsKnow, Knows, MayMove
  <2>4. call.b = b => old.late \/ old.ends = NoEnd \/ t < old.ends
    BY <2>3 DEF OnTime
  <2> HIDE DEF p, after, old
  <2> QED BY <1>3, <2>1, <2>2, <2>4
<1> QED BY <1>2, <1>4, <1>5, StepGoesOn

\* Time goes on and the clock in hand is one that was read.
LEMMA ClockStep ==
  ASSUME PassOnTime, [Next]_vars
  PROVE  now' \in Nat /\ heldClock' \in Nat /\ now <= now'
<1>1. now \in Nat /\ heldClock \in Nat /\ \A t \in Readings : t \in Nat
  BY DEF PassOnTime, Readings
<1>2. ASSUME Participants PROVE now' = now /\ heldClock' \in Nat
  BY <1>1, <1>2 DEF Participants, PlaceBegin, MoveBegin, PlaceSubmit, MoveSubmit, CallRefused,
                    Cancel, Remember, Read
<1>3. ASSUME Matcher PROVE now' = now /\ heldClock' \in Nat
  BY <1>1, <1>3 DEF Matcher, PassBegin, PassSettled, PassGather, PassQuotes, PassFails, PassFill,
                    PassMark, PassExpire, PassSettle, Read
<1> QED BY <1>1, <1>2, <1>3 DEF Next, Advance, Crash, vars

\* The matcher alone, and a restart, move the pass.
LEMMA PassLeft ==
  ASSUME [Next]_vars
  PROVE  pass' = pass \/ Matcher \/ Crash
<1>1. ASSUME Participants PROVE pass' = pass
  BY <1>1 DEF Participants, PlaceBegin, MoveBegin, PlaceSubmit, MoveSubmit, CallRefused, Cancel,
              Remember
<1> QED BY <1>1 DEF Next, Advance, vars

\* What fills next, or the end of the pass.
LEMMA NextOfQueue ==
  ASSUME NEW p, NEW q, DOMAIN p = {"pc", "now", "queue", "cur", "m", "left", "took"},
         q = NextInQueue(p)
  PROVE  \/ q.pc = "idle" /\ DOMAIN q = {"pc"}
         \/ /\ q.pc = "fill" /\ DOMAIN q = DOMAIN p
            /\ q.now = p.now /\ q.queue = p.queue /\ q.m = p.m /\ q.left = p.left
            /\ q.took = p.took
BY DEF NextInQueue, NoPass

\* fill: one entry of the queue is done with; what it took of the sizes shown is taken
\* when the fill is booked, and the fill booked when what it took is counted.
LEMMA PassFillTells ==
  ASSUME PassFill, NEW D, D = {"pc", "now", "queue", "cur", "m", "left", "took"},
         DOMAIN pass = D
  PROVE  \E e, told :
           /\ e \in pass.queue
           /\ DOMAIN told = D
           /\ told.now = pass.now /\ told.m = pass.m /\ told.queue = pass.queue \ {e}
           /\ \/ told.left = pass.left /\ told.took = pass.took
              \/ LET legs == book[e.b].orders[e.i].legs
                     sets == Reach(e)
                 IN /\ MayFill(book[e.b], e.i, sets) /\ sets > 0
                    /\ told.left = Taken(pass.left, legs, sets)
                    /\ told.took \in {pass.took, Booked(pass.took, legs, sets)}
           /\ \/ pass' = NextInQueue(told)
              \/ pass' = [told EXCEPT !.pc = "mark", !.cur = e]
<1>1. PICK e \in pass.queue :
        LET bk    == book[e.b]
            legs  == bk.orders[e.i].legs
            sets  == Reach(e)
            done  == [pass EXCEPT !.queue = @ \ {e}]
        IN \/ pass' = NextInQueue(done)
           \/ \E took \in {pass.took, Booked(pass.took, legs, sets)} :
                LET told == [done EXCEPT !.left = Taken(@, legs, sets), !.took = took]
                IN /\ MayFill(bk, e.i, sets) /\ sets > 0
                   /\ \/ pass' = NextInQueue(told)
                      \/ pass' = [told EXCEPT !.pc = "mark", !.cur = e]
  BY DEF PassFill
<1> DEFINE legs  == book[e.b].orders[e.i].legs
           sets  == Reach(e)
           done  == [pass EXCEPT !.queue = @ \ {e}]
<1>2. /\ DOMAIN done = D
      /\ done.now = pass.now /\ done.m = pass.m /\ done.queue = pass.queue \ {e}
      /\ done.left = pass.left /\ done.took = pass.took
  OBVIOUS
<1>3. CASE pass' = NextInQueue(done)
  <2> HIDE DEF done
  <2> QED BY <1>2, <1>3
<1>4. ASSUME NEW took \in {pass.took, Booked(pass.took, legs, sets)}, NEW told,
             told = [done EXCEPT !.left = Taken(@, legs, sets), !.took = took]
      PROVE  /\ DOMAIN told = D
             /\ told.now = pass.now /\ told.m = pass.m /\ told.queue = pass.queue \ {e}
             /\ told.left = Taken(pass.left, legs, sets) /\ told.took = took
  <2> HIDE DEF done, legs, sets
  <2> QED BY <1>2, <1>4
<1> HIDE DEF done
<1> QED BY <1>1, <1>3, <1>4 DEF done

\* once: the day orders of a book have ended before anything of it is settled or filled.
LEMMA PassStep ==
  ASSUME BooksKept, CallsKnow, PassOnTime, [Next]_vars, BooksKept'
  PROVE  PassOnTime'
<1> DEFINE Past(b) == pass.pc \in {"quotes", "fill", "mark"}
                        \/ (pass.pc \in {"expire", "settle"} /\ b \notin pass.todo)
           Pcs == {"idle", "expire", "settle", "quotes", "fill", "mark"}
<1>1. now' \in Nat /\ heldClock' \in Nat /\ now <= now' /\ now \in Nat
  BY ClockStep DEF PassOnTime
<1>2. CASE Crash
  BY <1>1, <1>2 DEF Crash, PassOnTime, PassFields, NoPass
<1> SUFFICES ASSUME ~Crash PROVE PassOnTime'
  BY <1>2
<1>3. ASSUME NEW b \in Books, Past(b) PROVE OnTime(book'[b], pass.now)
  <2>1. OnTime(book[b], pass.now) /\ pass.now \in Nat /\ pass.now <= now
    BY <1>3 DEF PassOnTime
  <2> QED BY <2>1, OnTimeStays
<1>4. CASE pass' = pass
  BY <1>1, <1>3, <1>4 DEF PassOnTime, PassFields
<1>5. CASE PassBegin
  BY <1>1, <1>5 DEF PassBegin, PassOnTime, PassFields
<1>6. ASSUME NEW b \in Books, PassExpire(b) PROVE PassOnTime'
  <2>1. /\ pass.pc = "expire" /\ pass'.pc = "settle" /\ pass'.now = pass.now
        /\ pass'.todo = pass.todo \ {b}
        /\ DOMAIN pass' = {"pc", "now", "open", "todo", "b", "due", "under"}
    BY <1>6 DEF PassExpire
  <2>2. OnTime(book'[b], pass.now)
    BY <1>6, PassExpireGoesOn DEF OnTime
  <2> QED BY <1>1, <1>3, <2>1, <2>2 DEF PassOnTime, PassFields
<1>7. ASSUME NEW c, PassSettle(c) PROVE PassOnTime'
  <2>1. /\ pass.pc = "settle" /\ pass'.pc = "settle" /\ pass'.now = pass.now
        /\ pass'.todo = pass.todo /\ DOMAIN pass' = DOMAIN pass
    <3>1. pass.pc = "settle" /\ pass' = [pass EXCEPT !.due = @ \ {c}]
      BY <1>7 DEF PassSettle
    <3> QED BY <3>1 DEF PassOnTime, PassFields
  <2> QED BY <1>1, <1>3, <2>1 DEF PassOnTime, PassFields
<1>8. CASE PassSettled
  BY <1>1, <1>3, <1>8 DEF PassSettled, PassOnTime, PassFields
<1>9. CASE PassGather
  BY <1>1, <1>3, <1>9 DEF PassGather, PassOnTime, PassFields, NoPass
<1>10. CASE PassQuotes
  BY <1>1, <1>3, <1>10 DEF PassQuotes, PassOnTime, PassFields
<1>11. CASE PassFails
  BY <1>1, <1>3, <1>11 DEF PassFails, PassOnTime, PassFields, NoPass
<1>12. ASSUME pass.pc \in {"fill", "mark"}, DOMAIN pass' = PassFields',
              \/ pass'.pc = "idle"
              \/ pass'.pc \in {"fill", "mark"} /\ pass'.now = pass.now
       PROVE  PassOnTime'
  BY <1>1, <1>3, <1>12 DEF PassOnTime
<1>13. CASE PassFill
  <2>1. pass.pc = "fill" /\ DOMAIN pass = {"pc", "now", "queue", "cur", "m", "left", "took"}
    BY <1>13 DEF PassFill, PassOnTime, PassFields
  <2>2. PICK e, told :
          /\ e \in pass.queue
          /\ DOMAIN told = DOMAIN pass /\ told.now = pass.now
          /\ \/ pass' = NextInQueue(told)
             \/ pass' = [told EXCEPT !.pc = "mark", !.cur = e]
    BY <1>13, <2>1, PassFillTells
  <2>3. \/ pass'.pc = "idle" /\ DOMAIN pass' = {"pc"}
        \/ pass'.pc \in {"fill", "mark"} /\ pass'.now = pass.now /\ DOMAIN pass' = DOMAIN pass
    <3>1. CASE pass' = NextInQueue(told)
      BY <2>1, <2>2, <3>1, NextOfQueue
    <3>2. CASE pass' = [told EXCEPT !.pc = "mark", !.cur = e]
      BY <2>1, <2>2, <3>2
    <3> QED BY <2>2, <3>1, <3>2
  <2> QED BY <1>12, <2>1, <2>3 DEF PassFields
<1>14. CASE PassMark
  <2>1. pass.pc = "mark" /\ DOMAIN pass = {"pc", "now", "queue", "cur", "m", "left", "took"}
    BY <1>14 DEF PassMark, PassOnTime, PassFields
  <2>2. pass' = NextInQueue(pass)
    BY <1>14 DEF PassMark
  <2>3. \/ pass'.pc = "idle" /\ DOMAIN pass' = {"pc"}
        \/ pass'.pc = "fill" /\ pass'.now = pass.now /\ DOMAIN pass' = DOMAIN pass
    BY <2>1, <2>2, NextOfQueue
  <2> QED BY <1>12, <2>1, <2>3 DEF PassFields
<1> QED BY <1>4, <1>5, <1>6, <1>7, <1>8, <1>9, <1>10, <1>11, <1>13, <1>14, PassLeft DEF Matcher
-----------------------------------------------------------------------------
(* The sizes shown.                                                        *)

\* fits: each leg takes no more lots than the market has left on its side.
LEMMA FitsEveryLeg ==
  ASSUME NEW legs \in Holdings, legs # Empty, NEW left \in Sides
  PROVE  /\ Fits(legs, left) \in Nat
         /\ \A c \in Contracts : legs[c] # 0 =>
              Fits(legs, left)
                <= (IF legs[c] > 0 THEN left[c].buy ELSE left[c].sell) \div Abs(legs[c])
<1> DEFINE lots(c) == (IF legs[c] > 0 THEN left[c].buy ELSE left[c].sell) \div Abs(legs[c])
           S == {lots(c) : c \in {x \in Contracts : legs[x] # 0}}
<1>1. ASSUME NEW c \in Contracts, legs[c] # 0 PROVE lots(c) \in Nat
  <2>1. legs[c] \in Int /\ left[c].buy \in Nat /\ left[c].sell \in Nat
    BY DEF Holdings, Sides
  <2>2. Abs(legs[c]) \in Nat \ {0}
    BY <1>1, <2>1 DEF Abs
  <2> DEFINE d == Abs(legs[c])
             a == IF legs[c] > 0 THEN left[c].buy ELSE left[c].sell
  <2>3. a \in Nat /\ d \in Nat \ {0}
    BY <2>1, <2>2
  <2> HIDE DEF a, d
  <2>4. a \div d \in Nat
    BY <2>3
  <2> QED BY <2>4 DEF a, d
<1>2. PICK c \in Contracts : legs[c] # 0
  BY DEF Holdings, Empty
<1>3. S \in SUBSET Nat /\ S # {}
  <2> HIDE DEF lots
  <2> QED BY <1>1, <1>2
<1>4. Fits(legs, left) = Min(S)
  BY DEF Fits
<1>5. Min(S) \in S /\ \A y \in S : Min(S) <= y
  <2> HIDE DEF S
  <2> QED BY <1>3, LeastOf
<1> HIDE DEF lots
<1> QED BY <1>3, <1>4, <1>5 DEF lots

\* fill: what an order reaches is no more than fits.
LEMMA ReachFits ==
  ASSUME NEW e, book[e.b].orders[e.i].legs \in Holdings, book[e.b].orders[e.i].legs # Empty,
         pass.left \in Sides, e.rest \in Nat, Reach(e) > 0
  PROVE  Reach(e) \in Nat /\ Reach(e) <= Fits(book[e.b].orders[e.i].legs, pass.left)
<1> DEFINE f == Fits(book[e.b].orders[e.i].legs, pass.left)
           S == {f, e.rest}
<1>1. f \in Nat
  BY FitsEveryLeg
<1>2. Reach(e) = 0 \/ Reach(e) = Min(S)
  BY DEF Reach
<1> HIDE DEF f
<1>3. S \in SUBSET Nat /\ S # {} /\ f \in S
  BY <1>1
<1>4. Min(S) \in S /\ \A y \in S : Min(S) <= y
  <2> HIDE DEF S
  <2> QED BY <1>3, LeastOf
<1>5. Min(S) \in Nat /\ Min(S) <= f
  BY <1>1, <1>4
<1> QED BY <1>2, <1>5 DEF f

\* What a fill takes is taken off the side it meets, and was there.
LEMMA TakenIsBooked ==
  ASSUME NEW legs \in Holdings, legs # Empty, NEW left \in Sides, NEW took \in Sides,
         NEW sets \in Nat, sets <= Fits(legs, left)
  PROVE  /\ Taken(left, legs, sets) \in Sides /\ Booked(took, legs, sets) \in Sides
         /\ \A c \in Contracts :
              /\ Booked(took, legs, sets)[c].buy + Taken(left, legs, sets)[c].buy
                   = took[c].buy + left[c].buy
              /\ Booked(took, legs, sets)[c].sell + Taken(left, legs, sets)[c].sell
                   = took[c].sell + left[c].sell
              /\ Taken(left, legs, sets)[c].buy <= left[c].buy
              /\ Taken(left, legs, sets)[c].sell <= left[c].sell
<1>1. ASSUME NEW c \in Contracts
      PROVE  LET lb == Taken(left, legs, sets)[c].buy
                 ls == Taken(left, legs, sets)[c].sell
                 tb == Booked(took, legs, sets)[c].buy
                 ts == Booked(took, legs, sets)[c].sell
             IN /\ lb \in Nat /\ ls \in Nat /\ tb \in Nat /\ ts \in Nat
                /\ tb + lb = took[c].buy + left[c].buy
                /\ ts + ls = took[c].sell + left[c].sell
                /\ lb <= left[c].buy /\ ls <= left[c].sell
  <2> DEFINE l == legs[c]
             b == left[c].buy
             s == left[c].sell
             kb == took[c].buy
             ks == took[c].sell
             lb == Taken(left, legs, sets)[c].buy
             ls == Taken(left, legs, sets)[c].sell
             tb == Booked(took, legs, sets)[c].buy
             ts == Booked(took, legs, sets)[c].sell
             up == Max({0, l})
             dn == Max({0, -l})
  <2>1. l \in Int /\ b \in Nat /\ s \in Nat /\ kb \in Nat /\ ks \in Nat
    BY DEF Holdings, Sides
  <2>2. /\ lb = b - (IF l > 0 THEN l * sets ELSE 0)
        /\ ls = s - (IF l < 0 THEN -l * sets ELSE 0)
        /\ tb = kb + up * sets
        /\ ts = ks + dn * sets
    BY DEF Taken, Booked
  <2>3. l # 0 => Fits(legs, left) <= (IF l > 0 THEN b ELSE s) \div Abs(l)
    BY FitsEveryLeg
  <2>4. Fits(legs, left) \in Nat
    BY FitsEveryLeg
  <2> HIDE DEF l, b, s, kb, ks, lb, ls, tb, ts
  <2>5. up = (IF 0 <= l THEN l ELSE 0) /\ dn = (IF 0 <= -l THEN -l ELSE 0)
    <3>1. -l \in Int /\ 0 \in Int
      BY <2>1
    <3> QED BY <2>1, <3>1, MaxOfTwo
  <2> HIDE DEF up, dn
  <2> SUFFICES /\ lb \in Nat /\ ls \in Nat /\ tb \in Nat /\ ts \in Nat
               /\ tb + lb = kb + b /\ ts + ls = ks + s /\ lb <= b /\ ls <= s
    BY DEF lb, ls, tb, ts, b, s, kb, ks
  <2>6. CASE l > 0
    <3>1. sets <= b \div l
      <4>1. b \div l \in Nat
        BY <2>1, <2>6
      <4> QED BY <2>1, <2>3, <2>4, <2>6, <4>1 DEF Abs
    <3> DEFINE n == l * sets
    <3>2. n <= b /\ n \in Nat
      BY <2>1, <2>6, <3>1, WholeSets
    <3>3. lb = b - n /\ ls = s /\ tb = kb + n /\ ts = ks
      BY <2>1, <2>2, <2>5, <2>6
    <3> HIDE DEF n
    <3> QED BY <2>1, <3>2, <3>3
  <2>7. CASE l < 0
    <3> DEFINE d == -l
               n == d * sets
    <3>1. d \in Nat \ {0} /\ Abs(l) = d
      BY <2>1, <2>7 DEF Abs
    <3>2. sets <= s \div d
      <4> HIDE DEF d
      <4>1. s \div d \in Nat
        BY <2>1, <3>1
      <4> QED BY <2>1, <2>3, <2>4, <2>7, <3>1, <4>1
    <3>3. n <= s /\ n \in Nat
      <4> HIDE DEF d
      <4> QED BY <2>1, <3>1, <3>2, WholeSets
    <3>4. -l * sets = n
      BY <2>1
    <3>5. lb = b /\ ls = s - n /\ tb = kb /\ ts = ks + n
      BY <2>1, <2>2, <2>5, <2>7, <3>4
    <3> HIDE DEF n
    <3> QED BY <2>1, <3>3, <3>5
  <2>8. CASE l = 0
    <3>1. lb = b /\ ls = s /\ tb = kb /\ ts = ks
      BY <2>1, <2>2, <2>5, <2>8
    <3> QED BY <2>1, <3>1
  <2> QED BY <2>1, <2>6, <2>7, <2>8
<1>2. Taken(left, legs, sets) \in Sides
  BY <1>1 DEF Taken, Sides
<1>3. Booked(took, legs, sets) \in Sides
  BY <1>1 DEF Booked, Sides
<1> QED BY <1>1, <1>2, <1>3
\* What is queued stays in its book.
LEMMA QueueStays ==
  ASSUME SizesLeft, BooksGoOn, NEW queue,
         pass.pc \in {"quotes", "fill", "mark"}, queue \subseteq pass.queue
  PROVE  \A e \in queue : e.b \in Books /\ e.i \in DOMAIN book'[e.b].orders /\ e.rest \in Nat
BY DEF SizesLeft, BooksGoOn, Grows

\* once: the sizes left and what was booked add up to the sizes shown at most, whatever
\* is filled in whatever order.
LEMMA SizesStep ==
  ASSUME BooksKept, CallsKnow, PassOnTime, SizesLeft, [Next]_vars
  PROVE  SizesLeft'
<1> DEFINE Fields == {"pc", "now", "queue", "cur", "m", "left", "took"}
<1>1. CASE Crash
  BY <1>1 DEF Crash, SizesLeft, NoPass
<1>2. SUFFICES ASSUME BooksGoOn PROVE SizesLeft'
  BY <1>1, StepGoesOn
<1>3. CASE pass' = pass
  BY <1>2, <1>3, QueueStays DEF SizesLeft
<1>4. ASSUME pass'.pc \notin {"quotes", "fill", "mark"} PROVE SizesLeft'
  BY <1>4 DEF SizesLeft
<1>5. CASE PassBegin \/ PassSettled \/ PassFails
  BY <1>4, <1>5 DEF PassBegin, PassSettled, PassFails, NoPass
<1>6. ASSUME NEW b, PassExpire(b) PROVE SizesLeft'
  BY <1>4, <1>6 DEF PassExpire
<1>7. ASSUME NEW c, PassSettle(c) PROVE SizesLeft'
  <2>1. pass.pc = "settle" /\ pass' = [pass EXCEPT !.due = @ \ {c}]
    BY <1>7 DEF PassSettle
  <2>2. pass'.pc = "settle"
    BY <2>1 DEF PassOnTime, PassFields
  <2> QED BY <1>4, <2>2
<1>8. CASE PassGather
  <2>1. CASE pass' = NoPass
    BY <1>4, <2>1 DEF NoPass
  <2>2. CASE pass' # NoPass
    <3>1. pass' = [pc |-> "quotes", now |-> pass.now, queue |-> Queue] /\ book' = book
      BY <1>8, <2>2 DEF PassGather, Unkept
    <3>2. \A e \in Queue :
            e.b \in Books /\ e.i \in DOMAIN book[e.b].orders /\ e.rest \in Nat
      <4> SUFFICES ASSUME NEW b \in Books, NEW i \in Standing(book[b], None)
                   PROVE  i \in DOMAIN book[b].orders /\ Remaining(book[b].orders[i]) \in Nat
        BY DEF Queue
      <4>1. i \in DOMAIN book[b].orders
        BY DEF Standing
      <4>2. SoundOrder(book[b].orders[i])
        BY <4>1 DEF BooksKept, SoundBook
      <4> QED BY <4>1, <4>2 DEF SoundOrder, Remaining
    <3> QED BY <3>1, <3>2 DEF SizesLeft
  <2> QED BY <2>1, <2>2
<1>9. CASE PassQuotes
  <2>1. PICK m \in Markets :
          pass' = [pc |-> "fill", now |-> pass.now, queue |-> pass.queue, cur |-> NoEntry,
                   m |-> m, left |-> SizesOf(m), took |-> NoBookings]
    BY <1>9 DEF PassQuotes
  <2>2. pass.pc = "quotes"
    BY <1>9 DEF PassQuotes
  <2>3. \A c \in Contracts : m[c].askSize \in Nat /\ m[c].bidSize \in Nat
    BY ArenaAssumption
  <2>4. /\ SizesOf(m) \in Sides /\ NoBookings \in Sides
        /\ \A c \in Contracts :
             /\ NoBookings[c].buy + SizesOf(m)[c].buy <= m[c].askSize
             /\ NoBookings[c].sell + SizesOf(m)[c].sell <= m[c].bidSize
    BY <2>3 DEF SizesOf, NoBookings, Sides
  <2>5. /\ pass'.pc = "fill" /\ pass'.queue = pass.queue /\ pass'.m = m
        /\ pass'.left = SizesOf(m) /\ pass'.took = NoBookings
    BY <2>1
  <2>6. \A e \in pass.queue :
          e.b \in Books /\ e.i \in DOMAIN book'[e.b].orders /\ e.rest \in Nat
    BY <1>2, <2>2, QueueStays
  <2> QED BY <2>4, <2>5, <2>6 DEF SizesLeft, Sides
<1>10. ASSUME NEW told, DOMAIN told = Fields, pass.pc \in {"fill", "mark"},
              told.queue \subseteq pass.queue, told.m = pass.m,
              told.left \in Sides, told.took \in Sides,
              \A c \in Contracts :
                /\ told.took[c].buy  + told.left[c].buy  <= told.m[c].askSize
                /\ told.took[c].sell + told.left[c].sell <= told.m[c].bidSize,
              NEW e,
              pass' = NextInQueue(told) \/ pass' = [told EXCEPT !.pc = "mark", !.cur = e]
       PROVE  SizesLeft'
  <2>1. \/ pass'.pc = "idle"
        \/ /\ pass'.pc \in {"fill", "mark"} /\ pass'.queue = told.queue /\ pass'.m = told.m
           /\ pass'.left = told.left /\ pass'.took = told.took
    <3>1. CASE pass' = NextInQueue(told)
      BY <1>10, <3>1, NextOfQueue
    <3>2. CASE pass' = [told EXCEPT !.pc = "mark", !.cur = e]
      BY <1>10, <3>2
    <3> QED BY <1>10, <3>1, <3>2
  <2>2. \A x \in told.queue :
          x.b \in Books /\ x.i \in DOMAIN book'[x.b].orders /\ x.rest \in Nat
    BY <1>2, <1>10, QueueStays
  <2>3. pass.m \in Markets
    BY <1>10 DEF SizesLeft
  <2> QED BY <1>4, <1>10, <2>1, <2>2, <2>3 DEF SizesLeft, Sides
<1>11. CASE PassMark
  <2>1. pass.pc = "mark" /\ DOMAIN pass = Fields /\ pass' = NextInQueue(pass)
    BY <1>11 DEF PassMark, PassOnTime, PassFields
  <2> QED BY <1>10, <2>1 DEF SizesLeft, Sides
<1>12. CASE PassFill
  <2>1. pass.pc = "fill" /\ DOMAIN pass = Fields
    BY <1>12 DEF PassFill, PassOnTime, PassFields
  <2>2. PICK e, told :
          /\ e \in pass.queue
          /\ DOMAIN told = Fields
          /\ told.now = pass.now /\ told.m = pass.m /\ told.queue = pass.queue \ {e}
          /\ \/ told.left = pass.left /\ told.took = pass.took
             \/ LET legs == book[e.b].orders[e.i].legs
                    sets == Reach(e)
                IN /\ MayFill(book[e.b], e.i, sets) /\ sets > 0
                   /\ told.left = Taken(pass.left, legs, sets)
                   /\ told.took \in {pass.took, Booked(pass.took, legs, sets)}
          /\ \/ pass' = NextInQueue(told)
             \/ pass' = [told EXCEPT !.pc = "mark", !.cur = e]
    BY <1>12, <2>1, PassFillTells
  <2>3. /\ pass.left \in Sides /\ pass.took \in Sides /\ pass.m \in Markets
        /\ \A c \in Contracts :
             /\ pass.took[c].buy  + pass.left[c].buy  <= pass.m[c].askSize
             /\ pass.took[c].sell + pass.left[c].sell <= pass.m[c].bidSize
    BY <2>1 DEF SizesLeft, Sides
  <2>4. CASE told.left = pass.left /\ told.took = pass.took
    BY <1>10, <2>1, <2>2, <2>3, <2>4
  <2>5. CASE ~(told.left = pass.left /\ told.took = pass.took)
    <3> DEFINE legs == book[e.b].orders[e.i].legs
               sets == Reach(e)
               left == Taken(pass.left, legs, sets)
               more == Booked(pass.took, legs, sets)
    <3>1. sets > 0 /\ told.left = left /\ told.took \in {pass.took, more}
      BY <2>2, <2>5
    <3>2. legs \in Holdings /\ legs # Empty /\ e.rest \in Nat
      <4>1. e.b \in Books /\ e.i \in DOMAIN book[e.b].orders /\ e.rest \in Nat
        BY <2>1, <2>2 DEF SizesLeft
      <4> QED BY <4>1 DEF BooksKept, SoundBook, SoundOrder
    <3>3. sets \in Nat /\ sets <= Fits(legs, pass.left)
      BY <2>3, <3>1, <3>2, ReachFits
    <3>4. /\ left \in Sides /\ more \in Sides
          /\ \A c \in Contracts :
               /\ more[c].buy + left[c].buy = pass.took[c].buy + pass.left[c].buy
               /\ more[c].sell + left[c].sell = pass.took[c].sell + pass.left[c].sell
               /\ left[c].buy <= pass.left[c].buy
               /\ left[c].sell <= pass.left[c].sell
      <4> HIDE DEF legs, sets
      <4> QED BY <2>3, <3>2, <3>3, TakenIsBooked
    <3> HIDE DEF left, more, legs, sets
    <3>5. told.took \in Sides
      BY <2>3, <3>1, <3>4
    <3>6. ASSUME NEW c \in Contracts
          PROVE  /\ told.took[c].buy  + left[c].buy  <= pass.m[c].askSize
                 /\ told.took[c].sell + left[c].sell <= pass.m[c].bidSize
      <4>1. /\ left[c].buy \in Nat /\ left[c].sell \in Nat
            /\ pass.left[c].buy \in Nat /\ pass.left[c].sell \in Nat
            /\ pass.took[c].buy \in Nat /\ pass.took[c].sell \in Nat
            /\ pass.m[c].askSize \in Nat /\ pass.m[c].bidSize \in Nat
        BY <2>3, <3>4, ArenaAssumption DEF Sides
      <4>2. CASE told.took = more
        BY <2>3, <3>4, <4>2
      <4>3. CASE told.took = pass.took
        BY <2>3, <3>4, <4>1, <4>3
      <4> QED BY <3>1, <4>2, <4>3
    <3> QED BY <1>10, <2>1, <2>2, <3>1, <3>4, <3>5, <3>6
  <2> QED BY <2>4, <2>5
<1> QED BY <1>3, <1>5, <1>6, <1>7, <1>8, <1>9, <1>11, <1>12, <1>1, PassLeft DEF Matcher
-----------------------------------------------------------------------------
(* Accounts.                                                               *)

\* What legs carry, and what a set of them costs, are whole numbers.
LEMMA WholeMoney ==
  ASSUME NEW legs \in Holdings
  PROVE  /\ \A sets \in Int : ContractsIn(legs, sets) \in Int
         /\ \A m \in Markets : SetPrice(legs, m) \in Int
<1>1. IsFiniteSet(Contracts) /\ \A c \in Contracts : legs[c] \in Int
  BY RiskAssumption DEF Holdings
<1>2. ASSUME NEW sets \in Int PROVE ContractsIn(legs, sets) \in Int
  <2> DEFINE f == [c \in Contracts |-> Abs(legs[c])]
  <2>1. \A c \in Contracts : f[c] \in Int
    BY <1>1 DEF Abs
  <2> HIDE DEF f
  <2>2. SumFunctionOnSet(f, Contracts) \in Int
    BY <1>1, <2>1, SumIsInt
  <2> QED BY <2>2 DEF ContractsIn, f
<1>3. ASSUME NEW m \in Markets PROVE SetPrice(legs, m) \in Int
  <2> DEFINE f == [c \in Contracts |-> legs[c] * Side(m[c], legs[c] > 0)]
             S == {c \in Contracts : legs[c] # 0}
  <2>1. ASSUME NEW c \in S PROVE f[c] \in Int
    <3>1. m[c].ask \in Nat /\ m[c].bid \in Nat
      BY ArenaAssumption
    <3> QED BY <1>1, <3>1 DEF Side
  <2>2. IsFiniteSet(S)
    BY <1>1, FS_Subset
  <2> HIDE DEF f, S
  <2>3. SumFunctionOnSet(f, S) \in Int
    BY <2>1, <2>2, SumIsInt
  <2> QED BY <2>3 DEF SetPrice, f, S
<1> QED BY <1>2, <1>3

\* The numbers the accounts of a book are added up from.
Bought(bk, c) == [i \in DOMAIN bk.orders |-> bk.orders[i].legs[c] * bk.orders[i].filled]
Spent(bk)     == [i \in DOMAIN bk.orders |-> bk.orders[i].paid * Multiplier + bk.orders[i].fees]

\* They are whole numbers, of finitely many orders.
LEMMA WholeNumbers ==
  ASSUME NEW bk, SoundBook(bk), Reckoned(bk)
  PROVE  /\ IsFiniteSet(DOMAIN bk.orders)
         /\ \A i \in DOMAIN bk.orders : /\ Spent(bk)[i] \in Int
                                        /\ \A c \in Contracts : Bought(bk, c)[i] \in Int
<1>1. DOMAIN bk.orders = 1..Len(bk.orders) /\ Len(bk.orders) \in Nat
  BY OrdersOf
<1>2. IsFiniteSet(DOMAIN bk.orders)
  BY <1>1, FS_Interval
<1>3. ASSUME NEW i \in DOMAIN bk.orders
      PROVE  Spent(bk)[i] \in Int /\ \A c \in Contracts : Bought(bk, c)[i] \in Int
  <2>1. /\ bk.orders[i].paid \in Int /\ bk.orders[i].fees \in Int
        /\ bk.orders[i].legs \in Holdings /\ bk.orders[i].filled \in Int
    BY DEF Reckoned, SoundBook, SoundOrder
  <2>2. Spent(bk)[i] \in Int
    BY <2>1, RiskAssumption DEF Spent
  <2>3. \A c \in Contracts : Bought(bk, c)[i] \in Int
    BY <2>1 DEF Bought, Holdings
  <2> QED BY <2>2, <2>3
<1> QED BY <1>2, <1>3

\* A booking by which no contract and no coin changes hands: orders are added, moved,
\* ended and marked, and the prices of shares remembered.
Untouched(bk, after) ==
  /\ DOMAIN after = DOMAIN bk
  /\ <<after.cash, after.held, after.gone, after.money, after.settled, after.shares>>
       = <<bk.cash, bk.held, bk.gone, bk.money, bk.settled, bk.shares>>
  /\ after.mark \in [Roots -> Nat]
  /\ \A i \in DOMAIN bk.orders :
       /\ after.orders[i].filled = bk.orders[i].filled
       /\ after.orders[i].paid = bk.orders[i].paid /\ after.orders[i].fees = bk.orders[i].fees
  /\ \A i \in DOMAIN after.orders \ DOMAIN bk.orders :
       /\ after.orders[i].filled = 0 /\ after.orders[i].paid = 0 /\ after.orders[i].fees = 0

\* A booking of a fill the book has backing for.
Fills(bk, after) ==
  \E i \in DOMAIN bk.orders, sets \in Nat \ {0}, price \in Int :
    /\ MayFill(bk, i, sets) /\ Affordable(bk, i, sets, price)
    /\ after = Filled(bk, i, sets, price)

\* No contract and no coin changes hands: the book adds up as before.
LEMMA UntouchedAddsUp ==
  ASSUME NEW bk, SoundBook(bk), Reckoned(bk), AddsUp(bk),
         NEW after, SoundBook(after), Grows(bk, after), Untouched(bk, after)
  PROVE  Reckoned(after) /\ AddsUp(after)
<1> DEFINE S == DOMAIN bk.orders
           T == DOMAIN after.orders
<1>1. \A i \in T : after.orders[i].paid \in Int /\ after.orders[i].fees \in Int
  <2> SUFFICES ASSUME NEW i \in T
               PROVE  after.orders[i].paid \in Int /\ after.orders[i].fees \in Int
    OBVIOUS
  <2>1. CASE i \in S
    BY <2>1 DEF Untouched, Reckoned
  <2>2. CASE i \notin S
    BY <2>2 DEF Untouched
  <2> QED BY <2>1, <2>2
<1>2. Reckoned(after)
  BY <1>1 DEF Reckoned, Untouched
<1>3. S \subseteq T /\ \A i \in S : after.orders[i].legs = bk.orders[i].legs
  BY DEF Grows, Ages
<1>4. /\ IsFiniteSet(S) /\ IsFiniteSet(T)
      /\ \A i \in T : Spent(after)[i] \in Int /\ \A c \in Contracts : Bought(after, c)[i] \in Int
  BY <1>2, WholeNumbers
<1>5. ASSUME NEW c \in Contracts
      PROVE  SumFunctionOnSet(Bought(after, c), T) = SumFunctionOnSet(Bought(bk, c), S)
  <2> DEFINE f == Bought(after, c)
             g == Bought(bk, c)
  <2>1. \A i \in S : f[i] = g[i]
    BY <1>3 DEF Bought, Untouched
  <2>2. ASSUME NEW i \in T \ S PROVE f[i] = 0
    <3>1. after.orders[i].legs \in Holdings /\ after.orders[i].filled = 0
      BY DEF Untouched, SoundBook, SoundOrder
    <3> QED BY <3>1 DEF Bought, Holdings
  <2>3. \A i \in T : f[i] \in Int
    BY <1>4
  <2> HIDE DEF f, g, S, T
  <2>4. SumFunctionOnSet(f, T) = SumFunctionOnSet(f, S)
    BY <1>3, <1>4, <2>2, <2>3, SumPadded
  <2>5. SumFunctionOnSet(f, S) = SumFunctionOnSet(g, S)
    BY <1>4, <2>1, SumOfSame
  <2> QED BY <2>4, <2>5 DEF f, g
<1>6. SumFunctionOnSet(Spent(after), T) = SumFunctionOnSet(Spent(bk), S)
  <2> DEFINE f == Spent(after)
             g == Spent(bk)
  <2>1. \A i \in S : f[i] = g[i]
    BY <1>3 DEF Spent, Untouched
  <2>2. ASSUME NEW i \in T \ S PROVE f[i] = 0
    <3>1. after.orders[i].paid = 0 /\ after.orders[i].fees = 0
      BY DEF Untouched
    <3> QED BY <3>1, RiskAssumption DEF Spent
  <2>3. \A i \in T : f[i] \in Int
    BY <1>4
  <2> HIDE DEF f, g, S, T
  <2>4. SumFunctionOnSet(f, T) = SumFunctionOnSet(f, S)
    BY <1>3, <1>4, <2>2, <2>3, SumPadded
  <2>5. SumFunctionOnSet(f, S) = SumFunctionOnSet(g, S)
    BY <1>4, <2>1, SumOfSame
  <2> QED BY <2>4, <2>5 DEF f, g
<1>7. AddsUp(after)
  <2>1. /\ after.cash = bk.cash /\ after.money = bk.money
        /\ after.held = bk.held /\ after.gone = bk.gone
    BY DEF Untouched
  <2>2. /\ \A c \in Contracts : bk.held[c] + bk.gone[c] = SumFunctionOnSet(Bought(bk, c), S)
        /\ bk.cash = Start + bk.money - SumFunctionOnSet(Spent(bk), S)
    BY DEF AddsUp, Bought, Spent
  <2>3. /\ \A c \in Contracts : after.held[c] + after.gone[c] = SumFunctionOnSet(Bought(after, c), T)
        /\ after.cash = Start + after.money - SumFunctionOnSet(Spent(after), T)
    BY <1>5, <1>6, <2>1, <2>2
  <2> QED BY <2>3 DEF AddsUp, Bought, Spent
<1> QED BY <1>2, <1>7

\* Fill: the position grows by what the order fills, and the cash shrinks by what it pays.
LEMMA FilledAddsUp ==
  ASSUME NEW bk, SoundBook(bk), Reckoned(bk), AddsUp(bk),
         NEW j \in DOMAIN bk.orders, NEW sets \in Nat, NEW price \in Int
  PROVE  Reckoned(Filled(bk, j, sets, price)) /\ AddsUp(Filled(bk, j, sets, price))
<1> DEFINE after == Filled(bk, j, sets, price)
           S == DOMAIN bk.orders
           o == bk.orders[j]
           fee == ContractsIn(o.legs, sets) * PerContract
<1>1. o.legs \in Holdings /\ o.filled \in Int /\ SoundOrder(o)
  BY DEF SoundBook, SoundOrder
<1>2. fee \in Int
  <2>1. ContractsIn(o.legs, sets) \in Int
    BY <1>1, WholeMoney
  <2> QED BY <2>1, ValuationAssumption
<1>3. /\ DOMAIN after = DOMAIN bk
      /\ after.held = Projected(bk.held, o.legs, sets)
      /\ after.cash = bk.cash - price * sets * Multiplier - fee
      /\ <<after.gone, after.money, after.settled, after.shares, after.mark>>
           = <<bk.gone, bk.money, bk.settled, bk.shares, bk.mark>>
      /\ DOMAIN after.orders = S
      /\ \A i \in S \ {j} : after.orders[i] = bk.orders[i]
  BY DEF Filled, CashAfter, Reckoned, NewBook
<1>4. /\ after.orders[j].legs = o.legs /\ after.orders[j].filled = o.filled + sets
      /\ after.orders[j].paid = o.paid + price * sets /\ after.orders[j].fees = o.fees + fee
  <2>1. DOMAIN o = OrderFields
    BY <1>1 DEF SoundOrder
  <2>2. after.orders[j] = [o EXCEPT !.paid = @ + price * sets, !.fees = @ + fee,
           !.filled = @ + sets,
           !.status = IF o.filled + sets >= o.qty THEN "filled" ELSE "partially_filled"]
    BY DEF Filled, Reckoned, NewBook
  <2> HIDE DEF fee, after, o
  <2> QED BY <2>1, <2>2 DEF OrderFields
<1>5. o.paid \in Int /\ o.fees \in Int
  BY DEF Reckoned
<1> HIDE DEF after, fee
<1>6. Reckoned(after)
  <2>1. after.held \in Holdings
    BY <1>1, <1>3 DEF Projected, Holdings, Reckoned
  <2>2. after.cash \in Int
    BY <1>2, <1>3, RiskAssumption DEF Reckoned
  <2>3. \A i \in S : after.orders[i].paid \in Int /\ after.orders[i].fees \in Int
    BY <1>2, <1>3, <1>4, <1>5 DEF Reckoned
  <2> QED BY <1>3, <2>1, <2>2, <2>3 DEF Reckoned
<1>7. ASSUME NEW c \in Contracts
      PROVE  SumFunctionOnSet(Bought(after, c), S)
               = SumFunctionOnSet(Bought(bk, c), S) + o.legs[c] * sets
  <2> DEFINE f == Bought(bk, c)
             g == Bought(after, c)
  <2>1. /\ o.legs[c] \in Int /\ o.filled \in Int
    BY <1>1 DEF Holdings
  <2>2. g[j] = o.legs[c] * (o.filled + sets) /\ f[j] = o.legs[c] * o.filled
    BY <1>3, <1>4 DEF Bought
  <2>3. g[j] = f[j] + o.legs[c] * sets /\ o.legs[c] * sets \in Int
    BY <2>1, <2>2
  <2>4. \A i \in S \ {j} : g[i] = f[i]
    BY <1>3 DEF Bought
  <2>5. IsFiniteSet(S) /\ \A i \in S : f[i] \in Int
    BY WholeNumbers
  <2> HIDE DEF f, g
  <2> QED BY <2>3, <2>4, <2>5, SumChanged DEF f, g
<1>8. SumFunctionOnSet(Spent(after), S)
        = SumFunctionOnSet(Spent(bk), S) + (price * sets * Multiplier + fee)
  <2> DEFINE f == Spent(bk)
             g == Spent(after)
             d == price * sets * Multiplier + fee
  <2>1. g[j] = (o.paid + price * sets) * Multiplier + (o.fees + fee)
        /\ f[j] = o.paid * Multiplier + o.fees
    BY <1>3, <1>4 DEF Spent
  <2>2. g[j] = f[j] + d /\ d \in Int
    BY <1>2, <1>5, <2>1, RiskAssumption
  <2>3. \A i \in S \ {j} : g[i] = f[i]
    BY <1>3 DEF Spent
  <2>4. IsFiniteSet(S) /\ \A i \in S : f[i] \in Int
    BY WholeNumbers
  <2> HIDE DEF f, g, d
  <2> QED BY <2>2, <2>3, <2>4, SumChanged DEF f, g, d
<1>9. /\ \A c \in Contracts : SumFunctionOnSet(Bought(bk, c), S) \in Int
      /\ SumFunctionOnSet(Spent(bk), S) \in Int
  <2> HIDE DEF S
  <2> QED BY WholeNumbers, SumIsInt DEF S
<1>10. /\ \A c \in Contracts : bk.held[c] + bk.gone[c] = SumFunctionOnSet(Bought(bk, c), S)
       /\ bk.cash = Start + bk.money - SumFunctionOnSet(Spent(bk), S)
  BY DEF AddsUp, Bought, Spent
<1>11. ASSUME NEW c \in Contracts
       PROVE  after.held[c] + after.gone[c] = SumFunctionOnSet(Bought(after, c), S)
  <2>1. after.held[c] = bk.held[c] + o.legs[c] * sets /\ after.gone[c] = bk.gone[c]
    BY <1>3 DEF Projected
  <2>2. bk.held[c] \in Int /\ bk.gone[c] \in Int /\ o.legs[c] * sets \in Int
    BY <1>1 DEF Reckoned, Holdings
  <2> QED BY <1>7, <1>9, <1>10, <2>1, <2>2
<1>12. after.cash = Start + after.money - SumFunctionOnSet(Spent(after), S)
  <2>1. bk.cash \in Int /\ bk.money \in Int /\ Start \in Int /\ price * sets * Multiplier \in Int
    BY BookAssumption, RiskAssumption DEF Reckoned
  <2> QED BY <1>2, <1>3, <1>8, <1>9, <1>10, <2>1
<1> QED BY <1>3, <1>6, <1>11, <1>12 DEF AddsUp, Bought, Spent, after

\* Settle: what is taken off a position is noted as gone, and the money of it likewise.
LEMMA SettledAddsUp ==
  ASSUME NEW bk, SoundBook(bk), Reckoned(bk), AddsUp(bk),
         NEW c \in Contracts, NEW under \in Nat
  PROVE  Reckoned(Settled(bk, c, under)) /\ AddsUp(Settled(bk, c, under))
<1> DEFINE after == Settled(bk, c, under)
           qty   == bk.held[c]
           root  == Term[c].root
           sign  == IF Term[c].call THEN 1 ELSE -1
           in    == Intrinsic(c, under) > 0
           money == IF in THEN -sign * Term[c].strike * qty * Multiplier ELSE 0
           turned == IF in THEN sign * qty * Multiplier ELSE 0
<1>1. qty \in Int /\ root \in Roots /\ Multiplier \in Int /\ Term[c].strike \in Int
  BY RiskAssumption DEF Reckoned, Holdings
<1>2. money \in Int /\ turned \in Int
  BY <1>1
<1>3. /\ DOMAIN after = DOMAIN bk /\ after.orders = bk.orders
      /\ after.held = [bk.held EXCEPT ![c] = 0] /\ after.gone = [bk.gone EXCEPT ![c] = @ + qty]
      /\ after.settled = bk.settled \cup {c}
      /\ after.cash = bk.cash + money /\ after.money = bk.money + money
      /\ after.shares = [bk.shares EXCEPT ![root] = @ + turned]
      /\ after.mark = [bk.mark EXCEPT ![root] = IF bk.shares[root] + turned = 0 THEN 0
                                                ELSE IF in THEN under ELSE @]
  BY DEF Settled, Reckoned, NewBook
<1> HIDE DEF after, money, turned, in
<1>4. Reckoned(after)
  BY <1>1, <1>2, <1>3 DEF Reckoned, Holdings
<1>5. /\ \A x \in Contracts : after.held[x] + after.gone[x] = bk.held[x] + bk.gone[x]
      /\ after.cash - after.money = bk.cash - bk.money
  BY <1>1, <1>2, <1>3 DEF Reckoned, Holdings
<1>6. AddsUp(after)
  <2> DEFINE total == SumFunctionOnSet(Spent(bk), DOMAIN bk.orders)
  <2>1. /\ \A x \in Contracts :
             bk.held[x] + bk.gone[x] = SumFunctionOnSet(Bought(bk, x), DOMAIN bk.orders)
        /\ bk.cash = Start + bk.money - total
    BY DEF AddsUp, Bought, Spent
  <2>2. Spent(after) = Spent(bk) /\ \A x \in Contracts : Bought(after, x) = Bought(bk, x)
    BY <1>3 DEF Bought, Spent
  <2>3. after.cash = Start + after.money - total
    <3>1. bk.cash \in Int /\ bk.money \in Int /\ Start \in Int
      BY BookAssumption DEF Reckoned
    <3>2. Start + bk.money - total = bk.cash
      BY <2>1
    <3>3. total \in Int
      <4>1. IsFiniteSet(DOMAIN bk.orders)
            /\ \A i \in DOMAIN bk.orders : Spent(bk)[i] \in Int
        BY WholeNumbers
      <4> QED BY <4>1, SumIsInt
    <3> HIDE DEF total
    <3> QED BY <1>2, <1>3, <2>1, <3>1, <3>3
  <2>4. after.cash = Start + after.money - SumFunctionOnSet(Spent(after), DOMAIN after.orders)
    BY <1>3, <2>2, <2>3
  <2>5. \A x \in Contracts :
          after.held[x] + after.gone[x] = SumFunctionOnSet(Bought(after, x), DOMAIN after.orders)
    BY <1>3, <1>5, <2>1, <2>2
  <2> QED BY <2>4, <2>5 DEF AddsUp, Bought, Spent
<1> QED BY <1>4, <1>6 DEF after

\* A book left alone is untouched, and so is one untouched twice.
LEMMA UntouchedOn ==
  /\ \A bk : Reckoned(bk) => Untouched(bk, bk)
  /\ \A bk, cl, dk :
       Grows(bk, cl) /\ Untouched(bk, cl) /\ Untouched(cl, dk) => Untouched(bk, dk)
<1>1. \A bk : Reckoned(bk) => Untouched(bk, bk)
  BY DEF Reckoned, Untouched
<1>2. ASSUME NEW bk, NEW cl, NEW dk, Grows(bk, cl), Untouched(bk, cl), Untouched(cl, dk)
      PROVE  Untouched(bk, dk)
  BY <1>2 DEF Untouched, Grows
<1> QED BY <1>1, <1>2

\* What happens to the orders alone, none of which is filled by it.
LEMMA OrdersAlone ==
  ASSUME NEW bk, Reckoned(bk), NEW after, NEW q, after = [bk EXCEPT !.orders = q],
         \A i \in DOMAIN bk.orders :
           /\ q[i].filled = bk.orders[i].filled
           /\ q[i].paid = bk.orders[i].paid /\ q[i].fees = bk.orders[i].fees,
         \A i \in DOMAIN q \ DOMAIN bk.orders :
           q[i].filled = 0 /\ q[i].paid = 0 /\ q[i].fees = 0
  PROVE  Untouched(bk, after)
BY DEF Reckoned, NewBook, Untouched

\* Cancel, and Replace of the order it ends.
LEMMA EndedTouchesNone ==
  ASSUME NEW bk, SoundBook(bk), Reckoned(bk), NEW i \in DOMAIN bk.orders, NEW how
  PROVE  Untouched(bk, Ended(bk, i, how))
<1> DEFINE q == [bk.orders EXCEPT ![i] = [@ EXCEPT !.status = how]]
<1>1. Ended(bk, i, how) = [bk EXCEPT !.orders = q]
  BY DEF Ended
<1>2. DOMAIN q = DOMAIN bk.orders
  OBVIOUS
<1>3. \A j \in DOMAIN bk.orders :
        /\ q[j].filled = bk.orders[j].filled
        /\ q[j].paid = bk.orders[j].paid /\ q[j].fees = bk.orders[j].fees
  BY DEF SoundBook, SoundOrder, OrderFields
<1> HIDE DEF q
<1> QED BY <1>1, <1>2, <1>3, OrdersAlone

\* MarkStand.
LEMMA StandTouchesNone ==
  ASSUME NEW bk, SoundBook(bk), Reckoned(bk), NEW i
  PROVE  Untouched(bk, [bk EXCEPT !.orders[i].stand = TRUE])
<1> DEFINE q == [bk.orders EXCEPT ![i] = [@ EXCEPT !.stand = TRUE]]
           after == [bk EXCEPT !.orders[i].stand = TRUE]
<1>1. after = [bk EXCEPT !.orders = q]
  OBVIOUS
<1>2. DOMAIN q = DOMAIN bk.orders
  OBVIOUS
<1>3. \A j \in DOMAIN bk.orders :
        /\ q[j].filled = bk.orders[j].filled
        /\ q[j].paid = bk.orders[j].paid /\ q[j].fees = bk.orders[j].fees
  BY DEF SoundBook, SoundOrder, OrderFields
<1> HIDE DEF q, after
<1>4. Untouched(bk, after)
  BY <1>1, <1>2, <1>3, OrdersAlone
<1> QED BY <1>4 DEF after

\* ExpireDay.
LEMMA ExpiryTouchesNone ==
  ASSUME NEW bk, SoundBook(bk), Reckoned(bk), NEW t
  PROVE  Untouched(bk, ExpireDay(bk, t))
<1> DEFINE q == [i \in DOMAIN bk.orders |->
                   IF i \in Outlived(bk, t) THEN [bk.orders[i] EXCEPT !.status = "expired"]
                                            ELSE bk.orders[i]]
<1>1. ExpireDay(bk, t) = [bk EXCEPT !.orders = q]
  BY DEF ExpireDay
<1>2. DOMAIN q = DOMAIN bk.orders
  OBVIOUS
<1>3. \A j \in DOMAIN bk.orders :
        /\ q[j].filled = bk.orders[j].filled
        /\ q[j].paid = bk.orders[j].paid /\ q[j].fees = bk.orders[j].fees
  BY DEF SoundBook, SoundOrder, OrderFields
<1> HIDE DEF q
<1> QED BY <1>1, <1>2, <1>3, OrdersAlone

\* Submit.
LEMMA SubmissionTouchesNone ==
  ASSUME NEW bk, SoundBook(bk), Reckoned(bk),
         NEW o, SoundOrder(o), o.filled = 0, o.paid = 0, o.fees = 0
  PROVE  Untouched(bk, Submitted(bk, o))
<1> DEFINE n == Len(bk.orders)
           after == Submitted(bk, o)
           q == after.orders
<1>1. /\ Len(q) = n + 1 /\ q[n + 1] = o /\ \A i \in 1..n : q[i] = bk.orders[i]
      /\ DOMAIN q = 1..Len(q) /\ DOMAIN bk.orders = 1..n /\ n \in Nat
  BY SubmittedGoesOn, OrdersOf
<1>2. after = [bk EXCEPT !.orders = q]
  BY DEF Submitted, Reckoned, NewBook
<1>3. \A i \in DOMAIN q \ DOMAIN bk.orders : i = n + 1
  BY <1>1
<1> HIDE DEF after, n, q
<1>4. Untouched(bk, after)
  BY <1>1, <1>2, <1>3, OrdersAlone
<1> QED BY <1>4 DEF after

\* Replace.
LEMMA MoveTouchesNone ==
  ASSUME NEW bk, SoundBook(bk), Reckoned(bk), NEW i \in DOMAIN bk.orders, IsOpen(bk.orders[i]),
         NEW o, SoundOrder(o), o.filled = 0, o.paid = 0, o.fees = 0
  PROVE  Untouched(bk, Moved(bk, i, o))
<1> DEFINE mid == Ended(bk, i, "replaced")
<1>1. "replaced" \in Statuses \ Open
  BY DEF Statuses, Open
<1>2. SoundBook(mid) /\ Grows(bk, mid) /\ Len(mid.orders) = Len(bk.orders)
  BY <1>1, EndedGoesOn
<1>3. Untouched(bk, mid)
  BY EndedTouchesNone
<1>4. DOMAIN mid.orders = DOMAIN bk.orders
  BY <1>2, OrdersOf
<1>5. Reckoned(mid)
  BY <1>3, <1>4 DEF Reckoned, Untouched
<1> HIDE DEF mid
<1>6. Untouched(mid, Submitted(mid, o))
  BY <1>2, <1>5, SubmissionTouchesNone
<1> QED BY <1>2, <1>3, <1>6, UntouchedOn DEF Moved, mid

\* A price remembered.
LEMMA MarkTouchesNone ==
  ASSUME NEW bk, Reckoned(bk), NEW price \in Nat
  PROVE  Untouched(bk, Marked(bk, price))
BY DEF Untouched, Marked, Reckoned, NewBook

\* Contracts and money change hands where an order fills and where a contract is settled,
\* and nowhere else.
Quiet ==
  \A b \in Books :
    Untouched(book[b], book'[b]) \/ (pass.pc = "fill" /\ Fills(book[b], book'[b]))

LEMMA KeepTouches ==
  ASSUME BooksKept, \A b \in Books : Reckoned(book[b]), NEW b, NEW after, Keep(b, after),
         b \in Books => \/ Untouched(book[b], after)
                        \/ pass.pc = "fill" /\ Fills(book[b], after)
  PROVE  Quiet
<1>1. DOMAIN book = Books /\ book' = [book EXCEPT ![b] = after]
  BY DEF BooksKept, Keep, Written, WriteFails
<1> QED BY <1>1, UntouchedOn DEF Quiet

LEMMA StepTouches ==
  ASSUME BooksKept, CallsKnow, PassOnTime, SizesLeft, \A b \in Books : Reckoned(book[b]),
         [Next]_vars
  PROVE  Crash \/ (\E c \in Contracts : PassSettle(c)) \/ Quiet
<1>0. ASSUME UNCHANGED book PROVE Quiet
  BY <1>0, UntouchedOn DEF Quiet
<1>1. CASE UNCHANGED vars
  BY <1>0, <1>1 DEF vars
<1>2. ASSUME NEW k \in Callers, NEW b \in Books, NEW kind \in Kinds, PlaceBegin(k, b, kind)
      PROVE  Quiet
  BY <1>0, <1>2 DEF PlaceBegin
<1>3. ASSUME NEW k \in Callers, NEW b \in Books, NEW i, NEW limit, NEW qty, NEW name,
             MoveBegin(k, b, i, limit, qty, name)
      PROVE  Quiet
  BY <1>0, <1>3 DEF MoveBegin
<1>4. ASSUME NEW k \in Callers, PlaceSubmit(k) PROVE Quiet
  <2> DEFINE call == calls[k]
             bk == book[call.b]
             s == Shape[call.kind]
  <2>1. calls[k].op = "place" /\ calls[k] # NoCall
    BY <1>4 DEF PlaceSubmit, NoCall
  <2>2. PICK m \in Markets :
          LET o == NewOrder(call, IF s.market THEN SetPrice(s.legs, m) ELSE s.limit)
          IN  Keep(call.b, Submitted(bk, o))
    BY <1>4 DEF PlaceSubmit
  <2> DEFINE o == NewOrder(call, IF s.market THEN SetPrice(s.legs, m) ELSE s.limit)
  <2>3. SoundOrder(o) /\ o.filled = 0 /\ o.paid = 0 /\ o.fees = 0
    BY <2>1, NewOrderIsSound DEF NewOrder
  <2>4. call.b \in Books /\ SoundBook(bk) /\ Reckoned(bk)
    BY <2>1 DEF CallsKnow, BooksKept
  <2> HIDE DEF o, call
  <2> QED BY <2>2, <2>3, <2>4, SubmissionTouchesNone, KeepTouches DEF o
<1>5. ASSUME NEW k \in Callers, MoveSubmit(k) PROVE Quiet
  <2> DEFINE call == calls[k]
             bk == book[call.b]
             o == Successor(bk, call.i, call.limit, call.name, call.qty, call.at, call.seen)
  <2>1. calls[k].op = "move" /\ calls[k] # NoCall
    BY <1>5 DEF MoveSubmit, NoCall
  <2>2. MayMove(bk.orders[call.i], call.qty) /\ Keep(call.b, Moved(bk, call.i, o))
    BY <1>5 DEF MoveSubmit
  <2>3. call.b \in Books /\ call.i \in DOMAIN bk.orders /\ call.qty \in Int
    <3>1. call.qty \in Sizes
      BY <2>1 DEF CallsKnow, Knows
    <3>2. Sizes \subseteq Nat
      BY ArenaAssumption
    <3>3. call.b \in Books /\ call.i \in DOMAIN bk.orders
      BY <2>1 DEF CallsKnow, Knows
    <3>4. \A s \in Sizes : s \in Int
      BY <3>2
    <3> QED BY <3>1, <3>3, <3>4
  <2>4. SoundBook(bk) /\ Reckoned(bk) /\ IsOpen(bk.orders[call.i])
    BY <2>2, <2>3 DEF BooksKept, MayMove
  <2>5. SoundOrder(o)
    BY <2>2, <2>3, <2>4, SuccessorIsSound
  <2>6. o.filled = 0 /\ o.paid = 0 /\ o.fees = 0
    BY DEF Successor
  <2> HIDE DEF o, call
  <2> QED BY <2>2, <2>3, <2>4, <2>5, <2>6, MoveTouchesNone, KeepTouches
<1>6. ASSUME NEW k \in Callers, CallRefused(k) PROVE Quiet
  BY <1>0, <1>6 DEF CallRefused
<1>7. ASSUME NEW b \in Books, NEW i, Cancel(b, i) PROVE Quiet
  <2>1. i \in DOMAIN book[b].orders /\ Keep(b, Ended(book[b], i, "canceled"))
    BY <1>7 DEF Cancel
  <2> QED BY <2>1, EndedTouchesNone, KeepTouches DEF BooksKept
<1>8. ASSUME NEW b \in Books, NEW price \in Prices, Remember(b, price) PROVE Quiet
  <2>1. price \in Nat /\ Keep(b, Marked(book[b], price))
    BY <1>8, ArenaAssumption DEF Remember
  <2> QED BY <2>1, MarkTouchesNone, KeepTouches
<1>9. ASSUME PassBegin PROVE Quiet
  BY <1>0, <1>9 DEF PassBegin
<1>10. ASSUME NEW b \in Books, PassExpire(b) PROVE Quiet
  <2>1. UNCHANGED book \/ Keep(b, ExpireDay(book[b], pass.now))
    BY <1>10 DEF PassExpire, Unkept
  <2> QED BY <1>0, <2>1, ExpiryTouchesNone, KeepTouches DEF BooksKept
<1>12. ASSUME PassSettled PROVE Quiet
  BY <1>0, <1>12 DEF PassSettled
<1>13. ASSUME PassGather PROVE Quiet
  BY <1>0, <1>13 DEF PassGather, Unkept, Noted
<1>14. ASSUME PassQuotes PROVE Quiet
  BY <1>0, <1>14 DEF PassQuotes
<1>15. ASSUME PassFails PROVE Quiet
  BY <1>0, <1>15 DEF PassFails
<1>16. ASSUME PassFill PROVE Quiet
  <2>1. PICK e \in pass.queue :
          LET bk == book[e.b]
              sets == Reach(e)
              price == SetPrice(bk.orders[e.i].legs, pass.m)
              after == IF Affordable(bk, e.i, sets, price) THEN Filled(bk, e.i, sets, price)
                                                           ELSE bk
          IN \/ Noted({b \in {e.b} : sets = 0 /\ IsOpen(bk.orders[e.i])})
             \/ MayFill(bk, e.i, sets) /\ Keep(e.b, after)
    BY <1>16, PassFillBooks
  <2> DEFINE bk == book[e.b]
             sets == Reach(e)
             price == SetPrice(bk.orders[e.i].legs, pass.m)
             backed == Affordable(bk, e.i, sets, price)
             after == IF backed THEN Filled(bk, e.i, sets, price) ELSE bk
  <2>2. CASE MayFill(bk, e.i, sets) /\ Keep(e.b, after)
    <3>1. pass.pc = "fill" /\ e.b \in Books /\ e.i \in DOMAIN bk.orders /\ pass.m \in Markets
      BY <1>16 DEF SizesLeft, PassFill
    <3>2. SoundBook(bk) /\ Reckoned(bk) /\ bk.orders[e.i].legs \in Holdings
      BY <3>1 DEF BooksKept, SoundBook, SoundOrder
    <3>3. price \in Int
      BY <3>1, <3>2, WholeMoney
    <3>4. sets \in Nat \ {0}
      <4>1. SoundOrder(bk.orders[e.i])
        BY <3>1, <3>2 DEF SoundBook
      <4> HIDE DEF sets, bk
      <4> QED BY <2>2, <4>1 DEF MayFill, Remaining, SoundOrder
    <3> HIDE DEF sets, price, bk
    <3>5. Untouched(bk, after) \/ Fills(bk, after)
      BY <2>2, <3>1, <3>2, <3>3, <3>4, UntouchedOn DEF Fills
    <3> HIDE DEF after
    <3> QED BY <2>2, <3>1, <3>5, KeepTouches DEF bk
  <2>3. CASE Noted({b \in {e.b} : sets = 0 /\ IsOpen(bk.orders[e.i])})
    BY <1>0, <2>3 DEF Noted
  <2> QED BY <2>1, <2>2, <2>3
<1>17. ASSUME PassMark PROVE Quiet
  <2> DEFINE e == pass.cur
             bk == book[e.b]
             after == [bk EXCEPT !.orders[e.i].stand = TRUE]
  <2>1. UNCHANGED book \/ Keep(e.b, after)
    BY <1>17 DEF PassMark, Unkept
  <2>2. e.b \in Books => Untouched(bk, after)
    BY StandTouchesNone DEF BooksKept
  <2> HIDE DEF after
  <2> QED BY <1>0, <2>1, <2>2, KeepTouches
<1>18. ASSUME Advance PROVE Quiet
  BY <1>0, <1>18 DEF Advance
<1>19. ASSUME Participants PROVE Quiet
  BY <1>19, <1>2, <1>3, <1>4, <1>5, <1>6, <1>7, <1>8 DEF Participants
<1>20. ASSUME Matcher PROVE Quiet \/ \E c \in Contracts : PassSettle(c)
  BY <1>20, <1>9, <1>10, <1>12, <1>13, <1>14, <1>15, <1>16, <1>17 DEF Matcher
<1> HIDE DEF Quiet
<1> QED BY <1>1, <1>18, <1>19, <1>20 DEF Next

\* once: what is settled was looked up in a book there is, at prices of no less than zero.
LEMMA SettlingStep ==
  ASSUME PassOnTime, Settling, [Next]_vars
  PROVE  Settling'
<1>1. ASSUME pass'.pc # "settle" \/ pass' = pass PROVE Settling'
  BY <1>1 DEF Settling
<1>2. ASSUME NEW b \in Books, PassExpire(b) PROVE Settling'
  <2>1. PICK under \in [Roots -> Unders] :
          LET due == Due(book[b], pass.now)
          IN  pass' = [pc |-> "settle", now |-> pass.now, open |-> pass.open,
                       todo |-> pass.todo \ {b}, b |-> b,
                       due |-> {c \in due : under[Term[c].root] > 0},
                       under |-> [r \in Roots |->
                         IF \E c \in due : Term[c].root = r THEN under[r] ELSE 0]]
    BY <1>2 DEF PassExpire
  <2>2. pass'.b = b /\ pass'.due \subseteq Contracts
    BY <2>1 DEF Due, Held
  <2>3. Unders \subseteq Nat
    BY ArenaAssumption
  <2>4. \A r \in Roots : under[r] \in Nat
    BY <2>3
  <2>5. pass'.under \in [Roots -> Unders \cup {0}]
    BY <2>1, <2>4
  <2> QED BY <2>2, <2>5 DEF Settling
<1>3. ASSUME NEW c, PassSettle(c) PROVE Settling'
  <2>1. pass.pc = "settle" /\ pass' = [pass EXCEPT !.due = @ \ {c}] /\ DOMAIN pass = PassFields
    BY <1>3 DEF PassSettle, PassOnTime
  <2>2. pass'.b = pass.b /\ pass'.due \subseteq pass.due /\ pass'.under = pass.under
    BY <2>1 DEF PassFields
  <2> QED BY <2>1, <2>2 DEF Settling
<1>4. CASE PassFill
  <2>1. pass.pc = "fill" /\ DOMAIN pass = {"pc", "now", "queue", "cur", "m", "left", "took"}
    BY <1>4 DEF PassFill, PassOnTime, PassFields
  <2>2. PICK e, told :
          /\ DOMAIN told = DOMAIN pass
          /\ \/ pass' = NextInQueue(told)
             \/ pass' = [told EXCEPT !.pc = "mark", !.cur = e]
    BY <1>4, <2>1, PassFillTells
  <2>3. CASE pass' = NextInQueue(told)
    <3>1. pass'.pc \in {"idle", "fill"}
      BY <2>1, <2>2, <2>3, NextOfQueue
    <3> QED BY <1>1, <3>1
  <2>4. CASE pass' = [told EXCEPT !.pc = "mark", !.cur = e]
    <3>1. pass'.pc = "mark"
      BY <2>1, <2>2, <2>4
    <3> QED BY <1>1, <3>1
  <2> QED BY <2>2, <2>3, <2>4
<1>5. CASE PassMark
  <2>1. pass.pc = "mark" /\ DOMAIN pass = {"pc", "now", "queue", "cur", "m", "left", "took"}
    BY <1>5 DEF PassMark, PassOnTime, PassFields
  <2>2. pass' = NextInQueue(pass)
    BY <1>5 DEF PassMark
  <2> QED BY <1>1, <2>1, <2>2 DEF NextInQueue, NoPass
<1>6. CASE PassBegin \/ PassSettled \/ PassGather \/ PassQuotes \/ PassFails \/ Crash
  BY <1>1, <1>6 DEF PassBegin, PassSettled, PassGather, PassQuotes, PassFails, Crash, NoPass
<1> QED BY <1>1, <1>2, <1>3, <1>4, <1>5, <1>6, PassLeft DEF Matcher
-----------------------------------------------------------------------------
(* The loss of a book.                                                     *)

\* What a contract is worth at expiry.
LEMMA IntrinsicIs ==
  ASSUME NEW c \in Contracts, NEW s \in Nat
  PROVE  Intrinsic(c, s) = IF Term[c].call
                           THEN IF s <= Term[c].strike THEN 0 ELSE s - Term[c].strike
                           ELSE IF Term[c].strike <= s THEN 0 ELSE Term[c].strike - s
<1>1. Term[c].strike \in Int /\ s - Term[c].strike \in Int /\ Term[c].strike - s \in Int
  BY RiskAssumption
<1> QED BY <1>1, MaxOfTwo DEF Intrinsic

\* Groups are finitely many, and each is of finitely many contracts and strikes.
LEMMA GroupsAreFinite ==
  ASSUME NEW held
  PROVE  /\ IsFiniteSet(GroupsOf(Contracts)) /\ IsFiniteSet(Groups(held))
         /\ Groups(held) \subseteq GroupsOf(Contracts)
         /\ \A g : /\ InGroup(held, g) \subseteq Contracts /\ IsFiniteSet(InGroup(held, g))
                   /\ IsFiniteSet(Points(held, g))
                   /\ Points(held, g) \subseteq Nat /\ 0 \in Points(held, g)
<1> DEFINE f == [c \in Contracts |-> GroupOf(c)]
           strike == [c \in Contracts |-> Term[c].strike]
<1>1. IsFiniteSet(Contracts) /\ Held(held) \subseteq Contracts /\ IsFiniteSet(Held(held))
  BY RiskAssumption, FS_Subset DEF Held
<1>2. GroupsOf(Contracts) = {f[c] : c \in Contracts} /\ Groups(held) = {f[c] : c \in Held(held)}
  BY <1>1 DEF GroupsOf, Groups
<1>3. IsFiniteSet(GroupsOf(Contracts)) /\ IsFiniteSet(Groups(held))
  <2> HIDE DEF f
  <2> QED BY <1>1, <1>2, ImageIsFinite
<1>4. Groups(held) \subseteq GroupsOf(Contracts)
  BY <1>1, <1>2
<1>5. ASSUME NEW g
      PROVE  /\ InGroup(held, g) \subseteq Contracts /\ IsFiniteSet(InGroup(held, g))
             /\ IsFiniteSet(Points(held, g))
             /\ Points(held, g) \subseteq Nat /\ 0 \in Points(held, g)
  <2> DEFINE S == InGroup(held, g)
             T == {strike[c] : c \in S}
  <2>1. S \subseteq Contracts /\ IsFiniteSet(S)
    BY <1>1, FS_Subset DEF InGroup
  <2>2. IsFiniteSet(T)
    <3> HIDE DEF S, strike
    <3> QED BY <2>1, ImageIsFinite
  <2>3. Points(held, g) = T \cup {0}
    BY <2>1 DEF Points
  <2>4. T \subseteq Nat
    BY <2>1, RiskAssumption
  <2> HIDE DEF S, T
  <2>5. IsFiniteSet(T \cup {0})
    BY <2>2, FS_AddElement
  <2> QED BY <2>1, <2>3, <2>4, <2>5 DEF S
<1> QED BY <1>3, <1>4, <1>5

\* What each contract held comes to with the underlying at s.
Values(held, s) == [c \in Contracts |-> Intrinsic(c, s) * held[c]]

\* Payoffs are whole numbers.
LEMMA PayoffIsWhole ==
  ASSUME NEW held \in Holdings, NEW s \in Nat
  PROVE  /\ \A c \in Contracts : Values(held, s)[c] \in Int
         /\ \A g : /\ SumFunctionOnSet(Values(held, s), InGroup(held, g)) \in Int
                   /\ PayoffAt(held, g, s) \in Int
                   /\ PayoffAt(held, g, s)
                        = Multiplier * SumFunctionOnSet(Values(held, s), InGroup(held, g))
<1>1. \A c \in Contracts : Values(held, s)[c] \in Int
  <2> SUFFICES ASSUME NEW c \in Contracts PROVE Values(held, s)[c] \in Int
    OBVIOUS
  <2>1. Intrinsic(c, s) \in Int /\ held[c] \in Int
    BY IntrinsicIs, RiskAssumption DEF Holdings
  <2> QED BY <2>1 DEF Values
<1>2. ASSUME NEW g PROVE SumFunctionOnSet(Values(held, s), InGroup(held, g)) \in Int
  <2>1. InGroup(held, g) \subseteq Contracts /\ IsFiniteSet(InGroup(held, g))
    BY GroupsAreFinite
  <2> QED BY <1>1, <2>1, SumIsInt
<1>3. \A g : PayoffAt(held, g, s) = Multiplier * SumFunctionOnSet(Values(held, s), InGroup(held, g))
  BY DEF PayoffAt, Values
<1>4. Multiplier \in Int
  BY RiskAssumption
<1> QED BY <1>1, <1>2, <1>3, <1>4

\* The worst of a group is a whole number and no more than the payoff at any strike.
LEMMA WorstOfPoints ==
  ASSUME NEW held \in Holdings, NEW g
  PROVE  /\ WorstOf(held, g) \in Int
         /\ \A p \in Points(held, g) : WorstOf(held, g) <= PayoffAt(held, g, p)
<1> DEFINE P == Points(held, g)
           f == [p \in P |-> -PayoffAt(held, g, p)]
           S == {PayoffAt(held, g, s) : s \in P}
<1>1. IsFiniteSet(P) /\ P # {} /\ P \subseteq Nat
  BY GroupsAreFinite
<1>2. \A p \in P : PayoffAt(held, g, p) \in Int
  BY <1>1, PayoffIsWhole
<1>3. \A p \in P : f[p] \in Int
  BY <1>2
<1>4. PICK a \in P : \A p \in P : f[p] <= f[a]
  <2> HIDE DEF f, P
  <2> QED BY <1>1, <1>3, HasLargest
<1>5. PayoffAt(held, g, a) \in S /\ \A y \in S : PayoffAt(held, g, a) <= y
  BY <1>2, <1>4
<1>6. Min(S) \in S /\ \A y \in S : Min(S) <= y
  BY <1>5 DEF Min
<1>7. WorstOf(held, g) = Min(S)
  BY DEF WorstOf
<1> HIDE DEF f
<1> QED BY <1>2, <1>6, <1>7

\* risk.go, worst: the payoff bends only at a strike and the underlying stops at zero, so a
\* group whose payoff does not fall past its last strike comes to no less anywhere than at
\* the worst of its points.
LEMMA WorstIsLeast ==
  ASSUME NEW held \in Holdings, NEW g, Slope(held, g) >= 0, NEW s \in Nat
  PROVE  WorstOf(held, g) <= PayoffAt(held, g, s)
<1> DEFINE P == Points(held, g)
           H == InGroup(held, g)
           call == [c \in Contracts |-> Term[c].call]
           strike == [c \in Contracts |-> Term[c].strike]
           V(t) == SumFunctionOnSet(EndValues(call, strike, held, H, t), H)
<1>1. /\ IsFiniteSet(P) /\ P \subseteq Nat /\ 0 \in P
      /\ IsFiniteSet(H) /\ H \subseteq Contracts
      /\ \A c \in H : strike[c] \in P
  BY GroupsAreFinite DEF Points
<1>2. \A c \in H : strike[c] \in Nat /\ held[c] \in Int
  BY <1>1, RiskAssumption DEF Holdings
<1>3. SumFunctionOnSet(held, {c \in H : call[c]}) >= 0
  <2>1. {c \in H : call[c]} = {c \in H : Term[c].call}
    BY <1>1
  <2> QED BY <2>1 DEF Slope
<1>4. ASSUME NEW t \in Nat PROVE PayoffAt(held, g, t) = Multiplier * V(t) /\ V(t) \in Int
  <2>1. \A c \in H : Values(held, t)[c] = EndValues(call, strike, held, H, t)[c]
    <3> SUFFICES ASSUME NEW c \in H PROVE Values(held, t)[c] = EndValues(call, strike, held, H, t)[c]
      OBVIOUS
    <3>1. c \in Contracts /\ Intrinsic(c, t) = EndValue(call[c], strike[c], t)
      BY <1>1, IntrinsicIs DEF EndValue
    <3>2. Values(held, t)[c] = Intrinsic(c, t) * held[c]
      BY <3>1 DEF Values
    <3>3. EndValues(call, strike, held, H, t)[c] = EndValue(call[c], strike[c], t) * held[c]
      BY DEF EndValues
    <3> QED BY <3>1, <3>2, <3>3
  <2>2. V(t) = SumFunctionOnSet(Values(held, t), H)
    <3> HIDE DEF call, strike, H
    <3> QED BY <1>1, <2>1, SumOfSame
  <2> QED BY <2>2, PayoffIsWhole
<1> HIDE DEF call, strike
<1>5. PICK p \in P : V(p) <= V(s)
  <2> HIDE DEF P, H
  <2> QED BY <1>1, <1>2, <1>3, LeastAtABend
<1>6. Multiplier * V(p) <= Multiplier * V(s)
  <2>1. V(p) \in Int /\ V(s) \in Int /\ Multiplier \in Nat
    BY <1>1, <1>4, RiskAssumption
  <2> HIDE DEF V
  <2> QED BY <1>5, <2>1
<1>7. WorstOf(held, g) <= PayoffAt(held, g, p) /\ WorstOf(held, g) \in Int
  BY WorstOfPoints
<1>8. /\ PayoffAt(held, g, p) = Multiplier * V(p) /\ PayoffAt(held, g, s) = Multiplier * V(s)
      /\ PayoffAt(held, g, p) \in Int /\ PayoffAt(held, g, s) \in Int
  BY <1>1, <1>4, PayoffIsWhole
<1> HIDE DEF V
<1> QED BY <1>6, <1>7, <1>8

\* What the groups of G come to at the prices u, and every other at its worst: groups
\* nothing is held of come to nothing.
Ends(held, u, G) ==
  [g \in GroupsOf(Contracts) |->
     IF g \in G THEN PayoffAt(held, g, u[g[1]]) ELSE WorstOf(held, g)]

\* The root of a group.
LEMMA RootOfGroup ==
  ASSUME NEW u \in [Roots -> Nat], NEW g \in GroupsOf(Contracts)
  PROVE  u[g[1]] \in Nat
<1>1. PICK c \in Contracts : g = GroupOf(c)
  BY DEF GroupsOf
<1>2. g[1] = Term[c].root /\ Term[c].root \in Roots
  BY <1>1, RiskAssumption DEF GroupOf
<1> QED BY <1>2

\* They are whole numbers, and the sums over the groups held are the sums over them all.
LEMMA EndsAddUp ==
  ASSUME NEW held \in Holdings, NEW u \in [Roots -> Nat], NEW G
  PROVE  /\ \A g \in GroupsOf(Contracts) : Ends(held, u, G)[g] \in Int
         /\ \A g \in GroupsOf(Contracts) \ Groups(held) :
              PayoffAt(held, g, u[g[1]]) = 0 /\ WorstOf(held, g) = 0
         /\ SumFunction([g \in Groups(held) |->
                           IF g \in G THEN PayoffAt(held, g, u[g[1]]) ELSE WorstOf(held, g)])
              = SumFunctionOnSet(Ends(held, u, G), GroupsOf(Contracts))
         /\ SumFunctionOnSet(Ends(held, u, G), GroupsOf(Contracts)) \in Int
<1> DEFINE A == GroupsOf(Contracts)
           E == Ends(held, u, G)
           f == [g \in Groups(held) |->
                   IF g \in G THEN PayoffAt(held, g, u[g[1]]) ELSE WorstOf(held, g)]
<1>1. ASSUME NEW g \in A PROVE E[g] \in Int
  <2>1. u[g[1]] \in Nat
    BY RootOfGroup
  <2>2. PayoffAt(held, g, u[g[1]]) \in Int /\ WorstOf(held, g) \in Int
    BY <2>1, PayoffIsWhole, WorstOfPoints
  <2> QED BY <2>2 DEF Ends
<1>2. ASSUME NEW g \in A \ Groups(held)
      PROVE  PayoffAt(held, g, u[g[1]]) = 0 /\ WorstOf(held, g) = 0
  <2>1. InGroup(held, g) = {}
    BY DEF InGroup, Groups
  <2>2. \A s : PayoffAt(held, g, s) = 0
    <3>1. \A f1 : SumFunctionOnSet(f1, {}) = 0
      BY SumOfNone
    <3> QED BY <2>1, <3>1, RiskAssumption DEF PayoffAt
  <2>3. Points(held, g) = {0}
    BY <2>1 DEF Points
  <2>4. {PayoffAt(held, g, s) : s \in Points(held, g)} = {0}
    BY <2>2, <2>3
  <2>5. Min({0}) = 0
    BY DEF Min
  <2> QED BY <2>2, <2>4, <2>5 DEF WorstOf
<1>3. IsFiniteSet(A) /\ Groups(held) \subseteq A /\ IsFiniteSet(Groups(held))
  BY GroupsAreFinite
<1>4. \A g \in A \ Groups(held) : E[g] = 0
  BY <1>2 DEF Ends
<1>5. \A g \in Groups(held) : f[g] = E[g]
  BY <1>3 DEF Ends
<1>6. SumFunction(f) = SumFunctionOnSet(f, Groups(held))
  BY DEF SumFunction
<1> HIDE DEF E, f, A
<1>7. SumFunctionOnSet(E, A) = SumFunctionOnSet(E, Groups(held))
  BY <1>1, <1>3, <1>4, SumPadded
<1>8. SumFunctionOnSet(f, Groups(held)) = SumFunctionOnSet(E, Groups(held))
  BY <1>3, <1>5, SumOfSame
<1>9. SumFunctionOnSet(E, A) \in Int
  BY <1>1, <1>3, SumIsInt
<1> QED BY <1>1, <1>2, <1>6, <1>7, <1>8, <1>9 DEF E, f, A

\* What the shares of a book are worth.
Shares(bk, u) == [r \in Roots |-> bk.shares[r] * u[r]]

LEMMA SharesAddUp ==
  ASSUME NEW bk, Reckoned(bk), NEW u \in [Roots -> Nat]
  PROVE  /\ \A r \in Roots : Shares(bk, u)[r] \in Int
         /\ IsFiniteSet(Roots)
         /\ SumFunction(Shares(bk, u)) = SumFunctionOnSet(Shares(bk, u), Roots)
         /\ SumFunctionOnSet(Shares(bk, u), Roots) \in Int
         /\ NoShares(bk) => SumFunctionOnSet(Shares(bk, u), Roots) = 0
<1>1. \A r \in Roots : bk.shares[r] \in Int /\ u[r] \in Int
  BY DEF Reckoned
<1>2. IsFiniteSet(Roots) /\ \A r \in Roots : Shares(bk, u)[r] \in Int
  BY <1>1, RiskAssumption DEF Shares
<1>3. SumFunction(Shares(bk, u)) = SumFunctionOnSet(Shares(bk, u), Roots)
  BY DEF SumFunction, Shares
<1>4. ASSUME NoShares(bk) PROVE SumFunctionOnSet(Shares(bk, u), Roots) = 0
  <2> DEFINE f == Shares(bk, u)
  <2>1. \A r \in Roots \ {} : f[r] = 0
    BY <1>1, <1>4 DEF Shares, NoShares
  <2> HIDE DEF f
  <2>2. {} \subseteq Roots
    OBVIOUS
  <2>3. \A r \in Roots : f[r] \in Int
    BY <2>1
  <2>4. SumFunctionOnSet(f, Roots) = SumFunctionOnSet(f, {})
    BY <1>2, <2>1, <2>2, <2>3, SumPadded
  <2> QED BY <2>4, SumOfNone DEF f
<1> QED BY <1>2, <1>3, <1>4, SumIsInt

\* So a book is sustained when no group at its worst falls without end and this is not
\* below zero.
LEMMA SustainedIs ==
  ASSUME NEW bk, Reckoned(bk), NEW u \in [Roots -> Nat], NEW G
  PROVE  Sustained(bk, u, G) <=>
           /\ \A g \in Groups(bk.held) \ G : Slope(bk.held, g) >= 0
           /\ bk.cash + SumFunctionOnSet(Shares(bk, u), Roots)
                + SumFunctionOnSet(Ends(bk.held, u, G), GroupsOf(Contracts)) >= 0
<1>1. bk.held \in Holdings
  BY DEF Reckoned
<1>2. SumFunction([g \in Groups(bk.held) |->
                     IF g \in G THEN PayoffAt(bk.held, g, u[g[1]]) ELSE WorstOf(bk.held, g)])
        = SumFunctionOnSet(Ends(bk.held, u, G), GroupsOf(Contracts))
  BY <1>1, EndsAddUp
<1>3. SumFunction([r \in Roots |-> bk.shares[r] * u[r]])
        = SumFunctionOnSet(Shares(bk, u), Roots)
  BY SharesAddUp DEF Shares
<1> QED BY <1>2, <1>3 DEF Sustained

\* A group that ends at some price comes to no less there than at its worst.
LEMMA Loosened ==
  ASSUME NEW bk, Reckoned(bk), NEW u \in [Roots -> Nat], NEW G, NEW H, Sustained(bk, u, G),
         \A g \in Groups(bk.held) : g \in G => g \in H
  PROVE  Sustained(bk, u, H)
<1> DEFINE A == GroupsOf(Contracts)
           E(X) == Ends(bk.held, u, X)
           sum(X) == SumFunctionOnSet(E(X), A)
           shares == SumFunctionOnSet(Shares(bk, u), Roots)
<1>1. bk.held \in Holdings /\ bk.cash \in Int
  BY DEF Reckoned
<1>2. /\ \A g \in Groups(bk.held) \ G : Slope(bk.held, g) >= 0
      /\ bk.cash + shares + sum(G) >= 0
  BY SustainedIs
<1>3. IsFiniteSet(A) /\ sum(G) \in Int /\ sum(H) \in Int /\ shares \in Int
  BY <1>1, GroupsAreFinite, EndsAddUp, SharesAddUp
<1>4. ASSUME NEW g \in A PROVE E(G)[g] \in Int /\ E(H)[g] \in Int /\ E(G)[g] <= E(H)[g]
  <2> DEFINE pay == PayoffAt(bk.held, g, u[g[1]])
             worst == WorstOf(bk.held, g)
  <2>1. E(G)[g] \in Int /\ E(H)[g] \in Int
    BY <1>1, EndsAddUp
  <2>2. E(G)[g] = (IF g \in G THEN pay ELSE worst) /\ E(H)[g] = (IF g \in H THEN pay ELSE worst)
    BY DEF Ends
  <2>3. u[g[1]] \in Nat
    BY RootOfGroup
  <2>4. pay \in Int /\ worst \in Int
    BY <1>1, <2>3, PayoffIsWhole, WorstOfPoints
  <2>5. CASE g \notin Groups(bk.held)
    <3>1. pay = 0 /\ worst = 0
      BY <1>1, <2>5, EndsAddUp
    <3> QED BY <2>1, <2>2, <3>1
  <2>6. CASE g \in Groups(bk.held) /\ g \in G
    <3> HIDE DEF E
    <3> QED BY <2>1, <2>2, <2>6
  <2>7. CASE g \in Groups(bk.held) /\ g \notin G
    <3>1. worst <= pay
      BY <1>1, <1>2, <2>3, <2>7, WorstIsLeast
    <3> HIDE DEF E, pay, worst
    <3> QED BY <2>1, <2>2, <2>4, <2>7, <3>1
  <2> QED BY <2>5, <2>6, <2>7
<1>5. sum(G) <= sum(H)
  <2> HIDE DEF E, A
  <2> QED BY <1>3, <1>4, SumIsMonotone
<1> HIDE DEF sum, shares
<1>6. bk.cash + shares + sum(H) >= 0
  BY <1>1, <1>2, <1>3, <1>5
<1>7. \A g \in Groups(bk.held) \ H : Slope(bk.held, g) >= 0
  BY <1>2
<1> QED BY <1>6, <1>7, SustainedIs DEF sum, shares

\* Without shares, a book is sustained at no price in particular when its cash bears its
\* loss.
LEMMA BearingIs ==
  ASSUME NEW bk, Reckoned(bk), NoShares(bk), NEW u \in [Roots -> Nat]
  PROVE  Bears(bk) <=> Sustained(bk, u, {})
<1> DEFINE sum == SumFunctionOnSet(Ends(bk.held, u, {}), GroupsOf(Contracts))
<1>1. bk.held \in Holdings /\ bk.cash \in Int
  BY DEF Reckoned
<1>2. SumFunctionOnSet(Shares(bk, u), Roots) = 0
  BY SharesAddUp
<1>3. Worst(bk.held) = sum /\ sum \in Int
  <2>1. [g \in Groups(bk.held) |-> WorstOf(bk.held, g)]
          = [g \in Groups(bk.held) |->
               IF g \in {} THEN PayoffAt(bk.held, g, u[g[1]]) ELSE WorstOf(bk.held, g)]
    OBVIOUS
  <2> QED BY <1>1, <2>1, EndsAddUp DEF Worst
<1>4. Unbounded(bk.held) <=> ~ \A g \in Groups(bk.held) \ {} : Slope(bk.held, g) >= 0
  <2>1. \A g : Slope(bk.held, g) \in Int
    <3> SUFFICES ASSUME NEW g PROVE Slope(bk.held, g) \in Int
      OBVIOUS
    <3> DEFINE S == {c \in InGroup(bk.held, g) : Term[c].call}
    <3>1. IsFiniteSet(S) /\ \A c \in S : bk.held[c] \in Int
      BY <1>1, GroupsAreFinite, FS_Subset DEF Holdings
    <3> HIDE DEF S
    <3>2. SumFunctionOnSet(bk.held, S) \in Int
      BY <3>1, SumIsInt
    <3> QED BY <3>2 DEF Slope, S
  <2> QED BY <2>1 DEF Unbounded
<1> HIDE DEF sum
<1>5. Sustained(bk, u, {}) <=>
        (\A g \in Groups(bk.held) \ {} : Slope(bk.held, g) >= 0) /\ bk.cash + 0 + sum >= 0
  BY <1>2, SustainedIs DEF sum
<1> QED BY <1>1, <1>3, <1>4, <1>5 DEF Bears

\* Settling one contract leaves every other group as it was ...
LEMMA OtherGroupsStay ==
  ASSUME NEW held \in Holdings, NEW c \in Contracts, NEW after \in Holdings,
         \A x \in Contracts \ {c} : after[x] = held[x], NEW g, g # GroupOf(c)
  PROVE  /\ InGroup(after, g) = InGroup(held, g)
         /\ Slope(after, g) = Slope(held, g)
         /\ \A s \in Nat : PayoffAt(after, g, s) = PayoffAt(held, g, s)
         /\ WorstOf(after, g) = WorstOf(held, g)
<1>1. after \in Holdings /\ \A x \in Contracts \ {c} : after[x] = held[x]
  OBVIOUS
<1>2. InGroup(after, g) = InGroup(held, g)
  BY <1>1 DEF InGroup, Held
<1> DEFINE H == InGroup(held, g)
<1>3. H \subseteq Contracts \ {c} /\ IsFiniteSet(H)
  BY GroupsAreFinite DEF InGroup
<1>4. Slope(after, g) = Slope(held, g)
  <2> DEFINE S == {x \in H : Term[x].call}
  <2>1. IsFiniteSet(S) /\ \A x \in S : after[x] = held[x]
    BY <1>1, <1>3, FS_Subset
  <2>2. Slope(after, g) = SumFunctionOnSet(after, S) /\ Slope(held, g) = SumFunctionOnSet(held, S)
    BY <1>2 DEF Slope
  <2> HIDE DEF S
  <2> QED BY <2>1, <2>2, SumOfSame
<1>5. ASSUME NEW s \in Nat PROVE PayoffAt(after, g, s) = PayoffAt(held, g, s)
  <2>1. \A x \in H : Values(after, s)[x] = Values(held, s)[x]
    BY <1>1, <1>3 DEF Values
  <2>2. SumFunctionOnSet(Values(after, s), H) = SumFunctionOnSet(Values(held, s), H)
    <3> HIDE DEF H
    <3> QED BY <1>3, <2>1, SumOfSame
  <2>3. /\ PayoffAt(after, g, s) = Multiplier * SumFunctionOnSet(Values(after, s), H)
        /\ PayoffAt(held, g, s) = Multiplier * SumFunctionOnSet(Values(held, s), H)
    BY <1>1, <1>2, PayoffIsWhole
  <2> QED BY <2>2, <2>3
<1>6. WorstOf(after, g) = WorstOf(held, g)
  <2>1. Points(after, g) = Points(held, g) /\ Points(held, g) \subseteq Nat
    BY <1>2, GroupsAreFinite DEF Points
  <2>2. {PayoffAt(after, g, s) : s \in Points(after, g)}
          = {PayoffAt(held, g, s) : s \in Points(held, g)}
    BY <1>5, <2>1
  <2> QED BY <2>2 DEF WorstOf
<1> QED BY <1>1, <1>2, <1>4, <1>5, <1>6

\* ... and takes off its own what the contract is worth there.
LEMMA OwnGroupShrinks ==
  ASSUME NEW held \in Holdings, NEW c \in Contracts, NEW after, after = [held EXCEPT ![c] = 0],
         NEW s \in Nat
  PROVE  PayoffAt(after, GroupOf(c), s)
           = PayoffAt(held, GroupOf(c), s) - Multiplier * (Intrinsic(c, s) * held[c])
<1> DEFINE g == GroupOf(c)
           A == {x \in Contracts : GroupOf(x) = g}
           all(h) == SumFunctionOnSet(Values(h, s), A)
           worth == Intrinsic(c, s) * held[c]
<1>1. after \in Holdings /\ (\A x \in Contracts \ {c} : after[x] = held[x]) /\ after[c] = 0
  BY DEF Holdings
<1>2. IsFiniteSet(A) /\ A \subseteq Contracts /\ c \in A
  BY RiskAssumption, FS_Subset
<1>3. ASSUME NEW h \in Holdings PROVE PayoffAt(h, g, s) = Multiplier * all(h)
  <2> DEFINE H == InGroup(h, g)
             f == Values(h, s)
  <2>1. H \subseteq A
    BY DEF InGroup, Held
  <2>2. ASSUME NEW x \in A \ H PROVE f[x] = 0
    <3>1. x \in Contracts /\ h[x] = 0
      BY DEF InGroup, Held
    <3>2. Intrinsic(x, s) \in Int
      BY <3>1, IntrinsicIs, RiskAssumption
    <3> QED BY <3>1, <3>2 DEF Values
  <2>3. \A x \in A : f[x] \in Int
    BY PayoffIsWhole
  <2>4. PayoffAt(h, g, s) = Multiplier * SumFunctionOnSet(f, H)
    BY PayoffIsWhole
  <2> HIDE DEF f, H, A
  <2>5. SumFunctionOnSet(f, A) = SumFunctionOnSet(f, H)
    BY <1>2, <2>1, <2>2, <2>3, SumPadded
  <2> QED BY <2>4, <2>5 DEF f
<1>4. worth \in Int
  BY IntrinsicIs, RiskAssumption DEF Holdings
<1>5. all(held) \in Int /\ all(after) = all(held) + (-worth)
  <2> DEFINE f == Values(held, s)
             h == Values(after, s)
  <2>1. \A x \in A : f[x] \in Int
    BY PayoffIsWhole
  <2>2. \A x \in A \ {c} : h[x] = f[x]
    BY <1>1 DEF Values
  <2>3. h[c] = f[c] + (-worth)
    <3>1. Intrinsic(c, s) \in Int
      BY IntrinsicIs, RiskAssumption
    <3>2. h[c] = Intrinsic(c, s) * 0 /\ f[c] = worth
      BY <1>1 DEF Values
    <3> QED BY <1>4, <3>1, <3>2
  <2>4. -worth \in Int
    BY <1>4
  <2> HIDE DEF f, h, A, worth
  <2>5. SumFunctionOnSet(h, A) = SumFunctionOnSet(f, A) + (-worth)
    BY <1>2, <2>1, <2>2, <2>3, <2>4, SumChanged
  <2>6. SumFunctionOnSet(f, A) \in Int
    BY <1>2, <2>1, SumIsInt
  <2> QED BY <2>5, <2>6 DEF f, h
<1> HIDE DEF all, worth
<1>6. Multiplier * all(after) = Multiplier * all(held) - Multiplier * worth
  <2>1. Multiplier \in Int
    BY RiskAssumption
  <2> QED BY <1>4, <1>5, <2>1
<1> QED BY <1>1, <1>3, <1>6 DEF worth

\* expiry.go, Settle: the money and the shares a contract turns into are what it is worth
\* at the price it is settled at, so its group goes on coming to what it came to.
LEMMA SettledSustains ==
  ASSUME NEW bk, Reckoned(bk), NEW u \in [Roots -> Nat], NEW c \in Contracts, NEW G,
         GroupOf(c) \in G, Sustained(bk, u, G), Reckoned(Settled(bk, c, u[Term[c].root]))
  PROVE  Sustained(Settled(bk, c, u[Term[c].root]), u, G)
<1> DEFINE root   == Term[c].root
           under  == u[root]
           after  == Settled(bk, c, under)
           qty    == bk.held[c]
           sign   == IF Term[c].call THEN 1 ELSE -1
           in     == Intrinsic(c, under) > 0
           money  == IF in THEN -sign * Term[c].strike * qty * Multiplier ELSE 0
           turned == IF in THEN sign * qty * Multiplier ELSE 0
           worth  == Multiplier * (Intrinsic(c, under) * qty)
           A      == GroupsOf(Contracts)
           g      == GroupOf(c)
<1>1. /\ root \in Roots /\ under \in Nat /\ qty \in Int /\ Multiplier \in Int
      /\ Term[c].strike \in Nat /\ bk.held \in Holdings /\ bk.cash \in Int
  BY RiskAssumption DEF Reckoned, Holdings
<1>2. /\ after.held = [bk.held EXCEPT ![c] = 0] /\ after.cash = bk.cash + money
      /\ after.shares = [bk.shares EXCEPT ![root] = @ + turned]
  BY DEF Settled, Reckoned, NewBook
<1>3. Intrinsic(c, under) \in Nat /\ worth \in Int
  <2>1. Intrinsic(c, under) \in Nat
    BY <1>1, IntrinsicIs
  <2> QED BY <1>1, <2>1
<1>4. money \in Int /\ turned \in Int /\ turned * under \in Int /\ money + turned * under = worth
  <2> DEFINE k == Term[c].strike
  <2>1. CASE ~in
    <3>1. Intrinsic(c, under) = 0
      BY <1>3, <2>1
    <3> QED BY <1>1, <2>1, <3>1
  <2>2. CASE in /\ Term[c].call
    <3>1. Intrinsic(c, under) = under - k
      BY <1>1, <2>2, IntrinsicIs
    <3>2. money = -k * qty * Multiplier /\ turned = qty * Multiplier
      BY <1>1, <2>2
    <3>3. worth = Multiplier * ((under - k) * qty)
      BY <3>1
    <3> HIDE DEF money, turned, worth, k, under, qty
    <3>4. k \in Int /\ under \in Int /\ qty \in Int
      BY <1>1 DEF k
    <3> QED BY <1>1, <3>2, <3>3, <3>4
  <2>3. CASE in /\ ~Term[c].call
    <3>1. Intrinsic(c, under) = k - under
      BY <1>1, <2>3, IntrinsicIs
    <3>2. money = k * qty * Multiplier /\ turned = -(qty * Multiplier)
      BY <1>1, <2>3
    <3>3. worth = Multiplier * ((k - under) * qty)
      BY <3>1
    <3> HIDE DEF money, turned, worth, k, under, qty
    <3>4. k \in Int /\ under \in Int /\ qty \in Int
      BY <1>1 DEF k
    <3> QED BY <1>1, <3>2, <3>3, <3>4
  <2> QED BY <2>1, <2>2, <2>3
<1> HIDE DEF after, money, turned, worth
<1>5. SumFunctionOnSet(Shares(after, u), Roots)
        = SumFunctionOnSet(Shares(bk, u), Roots) + turned * under
  <2> DEFINE f == Shares(bk, u)
             h == Shares(after, u)
  <2>1. \A r \in Roots : bk.shares[r] \in Int /\ u[r] \in Int
    BY DEF Reckoned
  <2>2. \A r \in Roots \ {root} : h[r] = f[r]
    BY <1>2, <2>1 DEF Shares, Reckoned
  <2>3. h[root] = f[root] + turned * under
    <3>1. h[root] = (bk.shares[root] + turned) * under /\ f[root] = bk.shares[root] * under
      BY <1>1, <1>2 DEF Shares, Reckoned
    <3>2. bk.shares[root] \in Int
      BY <1>1, <2>1
    <3> HIDE DEF h, f, under
    <3> QED BY <1>1, <1>4, <3>1, <3>2
  <2>4. IsFiniteSet(Roots) /\ \A r \in Roots : f[r] \in Int
    BY SharesAddUp
  <2> HIDE DEF f, h, under, root
  <2>5. SumFunctionOnSet(h, Roots) = SumFunctionOnSet(f, Roots) + turned * under
    BY <1>1, <1>4, <2>2, <2>3, <2>4, SumChanged
  <2> QED BY <2>5 DEF f, h
<1>6. ASSUME NEW x, x # GroupOf(c)
      PROVE  /\ Slope(after.held, x) = Slope(bk.held, x)
             /\ WorstOf(after.held, x) = WorstOf(bk.held, x)
             /\ \A s \in Nat : PayoffAt(after.held, x, s) = PayoffAt(bk.held, x, s)
  <2> DEFINE held == bk.held
             left == after.held
  <2>1. /\ held \in Holdings /\ left \in Holdings
        /\ \A y \in Contracts \ {c} : left[y] = held[y]
    BY <1>1, <1>2 DEF Holdings
  <2> HIDE DEF held, left, g, A
  <2>2. /\ Slope(left, x) = Slope(held, x)
        /\ WorstOf(left, x) = WorstOf(held, x)
        /\ \A s \in Nat : PayoffAt(left, x, s) = PayoffAt(held, x, s)
    BY <1>6, <2>1, OtherGroupsStay
  <2> QED BY <2>2 DEF held, left
<1>12. SumFunctionOnSet(Ends(after.held, u, G), A)
        = SumFunctionOnSet(Ends(bk.held, u, G), A) + (-worth)
  <2> DEFINE f == Ends(bk.held, u, G)
             h == Ends(after.held, u, G)
  <2>1. ASSUME NEW x \in A \ {g} PROVE h[x] = f[x]
    <3>1. u[x[1]] \in Nat
      BY RootOfGroup
    <3>2. /\ PayoffAt(after.held, x, u[x[1]]) = PayoffAt(bk.held, x, u[x[1]])
          /\ WorstOf(after.held, x) = WorstOf(bk.held, x)
      BY <3>1, <1>6
    <3> QED BY <3>2 DEF Ends
  <2>2. h[g] = f[g] + (-worth)
    <3>1. g \in A /\ g[1] = root
      BY DEF GroupsOf, GroupOf
    <3>2. h[g] = PayoffAt(after.held, g, under) /\ f[g] = PayoffAt(bk.held, g, under)
      BY <3>1 DEF Ends
    <3>3. PayoffAt(after.held, g, under) = PayoffAt(bk.held, g, under) - worth
      BY <1>1, <1>2, OwnGroupShrinks DEF worth
    <3>4. PayoffAt(bk.held, g, under) \in Int
      BY <1>1, PayoffIsWhole
    <3> QED BY <1>3, <3>2, <3>3, <3>4
  <2>3. IsFiniteSet(A) /\ g \in A /\ \A x \in A : f[x] \in Int
    BY <1>1, GroupsAreFinite, EndsAddUp DEF GroupsOf
  <2>4. -worth \in Int
    BY <1>3
  <2> HIDE DEF f, h, A, g
  <2>5. SumFunctionOnSet(h, A) = SumFunctionOnSet(f, A) + (-worth)
    BY <2>1, <2>2, <2>3, <2>4, SumChanged
  <2> QED BY <2>5 DEF f, h
<1>7. bk.cash + SumFunctionOnSet(Shares(bk, u), Roots) + SumFunctionOnSet(Ends(bk.held, u, G), A) >= 0
      /\ \A x \in Groups(bk.held) \ G : Slope(bk.held, x) >= 0
  BY SustainedIs
<1>8. after.cash + SumFunctionOnSet(Shares(after, u), Roots)
        + SumFunctionOnSet(Ends(after.held, u, G), A) >= 0
  <2>1. /\ SumFunctionOnSet(Shares(bk, u), Roots) \in Int
        /\ SumFunctionOnSet(Ends(bk.held, u, G), A) \in Int
    BY <1>1, SharesAddUp, EndsAddUp
  <2> HIDE DEF A, under
  <2> QED BY <1>1, <1>2, <1>3, <1>4, <1>5, <1>7, <1>12, <2>1
<1>9. ASSUME NEW x \in Groups(after.held) \ G PROVE Slope(after.held, x) >= 0
  <2>1. x # g
    OBVIOUS
  <2>2. x \in Groups(bk.held)
    BY <1>1, <1>2 DEF Groups, Held, Holdings
  <2>3. Slope(after.held, x) = Slope(bk.held, x)
    BY <1>6, <2>1
  <2> QED BY <1>7, <2>2, <2>3
<1>10. Reckoned(after)
  BY DEF after
<1>11. Sustained(after, u, G)
  BY <1>8, <1>9, <1>10, SustainedIs
<1> QED BY <1>11 DEF after

\* A book at rest, its loss borne and no shares in it, is sustained whatever the prices.
LEMMA AtRest ==
  ASSUME NEW bk, Reckoned(bk), NoShares(bk), Bears(bk), NEW u \in [Roots -> Nat], NEW G
  PROVE  Sustained(bk, u, G)
<1>1. Sustained(bk, u, {})
  BY BearingIs
<1> QED BY <1>1, Loosened

\* Fill: the book refuses what it would not have the collateral for.
LEMMA FillBears ==
  ASSUME NEW bk, SoundBook(bk), Reckoned(bk), NEW after, Fills(bk, after), Reckoned(after)
  PROVE  Bears(after) /\ after.shares = bk.shares
<1>1. PICK i \in DOMAIN bk.orders, sets \in Nat \ {0}, price \in Int :
        Affordable(bk, i, sets, price) /\ after = Filled(bk, i, sets, price)
  BY DEF Fills
<1> DEFINE o == bk.orders[i]
           debt == [r \in Roots |-> 3 * Max({0, -bk.shares[r]}) * bk.mark[r]]
           worst == Worst(after.held)
<1>2. /\ after.held = Projected(bk.held, o.legs, sets)
      /\ after.cash = CashAfter(bk, o, sets, price)
      /\ after.shares = bk.shares
  BY <1>1 DEF Filled, Reckoned, NewBook
<1>3. after.held \in Holdings /\ after.cash \in Int
  BY DEF Reckoned
<1>4. ~Unbounded(after.held) /\ 2 * after.cash >= TwiceRequirement(after.held, bk.shares, bk.mark)
  BY <1>1, <1>2 DEF Affordable, Backed
<1>5. TwiceRequirement(after.held, bk.shares, bk.mark)
        = 2 * Max({0, -worst}) + SumFunctionOnSet(debt, Roots)
  BY DEF TwiceRequirement, SumFunction
<1>6. worst \in Int
  <2> DEFINE held == after.held
             u == [r \in Roots |-> 0]
  <2>1. u \in [Roots -> Nat]
    OBVIOUS
  <2>2. [g \in Groups(held) |-> WorstOf(held, g)]
          = [g \in Groups(held) |->
               IF g \in {} THEN PayoffAt(held, g, u[g[1]]) ELSE WorstOf(held, g)]
    OBVIOUS
  <2> HIDE DEF u
  <2>3. worst = SumFunctionOnSet(Ends(held, u, {}), GroupsOf(Contracts))
    BY <1>3, <2>1, <2>2, EndsAddUp DEF Worst
  <2> QED BY <1>3, <2>1, <2>3, EndsAddUp
<1>7. SumFunctionOnSet(debt, Roots) \in Nat
  <2>1. ASSUME NEW r \in Roots PROVE debt[r] \in Nat
    <3>1. bk.shares[r] \in Int /\ bk.mark[r] \in Nat /\ -bk.shares[r] \in Int
      BY DEF Reckoned
    <3>2. Max({0, -bk.shares[r]}) \in Nat
      BY <3>1, MaxOfTwo
    <3> QED BY <3>1, <3>2
  <2>2. IsFiniteSet(Roots) /\ {} \subseteq Roots
    BY RiskAssumption
  <2> HIDE DEF debt
  <2>3. \A r \in Roots : debt[r] \in Int
    BY <2>1
  <2>4. SumFunctionOnSet(debt, {}) <= SumFunctionOnSet(debt, Roots)
    BY <2>1, <2>2, SumOfPart
  <2>5. SumFunctionOnSet(debt, Roots) \in Int
    BY <2>2, <2>3, SumIsInt
  <2> QED BY <2>4, <2>5, SumOfNone
<1>8. Max({0, -worst}) \in Int /\ Max({0, -worst}) >= -worst
  <2>1. -worst \in Int
    BY <1>6
  <2> QED BY <2>1, MaxOfTwo
<1> HIDE DEF worst, debt
<1>9. after.cash + worst >= 0
  BY <1>3, <1>4, <1>5, <1>6, <1>7, <1>8
<1> QED BY <1>2, <1>4, <1>9 DEF Bears, worst

\* A book at rest stays so but for a settlement.
LEMMA QuietBears ==
  ASSUME NEW bk, SoundBook(bk), Reckoned(bk), NoShares(bk), Bears(bk),
         NEW after, Reckoned(after), Untouched(bk, after) \/ Fills(bk, after)
  PROVE  NoShares(after) /\ Bears(after)
<1>1. CASE Untouched(bk, after)
  BY <1>1 DEF Untouched, NoShares, Bears
<1>2. CASE Fills(bk, after)
  BY <1>2, FillBears DEF NoShares
<1> QED BY <1>1, <1>2

\* And one that is being settled as it was.
LEMMA QuietSustains ==
  ASSUME NEW bk, NEW after, Untouched(bk, after), NEW u, NEW G, Sustained(bk, u, G)
  PROVE  Sustained(after, u, G)
BY DEF Untouched, Sustained

\* Prices of an underlying at expiry are no less than zero.
LEMMA PricesAre ==
  /\ [Roots -> Unders \cup {0}] \subseteq [Roots -> Nat]
  /\ [r \in Roots |-> 0] \in [Roots -> Unders \cup {0}]
<1>1. Unders \cup {0} \subseteq Nat
  BY ArenaAssumption
<1>2. ASSUME NEW f \in [Roots -> Unders \cup {0}] PROVE f \in [Roots -> Nat]
  <2>1. f = [r \in Roots |-> f[r]]
    OBVIOUS
  <2>2. \A r \in Roots : f[r] \in Nat
    BY <1>1
  <2> QED BY <2>1, <2>2
<1>3. [r \in Roots |-> 0] \in [Roots -> Unders \cup {0}]
  OBVIOUS
<1> QED BY <1>2, <1>3

-----------------------------------------------------------------------------
(* What is proved.                                                         *)

\* Books as Open leaves them: no orders, in memory and in the store.
LEMMA InitKept ==
  ASSUME Init
  PROVE  ArenaInv
<1>1. DOMAIN <<>> = {} /\ <<>> \in Seq(Range(<<>>)) /\ Len(<<>>) = 0
  <2>1. DOMAIN <<>> = {}
    OBVIOUS
  <2>2. \A S : <<>> \in Seq(S)
    OBVIOUS
  <2> QED BY <2>1, <2>2
<1>2. "orders" \in DOMAIN NewBook /\ NewBook.orders = <<>>
  BY DEF NewBook
<1>3. SoundBook(NewBook) /\ Grows(NewBook, NewBook)
  BY <1>1, <1>2 DEF SoundBook, Grows
<1>4. /\ DOMAIN book = Books /\ DOMAIN file = Books
      /\ \A b \in Books : book[b] = NewBook /\ file[b] = NewBook
  BY DEF Init
<1>5. BooksKept
  BY <1>3, <1>4 DEF BooksKept
<1>6. CallsKnow
  BY DEF Init, CallsKnow
<1>7. pass.pc = "idle" /\ DOMAIN pass = {"pc"} /\ now = 0 /\ heldClock = 0
  BY DEF Init, NoPass
<1>8. PassOnTime /\ SizesLeft
  BY <1>7 DEF PassOnTime, PassFields, SizesLeft
<1>9. OneOrderPerName
  BY <1>1, <1>2, <1>4 DEF OneOrderPerName
<1> QED BY <1>5, <1>6, <1>8, <1>9 DEF ArenaInv

\* Every operation of the book, every step of a pass and every restart keep the books.
LEMMA NextKept ==
  ASSUME ArenaInv, [Next]_vars
  PROVE  /\ ArenaInv'
         /\ Crash \/ BooksGoOn
         /\ \A b \in Books : Grows(file[b], file'[b])
<1> USE DEF ArenaInv
<1>1. Crash \/ BooksGoOn
  BY StepGoesOn
<1>2. BooksKept' /\ \A b \in Books : Grows(file[b], file'[b])
  <2>1. CASE BooksGoOn
    BY <2>1, StoreGoesOn
  <2>2. CASE Crash
    BY <2>2, GrowsOn DEF Crash, BooksKept
  <2> QED BY <1>1, <2>1, <2>2
<1>3. CallsKnow'
  BY <1>2, CallsStep
<1>4. PassOnTime'
  BY <1>2, PassStep
<1>5. SizesLeft'
  BY SizesStep
<1>6. OneOrderPerName'
  BY <1>2, NamesStep
<1> QED BY <1>1, <1>2, <1>3, <1>4, <1>5, <1>6

\* The inductive invariant of the arena, for any books, callers, orders and markets.
THEOREM Kept == Spec => []ArenaInv
<1>1. Init => ArenaInv
  BY InitKept
<1>2. ArenaInv /\ [Next]_vars => ArenaInv'
  BY NextKept
<1> QED BY <1>1, <1>2, PTL DEF Spec

\* tools.go, placeOrder and replaceOrder: of the orders that bring one name into their
\* chains of moves, each but the first was let in by a call that had looked the name up
\* before the first was there.
THEOREM NamesKept == Spec => []OneOrderPerName
<1>1. ArenaInv => OneOrderPerName
  BY DEF ArenaInv
<1> QED BY <1>1, Kept, PTL

\* match.go, once: no pass books more of a contract's side than the quote showed there,
\* whatever it fills, in whatever order and in whatever part.
THEOREM SizeShared == Spec => []SizeIsShared
<1>1. ArenaInv => SizeIsShared
  <2> SUFFICES ASSUME ArenaInv, pass.pc \in {"fill", "mark"}, NEW c \in Contracts
               PROVE  /\ pass.took[c].buy  <= pass.m[c].askSize
                      /\ pass.took[c].sell <= pass.m[c].bidSize
    BY DEF SizeIsShared
  <2>1. /\ pass.left \in Sides /\ pass.took \in Sides /\ pass.m \in Markets
        /\ pass.took[c].buy  + pass.left[c].buy  <= pass.m[c].askSize
        /\ pass.took[c].sell + pass.left[c].sell <= pass.m[c].bidSize
    BY DEF ArenaInv, SizesLeft, Sides
  <2>2. /\ pass.left[c].buy \in Nat /\ pass.left[c].sell \in Nat
        /\ pass.took[c].buy \in Nat /\ pass.took[c].sell \in Nat
        /\ pass.m[c].askSize \in Nat /\ pass.m[c].bidSize \in Nat
    BY <2>1, ArenaAssumption DEF Sides
  <2> QED BY <2>1, <2>2
<1> QED BY <1>1, Kept, PTL

\* book.go, ExpireDay, and match.go, once: what a pass fills stood when the pass had been
\* through its book, so its session was not over by the clock of that pass.
THEOREM FilledOnTime == Spec => FillsOnTime
<1> DEFINE OnlyInTime ==
      \A b \in Books : \A i \in DOMAIN book[b].orders :
        LET o == book[b].orders[i]
        IN /\ pass.pc = "fill" /\ i \in DOMAIN book'[b].orders
           /\ book'[b].orders[i].filled > o.filled
           => o.late \/ o.ends = NoEnd \/ pass.now < o.ends
<1>1. ArenaInv /\ [Next]_vars => OnlyInTime
  <2> SUFFICES ASSUME ArenaInv, [Next]_vars, NEW b \in Books, NEW i \in DOMAIN book[b].orders,
                      pass.pc = "fill", i \in DOMAIN book'[b].orders,
                      book'[b].orders[i].filled > book[b].orders[i].filled
               PROVE  \/ book[b].orders[i].late
                      \/ book[b].orders[i].ends = NoEnd
                      \/ pass.now < book[b].orders[i].ends
    OBVIOUS
  <2>1. /\ SoundOrder(book[b].orders[i]) /\ SoundBook(file[b]) /\ Grows(file[b], book[b])
        /\ OnTime(book[b], pass.now)
    BY DEF ArenaInv, BooksKept, SoundBook, PassOnTime
  <2>2. ~Crash
    <3> SUFFICES ASSUME Crash PROVE FALSE
      OBVIOUS
    <3>1. book'[b] = file[b]
      BY DEF Crash
    <3>2. SoundOrder(file[b].orders[i]) /\ Ages(file[b].orders[i], book[b].orders[i])
      BY <2>1, <3>1 DEF SoundBook, Grows
    <3> QED BY <2>1, <3>1, <3>2 DEF Ages, SoundOrder
  <2>3. Grows(book[b], book'[b]) /\ SoundBook(book'[b])
    BY <2>2, NextKept DEF BooksGoOn
  <2>4. IsOpen(book[b].orders[i])
    <3>1. Ages(book[b].orders[i], book'[b].orders[i])
      BY <2>3 DEF Grows
    <3> QED BY <2>1, <3>1 DEF Ages, SoundOrder
  <2> QED BY <2>1, <2>4 DEF OnTime
<1>2. ArenaInv /\ [Next]_vars => [OnlyInTime]_vars
  BY <1>1
<1>3. Spec => [][OnlyInTime]_vars
  <2> HIDE DEF OnlyInTime
  <2> QED BY <1>2, Kept, PTL DEF Spec
<1> QED BY <1>3 DEF FillsOnTime

\* Every operation of the book, every settlement and every restart leaves books that add up.
LEMMA AccountsStep ==
  ASSUME ArenaInv, AccountsInv, [Next]_vars
  PROVE  AccountsInv'
<1> USE DEF ArenaInv
<1> DEFINE Good(bk) == Reckoned(bk) /\ AddsUp(bk)
<1>1. /\ \A b \in Books : /\ Good(book[b]) /\ Good(file[b])
                          /\ SoundBook(book[b]) /\ SoundBook(file[b])
      /\ Settling
  BY DEF AccountsInv, BookAddsUp, BooksKept
<1>2. Settling'
  BY <1>1, SettlingStep
<1>3. SUFFICES ASSUME NEW b \in Books PROVE Good(book'[b]) /\ Good(file'[b])
  BY <1>2 DEF AccountsInv, BookAddsUp
<1>4. CASE Crash
  BY <1>1, <1>4 DEF Crash
<1> SUFFICES ASSUME ~Crash PROVE Good(book'[b]) /\ Good(file'[b])
  BY <1>4
<1>5. BooksGoOn
  BY NextKept
<1>6. Good(book'[b])
  <2>1. CASE Quiet
    <3>1. CASE Untouched(book[b], book'[b])
      BY <1>1, <1>5, <3>1, UntouchedAddsUp DEF BooksGoOn
    <3>2. CASE Fills(book[b], book'[b])
      BY <1>1, <3>2, FilledAddsUp DEF Fills
    <3> QED BY <2>1, <3>1, <3>2 DEF Quiet
  <2>2. ASSUME NEW c \in Contracts, PassSettle(c) PROVE Good(book'[b])
    <3> DEFINE under == pass.under[Term[c].root]
               after == Settled(book[pass.b], c, under)
    <3>1. pass.pc = "settle" /\ book' = [book EXCEPT ![pass.b] = after]
      BY <2>2 DEF PassSettle, Keep, Written, WriteFails
    <3>2. pass.b \in Books /\ under \in Nat
      BY <1>1, <3>1, PricesAre, RiskAssumption DEF Settling
    <3>3. Good(after)
      BY <1>1, <3>2, SettledAddsUp
    <3> HIDE DEF after, Good
    <3>4. DOMAIN book = Books
      BY DEF BooksKept
    <3> QED BY <1>1, <3>1, <3>2, <3>3, <3>4
  <2> QED BY <1>1, <2>1, <2>2, StepTouches
<1>7. file'[b] \in {file[b], book[b], book'[b]}
  BY <1>5 DEF BooksGoOn
<1> HIDE DEF Good
<1> QED BY <1>1, <1>6, <1>7

\* The books as they are opened add up: nothing held, nothing paid.
LEMMA InitAddsUp ==
  ASSUME Init
  PROVE  AccountsInv
<1>1. /\ \A b \in Books : book[b] = NewBook /\ file[b] = NewBook
      /\ pass.pc = "idle"
  BY DEF Init, NoPass
<1>2. Reckoned(NewBook)
  BY BookAssumption DEF Reckoned, NewBook, Empty, Holdings
<1>3. AddsUp(NewBook)
  <2>1. /\ NewBook.orders = <<>> /\ DOMAIN <<>> = {}
        /\ NewBook.held = Empty /\ NewBook.gone = Empty
        /\ NewBook.cash = Start /\ NewBook.money = 0 /\ Start \in Int
    BY BookAssumption DEF NewBook
  <2>2. \A f : SumFunctionOnSet(f, {}) = 0
    BY SumOfNone
  <2> QED BY <2>1, <2>2 DEF AddsUp, Empty
<1> QED BY <1>1, <1>2, <1>3 DEF AccountsInv, Settling, BookAddsUp

\* book.go, Fill and Settle: what a book holds and owns is what its orders filled and paid
\* and expiry moved, whatever the orders, legs and prices, in memory and in the store.
THEOREM AddsUpKept == Spec => []BookAddsUp
<1>1. Init => ArenaInv /\ AccountsInv
  BY InitKept, InitAddsUp
<1>2. (ArenaInv /\ AccountsInv) /\ [Next]_vars => (ArenaInv /\ AccountsInv)'
  BY NextKept, AccountsStep
<1>3. ArenaInv /\ AccountsInv => BookAddsUp
  BY DEF AccountsInv
<1> QED BY <1>1, <1>2, <1>3, PTL DEF Spec

\* What BackedInv says of one book in memory, the pass being p.
Carried(bk, b, p) ==
  IF p.pc = "settle" /\ p.b = b
  THEN /\ Sustained(bk, p.under, GroupsOf(bk.settled) \cap GroupsOf(p.due))
       /\ \A c \in Held(bk.held) : GroupOf(c) \in GroupsOf(p.due) => c \in p.due
  ELSE NoShares(bk) /\ Bears(bk)

\* And of one in the store.
Filed(bk) == \E u \in [Roots -> Unders \cup {0}] : Sustained(bk, u, GroupsOf(bk.settled))

LEMMA BackedIs ==
  BackedInv <=> \A b \in Books \ exposed : Filed(file[b]) /\ Carried(book[b], b, pass)
BY DEF BackedInv, Filed, Carried

\* What memory carries may be filed at any moment.
LEMMA CarriedIsFiled ==
  ASSUME NEW bk, Reckoned(bk), NEW b, NEW p, Carried(bk, b, p),
         p.pc = "settle" => p.under \in [Roots -> Unders \cup {0}]
  PROVE  Filed(bk)
<1>1. CASE p.pc = "settle" /\ p.b = b
  <2>1. p.under \in [Roots -> Unders \cup {0}] /\ p.under \in [Roots -> Nat]
    BY <1>1, PricesAre
  <2>2. Sustained(bk, p.under, GroupsOf(bk.settled) \cap GroupsOf(p.due))
    BY <1>1 DEF Carried
  <2>3. Sustained(bk, p.under, GroupsOf(bk.settled))
    BY <2>1, <2>2, Loosened
  <2> QED BY <2>1, <2>3 DEF Filed
<1>2. CASE ~(p.pc = "settle" /\ p.b = b)
  <2> DEFINE u == [r \in Roots |-> 0]
  <2>1. u \in [Roots -> Unders \cup {0}] /\ u \in [Roots -> Nat]
    BY PricesAre
  <2> HIDE DEF u
  <2>2. Sustained(bk, u, GroupsOf(bk.settled))
    BY <1>2, <2>1, AtRest DEF Carried
  <2> QED BY <2>1, <2>2 DEF Filed
<1> QED BY <1>1, <1>2

\* A book raised from the store bears its loss, unless a settlement of it was cut short.
LEMMA FiledBears ==
  ASSUME NEW bk, Reckoned(bk), Filed(bk), NoShares(bk), ~PartSettled(bk)
  PROVE  Bears(bk)
<1>1. PICK u \in [Roots -> Unders \cup {0}] : Sustained(bk, u, GroupsOf(bk.settled))
  BY DEF Filed
<1>2. u \in [Roots -> Nat]
  BY PricesAre
<1>3. \A g \in Groups(bk.held) : g \notin GroupsOf(bk.settled)
  <2> SUFFICES ASSUME NEW g \in Groups(bk.held), g \in GroupsOf(bk.settled) PROVE FALSE
    OBVIOUS
  <2>1. PICK d \in Contracts : bk.held[d] # 0 /\ g = GroupOf(d)
    BY DEF Groups, Held
  <2>2. PICK c \in bk.settled : g = GroupOf(c)
    BY DEF GroupsOf
  <2>3. c \in Contracts
    BY DEF Reckoned
  <2> QED BY <2>1, <2>2, <2>3 DEF PartSettled
<1>4. Sustained(bk, u, {})
  BY <1>1, <1>2, <1>3, Loosened
<1> QED BY <1>2, <1>4, BearingIs

\* Settle: one contract of a book goes, and its group is at its worst no longer.
LEMMA SettledCarries ==
  ASSUME ArenaInv, AccountsInv, AccountsInv', NEW c \in Contracts, PassSettle(c),
         pass.b \in Books, Carried(book[pass.b], pass.b, pass)
  PROVE  Carried(book'[pass.b], pass.b, pass')
<1> DEFINE b == pass.b
           bk == book[b]
           u == pass.under
           g == GroupOf(c)
           due == GroupsOf(pass.due)
           after == Settled(bk, c, u[Term[c].root])
           G == GroupsOf(bk.settled) \cap due
<1>1. /\ pass.pc = "settle" /\ c \in pass.due
      /\ book' = [book EXCEPT ![b] = after] /\ pass' = [pass EXCEPT !.due = @ \ {c}]
  BY DEF PassSettle, Keep, Written, WriteFails
<1>2. /\ pass'.pc = "settle" /\ pass'.b = b /\ pass'.under = u /\ pass'.due = pass.due \ {c}
  BY <1>1 DEF ArenaInv, PassOnTime, PassFields
<1>3. DOMAIN book = Books
  BY DEF ArenaInv, BooksKept
<1>4. book'[b] = after /\ Reckoned(bk) /\ Reckoned(after)
  BY <1>1, <1>3 DEF AccountsInv
<1>5. u \in [Roots -> Nat]
  BY <1>1, PricesAre DEF AccountsInv, Settling
<1>6. Sustained(bk, u, G) /\ \A d \in Held(bk.held) : GroupOf(d) \in due => d \in pass.due
  BY <1>1 DEF Carried
<1>7. /\ after.held = [bk.held EXCEPT ![c] = 0] /\ after.settled = bk.settled \cup {c}
      /\ bk.held \in Holdings
  BY <1>4 DEF Settled, Reckoned, NewBook
<1> HIDE DEF after, bk, u
<1>8. Sustained(bk, u, G \cup {g})
  BY <1>4, <1>5, <1>6, Loosened
<1>9. Sustained(after, u, G \cup {g})
  <2>1. g \in G \cup {g}
    OBVIOUS
  <2> HIDE DEF g, G
  <2> QED BY <1>4, <1>5, <1>8, <2>1, SettledSustains DEF after, g
<1> DEFINE rest == GroupsOf(pass.due \ {c})
           H == GroupsOf(after.settled) \cap rest
<1>10. ASSUME NEW d \in Held(after.held)
       PROVE  d \in Held(bk.held) /\ d # c
  BY <1>7 DEF Held, Holdings
<1>11. ASSUME NEW d \in Held(after.held), GroupOf(d) \in due
       PROVE  d \in pass.due \ {c} /\ GroupOf(d) \in rest
  <2>1. d \in pass.due \ {c}
    BY <1>6, <1>10, <1>11
  <2> QED BY <2>1 DEF GroupsOf
<1>12. g \in due /\ g \in GroupsOf(after.settled) /\ GroupsOf(bk.settled) \subseteq GroupsOf(after.settled)
       /\ rest \subseteq due
  BY <1>1, <1>7 DEF GroupsOf
<1>13. \A x \in Groups(after.held) : x \in G \cup {g} => x \in H
  <2> SUFFICES ASSUME NEW x \in Groups(after.held), x \in G \cup {g} PROVE x \in H
    OBVIOUS
  <2>1. PICK d \in Held(after.held) : x = GroupOf(d)
    BY DEF Groups
  <2>2. x \in due /\ x \in GroupsOf(after.settled)
    BY <1>12
  <2> QED BY <1>11, <2>1, <2>2
<1> HIDE DEF G, H, g
<1>14. Sustained(after, u, H)
  BY <1>4, <1>5, <1>9, <1>13, Loosened
<1>15. \A d \in Held(after.held) : GroupOf(d) \in rest => d \in pass.due \ {c}
  BY <1>11, <1>12
<1> QED BY <1>2, <1>4, <1>14, <1>15 DEF Carried, H

\* Looked up and not yet settled: what a book at rest holds of a group is due together.
LEMMA ExpiryCarries ==
  ASSUME ArenaInv, AccountsInv, AccountsInv', NEW b \in Books, PassExpire(b),
         NoShares(book[b]), Bears(book[b])
  PROVE  Carried(book'[b], b, pass')
<1> DEFINE bk == book[b]
           due == Due(bk, pass.now)
<1>1. PICK under \in [Roots -> Unders] :
        pass' = [pc |-> "settle", now |-> pass.now, open |-> pass.open,
                 todo |-> pass.todo \ {b}, b |-> b,
                 due |-> {c \in due : under[Term[c].root] > 0},
                 under |-> [r \in Roots |->
                   IF \E c \in due : Term[c].root = r THEN under[r] ELSE 0]]
  BY DEF PassExpire
<1>2. pass'.pc = "settle" /\ pass'.b = b /\ pass'.due = {c \in due : under[Term[c].root] > 0}
  BY <1>1
<1>3. pass'.under \in [Roots -> Nat]
  BY <1>2, PricesAre DEF AccountsInv, Settling
<1>4. Reckoned(bk) /\ SoundBook(bk) /\ Reckoned(book'[b])
  BY DEF AccountsInv, ArenaInv, BooksKept
<1>5. Untouched(bk, book'[b])
  <2>1. UNCHANGED book \/ Keep(b, ExpireDay(bk, pass.now))
    BY DEF PassExpire, Unkept
  <2>2. CASE Keep(b, ExpireDay(bk, pass.now))
    <3>1. book'[b] = ExpireDay(bk, pass.now)
      BY <2>2 DEF Keep, Written, WriteFails, ArenaInv, BooksKept
    <3> QED BY <1>4, <3>1, ExpiryTouchesNone
  <2> QED BY <1>4, <2>1, <2>2, UntouchedOn
<1>6. NoShares(book'[b]) /\ Bears(book'[b])
  BY <1>4, <1>5, QuietBears
<1>7. Sustained(book'[b], pass'.under, GroupsOf(book'[b].settled) \cap GroupsOf(pass'.due))
  BY <1>3, <1>4, <1>6, AtRest
<1>8. ASSUME NEW c \in Held(book'[b].held), GroupOf(c) \in GroupsOf(pass'.due)
      PROVE  c \in pass'.due
  <2>1. c \in Held(bk.held)
    BY <1>5 DEF Untouched
  <2>2. PICK d \in pass'.due : GroupOf(d) = GroupOf(c)
    BY <1>8 DEF GroupsOf
  <2>3. Term[d].root = Term[c].root /\ Term[d].expiry = Term[c].expiry
    BY <2>2 DEF GroupOf
  <2>4. d \in due /\ under[Term[d].root] > 0
    BY <1>2
  <2>5. c \in due
    BY <2>1, <2>3, <2>4 DEF Due
  <2> QED BY <1>2, <2>3, <2>4, <2>5
<1> QED BY <1>2, <1>7, <1>8 DEF Carried

\* What no step of a settlement is about.
LEMMA PassElsewhere ==
  ASSUME ArenaInv, [Next]_vars, ~Crash, ~PassSettled,
         \A b \in Books : ~PassExpire(b), \A c \in Contracts : ~PassSettle(c)
  PROVE  IF pass.pc = "settle" THEN pass' = pass ELSE pass'.pc # "settle"
<1>1. CASE pass' = pass
  BY <1>1
<1>2. CASE PassFill
  <2>1. pass.pc = "fill" /\ DOMAIN pass = {"pc", "now", "queue", "cur", "m", "left", "took"}
    BY <1>2 DEF PassFill, ArenaInv, PassOnTime, PassFields
  <2>2. PICK e, told :
          /\ DOMAIN told = DOMAIN pass
          /\ \/ pass' = NextInQueue(told)
             \/ pass' = [told EXCEPT !.pc = "mark", !.cur = e]
    BY <1>2, <2>1, PassFillTells
  <2>3. pass'.pc \in {"idle", "fill", "mark"}
    <3>1. CASE pass' = NextInQueue(told)
      BY <2>1, <2>2, <3>1, NextOfQueue
    <3>2. CASE pass' = [told EXCEPT !.pc = "mark", !.cur = e]
      BY <2>1, <2>2, <3>2
    <3> QED BY <2>2, <3>1, <3>2
  <2> QED BY <2>1, <2>3
<1>3. CASE PassMark
  <2>1. pass.pc = "mark" /\ DOMAIN pass = {"pc", "now", "queue", "cur", "m", "left", "took"}
    BY <1>3 DEF PassMark, ArenaInv, PassOnTime, PassFields
  <2>2. pass' = NextInQueue(pass)
    BY <1>3 DEF PassMark
  <2>3. pass'.pc \in {"idle", "fill"}
    BY <2>1, <2>2, NextOfQueue
  <2> QED BY <2>1, <2>3
<1>4. CASE PassBegin \/ PassGather \/ PassQuotes \/ PassFails
  BY <1>4 DEF PassBegin, PassGather, PassQuotes, PassFails, NoPass
<1> QED BY <1>1, <1>2, <1>3, <1>4, PassLeft DEF Matcher

\* Every step: what bears its loss goes on bearing it, and what is settled comes to what it
\* was worth.
LEMMA BackedStep ==
  ASSUME ArenaInv, AccountsInv, AccountsInv', BackedInv, [Next]_vars
  PROVE  BackedInv'
<1>0. ASSUME NEW b \in Books
      PROVE  /\ Reckoned(book[b]) /\ Reckoned(file[b]) /\ SoundBook(book[b])
             /\ Reckoned(book'[b]) /\ Reckoned(file'[b])
  BY DEF AccountsInv, ArenaInv, BooksKept
<1>1. exposed \subseteq exposed'
  <2>1. ASSUME Participants PROVE exposed' = exposed
    BY <2>1 DEF Participants, PlaceBegin, PlaceSubmit, MoveBegin, MoveSubmit, CallRefused, Cancel,
                Remember
  <2>2. ASSUME Matcher PROVE exposed \subseteq exposed'
    BY <2>2 DEF Matcher, PassBegin, PassSettled, PassGather, PassQuotes, PassFails, PassFill,
                PassMark, PassExpire, PassSettle
  <2> QED BY <2>1, <2>2 DEF Next, Crash, Advance, vars
<1>2. \A b \in Books \ exposed : Filed(file[b]) /\ Carried(book[b], b, pass)
  BY BackedIs
<1>3. SUFFICES ASSUME NEW b \in Books \ exposed'
               PROVE  Filed(file'[b]) /\ Carried(book'[b], b, pass')
  BY BackedIs DEF BackedInv, Filed, Carried
<1>4. b \in Books /\ b \notin exposed /\ Filed(file[b]) /\ Carried(book[b], b, pass)
  BY <1>1, <1>2, <1>3
<1>5. CASE Crash
  <2>1. /\ book' = file /\ file' = file /\ pass'.pc = "idle"
        /\ ~PartSettled(file[b]) /\ NoShares(file[b])
    BY <1>3, <1>4, <1>5 DEF Crash, NoPass, NoShares
  <2>2. Bears(file[b])
    BY <1>0, <1>4, <2>1, FiledBears
  <2> QED BY <1>4, <2>1, <2>2 DEF Carried
<1>6. ASSUME ~Crash PROVE Carried(book'[b], b, pass')
  <2>1. Quiet \/ \E c \in Contracts : PassSettle(c)
    BY <1>6, StepTouches DEF ArenaInv, AccountsInv
  <2>2. ASSUME NEW c \in Contracts, PassSettle(c) PROVE Carried(book'[b], b, pass')
    <3>1. CASE b = pass.b
      BY <1>4, <2>2, <3>1, SettledCarries
    <3>2. CASE b # pass.b
      <4>1. /\ pass.pc = "settle" /\ pass' = [pass EXCEPT !.due = @ \ {c}]
            /\ book'[b] = book[b]
        BY <1>4, <2>2, <3>2 DEF PassSettle, Keep, Written, WriteFails, ArenaInv, BooksKept
      <4>2. pass'.b = pass.b
        BY <4>1 DEF ArenaInv, PassOnTime, PassFields
      <4> QED BY <1>4, <3>2, <4>1, <4>2 DEF Carried
    <3> QED BY <3>1, <3>2
  <2>3. ASSUME NEW d \in Books, PassExpire(d) PROVE Carried(book'[b], b, pass')
    <3>1. pass.pc = "expire" /\ pass'.pc = "settle" /\ pass'.b = d
      BY <2>3 DEF PassExpire
    <3>2. NoShares(book[b]) /\ Bears(book[b])
      BY <1>4, <3>1 DEF Carried
    <3>3. CASE b = d
      BY <2>3, <3>2, <3>3, ExpiryCarries
    <3>4. CASE b # d
      <4>1. book'[b] = book[b]
        BY <1>4, <2>3, <3>4, PassExpireGoesOn DEF ArenaInv
      <4> QED BY <3>1, <3>2, <3>4, <4>1 DEF Carried
    <3> QED BY <3>3, <3>4
  <2>4. CASE PassSettled
    <3>1. /\ pass.pc = "settle" /\ pass.due = {} /\ pass'.pc = "expire" /\ book' = book
          /\ b = pass.b => NoShares(book[b])
      BY <1>3, <1>4, <2>4 DEF PassSettled, NoShares
    <3>2. CASE b = pass.b
      <4>1. GroupsOf(book[b].settled) \cap GroupsOf(pass.due) = {}
        BY <3>1 DEF GroupsOf
      <4>2. Sustained(book[b], pass.under, {})
        BY <1>4, <3>1, <3>2, <4>1 DEF Carried
      <4>3. pass.under \in [Roots -> Nat]
        BY <3>1, PricesAre DEF AccountsInv, Settling
      <4>4. Bears(book[b])
        BY <1>0, <1>4, <3>1, <3>2, <4>2, <4>3, BearingIs
      <4> QED BY <3>1, <3>2, <4>4 DEF Carried
    <3>3. CASE b # pass.b
      BY <1>4, <3>1, <3>3 DEF Carried
    <3> QED BY <3>2, <3>3
  <2>5. ASSUME ~PassSettled, \A d \in Books : ~PassExpire(d), \A c \in Contracts : ~PassSettle(c)
        PROVE  Carried(book'[b], b, pass')
    <3>1. IF pass.pc = "settle" THEN pass' = pass ELSE pass'.pc # "settle"
      BY <1>6, <2>5, PassElsewhere
    <3>2. Untouched(book[b], book'[b]) \/ (pass.pc = "fill" /\ Fills(book[b], book'[b]))
      BY <1>4, <2>1, <2>5 DEF Quiet
    <3>3. CASE pass.pc = "settle" /\ pass.b = b
      <4>1. Untouched(book[b], book'[b]) /\ pass' = pass
        BY <3>1, <3>2, <3>3
      <4>2. book'[b].held = book[b].held /\ book'[b].settled = book[b].settled
        BY <4>1 DEF Untouched
      <4>3. /\ Sustained(book[b], pass.under, GroupsOf(book[b].settled) \cap GroupsOf(pass.due))
            /\ \A c \in Held(book[b].held) : GroupOf(c) \in GroupsOf(pass.due) => c \in pass.due
        BY <1>4, <3>3 DEF Carried
      <4>4. Sustained(book'[b], pass.under, GroupsOf(book[b].settled) \cap GroupsOf(pass.due))
        BY <4>1, <4>3, QuietSustains
      <4> QED BY <3>3, <4>1, <4>2, <4>3, <4>4 DEF Carried
    <3>4. CASE ~(pass.pc = "settle" /\ pass.b = b)
      <4>1. NoShares(book[b]) /\ Bears(book[b])
        BY <1>4, <3>4 DEF Carried
      <4>2. NoShares(book'[b]) /\ Bears(book'[b])
        BY <1>0, <1>4, <3>2, <4>1, QuietBears
      <4> QED BY <3>1, <3>4, <4>2 DEF Carried
    <3> QED BY <3>3, <3>4
  <2> QED BY <2>2, <2>3, <2>4, <2>5
<1>7. ASSUME ~Crash PROVE Filed(file'[b])
  <2>1. file'[b] \in {file[b], book[b], book'[b]}
    BY <1>4, <1>7, NextKept DEF BooksGoOn
  <2>2. Filed(book[b])
    BY <1>0, <1>4, CarriedIsFiled DEF AccountsInv, Settling
  <2>3. Filed(book'[b])
    <3>1. Carried(book'[b], b, pass')
      BY <1>6, <1>7
    <3>2. pass'.pc = "settle" => pass'.under \in [Roots -> Unders \cup {0}]
      BY DEF AccountsInv, Settling
    <3>3. Reckoned(book'[b])
      BY <1>0, <1>4
    <3> QED BY <3>1, <3>2, <3>3, CarriedIsFiled
  <2> QED BY <1>4, <2>1, <2>2, <2>3
<1> QED BY <1>5, <1>6, <1>7

\* A book is opened with cash and nothing to lose.
LEMMA InitBacked ==
  ASSUME Init
  PROVE  BackedInv
<1> DEFINE u == [r \in Roots |-> 0]
<1>1. /\ \A b \in Books : book[b] = NewBook /\ file[b] = NewBook
      /\ pass.pc = "idle"
  BY DEF Init, NoPass
<1>2. Books # {}
  BY ArenaAssumption
<1>3. Reckoned(NewBook) /\ NoShares(NewBook)
  BY BookAssumption DEF Reckoned, NewBook, Empty, Holdings, NoShares
<1>4. Bears(NewBook)
  <2>1. Groups(NewBook.held) = {} /\ NewBook.cash \in Nat
    BY BookAssumption DEF NewBook, Empty, Groups, Held
  <2>2. Worst(NewBook.held) = 0
    <3> DEFINE f == [g \in Groups(NewBook.held) |-> WorstOf(NewBook.held, g)]
    <3>1. DOMAIN f = {}
      BY <2>1
    <3> HIDE DEF f
    <3>2. SumFunction(f) = 0
      BY <3>1, SumOfNone DEF SumFunction
    <3> QED BY <3>2 DEF Worst, f
  <2> QED BY <2>1, <2>2 DEF Bears, Unbounded
<1>5. \A b : Carried(NewBook, b, pass)
  BY <1>1, <1>3, <1>4 DEF Carried
<1>6. Filed(NewBook)
  <2>1. u \in [Roots -> Unders \cup {0}] /\ u \in [Roots -> Nat]
    BY PricesAre
  <2> HIDE DEF u
  <2>2. Sustained(NewBook, u, GroupsOf(NewBook.settled))
    BY <1>3, <1>4, <2>1, AtRest
  <2> QED BY <2>1, <2>2 DEF Filed
<1> QED BY <1>1, <1>5, <1>6, BackedIs

\* book.go, Fill, and risk.go: whatever participants submit and move, whatever fills, in
\* whatever order and part and at whatever prices, a book that holds contracts only has a
\* loss with an end and the cash to bear it - through failed writes and restarts, and again
\* once what expired has been settled without leaving shares.
THEOREM LossBacked == Spec => []LossIsBacked
<1> DEFINE Inv == ArenaInv /\ AccountsInv /\ BackedInv
<1>1. Init => Inv
  BY InitKept, InitAddsUp, InitBacked
<1>2. Inv /\ [Next]_vars => Inv'
  <2> SUFFICES ASSUME Inv, [Next]_vars PROVE Inv'
    OBVIOUS
  <2>1. ArenaInv'
    BY NextKept
  <2>2. AccountsInv'
    BY AccountsStep
  <2> QED BY <2>1, <2>2, BackedStep
<1>3. Inv => LossIsBacked
  BY DEF BackedInv, LossIsBacked
<1> QED BY <1>1, <1>2, <1>3, PTL DEF Spec

\* An order the store holds, as a participant sees it.
LEMMA StoredIsSound ==
  ASSUME NEW o, SoundOrder(o), NEW p, SoundOrder(p), Ages(o, p)
  PROVE  LET x == [qty |-> o.qty, filled |-> o.filled, open |-> IsOpen(o)]
             y == [qty |-> p.qty, filled |-> p.filled, open |-> IsOpen(p)]
         IN  Life!Sound(y) /\ Life!Follows(x, y)
<1> DEFINE a == IsOpen(o)
           b == IsOpen(p)
<1>1. a \in BOOLEAN /\ b \in BOOLEAN /\ (a = FALSE => b = FALSE /\ p.filled = o.filled)
  BY DEF Ages, IsOpen
<1>2. b = TRUE => p.filled < p.qty
  BY DEF SoundOrder
<1>3. /\ p.qty = o.qty /\ p.filled >= o.filled
      /\ p.qty \in Nat \ {0} /\ p.filled \in 0..p.qty
  BY DEF SoundOrder, Ages
<1> DEFINE x == [qty |-> o.qty, filled |-> o.filled, open |-> a]
           y == [qty |-> p.qty, filled |-> p.filled, open |-> b]
<1> HIDE DEF a, b
<1>4. Life!Sound(y)
  BY <1>1, <1>2, <1>3 DEF Life!Sound, Life!Order
<1>5. Life!Follows(x, y)
  BY <1>1, <1>3 DEF Life!Follows
<1> QED BY <1>4, <1>5 DEF a, b

\* store.go, Save and Load: what the store shows of the orders is the life an order is
\* promised, through failed writes and restarts.
THEOREM IsOrderLife == Spec => ImplementsOrderLife
<1> DEFINE shown(f) ==
      [b \in Books |-> [i \in DOMAIN f[b].orders |->
         [qty    |-> f[b].orders[i].qty,
          filled |-> f[b].orders[i].filled,
          open   |-> IsOpen(f[b].orders[i])]]]
<1>1. Init => Life!Init
  <2> SUFFICES ASSUME Init, NEW b \in Books
               PROVE  [i \in DOMAIN file[b].orders |->
                         [qty    |-> file[b].orders[i].qty,
                          filled |-> file[b].orders[i].filled,
                          open   |-> IsOpen(file[b].orders[i])]] = <<>>
    BY DEF Life!Init
  <2>1. file[b].orders = <<>>
    BY DEF Init, NewBook
  <2> QED BY <2>1
<1>2. ArenaInv /\ [Next]_vars => Life!Next
  <2> SUFFICES ASSUME ArenaInv, [Next]_vars, NEW b \in Books
               PROVE  Life!Write(b)
    BY DEF Life!Next
  <2>1. SoundBook(file[b]) /\ SoundBook(file'[b]) /\ Grows(file[b], file'[b])
    BY NextKept DEF ArenaInv, BooksKept
  <2>2. /\ DOMAIN file[b].orders \subseteq DOMAIN file'[b].orders
        /\ \A i \in DOMAIN file[b].orders :
             /\ SoundOrder(file[b].orders[i]) /\ SoundOrder(file'[b].orders[i])
             /\ Ages(file[b].orders[i], file'[b].orders[i])
        /\ \A i \in DOMAIN file'[b].orders :
             SoundOrder(file'[b].orders[i]) /\ Ages(file'[b].orders[i], file'[b].orders[i])
    BY <2>1, AgesOn DEF SoundBook, Grows
  <2> QED BY <2>2, StoredIsSound DEF Life!Write
<1> QED BY <1>1, <1>2, Kept, PTL DEF Spec, ImplementsOrderLife, Life!Spec
=============================================================================
