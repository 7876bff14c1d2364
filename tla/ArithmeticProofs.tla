-------------------------- MODULE ArithmeticProofs --------------------------
(***************************************************************************)
(* What is worked out from its arguments alone, for every argument: what   *)
(* an order may lose, and what a book with it may, for any contracts,      *)
(* legs, sizes, prices and accounts; what a staged market answers, for any *)
(* scenario that is accepted, any real market and any moment; the name and *)
(* the price of an order that is replaced again and again; and what an     *)
(* account shows, for any orders, readings and settlements.                *)
(***************************************************************************)
EXTENDS Arithmetic, Sums, SequenceTheorems, TLAPS

-----------------------------------------------------------------------------
(* Largest and smallest.                                                   *)

\* A finite set of numbers has a largest and a smallest.
LEMMA MaxIs ==
  ASSUME NEW S, IsFiniteSet(S), S # {}, S \subseteq Int
  PROVE  Max(S) \in S /\ \A y \in S : y <= Max(S)
<1> DEFINE id == [x \in S |-> x]
<1>1. \A x \in S : id[x] = x /\ id[x] \in Int
  OBVIOUS
<1> HIDE DEF id
<1>2. \E a \in S : \A x \in S : id[x] <= id[a]
  BY <1>1, HasLargest
<1>3. \E a \in S : \A x \in S : a >= x
  BY <1>1, <1>2
<1> QED BY <1>3 DEF Max

\* And the smallest.
LEMMA MinIs ==
  ASSUME NEW S, IsFiniteSet(S), S # {}, S \subseteq Int
  PROVE  Min(S) \in S /\ \A y \in S : Min(S) <= y
<1> DEFINE minus == [x \in S |-> -x]
<1>1. \A x \in S : minus[x] = -x /\ minus[x] \in Int /\ x \in Int
  OBVIOUS
<1> HIDE DEF minus
<1>2. \E a \in S : \A x \in S : minus[x] <= minus[a]
  BY <1>1, HasLargest
<1>3. \E a \in S : \A x \in S : a <= x
  BY <1>1, <1>2
<1> QED BY <1>3 DEF Min

\* A pair is finite.
LEMMA PairIsFinite == ASSUME NEW x, NEW y PROVE IsFiniteSet({x, y})
<1>1. IsFiniteSet({x}) /\ {x} \cup {y} = {x, y}
  BY FS_Singleton
<1>2. IsFiniteSet({x} \cup {y})
  BY <1>1, FS_AddElement
<1> QED BY <1>1, <1>2

\* The smaller of zero and a number.
LEMMA MinWithZero ==
  ASSUME NEW x \in Int
  PROVE  Min({0, x}) = IF x <= 0 THEN x ELSE 0
<1>1. IsFiniteSet({0, x}) /\ {0, x} \subseteq Int /\ {0, x} # {}
  BY PairIsFinite
<1> QED BY <1>1, MinIs

\* The smaller of two numbers.
LEMMA MinOfTwo ==
  ASSUME NEW x \in Int, NEW y \in Int
  PROVE  Min({x, y}) = IF x <= y THEN x ELSE y
<1>1. IsFiniteSet({x, y}) /\ {x, y} # {} /\ {x, y} \subseteq Int
  BY PairIsFinite
<1>2. Min({x, y}) \in {x, y} /\ \A z \in {x, y} : Min({x, y}) <= z
  BY <1>1, MinIs
<1> QED BY <1>2

\* The larger of two numbers.
LEMMA MaxOfTwo ==
  ASSUME NEW x \in Int, NEW y \in Int
  PROVE  Max({x, y}) = IF x <= y THEN y ELSE x
<1>1. \E a \in {x, y} : \A z \in {x, y} : a >= z
  <2>1. CASE x <= y
    BY <2>1
  <2>2. CASE ~(x <= y)
    BY <2>2
  <2> QED BY <2>1, <2>2
<1>2. Max({x, y}) \in {x, y} /\ \A z \in {x, y} : Max({x, y}) >= z
  BY <1>1 DEF Max
<1> QED BY <1>2

-----------------------------------------------------------------------------
(* What contracts come to.                                                 *)

Call   == [c \in Contracts |-> Term[c].call]
Strike == [c \in Contracts |-> Term[c].strike]

\* What the contracts of H, q of each, come to for a unit of the underlying, ending at s.
Payoff(q, H, s) == SumFunctionOnSet([c \in Contracts |-> Intrinsic(c, s) * q[c]], H)

\* What a contract is worth at expiry.
LEMMA IntrinsicIs ==
  ASSUME NEW c \in Contracts, NEW s \in Nat
  PROVE  Intrinsic(c, s) = EndValue(Call[c], Strike[c], s)
<1>1. Term[c].strike \in Int /\ s - Term[c].strike \in Int /\ Term[c].strike - s \in Int
  BY RiskAssumption
<1> QED BY <1>1, MaxOfTwo DEF Intrinsic, EndValue, Call, Strike

\* The payoff of contracts is a sum of what rights come to.
LEMMA PayoffIs ==
  ASSUME NEW q \in Holdings, NEW H, H \subseteq Contracts, NEW s \in Nat
  PROVE  /\ IsFiniteSet(H)
         /\ \A c \in H : Strike[c] \in Nat /\ q[c] \in Int
         /\ \A c \in H : Intrinsic(c, s) \in Nat /\ Intrinsic(c, s) * q[c] \in Int
         /\ Payoff(q, H, s) = SumFunctionOnSet(EndValues(Call, Strike, q, H, s), H)
         /\ Payoff(q, H, s) \in Int
<1> DEFINE value == [c \in Contracts |-> Intrinsic(c, s) * q[c]]
<1>1. IsFiniteSet(H)
  BY RiskAssumption, FS_Subset
<1>2. \A c \in H : Strike[c] \in Nat /\ q[c] \in Int
  BY RiskAssumption DEF Holdings, Strike
<1>3. ASSUME NEW c \in H
      PROVE  Intrinsic(c, s) \in Nat /\ Intrinsic(c, s) * q[c] \in Int
  <2>1. Intrinsic(c, s) \in Nat
    BY <1>2, IntrinsicIs DEF EndValue
  <2> QED BY <1>2, <2>1
<1>4. \A c \in H : value[c] = EndValues(Call, Strike, q, H, s)[c]
  BY IntrinsicIs DEF EndValues
<1>5. SumFunctionOnSet(value, H) = SumFunctionOnSet(EndValues(Call, Strike, q, H, s), H)
  <2> HIDE DEF value
  <2> QED BY <1>1, <1>4, SumOfSame
<1>6. SumFunctionOnSet(EndValues(Call, Strike, q, H, s), H) \in Int
  BY <1>1, <1>2, EndValuesAreWhole
<1> QED BY <1>1, <1>2, <1>3, <1>5, <1>6 DEF Payoff

\* The prices looked at are finitely many, every strike among them, and none is higher
\* than the ends the properties range over.
LEMMA ProbesAre ==
  ASSUME NEW cs, cs \subseteq Contracts, cs # {}
  PROVE  /\ IsFiniteSet(Probes(cs)) /\ 0 \in Probes(cs)
         /\ \A p \in Probes(cs) : p \in Nat /\ p \in 0..Highest
         /\ \A c \in cs : Strike[c] \in Probes(cs)
<1> DEFINE ks == {Strike[c] : c \in cs}
           all == {Strike[c] : c \in Contracts}
<1>1. IsFiniteSet(cs) /\ IsFiniteSet(Contracts)
  BY RiskAssumption, FS_Subset
<1>2. IsFiniteSet(ks) /\ IsFiniteSet(all)
  BY <1>1, ImageIsFinite
<1>3. ks # {} /\ ks \subseteq all /\ all \subseteq Nat
  BY RiskAssumption DEF Strike
<1>4. Max(ks) \in ks /\ \A y \in all : y <= Max(all)
  <2> HIDE DEF ks, all
  <2>1. \E k \in ks : k \in all
    BY <1>3
  <2>2. ks \subseteq Int /\ all \subseteq Int /\ all # {}
    BY <1>3, <2>1
  <2> QED BY <1>2, <1>3, <2>2, MaxIs
<1>5. Probes(cs) = {0, 2 * Max(ks)} \cup ks
  <2>1. ks = {Term[c].strike : c \in cs}
    BY DEF Strike
  <2> HIDE DEF ks
  <2> QED BY <2>1 DEF Probes
<1>6. Highest = 3 * Max(all)
  <2>1. all = {Term[c].strike : c \in Contracts}
    BY DEF Strike
  <2> HIDE DEF all
  <2> QED BY <2>1 DEF Highest
<1>7. \A c \in cs : Strike[c] \in ks
  OBVIOUS
<1> HIDE DEF ks, all
<1>8. Max(ks) \in Nat /\ Max(all) \in Nat /\ \A k \in ks : k \in Nat /\ k <= Max(all)
  <2>1. Max(ks) \in all
    BY <1>3, <1>4
  <2>2. \A k \in all : k \in Int
    BY <1>3
  <2>3. all # {} /\ all \subseteq Int
    BY <2>1, <2>2
  <2>4. Max(all) \in all
    BY <1>2, <2>3, MaxIs
  <2> QED BY <1>3, <1>4, <2>4
<1>9. IsFiniteSet({0, 2 * Max(ks)} \cup ks)
  <2>1. IsFiniteSet({0, 2 * Max(ks)})
    BY PairIsFinite
  <2> QED BY <1>2, <2>1, FS_Union
<1> QED BY <1>4, <1>5, <1>6, <1>7, <1>8, <1>9

\* toobig.go: "the payoff of a spread is piecewise linear, so its worst point is at one of
\* the strikes, at zero, or far above the highest strike."
LEMMA ProbesSuffice ==
  ASSUME NEW q \in Holdings, NEW H, H \subseteq Contracts, H # {},
         SumFunctionOnSet(q, {c \in H : Term[c].call}) >= 0, NEW s \in Nat
  PROVE  \E p \in Probes(H) : Payoff(q, H, p) <= Payoff(q, H, s)
<1>1. {c \in H : Call[c]} = {c \in H : Term[c].call}
  BY DEF Call
<1>2. IsFiniteSet(H) /\ \A c \in H : Strike[c] \in Nat /\ q[c] \in Int
  BY PayoffIs
<1>3. /\ IsFiniteSet(Probes(H)) /\ Probes(H) \subseteq Nat /\ 0 \in Probes(H)
      /\ \A c \in H : Strike[c] \in Probes(H)
  BY ProbesAre
<1>4. \E p \in Probes(H) : SumFunctionOnSet(EndValues(Call, Strike, q, H, p), H)
                             <= SumFunctionOnSet(EndValues(Call, Strike, q, H, s), H)
  BY <1>1, <1>2, <1>3, LeastAtABend
<1> QED BY <1>3, <1>4, PayoffIs

-----------------------------------------------------------------------------
(* What an order may lose.                                                 *)

\* The numbers of an order that can be judged.
LEMMA OrderNumbers ==
  ASSUME NEW o, IsOrder(o), WorstCaseIsKnown(o)
  PROVE  /\ o.legs \in Holdings /\ o.limit \in Int /\ WorstPrice(o) \in Int
         /\ Resting(o) \in Nat \ {0} /\ o.quantity \in Nat \ {0}
         /\ LegsOf(o) \subseteq Contracts /\ LegsOf(o) # {}
         /\ Multiplier * Resting(o) \in Nat
<1>1. o.legs \in Holdings /\ o.limit \in Int /\ o.floor \in Int \cup {NoFloor}
      /\ o.quantity \in Int /\ o.filled \in Int
  BY DEF IsOrder
<1>2. Resting(o) \in Nat \ {0} /\ o.quantity \in Nat \ {0}
  BY <1>1 DEF WorstCaseIsKnown, Resting
<1>3. WorstPrice(o) \in Int
  BY <1>1 DEF WorstPrice
<1>4. LegsOf(o) \subseteq Contracts /\ LegsOf(o) # {}
  BY DEF WorstCaseIsKnown, LegsOf
<1>5. Multiplier * Resting(o) \in Nat
  BY <1>2, RiskAssumption
<1> QED BY <1>1, <1>2, <1>3, <1>4, <1>5

\* What it comes to is a whole number, and less at a higher price paid.
LEMMA FilledWorthIs ==
  ASSUME NEW o, IsOrder(o), WorstCaseIsKnown(o), NEW s \in Nat, NEW p \in Int
  PROVE  /\ FilledWorth(o, p, s) = Multiplier * Resting(o) * (Payoff(o.legs, LegsOf(o), s) - p)
         /\ FilledWorth(o, p, s) \in Int
         /\ Payoff(o.legs, LegsOf(o), s) \in Int
<1>1. Payoff(o.legs, LegsOf(o), s) \in Int /\ Multiplier * Resting(o) \in Nat
  BY OrderNumbers, PayoffIs
<1>2. FilledWorth(o, p, s) = Multiplier * Resting(o) * (Payoff(o.legs, LegsOf(o), s) - p)
  BY DEF FilledWorth, Payoff
<1> QED BY <1>1, <1>2

\* Calls are covered: the payoff of the legs does not fall past the last strike.
LEMMA CoveredRises ==
  ASSUME NEW o, IsOrder(o), WorstCaseIsKnown(o), ~Uncovered(o)
  PROVE  SumFunctionOnSet(o.legs, {c \in LegsOf(o) : Term[c].call}) >= 0
<1> DEFINE calls0 == {c \in LegsOf(o) : Term[c].call}
           f == [c \in Contracts |-> o.legs[c] * o.quantity]
           S == SumFunctionOnSet(o.legs, calls0)
<1>1. calls0 \subseteq Contracts /\ IsFiniteSet(calls0)
  BY RiskAssumption, FS_Subset DEF LegsOf
<1>2. o.quantity \in Nat \ {0} /\ o.legs \in Holdings
  BY OrderNumbers
<1>3. \A c \in calls0 : o.legs[c] \in Int /\ f[c] = o.quantity * o.legs[c]
  <2> SUFFICES ASSUME NEW c \in calls0 PROVE o.legs[c] \in Int /\ f[c] = o.quantity * o.legs[c]
    OBVIOUS
  <2>1. o.legs[c] \in Int /\ f[c] = o.legs[c] * o.quantity
    BY <1>1, <1>2 DEF Holdings
  <2> QED BY <1>2, <2>1
<1>4. ~(SumFunctionOnSet(f, calls0) < 0)
  BY DEF Uncovered
<1> HIDE DEF f, calls0
<1>5. SumFunctionOnSet(f, calls0) = o.quantity * S /\ S \in Int
  <2>1. o.quantity \in Int
    BY <1>2
  <2>2. SumFunctionOnSet(f, calls0) = o.quantity * SumFunctionOnSet(o.legs, calls0)
    BY <1>1, <1>3, <2>1, SumScaled
  <2> QED BY <1>1, <1>3, <2>2, SumIsInt
<1> HIDE DEF S
<1>6. S >= 0
  <2>1. SUFFICES ASSUME S <= -1 PROVE FALSE
    BY <1>5
  <2>2. o.quantity * S <= -1
    BY <1>2, <1>5, <2>1
  <2>3. o.quantity * S \in Int
    BY <1>2, <1>5
  <2> QED BY <1>4, <1>5, <2>2, <2>3
<1> QED BY <1>6 DEF S, calls0

\* The worst case is zero or what one of the prices looked at comes to, and no more than
\* any of them comes to.
LEMMA WorstCaseIs ==
  ASSUME NEW o, IsOrder(o), WorstCaseIsKnown(o)
  PROVE  /\ WorstCase(o) \in Int /\ WorstCase(o) <= 0
         /\ \A s \in Probes(LegsOf(o)) : WorstCase(o) <= FilledWorth(o, WorstPrice(o), s)
         /\ \/ WorstCase(o) = 0
            \/ \E s \in Probes(LegsOf(o)) : FilledWorth(o, WorstPrice(o), s) = WorstCase(o)
<1> DEFINE P == Probes(LegsOf(o))
           f == [s \in P |-> FilledWorth(o, WorstPrice(o), s)]
           T == {f[s] : s \in P}
<1>1. WorstPrice(o) \in Int /\ IsFiniteSet(P) /\ \A s \in P : s \in Nat
  BY OrderNumbers, ProbesAre
<1>2. \A s \in P : f[s] \in Int /\ f[s] = FilledWorth(o, WorstPrice(o), s)
  BY <1>1, FilledWorthIs
<1>3. WorstCase(o) = Min({0} \cup T)
  <2>1. T = {FilledWorth(o, WorstPrice(o), s) : s \in P}
    OBVIOUS
  <2> HIDE DEF T
  <2> QED BY <2>1 DEF WorstCase
<1>4. IsFiniteSet(T)
  <2> HIDE DEF f, P
  <2> QED BY <1>1, ImageIsFinite
<1>5. \A x \in T : x \in Int
  BY <1>2
<1>6. IsFiniteSet({0} \cup T)
  <2> HIDE DEF T
  <2>1. T \cup {0} = {0} \cup T
    OBVIOUS
  <2>2. IsFiniteSet(T \cup {0})
    BY <1>4, FS_AddElement
  <2> QED BY <2>1, <2>2
<1>7. {0} \cup T \subseteq Int /\ {0} \cup T # {}
  BY <1>5
<1>8. WorstCase(o) \in {0} \cup T /\ \A y \in {0} \cup T : WorstCase(o) <= y
  <2> HIDE DEF T
  <2> QED BY <1>3, <1>6, <1>7, MinIs
<1>9. \A s \in P : FilledWorth(o, WorstPrice(o), s) \in T
  BY <1>2
<1>10. WorstCase(o) = 0 \/ \E s \in P : FilledWorth(o, WorstPrice(o), s) = WorstCase(o)
  BY <1>2, <1>8
<1>11. WorstCase(o) \in Int
  BY <1>7, <1>8
<1> HIDE DEF T, P
<1> QED BY <1>8, <1>9, <1>10, <1>11 DEF P

\* At no price of the underlying, and at no price up to the worst one, does an order whose
\* calls are covered come to less.
LEMMA WorstEverywhere ==
  ASSUME NEW o, IsOrder(o), WorstCaseIsKnown(o), ~Uncovered(o), NEW s \in Nat,
         NEW p \in Int, p <= WorstPrice(o)
  PROVE  WorstCase(o) <= FilledWorth(o, p, s)
<1> DEFINE m == Multiplier * Resting(o)
           V(t) == Payoff(o.legs, LegsOf(o), t)
<1>1. m \in Nat /\ WorstPrice(o) \in Int /\ o.legs \in Holdings
      /\ LegsOf(o) \subseteq Contracts /\ LegsOf(o) # {}
  BY OrderNumbers
<1>2. PICK t \in Probes(LegsOf(o)) : V(t) <= V(s)
  BY <1>1, CoveredRises, ProbesSuffice
<1>3. t \in Nat
  BY <1>1, ProbesAre
<1>4. /\ FilledWorth(o, p, s) = m * (V(s) - p) /\ V(s) \in Int
      /\ FilledWorth(o, WorstPrice(o), t) = m * (V(t) - WorstPrice(o)) /\ V(t) \in Int
  BY <1>1, <1>3, FilledWorthIs
<1>5. WorstCase(o) <= FilledWorth(o, WorstPrice(o), t) /\ WorstCase(o) \in Int
  BY WorstCaseIs
<1> HIDE DEF m, V
<1>6. m * (V(t) - WorstPrice(o)) <= m * (V(s) - p)
  <2>1. V(t) - WorstPrice(o) <= V(s) - p /\ V(t) - WorstPrice(o) \in Int /\ V(s) - p \in Int
    BY <1>1, <1>2, <1>4
  <2> QED BY <1>1, <2>1
<1>7. m * (V(t) - WorstPrice(o)) \in Int /\ m * (V(s) - p) \in Int
  BY <1>1, <1>4
<1> QED BY <1>4, <1>5, <1>6, <1>7

\* The prices it may fill at while it walks are no worse than the worst one.
LEMMA FillsWithin ==
  ASSUME NEW o, IsOrder(o), WorstCaseIsKnown(o), Judged(o), NEW p \in MayFillAt(o)
  PROVE  p \in Int /\ p <= WorstPrice(o)
<1>1. o.limit \in Int /\ WorstPrice(o) \in Int /\ o.limit <= WorstPrice(o)
  BY OrderNumbers DEF Judged
<1>2. Max({o.limit, WorstPrice(o)}) = WorstPrice(o)
  BY <1>1, MaxOfTwo
<1> QED BY <1>1, <1>2 DEF MayFillAt

-----------------------------------------------------------------------------
(* An order that fills part by part.                                       *)

\* What is judged is an order that can be, however much of it has filled.
LEMMA ReadableFirst == Init => OrderIsReadable
BY ArithmeticAssumption DEF Init, OrderIsReadable

\* Every fill keeps it readable.
LEMMA ReadableNext == OrderIsReadable /\ [Next]_vars => OrderIsReadable'
<1> SUFFICES ASSUME OrderIsReadable, [Next]_vars PROVE OrderIsReadable'
  OBVIOUS
<1>1. CASE FillsPart
  <2>1. /\ order # Nothing /\ Resting(order) > 1 /\ account' = account
        /\ order' = [order EXCEPT !.filled = @ + 1]
    BY <1>1 DEF FillsPart
  <2>2. IsOrder(order) /\ WorstCaseIsKnown(order) /\ IsAccount(account)
    BY <2>1 DEF OrderIsReadable
  <2>3. IsOrder(order')
    BY <2>1, <2>2 DEF IsOrder
  <2>4. /\ order'.legs = order.legs /\ order'.quantity = order.quantity
        /\ order'.filled = order.filled + 1
        /\ order.quantity \in Int /\ order.filled \in Int
    BY <2>1, <2>2 DEF IsOrder
  <2>5. WorstCaseIsKnown(order')
    BY <2>1, <2>2, <2>4 DEF WorstCaseIsKnown, LegsOf, Resting
  <2>6. OrderIsReadable' <=> (order' # Nothing => /\ IsOrder(order') /\ WorstCaseIsKnown(order')
                                                 /\ IsAccount(account'))
    BY DEF OrderIsReadable, WorstCaseIsKnown, LegsOf, Resting, IsOrder, IsAccount
  <2> QED BY <2>1, <2>2, <2>3, <2>5, <2>6
<1>2. CASE UNCHANGED <<order, account>>
  BY <1>2 DEF OrderIsReadable, WorstCaseIsKnown, LegsOf, Resting, IsOrder, IsAccount
<1>3. CASE TimePasses \/ Pass \/ Trade \/ Settles \/ Remembers \/ UNCHANGED vars
  BY <1>2, <1>3 DEF TimePasses, Pass, Trade, Settles, Remembers, vars
<1> QED BY <1>1, <1>3 DEF Next

\* toobig.go: whatever of an order has filled, what is left of it can be judged, beside an
\* account that can be read.
THEOREM Readable == Spec => []OrderIsReadable
<1> QED BY ReadableFirst, ReadableNext, PTL DEF Spec

\* toobig.go, WorstCase, asks whether an order can lose more than a position may "at any
\* price it can fill at": the prices it looks at answer for every end of the underlying,
\* and one of them is as bad.
THEOREM WorstKnown == Spec => []WorstIsTheWorst
<1>1. OrderIsReadable => WorstIsTheWorst
  <2> SUFFICES ASSUME OrderIsReadable, order # Nothing, Judged(order)
               PROVE  /\ \A s \in 0..Highest : \A p \in MayFillAt(order) :
                           FilledWorth(order, p, s) >= WorstCase(order)
                      /\ \/ WorstCase(order) = 0
                         \/ \E s \in 0..Highest :
                              FilledWorth(order, WorstPrice(order), s) = WorstCase(order)
    BY DEF WorstIsTheWorst
  <2>1. IsOrder(order) /\ WorstCaseIsKnown(order) /\ ~Uncovered(order)
    BY DEF OrderIsReadable, Judged
  <2>2. ASSUME NEW s \in 0..Highest, NEW p \in MayFillAt(order)
        PROVE  FilledWorth(order, p, s) >= WorstCase(order)
    <3>1. s \in Nat /\ p \in Int /\ p <= WorstPrice(order)
      BY <2>1, FillsWithin
    <3>2. /\ WorstCase(order) <= FilledWorth(order, p, s)
          /\ WorstCase(order) \in Int /\ FilledWorth(order, p, s) \in Int
      BY <2>1, <3>1, WorstEverywhere, WorstCaseIs, FilledWorthIs
    <3> QED BY <3>2
  <2>3. \/ WorstCase(order) = 0
        \/ \E s \in 0..Highest : FilledWorth(order, WorstPrice(order), s) = WorstCase(order)
    <3>1. LegsOf(order) \subseteq Contracts /\ LegsOf(order) # {}
      BY <2>1, OrderNumbers
    <3>2. \A s \in Probes(LegsOf(order)) : s \in 0..Highest
      BY <3>1, ProbesAre
    <3> QED BY <2>1, <3>2, WorstCaseIs
  <2> QED BY <2>2, <2>3
<1> QED BY <1>1, Readable, PTL

-----------------------------------------------------------------------------
(* What a book may lose with an order in it.                               *)

\* What the contracts of a group cost.
PaidIn(held, paid, g) == SumFunctionOnSet(paid, InGroup(held, g))

\* A group that is held has contracts in it, and one that is not has none.
LEMMA GroupIs ==
  ASSUME NEW held, NEW g
  PROVE  /\ InGroup(held, g) = {c \in Contracts : held[c] # 0 /\ GroupOf(c) = g}
         /\ g \in Groups(held) <=> InGroup(held, g) # {}
BY DEF InGroup, Groups, Held

\* The groups held are finitely many.
LEMMA GroupsAreFinite == ASSUME NEW held PROVE IsFiniteSet(Groups(held))
<1> DEFINE f == [c \in Contracts |-> GroupOf(c)]
<1>1. IsFiniteSet(Held(held)) /\ Held(held) \subseteq Contracts
  BY RiskAssumption, FS_Subset DEF Held
<1>2. Groups(held) = {f[c] : c \in Held(held)}
  BY <1>1 DEF Groups
<1> HIDE DEF f
<1> QED BY <1>1, <1>2, ImageIsFinite

\* The worst of a group held is what one of the prices looked at comes to, and no more than
\* any other does.
LEMMA WorstAtExpiryIs ==
  ASSUME NEW held \in Holdings, NEW paid \in Holdings, NEW g, InGroup(held, g) # {}
  PROVE  /\ WorstAtExpiry(held, paid, g) \in Int /\ PaidIn(held, paid, g) \in Int
         /\ \A s \in Nat : PayoffAt(held, g, s) \in Int
         /\ \A s \in Probes(InGroup(held, g)) :
              WorstAtExpiry(held, paid, g) <= PayoffAt(held, g, s) - PaidIn(held, paid, g)
         /\ \E s \in Probes(InGroup(held, g)) :
              WorstAtExpiry(held, paid, g) = PayoffAt(held, g, s) - PaidIn(held, paid, g)
<1> DEFINE H == InGroup(held, g)
           P == Probes(H)
           f == [s \in P |-> PayoffAt(held, g, s)]
           T == {f[s] : s \in P}
<1>1. H \subseteq Contracts /\ IsFiniteSet(H)
  BY GroupIs, RiskAssumption, FS_Subset
<1>2. IsFiniteSet(P) /\ 0 \in P /\ \A s \in P : s \in Nat
  BY <1>1, ProbesAre
<1>3. \A s \in Nat : PayoffAt(held, g, s) \in Int
  <2> SUFFICES ASSUME NEW s \in Nat PROVE PayoffAt(held, g, s) \in Int
    OBVIOUS
  <2>1. Payoff(held, H, s) \in Int /\ Multiplier \in Int
    BY <1>1, PayoffIs, RiskAssumption
  <2>2. PayoffAt(held, g, s) = Multiplier * Payoff(held, H, s)
    BY DEF PayoffAt, Payoff
  <2> QED BY <2>1, <2>2
<1>4. PaidIn(held, paid, g) \in Int
  <2>1. \A c \in H : paid[c] \in Int
    BY <1>1 DEF Holdings
  <2> QED BY <1>1, <2>1, SumIsInt DEF PaidIn
<1>5. \A s \in P : f[s] = PayoffAt(held, g, s) /\ f[s] \in Int
  BY <1>2, <1>3
<1>6. WorstAtExpiry(held, paid, g) = Min(T) - PaidIn(held, paid, g)
  <2>1. T = {PayoffAt(held, g, s) : s \in P}
    OBVIOUS
  <2> HIDE DEF T
  <2> QED BY <2>1 DEF WorstAtExpiry, PaidIn
<1> HIDE DEF f, P
<1>7. IsFiniteSet(T)
  BY <1>2, ImageIsFinite
<1>8. (\A x \in T : x \in Int) /\ f[0] \in T
  BY <1>2, <1>5
<1> HIDE DEF T
<1>9. T \subseteq Int /\ T # {}
  BY <1>8
<1>10. Min(T) \in T /\ \A y \in T : Min(T) <= y
  BY <1>7, <1>9, MinIs
<1> USE DEF T
<1>11. PICK a \in P : Min(T) = PayoffAt(held, g, a)
  BY <1>5, <1>10
<1>12. \A s \in P : Min(T) <= PayoffAt(held, g, s)
  BY <1>5, <1>10
<1> HIDE DEF T
<1>13. Min(T) \in Int
  BY <1>8, <1>10
<1>14. \A s \in P : WorstAtExpiry(held, paid, g) <= PayoffAt(held, g, s) - PaidIn(held, paid, g)
  BY <1>2, <1>3, <1>4, <1>6, <1>12, <1>13
<1> QED BY <1>3, <1>4, <1>6, <1>11, <1>13, <1>14 DEF P

\* exposure.go: nowhere does a group whose calls are covered come to less.
LEMMA GroupWorstEverywhere ==
  ASSUME NEW held \in Holdings, NEW paid \in Holdings, NEW g, InGroup(held, g) # {},
         Slope(held, g) >= 0, NEW s \in Nat
  PROVE  WorstAtExpiry(held, paid, g) <= PayoffAt(held, g, s) - PaidIn(held, paid, g)
<1> DEFINE H == InGroup(held, g)
           V(t) == Payoff(held, H, t)
<1>1. H \subseteq Contracts /\ H # {}
  BY GroupIs
<1>2. PICK p \in Probes(H) : V(p) <= V(s)
  BY <1>1, ProbesSuffice DEF Slope
<1>3. p \in Nat /\ V(p) \in Int /\ V(s) \in Int
  BY <1>1, ProbesAre, PayoffIs
<1>4. PayoffAt(held, g, p) = Multiplier * V(p) /\ PayoffAt(held, g, s) = Multiplier * V(s)
  BY DEF PayoffAt, Payoff
<1>5. /\ WorstAtExpiry(held, paid, g) <= PayoffAt(held, g, p) - PaidIn(held, paid, g)
      /\ WorstAtExpiry(held, paid, g) \in Int /\ PaidIn(held, paid, g) \in Int
      /\ PayoffAt(held, g, p) \in Int /\ PayoffAt(held, g, s) \in Int
  BY <1>3, WorstAtExpiryIs
<1> HIDE DEF V
<1>6. Multiplier * V(p) <= Multiplier * V(s)
  BY <1>2, <1>3, RiskAssumption
<1> QED BY <1>4, <1>5, <1>6

\* What a filled order leaves: more of what is held, and its legs, nothing gone.
LEMMA AfterIs ==
  ASSUME NEW o, IsOrder(o), WorstCaseIsKnown(o), NEW held \in Holdings, ClosesNothing(o, held)
  PROVE  /\ After(o, held) \in Holdings
         /\ \A c \in Contracts :
              /\ After(o, held)[c] = held[c] + Resting(o) * o.legs[c]
              /\ After(o, held)[c] # 0 <=> held[c] # 0 \/ o.legs[c] # 0
<1> DEFINE R == Resting(o)
<1>1. R \in Nat \ {0} /\ o.legs \in Holdings
  BY OrderNumbers
<1>2. ASSUME NEW c \in Contracts
      PROVE  /\ After(o, held)[c] = held[c] + R * o.legs[c] /\ After(o, held)[c] \in Int
             /\ After(o, held)[c] # 0 <=> held[c] # 0 \/ o.legs[c] # 0
  <2> DEFINE h == held[c]
             l == o.legs[c]
  <2>1. h \in Int /\ l \in Int
    BY <1>1 DEF Holdings
  <2>2. l # 0 => l * h >= 0
    BY DEF ClosesNothing, LegsOf
  <2>3. After(o, held)[c] = h + R * l
    BY DEF After
  <2> HIDE DEF h, l, R
  <2>4. CASE l = 0
    BY <1>1, <2>1, <2>3, <2>4 DEF h, l, R
  <2>5. CASE l > 0
    <3>1. h >= 0
      <4>1. SUFFICES ASSUME h <= -1 PROVE FALSE
        BY <2>1
      <4>2. l * h <= -l
        BY <2>1, <2>5, <4>1
      <4>3. l * h \in Int
        BY <2>1
      <4> QED BY <2>1, <2>2, <2>5, <4>2, <4>3
    <3>2. R * l >= 1 /\ R * l \in Int
      BY <1>1, <2>1, <2>5
    <3> QED BY <2>1, <2>3, <2>5, <3>1, <3>2 DEF h, l, R
  <2>6. CASE l < 0
    <3>1. h <= 0
      <4>1. SUFFICES ASSUME h >= 1 PROVE FALSE
        BY <2>1
      <4>2. l * h <= l
        BY <2>1, <2>6, <4>1
      <4>3. l * h \in Int
        BY <2>1
      <4> QED BY <2>1, <2>2, <2>6, <4>2, <4>3
    <3>2. R * l <= -1 /\ R * l \in Int
      BY <1>1, <2>1, <2>6
    <3> QED BY <2>1, <2>3, <2>6, <3>1, <3>2 DEF h, l, R
  <2> QED BY <2>1, <2>4, <2>5, <2>6
<1>3. After(o, held) \in Holdings
  BY <1>2 DEF After, Holdings
<1> QED BY <1>2, <1>3

\* Every leg of an order that settles together is of one group.
LEMMA OneGroup ==
  ASSUME NEW o, WorstCaseIsKnown(o), SettlesTogether(o)
  PROVE  \E g : g \in {GroupOf(c) : c \in LegsOf(o)} /\ \A c \in LegsOf(o) : GroupOf(c) = g
<1> DEFINE f == [c \in Contracts |-> GroupOf(c)]
           S == {f[c] : c \in LegsOf(o)}
<1>1. IsFiniteSet(LegsOf(o)) /\ LegsOf(o) \subseteq Contracts
  BY RiskAssumption, FS_Subset DEF LegsOf
<1>2. S = {GroupOf(c) : c \in LegsOf(o)} /\ \A c \in LegsOf(o) : GroupOf(c) \in S
  BY <1>1
<1>3. IsFiniteSet(S)
  <2> HIDE DEF f
  <2> QED BY <1>1, ImageIsFinite
<1> HIDE DEF S
<1>4. \E g : S = {g}
  BY <1>2, <1>3, FS_Singleton DEF SettlesTogether
<1> QED BY <1>2, <1>4

\* A group the order has no leg in comes to what it came to.
LEMMA OtherGroups ==
  ASSUME NEW o, IsOrder(o), WorstCaseIsKnown(o), NEW held \in Holdings, NEW paid \in Holdings,
         ClosesNothing(o, held), NEW p, NEW g, \A c \in LegsOf(o) : GroupOf(c) # g
  PROVE  /\ InGroup(After(o, held), g) = InGroup(held, g)
         /\ WorstAtExpiry(After(o, held), PaidAfter(o, paid, p), g) = WorstAtExpiry(held, paid, g)
<1> DEFINE q == After(o, held)
           H == InGroup(held, g)
           now == PaidAfter(o, paid, p)
<1>1. \A c \in Contracts : GroupOf(c) = g => o.legs[c] = 0
  BY DEF LegsOf
<1>2. InGroup(q, g) = H
  <2>1. InGroup(q, g) = {c \in Contracts : q[c] # 0 /\ GroupOf(c) = g}
    BY GroupIs
  <2>2. H = {c \in Contracts : held[c] # 0 /\ GroupOf(c) = g}
    BY GroupIs
  <2>3. \A c \in Contracts : GroupOf(c) = g => (q[c] # 0 <=> held[c] # 0)
    BY <1>1, AfterIs
  <2> HIDE DEF q, H
  <2> QED BY <2>1, <2>2, <2>3
<1>3. H \subseteq Contracts /\ IsFiniteSet(H) /\ \A c \in H : o.legs[c] = 0 /\ c \notin LegsOf(o)
  BY <1>1, GroupIs, RiskAssumption, FS_Subset
<1>4. \A c \in H : q[c] = held[c]
  <2>1. \A c \in H : held[c] \in Int /\ Resting(o) \in Int
    BY <1>3, OrderNumbers DEF Holdings
  <2> QED BY <1>3, <2>1, AfterIs
<1>5. \A c \in H : now[c] = paid[c]
  <2>1. (CHOOSE d \in LegsOf(o) : TRUE) \in LegsOf(o)
    BY OrderNumbers
  <2> QED BY <1>3, <2>1 DEF PaidAfter, Holdings
<1>6. \A s : PayoffAt(q, g, s) = PayoffAt(held, g, s)
  <2> SUFFICES ASSUME NEW s PROVE PayoffAt(q, g, s) = PayoffAt(held, g, s)
    OBVIOUS
  <2> DEFINE f == [c \in Contracts |-> Intrinsic(c, s) * q[c]]
             h == [c \in Contracts |-> Intrinsic(c, s) * held[c]]
  <2>1. \A c \in H : f[c] = h[c]
    BY <1>3, <1>4
  <2> HIDE DEF f, h, H, q
  <2>2. SumFunctionOnSet(f, H) = SumFunctionOnSet(h, H)
    BY <1>3, <2>1, SumOfSame
  <2> QED BY <1>2, <2>2 DEF PayoffAt, f, h, H
<1>7. SumFunctionOnSet(now, H) = SumFunctionOnSet(paid, H)
  <2> HIDE DEF now, H
  <2> QED BY <1>3, <1>5, SumOfSame
<1>8. {PayoffAt(q, g, s) : s \in Probes(H)} = {PayoffAt(held, g, s) : s \in Probes(H)}
  BY <1>6
<1> HIDE DEF q, now, H
<1>9. WorstAtExpiry(q, now, g) = WorstAtExpiry(held, paid, g)
  BY <1>2, <1>7, <1>8 DEF WorstAtExpiry, H
<1> QED BY <1>2, <1>9 DEF q, now, H

\* The group of its legs holds them beside what it held, comes to what both come to, and
\* cost what both cost.
LEMMA ItsGroup ==
  ASSUME NEW o, IsOrder(o), WorstCaseIsKnown(o), NEW held \in Holdings, NEW paid \in Holdings,
         \A c \in Contracts : held[c] = 0 => paid[c] = 0,
         ClosesNothing(o, held), NEW p \in Int, NEW g, \A c \in LegsOf(o) : GroupOf(c) = g
  PROVE  /\ InGroup(After(o, held), g) = InGroup(held, g) \cup LegsOf(o)
         /\ \A s \in Nat : Payoff(After(o, held), InGroup(After(o, held), g), s)
                             = Payoff(held, InGroup(held, g), s)
                                 + Resting(o) * Payoff(o.legs, LegsOf(o), s)
         /\ PaidIn(After(o, held), PaidAfter(o, paid, p), g)
              = PaidIn(held, paid, g) + Multiplier * Resting(o) * p
         /\ PaidAfter(o, paid, p) \in Holdings
<1> DEFINE q == After(o, held)
           H == InGroup(held, g)
           L == LegsOf(o)
           U == H \cup L
           R == Resting(o)
           now == PaidAfter(o, paid, p)
           d == Multiplier * R * p
           at == CHOOSE c \in L : TRUE
<1>1. /\ L \subseteq Contracts /\ o.legs \in Holdings /\ R \in Nat \ {0} /\ at \in L
      /\ Multiplier * R \in Nat
  BY OrderNumbers
<1>2. InGroup(q, g) = U
  BY AfterIs, GroupIs DEF LegsOf
<1>3. /\ U \subseteq Contracts /\ IsFiniteSet(U)
      /\ \A c \in U \ H : held[c] = 0 /\ paid[c] = 0
      /\ \A c \in U \ L : o.legs[c] = 0
      /\ \A c \in U : held[c] \in Int /\ paid[c] \in Int /\ o.legs[c] \in Int
  <2>1. U \subseteq Contracts
    BY <1>1, GroupIs
  <2>2. IsFiniteSet(U)
    BY <2>1, RiskAssumption, FS_Subset
  <2>3. \A c \in U \ H : held[c] = 0 /\ paid[c] = 0
    BY <2>1, GroupIs
  <2>4. \A c \in U \ L : o.legs[c] = 0
    BY <2>1 DEF LegsOf
  <2> QED BY <1>1, <2>1, <2>2, <2>3, <2>4 DEF Holdings
<1>4. ASSUME NEW s \in Nat
      PROVE  Payoff(q, U, s) = Payoff(held, H, s) + R * Payoff(o.legs, L, s)
  <2> DEFINE x == [c \in Contracts |-> Intrinsic(c, s) * q[c]]
             y == [c \in Contracts |-> Intrinsic(c, s) * held[c]]
             z == [c \in Contracts |-> Intrinsic(c, s) * o.legs[c]]
             w == [c \in Contracts |-> R * z[c]]
  <2>1. ASSUME NEW c \in U
        PROVE  /\ y[c] \in Int /\ z[c] \in Int /\ w[c] \in Int /\ w[c] = R * z[c]
               /\ x[c] = y[c] + w[c]
               /\ (c \notin H => y[c] = 0) /\ (c \notin L => z[c] = 0)
    <3> DEFINE i == Intrinsic(c, s)
               a == held[c]
               b == o.legs[c]
    <3>1. c \in Contracts /\ a \in Int /\ b \in Int /\ R \in Int
      BY <1>1, <1>3
    <3>2. i \in Nat
      <4>1. \A e \in Contracts : Intrinsic(e, s) \in Nat
        BY PayoffIs
      <4> QED BY <3>1, <4>1
    <3>3. x[c] = i * (a + R * b) /\ y[c] = i * a /\ z[c] = i * b /\ w[c] = R * (i * b)
      BY <3>1, AfterIs
    <3>4. (c \notin H => a = 0) /\ (c \notin L => b = 0)
      BY <1>3
    <3> HIDE DEF i, a, b, x, y, z, w, R
    <3>5. i * (a + R * b) = i * a + R * (i * b) /\ i * a \in Int /\ i * b \in Int /\ R * (i * b) \in Int
      BY <3>1, <3>2
    <3>6. (c \notin H => i * a = 0) /\ (c \notin L => i * b = 0)
      BY <3>2, <3>4
    <3> QED BY <3>3, <3>5, <3>6
  <2> HIDE DEF x, y, z, w, H, L, U, R
  <2>2. SumFunctionOnSet(x, U) = SumFunctionOnSet(y, U) + SumFunctionOnSet(w, U)
    BY <1>3, <2>1, SumOfSums
  <2>3. SumFunctionOnSet(w, U) = R * SumFunctionOnSet(z, U)
    <3>1. R \in Int
      BY <1>1
    <3> QED BY <1>3, <2>1, <3>1, SumScaled
  <2>4. H \subseteq U /\ L \subseteq U
    BY DEF U
  <2>5. SumFunctionOnSet(y, U) = SumFunctionOnSet(y, H)
    BY <1>3, <2>1, <2>4, SumPadded
  <2>6. SumFunctionOnSet(z, U) = SumFunctionOnSet(z, L)
    BY <1>3, <2>1, <2>4, SumPadded
  <2> QED BY <2>2, <2>3, <2>5, <2>6 DEF Payoff, x, y, z
<1>5. now \in Holdings /\ now[at] = paid[at] + d /\ d \in Int /\ \A c \in U \ {at} : now[c] = paid[c]
  <2>1. now = [paid EXCEPT ![at] = @ + d]
    BY DEF PaidAfter
  <2>2. d \in Int
    BY <1>1
  <2>3. paid \in [Contracts -> Int] /\ at \in Contracts
    BY <1>1 DEF Holdings
  <2> HIDE DEF now, at, d
  <2> QED BY <1>3, <2>1, <2>2, <2>3 DEF Holdings
<1>6. SumFunctionOnSet(now, U) = SumFunctionOnSet(paid, H) + d
  <2>1. at \in U /\ H \subseteq U
    BY <1>1
  <2> HIDE DEF now, at, d, H, L, U
  <2>2. SumFunctionOnSet(now, U) = SumFunctionOnSet(paid, U) + d
    BY <1>3, <1>5, <2>1, SumChanged
  <2>3. SumFunctionOnSet(paid, U) = SumFunctionOnSet(paid, H)
    BY <1>3, <2>1, SumPadded
  <2> QED BY <2>2, <2>3
<1>7. PaidIn(q, now, g) = PaidIn(held, paid, g) + d
  <2> HIDE DEF q, now, d, U
  <2> QED BY <1>2, <1>6 DEF PaidIn
<1> QED BY <1>2, <1>4, <1>5, <1>7

\* toobig.go and exposure.go, one group: with the order filled at a price it may fill at, its
\* group loses no more than it would have lost and the worst of the order.
LEMMA GroupCovered ==
  ASSUME NEW o, IsOrder(o), WorstCaseIsKnown(o), Judged(o), NEW held \in Holdings,
         NEW paid \in Holdings, \A c \in Contracts : held[c] = 0 => paid[c] = 0,
         WithoutAFloor(held) = {}, ClosesNothing(o, held), NEW p \in MayFillAt(o),
         NEW g, \A c \in LegsOf(o) : GroupOf(c) = g
  PROVE  LET now == WorstAtExpiry(After(o, held), PaidAfter(o, paid, p), g)
         IN  /\ now \in Int
             /\ g \in Groups(held) => now >= WorstAtExpiry(held, paid, g) + WorstCase(o)
             /\ g \notin Groups(held) => now >= WorstCase(o)
<1> DEFINE q == After(o, held)
           cost == PaidAfter(o, paid, p)
           H == InGroup(held, g)
           U == InGroup(q, g)
           now == WorstAtExpiry(q, cost, g)
           m == Multiplier
           R == Resting(o)
           PS == PaidIn(held, paid, g)
<1>1. p \in Int /\ p <= WorstPrice(o) /\ ~Uncovered(o)
  BY FillsWithin DEF Judged
<1>2. /\ U = H \cup LegsOf(o) /\ cost \in Holdings /\ q \in Holdings
      /\ PaidIn(q, cost, g) = PS + m * R * p
      /\ \A s \in Nat : Payoff(q, U, s) = Payoff(held, H, s) + R * Payoff(o.legs, LegsOf(o), s)
  BY <1>1, ItsGroup, AfterIs
<1>3. U # {} /\ U \subseteq Contracts /\ H \subseteq Contracts
  BY <1>2, OrderNumbers, GroupIs
<1>4. /\ now \in Int
      /\ \E s \in Probes(U) : now = PayoffAt(q, g, s) - PaidIn(q, cost, g)
  BY <1>2, <1>3, WorstAtExpiryIs
<1>5. PICK s \in Probes(U) : now = PayoffAt(q, g, s) - PaidIn(q, cost, g)
  BY <1>4
<1>6. s \in Nat
  BY <1>3, ProbesAre
<1> DEFINE A == Payoff(held, H, s)
           V == Payoff(o.legs, LegsOf(o), s)
<1>7. m \in Nat /\ R \in Nat /\ A \in Int /\ V \in Int /\ PS \in Int
  <2>1. IsFiniteSet(H) /\ \A c \in H : paid[c] \in Int
    BY <1>3, RiskAssumption, FS_Subset DEF Holdings
  <2>2. PS \in Int
    BY <2>1, SumIsInt DEF PaidIn
  <2> QED BY <1>3, <1>6, <2>2, OrderNumbers, PayoffIs, RiskAssumption
<1>8. PayoffAt(q, g, s) = m * (A + R * V) /\ PayoffAt(held, g, s) = m * A
  <2>1. PayoffAt(q, g, s) = m * Payoff(q, U, s) /\ PayoffAt(held, g, s) = m * A
    BY DEF PayoffAt, Payoff
  <2> QED BY <1>2, <1>6, <2>1
<1>9. FilledWorth(o, p, s) = m * R * (V - p) /\ FilledWorth(o, p, s) >= WorstCase(o) /\ WorstCase(o) \in Int
  <2>1. WorstCase(o) <= FilledWorth(o, p, s) /\ FilledWorth(o, p, s) \in Int /\ WorstCase(o) \in Int
    BY <1>1, <1>6, WorstEverywhere, FilledWorthIs, WorstCaseIs
  <2>2. FilledWorth(o, p, s) = m * R * (V - p)
    BY <1>1, <1>6, FilledWorthIs
  <2> QED BY <2>1, <2>2
<1>10. g \in Groups(held) => WorstAtExpiry(held, paid, g) <= m * A - PS /\ WorstAtExpiry(held, paid, g) \in Int
  <2> SUFFICES ASSUME g \in Groups(held)
               PROVE  WorstAtExpiry(held, paid, g) <= m * A - PS /\ WorstAtExpiry(held, paid, g) \in Int
    OBVIOUS
  <2>1. H # {}
    BY GroupIs
  <2>2. Slope(held, g) >= 0
    <3>1. ~(Slope(held, g) < 0)
      BY DEF WithoutAFloor
    <3> DEFINE calls0 == {c \in H : Term[c].call}
    <3>2. IsFiniteSet(calls0) /\ \A c \in calls0 : held[c] \in Int
      BY <1>3, RiskAssumption, FS_Subset DEF Holdings
    <3>3. Slope(held, g) = SumFunctionOnSet(held, calls0)
      BY DEF Slope
    <3> HIDE DEF calls0
    <3>4. Slope(held, g) \in Int
      BY <3>2, <3>3, SumIsInt
    <3> QED BY <3>1, <3>4
  <2> QED BY <1>6, <1>8, <2>1, <2>2, WorstAtExpiryIs, GroupWorstEverywhere
<1>11. g \notin Groups(held) => A = 0 /\ PS = 0
  <2> SUFFICES ASSUME g \notin Groups(held) PROVE A = 0 /\ PS = 0
    OBVIOUS
  <2>1. H = {}
    BY GroupIs
  <2> QED BY <2>1, SumOfNone DEF Payoff, PaidIn
<1>12. now = m * (A + R * V) - (PS + m * R * p)
  BY <1>2, <1>5, <1>8
<1> DEFINE T == WorstAtExpiry(held, paid, g)
           W == WorstCase(o)
<1>13. /\ g \in Groups(held) => T <= m * A - PS /\ T \in Int
       /\ m * R * (V - p) >= W /\ W \in Int
  BY <1>9, <1>10
<1> HIDE DEF now, m, R, A, V, PS, T, W
<1>14. m * (A + R * V) = m * A + (m * R) * V /\ m * R * (V - p) = (m * R) * V - (m * R) * p
       /\ m * R * p = (m * R) * p /\ m * A \in Int /\ (m * R) * V \in Int /\ (m * R) * p \in Int
  BY <1>1, <1>7
<1>15. /\ g \in Groups(held) => now >= T + W
       /\ g \notin Groups(held) => now >= W
  BY <1>4, <1>7, <1>11, <1>12, <1>13, <1>14
<1> QED BY <1>4, <1>15 DEF now, T, W, q, cost

\* What each group held adds to what is at risk.
Losses(held, paid) == [g \in Groups(held) |-> Min({0, WorstAtExpiry(held, paid, g)})]

\* What is at risk is the sum of what the groups lose.
LEMMA AtRiskIs ==
  ASSUME NEW held \in Holdings, NEW paid \in Holdings
  PROVE  /\ AtRisk(held, paid) = -SumFunctionOnSet(Losses(held, paid), Groups(held))
         /\ SumFunctionOnSet(Losses(held, paid), Groups(held)) \in Int
         /\ \A g \in Groups(held) :
              /\ WorstAtExpiry(held, paid, g) \in Int
              /\ Losses(held, paid)[g] = IF WorstAtExpiry(held, paid, g) <= 0
                                         THEN WorstAtExpiry(held, paid, g) ELSE 0
<1>1. \A g \in Groups(held) : WorstAtExpiry(held, paid, g) \in Int
  BY GroupIs, WorstAtExpiryIs
<1>2. \A g \in Groups(held) :
        Losses(held, paid)[g] = IF WorstAtExpiry(held, paid, g) <= 0
                                THEN WorstAtExpiry(held, paid, g) ELSE 0
  BY <1>1, MinWithZero DEF Losses
<1>3. SumFunctionOnSet(Losses(held, paid), Groups(held)) \in Int
  <2>1. \A g \in Groups(held) : Losses(held, paid)[g] \in Int
    BY <1>1, <1>2
  <2> QED BY <2>1, GroupsAreFinite, SumIsInt
<1>4. AtRisk(held, paid) = -SumFunctionOnSet(Losses(held, paid), Groups(held))
  <2>1. DOMAIN Losses(held, paid) = Groups(held)
    BY DEF Losses
  <2> QED BY <2>1 DEF AtRisk, SumFunction, Losses
<1> QED BY <1>1, <1>2, <1>3, <1>4

\* The whole book: the other groups lose what they lost.
LEMMA BookCovered ==
  ASSUME NEW o, IsOrder(o), WorstCaseIsKnown(o), Judged(o), NEW held \in Holdings,
         NEW paid \in Holdings, \A c \in Contracts : held[c] = 0 => paid[c] = 0,
         WithoutAFloor(held) = {}, ClosesNothing(o, held), NEW p \in MayFillAt(o)
  PROVE  AtRisk(After(o, held), PaidAfter(o, paid, p)) <= AtRisk(held, paid) - WorstCase(o)
<1> DEFINE q == After(o, held)
           cost == PaidAfter(o, paid, p)
           G == Groups(held)
           W == WorstCase(o)
           f == Losses(held, paid)
           h == Losses(q, cost)
<1>1. PICK g0 : g0 \in {GroupOf(c) : c \in LegsOf(o)} /\ \A c \in LegsOf(o) : GroupOf(c) = g0
  BY OneGroup DEF Judged
<1>2. /\ LET now == WorstAtExpiry(q, cost, g0)
         IN  /\ now \in Int
             /\ g0 \in G => now >= WorstAtExpiry(held, paid, g0) + W
             /\ g0 \notin G => now >= W
      /\ q \in Holdings /\ cost \in Holdings
  <2>1. p \in Int
    BY FillsWithin
  <2> QED BY <1>1, <2>1, GroupCovered, ItsGroup, AfterIs
<1>3. Groups(q) = G \cup {g0}
  <2>1. \A g : g # g0 => InGroup(q, g) = InGroup(held, g)
    BY <1>1, OtherGroups
  <2>2. InGroup(q, g0) # {}
    <3>1. p \in Int
      BY FillsWithin
    <3>2. InGroup(q, g0) = InGroup(held, g0) \cup LegsOf(o)
      BY <1>1, <3>1, ItsGroup
    <3> QED BY <3>2, OrderNumbers
  <2>3. \A g : g \in Groups(q) <=> g \in G \/ g = g0
    BY <2>1, <2>2, GroupIs
  <2> QED BY <2>3
<1>4. W \in Int /\ W <= 0
  BY WorstCaseIs
<1>5. \A g \in G : f[g] \in Int /\ f[g] <= 0
                   /\ WorstAtExpiry(held, paid, g) \in Int
                   /\ f[g] = IF WorstAtExpiry(held, paid, g) <= 0
                             THEN WorstAtExpiry(held, paid, g) ELSE 0
  BY AtRiskIs
<1>6. \A g \in G \ {g0} : h[g] = f[g]
  <2> SUFFICES ASSUME NEW g \in G, g # g0 PROVE h[g] = f[g]
    OBVIOUS
  <2>1. WorstAtExpiry(q, cost, g) = WorstAtExpiry(held, paid, g)
    BY <1>1, OtherGroups
  <2> QED BY <1>3, <2>1 DEF Losses
<1>7. h[g0] \in Int /\ h[g0] <= 0 /\ (g0 \in G => h[g0] >= f[g0] + W) /\ (g0 \notin G => h[g0] >= W)
  <2> DEFINE now == WorstAtExpiry(q, cost, g0)
             was == WorstAtExpiry(held, paid, g0)
  <2>1. h[g0] = IF now <= 0 THEN now ELSE 0
    <3>1. g0 \in Groups(q)
      BY <1>3
    <3> QED BY <1>2, <3>1, AtRiskIs
  <2>2. /\ now \in Int
        /\ g0 \in G => now >= was + W /\ was \in Int /\ f[g0] = IF was <= 0 THEN was ELSE 0
        /\ g0 \notin G => now >= W
    BY <1>2, <1>5
  <2> HIDE DEF now, was, f, h, W, G
  <2> QED BY <1>4, <2>1, <2>2
<1>8. IsFiniteSet(G)
  BY GroupsAreFinite
<1>9. /\ AtRisk(held, paid) = -SumFunctionOnSet(f, G) /\ SumFunctionOnSet(f, G) \in Int
      /\ AtRisk(q, cost) = -SumFunctionOnSet(h, Groups(q)) /\ SumFunctionOnSet(h, Groups(q)) \in Int
  BY <1>2, AtRiskIs
<1> HIDE DEF q, cost, W, f, h, G
<1>10. SumFunctionOnSet(h, Groups(q)) >= SumFunctionOnSet(f, G) + W
  <2>1. CASE g0 \in G
    <3> DEFINE k == [g \in G |-> IF g = g0 THEN f[g] + W ELSE f[g]]
    <3>1. /\ \A g \in G \ {g0} : k[g] = f[g]
          /\ k[g0] = f[g0] + W
      BY <2>1
    <3>2. \A g \in G : k[g] \in Int /\ h[g] \in Int /\ k[g] <= h[g]
      BY <1>4, <1>5, <1>6, <1>7, <2>1
    <3> HIDE DEF k
    <3>3. SumFunctionOnSet(k, G) = SumFunctionOnSet(f, G) + W
      BY <1>4, <1>5, <1>8, <2>1, <3>1, SumChanged
    <3>4. SumFunctionOnSet(k, G) <= SumFunctionOnSet(h, G)
      BY <1>8, <3>2, SumIsMonotone
    <3>5. Groups(q) = G
      BY <1>3, <2>1
    <3>6. SumFunctionOnSet(h, G) \in Int /\ SumFunctionOnSet(k, G) \in Int
      BY <1>8, <3>2, SumIsInt
    <3> QED BY <3>3, <3>4, <3>5, <3>6
  <2>2. CASE g0 \notin G
    <3>1. \A g \in G \cup {g0} : h[g] \in Int
      BY <1>5, <1>6, <1>7
    <3>2. SumFunctionOnSet(h, G \cup {g0}) = h[g0] + SumFunctionOnSet(h, G)
      BY <1>8, <2>2, <3>1, SumWith
    <3>3. SumFunctionOnSet(h, G) = SumFunctionOnSet(f, G)
      <4>1. \A g \in G : h[g] = f[g]
        BY <1>6, <2>2
      <4> QED BY <1>8, <4>1, SumOfSame
    <3> QED BY <1>3, <1>4, <1>7, <1>9, <2>2, <3>2, <3>3
  <2> QED BY <2>1, <2>2
<1>11. AtRisk(q, cost) <= AtRisk(held, paid) - W
  BY <1>4, <1>9, <1>10
<1> QED BY <1>11 DEF q, cost, W

\* execution.go holds what is at risk and the worst of an order, added up, against one
\* number: the sum bounds what is at risk when that order has filled, at any price it may
\* fill at, whatever else is held.
THEOREM BookBounded == Spec => []SumCoversTheBook
<1>1. OrderIsReadable => SumCoversTheBook
  <2> SUFFICES ASSUME OrderIsReadable, order # Nothing, Judged(order),
                      WithoutAFloor(account.held) = {}, ClosesNothing(order, account.held),
                      NEW p \in MayFillAt(order)
               PROVE  AtRisk(After(order, account.held), PaidAfter(order, account.paid, p))
                        <= AtRisk(account.held, account.paid) - WorstCase(order)
    BY DEF SumCoversTheBook
  <2>1. IsOrder(order) /\ WorstCaseIsKnown(order) /\ IsAccount(account)
    BY DEF OrderIsReadable
  <2>2. /\ account.held \in Holdings /\ account.paid \in Holdings
        /\ \A c \in Contracts : account.held[c] = 0 => account.paid[c] = 0
    BY <2>1 DEF IsAccount
  <2> QED BY <2>1, <2>2, BookCovered
<1> QED BY <1>1, Readable, PTL

-----------------------------------------------------------------------------
(* What a staged market answers.                                           *)

\* What is worth a number of cents times den, at a price of a fraction: the pricing
\* model answers in whole parts of a cent.
WorthIsWhole ==
  \A c \in Staged : \A num \in Int, den \in Nat \ {0} : Worth(c, [num |-> num, den |-> den]) \in Int

\* The steps of what was accepted follow one another, each of its kind.
LEMMA StepsAre ==
  ASSUME NEW s, IsScenario(s), Accepted(s)
  PROVE  /\ Len(s.steps) \in Nat \ {0} /\ DOMAIN s.steps = 1..Len(s.steps)
         /\ \A i \in 1..Len(s.steps) :
              /\ s.steps[i].offset \in Nat
              /\ Overlay(s) => s.steps[i].delta \in Int
              /\ ~Overlay(s) => s.steps[i].price \in Nat \ {0}
              /\ DOMAIN s.steps[i].quotes \subseteq Staged
              /\ \A c \in DOMAIN s.steps[i].quotes : s.steps[i].quotes[c] \in Sides
         /\ \A i \in 1..Len(s.steps) : i > 1 => s.steps[i].offset > s.steps[i - 1].offset
<1>1. s.steps \in Seq(Range(s.steps)) /\ \A i \in DOMAIN s.steps : IsStep(s.steps[i])
  BY DEF IsScenario
<1>2. /\ s.steps # <<>>
      /\ \A i \in DOMAIN s.steps : s.steps[i].offset >= 0
      /\ \A i \in DOMAIN s.steps : i > 1 => s.steps[i].offset > s.steps[i - 1].offset
      /\ \A i \in DOMAIN s.steps : StepFits(s, s.steps[i])
  BY DEF Accepted, InOrder
<1>3. Len(s.steps) \in Nat \ {0} /\ DOMAIN s.steps = 1..Len(s.steps)
  BY <1>1, <1>2
<1>4. ASSUME NEW i \in 1..Len(s.steps)
      PROVE  /\ s.steps[i].offset \in Nat
             /\ Overlay(s) => s.steps[i].delta \in Int
             /\ ~Overlay(s) => s.steps[i].price \in Nat \ {0}
             /\ DOMAIN s.steps[i].quotes \subseteq Staged
             /\ \A c \in DOMAIN s.steps[i].quotes : s.steps[i].quotes[c] \in Sides
  <2>1. IsStep(s.steps[i]) /\ StepFits(s, s.steps[i]) /\ s.steps[i].offset >= 0
    BY <1>1, <1>2, <1>3
  <2>2. /\ s.steps[i].offset \in Int /\ s.steps[i].price \in Int
        /\ s.steps[i].delta \in Int \cup {None}
        /\ DOMAIN s.steps[i].quotes \subseteq Staged
    BY <2>1 DEF IsStep
  <2>3. \A c \in DOMAIN s.steps[i].quotes : s.steps[i].quotes[c] \in Sides
    BY <2>1 DEF StepFits, Range
  <2> QED BY <2>1, <2>2, <2>3 DEF StepFits
<1> QED BY <1>2, <1>3, <1>4

\* The clock of a run moves in whole numbers.
LEMMA MomentIs ==
  ASSUME NEW s, IsScenario(s), NEW e \in Nat
  PROVE  Speed(s) \in Nat \ {0} /\ Moment(s, e) \in Nat
<1>1. s.speed \in Int
  BY DEF IsScenario
<1>2. Speed(s) \in Nat \ {0}
  BY <1>1 DEF Speed
<1> QED BY <1>2 DEF Moment

\* The last step that has begun is a step that has.
LEMMA BegunIs ==
  ASSUME NEW s, IsScenario(s), Accepted(s), NEW e
  PROVE  /\ Begun(s, e) \subseteq 1..Len(s.steps) /\ IsFiniteSet(Begun(s, e))
         /\ Begun(s, e) # {} => Max(Begun(s, e)) \in Begun(s, e)
         /\ Max({1} \cup Begun(s, e)) \in 1..Len(s.steps)
         /\ Max({1} \cup Begun(s, e)) \in {1} \cup Begun(s, e)
         /\ \A i \in Begun(s, e) : i <= Max({1} \cup Begun(s, e))
<1>1. Len(s.steps) \in Nat \ {0} /\ DOMAIN s.steps = 1..Len(s.steps)
  BY StepsAre
<1>2. Begun(s, e) \subseteq 1..Len(s.steps)
  BY <1>1 DEF Begun
<1>3. IsFiniteSet(1..Len(s.steps))
  BY <1>1, FS_Interval
<1>4. IsFiniteSet(Begun(s, e))
  BY <1>2, <1>3, FS_Subset
<1>5. IsFiniteSet({1} \cup Begun(s, e))
  <2>1. {1} \cup Begun(s, e) = Begun(s, e) \cup {1}
    OBVIOUS
  <2> QED BY <1>4, <2>1, FS_AddElement
<1>6. {1} \cup Begun(s, e) \subseteq 1..Len(s.steps)
  BY <1>1, <1>2
<1>7. /\ Max({1} \cup Begun(s, e)) \in {1} \cup Begun(s, e)
      /\ \A i \in {1} \cup Begun(s, e) : i <= Max({1} \cup Begun(s, e))
  BY <1>5, <1>6, MaxIs
<1>8. Begun(s, e) # {} => Max(Begun(s, e)) \in Begun(s, e)
  BY <1>2, <1>4, MaxIs
<1> QED BY <1>2, <1>4, <1>6, <1>7, <1>8

\* The displacement is a fraction.
LEMMA ShiftIs ==
  ASSUME NEW s, IsScenario(s), Accepted(s), Overlay(s), NEW e \in Nat
  PROVE  ShiftAt(s, e).num \in Int /\ ShiftAt(s, e).den \in Nat \ {0}
<1> DEFINE i == Max({1} \cup Begun(s, e))
           n == Len(s.steps)
<1>1. n \in Nat \ {0} /\ i \in 1..n /\ Moment(s, e) \in Nat
  BY StepsAre, BegunIs, MomentIs
<1>2. \A k \in 1..n : s.steps[k].offset \in Nat /\ s.steps[k].delta \in Int
  BY StepsAre
<1>3. CASE Begun(s, e) = {} \/ i = n
  <2>1. ShiftAt(s, e) = [num |-> s.steps[i].delta, den |-> 1]
    BY <1>3 DEF ShiftAt
  <2> QED BY <1>1, <1>2, <2>1
<1>4. CASE ~(Begun(s, e) = {} \/ i = n)
  <2>1. i + 1 \in 1..n /\ i + 1 > 1 /\ (i + 1) - 1 = i
    BY <1>1, <1>4
  <2>2. s.steps[i + 1].offset > s.steps[i].offset
    BY <2>1, StepsAre
  <2> HIDE DEF i, n
  <2>3. s.steps[i + 1].offset - s.steps[i].offset \in Nat \ {0}
    BY <1>1, <1>2, <2>1, <2>2
  <2>4. s.steps[i].delta * (s.steps[i + 1].offset - s.steps[i].offset)
          + (Moment(s, e) - s.steps[i].offset) * (s.steps[i + 1].delta - s.steps[i].delta) \in Int
    <3>1. /\ s.steps[i].delta \in Int /\ s.steps[i + 1].delta - s.steps[i].delta \in Int
          /\ Moment(s, e) - s.steps[i].offset \in Int
      BY <1>1, <1>2, <2>1
    <3>2. \A a, b, c, d \in Int : a * b + c * d \in Int
      OBVIOUS
    <3> QED BY <2>3, <3>1, <3>2
  <2>5. ShiftAt(s, e) =
          [num |-> s.steps[i].delta * (s.steps[i + 1].offset - s.steps[i].offset)
             + (Moment(s, e) - s.steps[i].offset) * (s.steps[i + 1].delta - s.steps[i].delta),
           den |-> s.steps[i + 1].offset - s.steps[i].offset]
    BY <1>4 DEF ShiftAt, i, n
  <2> QED BY <2>3, <2>4, <2>5
<1> QED BY <1>3, <1>4

\* Rounded to the cent, a fraction is a number of cents.
LEMMA RoundedIs == ASSUME NEW num \in Int, NEW den \in Nat \ {0} PROVE Rounded(num, den) \in Int
<1>1. \A a \in Int, d \in Nat \ {0} : a \div d \in Int
  OBVIOUS
<1>2. 2 * den \in Nat \ {0} /\ den - 2 * num \in Int /\ 2 * num + den \in Int
  OBVIOUS
<1> QED BY <1>1, <1>2 DEF Rounded

\* What a quote becomes when it is displaced: it keeps its sides, and their order.
LEMMA ShiftedIs ==
  ASSUME WorthIsWhole, NEW q \in Sides, NEW c \in Staged, NEW spot \in Int, NEW shift,
         shift.num \in Int, shift.den \in Nat \ {0}
  PROVE  /\ ShiftedQuote(q, c, spot, shift) \in Sides
         /\ q.ask > 0 => ShiftedQuote(q, c, spot, shift).ask > 0
         /\ q.bid <= q.ask =>
              ShiftedQuote(q, c, spot, shift).bid <= ShiftedQuote(q, c, spot, shift).ask
<1> DEFINE move == Move(c, spot, shift)
           bid == IF q.bid > 0 THEN Max({0, Rounded(q.bid * shift.den + move, shift.den)}) ELSE q.bid
           ask == IF q.ask > 0 THEN Max({1, Rounded(q.ask * shift.den + move, shift.den)}) ELSE q.ask
<1>1. q.bid \in Nat /\ q.ask \in Nat
  BY DEF Sides
<1>2. move \in Int
  <2>1. spot * shift.den + shift.num \in Int /\ spot * shift.den \in Int
    OBVIOUS
  <2>2. /\ Worth(c, [num |-> spot * shift.den + shift.num, den |-> shift.den]) \in Int
        /\ Worth(c, [num |-> spot * shift.den, den |-> shift.den]) \in Int
    BY <2>1 DEF WorthIsWhole
  <2> QED BY <2>2 DEF Move
<1> HIDE DEF move
<1>3. \A a \in Nat : Rounded(a * shift.den + move, shift.den) \in Int
  <2> SUFFICES ASSUME NEW a \in Nat PROVE Rounded(a * shift.den + move, shift.den) \in Int
    OBVIOUS
  <2>1. a * shift.den + move \in Int
    BY <1>2
  <2> QED BY <2>1, RoundedIs
<1>4. bid \in Nat
  <2>1. CASE q.bid > 0
    BY <1>1, <1>3, <2>1, MaxOfTwo
  <2>2. CASE ~(q.bid > 0)
    BY <1>1, <2>2
  <2> QED BY <2>1, <2>2
<1>5. ask \in Nat /\ (q.ask > 0 => ask > 0) /\ (~(q.ask > 0) => ask = 0)
  <2>1. CASE q.ask > 0
    BY <1>1, <1>3, <2>1, MaxOfTwo
  <2>2. CASE ~(q.ask > 0)
    BY <1>1, <2>2
  <2> QED BY <2>1, <2>2
<1>6. q.bid <= q.ask /\ ask = 0 => bid = 0
  BY <1>1, <1>5
<1>7. ShiftedQuote(q, c, spot, shift) =
        IF shift.num = 0 THEN q
        ELSE [bid |-> IF ask > 0 /\ bid > ask THEN ask ELSE bid, ask |-> ask]
  BY DEF ShiftedQuote, move
<1> HIDE DEF bid, ask
<1>8. CASE shift.num = 0
  BY <1>7, <1>8
<1>9. CASE shift.num # 0
  BY <1>4, <1>5, <1>6, <1>7, <1>9 DEF Sides
<1> QED BY <1>8, <1>9

\* The price every contract of an answer is displaced from.
LEMMA SpotIs ==
  ASSUME NEW m, IsMarket(m), RealSpot(m) # Refused
  PROVE  RealSpot(m) \in Int
<1>1. m.held \in Nat /\ \A x \in DOMAIN m.trades : m.trades[x] \in Nat
  BY DEF IsMarket, Range
<1> QED BY <1>1 DEF RealSpot

\* The quotes of an answer are of contracts, and have two sides.
LEMMA MarketIs ==
  ASSUME NEW m, IsMarket(m)
  PROVE  DOMAIN m.quotes \subseteq Staged /\ \A c \in DOMAIN m.quotes : m.quotes[c] \in Sides
BY DEF IsMarket, Range

\* Quotes are not a refusal.
LEMMA QuotesAreNoRefusal ==
  ASSUME NEW cs, cs \subseteq Staged, NEW f, f \in [cs -> Sides]
  PROVE  f # Refused
BY StagingAssumption

-----------------------------------------------------------------------------
(* What is staged stays readable.                                          *)

\* What is staged can be read, at first and at every moment.
LEMMA StagingFirst == Init => StagingIsReadable
<1>1. /\ \A s \in Scenarios : IsScenario(s)
      /\ \A m \in RealMarkets : IsMarket(m)
  BY ArithmeticAssumption
<1> QED BY <1>1 DEF Init, StagingIsReadable

\* Time that goes by leaves it readable.
LEMMA StagingNext == StagingIsReadable /\ [Next]_vars => StagingIsReadable'
<1> SUFFICES ASSUME StagingIsReadable, [Next]_vars PROVE StagingIsReadable'
  OBVIOUS
<1>1. \A m \in RealMarkets : IsMarket(m)
  BY ArithmeticAssumption
<1>2. elapsed \in Nat /\ elapsed + 1 \in Nat
  BY DEF StagingIsReadable
<1>3. StagingIsReadable' <=>
        /\ elapsed' \in Nat
        /\ scenario' # Nothing => IsScenario(scenario') /\ Accepted(scenario') /\ IsMarket(market')
  BY DEF StagingIsReadable
<1>4. CASE TimePasses
  <2>1. /\ scenario' = scenario /\ elapsed' = elapsed + 1
        /\ market' \in IF Overlay(scenario) THEN RealMarkets ELSE {market}
        /\ scenario # Nothing
    BY <1>4 DEF TimePasses
  <2>2. IsScenario(scenario) /\ Accepted(scenario) /\ IsMarket(market)
    BY <2>1 DEF StagingIsReadable
  <2>3. IsMarket(market')
    BY <1>1, <2>1, <2>2
  <2> HIDE DEF StagingIsReadable
  <2> QED BY <1>2, <1>3, <2>1, <2>2, <2>3
<1>5. CASE UNCHANGED <<scenario, market>> /\ elapsed' \in {elapsed, elapsed + 1}
  <2>1. scenario # Nothing => IsScenario(scenario) /\ Accepted(scenario) /\ IsMarket(market)
    BY DEF StagingIsReadable
  <2> QED BY <1>2, <1>3, <1>5, <2>1
<1>6. CASE FillsPart \/ Pass \/ Trade \/ Settles \/ Remembers \/ UNCHANGED vars
  BY <1>5, <1>6 DEF FillsPart, Pass, Trade, Settles, Remembers, vars
<1> QED BY <1>4, <1>6 DEF Next

\* It can be read as long as it is staged.
LEMMA StagingReadable == Spec => []StagingIsReadable
<1> QED BY StagingFirst, StagingNext, PTL DEF Spec

-----------------------------------------------------------------------------
(* One reality.                                                            *)

\* An answer is of one step or one displacement, and a staged quote has a price beside it.
LEMMA OneMarket ==
  ASSUME StagingIsReadable, scenario # Nothing
  PROVE  OneAnswerIsOfOneMarket
<1>1. IsScenario(scenario) /\ Accepted(scenario)
  BY DEF StagingIsReadable
<1> SUFFICES ASSUME NEW asked \in SUBSET Staged, Said("snapshot", asked) # Refused
             PROVE  LET said == Said("snapshot", asked) IN
                    /\ \A c \in DOMAIN said : said[c].by = said[c].greeks
                    /\ Overlay(scenario) => \A c, d \in DOMAIN said : said[c].by = said[d].by
                    /\ ~Overlay(scenario) /\ DOMAIN said # {} => StagedPrice(scenario, elapsed) > 0
  BY DEF OneAnswerIsOfOneMarket
<1>2. CASE Overlay(scenario)
  <2>1. Said("snapshot", asked) = OverlaySnapshot(scenario, elapsed, market, asked)
    BY <1>2 DEF Said, Answer, Relayed, OverlaidAnswer
  <2>2. \E sent, q : OverlaySnapshot(scenario, elapsed, market, asked) =
          [c \in sent |-> [quote |-> q[c], by |-> ShiftAt(scenario, elapsed),
                           greeks |-> ShiftAt(scenario, elapsed)]]
    <3> DEFINE sent == asked \cap DOMAIN market.quotes
               shift == ShiftAt(scenario, elapsed)
               q == [c \in sent |-> ShiftedQuote(market.quotes[c], c, RealSpot(market), shift)]
    <3>1. OverlaySnapshot(scenario, elapsed, market, asked) =
            [c \in sent |-> [quote |-> ShiftedQuote(market.quotes[c], c, RealSpot(market), shift),
                             by |-> shift, greeks |-> shift]]
      BY <2>1 DEF OverlaySnapshot
    <3>2. OverlaySnapshot(scenario, elapsed, market, asked) =
            [c \in sent |-> [quote |-> q[c], by |-> shift, greeks |-> shift]]
      BY <3>1
    <3> QED BY <3>2
  <2> QED BY <1>2, <2>1, <2>2
<1>3. CASE ~Overlay(scenario)
  <2>1. Said("snapshot", asked) = StagedSnapshot(scenario, elapsed, asked)
    BY <1>3 DEF Said, Answer, Relayed, StagedAnswer
  <2>2. \A c \in DOMAIN Said("snapshot", asked) :
          /\ Said("snapshot", asked)[c].by = QuoteOf(scenario, elapsed, c)
          /\ Said("snapshot", asked)[c].greeks = GreeksOf(scenario, elapsed, c)
          /\ QuoteOf(scenario, elapsed, c) # 0
    BY <2>1 DEF StagedSnapshot
  <2>3. \A c : QuoteOf(scenario, elapsed, c) = GreeksOf(scenario, elapsed, c)
    BY DEF QuoteOf, GreeksOf
  <2>4. ASSUME DOMAIN Said("snapshot", asked) # {} PROVE StagedPrice(scenario, elapsed) > 0
    <3>1. PICK c \in DOMAIN Said("snapshot", asked) : QuoteOf(scenario, elapsed, c) # 0
      BY <2>2, <2>4
    <3>2. Begun(scenario, elapsed) # {}
      <4> SUFFICES ASSUME Begun(scenario, elapsed) = {} PROVE FALSE
        OBVIOUS
      <4>1. {0} \cup {i \in Begun(scenario, elapsed) :
                        c \in DOMAIN scenario.steps[i].quotes} = {0}
        OBVIOUS
      <4>2. QuoteOf(scenario, elapsed, c) = Max({0})
        BY <4>1 DEF QuoteOf
      <4>3. Max({0}) = 0
        <5>1. {0, 0} = {0}
          OBVIOUS
        <5> QED BY <5>1, MaxOfTwo
      <4> QED BY <3>1, <4>2, <4>3
    <3>3. Max(Begun(scenario, elapsed)) \in 1..Len(scenario.steps)
      BY <1>1, <3>2, BegunIs
    <3>4. scenario.steps[Max(Begun(scenario, elapsed))].price \in Nat \ {0}
      BY <1>1, <1>3, <3>3, StepsAre
    <3> QED BY <3>2, <3>4 DEF StagedPrice
  <2> QED BY <1>3, <2>2, <2>3, <2>4
<1> QED BY <1>2, <1>3

\* A displacement takes no side of a quote away, and crosses none.
LEMMA QuotedStill ==
  ASSUME WorthIsWhole, StagingIsReadable, scenario # Nothing
  PROVE  StillQuoted
<1>1. IsScenario(scenario) /\ Accepted(scenario) /\ IsMarket(market) /\ elapsed \in Nat
  BY DEF StagingIsReadable
<1> DEFINE dealt(c) == OptionQuotes(scenario, elapsed, market, {c})
           shift == ShiftAt(scenario, elapsed)
<1> SUFFICES ASSUME NEW c \in Staged, Overlay(scenario), dealt(c) # Refused, c \in DOMAIN dealt(c)
             PROVE  /\ market.quotes[c].ask > 0 => dealt(c)[c].ask > 0
                    /\ market.quotes[c].bid <= market.quotes[c].ask => dealt(c)[c].bid <= dealt(c)[c].ask
  BY DEF StillQuoted
<1>2. ~(shift.num # 0 /\ ~Displaceable(market, {c} \cap DOMAIN market.quotes))
  BY DEF OptionQuotes
<1>3. dealt(c) = [d \in {c} \cap DOMAIN market.quotes |->
                    ShiftedQuote(market.quotes[d], d, RealSpot(market), shift)]
  BY <1>2 DEF OptionQuotes
<1>4. /\ dealt(c)[c] = ShiftedQuote(market.quotes[c], c, RealSpot(market), shift)
      /\ market.quotes[c] \in Sides
  BY <1>1, <1>3, MarketIs
<1>5. shift.num \in Int /\ shift.den \in Nat \ {0}
  BY <1>1, ShiftIs
<1> HIDE DEF dealt, shift
<1>6. CASE shift.num = 0
  BY <1>4, <1>6 DEF ShiftedQuote
<1>7. CASE shift.num # 0
  <2>1. RealSpot(market) \in Int
    BY <1>1, <1>2, <1>7, SpotIs DEF Displaceable
  <2> QED BY <1>4, <1>5, <2>1, ShiftedIs
<1> QED BY <1>6, <1>7

\* What an answer says of contracts is what they are dealt by.
LEMMA SnapshotAsDealt ==
  ASSUME WorthIsWhole, StagingIsReadable, scenario # Nothing, NEW asked \in SUBSET Staged,
         Said("snapshot", asked) # Refused
  PROVE  LET said  == Said("snapshot", asked)
             dealt == OptionQuotes(scenario, elapsed, market, asked)
         IN dealt # Refused /\ dealt = [c \in DOMAIN said |-> said[c].quote]
<1>1. IsScenario(scenario) /\ Accepted(scenario) /\ IsMarket(market) /\ elapsed \in Nat
  BY DEF StagingIsReadable
<1> DEFINE said  == Said("snapshot", asked)
           dealt == OptionQuotes(scenario, elapsed, market, asked)
           shift == ShiftAt(scenario, elapsed)
<1>2. CASE Overlay(scenario)
  <2> DEFINE sent == asked \cap DOMAIN market.quotes
             q(c) == ShiftedQuote(market.quotes[c], c, RealSpot(market), shift)
  <2>1. said = OverlaySnapshot(scenario, elapsed, market, asked)
    BY <1>2 DEF Said, Answer, Relayed, OverlaidAnswer
  <2>2. ~(shift.num # 0 /\ ~Displaceable(market, sent))
    BY <2>1 DEF OverlaySnapshot
  <2>3. said = [c \in sent |-> [quote |-> q(c), by |-> shift, greeks |-> shift]]
    BY <2>1, <2>2 DEF OverlaySnapshot
  <2>4. dealt = [c \in sent |-> q(c)]
    BY <1>2, <2>2 DEF OptionQuotes
  <2>5. ASSUME NEW c \in sent PROVE q(c) \in Sides
    <3>1. market.quotes[c] \in Sides /\ c \in Staged
      BY <1>1, MarketIs
    <3>2. shift.num \in Int /\ shift.den \in Nat \ {0}
      BY <1>1, <1>2, ShiftIs
    <3>3. CASE shift.num = 0
      BY <3>1, <3>3 DEF ShiftedQuote
    <3>4. CASE shift.num # 0
      <4>1. RealSpot(market) \in Int
        BY <1>1, <2>2, <3>4, SpotIs DEF Displaceable
      <4> HIDE DEF shift
      <4> QED BY <3>1, <3>2, <4>1, ShiftedIs
    <3> QED BY <3>3, <3>4
  <2> HIDE DEF said, dealt, shift, q
  <2>6. dealt \in [sent -> Sides]
    BY <2>4, <2>5
  <2>7. dealt # Refused
    BY <2>6, QuotesAreNoRefusal
  <2>8. DOMAIN said = sent /\ \A c \in sent : said[c].quote = q(c)
    BY <2>3
  <2>9. dealt = [c \in DOMAIN said |-> said[c].quote]
    BY <2>4, <2>8
  <2> QED BY <2>7, <2>9 DEF said, dealt
<1>3. CASE ~Overlay(scenario)
  <2> DEFINE sent == {d \in asked : QuoteOf(scenario, elapsed, d) # 0}
             q(c) == scenario.steps[QuoteOf(scenario, elapsed, c)].quotes[c]
  <2>1. said = StagedSnapshot(scenario, elapsed, asked)
    BY <1>3 DEF Said, Answer, Relayed, StagedAnswer
  <2>2. DOMAIN said = sent /\ \A c \in sent : said[c].quote = q(c)
    BY <2>1 DEF StagedSnapshot
  <2>3. dealt = [c \in sent |-> q(c)]
    BY <1>3 DEF OptionQuotes
  <2>4. ASSUME NEW c \in sent PROVE q(c) \in Sides
    <3> DEFINE with == {i \in Begun(scenario, elapsed) : c \in DOMAIN scenario.steps[i].quotes}
    <3>1. Begun(scenario, elapsed) \subseteq 1..Len(scenario.steps)
          /\ IsFiniteSet(Begun(scenario, elapsed)) /\ Len(scenario.steps) \in Nat
      BY <1>1, BegunIs, StepsAre
    <3>2. IsFiniteSet({0} \cup with)
      <4>1. IsFiniteSet(with) /\ {0} \cup with = with \cup {0}
        BY <3>1, FS_Subset
      <4> QED BY <4>1, FS_AddElement
    <3>3. Max({0} \cup with) \in {0} \cup with
      <4>1. {0} \cup with \subseteq Int /\ {0} \cup with # {}
        BY <3>1
      <4> HIDE DEF with
      <4> QED BY <3>2, <4>1, MaxIs
    <3>4. QuoteOf(scenario, elapsed, c) \in with
      BY <3>3 DEF QuoteOf
    <3> QED BY <1>1, <3>1, <3>4, StepsAre
  <2> HIDE DEF said, dealt, q, sent
  <2>5. sent \subseteq Staged
    BY DEF sent
  <2>6. dealt \in [sent -> Sides]
    BY <2>3, <2>4
  <2>7. dealt # Refused
    BY <2>5, <2>6, QuotesAreNoRefusal
  <2>8. dealt = [c \in DOMAIN said |-> said[c].quote]
    BY <2>2, <2>3
  <2> QED BY <2>7, <2>8 DEF said, dealt
<1> QED BY <1>2, <1>3

\* What an answer says of last trades is what is settled by.
LEMMA TradeAsSettled ==
  ASSUME NEW asked \in SUBSET Symbols, Said("trade", asked) # Refused,
         NEW x \in DOMAIN LastTrades(scenario, elapsed, market, asked)
  PROVE  Said("trade", asked)[x] = LastTrades(scenario, elapsed, market, asked)[x]
<1> DEFINE settled == LastTrades(scenario, elapsed, market, asked)
           shift == ShiftAt(scenario, elapsed)
<1>1. CASE ~Overlay(scenario)
  <2>1. Said("trade", asked) = StagedTrade(scenario, elapsed, asked)
    BY <1>1 DEF Said, Answer, Relayed, StagedAnswer
  <2> QED BY <1>1, <2>1 DEF LastTrades, StagedTrade
<1>2. CASE Overlay(scenario)
  <2>1. Said("trade", asked) = OverlayTrade(scenario, elapsed, market, asked)
    BY <1>2 DEF Said, Answer, Relayed, OverlaidAnswer
  <2>2. /\ x \in asked \cap DOMAIN market.trades
        /\ settled[x] = IF x = Underlying /\ shift.num # 0
                        THEN ShiftedTrade(market.trades[x], shift) ELSE market.trades[x]
    BY <1>2 DEF LastTrades
  <2> HIDE DEF settled
  <2>3. CASE shift.num = 0
    <3>1. OverlayTrade(scenario, elapsed, market, asked)
            = [y \in asked \cap DOMAIN market.trades |-> market.trades[y]]
      BY <2>3 DEF OverlayTrade, Restrict
    <3> QED BY <2>1, <2>2, <2>3, <3>1 DEF settled
  <2>4. CASE shift.num # 0
    <3> DEFINE sent  == asked \cap DOMAIN market.trades
               moved == sent \cap {Underlying}
    <3>1. ~(RealSpot(market) = Refused \/ \E y \in moved : market.trades[y] <= 0)
      BY <2>1, <2>4 DEF OverlayTrade
    <3>2. OverlayTrade(scenario, elapsed, market, asked)
            = [y \in sent |-> IF y \in moved THEN ShiftedTrade(market.trades[y], shift)
                              ELSE market.trades[y]]
      BY <2>4, <3>1 DEF OverlayTrade
    <3> QED BY <2>1, <2>2, <2>4, <3>2 DEF settled
  <2> QED BY <2>3, <2>4
<1> QED BY <1>1, <1>2

\* What is read at a moment is what is dealt and settled by.
LEMMA DealtAsRead ==
  ASSUME WorthIsWhole, StagingIsReadable, scenario # Nothing
  PROVE  ReadAsDealt
<1>1. ~Overlay(scenario) /\ ~Refuses(scenario, elapsed, "clock") =>
        ClockAnswer(scenario, elapsed) = StagedClock(scenario, elapsed)
  BY DEF ClockAnswer, StagedClock
<1>2. \A asked \in SUBSET Staged :
        LET said  == Said("snapshot", asked)
            dealt == OptionQuotes(scenario, elapsed, market, asked)
        IN said # Refused => dealt # Refused /\ dealt = [c \in DOMAIN said |-> said[c].quote]
  BY SnapshotAsDealt
<1>3. \A asked \in SUBSET Symbols :
        LET said    == Said("trade", asked)
            settled == LastTrades(scenario, elapsed, market, asked)
        IN said # Refused => \A x \in DOMAIN settled : said[x] = settled[x]
  BY TradeAsSettled
<1> QED BY <1>1, <1>2, <1>3 DEF ReadAsDealt

\* quotes.go: "the book fills against the SAME prices the agent read".  Staged or
\* displaced, in every moment and at every fault, an answer is of one market, is what the
\* arena deals and settles by, and takes no quote off the market.
THEOREM RealityIsOne == ASSUME WorthIsWhole PROVE Spec => []OneReality
<1>1. StagingIsReadable => OneReality
  BY OneMarket, QuotedStill, DealtAsRead DEF OneReality
<1> QED BY <1>1, StagingReadable, PTL

-----------------------------------------------------------------------------
(* A displacement that never jumps.                                        *)

\* Two fractions lie no further apart than a line that climbs rise in run goes in time.
Near(p, q, rise, run, time) ==
  Distance(p, q) * run <= time * rise * p.den * q.den

IsFraction(p) == p.num \in Int /\ p.den \in Nat \ {0}

\* Absolute values.
LEMMA AbsIs ==
  ASSUME NEW x \in Int
  PROVE  Abs(x) \in Nat /\ x <= Abs(x) /\ -x <= Abs(x) /\ (Abs(x) = x \/ Abs(x) = -x)
BY DEF Abs

\* An inequality times a number, and without it.
LEMMA Scaled ==
  ASSUME NEW x \in Int, NEW y \in Int, NEW k \in Nat
  PROVE  /\ x <= y => x * k <= y * k
         /\ k # 0 /\ x * k <= y * k => x <= y
<1>1. \A d \in Nat : d * k \in Nat
  OBVIOUS
<1>2. ASSUME x <= y PROVE x * k <= y * k
  <2>1. y - x \in Nat /\ (y - x) * k \in Nat
    BY <1>1, <1>2
  <2>2. (y - x) * k = y * k - x * k
    OBVIOUS
  <2> QED BY <2>1, <2>2
<1>3. ASSUME k # 0, x * k <= y * k, ~(x <= y) PROVE FALSE
  <2>1. x - y - 1 \in Nat /\ (x - y - 1) * k \in Nat
    BY <1>1, <1>3
  <2>2. (x - y - 1) * k = x * k - y * k - k
    OBVIOUS
  <2>3. x * k \in Int /\ y * k \in Int
    OBVIOUS
  <2> QED BY <1>3, <2>1, <2>2, <2>3
<1> QED BY <1>2, <1>3

\* The size of a product with a number that is not negative.
LEMMA AbsTimes ==
  ASSUME NEW x \in Int, NEW k \in Nat
  PROVE  Abs(x * k) = Abs(x) * k
<1>1. CASE x >= 0
  <2>1. x * k >= 0 /\ x * k \in Int
    BY <1>1, Scaled
  <2> QED BY <1>1, <2>1 DEF Abs
<1>2. CASE x < 0
  <2>1. x * k <= 0 * k
    BY <1>2, Scaled
  <2>2. x * k \in Int /\ (-x) * k = -(x * k) /\ 0 * k = 0
    OBVIOUS
  <2> QED BY <1>2, <2>1, <2>2 DEF Abs
<1> QED BY <1>1, <1>2

\* The absolute value of a sum.
LEMMA AbsSum ==
  ASSUME NEW x \in Int, NEW y \in Int
  PROVE  Abs(x + y) <= Abs(x) + Abs(y)
BY DEF Abs

\* From one to the next and from there to a third.
LEMMA NearChain ==
  ASSUME NEW p, NEW q, NEW r, IsFraction(p), IsFraction(q), IsFraction(r),
         NEW rise \in Nat, NEW run \in Nat \ {0}, NEW t \in Nat, NEW u \in Nat,
         Near(p, q, rise, run, t), Near(q, r, rise, run, u)
  PROVE  Near(p, r, rise, run, t + u)
<1> DEFINE a == p.num  i == p.den  b == q.num  j == q.den  c == r.num  k == r.den
           x == a * j - b * i
           y == b * k - c * j
           z == a * k - c * i
<1>1. /\ a \in Int /\ b \in Int /\ c \in Int
      /\ i \in Nat \ {0} /\ j \in Nat \ {0} /\ k \in Nat \ {0}
  BY DEF IsFraction
<1>2. Abs(x) * run <= t * rise * i * j /\ Abs(y) * run <= u * rise * j * k
  BY DEF Near, Distance
<1>3. Near(p, r, rise, run, t + u) <=> Abs(z) * run <= (t + u) * rise * i * k
  BY DEF Near, Distance
<1> HIDE DEF a, b, c, i, j, k
<1>4. x \in Int /\ y \in Int /\ z \in Int
  BY <1>1
<1>5. z * j = x * k + y * i
  BY <1>1
<1> HIDE DEF x, y, z
<1>6. Abs(z) * j <= Abs(x) * k + Abs(y) * i
  <2>1. Abs(z * j) = Abs(z) * j /\ Abs(x * k) = Abs(x) * k /\ Abs(y * i) = Abs(y) * i
    BY <1>1, <1>4, AbsTimes
  <2>2. x * k \in Int /\ y * i \in Int
    BY <1>1, <1>4
  <2> QED BY <1>5, <2>1, <2>2, AbsSum
<1>7. Abs(x) \in Nat /\ Abs(y) \in Nat /\ Abs(z) \in Nat
  BY <1>4, AbsIs
<1>8. (Abs(z) * j) * run <= (Abs(x) * k + Abs(y) * i) * run
  <2>1. Abs(z) * j \in Int /\ Abs(x) * k + Abs(y) * i \in Int
    BY <1>1, <1>7
  <2> QED BY <1>6, <2>1, Scaled
<1>9. (Abs(x) * run) * k <= (t * rise * i * j) * k
  <2>1. Abs(x) * run \in Int /\ t * rise * i * j \in Int
    BY <1>1, <1>7
  <2> QED BY <1>1, <1>2, <2>1, Scaled
<1>10. (Abs(y) * run) * i <= (u * rise * j * k) * i
  <2>1. Abs(y) * run \in Int /\ u * rise * j * k \in Int
    BY <1>1, <1>7
  <2> QED BY <1>1, <1>2, <2>1, Scaled
<1>11. (Abs(z) * run) * j <= ((t + u) * rise * i * k) * j
  <2>1. /\ (Abs(z) * j) * run = (Abs(z) * run) * j
        /\ (Abs(x) * k + Abs(y) * i) * run = (Abs(x) * run) * k + (Abs(y) * run) * i
        /\ (t * rise * i * j) * k + (u * rise * j * k) * i = ((t + u) * rise * i * k) * j
    BY <1>1, <1>7
  <2>2. /\ (Abs(z) * run) * j \in Int /\ (Abs(x) * run) * k \in Int /\ (Abs(y) * run) * i \in Int
        /\ (t * rise * i * j) * k \in Int /\ (u * rise * j * k) * i \in Int
    BY <1>1, <1>7
  <2> QED BY <1>8, <1>9, <1>10, <2>1, <2>2
<1>12. Abs(z) * run \in Int /\ (t + u) * rise * i * k \in Int
  BY <1>1, <1>7
<1>13. Abs(z) * run <= (t + u) * rise * i * k
  BY <1>1, <1>11, <1>12, Scaled
<1> QED BY <1>3, <1>13 DEF a, b, c, i, j, k, z

\* It is no less near when there is more time.
LEMMA NearLater ==
  ASSUME NEW p, NEW q, IsFraction(p), IsFraction(q), NEW rise \in Nat, NEW run \in Nat \ {0},
         NEW t \in Nat, NEW u \in Nat, t <= u, Near(p, q, rise, run, t)
  PROVE  Near(p, q, rise, run, u)
<1> DEFINE i == p.den  j == q.den  m == rise * i * j
<1>1. i \in Nat \ {0} /\ j \in Nat \ {0} /\ p.num \in Int /\ q.num \in Int
  BY DEF IsFraction
<1>2. m \in Nat /\ t * rise * i * j = t * m /\ u * rise * i * j = u * m
  BY <1>1
<1>3. t * m <= u * m
  BY <1>2, Scaled
<1>4. Distance(p, q) * run \in Int
  <2>1. p.num * q.den - q.num * p.den \in Int
    BY <1>1
  <2>2. Distance(p, q) \in Nat
    BY <2>1, AbsIs DEF Distance
  <2> QED BY <2>2
<1>5. t * m \in Int /\ u * m \in Int
  BY <1>2
<1>6. Distance(p, q) * run <= t * m
  BY <1>2 DEF Near
<1> HIDE DEF m
<1>7. Distance(p, q) * run <= u * m
  BY <1>3, <1>4, <1>5, <1>6
<1> QED BY <1>2, <1>7 DEF Near, i, j

\* A fraction is no way from itself.
LEMMA NearItself ==
  ASSUME NEW p, IsFraction(p), NEW rise \in Nat, NEW run \in Nat \ {0}
  PROVE  Distance(p, p) = 0 /\ Near(p, p, rise, run, 0)
<1>1. p.num \in Int /\ p.den \in Nat \ {0}
  BY DEF IsFraction
<1>2. p.num * p.den - p.num * p.den = 0
  BY <1>1
<1>3. Distance(p, p) = 0
  BY <1>2 DEF Distance, Abs
<1>4. 0 * run = 0 /\ 0 * rise * p.den * p.den = 0
  BY <1>1
<1> QED BY <1>3, <1>4 DEF Near

\* A step as a displacement, and how far and how long the line from it to the next goes.
Knot(s, i) == [num |-> s.steps[i].delta, den |-> 1]
Rise(s, i) == Abs(s.steps[i + 1].delta - s.steps[i].delta)
Run(s, i)  == s.steps[i + 1].offset - s.steps[i].offset

\* No line between two steps is steeper.
IsSteepest(s, b) ==
  /\ b \in 1..(Len(s.steps) - 1)
  /\ \A i \in 1..(Len(s.steps) - 1) : Rise(s, i) * Run(s, b) <= Rise(s, b) * Run(s, i)

Displaces(s) == IsScenario(s) /\ Accepted(s) /\ Overlay(s)

\* The lines between the steps of a scenario.
LEMMA LinesAre ==
  ASSUME NEW s, Displaces(s)
  PROVE  /\ Len(s.steps) \in Nat \ {0}
         /\ \A i \in 1..Len(s.steps) :
              s.steps[i].offset \in Nat /\ s.steps[i].delta \in Int /\ IsFraction(Knot(s, i))
         /\ \A i \in 1..(Len(s.steps) - 1) :
              /\ i \in 1..Len(s.steps) /\ i + 1 \in 1..Len(s.steps)
              /\ Rise(s, i) \in Nat /\ Run(s, i) \in Nat \ {0}
<1>1. /\ Len(s.steps) \in Nat \ {0}
      /\ \A i \in 1..Len(s.steps) : s.steps[i].offset \in Nat /\ s.steps[i].delta \in Int
      /\ \A i \in 1..Len(s.steps) : i > 1 => s.steps[i].offset > s.steps[i - 1].offset
  BY StepsAre DEF Displaces
<1>2. \A i \in 1..Len(s.steps) : IsFraction(Knot(s, i))
  BY <1>1 DEF IsFraction, Knot
<1>3. ASSUME NEW i \in 1..(Len(s.steps) - 1)
      PROVE  /\ i \in 1..Len(s.steps) /\ i + 1 \in 1..Len(s.steps)
             /\ Rise(s, i) \in Nat /\ Run(s, i) \in Nat \ {0}
  <2>1. i \in 1..Len(s.steps) /\ i + 1 \in 1..Len(s.steps) /\ i + 1 > 1 /\ (i + 1) - 1 = i
    BY <1>1
  <2>2. s.steps[i + 1].offset > s.steps[i].offset
    BY <1>1, <2>1
  <2>3. s.steps[i + 1].offset \in Nat /\ s.steps[i].offset \in Nat
    BY <1>1, <2>1
  <2>4. s.steps[i + 1].delta - s.steps[i].delta \in Int
    BY <1>1, <2>1
  <2>5. Rise(s, i) \in Nat
    BY <2>4, AbsIs DEF Rise
  <2>6. Run(s, i) \in Nat \ {0}
    BY <2>2, <2>3 DEF Run
  <2> QED BY <2>1, <2>5, <2>6
<1> QED BY <1>1, <1>2, <1>3

\* What is steeper than the steeper is steeper.
LEMMA SteeperThanSteeper ==
  ASSUME NEW a \in Nat, NEW b \in Nat, NEW c \in Nat,
         NEW u \in Nat \ {0}, NEW v \in Nat \ {0}, NEW w \in Nat \ {0},
         a * v <= b * u, b * w <= c * v
  PROVE  a * w <= c * u
<1>1. (a * v) * w <= (b * u) * w
  BY Scaled
<1>2. (b * w) * u <= (c * v) * u
  BY Scaled
<1>3. (a * v) * w = (a * w) * v /\ (b * u) * w = (b * w) * u /\ (c * v) * u = (c * u) * v
  OBVIOUS
<1>4. a * w \in Int /\ c * u \in Int /\ (a * w) * v \in Int /\ (c * u) * v \in Int
      /\ (b * w) * u \in Int
  OBVIOUS
<1>5. (a * w) * v <= (c * u) * v
  BY <1>1, <1>2, <1>3, <1>4
<1> QED BY <1>4, <1>5, Scaled

\* Of the lines between the steps, one is the steepest: were it not so of the first few,
\* take the fewest.
LEMMA HasSteepest ==
  ASSUME NEW s, Displaces(s), Len(s.steps) > 1
  PROVE  \E b : IsSteepest(s, b)
<1> DEFINE n == Len(s.steps) - 1
           Best(m, b) == b \in 1..m /\ \A i \in 1..m : Rise(s, i) * Run(s, b) <= Rise(s, b) * Run(s, i)
           none == {m \in 1..n : ~\E b : Best(m, b)}
<1>1. n \in Nat \ {0} /\ \A i \in 1..n : Rise(s, i) \in Nat /\ Run(s, i) \in Nat \ {0}
  BY LinesAre
<1> HIDE DEF n
<1>2. none = {}
  <2> SUFFICES ASSUME none # {} PROVE FALSE
    OBVIOUS
  <2>1. IsFiniteSet(none) /\ none \subseteq Int
    <3>1. IsFiniteSet(1..n)
      BY <1>1, FS_Interval
    <3>2. none \subseteq 1..n
      OBVIOUS
    <3> QED BY <1>1, <3>1, <3>2, FS_Subset
  <2> DEFINE m == Min(none)
  <2>2. m \in none /\ \A k \in none : m <= k
    BY <2>1, MinIs
  <2> HIDE DEF m
  <2>3. m \in 1..n /\ ~\E b : Best(m, b)
    BY <2>2
  <2>4. m # 1
    <3> SUFFICES ASSUME m = 1 PROVE FALSE
      OBVIOUS
    <3>1. Best(1, 1)
      <4>1. 1 \in 1..n /\ \A i \in 1..1 : i = 1
        BY <1>1
      <4>2. Rise(s, 1) * Run(s, 1) \in Int
        BY <1>1, <4>1
      <4> QED BY <4>1, <4>2
    <3> QED BY <2>3, <3>1
  <2>5. m - 1 \in 1..n /\ m - 1 < m
    BY <1>1, <2>3, <2>4
  <2>6. PICK b : Best(m - 1, b)
    BY <2>1, <2>2, <2>5
  <2>7. b \in 1..n /\ b \in 1..m
    BY <1>1, <2>3, <2>5, <2>6
  <2>8. \A i \in 1..m : i \in 1..(m - 1) \/ i = m
    BY <1>1, <2>3
  <2>9. /\ Rise(s, b) \in Nat /\ Run(s, b) \in Nat \ {0}
        /\ Rise(s, m) \in Nat /\ Run(s, m) \in Nat \ {0}
    BY <1>1, <2>3, <2>7
  <2>10. CASE Rise(s, m) * Run(s, b) <= Rise(s, b) * Run(s, m)
    <3>1. Best(m, b)
      BY <2>6, <2>7, <2>8, <2>10
    <3> QED BY <2>3, <3>1
  <2>11. CASE ~(Rise(s, m) * Run(s, b) <= Rise(s, b) * Run(s, m))
    <3>1. Rise(s, b) * Run(s, m) <= Rise(s, m) * Run(s, b)
      <4>1. Rise(s, b) * Run(s, m) \in Int /\ Rise(s, m) * Run(s, b) \in Int
        BY <2>9
      <4> QED BY <2>11, <4>1
    <3>2. ASSUME NEW i \in 1..(m - 1)
          PROVE  Rise(s, i) * Run(s, m) <= Rise(s, m) * Run(s, i)
      <4>1. i \in 1..n
        BY <1>1, <2>5
      <4>2. Rise(s, i) \in Nat /\ Run(s, i) \in Nat \ {0}
        BY <1>1, <4>1
      <4>3. Rise(s, i) * Run(s, b) <= Rise(s, b) * Run(s, i)
        BY <2>6
      <4> QED BY <2>9, <3>1, <4>2, <4>3, SteeperThanSteeper
    <3>3. Rise(s, m) * Run(s, m) <= Rise(s, m) * Run(s, m)
      <4>1. Rise(s, m) * Run(s, m) \in Int
        BY <2>9
      <4> QED BY <4>1
    <3>4. m \in 1..m
      BY <1>1, <2>3
    <3>5. Best(m, m)
      BY <2>8, <3>2, <3>3, <3>4
    <3> QED BY <2>3, <3>5
  <2> QED BY <2>10, <2>11
<1>3. \E b : Best(n, b)
  <2>1. n \in 1..n
    BY <1>1
  <2> QED BY <1>2, <2>1
<1> QED BY <1>3 DEF IsSteepest, n

\* From one step to the next, and so from any step to any later one: were it not so of
\* some, take the first.
LEMMA KnotsNear ==
  ASSUME NEW s, Displaces(s), NEW b, IsSteepest(s, b), NEW j \in 1..Len(s.steps)
  PROVE  \A k \in j..Len(s.steps) :
           /\ s.steps[k].offset - s.steps[j].offset \in Nat
           /\ Near(Knot(s, j), Knot(s, k), Rise(s, b), Run(s, b), s.steps[k].offset - s.steps[j].offset)
<1> DEFINE n == Len(s.steps)
           T(k) == s.steps[k].offset - s.steps[j].offset
           Good(k) == T(k) \in Nat /\ Near(Knot(s, j), Knot(s, k), Rise(s, b), Run(s, b), T(k))
           bad == {k \in j..n : ~Good(k)}
<1>0. n \in Nat \ {0} /\ b \in 1..(n - 1) /\ j \in Nat
  BY LinesAre DEF IsSteepest
<1>1. /\ n \in Nat \ {0} /\ b \in 1..(n - 1) /\ j \in Nat
      /\ \A i \in 1..n : s.steps[i].offset \in Nat /\ s.steps[i].delta \in Int /\ IsFraction(Knot(s, i))
      /\ \A i \in 1..(n - 1) : Rise(s, i) \in Nat /\ Run(s, i) \in Nat \ {0}
  BY <1>0, LinesAre
<1>2. Rise(s, b) \in Nat /\ Run(s, b) \in Nat \ {0}
  BY <1>1
<1>3. j \in 1..n
  OBVIOUS
<1> HIDE DEF n
<1>4. ASSUME NEW i \in 1..(n - 1)
      PROVE  Near(Knot(s, i), Knot(s, i + 1), Rise(s, b), Run(s, b), Run(s, i))
  <2>1. /\ s.steps[i].delta \in Int /\ s.steps[i + 1].delta \in Int
        /\ Rise(s, i) \in Nat /\ Run(s, i) \in Nat
    BY <1>1
  <2>2. Distance(Knot(s, i), Knot(s, i + 1)) = Rise(s, i)
    <3>1. Knot(s, i).num * Knot(s, i + 1).den - Knot(s, i + 1).num * Knot(s, i).den
            = s.steps[i].delta - s.steps[i + 1].delta
      BY <2>1 DEF Knot
    <3>2. \A x, y \in Int : Abs(x - y) = Abs(y - x)
      BY DEF Abs
    <3> QED BY <2>1, <3>1, <3>2 DEF Distance, Rise
  <2>3. Rise(s, i) * Run(s, b) <= Rise(s, b) * Run(s, i)
    BY DEF IsSteepest, n
  <2>4. Run(s, i) * Rise(s, b) * Knot(s, i).den * Knot(s, i + 1).den = Rise(s, b) * Run(s, i)
    <3>1. Knot(s, i).den = 1 /\ Knot(s, i + 1).den = 1
      BY DEF Knot
    <3>2. Run(s, i) * Rise(s, b) * 1 * 1 = Rise(s, b) * Run(s, i)
      BY <1>2, <2>1
    <3> QED BY <3>1, <3>2
  <2> QED BY <2>2, <2>3, <2>4 DEF Near
<1>5. bad = {}
  <2> SUFFICES ASSUME bad # {} PROVE FALSE
    OBVIOUS
  <2>1. IsFiniteSet(bad) /\ bad \subseteq Int
    <3>1. IsFiniteSet(j..n)
      BY <1>1, FS_Interval
    <3>2. bad \subseteq j..n
      OBVIOUS
    <3> QED BY <1>1, <3>1, <3>2, FS_Subset
  <2> DEFINE k == Min(bad)
  <2>2. k \in bad /\ \A i \in bad : k <= i
    BY <2>1, MinIs
  <2> HIDE DEF k
  <2>3. k \in j..n /\ ~Good(k)
    BY <2>2
  <2>4. Good(j)
    <3>1. T(j) = 0
      BY <1>1, <1>3
    <3>2. Near(Knot(s, j), Knot(s, j), Rise(s, b), Run(s, b), 0)
      BY <1>1, <1>2, <1>3, NearItself
    <3> QED BY <3>1, <3>2
  <2>5. k # j
    BY <2>3, <2>4
  <2>6. k - 1 \in j..n /\ k - 1 < k /\ k - 1 \in 1..(n - 1) /\ (k - 1) + 1 = k
        /\ k - 1 \in 1..n /\ k \in 1..n
    BY <1>1, <1>3, <2>3, <2>5
  <2>7. Good(k - 1)
    BY <2>1, <2>2, <2>6
  <2>8. Near(Knot(s, k - 1), Knot(s, k), Rise(s, b), Run(s, b), Run(s, k - 1))
    BY <1>4, <2>6
  <2>9. Run(s, k - 1) \in Nat /\ Run(s, k - 1) = s.steps[k].offset - s.steps[k - 1].offset
    BY <1>1, <2>6 DEF Run
  <2>10. T(k) = T(k - 1) + Run(s, k - 1)
    <3>1. /\ s.steps[k].offset \in Int /\ s.steps[k - 1].offset \in Int
          /\ s.steps[j].offset \in Int
      <4>1. \A i \in 1..n : s.steps[i].offset \in Int
        BY <1>1
      <4> HIDE DEF T, Good, bad
      <4> QED BY <1>3, <2>6, <4>1
    <3>2. T(k - 1) = s.steps[k - 1].offset - s.steps[j].offset
      OBVIOUS
    <3> QED BY <2>9, <3>1, <3>2
  <2>11. IsFraction(Knot(s, j)) /\ IsFraction(Knot(s, k - 1)) /\ IsFraction(Knot(s, k))
    BY <1>1, <1>3, <2>6
  <2>12. T(k - 1) \in Nat /\ Near(Knot(s, j), Knot(s, k - 1), Rise(s, b), Run(s, b), T(k - 1))
    BY <2>7
  <2> HIDE DEF T
  <2>13. Near(Knot(s, j), Knot(s, k), Rise(s, b), Run(s, b), T(k - 1) + Run(s, k - 1))
    BY <1>2, <2>8, <2>9, <2>11, <2>12, NearChain
  <2>14. T(k) \in Nat
    BY <2>9, <2>10, <2>12
  <2> QED BY <2>3, <2>10, <2>13, <2>14
<1> QED BY <1>5 DEF n

\* The displacement on the line from a step to the next.
Line(s, i, moment) ==
  [num |-> s.steps[i].delta * Run(s, i)
             + (moment - s.steps[i].offset) * (s.steps[i + 1].delta - s.steps[i].delta),
   den |-> Run(s, i)]

\* Where a line is at a moment.
LEMMA LineIs ==
  ASSUME NEW s, Displaces(s), NEW i \in 1..(Len(s.steps) - 1), NEW moment \in Int
  PROVE  /\ IsFraction(Line(s, i, moment))
         /\ Distance(Knot(s, i), Line(s, i, s.steps[i].offset)) = 0
         /\ Distance(Line(s, i, s.steps[i + 1].offset), Knot(s, i + 1)) = 0
<1> DEFINE d == s.steps[i].delta  e == s.steps[i + 1].delta
           o == s.steps[i].offset  p == s.steps[i + 1].offset  w == Run(s, i)
<1>1. \A k \in 1..Len(s.steps) : s.steps[k].offset \in Nat /\ s.steps[k].delta \in Int
  BY LinesAre
<1>2. i \in 1..Len(s.steps) /\ i + 1 \in 1..Len(s.steps) /\ w \in Nat \ {0} /\ w = p - o
  BY LinesAre DEF Run
<1>3. d \in Int /\ e \in Int /\ o \in Nat /\ p \in Nat
  BY <1>1, <1>2
<1>4. \A x : /\ Line(s, i, x).num = d * w + (x - o) * (e - d)
             /\ Line(s, i, x).den = w
  BY DEF Line
<1>5. Knot(s, i).num = d /\ Knot(s, i).den = 1 /\ Knot(s, i + 1).num = e /\ Knot(s, i + 1).den = 1
  BY DEF Knot
<1> HIDE DEF d, e, o, p, w
<1>6. d * w + (moment - o) * (e - d) \in Int
  BY <1>2, <1>3
<1>7. d * w - (d * w + (o - o) * (e - d)) * 1 = 0
  BY <1>2, <1>3
<1>8. (d * w + (p - o) * (e - d)) * 1 - e * w = 0
  BY <1>2, <1>3
<1>9. Abs(0) = 0
  BY DEF Abs
<1>10. Distance(Knot(s, i), Line(s, i, o)) = 0
  BY <1>4, <1>5, <1>7, <1>9 DEF Distance
<1>11. Distance(Line(s, i, p), Knot(s, i + 1)) = 0
  BY <1>4, <1>5, <1>8, <1>9 DEF Distance
<1> QED BY <1>2, <1>4, <1>6, <1>10, <1>11 DEF IsFraction, o, p

\* What is no distance away is near in no time.
LEMMA NearAtOnce ==
  ASSUME NEW p, NEW q, IsFraction(p), IsFraction(q), Distance(p, q) = 0,
         NEW rise \in Nat, NEW run \in Nat \ {0}
  PROVE  Near(p, q, rise, run, 0)
<1>1. p.den \in Nat /\ q.den \in Nat
  BY DEF IsFraction
<1>2. 0 * run = 0 /\ 0 * rise * p.den * q.den = 0
  BY <1>1
<1> QED BY <1>2 DEF Near

\* On one line it moves no faster than on the steepest.
LEMMA LineNear ==
  ASSUME NEW s, Displaces(s), NEW b, IsSteepest(s, b), NEW i \in 1..(Len(s.steps) - 1),
         NEW x \in Int, NEW y \in Int, x <= y
  PROVE  Near(Line(s, i, x), Line(s, i, y), Rise(s, b), Run(s, b), y - x)
<1> DEFINE d == s.steps[i].delta  e == s.steps[i + 1].delta  o == s.steps[i].offset
           w == Run(s, i)  a == Rise(s, i)  A == Rise(s, b)  W == Run(s, b)
<1>0. b \in 1..(Len(s.steps) - 1)
  BY DEF IsSteepest
<1>1. /\ \A k \in 1..Len(s.steps) : s.steps[k].offset \in Nat /\ s.steps[k].delta \in Int
      /\ i \in 1..Len(s.steps) /\ i + 1 \in 1..Len(s.steps)
      /\ w \in Nat \ {0} /\ a \in Nat /\ A \in Nat /\ W \in Nat \ {0}
  BY <1>0, LinesAre
<1>2. d \in Int /\ e \in Int /\ o \in Nat
  BY <1>1
<1>3. a * W <= A * w
  BY DEF IsSteepest
<1>4. a = Abs(e - d)
  BY DEF Rise
<1>5. \A z : /\ Line(s, i, z).num = d * w + (z - o) * (e - d)
             /\ Line(s, i, z).den = w
  BY DEF Line
<1>6. Near(Line(s, i, x), Line(s, i, y), A, W, y - x)
        <=> Distance(Line(s, i, x), Line(s, i, y)) * W <= (y - x) * A * w * w
  BY <1>5 DEF Near
<1> HIDE DEF d, e, o, w, a, A, W
<1>7. Distance(Line(s, i, x), Line(s, i, y)) = a * ((y - x) * w)
  <2>1. (d * w + (x - o) * (e - d)) * w - (d * w + (y - o) * (e - d)) * w
          = -((e - d) * ((y - x) * w))
    BY <1>1, <1>2
  <2>2. (y - x) * w \in Nat /\ e - d \in Int
    <3>1. y - x \in Nat
      OBVIOUS
    <3> QED BY <1>1, <1>2, <3>1
  <2>3. Abs((e - d) * ((y - x) * w)) = a * ((y - x) * w)
    BY <1>4, <2>2, AbsTimes
  <2>4. \A z \in Int : Abs(-z) = Abs(z)
    BY DEF Abs
  <2>5. (e - d) * ((y - x) * w) \in Int
    BY <2>2
  <2> QED BY <1>5, <2>1, <2>3, <2>4, <2>5 DEF Distance
<1>8. (a * W) * ((y - x) * w) <= (A * w) * ((y - x) * w)
  <2>1. (y - x) * w \in Nat
    <3>1. y - x \in Nat
      OBVIOUS
    <3> QED BY <1>1, <3>1
  <2>2. a * W \in Int /\ A * w \in Int
    BY <1>1
  <2> QED BY <1>3, <2>1, <2>2, Scaled
<1>9. /\ (a * W) * ((y - x) * w) = (a * ((y - x) * w)) * W
      /\ (A * w) * ((y - x) * w) = (y - x) * A * w * w
  BY <1>1
<1>10. Near(Line(s, i, x), Line(s, i, y), A, W, y - x)
  BY <1>6, <1>7, <1>8, <1>9
<1> QED BY <1>10 DEF A, W

\* Before the first step, after the last, or on the line between two.
LEMMA WhereItIs ==
  ASSUME NEW s, Displaces(s), NEW e \in Nat
  PROVE  \/ /\ \A k \in 1..Len(s.steps) : Moment(s, e) < s.steps[k].offset
            /\ ShiftAt(s, e) = Knot(s, 1)
         \/ /\ s.steps[Len(s.steps)].offset <= Moment(s, e)
            /\ ShiftAt(s, e) = Knot(s, Len(s.steps))
         \/ \E i \in 1..(Len(s.steps) - 1) :
              /\ s.steps[i].offset <= Moment(s, e) /\ Moment(s, e) < s.steps[i + 1].offset
              /\ ShiftAt(s, e) = Line(s, i, Moment(s, e))
<1> DEFINE i == Max({1} \cup Begun(s, e))
           n == Len(s.steps)
<1>1. /\ n \in Nat \ {0} /\ DOMAIN s.steps = 1..n
      /\ \A k \in 1..n : s.steps[k].offset \in Nat
      /\ Moment(s, e) \in Nat
  BY StepsAre, MomentIs DEF Displaces
<1>2. /\ i \in 1..n /\ i \in {1} \cup Begun(s, e) /\ Begun(s, e) \subseteq 1..n
      /\ \A k \in Begun(s, e) : k <= i
  BY BegunIs DEF Displaces
<1>3. \A k \in 1..n : k \in Begun(s, e) <=> s.steps[k].offset <= Moment(s, e)
  BY <1>1 DEF Begun
<1>4. CASE Begun(s, e) = {}
  <2>1. \A k \in 1..n : Moment(s, e) < s.steps[k].offset
    BY <1>1, <1>3, <1>4
  <2>2. i = 1
    BY <1>2, <1>4
  <2>3. ShiftAt(s, e) = Knot(s, 1)
    BY <1>4, <2>2 DEF ShiftAt, Knot
  <2> QED BY <2>1, <2>3
<1>5. CASE Begun(s, e) # {}
  <2>1. i \in Begun(s, e)
    <3>1. CASE i = 1
      <4>1. PICK k \in Begun(s, e) : k <= 1 /\ k \in 1..n
        BY <1>2, <1>5, <3>1
      <4>2. k = 1
        BY <1>1, <4>1
      <4> QED BY <3>1, <4>1, <4>2
    <3>2. CASE i # 1
      BY <1>2, <3>2
    <3> QED BY <3>1, <3>2
  <2>2. s.steps[i].offset <= Moment(s, e)
    BY <1>2, <1>3, <2>1
  <2>3. CASE i = n
    <3>1. ShiftAt(s, e) = Knot(s, n)
      BY <2>3 DEF ShiftAt, Knot
    <3> QED BY <2>2, <2>3, <3>1
  <2>4. CASE i # n
    <3>1. i \in 1..(n - 1) /\ i + 1 \in 1..n /\ ~(i + 1 <= i)
      <4> HIDE DEF i, n
      <4> QED BY <1>1, <1>2, <2>4
    <3>2. i + 1 \notin Begun(s, e)
      BY <1>2, <3>1
    <3>3. Moment(s, e) < s.steps[i + 1].offset
      <4>1. s.steps[i + 1].offset \in Nat
        BY <1>1, <3>1
      <4> QED BY <1>1, <1>3, <3>1, <3>2, <4>1
    <3>4. ShiftAt(s, e) = Line(s, i, Moment(s, e))
      BY <1>5, <2>4 DEF ShiftAt, Line, Run
    <3> QED BY <2>2, <3>1, <3>3, <3>4
  <2> QED BY <2>3, <2>4
<1> QED BY <1>4, <1>5

\* A displacement is a fraction.
LEMMA ShiftIsFraction ==
  ASSUME NEW s, Displaces(s), NEW e \in Nat
  PROVE  IsFraction(ShiftAt(s, e)) /\ Moment(s, e) \in Nat
BY ShiftIs, MomentIs DEF IsFraction, Displaces

\* Offsets rise along the steps.
LEMMA OffsetsRise ==
  ASSUME NEW s, Displaces(s), NEW b, IsSteepest(s, b),
         NEW j \in 1..Len(s.steps), NEW k \in j..Len(s.steps)
  PROVE  s.steps[j].offset <= s.steps[k].offset
<1>1. Len(s.steps) \in Nat /\ k \in 1..Len(s.steps)
  BY LinesAre
<1>2. s.steps[j].offset \in Nat /\ s.steps[k].offset \in Nat
  BY <1>1, LinesAre
<1>3. s.steps[k].offset - s.steps[j].offset \in Nat
  BY KnotsNear
<1> QED BY <1>2, <1>3

\* From a moment to a step that is still to begin.
LEMMA NearStepAhead ==
  ASSUME NEW s, Displaces(s), NEW b, IsSteepest(s, b), NEW e \in Nat,
         NEW k \in 1..Len(s.steps), Moment(s, e) < s.steps[k].offset
  PROVE  Near(ShiftAt(s, e), Knot(s, k), Rise(s, b), Run(s, b), s.steps[k].offset - Moment(s, e))
<1> DEFINE n == Len(s.steps)
           M == Moment(s, e)
           F == ShiftAt(s, e)
           A == Rise(s, b)
           W == Run(s, b)
           Off(i) == s.steps[i].offset
<1>0. b \in 1..(n - 1)
  BY DEF IsSteepest
<1>1. /\ n \in Nat \ {0} /\ M \in Nat /\ IsFraction(F)
      /\ \A i \in 1..n : Off(i) \in Nat /\ IsFraction(Knot(s, i))
      /\ A \in Nat /\ W \in Nat \ {0}
  BY <1>0, LinesAre, ShiftIsFraction
<1>2. \A j \in 1..n : \A i \in j..n : Off(j) <= Off(i)
                        /\ Off(i) - Off(j) \in Nat /\ Near(Knot(s, j), Knot(s, i), A, W, Off(i) - Off(j))
  BY OffsetsRise, KnotsNear
<1>3. M < Off(k) /\ k \in 1..n
  OBVIOUS
<1>4. CASE (\A i \in 1..n : M < Off(i)) /\ F = Knot(s, 1)
  <2>1. 1 \in 1..n /\ k \in 1..n
    BY <1>1
  <2>2. Near(F, Knot(s, k), A, W, Off(k) - Off(1)) /\ Off(k) - Off(1) \in Nat
    BY <1>2, <1>4, <2>1
  <2>3. Off(1) \in Nat /\ Off(k) \in Nat /\ M < Off(1) /\ IsFraction(Knot(s, k))
    BY <1>1, <1>4, <2>1
  <2> HIDE DEF F, A, W, M, Off
  <2>4. Off(k) - M \in Nat /\ Off(k) - Off(1) <= Off(k) - M
    BY <1>1, <1>3, <2>3
  <2>5. Near(F, Knot(s, k), A, W, Off(k) - M)
    BY <1>1, <2>2, <2>3, <2>4, NearLater
  <2> QED BY <2>5 DEF F, A, W, M, Off
<1>5. CASE Off(n) <= M /\ F = Knot(s, n)
  <2>1. n \in k..n
    BY <1>1
  <2>2. Off(k) <= Off(n) /\ Off(k) \in Nat /\ Off(n) \in Nat
    BY <1>1, <1>2, <2>1
  <2> HIDE DEF F, A, W, M, Off
  <2> QED BY <1>1, <1>3, <1>5, <2>2
<1>6. ASSUME NEW i \in 1..(n - 1), Off(i) <= M, M < Off(i + 1), F = Line(s, i, M)
      PROVE  Near(F, Knot(s, k), A, W, Off(k) - M)
  <2>1. i \in 1..n /\ i + 1 \in 1..n
    BY <1>1
  <2>2. k \in (i + 1)..n
    <3> SUFFICES ASSUME k <= i PROVE FALSE
      BY <1>1, <2>1
    <3>1. i \in k..n
      BY <1>1, <2>1
    <3>2. Off(k) <= Off(i) /\ Off(k) \in Nat /\ Off(i) \in Nat
      BY <1>1, <1>2, <2>1, <3>1
    <3> HIDE DEF F, A, W, M, Off
    <3> QED BY <1>1, <1>3, <1>6, <3>2
  <2>3. /\ Off(k) - Off(i + 1) \in Nat
        /\ Near(Knot(s, i + 1), Knot(s, k), A, W, Off(k) - Off(i + 1))
    BY <1>2, <2>1, <2>2
  <2>4. /\ Off(i + 1) \in Nat /\ Off(k) \in Nat
        /\ IsFraction(Knot(s, i + 1)) /\ IsFraction(Knot(s, k))
    BY <1>1, <2>1
  <2> DEFINE E == Line(s, i, Off(i + 1))
  <2>5. IsFraction(E) /\ Distance(E, Knot(s, i + 1)) = 0
    BY <2>4, LineIs
  <2>6. Near(F, E, A, W, Off(i + 1) - M)
    <3>1. M \in Int /\ Off(i + 1) \in Int /\ M <= Off(i + 1)
      BY <1>1, <1>6, <2>4
    <3>2. Near(Line(s, i, M), E, A, W, Off(i + 1) - M)
      <4> HIDE DEF M, Off
      <4> QED BY <3>1, LineNear
    <3> QED BY <1>6, <3>2
  <2>7. Near(E, Knot(s, i + 1), A, W, 0)
    BY <1>1, <2>4, <2>5, NearAtOnce
  <2> HIDE DEF F, A, W, M, E, Off
  <2>8. Off(i + 1) - M \in Nat /\ Off(k) - M = (Off(i + 1) - M) + 0 + (Off(k) - Off(i + 1))
    BY <1>1, <1>6, <2>4
  <2>9. Near(F, Knot(s, i + 1), A, W, (Off(i + 1) - M) + 0)
    BY <1>1, <2>4, <2>5, <2>6, <2>7, <2>8, NearChain
  <2>10. (Off(i + 1) - M) + 0 \in Nat
    BY <2>8
  <2>11. Near(F, Knot(s, k), A, W, ((Off(i + 1) - M) + 0) + (Off(k) - Off(i + 1)))
    BY <1>1, <2>3, <2>4, <2>9, <2>10, NearChain
  <2> QED BY <2>8, <2>11
<1> QED BY <1>4, <1>5, <1>6, WhereItIs

\* From a step that has begun to a moment.
LEMMA NearStepBehind ==
  ASSUME NEW s, Displaces(s), NEW b, IsSteepest(s, b), NEW e \in Nat,
         NEW k \in 1..Len(s.steps), s.steps[k].offset <= Moment(s, e)
  PROVE  Near(Knot(s, k), ShiftAt(s, e), Rise(s, b), Run(s, b), Moment(s, e) - s.steps[k].offset)
<1> DEFINE n == Len(s.steps)
           M == Moment(s, e)
           F == ShiftAt(s, e)
           A == Rise(s, b)
           W == Run(s, b)
           Off(i) == s.steps[i].offset
<1>0. b \in 1..(n - 1)
  BY DEF IsSteepest
<1>1. /\ n \in Nat \ {0} /\ M \in Nat /\ IsFraction(F)
      /\ \A i \in 1..n : Off(i) \in Nat /\ IsFraction(Knot(s, i))
      /\ A \in Nat /\ W \in Nat \ {0}
  BY <1>0, LinesAre, ShiftIsFraction
<1>2. \A j \in 1..n : \A i \in j..n : Off(j) <= Off(i)
                        /\ Off(i) - Off(j) \in Nat /\ Near(Knot(s, j), Knot(s, i), A, W, Off(i) - Off(j))
  BY OffsetsRise, KnotsNear
<1>3. Off(k) <= M /\ k \in 1..n /\ IsFraction(Knot(s, k)) /\ Off(k) \in Nat
  BY <1>1
<1>4. CASE \A i \in 1..n : M < Off(i)
  <2> HIDE DEF F, A, W, M, Off
  <2> QED BY <1>1, <1>3, <1>4
<1>5. CASE Off(n) <= M /\ F = Knot(s, n)
  <2>1. n \in k..n /\ n \in 1..n
    BY <1>1
  <2>2. Near(Knot(s, k), F, A, W, Off(n) - Off(k)) /\ Off(n) - Off(k) \in Nat
    BY <1>2, <1>5, <2>1
  <2>3. Off(n) \in Nat
    BY <1>1, <2>1
  <2> HIDE DEF F, A, W, M, Off
  <2>4. M - Off(k) \in Nat /\ Off(n) - Off(k) <= M - Off(k)
    BY <1>1, <1>3, <1>5, <2>3
  <2>5. Near(Knot(s, k), F, A, W, M - Off(k))
    BY <1>1, <1>3, <2>2, <2>4, NearLater
  <2> QED BY <2>5 DEF F, A, W, M, Off
<1>6. ASSUME NEW i \in 1..(n - 1), Off(i) <= M, M < Off(i + 1), F = Line(s, i, M)
      PROVE  Near(Knot(s, k), F, A, W, M - Off(k))
  <2>1. i \in 1..n /\ i + 1 \in 1..n
    BY <1>1
  <2>2. i \in k..n
    <3> SUFFICES ASSUME ~(k <= i) PROVE FALSE
      BY <1>1, <2>1
    <3>1. k \in (i + 1)..n
      BY <1>1, <2>1
    <3>2. Off(i + 1) <= Off(k) /\ Off(i + 1) \in Nat
      BY <1>1, <1>2, <2>1, <3>1
    <3> HIDE DEF F, A, W, M, Off
    <3> QED BY <1>1, <1>3, <1>6, <3>2
  <2>3. Off(i) - Off(k) \in Nat /\ Near(Knot(s, k), Knot(s, i), A, W, Off(i) - Off(k))
    BY <1>2, <1>3, <2>2
  <2>4. Off(i) \in Nat /\ IsFraction(Knot(s, i))
    BY <1>1, <2>1
  <2> DEFINE E == Line(s, i, Off(i))
  <2>5. IsFraction(E) /\ Distance(Knot(s, i), E) = 0
    BY <2>4, LineIs
  <2>6. Near(E, F, A, W, M - Off(i))
    <3>1. M \in Int /\ Off(i) \in Int /\ Off(i) <= M
      BY <1>1, <1>6, <2>4
    <3>2. Near(E, Line(s, i, M), A, W, M - Off(i))
      <4> HIDE DEF M, Off
      <4> QED BY <3>1, LineNear
    <3> QED BY <1>6, <3>2
  <2>7. Near(Knot(s, i), E, A, W, 0)
    BY <1>1, <2>4, <2>5, NearAtOnce
  <2> HIDE DEF F, A, W, M, E, Off
  <2>8. M - Off(i) \in Nat /\ M - Off(k) = (Off(i) - Off(k)) + (0 + (M - Off(i)))
    BY <1>1, <1>3, <1>6, <2>4
  <2>9. Near(Knot(s, i), F, A, W, 0 + (M - Off(i)))
    BY <1>1, <2>4, <2>5, <2>6, <2>7, <2>8, NearChain
  <2>10. 0 + (M - Off(i)) \in Nat
    BY <2>8
  <2>11. Near(Knot(s, k), F, A, W, (Off(i) - Off(k)) + (0 + (M - Off(i))))
    BY <1>1, <1>3, <2>3, <2>4, <2>9, <2>10, NearChain
  <2> QED BY <2>8, <2>11
<1> QED BY <1>4, <1>5, <1>6, WhereItIs

\* From a moment to a later one.
LEMMA NearLaterMoment ==
  ASSUME NEW s, Displaces(s), NEW b, IsSteepest(s, b), NEW e \in Nat, NEW f \in Nat,
         Moment(s, e) <= Moment(s, f)
  PROVE  Near(ShiftAt(s, e), ShiftAt(s, f), Rise(s, b), Run(s, b), Moment(s, f) - Moment(s, e))
<1> DEFINE n == Len(s.steps)
           M == Moment(s, e)
           L == Moment(s, f)
           F == ShiftAt(s, e)
           G == ShiftAt(s, f)
           A == Rise(s, b)
           W == Run(s, b)
           Off(i) == s.steps[i].offset
<1>0. b \in 1..(n - 1)
  BY DEF IsSteepest
<1>1. /\ n \in Nat \ {0} /\ M \in Nat /\ L \in Nat /\ IsFraction(F) /\ IsFraction(G)
      /\ \A i \in 1..n : Off(i) \in Nat /\ IsFraction(Knot(s, i))
      /\ A \in Nat /\ W \in Nat \ {0}
  BY <1>0, LinesAre, ShiftIsFraction
<1>2. \A j \in 1..n : \A i \in j..n : Off(j) <= Off(i)
  BY OffsetsRise
<1>3. M <= L
  OBVIOUS
<1>4. CASE \E k \in 1..n : M < Off(k) /\ Off(k) <= L
  <2>1. PICK k \in 1..n : M < Off(k) /\ Off(k) <= L
    BY <1>4
  <2>2. Near(F, Knot(s, k), A, W, Off(k) - M)
    BY <2>1, NearStepAhead
  <2>3. Near(Knot(s, k), G, A, W, L - Off(k))
    BY <2>1, NearStepBehind
  <2>4. Off(k) \in Nat /\ IsFraction(Knot(s, k))
    BY <1>1, <2>1
  <2> HIDE DEF F, G, A, W, M, L, Off
  <2>5. /\ Off(k) - M \in Nat /\ L - Off(k) \in Nat
        /\ L - M = (Off(k) - M) + (L - Off(k))
    BY <1>1, <2>1, <2>4
  <2>6. Near(F, G, A, W, (Off(k) - M) + (L - Off(k)))
    BY <1>1, <2>2, <2>3, <2>4, <2>5, NearChain
  <2>7. Near(F, G, A, W, L - M)
    BY <2>5, <2>6
  <2> QED BY <2>7 DEF F, G, A, W, M, L
<1>5. CASE \A k \in 1..n : ~(M < Off(k) /\ Off(k) <= L)
  <2> DEFINE Early(x, D) == (\A k \in 1..n : x < Off(k)) /\ D = Knot(s, 1)
             Late(x, D)  == Off(n) <= x /\ D = Knot(s, n)
             On(x, D, i) == Off(i) <= x /\ x < Off(i + 1) /\ D = Line(s, i, x)
  <2>1. Early(M, F) \/ Late(M, F) \/ \E i \in 1..(n - 1) : On(M, F, i)
    BY WhereItIs
  <2>2. Early(L, G) \/ Late(L, G) \/ \E i \in 1..(n - 1) : On(L, G, i)
    BY WhereItIs
  <2>3. \A i \in 1..(n - 1) : /\ i \in 1..n /\ i + 1 \in 1..n /\ n \in (i + 1)..n /\ n \in 1..n
                              /\ Off(i) \in Nat /\ Off(i + 1) \in Nat
                              /\ Off(i + 1) <= Off(n)
    <3> TAKE i \in 1..(n - 1)
    <3>1. i \in 1..n /\ i + 1 \in 1..n /\ n \in (i + 1)..n /\ n \in 1..n
      BY <1>1
    <3> QED BY <1>1, <1>2, <3>1
  <2>4. 1 \in 1..n /\ n \in 1..n /\ Off(1) \in Nat /\ Off(n) \in Nat
    <3>1. 1 \in 1..n /\ n \in 1..n
      BY <1>1
    <3> QED BY <1>1, <3>1
  <2>5. L - M \in Nat
    BY <1>1, <1>3
  <2>6. ASSUME F = G PROVE Near(F, G, A, W, L - M)
    <3> HIDE DEF F, G, A, W, M, L
    <3>1. Near(F, F, A, W, 0)
      BY <1>1, NearItself
    <3>2. 0 <= L - M
      BY <2>5
    <3>3. Near(F, F, A, W, L - M)
      BY <1>1, <2>5, <3>1, <3>2, NearLater
    <3> QED BY <2>6, <3>3
  <2> HIDE DEF F, G, A, W, M, L
  <2>7. ASSUME Early(M, F) PROVE Near(F, G, A, W, L - M)
    <3>1. \A k \in 1..n : L < Off(k)
      <4> TAKE k \in 1..n
      <4>1. M < Off(k) /\ Off(k) \in Nat
        BY <1>1, <2>7
      <4> HIDE DEF Off
      <4> QED BY <1>1, <1>5, <4>1
    <3>2. ~Late(L, G)
      <4>1. L < Off(n)
        BY <2>4, <3>1
      <4> HIDE DEF Off
      <4> QED BY <1>1, <2>4, <4>1
    <3>3. \A i \in 1..(n - 1) : ~On(L, G, i)
      <4> TAKE i \in 1..(n - 1)
      <4>1. L < Off(i) /\ Off(i) \in Nat
        BY <2>3, <3>1
      <4> HIDE DEF Off
      <4> QED BY <1>1, <4>1
    <3>4. F = G
      BY <2>2, <2>7, <3>2, <3>3
    <3> QED BY <2>6, <3>4
  <2>8. ASSUME Late(M, F) PROVE Near(F, G, A, W, L - M)
    <3>1. ~Early(L, G)
      <4>1. Off(n) <= L
        <5> HIDE DEF Off
        <5> QED BY <1>1, <1>3, <2>4, <2>8
      <4>2. ~(L < Off(n))
        <5> HIDE DEF Off
        <5> QED BY <1>1, <2>4, <4>1
      <4> QED BY <2>4, <4>2
    <3>2. \A i \in 1..(n - 1) : ~On(L, G, i)
      <4> TAKE i \in 1..(n - 1)
      <4>1. Off(i + 1) <= Off(n) /\ Off(i + 1) \in Nat
        BY <2>3
      <4> HIDE DEF Off
      <4> QED BY <1>1, <1>3, <2>4, <2>8, <4>1
    <3>3. F = G
      BY <2>2, <2>8, <3>1, <3>2
    <3> QED BY <2>6, <3>3
  <2>9. ASSUME NEW i \in 1..(n - 1), On(M, F, i)
        PROVE  Near(F, G, A, W, L - M)
    <3>1. /\ i \in 1..n /\ i + 1 \in 1..n /\ Off(i) \in Nat /\ Off(i + 1) \in Nat
          /\ Off(i + 1) <= Off(n) /\ Off(n) \in Nat
      BY <2>3, <2>4
    <3>2. Off(i) <= L /\ L < Off(i + 1)
      <4> HIDE DEF Off
      <4> QED BY <1>1, <1>3, <1>5, <2>9, <3>1
    <3>3. ~Early(L, G)
      <4>1. ~(L < Off(i))
        <5> HIDE DEF Off
        <5> QED BY <1>1, <3>1, <3>2
      <4> QED BY <3>1, <4>1
    <3>4. ~Late(L, G)
      <4> HIDE DEF Off
      <4> QED BY <1>1, <3>1, <3>2
    <3>5. PICK j \in 1..(n - 1) : On(L, G, j)
      BY <2>2, <3>3, <3>4
    <3>6. j \in 1..n /\ j + 1 \in 1..n /\ Off(j) \in Nat /\ Off(j + 1) \in Nat
      BY <2>3
    <3>7. ~(i < j)
      <4> SUFFICES ASSUME i < j PROVE FALSE
        OBVIOUS
      <4>1. j \in (i + 1)..n
        BY <1>1, <3>1, <3>6
      <4>2. Off(i + 1) <= Off(j)
        BY <1>2, <3>1, <4>1
      <4> HIDE DEF Off
      <4> QED BY <1>1, <3>1, <3>2, <3>5, <3>6, <4>2
    <3>8. ~(j < i)
      <4> SUFFICES ASSUME j < i PROVE FALSE
        OBVIOUS
      <4>1. i \in (j + 1)..n
        BY <1>1, <3>1, <3>6
      <4>2. Off(j + 1) <= Off(i)
        BY <1>2, <3>6, <4>1
      <4> HIDE DEF Off
      <4> QED BY <1>1, <3>1, <3>2, <3>5, <3>6, <4>2
    <3>9. j = i
      BY <1>1, <3>7, <3>8
    <3>10. F = Line(s, i, M) /\ G = Line(s, i, L)
      BY <2>9, <3>5, <3>9
    <3>11. M \in Int /\ L \in Int /\ M <= L
      BY <1>1, <1>3
    <3>12. Near(Line(s, i, M), Line(s, i, L), Rise(s, b), Run(s, b), L - M)
      BY <3>11, LineNear
    <3> QED BY <3>10, <3>12 DEF A, W
  <2>10. Near(F, G, A, W, L - M)
    <3> HIDE DEF Early, Late, On
    <3> QED BY <2>1, <2>7, <2>8, <2>9
  <2> QED BY <2>10 DEF F, G, A, W, M, L
<1> QED BY <1>4, <1>5

\* With no line to follow, it stands still.
LEMMA OneStepStandsStill ==
  ASSUME NEW s, Displaces(s), ~(Len(s.steps) > 1), NEW e \in Nat
  PROVE  ShiftAt(s, e) = Knot(s, 1)
<1>1. Len(s.steps) = 1
  <2>1. Len(s.steps) \in Nat \ {0}
    BY LinesAre
  <2>2. \A n \in Nat \ {0} : n > 1 \/ n = 1
    OBVIOUS
  <2> QED BY <2>1, <2>2
<1>2. \A i \in 1..(Len(s.steps) - 1) : FALSE
  BY <1>1
<1>3. \/ ShiftAt(s, e) = Knot(s, 1)
      \/ ShiftAt(s, e) = Knot(s, Len(s.steps))
  BY <1>2, WhereItIs
<1> QED BY <1>1, <1>3

\* overlay.go, shiftAt: "a staircase teleports the price".  Whatever the steps, the speed
\* and the moment, the displacement moves in a moment of the run no further than the
\* steepest line between two steps goes in that time.
THEOREM DisplacementIsSteady == Spec => NoTeleport
<1> DEFINE now   == ShiftAt(scenario, elapsed)
           then  == ShiftAt(scenario, elapsed')
           steps == scenario.steps
           Steady ==
             \/ Distance(now, then) = 0
             \/ \E i \in 1..(Len(steps) - 1) :
                  Distance(now, then) * (steps[i + 1].offset - steps[i].offset)
                    <= Speed(scenario) * Abs(steps[i + 1].delta - steps[i].delta)
                         * now.den * then.den
           Moved == scenario # Nothing /\ Overlay(scenario) => Steady
<1>1. StagingIsReadable /\ [Next]_vars => Moved
  <2> SUFFICES ASSUME StagingIsReadable, [Next]_vars, scenario # Nothing, Overlay(scenario)
               PROVE  Steady
    OBVIOUS
  <2>1. Displaces(scenario) /\ elapsed \in Nat
    BY DEF StagingIsReadable, Displaces
  <2>2. elapsed' = elapsed \/ elapsed' = elapsed + 1
    BY DEF Next, FillsPart, TimePasses, Pass, Trade, Settles, Remembers, vars
  <2>3. elapsed' \in Nat
    BY <2>1, <2>2
  <2>4. IsFraction(now) /\ IsFraction(then)
    BY <2>1, <2>3, ShiftIsFraction
  <2>5. CASE elapsed' = elapsed
    <3>1. now = then
      BY <2>5
    <3> HIDE DEF now, then
    <3>2. Distance(now, then) = 0
      <4>1. 1 \in Nat /\ 1 \in Nat \ {0}
        OBVIOUS
      <4> QED BY <2>4, <3>1, <4>1, NearItself
    <3> QED BY <3>2
  <2>6. CASE elapsed' = elapsed + 1 /\ ~(Len(steps) > 1)
    <3>1. now = Knot(scenario, 1) /\ then = Knot(scenario, 1)
      BY <2>1, <2>3, <2>6, OneStepStandsStill
    <3> HIDE DEF now, then
    <3>2. Distance(now, then) = 0
      <4>1. 1 \in Nat /\ 1 \in Nat \ {0}
        OBVIOUS
      <4> QED BY <2>4, <3>1, <4>1, NearItself
    <3> QED BY <3>2
  <2>7. CASE elapsed' = elapsed + 1 /\ Len(steps) > 1
    <3>1. PICK b : IsSteepest(scenario, b)
      BY <2>1, <2>7, HasSteepest
    <3>2. /\ Moment(scenario, elapsed') = Moment(scenario, elapsed) + Speed(scenario)
          /\ Speed(scenario) \in Nat /\ Moment(scenario, elapsed) \in Nat
      <4>1. Speed(scenario) \in Nat /\ Moment(scenario, elapsed) \in Nat
        BY <2>1, MomentIs DEF Displaces
      <4>2. (elapsed + 1) * Speed(scenario) = elapsed * Speed(scenario) + Speed(scenario)
        BY <2>1, <4>1
      <4> QED BY <2>7, <4>1, <4>2 DEF Moment
    <3>3. /\ Moment(scenario, elapsed) <= Moment(scenario, elapsed')
          /\ Moment(scenario, elapsed') - Moment(scenario, elapsed) = Speed(scenario)
      BY <3>2
    <3>4. Near(now, then, Rise(scenario, b), Run(scenario, b), Speed(scenario))
      BY <2>1, <2>3, <3>1, <3>3, NearLaterMoment
    <3>5. b \in 1..(Len(steps) - 1)
      BY <3>1 DEF IsSteepest
    <3> HIDE DEF now, then
    <3>6. Distance(now, then) * (steps[b + 1].offset - steps[b].offset)
            <= Speed(scenario) * Abs(steps[b + 1].delta - steps[b].delta) * now.den * then.den
      BY <3>4 DEF Near, Rise, Run
    <3> QED BY <3>5, <3>6
  <2> QED BY <2>2, <2>5, <2>6, <2>7
<1> QED BY <1>1, StagingReadable, PTL DEF Spec, NoTeleport

-----------------------------------------------------------------------------
(* The name of an order.                                                   *)

\* The length of parts that are joined, and of one more joined to them.
LEMMA JoinedIs ==
  ASSUME NEW f \in Seq(Nat)
  PROVE  Joined(f) \in Nat
<1>1. DOMAIN f = 1..Len(f) /\ Len(f) \in Nat /\ \A i \in 1..Len(f) : f[i] \in Nat
  OBVIOUS
<1>2. IsFiniteSet(1..Len(f))
  BY <1>1, FS_Interval
<1> DEFINE none == [i \in 1..Len(f) |-> 0]
<1>3. SumFunction(f) \in Int
  BY <1>1, <1>2, SumIsInt DEF SumFunction
<1>4. SumFunctionOnSet(f, {}) <= SumFunctionOnSet(f, 1..Len(f))
  BY <1>1, <1>2, SumOfPart
<1>5. SumFunction(f) \in Nat
  BY <1>1, <1>3, <1>4, SumOfNone DEF SumFunction
<1>6. Max({0, Len(f) - 1}) \in Nat
  BY <1>1, MaxOfTwo
<1> QED BY <1>5, <1>6 DEF Joined

\* With one part more it is longer by that part, and by a separator but for the first.
LEMMA JoinedToOne ==
  ASSUME NEW f \in Seq(Nat), NEW g \in Seq(Nat), Len(g) = Len(f) + 1,
         \A i \in 1..Len(f) : g[i] = f[i]
  PROVE  Joined(g) = Joined(f) + g[Len(g)] + (IF Len(f) = 0 THEN 0 ELSE 1)
<1> DEFINE n == Len(f)
<1>1. /\ n \in Nat /\ DOMAIN f = 1..n /\ DOMAIN g = 1..(n + 1) /\ Len(g) = n + 1
      /\ \A i \in 1..n : f[i] \in Nat
      /\ \A i \in 1..(n + 1) : g[i] \in Nat
  <2>1. n \in Nat /\ DOMAIN f = 1..n /\ \A i \in 1..n : f[i] \in Nat
    OBVIOUS
  <2>2. DOMAIN g = 1..Len(g) /\ \A i \in 1..Len(g) : g[i] \in Nat
    OBVIOUS
  <2>3. Len(g) = n + 1
    OBVIOUS
  <2>4. DOMAIN g = 1..(n + 1) /\ \A i \in 1..(n + 1) : g[i] \in Nat
    BY <2>2, <2>3
  <2> QED BY <2>1, <2>3, <2>4
<1> HIDE DEF n
<1>2. IsFiniteSet(1..n) /\ 1..(n + 1) = 1..n \cup {n + 1} /\ n + 1 \notin 1..n
  <2>1. IsFiniteSet(1..n)
    BY <1>1, FS_Interval
  <2>2. 1..(n + 1) = 1..n \cup {n + 1} /\ n + 1 \notin 1..n
    BY <1>1
  <2> QED BY <2>1, <2>2
<1>3. SumFunctionOnSet(g, 1..(n + 1)) = g[n + 1] + SumFunctionOnSet(g, 1..n)
  <2>1. \A i \in 1..n \cup {n + 1} : g[i] \in Int
    BY <1>1, <1>2
  <2> QED BY <1>2, <2>1, SumWith
<1>4. SumFunctionOnSet(g, 1..n) = SumFunctionOnSet(f, 1..n)
  BY <1>2, SumOfSame DEF n
<1>5. SumFunctionOnSet(f, 1..n) \in Int
  BY <1>1, <1>2, SumIsInt
<1>6. Max({0, (n + 1) - 1}) = n
  BY <1>1, MaxOfTwo
<1>7. Max({0, n - 1}) = IF n = 0 THEN 0 ELSE n - 1
  BY <1>1, MaxOfTwo
<1>8. Joined(g) = SumFunctionOnSet(g, 1..(n + 1)) + Max({0, (n + 1) - 1})
  BY <1>1 DEF Joined, SumFunction
<1>9. Joined(f) = SumFunctionOnSet(f, 1..n) + Max({0, n - 1})
  BY <1>1 DEF Joined, SumFunction, n
<1>10. g[n + 1] \in Nat
  BY <1>1
<1>11. Joined(g) = Joined(f) + g[n + 1] + (IF n = 0 THEN 0 ELSE 1)
  BY <1>1, <1>3, <1>4, <1>5, <1>6, <1>7, <1>8, <1>9, <1>10
<1> QED BY <1>1, <1>11 DEF n

\* The lengths of the fields of a name.
SizeOfField(field) == Joined([j \in DOMAIN field |-> field[j].size])
SizesOf(name)      == [i \in DOMAIN name |-> SizeOfField(name[i])]

\* How long joined fields are.
LEMMA SizesAre ==
  ASSUME NEW name, IsName(name)
  PROVE  /\ name \in Seq(Range(name)) /\ Len(name) \in Nat /\ DOMAIN name = 1..Len(name)
         /\ SizesOf(name) \in Seq(Nat) /\ Len(SizesOf(name)) = Len(name)
         /\ \A i \in 1..Len(name) : SizesOf(name)[i] = SizeOfField(name[i])
         /\ Size(name) = Joined(SizesOf(name)) /\ Size(name) \in Nat
<1>1. name \in Seq(Range(name)) /\ \A i \in DOMAIN name : IsField(name[i])
  BY DEF IsName
<1>2. Len(name) \in Nat /\ DOMAIN name = 1..Len(name)
  BY <1>1
<1>3. ASSUME NEW i \in 1..Len(name) PROVE SizeOfField(name[i]) \in Nat
  <2> DEFINE field == name[i]
             sizes == [j \in DOMAIN field |-> field[j].size]
  <2>1. field \in Seq(Range(field)) /\ \A j \in DOMAIN field : IsWord(field[j])
    BY <1>1, <1>2 DEF IsField
  <2> HIDE DEF field
  <2>2. DOMAIN field = 1..Len(field) /\ Len(field) \in Nat
    BY <2>1
  <2>3. \A j \in DOMAIN field : field[j].size \in Nat
    BY <2>1 DEF IsWord
  <2>4. sizes \in Seq(Nat)
    BY <2>2, <2>3
  <2> QED BY <2>4, JoinedIs DEF SizeOfField, field
<1>4. SizesOf(name) \in Seq(Nat) /\ Len(SizesOf(name)) = Len(name)
  BY <1>2, <1>3 DEF SizesOf
<1>5. Size(name) = Joined(SizesOf(name))
  BY DEF Size, SizesOf, SizeOfField
<1> QED BY <1>1, <1>2, <1>4, <1>5, JoinedIs DEF SizesOf

\* A name with one more field.
LEMMA OneMoreField ==
  ASSUME NEW name, IsName(name), NEW field, IsField(field)
  PROVE  /\ IsName(Append(name, field))
         /\ Len(Append(name, field)) = Len(name) + 1
         /\ DOMAIN Append(name, field) = 1..(Len(name) + 1)
         /\ Append(name, field)[Len(name) + 1] = field
         /\ \A i \in 1..Len(name) : Append(name, field)[i] = name[i]
         /\ Size(Append(name, field)) =
              Size(name) + SizeOfField(field) + (IF name = <<>> THEN 0 ELSE 1)
<1> DEFINE more == Append(name, field)
           n == Len(name)
<1>1. name \in Seq(Range(name)) /\ n \in Nat /\ DOMAIN name = 1..n
  BY SizesAre
<1>2. name \in Seq(Range(name) \cup {field})
  BY <1>1
<1>3. /\ more \in Seq(Range(name) \cup {field}) /\ Len(more) = n + 1
      /\ DOMAIN more = 1..(n + 1) /\ more[n + 1] = field
      /\ \A i \in 1..n : more[i] = name[i]
  BY <1>2
<1> HIDE DEF more
<1>4. \A i \in 1..(n + 1) : i \in 1..n \/ i = n + 1
  BY <1>1
<1>5. \A i \in DOMAIN more : IsField(more[i])
  BY <1>1, <1>3, <1>4 DEF IsName
<1>6. more \in Seq(Range(more))
  <2>1. \A i \in 1..(n + 1) : more[i] \in Range(more)
    BY <1>3 DEF Range
  <2> QED BY <1>1, <1>3, <2>1
<1>7. IsName(more)
  BY <1>5, <1>6 DEF IsName
<1>8. Size(more) = Size(name) + SizeOfField(field) + (IF n = 0 THEN 0 ELSE 1)
  <2>1. /\ SizesOf(name) \in Seq(Nat) /\ Len(SizesOf(name)) = n
        /\ \A i \in 1..n : SizesOf(name)[i] = SizeOfField(name[i])
        /\ Size(name) = Joined(SizesOf(name))
    BY SizesAre
  <2>2. /\ SizesOf(more) \in Seq(Nat) /\ Len(SizesOf(more)) = n + 1
        /\ \A i \in 1..(n + 1) : SizesOf(more)[i] = SizeOfField(more[i])
        /\ Size(more) = Joined(SizesOf(more))
    BY <1>3, <1>7, SizesAre
  <2>3. \A i \in 1..n : SizesOf(more)[i] = SizesOf(name)[i]
    BY <1>1, <1>3, <2>1, <2>2
  <2>4. SizesOf(more)[n + 1] = SizeOfField(field)
    BY <1>1, <1>3, <2>2
  <2> HIDE DEF n
  <2>5. Joined(SizesOf(more)) = Joined(SizesOf(name)) + SizesOf(more)[n + 1] + (IF n = 0 THEN 0 ELSE 1)
    BY <2>1, <2>2, <2>3, JoinedToOne
  <2> QED BY <2>1, <2>2, <2>4, <2>5
<1>9. n = 0 <=> name = <<>>
  BY <1>1
<1> QED BY <1>3, <1>7, <1>8, <1>9 DEF more

\* The first field that says a worst price, and its first word that does.
LEMMA StatesIt ==
  ASSUME NEW name, IsName(name)
  PROVE  LET stating == {i \in DOMAIN name : Says(name[i]) # {}}
         IN /\ stating # {} =>
                 /\ Min(stating) \in stating
                 /\ Min(Says(name[Min(stating)])) \in Says(name[Min(stating)])
            /\ Reservation(name) \in Int \cup {NoPrice}
<1> DEFINE stating == {i \in DOMAIN name : Says(name[i]) # {}}
           field == name[Min(stating)]
<1>1. Len(name) \in Nat /\ DOMAIN name = 1..Len(name) /\ \A i \in DOMAIN name : IsField(name[i])
  BY SizesAre DEF IsName
<1>2. IsFiniteSet(stating) /\ stating \subseteq Int
  <2>1. IsFiniteSet(1..Len(name)) /\ stating \subseteq 1..Len(name)
    BY <1>1, FS_Interval
  <2>2. stating \subseteq Int
    BY <1>1
  <2> QED BY <2>1, <2>2, FS_Subset
<1>3. ASSUME stating # {} PROVE Min(stating) \in stating
  BY <1>2, <1>3, MinIs
<1>4. ASSUME stating # {}
      PROVE  /\ Min(Says(field)) \in Says(field)
             /\ field[Min(Says(field))].value \in Int \cup {NoPrice}
  <2>1. IsField(field) /\ Says(field) # {}
    BY <1>1, <1>3, <1>4
  <2> HIDE DEF field, stating
  <2>2. field \in Seq(Range(field)) /\ \A j \in DOMAIN field : IsWord(field[j])
    BY <2>1 DEF IsField
  <2>3. Len(field) \in Nat /\ DOMAIN field = 1..Len(field)
    BY <2>2
  <2>4. IsFiniteSet(1..Len(field)) /\ Says(field) \subseteq 1..Len(field)
    BY <2>3, FS_Interval DEF Says
  <2>5. IsFiniteSet(Says(field)) /\ Says(field) \subseteq Int
    BY <2>3, <2>4, FS_Subset
  <2>6. Min(Says(field)) \in Says(field)
    BY <2>1, <2>5, MinIs
  <2>7. /\ Min(Says(field)) \in DOMAIN field
        /\ field[Min(Says(field))].says = "worst"
    BY <2>6 DEF Says
  <2>8. IsWord(field[Min(Says(field))])
    BY <2>2, <2>7
  <2>9. field[Min(Says(field))].value \in Int \cup {NoPrice}
    BY <2>7, <2>8 DEF IsWord
  <2> QED BY <2>6, <2>9 DEF field
<1>5. Reservation(name) = IF stating = {} THEN NoPrice ELSE field[Min(Says(field))].value
  BY DEF Reservation
<1> QED BY <1>3, <1>4, <1>5

\* A field that says none leaves what the name says.
LEMMA SaysNoMore ==
  ASSUME NEW name, IsName(name), NEW field, IsField(field), Says(field) = {}
  PROVE  Reservation(Append(name, field)) = Reservation(name)
<1> DEFINE more == Append(name, field)
           old == {i \in DOMAIN name : Says(name[i]) # {}}
           new == {i \in DOMAIN more : Says(more[i]) # {}}
<1>1. /\ Len(name) \in Nat /\ DOMAIN name = 1..Len(name) /\ DOMAIN more = 1..(Len(name) + 1)
      /\ more[Len(name) + 1] = field /\ \A i \in 1..Len(name) : more[i] = name[i]
  BY SizesAre, OneMoreField
<1> HIDE DEF more
<1>2. \A i \in 1..(Len(name) + 1) : i \in 1..Len(name) \/ i = Len(name) + 1
  BY <1>1
<1>3. \A i \in 1..Len(name) : i \in 1..(Len(name) + 1)
  BY <1>1
<1>4. new = old
  BY <1>1, <1>2, <1>3
<1>5. old # {} => more[Min(old)] = name[Min(old)]
  BY <1>1, StatesIt
<1>6. Reservation(more) = IF new = {} THEN NoPrice
        ELSE more[Min(new)][Min(Says(more[Min(new)]))].value
  BY DEF Reservation
<1>7. Reservation(name) = IF old = {} THEN NoPrice
        ELSE name[Min(old)][Min(Says(name[Min(old)]))].value
  BY DEF Reservation
<1> HIDE DEF new, old
<1>8. CASE old = {}
  <2>1. Reservation(more) = Reservation(name)
    BY <1>4, <1>6, <1>7, <1>8
  <2> QED BY <2>1 DEF more
<1>9. CASE old # {}
  <2>1. more[Min(new)] = name[Min(old)]
    BY <1>4, <1>5, <1>9
  <2>2. Reservation(more) = Reservation(name)
    BY <1>4, <1>6, <1>7, <1>9, <2>1
  <2> QED BY <2>2 DEF more
<1> QED BY <1>8, <1>9

\* A field that is a number, or a worst price.
LEMMA FieldsAre ==
  /\ \A n \in Nat : /\ IsField(<<NumberWord(n)>>) /\ Says(<<NumberWord(n)>>) = {}
                    /\ SizeOfField(<<NumberWord(n)>>) = StampSize
  /\ \A p \in Int : /\ IsField(<<WorstWord(p)>>) /\ Says(<<WorstWord(p)>>) = {1}
                    /\ SizeOfField(<<WorstWord(p)>>) = FloorSize
<1>1. StampSize \in Nat /\ FloorSize \in Nat
  BY ConcessionAssumption
<1>2. ASSUME NEW size \in Nat PROVE Joined(<<size>>) = size
  <2>1. <<>> \in Seq(Nat) /\ <<size>> \in Seq(Nat) /\ Len(<<size>>) = Len(<<>>) + 1
        /\ <<size>>[Len(<<size>>)] = size /\ Len(<<>>) = 0
    OBVIOUS
  <2>2. Joined(<<size>>) = Joined(<<>>) + size + 0
    <3>1. \A i \in 1..Len(<<>>) : <<size>>[i] = <<>>[i]
      BY <2>1
    <3> QED BY <2>1, <3>1, JoinedToOne
  <2>3. Joined(<<>>) = 0
    <3>1. DOMAIN <<>> = {}
      OBVIOUS
    <3>2. SumFunction(<<>>) = 0
      BY <3>1, SumOfNone DEF SumFunction
    <3>3. Max({0, Len(<<>>) - 1}) = 0
      BY <2>1, MaxOfTwo
    <3> QED BY <3>2, <3>3 DEF Joined
  <2> QED BY <2>2, <2>3
<1>3. ASSUME NEW w, IsWord(w)
      PROVE  /\ IsField(<<w>>)
             /\ SizeOfField(<<w>>) = w.size
  <2>1. DOMAIN <<w>> = {1} /\ <<w>>[1] = w /\ w \in Range(<<w>>)
    BY DEF Range
  <2>2. <<w>> \in Seq(Range(<<w>>))
    BY <2>1
  <2>3. IsField(<<w>>)
    <3>1. \A j \in DOMAIN <<w>> : <<w>>[j] = w
      BY <2>1
    <3>2. \A j \in DOMAIN <<w>> : IsWord(<<w>>[j])
      BY <1>3, <3>1
    <3> QED BY <2>2, <3>2 DEF IsField
  <2>4. [j \in DOMAIN <<w>> |-> <<w>>[j].size] = <<w.size>>
    BY <2>1
  <2>5. w.size \in Nat
    BY <1>3 DEF IsWord
  <2> QED BY <1>2, <2>3, <2>4, <2>5 DEF SizeOfField
<1>4. ASSUME NEW n \in Nat
      PROVE  /\ IsField(<<NumberWord(n)>>) /\ Says(<<NumberWord(n)>>) = {}
             /\ SizeOfField(<<NumberWord(n)>>) = StampSize
  <2>1. IsWord(NumberWord(n)) /\ NumberWord(n).size = StampSize
    BY <1>1 DEF IsWord, NumberWord
  <2>2. Says(<<NumberWord(n)>>) = {}
    BY DEF Says, NumberWord
  <2> QED BY <1>3, <2>1, <2>2
<1>5. ASSUME NEW p \in Int
      PROVE  /\ IsField(<<WorstWord(p)>>) /\ Says(<<WorstWord(p)>>) = {1}
             /\ SizeOfField(<<WorstWord(p)>>) = FloorSize
  <2>1. IsWord(WorstWord(p)) /\ WorstWord(p).size = FloorSize
    BY <1>1 DEF IsWord, WorstWord
  <2>2. Says(<<WorstWord(p)>>) = {1}
    BY DEF Says, WorstWord
  <2> QED BY <1>3, <2>1, <2>2
<1> QED BY <1>4, <1>5

\* No name states nothing, and one that is a worst price states it.
LEMMA ShortNames ==
  /\ IsName(<<>>) /\ Reservation(<<>>) = NoPrice /\ Size(<<>>) = 0 /\ ~HasRoom(<<>>)
  /\ \A p \in Int : /\ IsName(NameFor(p)) /\ Reservation(NameFor(p)) = p
                    /\ Size(NameFor(p)) = FloorSize /\ HasRoom(NameFor(p))
<1>1. IsName(<<>>)
  BY DEF IsName
<1>2. Reservation(<<>>) = NoPrice
  BY DEF Reservation
<1>3. Size(<<>>) = 0
  <2>1. SizesOf(<<>>) = <<>> /\ DOMAIN <<>> = {} /\ Len(<<>>) = 0
    BY DEF SizesOf
  <2>2. SumFunction(<<>>) = 0
    BY <2>1, SumOfNone DEF SumFunction
  <2>3. Max({0, Len(<<>>) - 1}) = 0
    BY <2>1, MaxOfTwo
  <2>4. Size(<<>>) = Joined(SizesOf(<<>>))
    BY <1>1, SizesAre
  <2>5. Joined(<<>>) = 0
    BY <2>2, <2>3 DEF Joined
  <2> QED BY <2>1, <2>4, <2>5
<1>4. ASSUME NEW p \in Int
      PROVE  /\ IsName(NameFor(p)) /\ Reservation(NameFor(p)) = p
             /\ Size(NameFor(p)) = FloorSize /\ HasRoom(NameFor(p))
  <2>1. NameFor(p) = Append(<<>>, <<WorstWord(p)>>)
    BY DEF NameFor
  <2>2. IsField(<<WorstWord(p)>>) /\ SizeOfField(<<WorstWord(p)>>) = FloorSize
        /\ Says(<<WorstWord(p)>>) = {1}
    BY FieldsAre
  <2>3. IsName(NameFor(p)) /\ Size(NameFor(p)) = 0 + FloorSize + 0
    BY <1>1, <1>3, <2>1, <2>2, OneMoreField
  <2>4. FloorSize \in Nat /\ StampSize \in Nat /\ FloorSize + 1 + StampSize <= NameLimit
    BY ConcessionAssumption
  <2>5. NameFor(p) # <<>> /\ NameFor(p)[1] = <<WorstWord(p)>> /\ DOMAIN NameFor(p) = {1}
    BY DEF NameFor
  <2>6. Reservation(NameFor(p)) = p
    <3>1. {i \in DOMAIN NameFor(p) : Says(NameFor(p)[i]) # {}} = {1}
      BY <2>2, <2>5
    <3>2. Min({1}) = 1
      <4>1. IsFiniteSet({1})
        BY FS_Singleton
      <4> QED BY <4>1, MinIs
    <3>3. <<WorstWord(p)>>[1].value = p
      BY DEF WorstWord
    <3> QED BY <2>2, <2>5, <3>1, <3>2, <3>3 DEF Reservation
  <2>7. Size(NameFor(p)) = FloorSize
    BY <2>3, <2>4
  <2>8. HasRoom(NameFor(p))
    BY <2>4, <2>5, <2>7 DEF HasRoom
  <2> QED BY <2>3, <2>6, <2>7, <2>8
<1> QED BY <1>1, <1>2, <1>3, <1>4 DEF HasRoom

\* Without the moment at its end a name is a name, and says the same.
LEMMA UnstampedIs ==
  ASSUME NEW name, IsName(name)
  PROVE  IsName(Unstamped(name)) /\ Reservation(Unstamped(name)) = Reservation(name)
<1> DEFINE stamped == name # <<>> /\ Len(Last(name)) = 1 /\ Last(name)[1].says = "number"
           front == Front(name)
           field == Last(name)
<1>1. CASE ~stamped
  BY <1>1 DEF Unstamped
<1>2. CASE stamped
  <2>1. name \in Seq(Range(name)) /\ Len(name) \in Nat /\ DOMAIN name = 1..Len(name)
        /\ \A i \in 1..Len(name) : IsField(name[i])
    BY SizesAre DEF IsName
  <2>2. Len(name) \in 1..Len(name)
    BY <1>2, <2>1
  <2>3. IsField(field) /\ Len(field) = 1 /\ field[1].says = "number"
    BY <1>2, <2>1, <2>2 DEF Last
  <2>4. Says(field) = {}
    <3>1. field \in Seq(Range(field))
      BY <2>3 DEF IsField
    <3>2. DOMAIN field = {1}
      BY <2>3, <3>1
    <3> QED BY <2>3, <3>2 DEF Says
  <2>5. /\ front \in Seq(Range(name)) /\ Len(front) = Len(name) - 1
        /\ \A i \in 1..(Len(name) - 1) : front[i] = name[i]
        /\ name = Append(front, field)
    BY <2>1, <2>2 DEF Front, Last
  <2> HIDE DEF front, field
  <2>6. DOMAIN front = 1..(Len(name) - 1)
    BY <2>5
  <2>7. \A i \in 1..(Len(name) - 1) : i \in 1..Len(name)
    BY <2>1
  <2>8. IsName(front)
    <3>1. \A i \in DOMAIN front : IsField(front[i])
      BY <2>1, <2>5, <2>6, <2>7
    <3>2. \A i \in 1..(Len(name) - 1) : front[i] \in Range(front)
      BY <2>6 DEF Range
    <3>3. front \in Seq(Range(front))
      BY <2>1, <2>2, <2>5, <2>6, <3>2
    <3> QED BY <3>1, <3>3 DEF IsName
  <2>9. Reservation(name) = Reservation(front)
    BY <2>3, <2>4, <2>5, <2>8, SaysNoMore
  <2>10. Unstamped(name) = front
    BY <1>2 DEF Unstamped, front
  <2> QED BY <2>8, <2>9, <2>10
<1> QED BY <1>1, <1>2

\* A moment taken off again.
LEMMA StampTakenOff ==
  ASSUME NEW name, IsName(name), NEW n \in Nat
  PROVE  Unstamped(Append(name, <<NumberWord(n)>>)) = name
<1> DEFINE word == <<NumberWord(n)>>
           more == Append(name, word)
<1>1. name \in Seq(Range(name)) /\ Len(name) \in Nat
  BY SizesAre
<1>2. name \in Seq(Range(name) \cup {word})
  BY <1>1
<1>3. more # <<>> /\ Last(more) = word /\ Front(more) = name
  <2>1. Len(more) = Len(name) + 1 /\ more[Len(name) + 1] = word
    BY <1>2
  <2>2. more # <<>> /\ Last(more) = word
    BY <1>1, <2>1 DEF Last
  <2>3. Front(more) = SubSeq(more, 1, Len(name))
    BY <1>1, <2>1 DEF Front
  <2>4. SubSeq(more, 1, Len(name)) = name
    BY <1>2, AppendProperties
  <2> QED BY <2>2, <2>3, <2>4
<1>4. Len(word) = 1 /\ word[1].says = "number"
  BY DEF NumberWord
<1> HIDE DEF word, more
<1>5. Unstamped(more) = name
  BY <1>3, <1>4 DEF Unstamped
<1> QED BY <1>5 DEF word, more

\* What of a name a replacement keeps.
Base(name) ==
  IF HasRoom(Unstamped(name)) THEN Unstamped(name)
  ELSE IF Reservation(name) # NoPrice THEN NameFor(Reservation(name)) ELSE <<>>

\* What a name is without its stamps.
LEMMA BaseIs ==
  ASSUME NEW name, IsName(name)
  PROVE  /\ IsName(Base(name)) /\ Reservation(Base(name)) = Reservation(name)
         /\ HasRoom(Base(name)) \/ (Base(name) = <<>> /\ Reservation(name) = NoPrice)
         /\ HasRoom(Unstamped(name)) => Base(name) = Unstamped(name)
<1>1. IsName(Unstamped(name)) /\ Reservation(Unstamped(name)) = Reservation(name)
  BY UnstampedIs
<1>2. CASE HasRoom(Unstamped(name))
  <2>1. Base(name) = Unstamped(name)
    BY <1>2 DEF Base
  <2>2. HasRoom(Base(name))
    BY <1>2, <2>1
  <2>3. IsName(Base(name)) /\ Reservation(Base(name)) = Reservation(name)
    BY <1>1, <2>1
  <2> QED BY <2>1, <2>2, <2>3
<1>3. CASE ~HasRoom(Unstamped(name)) /\ Reservation(name) # NoPrice
  <2>1. Reservation(name) \in Int
    BY <1>3, StatesIt
  <2>2. Base(name) = NameFor(Reservation(name))
    BY <1>3 DEF Base
  <2>3. /\ IsName(Base(name)) /\ Reservation(Base(name)) = Reservation(name)
        /\ HasRoom(Base(name))
    BY <2>1, <2>2, ShortNames
  <2>4. HasRoom(Unstamped(name)) => Base(name) = Unstamped(name)
    BY <1>3
  <2> QED BY <2>3, <2>4
<1>4. CASE ~HasRoom(Unstamped(name)) /\ Reservation(name) = NoPrice
  <2>1. Base(name) = <<>>
    BY <1>4 DEF Base
  <2> QED BY <1>4, <2>1, ShortNames
<1> QED BY <1>2, <1>3, <1>4

\* The name of a replacement says what the name said and fits, and taking its moment off
\* gives what was kept.
LEMMA CarriedIs ==
  ASSUME NEW name, IsName(name), NEW at \in Nat
  PROVE  /\ NameCarrying(name, at) = Append(Base(name), <<NumberWord(at)>>)
         /\ IsName(NameCarrying(name, at))
         /\ Reservation(NameCarrying(name, at)) = Reservation(name)
         /\ Size(NameCarrying(name, at)) <= NameLimit
         /\ Unstamped(NameCarrying(name, at)) = Base(name)
<1> DEFINE word == <<NumberWord(at)>>
           base == Base(name)
<1>1. NameCarrying(name, at) = Append(base, word)
  BY DEF NameCarrying, Base
<1>2. /\ IsName(base) /\ Reservation(base) = Reservation(name)
      /\ HasRoom(base) \/ base = <<>>
  BY BaseIs
<1>3. IsField(word) /\ Says(word) = {} /\ SizeOfField(word) = StampSize
  BY FieldsAre
<1>4. Unstamped(Append(base, word)) = base
  BY <1>2, StampTakenOff
<1> HIDE DEF word, base
<1>5. /\ IsName(Append(base, word))
      /\ Size(Append(base, word)) = Size(base) + SizeOfField(word) + (IF base = <<>> THEN 0 ELSE 1)
  BY <1>2, <1>3, OneMoreField
<1>6. Reservation(Append(base, word)) = Reservation(name)
  BY <1>2, <1>3, SaysNoMore
<1>7. Size(Append(base, word)) <= NameLimit
  <2>1. StampSize \in Nat /\ FloorSize \in Nat /\ FloorSize + 1 + StampSize <= NameLimit
        /\ Size(<<>>) = 0
    BY ConcessionAssumption, ShortNames
  <2>2. CASE base = <<>>
    <3>1. NameLimit \in Int
      BY ConcessionAssumption
    <3> QED BY <1>3, <1>5, <2>1, <2>2, <3>1
  <2>3. CASE base # <<>>
    <3>1. HasRoom(base) /\ Size(base) \in Nat
      BY <1>2, <2>3, SizesAre
    <3> QED BY <1>3, <1>5, <2>1, <2>3, <3>1 DEF HasRoom
  <2> QED BY <2>2, <2>3
<1> QED BY <1>1, <1>4, <1>5, <1>6, <1>7 DEF word, base

\* An order that is replaced again is as if it had been replaced once.
LEMMA CarriedTwice ==
  ASSUME NEW name, IsName(name), NEW a \in Nat, NEW b \in Nat
  PROVE  NameCarrying(NameCarrying(name, a), b) = NameCarrying(name, b)
<1> DEFINE once == NameCarrying(name, a)
<1>1. IsName(once) /\ Unstamped(once) = Base(name) /\ Reservation(once) = Reservation(name)
  BY CarriedIs
<1> HIDE DEF once
<1>2. Base(once) = Base(name)
  <2>1. CASE HasRoom(Base(name))
    BY <1>1, <2>1 DEF Base
  <2>2. CASE Base(name) = <<>> /\ Reservation(name) = NoPrice /\ ~HasRoom(Base(name))
    <3>1. Base(once) = <<>>
      BY <1>1, <2>2 DEF Base
    <3> QED BY <2>2, <3>1
  <2> QED BY <2>1, <2>2, BaseIs
<1>3. NameCarrying(once, b) = Append(Base(once), <<NumberWord(b)>>)
  BY <1>1, CarriedIs
<1>4. NameCarrying(name, b) = Append(Base(name), <<NumberWord(b)>>)
  BY CarriedIs
<1> QED BY <1>2, <1>3, <1>4 DEF once

\* Two names that keep different things are different.
LEMMA CarriedApart ==
  ASSUME NEW m, IsName(m), NEW n, IsName(n), NEW a \in Nat, NEW b \in Nat,
         Base(m) # Base(n)
  PROVE  NameCarrying(m, a) # NameCarrying(n, b)
BY CarriedIs

-----------------------------------------------------------------------------
(* The price of an order.                                                  *)

\* What the book offers for a set is a number, if it is anything.
LEMMA ShowingIsWhole ==
  ASSUME NEW o, IsWalkable(o), NEW quotes, IsBook(quotes)
  PROVE  Showing(o, quotes) \in Int \cup {NoPrice}
<1> DEFINE bad == \E leg \in o.legs : leg.contract \notin DOMAIN quotes
                    \/ quotes[leg.contract].bid <= 0 \/ quotes[leg.contract].ask <= 0
           f == [leg \in o.legs |-> RatioOf(leg) *
                  (IF leg.sell THEN -quotes[leg.contract].bid ELSE quotes[leg.contract].ask)]
<1>1. CASE bad
  BY <1>1 DEF Showing
<1>2. CASE ~bad
  <2>1. IsFiniteSet(o.legs) /\ \A leg \in o.legs : IsLeg(leg)
    BY DEF IsWalkable
  <2>2. ASSUME NEW leg \in o.legs
        PROVE  f[leg] \in Int
    <3>1. leg.contract \in DOMAIN quotes
      BY <1>2
    <3>2. quotes[leg.contract].bid \in Int /\ quotes[leg.contract].ask \in Int
      BY <3>1 DEF IsBook
    <3>3. leg.ratio \in Int /\ leg.quantity \in Int
      BY <2>1 DEF IsLeg
    <3>4. RatioOf(leg) \in Int
      BY <3>3 DEF RatioOf
    <3>5. (IF leg.sell THEN -quotes[leg.contract].bid ELSE quotes[leg.contract].ask) \in Int
      BY <3>2
    <3>6. \A a, b \in Int : a * b \in Int
      OBVIOUS
    <3> HIDE DEF bad
    <3>7. f[leg] = RatioOf(leg) * (IF leg.sell THEN -quotes[leg.contract].bid ELSE quotes[leg.contract].ask)
      OBVIOUS
    <3> QED BY <3>4, <3>5, <3>6, <3>7
  <2>3. Showing(o, quotes) = SumFunction(f)
    BY <1>2 DEF Showing
  <2>4. DOMAIN f = o.legs
    OBVIOUS
  <2> HIDE DEF f
  <2>5. SumFunction(f) \in Int
    BY <2>1, <2>2, <2>4, SumIsInt DEF SumFunction
  <2> QED BY <2>3, <2>5
<1> QED BY <1>1, <1>2

\* A step does not pass what it is made toward.
LEMMA TowardIsBetween ==
  ASSUME NEW limit \in Int, NEW target \in Int, NEW step \in Nat
  PROVE  Toward(limit, target, step) \in limit..target \cup target..limit
<1>1. Abs(target - limit) \in Nat
  BY DEF Abs
<1>2. CASE 2 * Abs(target - limit) < step
  BY <1>2 DEF Toward
<1>3. CASE ~(2 * Abs(target - limit) < step) /\ target > limit
  <2>1. Toward(limit, target, step) = Min({limit + step, target})
    BY <1>3 DEF Toward
  <2>2. Min({limit + step, target}) = IF limit + step <= target THEN limit + step ELSE target
    BY MinOfTwo
  <2> QED BY <1>3, <2>1, <2>2
<1>4. CASE ~(2 * Abs(target - limit) < step) /\ ~(target > limit)
  <2>1. Toward(limit, target, step) = Max({limit - step, target})
    BY <1>4 DEF Toward
  <2>2. Max({limit - step, target}) = IF limit - step >= target THEN limit - step ELSE target
    BY MaxOfTwo
  <2> QED BY <1>4, <2>1, <2>2
<1> QED BY <1>2, <1>3, <1>4

\* A pass keeps the price between the first and the worst of the name.
LEMMA LimitIsKept ==
  ASSUME NEW o, IsWalkable(o), NEW quotes, IsBook(quotes), NEW least, NEW step \in Nat,
         BetweenFirstAndWorst(o), Reservation(o.name) = Reservation(o.was)
  PROVE  LET next == NextLimit(o, quotes, least, step)
             floor == Reservation(o.was)
         IN /\ next \in Int
            /\ next # o.limit => floor # NoPrice
            /\ next # o.limit => next \in o.first..floor \cup floor..o.first
<1> DEFINE next == NextLimit(o, quotes, least, step)
           floor == Reservation(o.was)
           showing == Showing(o, quotes)
           still == \/ showing = NoPrice \/ showing <= o.limit
                    \/ floor = NoPrice \/ RefusesTheFloor(o, floor, quotes, least)
           target == IF showing > floor THEN floor ELSE showing
<1>1. o.limit \in Int /\ o.first \in Int /\ floor \in Int \cup {NoPrice}
      /\ showing \in Int \cup {NoPrice}
  BY ShowingIsWhole, StatesIt DEF IsWalkable
<1>2. next = IF still THEN o.limit ELSE Toward(o.limit, target, step)
  BY DEF NextLimit
<1>3. CASE still
  BY <1>1, <1>2, <1>3
<1>4. CASE ~still
  <2>1. showing \in Int /\ floor \in Int /\ floor # NoPrice /\ showing > o.limit
    BY <1>1, <1>4
  <2>2. o.limit \in o.first..floor \cup floor..o.first
    BY <2>1 DEF BetweenFirstAndWorst
  <2> HIDE DEF next, floor, showing, still
  <2>3. target \in Int
    BY <2>1
  <2>4. next \in o.limit..target \cup target..o.limit
    BY <1>1, <1>2, <1>4, <2>3, TowardIsBetween
  <2>5. next \in o.first..floor \cup floor..o.first
    BY <1>1, <2>1, <2>2, <2>3, <2>4
  <2>6. next \in Int
    BY <1>1, <2>3, <2>4
  <2> QED BY <2>1, <2>5, <2>6 DEF next, floor
<1> QED BY <1>3, <1>4

\* What WalkIsReadable says of an order, by a moment.
WalkedBy(o, n) ==
  /\ IsWalkable(o)
  /\ o.name = o.was \/ \E at \in 0..n : o.name = NameCarrying(o.was, at)
  /\ BetweenFirstAndWorst(o)

\* Such an order says what it said, fits, and gets the name it would have got at first.
LEMMA NameIsOfWas ==
  ASSUME NEW o, NEW n \in Nat, WalkedBy(o, n), NEW at \in Nat
  PROVE  /\ IsName(o.was) /\ IsName(o.name)
         /\ Reservation(o.name) = Reservation(o.was)
         /\ Size(o.name) <= NameLimit
         /\ NameCarrying(o.name, at) = NameCarrying(o.was, at)
<1>1. IsName(o.was) /\ Size(o.was) <= NameLimit
  BY DEF WalkedBy, IsWalkable
<1>2. CASE o.name = o.was
  BY <1>1, <1>2
<1>3. CASE \E a \in 0..n : o.name = NameCarrying(o.was, a)
  <2>1. PICK a \in Nat : o.name = NameCarrying(o.was, a)
    BY <1>3
  <2> QED BY <1>1, <2>1, CarriedIs, CarriedTwice
<1> QED BY <1>2, <1>3 DEF WalkedBy

\* A pass leaves it such an order.
LEMMA WalkedIs ==
  ASSUME NEW o, NEW n \in Nat, WalkedBy(o, n), NEW quotes, IsBook(quotes), NEW least,
         NEW step \in Nat, NEW known
  PROVE  WalkedBy(Walked(o, quotes, least, step, n + 1, known), n + 1)
<1> DEFINE next == NextLimit(o, quotes, least, step)
           name == NameCarrying(o.name, n + 1)
           moved == [o EXCEPT !.limit = next, !.name = name]
<1>1. \A m \in 0..n : m \in 0..(n + 1)
  OBVIOUS
<1>2. WalkedBy(o, n + 1)
  BY <1>1 DEF WalkedBy
<1>3. CASE next = o.limit \/ name \in known
  BY <1>2, <1>3 DEF Walked
<1>4. CASE ~(next = o.limit \/ name \in known)
  <2>1. Walked(o, quotes, least, step, n + 1, known) = moved
    BY <1>4 DEF Walked
  <2>2. IsWalkable(o) /\ BetweenFirstAndWorst(o)
    BY DEF WalkedBy
  <2>3. n + 1 \in Nat /\ n + 1 \in 0..(n + 1)
    OBVIOUS
  <2>4. Reservation(o.name) = Reservation(o.was) /\ name = NameCarrying(o.was, n + 1)
    BY <2>3, NameIsOfWas
  <2>5. /\ next \in Int /\ Reservation(o.was) # NoPrice
        /\ next \in o.first..Reservation(o.was) \cup Reservation(o.was)..o.first
    BY <1>4, <2>2, <2>4, LimitIsKept
  <2> HIDE DEF next, name
  <2>6. /\ moved.legs = o.legs /\ moved.limit = next /\ moved.first = o.first
        /\ moved.name = name /\ moved.was = o.was
        /\ moved \in [legs : {o.legs}, limit : Int, first : Int, name : {name}, was : {o.was}]
    BY <2>2, <2>5 DEF IsWalkable
  <2> HIDE DEF moved
  <2>7. IsWalkable(moved)
    BY <2>2, <2>6 DEF IsWalkable
  <2>8. BetweenFirstAndWorst(moved)
    BY <2>5, <2>6 DEF BetweenFirstAndWorst
  <2>9. \E at \in 0..(n + 1) : moved.name = NameCarrying(moved.was, at)
    BY <2>3, <2>4, <2>6
  <2>10. WalkedBy(moved, n + 1)
    BY <2>7, <2>8, <2>9 DEF WalkedBy
  <2> QED BY <2>1, <2>10
<1> QED BY <1>3, <1>4

\* Both orders of a walk.
LEMMA WalkIs ==
  WalkIsReadable <=>
    elapsed \in Nat /\ (walk # Nothing => \A i \in {1, 2} : WalkedBy(walk[i], elapsed))
BY DEF WalkIsReadable, WalkedBy, NamedOnce

\* Two orders under their first names.
LEMMA WalkFirst == Init => WalkIsReadable
<1> SUFFICES ASSUME Init PROVE WalkIsReadable
  OBVIOUS
<1>1. elapsed = 0 /\ (walk = Nothing \/ walk \in Walks)
  BY DEF Init
<1>2. ASSUME walk \in Walks, NEW i \in {1, 2} PROVE WalkedBy(walk[i], elapsed)
  <2>1. IsWalkable(walk[i]) /\ walk[i].limit = walk[i].first /\ walk[i].name = walk[i].was
    BY <1>2, ArithmeticAssumption
  <2>2. BetweenFirstAndWorst(walk[i])
    <3>1. walk[i].first \in Int /\ IsName(walk[i].was)
      BY <2>1 DEF IsWalkable
    <3>2. Reservation(walk[i].was) \in Int \cup {NoPrice}
      BY <3>1, StatesIt
    <3> QED BY <2>1, <3>1, <3>2 DEF BetweenFirstAndWorst
  <2> QED BY <2>1, <2>2 DEF WalkedBy
<1> QED BY <1>1, <1>2, WalkIs

\* A pass leaves both readable.
LEMMA WalkNext == WalkIsReadable /\ [Next]_vars => WalkIsReadable'
<1> SUFFICES ASSUME WalkIsReadable, [Next]_vars PROVE WalkIsReadable'
  OBVIOUS
<1>1. elapsed \in Nat /\ (walk # Nothing => \A i \in {1, 2} : WalkedBy(walk[i], elapsed))
  BY WalkIs
<1>2. WalkIsReadable' <=>
        elapsed' \in Nat /\ (walk' # Nothing => \A i \in {1, 2} : WalkedBy(walk'[i], elapsed'))
  BY DEF WalkIsReadable, WalkedBy, NamedOnce
<1>3. CASE Pass
  <2>1. PICK quotes \in Books, least \in Leasts, step \in Strides :
          LET first  == Walked(walk[1], quotes, least, step, elapsed', {})
              second == Walked(walk[2], quotes, least, step, elapsed', {first.name})
          IN walk' = <<first, second>>
    BY <1>3 DEF Pass
  <2>2. IsBook(quotes) /\ step \in Nat
    BY ArithmeticAssumption
  <2>3. walk # Nothing /\ elapsed' = elapsed + 1
    BY <1>3 DEF Pass
  <2> DEFINE first == Walked(walk[1], quotes, least, step, elapsed + 1, {})
             second == Walked(walk[2], quotes, least, step, elapsed + 1, {first.name})
  <2>4. WalkedBy(first, elapsed + 1)
    BY <1>1, <2>2, <2>3, WalkedIs
  <2>5. WalkedBy(second, elapsed + 1)
    BY <1>1, <2>2, <2>3, WalkedIs
  <2>6. walk'[1] = first /\ walk'[2] = second
    BY <2>1, <2>3
  <2> HIDE DEF first, second
  <2>7. \A i \in {1, 2} : WalkedBy(walk'[i], elapsed')
    BY <2>3, <2>4, <2>5, <2>6
  <2> QED BY <1>1, <1>2, <2>3, <2>7
<1>4. CASE ~Pass
  <2>1. walk' = walk /\ (elapsed' = elapsed \/ elapsed' = elapsed + 1)
    BY <1>4 DEF Next, FillsPart, TimePasses, Trade, Settles, Remembers, vars
  <2>2. elapsed' \in Nat /\ \A m \in 0..elapsed : m \in 0..elapsed'
    BY <1>1, <2>1
  <2>3. \A o : WalkedBy(o, elapsed) => WalkedBy(o, elapsed')
    BY <2>2 DEF WalkedBy
  <2> QED BY <1>1, <1>2, <2>1, <2>2, <2>3
<1> QED BY <1>3, <1>4

\* Replaced again and again, it stays such an order.
LEMMA WalkReadable == Spec => []WalkIsReadable
<1> QED BY WalkFirst, WalkNext, PTL DEF Spec

\* reservation.go, NameCarrying: "the floor is what must survive".  For any name within
\* the limit of the broker, any books and any passes: the replacement states the same
\* worst price, says the rest if there is room, fits, differs from that of an order which
\* differs, and stands between its first price and its worst.
THEOREM NameTravels == Spec => []WorstPriceTravels
<1>1. WalkIsReadable => WorstPriceTravels
  <2> SUFFICES ASSUME WalkIsReadable, walk # Nothing PROVE WorstPriceTravels
    BY DEF WorstPriceTravels
  <2>1. elapsed \in Nat /\ \A i \in {1, 2} : WalkedBy(walk[i], elapsed)
    BY WalkIs
  <2>2. elapsed + 1 \in Nat
    BY <2>1
  <2>3. ASSUME NEW i \in {1, 2}
        PROVE  /\ Reservation(walk[i].name) = Reservation(walk[i].was)
               /\ Kept(walk[i]) /\ Size(walk[i].name) <= NameLimit
               /\ BetweenFirstAndWorst(walk[i])
               /\ IsName(walk[i].was)
               /\ NameCarrying(walk[i].name, elapsed + 1) = NameCarrying(walk[i].was, elapsed + 1)
    <3> DEFINE o == walk[i]
    <3>1. WalkedBy(o, elapsed)
      BY <2>1
    <3> HIDE DEF o
    <3>2. /\ IsName(o.was) /\ Reservation(o.name) = Reservation(o.was)
          /\ Size(o.name) <= NameLimit
          /\ NameCarrying(o.name, elapsed + 1) = NameCarrying(o.was, elapsed + 1)
      BY <2>1, <2>2, <3>1, NameIsOfWas
    <3>3. Kept(o)
      <4>1. CASE o.name = o.was
        BY <4>1 DEF Kept
      <4>2. CASE \E at \in 0..elapsed : o.name = NameCarrying(o.was, at)
        <5>1. PICK at \in Nat : o.name = NameCarrying(o.was, at)
          BY <2>1, <4>2
        <5>2. Unstamped(o.name) = Base(o.was)
          BY <3>2, <5>1, CarriedIs
        <5> QED BY <3>2, <5>2, BaseIs DEF Kept
      <4> QED BY <3>1, <4>1, <4>2 DEF WalkedBy
    <3>4. BetweenFirstAndWorst(o)
      BY <3>1 DEF WalkedBy
    <3> QED BY <3>2, <3>3, <3>4 DEF o
  <2>4. ASSUME HasRoom(Unstamped(walk[1].was)), HasRoom(Unstamped(walk[2].was)),
               Unstamped(walk[1].was) # Unstamped(walk[2].was)
        PROVE  NameCarrying(walk[1].name, elapsed + 1) # NameCarrying(walk[2].name, elapsed + 1)
    <3>1. /\ IsName(walk[1].was) /\ IsName(walk[2].was)
          /\ NameCarrying(walk[1].name, elapsed + 1) = NameCarrying(walk[1].was, elapsed + 1)
          /\ NameCarrying(walk[2].name, elapsed + 1) = NameCarrying(walk[2].was, elapsed + 1)
      BY <2>3
    <3>2. Base(walk[1].was) # Base(walk[2].was)
      BY <2>4, <3>1, BaseIs
    <3> QED BY <2>2, <3>1, <3>2, CarriedApart
  <2> QED BY <2>3, <2>4 DEF WorstPriceTravels
<1> QED BY <1>1, WalkReadable, PTL

-----------------------------------------------------------------------------
(* What an account holds.                                                  *)

\* A fraction that is reduced is the same number.
LEMMA FractionIs ==
  ASSUME NEW num \in Int, NEW den \in Nat \ {0}
  PROVE  /\ Fraction(num, den) \in Fractions
         /\ Fraction(num, den).num * den = num * Fraction(num, den).den
<1> DEFINE K == {k \in 1..den : num % k = 0 /\ den % k = 0}
           k == Max(K)
           n == num \div k
           d == den \div k
<1>1. k \in K
  <2>1. IsFiniteSet(1..den) /\ K \subseteq 1..den /\ K \subseteq Int
    BY FS_Interval
  <2>2. 1 \in K
    BY \A x \in Int : x % 1 = 0
  <2> HIDE DEF K
  <2>3. IsFiniteSet(K) /\ K # {}
    BY <2>1, <2>2, FS_Subset
  <2> QED BY <2>1, <2>3, MaxIs
<1>2. k \in Nat \ {0} /\ num % k = 0 /\ den % k = 0
  BY <1>1
<1> HIDE DEF k
<1>3. n \in Int /\ d \in Int /\ num = k * n /\ den = k * d
  BY <1>2
<1> HIDE DEF n, d
<1>4. d \in Nat \ {0}
  <2>1. SUFFICES ASSUME d <= 0 PROVE FALSE
    BY <1>3
  <2>2. k * d <= 0
    BY <1>2, <1>3, <2>1
  <2> QED BY <1>3, <2>2
<1>5. n * den = num * d
  <2>1. n * (k * d) = (k * n) * d
    BY <1>2, <1>3
  <2> QED BY <1>3, <2>1
<1>6. Fraction(num, den) = [num |-> n, den |-> d]
  BY DEF Fraction, n, d, k
<1> QED BY <1>3, <1>4, <1>5, <1>6 DEF Fractions

\* n is what the fraction a comes to in parts of which D make one.
InParts(n, D, a) == n * a.den = D * a.num

\* A whole number in parts.
LEMMA WholeIs ==
  ASSUME NEW n \in Int, NEW D \in Nat \ {0}
  PROVE  Whole(n) \in Fractions /\ InParts(D * n, D, Whole(n))
BY DEF Whole, Fractions, InParts

\* Two numbers of which a multiple is one are one.
LEMMA Cancelled ==
  ASSUME NEW x \in Int, NEW y \in Int, NEW k \in Nat \ {0}, x * k = y * k
  PROVE  x = y
<1>1. (x - y) * k = 0
  BY \A a, b, c \in Int : (a - b) * c = a * c - b * c
<1>2. SUFFICES ASSUME x # y PROVE FALSE
  OBVIOUS
<1>3. CASE x < y
  BY <1>3, Scaled
<1>4. CASE y < x
  BY <1>4, Scaled
<1> QED BY <1>2, <1>3, <1>4

\* Sums and multiples of fractions are sums and multiples of their parts.
LEMMA SumInParts ==
  ASSUME NEW a \in Fractions, NEW b \in Fractions, NEW D \in Nat \ {0}, NEW m \in Int, NEW n \in Int,
         InParts(m, D, a), InParts(n, D, b)
  PROVE  Sum2(a, b) \in Fractions /\ InParts(m + n, D, Sum2(a, b))
<1> DEFINE num == a.num * b.den + b.num * a.den
           den == a.den * b.den
           sum == Fraction(num, den)
<1>1. a.num \in Int /\ b.num \in Int /\ a.den \in Nat \ {0} /\ b.den \in Nat \ {0}
  BY DEF Fractions
<1>2. num \in Int /\ den \in Nat \ {0}
  BY <1>1
<1>3. sum \in Fractions /\ sum.num * den = num * sum.den
  <2> HIDE DEF num, den
  <2> QED BY <1>2, FractionIs
<1>4. sum.num \in Int /\ sum.den \in Nat \ {0}
  BY <1>3 DEF Fractions
<1>5. (m + n) * den = D * num
  <2>1. m * a.den = D * a.num /\ n * b.den = D * b.num
    BY DEF InParts
  <2>2. (m + n) * (a.den * b.den) = (m * a.den) * b.den + (n * b.den) * a.den
    BY <1>1
  <2>3. (D * a.num) * b.den + (D * b.num) * a.den = D * (a.num * b.den + b.num * a.den)
    BY <1>1
  <2> QED BY <2>1, <2>2, <2>3
<1> HIDE DEF num, den, sum
<1>6. ((m + n) * sum.den) * den = (D * sum.num) * den
  <2>1. ((m + n) * sum.den) * den = ((m + n) * den) * sum.den
    BY <1>2, <1>4
  <2>2. (D * sum.num) * den = D * (sum.num * den)
    BY <1>2, <1>4
  <2>3. D * (num * sum.den) = (D * num) * sum.den
    BY <1>2, <1>4
  <2> QED BY <1>3, <1>5, <2>1, <2>2, <2>3
<1>7. (m + n) * sum.den = D * sum.num
  <2>1. (m + n) * sum.den \in Int /\ D * sum.num \in Int
    BY <1>4
  <2> QED BY <1>2, <1>6, <2>1, Cancelled
<1> QED BY <1>3, <1>7 DEF InParts, Sum2, num, den, sum

\* Multiples of a fraction.
LEMMA TimesInParts ==
  ASSUME NEW a \in Fractions, NEW D \in Nat \ {0}, NEW m \in Int, NEW k \in Int, InParts(m, D, a)
  PROVE  Times(k, a) \in Fractions /\ InParts(k * m, D, Times(k, a))
<1> DEFINE t == Fraction(k * a.num, a.den)
<1>1. a.num \in Int /\ a.den \in Nat \ {0} /\ k * a.num \in Int
  BY DEF Fractions
<1>2. t \in Fractions /\ t.num * a.den = (k * a.num) * t.den
  BY <1>1, FractionIs
<1>3. t.num \in Int /\ t.den \in Nat \ {0}
  BY <1>2 DEF Fractions
<1> HIDE DEF t
<1>4. m * a.den = D * a.num
  BY DEF InParts
<1>5. ((k * m) * t.den) * a.den = (D * t.num) * a.den
  <2>1. ((k * m) * t.den) * a.den = (k * (m * a.den)) * t.den
    BY <1>1, <1>3
  <2>2. (k * (D * a.num)) * t.den = D * ((k * a.num) * t.den)
    BY <1>1, <1>3
  <2>3. D * (t.num * a.den) = (D * t.num) * a.den
    BY <1>1, <1>3
  <2> QED BY <1>2, <1>4, <2>1, <2>2, <2>3
<1>6. (k * m) * t.den = D * t.num
  <2>1. (k * m) * t.den \in Int /\ D * t.num \in Int
    BY <1>3
  <2> QED BY <1>1, <1>5, <2>1, Cancelled
<1> QED BY <1>2, <1>6 DEF InParts, Times, t

\* Two fractions are one number if they are as many parts.
LEMMA SameInParts ==
  ASSUME NEW a \in Fractions, NEW b \in Fractions, NEW D \in Nat \ {0}, NEW m \in Int, NEW n \in Int,
         InParts(m, D, a), InParts(n, D, b)
  PROVE  Same(a, b) <=> m = n
<1>1. a.num \in Int /\ b.num \in Int /\ a.den \in Nat \ {0} /\ b.den \in Nat \ {0}
  BY DEF Fractions
<1>2. m * a.den = D * a.num /\ n * b.den = D * b.num
  BY DEF InParts
<1>3. a.den * b.den \in Nat \ {0} /\ a.num * b.den \in Int /\ b.num * a.den \in Int
  BY <1>1
<1>4. (a.num * b.den) * D = m * (a.den * b.den)
  <2>1. (a.num * b.den) * D = (D * a.num) * b.den /\ m * (a.den * b.den) = (m * a.den) * b.den
    BY <1>1
  <2> QED BY <1>2, <2>1
<1>5. (b.num * a.den) * D = n * (a.den * b.den)
  <2>1. (b.num * a.den) * D = (D * b.num) * a.den /\ n * (a.den * b.den) = (n * b.den) * a.den
    BY <1>1
  <2> QED BY <1>2, <2>1
<1>6. ASSUME m = n PROVE Same(a, b)
  BY <1>3, <1>4, <1>5, <1>6, Cancelled DEF Same
<1>7. ASSUME Same(a, b) PROVE m = n
  BY <1>3, <1>4, <1>5, <1>7, Cancelled DEF Same
<1> QED BY <1>6, <1>7

\* Finitely many fractions are all whole in parts small enough.
IsCommon(D, A) == D \in Nat \ {0} /\ \A a \in A : \E n \in Int : InParts(n, D, a)

\* Finitely many fractions have a common denominator.
LEMMA HasCommon ==
  ASSUME NEW A, IsFiniteSet(A), A \subseteq Fractions
  PROVE  \E D : IsCommon(D, A)
<1> DEFINE B == {T \in SUBSET A : ~ \E D : IsCommon(D, T)}
<1>1. SUFFICES ASSUME B # {} PROVE FALSE
  OBVIOUS
<1>2. PICK T \in B : \A v \in B : v \subseteq T => v = T
  <2>1. B \subseteq SUBSET A
    OBVIOUS
  <2> HIDE DEF B
  <2> QED BY <1>1, <2>1, LeastSet
<1>3. T # {}
  <2>1. IsCommon(1, {})
    BY DEF IsCommon
  <2> QED BY <2>1
<1>4. PICK a \in T : TRUE
  BY <1>3
<1>5. PICK D : IsCommon(D, T \ {a})
  BY <1>2, <1>4
<1>6. a.num \in Int /\ a.den \in Nat \ {0} /\ D \in Nat \ {0}
  BY <1>5 DEF Fractions, IsCommon
<1>7. D * a.den \in Nat \ {0}
  BY <1>6
<1>8. ASSUME NEW b \in T PROVE \E n \in Int : InParts(n, D * a.den, b)
  <2>1. b.num \in Int /\ b.den \in Nat \ {0}
    BY DEF Fractions
  <2>2. CASE b = a
    <3>1. D * a.num \in Int /\ (D * a.num) * a.den = (D * a.den) * a.num
      BY <1>6
    <3> QED BY <2>2, <3>1 DEF InParts
  <2>3. CASE b # a
    <3>1. PICK n \in Int : n * b.den = D * b.num
      BY <1>5, <2>3 DEF IsCommon, InParts
    <3>2. n * a.den \in Int
      BY <1>6
    <3>3. (n * a.den) * b.den = (n * b.den) * a.den /\ (D * b.num) * a.den = (D * a.den) * b.num
      BY <1>6, <2>1
    <3> QED BY <3>1, <3>2, <3>3 DEF InParts
  <2> QED BY <2>2, <2>3
<1>9. IsCommon(D * a.den, T)
  BY <1>7, <1>8 DEF IsCommon
<1> QED BY <1>9

\* The function a total of fractions is read off.
IsTotalOf(g, f, S) ==
  g = [s \in SUBSET S |-> IF s = {} THEN Whole(0) ELSE Sum2(f[First(s)], g[s \ {First(s)}])]

\* A total is read off a function of the subsets.
LEMMA TotalIsRead ==
  ASSUME NEW f, NEW S
  PROVE  TotalOf(f, S) = (CHOOSE g : IsTotalOf(g, f, S))[S]
BY DEF TotalOf, FoldFunctionOnSet, MapThenFoldSet, IsTotalOf, First

\* Two such functions agree where both are.
LEMMA TotalsAgree ==
  ASSUME NEW f, NEW S, IsFiniteSet(S), NEW g, IsTotalOf(g, f, S), NEW T, NEW h, IsTotalOf(h, f, T),
         NEW U, U \subseteq S, U \subseteq T
  PROVE  g[U] = h[U]
<1> DEFINE A == {u \in SUBSET S : u \subseteq T /\ g[u] # h[u]}
<1>1. SUFFICES ASSUME A # {} PROVE FALSE
  OBVIOUS
<1>2. PICK u \in A : \A v \in A : v \subseteq u => v = u
  <2>1. A \subseteq SUBSET S
    OBVIOUS
  <2> HIDE DEF A
  <2> QED BY <1>1, <2>1, LeastSet
<1>3. /\ g[u] = IF u = {} THEN Whole(0) ELSE Sum2(f[First(u)], g[u \ {First(u)}])
      /\ h[u] = IF u = {} THEN Whole(0) ELSE Sum2(f[First(u)], h[u \ {First(u)}])
  BY DEF IsTotalOf
<1>4. u # {} => First(u) \in u
  BY DEF First
<1>5. u # {} => g[u \ {First(u)}] = h[u \ {First(u)}]
  BY <1>2, <1>4
<1> QED BY <1>3, <1>5

\* There is one.
LEMMA TotalExists ==
  ASSUME NEW f, NEW S, IsFiniteSet(S)
  PROVE  \E g : IsTotalOf(g, f, S)
<1> DEFINE A == {T \in SUBSET S : ~ \E g : IsTotalOf(g, f, T)}
<1>1. SUFFICES ASSUME A # {} PROVE FALSE
  OBVIOUS
<1>2. PICK T \in A : \A v \in A : v \subseteq T => v = T
  <2>1. A \subseteq SUBSET S
    OBVIOUS
  <2> HIDE DEF A
  <2> QED BY <1>1, <2>1, LeastSet
<1> DEFINE G(u) == CHOOSE g : IsTotalOf(g, f, u)
           rest(s) == s \ {First(s)}
<1>3. ASSUME NEW u \in SUBSET T, u # T PROVE IsTotalOf(G(u), f, u) /\ IsFiniteSet(u)
  <2>1. \E g : IsTotalOf(g, f, u)
    BY <1>2, <1>3
  <2>2. IsFiniteSet(u)
    BY FS_Subset
  <2> QED BY <2>1, <2>2
<1> HIDE DEF G
<1> DEFINE g == [s \in SUBSET T |-> IF s = {} THEN Whole(0) ELSE Sum2(f[First(s)], G(rest(s))[rest(s)])]
<1>4. ASSUME NEW s \in SUBSET T, s # {} PROVE g[rest(s)] = G(rest(s))[rest(s)]
  <2> DEFINE u == rest(s)
  <2>1. First(s) \in s
    BY <1>4 DEF First
  <2>2. u \in SUBSET T /\ u # T
    BY <2>1
  <2>3. IsTotalOf(G(u), f, u) /\ IsFiniteSet(u)
    BY <1>3, <2>2
  <2>4. G(u)[u] = IF u = {} THEN Whole(0) ELSE Sum2(f[First(u)], G(u)[rest(u)])
    BY <2>3 DEF IsTotalOf
  <2>5. g[u] = IF u = {} THEN Whole(0) ELSE Sum2(f[First(u)], G(rest(u))[rest(u)])
    BY <2>2
  <2>6. ASSUME u # {} PROVE G(u)[rest(u)] = G(rest(u))[rest(u)]
    <3>1. rest(u) \in SUBSET T /\ rest(u) # T /\ rest(u) \subseteq u
      BY <2>2
    <3>2. IsTotalOf(G(rest(u)), f, rest(u))
      BY <1>3, <3>1
    <3> HIDE DEF u, rest
    <3> QED BY <2>3, <3>1, <3>2, TotalsAgree
  <2> QED BY <2>4, <2>5, <2>6
<1>5. IsTotalOf(g, f, T)
  BY <1>4 DEF IsTotalOf
<1>6. \E h : IsTotalOf(h, f, T)
  <2> HIDE DEF g
  <2> QED BY <1>5
<1> QED BY <1>2, <1>6

\* The total of no fractions, and of some: one of them and the total of the others.
LEMMA TotalUnfolds ==
  ASSUME NEW f, NEW S, IsFiniteSet(S)
  PROVE  TotalOf(f, S) =
           IF S = {} THEN Whole(0) ELSE Sum2(f[First(S)], TotalOf(f, S \ {First(S)}))
<1> DEFINE G(u) == CHOOSE g : IsTotalOf(g, f, u)
           R == S \ {First(S)}
<1>1. IsFiniteSet(R) /\ R \subseteq S
  BY FS_Subset
<1>2. IsTotalOf(G(S), f, S) /\ IsTotalOf(G(R), f, R)
  <2>1. (\E g : IsTotalOf(g, f, S)) /\ (\E g : IsTotalOf(g, f, R))
    BY <1>1, TotalExists
  <2> QED BY <2>1
<1>3. TotalOf(f, S) = G(S)[S] /\ TotalOf(f, R) = G(R)[R]
  BY TotalIsRead
<1> HIDE DEF G
<1>4. G(S)[R] = G(R)[R]
  BY <1>1, <1>2, TotalsAgree
<1>5. G(S)[S] = IF S = {} THEN Whole(0) ELSE Sum2(f[First(S)], G(S)[R])
  BY <1>2 DEF IsTotalOf
<1> QED BY <1>3, <1>4, <1>5

\* A total of fractions is the sum of their parts.
LEMMA TotalInParts ==
  ASSUME NEW f, NEW S, IsFiniteSet(S), \A x \in S : f[x] \in Fractions, NEW D \in Nat \ {0},
         NEW F, \A x \in S : F[x] \in Int /\ InParts(F[x], D, f[x])
  PROVE  TotalOf(f, S) \in Fractions /\ InParts(SumFunctionOnSet(F, S), D, TotalOf(f, S))
<1> DEFINE Right(T) == TotalOf(f, T) \in Fractions /\ InParts(SumFunctionOnSet(F, T), D, TotalOf(f, T))
           A == {T \in SUBSET S : ~Right(T)}
<1>1. SUFFICES ASSUME A # {} PROVE FALSE
  OBVIOUS
<1>2. PICK T \in A : \A v \in A : v \subseteq T => v = T
  <2>1. A \subseteq SUBSET S
    OBVIOUS
  <2> HIDE DEF A
  <2> QED BY <1>1, <2>1, LeastSet
<1>3. T \subseteq S /\ IsFiniteSet(T) /\ ~Right(T)
  BY FS_Subset
<1>4. T # {}
  <2>1. SumFunctionOnSet(F, {}) = 0
    BY SumOfNone
  <2>2. TotalOf(f, {}) = Whole(0)
    BY FS_EmptySet, TotalUnfolds
  <2>3. Whole(0) \in Fractions /\ InParts(0, D, Whole(0))
    BY DEF Whole, Fractions, InParts
  <2>4. Right({})
    BY <2>1, <2>2, <2>3
  <2> QED BY <1>3, <2>4
<1> DEFINE c == First(T)
           R == T \ {c}
<1>5. c \in T
  BY <1>4 DEF First
<1>6. Right(R)
  BY <1>2, <1>5
<1>7. SumFunctionOnSet(F, R) \in Int
  <2>1. IsFiniteSet(R) /\ \A x \in R : F[x] \in Int
    BY <1>3, FS_Subset
  <2> HIDE DEF R
  <2> QED BY <2>1, SumIsInt
<1>8. SumFunctionOnSet(F, T) = F[c] + SumFunctionOnSet(F, R)
  BY <1>3, <1>4, SumUnfolds
<1>9. TotalOf(f, T) = Sum2(f[c], TotalOf(f, R))
  BY <1>3, <1>4, TotalUnfolds
<1>10. f[c] \in Fractions /\ F[c] \in Int /\ InParts(F[c], D, f[c])
  BY <1>3, <1>5
<1> HIDE DEF c, R
<1>11. Right(T)
  BY <1>6, <1>7, <1>8, <1>9, <1>10, SumInParts
<1> QED BY <1>3, <1>11

\* Sums, multiples and totals of fractions are fractions.
LEMMA FractionsAre ==
  ASSUME NEW a \in Fractions, NEW b \in Fractions, NEW k \in Int
  PROVE  Sum2(a, b) \in Fractions /\ Times(k, a) \in Fractions /\ Whole(k) \in Fractions
<1>1. a.num \in Int /\ b.num \in Int /\ a.den \in Nat \ {0} /\ b.den \in Nat \ {0}
  BY DEF Fractions
<1>2. /\ a.num * b.den + b.num * a.den \in Int /\ a.den * b.den \in Nat \ {0}
      /\ k * a.num \in Int
  BY <1>1
<1>3. Sum2(a, b) \in Fractions
  BY <1>2, FractionIs DEF Sum2
<1>4. Times(k, a) \in Fractions
  BY <1>1, <1>2, FractionIs DEF Times
<1>5. Whole(k) \in Fractions
  BY DEF Whole, Fractions
<1> QED BY <1>3, <1>4, <1>5

\* The total of finitely many fractions is one.
LEMMA CommonOf ==
  ASSUME NEW f, NEW S, IsFiniteSet(S), \A x \in S : f[x] \in Fractions
  PROVE  /\ IsFiniteSet({f[x] : x \in S}) /\ {f[x] : x \in S} \subseteq Fractions
         /\ TotalOf(f, S) \in Fractions
<1> DEFINE A == {f[x] : x \in S}
<1>1. IsFiniteSet(A) /\ A \subseteq Fractions
  BY ImageIsFinite
<1>2. PICK D : IsCommon(D, A)
  BY <1>1, HasCommon
<1> DEFINE F == [x \in S |-> CHOOSE n \in Int : InParts(n, D, f[x])]
<1>3. \A x \in S : F[x] \in Int /\ InParts(F[x], D, f[x])
  <2> SUFFICES ASSUME NEW x \in S PROVE F[x] \in Int /\ InParts(F[x], D, f[x])
    OBVIOUS
  <2>1. \E n \in Int : InParts(n, D, f[x])
    BY <1>2 DEF IsCommon
  <2>2. F[x] = CHOOSE n \in Int : InParts(n, D, f[x])
    OBVIOUS
  <2> HIDE DEF F
  <2> QED BY <2>1, <2>2
<1>4. D \in Nat \ {0}
  BY <1>2 DEF IsCommon
<1> HIDE DEF F
<1>5. TotalOf(f, S) \in Fractions
  BY <1>3, <1>4, TotalInParts
<1> QED BY <1>1, <1>5

\* A position that is added to, closed in part, closed or turned over.
LEMMA AdjustedIs ==
  ASSUME NEW p \in Positions, NEW signed \in Int, NEW price \in Int
  PROVE  /\ Adjusted(p, signed, price) \in Positions
         /\ Adjusted(p, signed, price).qty = p.qty + signed
<1> DEFINE qty == p.qty + signed
           num == p.avg.num * Abs(p.qty) + price * Abs(signed) * p.avg.den
           den == p.avg.den * Abs(qty)
           avg == IF p.qty * signed > 0 THEN Fraction(num, den)
                  ELSE IF Abs(signed) > Abs(p.qty) THEN Whole(price) ELSE p.avg
<1>1. /\ p.qty \in Int /\ qty \in Int /\ p.avg \in Fractions
      /\ p.avg.num \in Int /\ p.avg.den \in Nat \ {0}
  BY DEF Positions, Fractions
<1>2. CASE qty = 0
  <2>1. NoPosition \in Positions /\ NoPosition.qty = 0
    BY DEF NoPosition, Positions, Whole, Fractions
  <2> QED BY <1>2, <2>1 DEF Adjusted
<1>3. CASE qty # 0
  <2>1. Abs(qty) \in Nat \ {0} /\ Abs(p.qty) \in Nat /\ Abs(signed) \in Nat
    BY <1>1, <1>3 DEF Abs
  <2>2. num \in Int /\ den \in Nat \ {0}
    <3> HIDE DEF qty
    <3> QED BY <1>1, <2>1
  <2>3. Fraction(num, den) \in Fractions
    <3> HIDE DEF num, den
    <3> QED BY <2>2, FractionIs
  <2>4. Whole(price) \in Fractions
    BY DEF Whole, Fractions
  <2>5. avg \in Fractions
    BY <1>1, <2>3, <2>4
  <2>6. Adjusted(p, signed, price) = [qty |-> qty, avg |-> avg]
    BY <1>3 DEF Adjusted
  <2> HIDE DEF qty, avg
  <2>7. [qty |-> qty, avg |-> avg] \in Positions
    BY <1>1, <2>5 DEF Positions
  <2> QED BY <2>6, <2>7 DEF qty
<1> QED BY <1>2, <1>3

\* What is made of a position closed is a fraction.
LEMMA ClosedAtIs ==
  ASSUME NEW p \in Positions, NEW signed \in Int, NEW price \in Int, NEW size \in Int
  PROVE  ClosedAt(p, signed, price, size) \in Fractions
<1>1. p.qty \in Int /\ p.avg \in Fractions
  BY DEF Positions
<1>2. Whole(0) \in Fractions /\ Whole(price) \in Fractions /\ Times(-1, p.avg) \in Fractions
  <2>1. Whole(0) \in Fractions /\ Whole(price) \in Fractions
    BY DEF Whole, Fractions
  <2>2. \A k \in Int : Times(k, p.avg) \in Fractions
    BY <1>1, FractionsAre
  <2>3. -1 \in Int
    OBVIOUS
  <2> QED BY <2>1, <2>2, <2>3
<1>3. Sum2(Whole(price), Times(-1, p.avg)) \in Fractions
  BY <1>2, FractionsAre
<1>4. Min({Abs(p.qty), Abs(signed)}) \in Int
  <2>1. Abs(p.qty) \in Int /\ Abs(signed) \in Int
    BY <1>1 DEF Abs
  <2> QED BY <2>1, MinOfTwo
<1> DEFINE closed == Min({Abs(p.qty), Abs(signed)})
           k == IF p.qty > 0 THEN closed * size ELSE -closed * size
<1>5. k \in Int
  <2> HIDE DEF closed
  <2>1. \A c \in Int : c * size \in Int /\ -c * size \in Int
    OBVIOUS
  <2> QED BY <1>4, <2>1 DEF closed
<1> HIDE DEF k
<1>6. Times(k, Sum2(Whole(price), Times(-1, p.avg))) \in Fractions
  BY <1>3, <1>5, FractionsAre
<1> QED BY <1>2, <1>6 DEF ClosedAt, k, closed

\* What is asked of a market for a set.
LEMMA SetPriceIs ==
  ASSUME NEW legs \in Holdings, NEW sets \in Nat, NEW m, IsReading(m)
  PROVE  /\ IsFiniteSet(Contracts) /\ Contracts \subseteq Instruments
         /\ \A c \in Contracts : legs[c] \in Int
         /\ \A c \in Contracts : Side(m[c], legs[c] > 0) \in Int
         /\ SetPrice(legs, m) \in Int
         /\ SetPrice(legs, m) =
              SumFunctionOnSet([c \in Contracts |-> legs[c] * Side(m[c], legs[c] > 0)], Contracts)
         /\ ContractsIn(legs, sets) \in Nat
<1> DEFINE cost == [c \in Contracts |-> legs[c] * Side(m[c], legs[c] > 0)]
           taken == {c \in Contracts : legs[c] # 0}
           size == [c \in Contracts |-> Abs(legs[c])]
<1>1. /\ IsFiniteSet(Contracts) /\ Contracts \subseteq Instruments
      /\ \A c \in Contracts : legs[c] \in Int
  BY RiskAssumption DEF Instruments, Holdings
<1>2. \A c \in Contracts : Side(m[c], legs[c] > 0) \in Int
  BY <1>1 DEF IsReading, IsQuote, Side
<1>3. \A c \in Contracts : cost[c] \in Int /\ (legs[c] = 0 => cost[c] = 0)
  <2> SUFFICES ASSUME NEW c \in Contracts PROVE cost[c] \in Int /\ (legs[c] = 0 => cost[c] = 0)
    OBVIOUS
  <2>1. \A x, y \in Int : x * y \in Int /\ 0 * y = 0
    OBVIOUS
  <2> QED BY <1>1, <1>2, <2>1
<1> HIDE DEF cost
<1>4. SumFunctionOnSet(cost, Contracts) = SumFunctionOnSet(cost, taken)
  <2>1. taken \subseteq Contracts /\ \A c \in Contracts \ taken : cost[c] = 0
    BY <1>3
  <2> HIDE DEF taken
  <2> QED BY <1>1, <1>3, <2>1, SumPadded
<1>5. SumFunctionOnSet(cost, Contracts) \in Int
  BY <1>1, <1>3, SumIsInt
<1>6. SetPrice(legs, m) = SumFunctionOnSet(cost, taken)
  BY DEF SetPrice, cost
<1>7. ContractsIn(legs, sets) \in Nat
  <2>1. \A c \in Contracts : size[c] \in Nat
    BY <1>1 DEF Abs
  <2> HIDE DEF size
  <2>2. SumFunctionOnSet(size, Contracts) \in Int
    BY <1>1, <2>1, SumIsInt
  <2>3. SumFunctionOnSet(size, {}) <= SumFunctionOnSet(size, Contracts)
    BY <1>1, <2>1, SumOfPart
  <2>4. SumFunctionOnSet(size, Contracts) \in Nat
    BY <2>2, <2>3, SumOfNone
  <2>5. ContractsIn(legs, sets) = sets * SumFunctionOnSet(size, Contracts)
    BY DEF ContractsIn, size
  <2> QED BY <1>1, <2>4, <2>5
<1> QED BY <1>1, <1>2, <1>4, <1>5, <1>6, <1>7 DEF cost

\* What a trade leaves.
LEMMA TradedIs ==
  ASSUME NEW cash \in Int, NEW held \in [Instruments -> Positions], NEW legs \in Holdings, NEW sets \in Nat,
         NEW m, IsReading(m)
  PROVE  LET after == Traded(cash, held, legs, sets, m)
         IN /\ after.cash \in Int /\ after.held \in [Instruments -> Positions]
            /\ after.cash = cash - SetPrice(legs, m) * sets * Multiplier
                              - ContractsIn(legs, sets) * PerContract
            /\ \A c \in Contracts :
                 /\ after.held[c] = Adjusted(held[c], legs[c] * sets, Side(m[c], legs[c] > 0))
                 /\ after.held[c].qty = held[c].qty + legs[c] * sets
            /\ \A r \in Roots : after.held[r] = held[r]
<1> DEFINE after == Traded(cash, held, legs, sets, m)
<1>1. /\ after.cash = cash - SetPrice(legs, m) * sets * Multiplier
                        - ContractsIn(legs, sets) * PerContract
      /\ after.held = [x \in Instruments |->
           IF x \in Contracts
           THEN Adjusted(held[x], legs[x] * sets, Side(m[x], legs[x] > 0)) ELSE held[x]]
  BY DEF Traded
<1> HIDE DEF after
<1>2. after.cash \in Int
  <2>1. SetPrice(legs, m) \in Int /\ sets \in Nat /\ ContractsIn(legs, sets) \in Nat
    BY SetPriceIs
  <2>3. Multiplier \in Int /\ PerContract \in Int
    BY RiskAssumption, ValuationAssumption
  <2>2. \A a, b, c \in Int : a * b * c \in Int /\ a * b \in Int
    OBVIOUS
  <2> QED BY <1>1, <2>1, <2>2, <2>3
<1>3. ASSUME NEW c \in Contracts
      PROVE  /\ after.held[c] = Adjusted(held[c], legs[c] * sets, Side(m[c], legs[c] > 0))
             /\ after.held[c].qty = held[c].qty + legs[c] * sets
             /\ after.held[c] \in Positions
  <2>1. c \in Instruments /\ held[c] \in Positions
    BY DEF Instruments
  <2>2. legs[c] * sets \in Int /\ Side(m[c], legs[c] > 0) \in Int
    <3>0. /\ \A d \in Contracts : legs[d] \in Int
          /\ \A d \in Contracts : Side(m[d], legs[d] > 0) \in Int
      BY SetPriceIs
    <3>1. legs[c] \in Int /\ sets \in Int /\ Side(m[c], legs[c] > 0) \in Int
      BY <3>0
    <3>2. \A a, b \in Int : a * b \in Int
      OBVIOUS
    <3> QED BY <3>1, <3>2
  <2> QED BY <1>1, <2>1, <2>2, AdjustedIs
<1>4. ASSUME NEW r \in Roots PROVE after.held[r] = held[r]
  <2>1. r \in Instruments /\ r \notin Contracts
    BY ValuationAssumption DEF Instruments
  <2> QED BY <1>1, <2>1
<1>5. after.held \in [Instruments -> Positions]
  <2>1. \A x \in Instruments : after.held[x] \in Positions
    BY <1>3, <1>4 DEF Instruments
  <2> QED BY <1>1, <2>1
<1> QED BY <1>1, <1>2, <1>3, <1>4, <1>5 DEF after

\* What settling a contract leaves.
LEMMA ExercisedIs ==
  ASSUME NEW cash \in Int, NEW held \in [Instruments -> Positions], NEW c \in Contracts,
         NEW under \in Int
  PROVE  LET after  == Exercised(cash, held, c, under)
             root   == Term[c].root
             shares == (IF Term[c].call THEN 1 ELSE -1) * held[c].qty * Multiplier
         IN /\ after.cash \in Int /\ after.held \in [Instruments -> Positions]
            /\ root \in Roots /\ root # c /\ shares \in Int /\ Term[c].strike \in Int
            /\ after.cash = IF Intrinsic(c, under) > 0 THEN cash - Term[c].strike * shares ELSE cash
            /\ after.held[c] = NoPosition
            /\ after.held[root] = IF Intrinsic(c, under) > 0
                                  THEN Adjusted(held[root], shares, Term[c].strike) ELSE held[root]
            /\ \A x \in Instruments \ {c, root} : after.held[x] = held[x]
<1> DEFINE after  == Exercised(cash, held, c, under)
           root   == Term[c].root
           shares == (IF Term[c].call THEN 1 ELSE -1) * held[c].qty * Multiplier
           moved  == Adjusted(held[root], shares, Term[c].strike)
           worth  == Intrinsic(c, under) > 0
<1>1. /\ after.cash = IF worth THEN cash - Term[c].strike * shares ELSE cash
      /\ after.held = [held EXCEPT ![c] = NoPosition, ![root] = IF worth
                         THEN Adjusted(@, shares, Term[c].strike) ELSE @]
  BY DEF Exercised
<1>2. /\ c \in Instruments /\ root \in Instruments /\ root \in Roots /\ root # c
      /\ held[c] \in Positions /\ held[root] \in Positions /\ Term[c].strike \in Int
  BY RiskAssumption, ValuationAssumption DEF Instruments
<1>3. shares \in Int
  <2>1. held[c].qty \in Int /\ Multiplier \in Int
    BY <1>2, RiskAssumption DEF Positions
  <2> QED BY <2>1
<1>4. moved \in Positions /\ NoPosition \in Positions
  <2>1. NoPosition \in Positions
    BY DEF NoPosition, Positions, Whole, Fractions
  <2> HIDE DEF shares
  <2> QED BY <1>2, <1>3, <2>1, AdjustedIs
<1> HIDE DEF after, shares, worth
<1>5. /\ after.held[c] = NoPosition /\ after.held[root] = IF worth THEN moved ELSE held[root]
      /\ \A x \in Instruments \ {c, root} : after.held[x] = held[x]
      /\ DOMAIN after.held = Instruments
      /\ after.held = [x \in Instruments |-> after.held[x]]
  BY <1>1, <1>2
<1> HIDE DEF root, moved
<1>6. after.held \in [Instruments -> Positions]
  BY <1>2, <1>4, <1>5
<1>7. after.cash \in Int
  <2>1. Term[c].strike * shares \in Int
    BY <1>2, <1>3
  <2> QED BY <1>1, <2>1
<1> QED BY <1>1, <1>2, <1>3, <1>5, <1>6, <1>7 DEF after, shares, worth, root, moved

Wallets ==
  [cash : Int, held : [Instruments -> Positions], mark : [Roots -> Int],
   day : Int, made : Fractions, fees : Int]

\* A new account.
LEMMA WalletFirst == Init => WalletIsReadable
<1> SUFFICES ASSUME Init PROVE WalletIsReadable
  OBVIOUS
<1>1. wallet = Nothing \/ wallet = NewWallet
  BY DEF Init
<1>2. NoPosition \in Positions /\ Whole(0) \in Fractions
  BY DEF NoPosition, Positions, Whole, Fractions
<1>3. NewWallet \in Wallets
  <2>1. Start \in Int
    BY ArithmeticAssumption
  <2> QED BY <1>2, <2>1 DEF NewWallet, Wallets
<1> QED BY <1>1, <1>3 DEF WalletIsReadable, Wallets

\* A price is remembered.
LEMMA WalletRemembers ==
  ASSUME wallet \in Wallets, Remembers
  PROVE  wallet' \in Wallets
<1>1. PICK m \in Readings :
        wallet' = [wallet EXCEPT !.mark = [r \in Roots |->
          IF wallet.held[r].qty # 0 /\ TwiceMark(m[r]) > 0 THEN TwiceMark(m[r]) \div 2 ELSE @[r]]]
  BY DEF Remembers
<1>2. IsReading(m)
  BY ArithmeticAssumption
<1>3. ASSUME NEW r \in Roots PROVE TwiceMark(m[r]) \div 2 \in Int /\ wallet.mark[r] \in Int
  <2>1. TwiceMark(m[r]) \in Int
    BY <1>2 DEF IsReading, IsQuote, TwiceMark, Instruments
  <2> QED BY <2>1 DEF Wallets
<1> QED BY <1>1, <1>3 DEF Wallets

\* A fill.
LEMMA WalletTrades ==
  ASSUME wallet \in Wallets, Trade
  PROVE  \E t \in Trades, m \in Readings :
           LET after == Traded(wallet.cash, wallet.held, t.legs, t.sets, m)
               made  == [c \in Contracts |-> ClosedAt(wallet.held[c], t.legs[c] * t.sets,
                                                     Side(m[c], t.legs[c] > 0), Multiplier)]
           IN /\ IsTrade(t) /\ IsReading(m)
              /\ wallet' = [wallet EXCEPT
                   !.cash = after.cash, !.held = after.held,
                   !.made = Sum2(@, TotalOf(made, Contracts)),
                   !.fees = @ + ContractsIn(t.legs, t.sets) * PerContract]
              /\ \A c \in Contracts : made[c] \in Fractions
              /\ TotalOf(made, Contracts) \in Fractions
              /\ wallet' \in Wallets
<1>1. PICK t \in Trades, m \in Readings :
        LET after == Traded(wallet.cash, wallet.held, t.legs, t.sets, m)
            made  == [c \in Contracts |-> ClosedAt(wallet.held[c], t.legs[c] * t.sets,
                                                  Side(m[c], t.legs[c] > 0), Multiplier)]
        IN wallet' = [wallet EXCEPT
             !.cash = after.cash, !.held = after.held,
             !.made = Sum2(@, TotalOf(made, Contracts)),
             !.fees = @ + ContractsIn(t.legs, t.sets) * PerContract]
  BY DEF Trade
<1> DEFINE after == Traded(wallet.cash, wallet.held, t.legs, t.sets, m)
           made  == [c \in Contracts |-> ClosedAt(wallet.held[c], t.legs[c] * t.sets,
                                                 Side(m[c], t.legs[c] > 0), Multiplier)]
<1>2. IsTrade(t) /\ IsReading(m)
  BY ArithmeticAssumption
<1>3. wallet.cash \in Int /\ wallet.held \in [Instruments -> Positions] /\ wallet.made \in Fractions
      /\ wallet.fees \in Int
  BY DEF Wallets
<1>4. after.cash \in Int /\ after.held \in [Instruments -> Positions]
  <2>1. t.legs \in Holdings /\ t.sets \in Nat
    BY <1>2 DEF IsTrade
  <2> QED BY <1>2, <1>3, <2>1, TradedIs
<1>5. ASSUME NEW c \in Contracts PROVE made[c] \in Fractions
  <2>1. wallet.held[c] \in Positions
    BY <1>3 DEF Instruments
  <2>2. /\ t.sets \in Nat /\ \A d \in Contracts : t.legs[d] \in Int
        /\ \A d \in Contracts : Side(m[d], t.legs[d] > 0) \in Int
    <3>1. t.legs \in Holdings /\ t.sets \in Nat
      BY <1>2 DEF IsTrade
    <3> QED BY <1>2, <3>1, SetPriceIs
  <2>3. t.legs[c] * t.sets \in Int
    <3>1. t.legs[c] \in Int /\ t.sets \in Int
      BY <2>2
    <3>2. \A a, b \in Int : a * b \in Int
      OBVIOUS
    <3> QED BY <3>1, <3>2
  <2>4. Side(m[c], t.legs[c] > 0) \in Int /\ Multiplier \in Int
    BY <2>2, RiskAssumption
  <2>5. made[c] = ClosedAt(wallet.held[c], t.legs[c] * t.sets, Side(m[c], t.legs[c] > 0), Multiplier)
    OBVIOUS
  <2> QED BY <2>1, <2>3, <2>4, <2>5, ClosedAtIs
<1>6. IsFiniteSet(Contracts)
  BY RiskAssumption
<1> HIDE DEF after, made
<1>7. TotalOf(made, Contracts) \in Fractions
  BY <1>5, <1>6, CommonOf
<1>8. Sum2(wallet.made, TotalOf(made, Contracts)) \in Fractions
  <2>1. 0 \in Int
    OBVIOUS
  <2> QED BY <1>3, <1>7, <2>1, FractionsAre
<1>9. wallet.fees + ContractsIn(t.legs, t.sets) * PerContract \in Int
  <2>1. ContractsIn(t.legs, t.sets) \in Nat
    <3>1. t.legs \in Holdings /\ t.sets \in Nat
      BY <1>2 DEF IsTrade
    <3> QED BY <1>2, <3>1, SetPriceIs
  <2>2. PerContract \in Nat
    BY ValuationAssumption
  <2>3. ContractsIn(t.legs, t.sets) * PerContract \in Int
    BY <2>1, <2>2
  <2> QED BY <1>3, <2>3
<1>10. wallet' = [wallet EXCEPT
         !.cash = after.cash, !.held = after.held,
         !.made = Sum2(@, TotalOf(made, Contracts)),
         !.fees = @ + ContractsIn(t.legs, t.sets) * PerContract]
  BY <1>1 DEF after, made
<1>11. wallet' \in Wallets
  BY <1>4, <1>8, <1>9, <1>10 DEF Wallets
<1> QED BY <1>2, <1>5, <1>7, <1>10, <1>11 DEF after, made

\* A settlement.
LEMMA WalletSettles ==
  ASSUME wallet \in Wallets, Settles
  PROVE  \E c \in Contracts, under \in Ends :
           LET after  == Exercised(wallet.cash, wallet.held, c, under)
               root   == Term[c].root
               turned == (IF Term[c].call THEN 1 ELSE -1) * wallet.held[c].qty * Multiplier
               closed == ClosedAt(wallet.held[c], -wallet.held[c].qty, 0, Multiplier)
               given  == IF Intrinsic(c, under) = 0 THEN Whole(0)
                         ELSE ClosedAt(wallet.held[root], turned, Term[c].strike, 1)
           IN /\ under \in Int
              /\ wallet'.cash = after.cash /\ wallet'.held = after.held
              /\ wallet'.made = Sum2(Sum2(wallet.made, closed), given)
              /\ wallet'.fees = wallet.fees
              /\ closed \in Fractions /\ given \in Fractions
              /\ wallet' \in Wallets
<1>1. PICK c \in Held(Bare(wallet.held)), under \in Ends :
        LET after  == Exercised(wallet.cash, wallet.held, c, under)
            root   == Term[c].root
            turned == (IF Term[c].call THEN 1 ELSE -1) * wallet.held[c].qty * Multiplier
        IN wallet' = [wallet EXCEPT
             !.cash = after.cash, !.held = after.held, !.day = Max({@, Term[c].expiry}),
             !.mark[root] = IF after.held[root].qty = 0 THEN 0
                            ELSE IF Intrinsic(c, under) > 0 THEN under ELSE @,
             !.made = Sum2(Sum2(@, ClosedAt(wallet.held[c], -wallet.held[c].qty, 0, Multiplier)),
                           IF Intrinsic(c, under) = 0 THEN Whole(0)
                           ELSE ClosedAt(wallet.held[root], turned, Term[c].strike, 1))]
  BY DEF Settles
<1> DEFINE after  == Exercised(wallet.cash, wallet.held, c, under)
           root   == Term[c].root
           turned == (IF Term[c].call THEN 1 ELSE -1) * wallet.held[c].qty * Multiplier
           closed == ClosedAt(wallet.held[c], -wallet.held[c].qty, 0, Multiplier)
           given  == IF Intrinsic(c, under) = 0 THEN Whole(0)
                     ELSE ClosedAt(wallet.held[root], turned, Term[c].strike, 1)
           mark   == IF after.held[root].qty = 0 THEN 0
                     ELSE IF Intrinsic(c, under) > 0 THEN under ELSE wallet.mark[root]
           day    == Max({wallet.day, Term[c].expiry})
<1>2. c \in Contracts /\ under \in Int
  BY ArithmeticAssumption DEF Held
<1>3. /\ wallet.cash \in Int /\ wallet.held \in [Instruments -> Positions] /\ wallet.made \in Fractions
      /\ wallet.fees \in Int /\ wallet.day \in Int /\ wallet.mark \in [Roots -> Int]
  BY DEF Wallets
<1>4. /\ after.cash \in Int /\ after.held \in [Instruments -> Positions]
      /\ root \in Roots /\ turned \in Int /\ Term[c].strike \in Int
  BY <1>2, <1>3, ExercisedIs
<1>5. closed \in Fractions
  <2>1. wallet.held[c] \in Positions
    BY <1>2, <1>3 DEF Instruments
  <2>2. -wallet.held[c].qty \in Int /\ Multiplier \in Int /\ 0 \in Int
    BY <2>1, RiskAssumption DEF Positions
  <2> QED BY <2>1, <2>2, ClosedAtIs
<1>6. given \in Fractions
  <2>1. wallet.held[root] \in Positions
    BY <1>3, <1>4 DEF Instruments
  <2>2. 1 \in Int /\ Whole(0) \in Fractions
    BY DEF Whole, Fractions
  <2> HIDE DEF root, turned
  <2>3. ClosedAt(wallet.held[root], turned, Term[c].strike, 1) \in Fractions
    BY <1>4, <2>1, <2>2, ClosedAtIs
  <2> QED BY <2>2, <2>3
<1>7. mark \in Int
  BY <1>2, <1>3, <1>4
<1>8. day \in Int
  <2>1. Term[c].expiry \in Int
    BY <1>2, RiskAssumption
  <2> QED BY <1>3, <2>1, MaxOfTwo
<1>9. wallet' = [wallet EXCEPT
        !.cash = after.cash, !.held = after.held, !.day = day,
        !.mark = [wallet.mark EXCEPT ![root] = mark],
        !.made = Sum2(Sum2(wallet.made, closed), given)]
  BY <1>1 DEF Wallets
<1> HIDE DEF after, root, turned, closed, given, mark, day
<1>10. Sum2(Sum2(wallet.made, closed), given) \in Fractions
  <2>1. 0 \in Int
    OBVIOUS
  <2> QED BY <1>3, <1>5, <1>6, <2>1, FractionsAre
<1>11. [wallet.mark EXCEPT ![root] = mark] \in [Roots -> Int]
  BY <1>3, <1>4, <1>7
<1>12. wallet' \in Wallets
  BY <1>4, <1>8, <1>9, <1>10, <1>11 DEF Wallets
<1>13. /\ wallet'.cash = after.cash /\ wallet'.held = after.held
       /\ wallet'.made = Sum2(Sum2(wallet.made, closed), given)
       /\ wallet'.fees = wallet.fees
  BY <1>9 DEF Wallets
<1> QED BY <1>2, <1>5, <1>6, <1>12, <1>13 DEF after, root, turned, closed, given

\* Every step keeps the account readable.
LEMMA WalletNext == WalletIsReadable /\ [Next]_vars => WalletIsReadable'
<1> SUFFICES ASSUME WalletIsReadable, [Next]_vars, wallet' # Nothing PROVE wallet' \in Wallets
  BY DEF WalletIsReadable, Wallets
<1>1. wallet # Nothing => wallet \in Wallets
  BY DEF WalletIsReadable, Wallets
<1>2. CASE Remembers
  <2>1. wallet # Nothing
    BY <1>2 DEF Remembers
  <2> QED BY <1>1, <1>2, <2>1, WalletRemembers
<1>3. CASE Trade
  <2>1. wallet # Nothing
    BY <1>3 DEF Trade
  <2> QED BY <1>1, <1>3, <2>1, WalletTrades
<1>4. CASE Settles
  <2>1. wallet # Nothing
    BY <1>4 DEF Settles
  <2> QED BY <1>1, <1>4, <2>1, WalletSettles
<1>5. CASE FillsPart \/ TimePasses \/ Pass \/ UNCHANGED vars
  <2>1. wallet' = wallet
    BY <1>5 DEF FillsPart, TimePasses, Pass, vars
  <2> QED BY <1>1, <2>1
<1> QED BY <1>2, <1>3, <1>4, <1>5 DEF Next

\* Whatever it trades and settles, every amount of an account stays a number.
LEMMA WalletReadable == Spec => []WalletIsReadable
<1> QED BY WalletFirst, WalletNext, PTL DEF Spec

-----------------------------------------------------------------------------
(* What an account shows.                                                  *)

Twice(held, m) == [x \in Instruments |-> TwiceMark(m[x]) * held[x].qty * SizeOf(x)]
Now(held, m)   ==
  [x \in Instruments |-> Liquidation(m[x], held[x].qty > 0) * held[x].qty * SizeOf(x)]

\* The signs of a product.
LEMMA Signs ==
  ASSUME NEW x \in Int, NEW y \in Int
  PROVE  /\ x >= 0 /\ y >= 0 => x * y >= 0
         /\ x >= 0 /\ y <= 0 => x * y <= 0
         /\ x <= 0 /\ y >= 0 => x * y <= 0
         /\ x <= 0 /\ y <= 0 => x * y >= 0
         /\ x * y \in Int
<1>1. ASSUME NEW a \in Int, NEW b \in Int, a >= 0, b >= 0 PROVE a * b >= 0
  <2>1. a \in Nat /\ b \in Nat
    BY <1>1
  <2> QED BY <2>1
<1>2. (-x) * y = -(x * y) /\ x * (-y) = -(x * y) /\ (-x) * (-y) = x * y
  OBVIOUS
<1>3. x >= 0 /\ y <= 0 => x * (-y) >= 0
  BY <1>1
<1>4. x <= 0 /\ y >= 0 => (-x) * y >= 0
  BY <1>1
<1>5. x <= 0 /\ y <= 0 => (-x) * (-y) >= 0
  BY <1>1
<1>6. x * y \in Int
  OBVIOUS
<1> QED BY <1>1, <1>2, <1>3, <1>4, <1>5, <1>6

\* What a position is worth, in the middle of the market and closed.
LEMMA WorthsAre ==
  ASSUME NEW held \in [Instruments -> Positions], NEW m, IsReading(m)
  PROVE  \A x \in Instruments :
           /\ held[x].qty \in Int /\ m[x].bid \in Int /\ m[x].ask \in Int /\ SizeOf(x) \in Nat \ {0}
           /\ Twice(held, m)[x] \in Int /\ Now(held, m)[x] \in Int
           /\ Twice(held, m)[x] = (m[x].bid + m[x].ask) * held[x].qty * SizeOf(x)
           /\ Now(held, m)[x] =
                (IF held[x].qty > 0 THEN m[x].bid ELSE m[x].ask) * held[x].qty * SizeOf(x)
           /\ held[x].qty = 0 => Twice(held, m)[x] = 0 /\ Now(held, m)[x] = 0
<1> DEFINE twice == Twice(held, m)
           now   == Now(held, m)
<1> SUFFICES ASSUME NEW x \in Instruments
             PROVE  /\ held[x].qty \in Int /\ m[x].bid \in Int /\ m[x].ask \in Int
                    /\ SizeOf(x) \in Nat \ {0}
                    /\ twice[x] \in Int /\ now[x] \in Int
                    /\ twice[x] = (m[x].bid + m[x].ask) * held[x].qty * SizeOf(x)
                    /\ now[x] = (IF held[x].qty > 0 THEN m[x].bid ELSE m[x].ask) * held[x].qty * SizeOf(x)
                    /\ held[x].qty = 0 => twice[x] = 0 /\ now[x] = 0
  OBVIOUS
<1>1. held[x].qty \in Int /\ m[x].bid \in Int /\ m[x].ask \in Int /\ SizeOf(x) \in Nat \ {0}
  BY RiskAssumption DEF Positions, IsReading, IsQuote, SizeOf
<1>2. twice[x] = (m[x].bid + m[x].ask) * held[x].qty * SizeOf(x)
  BY DEF Twice, TwiceMark
<1>3. now[x] = (IF held[x].qty > 0 THEN m[x].bid ELSE m[x].ask) * held[x].qty * SizeOf(x)
  BY DEF Now, Liquidation, Side
<1>4. \A a, b, c \in Int : a * b * c \in Int /\ (b = 0 => a * b * c = 0)
  OBVIOUS
<1>5. m[x].bid + m[x].ask \in Int /\ (IF held[x].qty > 0 THEN m[x].bid ELSE m[x].ask) \in Int
      /\ SizeOf(x) \in Int
  BY <1>1
<1> HIDE DEF twice, now
<1>6. twice[x] \in Int /\ now[x] \in Int /\ (held[x].qty = 0 => twice[x] = 0 /\ now[x] = 0)
  BY <1>1, <1>2, <1>3, <1>4, <1>5
<1> QED BY <1>1, <1>2, <1>3, <1>6

\* What is shown is added up over all instruments: one that is not held adds nothing.
LEMMA ShownIs ==
  ASSUME NEW cash \in Int, NEW held \in [Instruments -> Positions], NEW mark, NEW m, IsReading(m)
  PROVE  /\ IsFiniteSet(Instruments)
         /\ SumFunctionOnSet(Twice(held, m), Instruments) \in Int
         /\ SumFunctionOnSet(Now(held, m), Instruments) \in Int
         /\ Account(cash, held, m, mark).equity = 2 * cash + SumFunctionOnSet(Twice(held, m), Instruments)
         /\ Account(cash, held, m, mark).liquidation =
              2 * (cash + SumFunctionOnSet(Now(held, m), Instruments))
         /\ Account(cash, held, m, mark).power = Power(cash, held, mark)
<1> DEFINE all   == {x \in Instruments : held[x].qty # 0}
           twice == Twice(held, m)
           now   == Now(held, m)
<1>1. IsFiniteSet(Instruments)
  BY RiskAssumption, FS_Union DEF Instruments
<1>2. \A x \in Instruments : /\ twice[x] \in Int /\ now[x] \in Int
                             /\ held[x].qty = 0 => twice[x] = 0 /\ now[x] = 0
  BY WorthsAre
<1>3. all \subseteq Instruments /\ \A x \in Instruments \ all : twice[x] = 0 /\ now[x] = 0
  BY <1>2
<1>4. Account(cash, held, m, mark).equity = 2 * cash + SumFunctionOnSet(twice, all)
  BY DEF Account, Valued, Twice
<1>5. Account(cash, held, m, mark).liquidation = 2 * (cash + SumFunctionOnSet(now, all))
  BY DEF Account, Valued, Now
<1>6. Account(cash, held, m, mark).power = Power(cash, held, mark)
  BY DEF Account
<1> HIDE DEF all, twice, now
<1>7. /\ SumFunctionOnSet(twice, Instruments) = SumFunctionOnSet(twice, all)
      /\ SumFunctionOnSet(now, Instruments) = SumFunctionOnSet(now, all)
  BY <1>1, <1>2, <1>3, SumPadded
<1>8. SumFunctionOnSet(twice, Instruments) \in Int /\ SumFunctionOnSet(now, Instruments) \in Int
  BY <1>1, <1>2, SumIsInt
<1> QED BY <1>1, <1>4, <1>5, <1>6, <1>7, <1>8 DEF twice, now

\* Values that rise with every contract by no more than k times what it cost rise, in all,
\* by no more than k times the price of the set.
LEMMA RiseByPrice ==
  ASSUME NEW F, NEW G, \A x \in Instruments : F[x] \in Int /\ G[x] \in Int,
         NEW legs \in Holdings, NEW m, IsReading(m), NEW k \in Int,
         \A c \in Contracts : G[c] <= F[c] + k * (legs[c] * Side(m[c], legs[c] > 0)),
         \A r \in Roots : G[r] <= F[r]
  PROVE  SumFunctionOnSet(G, Instruments) <= SumFunctionOnSet(F, Instruments) + k * SetPrice(legs, m)
<1> DEFINE cost == [c \in Contracts |-> legs[c] * Side(m[c], legs[c] > 0)]
           E    == [x \in Instruments |-> IF x \in Contracts THEN k * cost[x] ELSE 0]
           H    == [x \in Instruments |-> F[x] + E[x]]
<1>1. IsFiniteSet(Instruments) /\ IsFiniteSet(Contracts) /\ Contracts \subseteq Instruments
  BY RiskAssumption, FS_Union DEF Instruments
<1>2. 0 \in Nat /\ \A c \in Contracts : legs[c] \in Int /\ Side(m[c], legs[c] > 0) \in Int
  <2>1. 0 \in Nat
    OBVIOUS
  <2> QED BY <2>1, SetPriceIs
<1>3. \A c \in Contracts : cost[c] = legs[c] * Side(m[c], legs[c] > 0) /\ cost[c] \in Int
                             /\ k * cost[c] \in Int
  <2>1. \A x, y \in Int : x * y \in Int
    OBVIOUS
  <2> QED BY <1>2, <2>1
<1>4. SetPrice(legs, m) = SumFunctionOnSet(cost, Contracts) /\ SetPrice(legs, m) \in Int
  BY <1>2, SetPriceIs
<1> HIDE DEF cost
<1>5. \A x \in Instruments :
        /\ E[x] \in Int /\ F[x] \in Int /\ G[x] \in Int /\ H[x] = F[x] + E[x]
        /\ x \in Contracts => E[x] = k * cost[x]
        /\ x \notin Contracts => E[x] = 0
  BY <1>3
<1> HIDE DEF E, H
<1>6. \A x \in Instruments : G[x] <= H[x] /\ H[x] \in Int
  <2> SUFFICES ASSUME NEW x \in Instruments PROVE G[x] <= H[x] /\ H[x] \in Int
    OBVIOUS
  <2>1. CASE x \in Contracts
    <3>1. G[x] <= F[x] + k * cost[x] /\ E[x] = k * cost[x]
      BY <1>3, <1>5, <2>1
    <3> QED BY <1>5, <3>1
  <2>2. CASE x \notin Contracts
    <3>1. x \in Roots /\ E[x] = 0
      BY <1>5, <2>2 DEF Instruments
    <3> QED BY <1>5, <3>1
  <2> QED BY <2>1, <2>2
<1>7. SumFunctionOnSet(G, Instruments) <= SumFunctionOnSet(H, Instruments)
  BY <1>1, <1>5, <1>6, SumIsMonotone
<1>8. SumFunctionOnSet(H, Instruments) =
        SumFunctionOnSet(F, Instruments) + SumFunctionOnSet(E, Instruments)
  BY <1>1, <1>5, SumOfSums
<1>9. SumFunctionOnSet(E, Instruments) = SumFunctionOnSet(E, Contracts)
  BY <1>1, <1>5, SumPadded
<1>10. SumFunctionOnSet(E, Contracts) = k * SumFunctionOnSet(cost, Contracts)
  <2>1. \A c \in Contracts : cost[c] \in Int /\ E[c] = k * cost[c]
    BY <1>1, <1>3, <1>5
  <2> QED BY <1>1, <2>1, SumScaled
<1>11. SumFunctionOnSet(F, Instruments) \in Int
  BY <1>1, <1>5, SumIsInt
<1> QED BY <1>4, <1>7, <1>8, <1>9, <1>10, <1>11

\* A fill at quotes that are not crossed: bought at the ask and sold to the bid, neither
\* the middle of the market nor what closing fetches makes more of it than was paid.
LEMMA QuoteGivesNothing ==
  ASSUME NEW bid \in Int, NEW ask \in Int, NEW q \in Int, NEW d \in Int,
         d # 0 => bid <= ask
  PROVE  LET side == IF d > 0 THEN ask ELSE bid
             now(n) == (IF n > 0 THEN bid ELSE ask) * n
         IN /\ (bid + ask) * (q + d) <= (bid + ask) * q + 2 * (d * side)
            /\ now(q + d) <= now(q) + d * side
<1> DEFINE side == IF d > 0 THEN ask ELSE bid
           now(n) == (IF n > 0 THEN bid ELSE ask) * n
<1>1. CASE d = 0
  <2>1. side = bid /\ 0 * bid = 0 /\ q + d = q
    BY <1>1
  <2>2. (bid + ask) * q \in Int /\ now(q) \in Int
    BY Signs
  <2> QED BY <1>1, <2>1, <2>2
<1>2. CASE d # 0
  <2>1. bid <= ask /\ side \in Int
    BY <1>2
  <2>2. d * (bid + ask - 2 * side) <= 0
    <3>1. CASE d > 0
      <4>1. bid + ask - 2 * side <= 0 /\ bid + ask - 2 * side \in Int
        BY <2>1, <3>1
      <4> HIDE DEF side
      <4> QED BY <3>1, <4>1, Signs
    <3>2. CASE d < 0
      <4>1. bid + ask - 2 * side >= 0 /\ bid + ask - 2 * side \in Int
        BY <2>1, <3>2
      <4> HIDE DEF side
      <4> QED BY <3>2, <4>1, Signs
    <3> QED BY <1>2, <3>1, <3>2
  <2>3. (bid + ask) * (q + d) <= (bid + ask) * q + 2 * (d * side)
    <3> HIDE DEF side
    <3>1. d * (bid + ask - 2 * side) = d * (bid + ask) - 2 * (d * side)
      BY <2>1
    <3>2. (bid + ask) * (q + d) = (bid + ask) * q + d * (bid + ask)
      OBVIOUS
    <3>3. d * side \in Int /\ d * (bid + ask) \in Int /\ (bid + ask) * q \in Int
      BY <2>1, Signs
    <3> QED BY <2>2, <3>1, <3>2, <3>3
  <2>4. ASSUME NEW n \in Int
        PROVE  now(n) <= bid * n /\ now(n) <= ask * n /\ now(n) \in Int
    <3>1. (ask - bid) * n = ask * n - bid * n /\ ask * n \in Int /\ bid * n \in Int
      BY Signs
    <3>2. CASE n > 0
      <4>1. (ask - bid) * n >= 0
        BY <2>1, <3>2, Signs
      <4> QED BY <3>1, <3>2, <4>1
    <3>3. CASE ~(n > 0)
      <4>1. (ask - bid) * n <= 0
        BY <2>1, <3>3, Signs
      <4> QED BY <3>1, <3>3, <4>1
    <3> QED BY <3>2, <3>3
  <2>5. bid * d <= d * side /\ ask * d <= d * side /\ d * side \in Int
    <3>1. (ask - bid) * d = ask * d - bid * d /\ ask * d \in Int /\ bid * d \in Int
      BY Signs
    <3>2. CASE d > 0
      <4>1. (ask - bid) * d >= 0 /\ d * side = ask * d
        BY <2>1, <3>2, Signs
      <4> QED BY <3>1, <4>1
    <3>3. CASE d < 0
      <4>1. (ask - bid) * d <= 0 /\ d * side = bid * d
        BY <2>1, <3>3, Signs
      <4> QED BY <3>1, <4>1
    <3> QED BY <1>2, <3>2, <3>3
  <2>6. now(q + d) <= now(q) + d * side
    <3>1. q + d \in Int /\ bid * (q + d) = bid * q + bid * d /\ ask * (q + d) = ask * q + ask * d
      OBVIOUS
    <3>2. bid * q \in Int /\ ask * q \in Int /\ bid * d \in Int /\ ask * d \in Int
      BY Signs
    <3>3. now(q + d) <= bid * (q + d) /\ now(q + d) <= ask * (q + d) /\ now(q + d) \in Int
      BY <2>4, <3>1
    <3>4. now(q) = bid * q \/ now(q) = ask * q
      OBVIOUS
    <3> HIDE DEF now, side
    <3> QED BY <2>5, <3>1, <3>2, <3>3, <3>4
  <2> QED BY <2>3, <2>6
<1> QED BY <1>1, <1>2

\* An order that can fill pays no crossed quote.
LEMMA NoneCrossed ==
  ASSUME NEW legs \in Holdings, NEW m, IsReading(m), Executable(legs, m, FALSE),
         \A c \in Contracts : legs[c] < 0 => m[c].ask > 0
  PROVE  \A c \in Contracts : legs[c] # 0 => m[c].bid <= m[c].ask
<1> SUFFICES ASSUME NEW c \in Contracts, legs[c] # 0 PROVE m[c].bid <= m[c].ask
  OBVIOUS
<1>1. legs[c] \in Int /\ m[c].bid \in Int /\ m[c].ask \in Int
  BY DEF Holdings, IsReading, IsQuote, Instruments
<1>2. /\ ~(m[c].bid > 0 /\ m[c].ask > 0 /\ m[c].bid > m[c].ask)
      /\ IF legs[c] > 0 THEN m[c].ask > 0 ELSE m[c].bid > 0
  BY DEF Executable
<1> QED BY <1>1, <1>2

\* match.go: filling hands out nothing.
LEMMA FillGivesNothing ==
  ASSUME NEW cash \in Int, NEW held \in [Instruments -> Positions], NEW mark,
         NEW t, IsTrade(t), NEW m, IsReading(m), Executable(t.legs, m, FALSE),
         \A c \in Contracts : t.legs[c] < 0 => m[c].ask > 0
  PROVE  LET after == Traded(cash, held, t.legs, t.sets, m)
             then  == Account(after.cash, after.held, m, mark)
             now   == Account(cash, held, m, mark)
         IN then.equity <= now.equity /\ then.liquidation <= now.liquidation
<1> DEFINE after == Traded(cash, held, t.legs, t.sets, m)
           k     == Multiplier * t.sets
           price == SetPrice(t.legs, m)
           fees  == ContractsIn(t.legs, t.sets) * PerContract
<1>1. t.legs \in Holdings /\ t.sets \in Nat
  BY DEF IsTrade
<1>2. /\ after.cash \in Int /\ after.held \in [Instruments -> Positions]
      /\ after.cash = cash - price * t.sets * Multiplier - fees
      /\ \A c \in Contracts : after.held[c].qty = held[c].qty + t.legs[c] * t.sets
      /\ \A r \in Roots : after.held[r] = held[r]
  BY <1>1, TradedIs
<1>3. price \in Int /\ ContractsIn(t.legs, t.sets) \in Nat
  BY <1>1, SetPriceIs
<1>4. k \in Nat /\ PerContract \in Nat /\ Multiplier \in Nat \ {0}
  BY <1>1, RiskAssumption, ValuationAssumption
<1>5. fees \in Nat
  <2>1. \A x, y \in Nat : x * y \in Nat
    OBVIOUS
  <2> QED BY <1>3, <1>4, <2>1
<1>6. price * t.sets * Multiplier = k * price
  BY <1>1, <1>3, <1>4
<1> HIDE DEF after, price, fees
<1>7. ASSUME NEW c \in Contracts
      PROVE  /\ Twice(after.held, m)[c]
                  <= Twice(held, m)[c] + (2 * k) * (t.legs[c] * Side(m[c], t.legs[c] > 0))
             /\ Now(after.held, m)[c]
                  <= Now(held, m)[c] + k * (t.legs[c] * Side(m[c], t.legs[c] > 0))
  <2> DEFINE q    == held[c].qty
             d    == t.legs[c] * t.sets
             bid  == m[c].bid
             ask  == m[c].ask
             side == Side(m[c], t.legs[c] > 0)
             now(n) == (IF n > 0 THEN bid ELSE ask) * n
             M    == Multiplier
  <2>1. c \in Instruments /\ SizeOf(c) = M
    BY DEF SizeOf, Instruments
  <2>2. /\ q \in Int /\ bid \in Int /\ ask \in Int
        /\ Twice(held, m)[c] = (bid + ask) * q * M
        /\ Now(held, m)[c] = (IF q > 0 THEN bid ELSE ask) * q * M
    BY <2>1, WorthsAre
  <2>3. /\ Twice(after.held, m)[c] = (bid + ask) * (q + d) * M
        /\ Now(after.held, m)[c] = (IF q + d > 0 THEN bid ELSE ask) * (q + d) * M
    <3>1. after.held[c].qty = q + d
      BY <1>2
    <3>2. /\ Twice(after.held, m)[c] = (bid + ask) * after.held[c].qty * M
          /\ Now(after.held, m)[c] =
               (IF after.held[c].qty > 0 THEN bid ELSE ask) * after.held[c].qty * M
      <4>1. \A x \in Instruments :
              /\ Twice(after.held, m)[x] = (m[x].bid + m[x].ask) * after.held[x].qty * SizeOf(x)
              /\ Now(after.held, m)[x] =
                   (IF after.held[x].qty > 0 THEN m[x].bid ELSE m[x].ask) * after.held[x].qty * SizeOf(x)
        <5>1. after.cash \in Int /\ after.held \in [Instruments -> Positions]
          BY <1>2
        <5> QED BY <5>1, WorthsAre
      <4> QED BY <2>1, <4>1
    <3> QED BY <3>1, <3>2
  <2>4. t.legs[c] \in Int /\ d \in Int /\ t.sets \in Nat \ {0}
    <3>1. t.legs[c] \in Int /\ t.sets \in Nat \ {0}
      BY <1>1 DEF IsTrade, Holdings
    <3> QED BY <3>1, Signs
  <2>5. (d > 0 <=> t.legs[c] > 0) /\ (d = 0 <=> t.legs[c] = 0)
    <3>1. CASE t.legs[c] = 0
      BY <2>4, <3>1
    <3>2. CASE t.legs[c] > 0
      <4>1. d >= 1
        <5>1. \A x, y \in Nat \ {0} : x * y \in Nat \ {0}
          OBVIOUS
        <5> QED BY <2>4, <3>2, <5>1
      <4> QED BY <2>4, <3>2, <4>1
    <3>3. CASE t.legs[c] < 0
      <4>1. -d >= 1
        <5>1. \A x, y \in Nat \ {0} : x * y \in Nat \ {0}
          OBVIOUS
        <5>2. (-t.legs[c]) * t.sets \in Nat \ {0}
          BY <2>4, <3>3, <5>1
        <5>3. (-t.legs[c]) * t.sets = -d
          BY <2>4
        <5> QED BY <2>4, <5>2, <5>3
      <4> QED BY <2>4, <3>3, <4>1
    <3> QED BY <2>4, <3>1, <3>2, <3>3
  <2>6. side = (IF d > 0 THEN ask ELSE bid) /\ (d # 0 => bid <= ask) /\ side \in Int
    BY <1>1, <2>2, <2>5, NoneCrossed DEF Side
  <2> HIDE DEF q, d, bid, ask, side
  <2>7. /\ (bid + ask) * (q + d) <= (bid + ask) * q + 2 * (d * side)
        /\ now(q + d) <= now(q) + d * side
    BY <2>2, <2>4, <2>6, QuoteGivesNothing
  <2>8. /\ (bid + ask) * (q + d) \in Int /\ (bid + ask) * q \in Int /\ d * side \in Int
        /\ now(q + d) \in Int /\ now(q) \in Int
    BY <2>2, <2>4, <2>6, Signs
  <2> DEFINE a1 == (bid + ask) * (q + d)
             a0 == (bid + ask) * q
             n1 == now(q + d)
             n0 == now(q)
             p  == d * side
  <2>9. M \in Nat
    BY <1>4
  <2>10. k * (t.legs[c] * side) = p * M /\ (2 * k) * (t.legs[c] * side) = 2 * p * M
    BY <1>1, <1>4, <2>4, <2>6 DEF d
  <2>11. /\ Twice(held, m)[c] = a0 * M /\ Twice(after.held, m)[c] = a1 * M
         /\ Now(held, m)[c] = n0 * M /\ Now(after.held, m)[c] = n1 * M
    BY <2>2, <2>3
  <2> HIDE DEF a1, a0, n1, n0, p, M, now, k
  <2>12. a1 * M <= (a0 + 2 * p) * M /\ n1 * M <= (n0 + p) * M
    <3>1. a0 + 2 * p \in Int /\ n0 + p \in Int /\ a1 \in Int /\ n1 \in Int
          /\ a1 <= a0 + 2 * p /\ n1 <= n0 + p
      BY <2>7, <2>8 DEF a1, a0, n1, n0, p
    <3> QED BY <2>9, <3>1, Scaled
  <2>13. (a0 + 2 * p) * M = a0 * M + 2 * p * M /\ (n0 + p) * M = n0 * M + p * M
    BY <2>8, <2>9 DEF a0, n0, p
  <2> QED BY <2>10, <2>11, <2>12, <2>13 DEF side
<1>8. ASSUME NEW r \in Roots
      PROVE  Twice(after.held, m)[r] = Twice(held, m)[r] /\ Now(after.held, m)[r] = Now(held, m)[r]
  BY <1>2 DEF Twice, Now, Instruments
<1> DEFINE F2 == Twice(held, m)
           G2 == Twice(after.held, m)
           F1 == Now(held, m)
           G1 == Now(after.held, m)
<1>9. \A x \in Instruments : F2[x] \in Int /\ F1[x] \in Int
  BY WorthsAre
<1>10. \A x \in Instruments : G2[x] \in Int /\ G1[x] \in Int
  BY <1>2, WorthsAre
<1>11. \A r \in Roots : G2[r] <= F2[r] /\ G1[r] <= F1[r]
  BY <1>8, <1>9 DEF Instruments
<1>12. /\ Account(cash, held, m, mark).equity = 2 * cash + SumFunctionOnSet(F2, Instruments)
       /\ Account(cash, held, m, mark).liquidation = 2 * (cash + SumFunctionOnSet(F1, Instruments))
       /\ SumFunctionOnSet(F2, Instruments) \in Int /\ SumFunctionOnSet(F1, Instruments) \in Int
  <2>1. cash \in Int /\ held \in [Instruments -> Positions] /\ IsReading(m)
    OBVIOUS
  <2> HIDE DEF F2, F1
  <2> QED BY <2>1, ShownIs DEF F2, F1
<1>13. /\ Account(after.cash, after.held, m, mark).equity =
            2 * after.cash + SumFunctionOnSet(G2, Instruments)
       /\ Account(after.cash, after.held, m, mark).liquidation =
            2 * (after.cash + SumFunctionOnSet(G1, Instruments))
       /\ SumFunctionOnSet(G2, Instruments) \in Int /\ SumFunctionOnSet(G1, Instruments) \in Int
  <2>1. after.cash \in Int /\ after.held \in [Instruments -> Positions] /\ IsReading(m)
    BY <1>2
  <2>2. \A c1 \in Int, h1 \in [Instruments -> Positions] :
          /\ Account(c1, h1, m, mark).equity = 2 * c1 + SumFunctionOnSet(Twice(h1, m), Instruments)
          /\ Account(c1, h1, m, mark).liquidation =
               2 * (c1 + SumFunctionOnSet(Now(h1, m), Instruments))
          /\ SumFunctionOnSet(Twice(h1, m), Instruments) \in Int
          /\ SumFunctionOnSet(Now(h1, m), Instruments) \in Int
    <3> SUFFICES ASSUME NEW c1 \in Int, NEW h1 \in [Instruments -> Positions]
                 PROVE  /\ Account(c1, h1, m, mark).equity =
                             2 * c1 + SumFunctionOnSet(Twice(h1, m), Instruments)
                        /\ Account(c1, h1, m, mark).liquidation =
                             2 * (c1 + SumFunctionOnSet(Now(h1, m), Instruments))
                        /\ SumFunctionOnSet(Twice(h1, m), Instruments) \in Int
                        /\ SumFunctionOnSet(Now(h1, m), Instruments) \in Int
      OBVIOUS
    <3>1. c1 \in Int /\ h1 \in [Instruments -> Positions] /\ IsReading(m)
      OBVIOUS
    <3> QED BY <3>1, ShownIs
  <2> QED BY <2>1, <2>2
<1>14. k \in Int /\ 2 * k \in Int
  BY <1>4
<1> HIDE DEF F2, G2, F1, G1, k
<1>15. SumFunctionOnSet(G2, Instruments) <= SumFunctionOnSet(F2, Instruments) + (2 * k) * price
  BY <1>1, <1>7, <1>9, <1>10, <1>11, <1>14, RiseByPrice DEF F2, G2, price
<1>16. SumFunctionOnSet(G1, Instruments) <= SumFunctionOnSet(F1, Instruments) + k * price
  BY <1>1, <1>7, <1>9, <1>10, <1>11, <1>14, RiseByPrice DEF F1, G1, price
<1>17. (2 * k) * price = 2 * (k * price) /\ k * price \in Int
  BY <1>3, <1>14 DEF price
<1>18. Account(after.cash, after.held, m, mark).equity <= Account(cash, held, m, mark).equity
  BY <1>2, <1>5, <1>6, <1>12, <1>13, <1>15, <1>17
<1>19. Account(after.cash, after.held, m, mark).liquidation <= Account(cash, held, m, mark).liquidation
  BY <1>2, <1>5, <1>6, <1>12, <1>13, <1>16, <1>17
<1> QED BY <1>18, <1>19 DEF after

\* Closing every contract at the quotes read fetches what is shown of it.
LEMMA ClosingFetches ==
  ASSUME NEW cash \in Int, NEW held \in [Instruments -> Positions], NEW mark, NEW m, IsReading(m),
         \A r \in Roots : held[r].qty = 0
  PROVE  LET legs == [c \in Contracts |-> -held[c].qty]
         IN 2 * (Traded(cash, held, legs, 1, m).cash + ContractsIn(legs, 1) * PerContract)
              = Account(cash, held, m, mark).liquidation
<1> DEFINE legs  == [c \in Contracts |-> -held[c].qty]
           cost  == [c \in Contracts |-> legs[c] * Side(m[c], legs[c] > 0)]
           now   == Now(held, m)
           price == SetPrice(legs, m)
           fees  == ContractsIn(legs, 1) * PerContract
           after == Traded(cash, held, legs, 1, m)
<1>1. /\ IsFiniteSet(Instruments) /\ IsFiniteSet(Contracts) /\ Contracts \subseteq Instruments
      /\ \A x \in Instruments \ Contracts : x \in Roots
  BY RiskAssumption, FS_Union DEF Instruments
<1>2. \A x \in Instruments : held[x].qty \in Int /\ now[x] \in Int
  BY WorthsAre
<1>3. legs \in Holdings /\ 1 \in Nat
  BY <1>1, <1>2 DEF Holdings
<1>4. /\ price \in Int /\ price = SumFunctionOnSet(cost, Contracts) /\ ContractsIn(legs, 1) \in Nat
      /\ \A c \in Contracts : legs[c] \in Int /\ Side(m[c], legs[c] > 0) \in Int
  <2> HIDE DEF legs
  <2> QED BY <1>3, SetPriceIs
<1>5. after.cash = cash - price * 1 * Multiplier - fees
  <2> HIDE DEF legs
  <2> QED BY <1>3, TradedIs
<1>6. fees \in Nat
  <2>1. \A x, y \in Nat : x * y \in Nat
    OBVIOUS
  <2> QED BY <1>4, <2>1, ValuationAssumption
<1>7. ASSUME NEW c \in Contracts PROVE cost[c] \in Int /\ now[c] = (-Multiplier) * cost[c]
  <2> DEFINE q == held[c].qty
             side == IF q > 0 THEN m[c].bid ELSE m[c].ask
  <2>1. c \in Instruments /\ SizeOf(c) = Multiplier /\ Multiplier \in Nat
    BY RiskAssumption DEF SizeOf, Instruments
  <2>2. /\ q \in Int /\ m[c].bid \in Int /\ m[c].ask \in Int
        /\ now[c] = side * q * Multiplier
    BY <2>1, WorthsAre
  <2>3. cost[c] = (-q) * (IF -q > 0 THEN m[c].ask ELSE m[c].bid)
    BY DEF Side
  <2>4. cost[c] = (-q) * side
    <3>1. CASE q = 0
      <4>5. side \in Int
        BY <2>2
      <4>6. q = 0
        BY <3>1
      <4>7. -q = 0
        <5>1. q \in Int /\ \A x \in Int : x = 0 => -x = 0
          BY <2>2
        <5> QED BY <4>6, <5>1
      <4>1. side \in Int /\ q = 0 /\ -q = 0
        BY <4>5, <4>6, <4>7
      <4>2. \A x, y \in Int : y = 0 => y * x = 0
        OBVIOUS
      <4>3. cost[c] = 0
        BY <2>2, <2>3, <4>1, <4>2
      <4>4. (-q) * side = 0
        <5> HIDE DEF q, side
        <5>1. -q \in Int
          BY <4>1
        <5> QED BY <4>1, <4>2, <5>1
      <4> QED BY <4>3, <4>4
    <3>2. CASE q # 0
      BY <2>2, <2>3, <3>2
    <3> QED BY <3>1, <3>2
  <2>5. side \in Int
    BY <2>2
  <2> HIDE DEF q, side, cost, now
  <2>6. cost[c] \in Int
    BY <2>2, <2>4, <2>5
  <2>7. side * q * Multiplier = (-Multiplier) * ((-q) * side)
    BY <2>1, <2>2, <2>5
  <2> QED BY <2>2, <2>4, <2>6, <2>7
<1>8. \A x \in Instruments \ Contracts : now[x] = 0
  BY <1>1, WorthsAre
<1> HIDE DEF legs, cost, now, price, fees, after
<1>9. SumFunctionOnSet(now, Instruments) = SumFunctionOnSet(now, Contracts)
  BY <1>1, <1>2, <1>8, SumPadded
<1>10. SumFunctionOnSet(now, Contracts) = (-Multiplier) * price
  <2>1. -Multiplier \in Int
    BY RiskAssumption
  <2>2. SumFunctionOnSet(now, Contracts) = (-Multiplier) * SumFunctionOnSet(cost, Contracts)
    BY <1>1, <1>7, <2>1, SumScaled
  <2> QED BY <1>4, <2>2
<1>11. Account(cash, held, m, mark).liquidation = 2 * (cash + SumFunctionOnSet(now, Instruments))
  <2>1. cash \in Int /\ held \in [Instruments -> Positions] /\ IsReading(m)
    OBVIOUS
  <2> QED BY <2>1, ShownIs DEF now
<1>12. price * 1 * Multiplier = -((-Multiplier) * price) /\ (-Multiplier) * price \in Int
  BY <1>4, RiskAssumption
<1>13. 2 * (after.cash + fees) = Account(cash, held, m, mark).liquidation
  BY <1>5, <1>6, <1>9, <1>10, <1>11, <1>12
<1> QED BY <1>13 DEF after, fees, legs

\* Where no bid is above its ask, closing fetches no more than the middle of the market.
LEMMA ClosingIsDear ==
  ASSUME NEW cash \in Int, NEW held \in [Instruments -> Positions], NEW mark, NEW m, IsReading(m),
         \A x \in Instruments : m[x].bid <= m[x].ask
  PROVE  Account(cash, held, m, mark).liquidation <= Account(cash, held, m, mark).equity
<1> DEFINE now   == Now(held, m)
           twice == Twice(held, m)
           both  == [x \in Instruments |-> 2 * now[x]]
<1>1. /\ IsFiniteSet(Instruments)
      /\ SumFunctionOnSet(twice, Instruments) \in Int /\ SumFunctionOnSet(now, Instruments) \in Int
      /\ Account(cash, held, m, mark).equity = 2 * cash + SumFunctionOnSet(twice, Instruments)
      /\ Account(cash, held, m, mark).liquidation = 2 * (cash + SumFunctionOnSet(now, Instruments))
  <2>1. cash \in Int /\ held \in [Instruments -> Positions] /\ IsReading(m)
    OBVIOUS
  <2> QED BY <2>1, ShownIs
<1>2. ASSUME NEW x \in Instruments
      PROVE  now[x] \in Int /\ twice[x] \in Int /\ both[x] = 2 * now[x] /\ both[x] <= twice[x]
  <2> DEFINE q == held[x].qty
             bid == m[x].bid
             ask == m[x].ask
             side == IF q > 0 THEN bid ELSE ask
             n == SizeOf(x)
  <2>1. /\ q \in Int /\ bid \in Int /\ ask \in Int /\ n \in Nat \ {0} /\ bid <= ask
        /\ twice[x] \in Int /\ now[x] \in Int
        /\ twice[x] = (bid + ask) * q * n /\ now[x] = side * q * n
    BY WorthsAre
  <2>2. side \in Int
    BY <2>1
  <2>3. (bid + ask - 2 * side) * q >= 0
    <3>1. CASE q > 0
      <4>1. bid + ask - 2 * side >= 0 /\ bid + ask - 2 * side \in Int
        BY <2>1, <3>1
      <4> HIDE DEF side, q
      <4> QED BY <2>1, <3>1, <4>1, Signs
    <3>2. CASE ~(q > 0)
      <4>1. bid + ask - 2 * side <= 0 /\ bid + ask - 2 * side \in Int
        BY <2>1, <3>2
      <4>2. q <= 0
        BY <2>1, <3>2
      <4> HIDE DEF side, q
      <4> QED BY <2>1, <4>1, <4>2, Signs
    <3> QED BY <3>1, <3>2
  <2>4. both[x] = 2 * now[x]
    OBVIOUS
  <2> HIDE DEF side, q, bid, ask, n, twice, now, both
  <2>5. ((bid + ask - 2 * side) * q) * n >= 0
    <3>1. (bid + ask - 2 * side) * q \in Int /\ n \in Int /\ n >= 0
      BY <2>1, <2>2
    <3> QED BY <2>3, <3>1, Signs
  <2>6. ((bid + ask - 2 * side) * q) * n = (bid + ask) * q * n - 2 * (side * q * n)
    BY <2>1, <2>2
  <2> QED BY <2>1, <2>4, <2>5, <2>6
<1> HIDE DEF now, twice, both
<1>3. SumFunctionOnSet(both, Instruments) <= SumFunctionOnSet(twice, Instruments)
  <2>1. \A x \in Instruments : both[x] \in Int /\ twice[x] \in Int /\ both[x] <= twice[x]
    BY <1>2
  <2> QED BY <1>1, <2>1, SumIsMonotone
<1>4. SumFunctionOnSet(both, Instruments) = 2 * SumFunctionOnSet(now, Instruments)
  <2>1. 2 \in Int
    OBVIOUS
  <2> QED BY <1>1, <1>2, <2>1, SumScaled
<1> QED BY <1>1, <1>3, <1>4

-----------------------------------------------------------------------------
(* What is bought makes no book riskier.                                   *)

\* The contracts of one group, held or not.
GroupAll(g) == {c \in Contracts : GroupOf(c) = g}

\* A contract that is not held adds to neither the payoff nor the slope of its group.
LEMMA OverTheGroup ==
  ASSUME NEW held \in Holdings, NEW g, NEW s \in Nat
  PROVE  /\ IsFiniteSet(GroupAll(g)) /\ GroupAll(g) \subseteq Contracts
         /\ PayoffAt(held, g, s) = Multiplier * Payoff(held, GroupAll(g), s)
         /\ Payoff(held, GroupAll(g), s) \in Int
         /\ Slope(held, g) = SumFunctionOnSet(held, {c \in GroupAll(g) : Call[c]})
         /\ Slope(held, g) \in Int /\ PayoffAt(held, g, s) \in Int
<1> DEFINE G == GroupAll(g)
           H == InGroup(held, g)
           value == [c \in Contracts |-> Intrinsic(c, s) * held[c]]
           callsG == {c \in G : Call[c]}
           callsH == {c \in H : Call[c]}
<1>1. /\ IsFiniteSet(G) /\ G \subseteq Contracts
  BY RiskAssumption, FS_Subset DEF GroupAll
<1>2. H \subseteq G /\ \A c \in G \ H : held[c] = 0
  BY GroupIs DEF GroupAll
<1>3. \A c \in G : Intrinsic(c, s) \in Nat /\ value[c] = Intrinsic(c, s) * held[c]
                     /\ value[c] \in Int /\ held[c] \in Int
  <2> HIDE DEF G
  <2>1. \A c \in G : Intrinsic(c, s) \in Nat /\ Intrinsic(c, s) * held[c] \in Int /\ held[c] \in Int
    BY <1>1, PayoffIs
  <2> QED BY <1>1, <2>1
<1>4. Payoff(held, G, s) = SumFunctionOnSet(value, G) /\ Payoff(held, G, s) \in Int
  <2> HIDE DEF G
  <2> QED BY <1>1, PayoffIs DEF Payoff
<1>5. PayoffAt(held, g, s) = Multiplier * SumFunctionOnSet(value, H)
  BY DEF PayoffAt
<1>6. Slope(held, g) = SumFunctionOnSet(held, callsH)
  <2>1. callsH = {c \in H : Term[c].call}
    BY <1>1, <1>2 DEF Call
  <2> HIDE DEF callsH, H
  <2> QED BY <2>1 DEF Slope, H
<1>7. \A c \in G \ H : value[c] = 0
  <2>1. \A x \in Nat : x * 0 = 0
    OBVIOUS
  <2> QED BY <1>2, <1>3, <2>1
<1> HIDE DEF G, H, value
<1>8. SumFunctionOnSet(value, G) = SumFunctionOnSet(value, H)
  BY <1>1, <1>2, <1>3, <1>7, SumPadded
<1>9. /\ IsFiniteSet(callsG) /\ callsH \subseteq callsG
      /\ \A c \in callsG : held[c] \in Int
      /\ \A c \in callsG \ callsH : held[c] = 0
  BY <1>1, <1>2, <1>3, FS_Subset
<1> HIDE DEF callsG, callsH
<1>10. SumFunctionOnSet(held, callsG) = SumFunctionOnSet(held, callsH)
       /\ SumFunctionOnSet(held, callsG) \in Int
  BY <1>9, SumPadded, SumIsInt
<1>11. Multiplier \in Int
  BY RiskAssumption
<1> USE DEF G, callsG
<1>12. PayoffAt(held, g, s) = Multiplier * Payoff(held, GroupAll(g), s)
       /\ Payoff(held, GroupAll(g), s) \in Int
  BY <1>4, <1>5, <1>8
<1>13. Slope(held, g) = SumFunctionOnSet(held, {c \in GroupAll(g) : Call[c]})
       /\ Slope(held, g) \in Int
  BY <1>6, <1>10
<1>14. PayoffAt(held, g, s) \in Int
  BY <1>11, <1>12
<1> QED BY <1>1, <1>12, <1>13, <1>14

\* The worst of a group is the least of what it comes to at a few prices.
LEMMA WorstOfIs ==
  ASSUME NEW held \in Holdings, NEW g
  PROVE  /\ IsFiniteSet(Points(held, g)) /\ Points(held, g) \subseteq Nat /\ 0 \in Points(held, g)
         /\ \A c \in InGroup(held, g) : Strike[c] \in Points(held, g)
         /\ WorstOf(held, g) \in Int
         /\ \A s \in Points(held, g) : WorstOf(held, g) <= PayoffAt(held, g, s)
         /\ \E s \in Points(held, g) : WorstOf(held, g) = PayoffAt(held, g, s)
<1> DEFINE H == InGroup(held, g)
           P == Points(held, g)
           f == [s \in P |-> PayoffAt(held, g, s)]
           T == {f[s] : s \in P}
           ks == {Strike[c] : c \in H}
<1>1. H \subseteq Contracts /\ IsFiniteSet(H)
  BY GroupIs, RiskAssumption, FS_Subset
<1>2. IsFiniteSet(ks)
  <2> HIDE DEF H
  <2> QED BY <1>1, ImageIsFinite
<1>3. IsFiniteSet({0})
  BY FS_Singleton
<1>4. P = {0} \cup ks
  BY <1>1 DEF Points, Strike
<1>5. IsFiniteSet(P)
  <2> HIDE DEF P, ks
  <2> QED BY <1>2, <1>3, <1>4, FS_Union
<1>6. 0 \in P /\ (\A s \in P : s \in Nat) /\ \A c \in H : Strike[c] \in P
  <2>1. \A c \in H : Strike[c] \in Nat
    BY <1>1, RiskAssumption DEF Strike
  <2>2. (\A s \in ks : s \in Nat) /\ \A c \in H : Strike[c] \in ks
    BY <2>1
  <2> HIDE DEF P, ks
  <2> QED BY <1>4, <2>2
<1>7. \A s \in P : f[s] = PayoffAt(held, g, s) /\ f[s] \in Int
  BY <1>6, OverTheGroup
<1>8. WorstOf(held, g) = Min(T)
  <2>1. T = {PayoffAt(held, g, s) : s \in P}
    OBVIOUS
  <2> HIDE DEF T
  <2> QED BY <2>1 DEF WorstOf
<1> HIDE DEF f, P, ks
<1>9. IsFiniteSet(T)
  BY <1>5, ImageIsFinite
<1>10. (\A x \in T : x \in Int) /\ f[0] \in T
  BY <1>6, <1>7
<1> HIDE DEF T
<1>11. T \subseteq Int /\ T # {}
  BY <1>10
<1>12. Min(T) \in T /\ \A y \in T : Min(T) <= y
  BY <1>9, <1>11, MinIs
<1> USE DEF T
<1>13. \E a \in P : Min(T) = PayoffAt(held, g, a)
  BY <1>7, <1>12
<1>14. \A s \in P : Min(T) <= PayoffAt(held, g, s)
  BY <1>7, <1>12
<1> HIDE DEF T
<1>15. Min(T) \in Int
  BY <1>10, <1>12
<1> QED BY <1>5, <1>6, <1>8, <1>13, <1>14, <1>15 DEF P

\* risk.go: a group whose calls are covered comes nowhere to less.
LEMMA WorstAnywhere ==
  ASSUME NEW held \in Holdings, NEW g, Slope(held, g) >= 0, NEW s \in Nat
  PROVE  WorstOf(held, g) <= PayoffAt(held, g, s)
<1> DEFINE H == InGroup(held, g)
           P == Points(held, g)
<1>1. H \subseteq Contracts /\ IsFiniteSet(H) /\ \A c \in H : Strike[c] \in Nat /\ held[c] \in Int
  <2>1. H \subseteq Contracts
    BY GroupIs
  <2> QED BY <2>1, PayoffIs
<1>2. SumFunctionOnSet(held, {c \in H : Call[c]}) >= 0
  <2>1. {c \in H : Call[c]} = {c \in H : Term[c].call}
    BY <1>1 DEF Call
  <2> QED BY <2>1 DEF Slope
<1>3. IsFiniteSet(P) /\ P \subseteq Nat /\ 0 \in P /\ \A c \in H : Strike[c] \in P
  BY WorstOfIs
<1> HIDE DEF P, H
<1>4. PICK p \in P : SumFunctionOnSet(EndValues(Call, Strike, held, H, p), H)
                       <= SumFunctionOnSet(EndValues(Call, Strike, held, H, s), H)
  BY <1>1, <1>2, <1>3, LeastAtABend
<1>5. p \in Nat
  BY <1>3
<1>6. /\ Payoff(held, H, p) <= Payoff(held, H, s)
      /\ Payoff(held, H, p) \in Int /\ Payoff(held, H, s) \in Int
  BY <1>1, <1>4, <1>5, PayoffIs
<1>7. /\ PayoffAt(held, g, p) = Multiplier * Payoff(held, H, p)
      /\ PayoffAt(held, g, s) = Multiplier * Payoff(held, H, s)
  BY DEF PayoffAt, Payoff, H
<1>8. Multiplier * Payoff(held, H, p) <= Multiplier * Payoff(held, H, s)
      /\ Multiplier * Payoff(held, H, p) \in Int /\ Multiplier * Payoff(held, H, s) \in Int
  BY <1>6, RiskAssumption
<1>9. WorstOf(held, g) <= PayoffAt(held, g, p) /\ WorstOf(held, g) \in Int
  BY WorstOfIs DEF P
<1> QED BY <1>7, <1>8, <1>9

\* More of every contract: no group comes to less, anywhere.
LEMMA MorePays ==
  ASSUME NEW held \in Holdings, NEW more \in Holdings, \A c \in Contracts : held[c] <= more[c],
         NEW g, NEW s \in Nat
  PROVE  Slope(held, g) <= Slope(more, g) /\ PayoffAt(held, g, s) <= PayoffAt(more, g, s)
<1> DEFINE G == GroupAll(g)
           calls == {c \in G : Call[c]}
           f == [c \in Contracts |-> Intrinsic(c, s) * held[c]]
           h == [c \in Contracts |-> Intrinsic(c, s) * more[c]]
<1>1. /\ IsFiniteSet(G) /\ G \subseteq Contracts
      /\ PayoffAt(held, g, s) = Multiplier * Payoff(held, G, s) /\ Payoff(held, G, s) \in Int
      /\ PayoffAt(more, g, s) = Multiplier * Payoff(more, G, s) /\ Payoff(more, G, s) \in Int
      /\ Slope(held, g) = SumFunctionOnSet(held, calls)
      /\ Slope(more, g) = SumFunctionOnSet(more, calls)
  BY OverTheGroup
<1>2. \A c \in G : Intrinsic(c, s) \in Nat /\ held[c] \in Int /\ more[c] \in Int /\ held[c] <= more[c]
  <2> HIDE DEF G
  <2> QED BY <1>1, PayoffIs
<1>3. IsFiniteSet(calls) /\ calls \subseteq G
  BY <1>1, FS_Subset
<1>4. ASSUME NEW c \in G PROVE f[c] \in Int /\ h[c] \in Int /\ f[c] <= h[c]
  <2> DEFINE v == Intrinsic(c, s)
             x == held[c]
             y == more[c]
  <2>1. v \in Nat /\ x \in Int /\ y \in Int /\ x <= y
    BY <1>2
  <2>2. f[c] = v * x /\ h[c] = v * y
    BY <1>1
  <2> HIDE DEF v, x, y, f, h
  <2>3. v * (y - x) >= 0 /\ v * (y - x) = v * y - v * x /\ v * y \in Int /\ v * x \in Int
    <3>1. y - x \in Nat
      BY <2>1
    <3>2. \A a, b \in Nat : a * b \in Nat
      OBVIOUS
    <3>3. v * (y - x) \in Nat
      BY <2>1, <3>1, <3>2
    <3> QED BY <2>1, <3>3
  <2> QED BY <2>2, <2>3
<1>5. Payoff(held, G, s) = SumFunctionOnSet(f, G) /\ Payoff(more, G, s) = SumFunctionOnSet(h, G)
  BY DEF Payoff
<1> HIDE DEF G, calls, f, h
<1>6. SumFunctionOnSet(f, G) <= SumFunctionOnSet(h, G)
  BY <1>1, <1>4, SumIsMonotone
<1>7. SumFunctionOnSet(held, calls) <= SumFunctionOnSet(more, calls)
  <2>1. \A c \in calls : held[c] \in Int /\ more[c] \in Int /\ held[c] <= more[c]
    BY <1>2, <1>3
  <2> QED BY <1>3, <2>1, SumIsMonotone
<1>8. Multiplier * Payoff(held, G, s) <= Multiplier * Payoff(more, G, s)
  <2>1. Payoff(held, G, s) <= Payoff(more, G, s)
    BY <1>5, <1>6
  <2> QED BY <1>1, <2>1, RiskAssumption
<1> QED BY <1>1, <1>7, <1>8

\* A group that is not held comes to nothing.
LEMMA NotHeld ==
  ASSUME NEW held \in Holdings, NEW g, g \notin Groups(held)
  PROVE  Slope(held, g) = 0 /\ WorstOf(held, g) = 0
<1>1. InGroup(held, g) = {}
  BY GroupIs
<1>2. {c \in InGroup(held, g) : Term[c].call} = {}
  BY <1>1
<1>3. Slope(held, g) = 0
  BY <1>2, SumOfNone DEF Slope
<1>4. \A s : PayoffAt(held, g, s) = Multiplier * 0
  BY <1>1, SumOfNone DEF PayoffAt
<1>5. Multiplier * 0 = 0
  BY RiskAssumption
<1>6. \E s \in Points(held, g) : WorstOf(held, g) = PayoffAt(held, g, s)
  BY WorstOfIs
<1> QED BY <1>3, <1>4, <1>5, <1>6

\* The worst of a book, over any finitely many groups that hold all it has.
LEMMA WorstOver ==
  ASSUME NEW held \in Holdings, NEW S, IsFiniteSet(S), Groups(held) \subseteq S
  PROVE  /\ Worst(held) = SumFunctionOnSet([g \in S |-> WorstOf(held, g)], S)
         /\ Worst(held) \in Int
<1> DEFINE all  == [g \in S |-> WorstOf(held, g)]
           part == [g \in Groups(held) |-> WorstOf(held, g)]
<1>1. \A g \in S : all[g] = WorstOf(held, g) /\ all[g] \in Int /\ (g \notin Groups(held) => all[g] = 0)
  BY WorstOfIs, NotHeld
<1>2. Worst(held) = SumFunctionOnSet(part, Groups(held))
  BY DEF Worst, SumFunction, SumFunctionOnSet, FoldFunction
<1>3. \A g \in Groups(held) : part[g] = all[g]
  BY <1>1
<1> HIDE DEF all, part
<1>4. SumFunctionOnSet(part, Groups(held)) = SumFunctionOnSet(all, Groups(held))
  BY <1>3, GroupsAreFinite, SumOfSame
<1>5. SumFunctionOnSet(all, S) = SumFunctionOnSet(all, Groups(held))
  BY <1>1, SumPadded
<1>6. SumFunctionOnSet(all, S) \in Int
  BY <1>1, SumIsInt
<1> QED BY <1>2, <1>4, <1>5, <1>6 DEF all

\* risk.go: with more of every contract a book whose loss has an end still has one, and
\* its worst is no worse.
LEMMA MoreIsSafer ==
  ASSUME NEW held \in Holdings, NEW more \in Holdings, \A c \in Contracts : held[c] <= more[c],
         ~Unbounded(held)
  PROVE  /\ ~Unbounded(more)
         /\ Worst(held) \in Int /\ Worst(more) \in Int /\ Worst(held) <= Worst(more)
<1> DEFINE S == Groups(held) \cup Groups(more)
           f == [g \in S |-> WorstOf(held, g)]
           h == [g \in S |-> WorstOf(more, g)]
<1>1. ASSUME NEW g
      PROVE  /\ Slope(held, g) >= 0 /\ Slope(more, g) >= 0
             /\ WorstOf(held, g) \in Int /\ WorstOf(more, g) \in Int
             /\ WorstOf(held, g) <= WorstOf(more, g)
  <2>1. 0 \in Nat
    OBVIOUS
  <2>2. Slope(held, g) \in Int /\ Slope(more, g) \in Int
    BY <2>1, OverTheGroup
  <2>3. Slope(held, g) >= 0
    <3>1. CASE g \in Groups(held)
      BY <2>2, <3>1 DEF Unbounded
    <3>2. CASE g \notin Groups(held)
      BY <3>2, NotHeld
    <3> QED BY <3>1, <3>2
  <2>4. Slope(held, g) <= Slope(more, g)
    BY <2>1, MorePays
  <2>5. PICK s \in Points(more, g) : WorstOf(more, g) = PayoffAt(more, g, s)
    BY WorstOfIs
  <2>6. s \in Nat
    BY WorstOfIs
  <2>7. WorstOf(held, g) <= PayoffAt(held, g, s)
    BY <2>3, <2>6, WorstAnywhere
  <2>8. PayoffAt(held, g, s) <= PayoffAt(more, g, s)
    BY <2>6, MorePays
  <2>9. WorstOf(held, g) \in Int /\ WorstOf(more, g) \in Int /\ PayoffAt(held, g, s) \in Int
        /\ PayoffAt(more, g, s) \in Int
    BY <2>6, WorstOfIs, OverTheGroup
  <2> QED BY <2>2, <2>3, <2>4, <2>5, <2>7, <2>8, <2>9
<1>2. ~Unbounded(more)
  <2> SUFFICES ASSUME NEW g \in Groups(more), Slope(more, g) < 0 PROVE FALSE
    BY DEF Unbounded
  <2>1. Slope(more, g) \in Int
    <3>1. 0 \in Nat
      OBVIOUS
    <3> QED BY <3>1, OverTheGroup
  <2> QED BY <1>1, <2>1
<1>3. IsFiniteSet(S) /\ Groups(held) \subseteq S /\ Groups(more) \subseteq S
  BY GroupsAreFinite, FS_Union
<1>4. /\ Worst(held) = SumFunctionOnSet(f, S) /\ Worst(held) \in Int
      /\ Worst(more) = SumFunctionOnSet(h, S) /\ Worst(more) \in Int
  <2> HIDE DEF S
  <2> QED BY <1>3, WorstOver
<1>5. \A g \in S : f[g] \in Int /\ h[g] \in Int /\ f[g] <= h[g]
  BY <1>1
<1> HIDE DEF S, f, h
<1>6. SumFunctionOnSet(f, S) <= SumFunctionOnSet(h, S)
  BY <1>3, <1>5, SumIsMonotone
<1> QED BY <1>2, <1>4, <1>6

\* What is only bought, and can fill, costs something.
LEMMA BuyingCosts ==
  ASSUME NEW t, IsTrade(t), NEW m, IsReading(m), Executable(t.legs, m, FALSE),
         \A c \in Contracts : t.legs[c] >= 0
  PROVE  SetPrice(t.legs, m) * t.sets * Multiplier + ContractsIn(t.legs, t.sets) * PerContract > 0
<1> DEFINE cost == [c \in Contracts |-> t.legs[c] * Side(m[c], t.legs[c] > 0)]
           price == SetPrice(t.legs, m)
           fees == ContractsIn(t.legs, t.sets) * PerContract
<1>1. t.legs \in Holdings /\ t.sets \in Nat /\ t.sets \in Nat \ {0}
  BY DEF IsTrade
<1>2. PICK d \in Contracts : t.legs[d] # 0
  BY DEF IsTrade
<1>3. /\ IsFiniteSet(Contracts) /\ price = SumFunctionOnSet(cost, Contracts) /\ price \in Int
      /\ ContractsIn(t.legs, t.sets) \in Nat
      /\ \A c \in Contracts : t.legs[c] \in Int /\ Side(m[c], t.legs[c] > 0) \in Int
  BY <1>1, SetPriceIs
<1>4. ASSUME NEW c \in Contracts PROVE cost[c] \in Nat /\ (t.legs[c] # 0 => cost[c] > 0)
  <2> DEFINE q == t.legs[c]
             side == Side(m[c], t.legs[c] > 0)
  <2>1. q \in Nat /\ side \in Int /\ cost[c] = q * side
    BY <1>3
  <2>2. q # 0 => side > 0
    BY <2>1 DEF Executable, Side
  <2> HIDE DEF q, side, cost
  <2>3. CASE q = 0
    <3>1. cost[c] = 0
      BY <2>1, <2>3
    <3> QED BY <2>3, <3>1 DEF q
  <2>4. CASE q # 0
    <3>1. \A x, y \in Nat \ {0} : x * y \in Nat \ {0}
      OBVIOUS
    <3> QED BY <2>1, <2>2, <2>4, <3>1
  <2> QED BY <2>3, <2>4
<1> HIDE DEF cost
<1>5. SumFunctionOnSet(cost, {d}) <= SumFunctionOnSet(cost, Contracts)
  <2>1. {d} \subseteq Contracts
    OBVIOUS
  <2> QED BY <1>3, <1>4, <2>1, SumOfPart
<1>6. SumFunctionOnSet(cost, {d}) = cost[d]
  <2>1. IsFiniteSet({d}) /\ \A x \in {d} : cost[x] \in Int
    <3>1. cost[d] \in Int
      BY <1>4
    <3> QED BY <3>1, FS_Singleton
  <2>2. SumFunctionOnSet(cost, {d}) = cost[d] + SumFunctionOnSet(cost, {d} \ {d})
    BY <2>1, SumWithout
  <2>3. {d} \ {d} = {}
    OBVIOUS
  <2> QED BY <1>4, <2>2, <2>3, SumOfNone
<1>7. price \in Nat \ {0}
  BY <1>2, <1>3, <1>4, <1>5, <1>6
<1>8. fees \in Nat
  <2>1. \A x, y \in Nat : x * y \in Nat
    OBVIOUS
  <2> QED BY <1>3, <2>1, ValuationAssumption
<1>9. price * t.sets * Multiplier \in Nat \ {0}
  <2>1. \A x, y \in Nat \ {0} : x * y \in Nat \ {0}
    OBVIOUS
  <2>2. price * t.sets \in Nat \ {0} /\ Multiplier \in Nat \ {0}
    BY <1>1, <1>7, <2>1, RiskAssumption
  <2> HIDE DEF price
  <2> QED BY <2>1, <2>2
<1> HIDE DEF price, fees
<1>10. price * t.sets * Multiplier + fees > 0
  BY <1>8, <1>9
<1> QED BY <1>10 DEF price, fees

\* tools.go: buying for no more than the buying power leaves a book that is backed.
LEMMA SpendingIsBacked ==
  ASSUME NEW cash \in Int, NEW held \in [Instruments -> Positions], NEW mark \in [Roots -> Int],
         NEW t, IsTrade(t), NEW m, IsReading(m), Executable(t.legs, m, FALSE),
         \A c \in Contracts : t.legs[c] >= 0,
         2 * (cash - Traded(cash, held, t.legs, t.sets, m).cash) <= Power(cash, held, mark)
  PROVE  LET after == Traded(cash, held, t.legs, t.sets, m)
         IN Backed(after.cash, Bare(after.held), Shares(after.held), mark)
<1> DEFINE after == Traded(cash, held, t.legs, t.sets, m)
           was   == Bare(held)
           is    == Bare(after.held)
           short(h) == SumFunction([r \in Roots |-> 3 * Max({0, -Shares(h)[r]}) * mark[r]])
<1>1. t.legs \in Holdings /\ t.sets \in Nat
  BY DEF IsTrade
<1>2. /\ after.cash \in Int /\ after.held \in [Instruments -> Positions]
      /\ after.cash = cash - SetPrice(t.legs, m) * t.sets * Multiplier
                        - ContractsIn(t.legs, t.sets) * PerContract
      /\ \A c \in Contracts : after.held[c].qty = held[c].qty + t.legs[c] * t.sets
      /\ \A r \in Roots : after.held[r] = held[r]
  BY <1>1, TradedIs
<1>3. after.cash < cash
  <2> DEFINE gross == SetPrice(t.legs, m) * t.sets * Multiplier
             fees == ContractsIn(t.legs, t.sets) * PerContract
  <2>1. gross + fees > 0 /\ gross \in Int /\ fees \in Int
    <3>1. SetPrice(t.legs, m) \in Int /\ ContractsIn(t.legs, t.sets) \in Nat
      BY <1>1, SetPriceIs
    <3>2. \A x, y \in Int : x * y \in Int
      OBVIOUS
    <3>3. Multiplier \in Int /\ PerContract \in Int /\ t.sets \in Int
      BY <1>1, RiskAssumption, ValuationAssumption
    <3>4. gross \in Int /\ fees \in Int
      BY <3>1, <3>2, <3>3
    <3> QED BY <3>4, BuyingCosts
  <2> HIDE DEF gross, fees, after
  <2> QED BY <1>2, <2>1 DEF gross, fees
<1> HIDE DEF after
<1>4. 0 < 2 * (cash - after.cash) /\ 2 * (cash - after.cash) \in Int
      /\ 2 * (cash - after.cash) <= Power(cash, held, mark)
  BY <1>2, <1>3 DEF after
<1>5. was \in Holdings /\ is \in Holdings /\ \A c \in Contracts : was[c] <= is[c]
  <2>1. \A c \in Contracts : c \in Instruments
    BY DEF Instruments
  <2>2. \A c \in Contracts : held[c].qty \in Int /\ after.held[c].qty \in Int
    BY <1>2, <2>1 DEF Positions
  <2>3. \A c \in Contracts : t.legs[c] * t.sets >= 0 /\ t.legs[c] * t.sets \in Int
    BY <1>1, Signs DEF Holdings
  <2>4. \A c \in Contracts : held[c].qty <= after.held[c].qty
    BY <1>2, <2>2, <2>3
  <2>5. \A c \in Contracts : was[c] = held[c].qty /\ is[c] = after.held[c].qty
    BY DEF Bare
  <2> QED BY <2>2, <2>4, <2>5 DEF Bare, Holdings
<1>6. Shares(held) = Shares(after.held) /\ short(held) = short(after.held)
  <2>1. \A r \in Roots : held[r].qty = after.held[r].qty
    BY <1>2
  <2>2. Shares(held) = Shares(after.held)
    BY <2>1 DEF Shares
  <2> QED BY <2>2
<1>7. short(held) \in Int
  <2> DEFINE f == [r \in Roots |-> 3 * Max({0, -Shares(held)[r]}) * mark[r]]
  <2>1. \A r \in Roots : f[r] \in Int
    <3> SUFFICES ASSUME NEW r \in Roots PROVE f[r] \in Int
      OBVIOUS
    <3>1. r \in Instruments
      BY DEF Instruments
    <3>2. Shares(held)[r] \in Int /\ -Shares(held)[r] \in Int
      BY <3>1 DEF Shares, Positions
    <3>3. Max({0, -Shares(held)[r]}) \in Int
      BY <3>2, MaxOfTwo
    <3>4. \A x, y \in Int : 3 * x * y \in Int
      OBVIOUS
    <3> QED BY <3>3, <3>4
  <2>2. short(held) = SumFunctionOnSet(f, Roots)
    BY DEF SumFunction, SumFunctionOnSet, FoldFunction
  <2> HIDE DEF f
  <2> QED BY <2>1, <2>2, SumIsInt, RiskAssumption
<1>8. ~Unbounded(was)
  <2> SUFFICES ASSUME Unbounded(was) PROVE FALSE
    OBVIOUS
  <2>1. Power(cash, held, mark) = 0
    BY DEF Power, Bare
  <2> QED BY <1>4, <2>1
<1>9. /\ ~Unbounded(is)
      /\ Worst(was) \in Int /\ Worst(is) \in Int /\ Worst(was) <= Worst(is)
  <2> HIDE DEF was, is
  <2> QED BY <1>5, <1>8, MoreIsSafer
<1> DEFINE before == Max({0, -Worst(was)})
           now == Max({0, -Worst(is)})
<1>10. before \in Int /\ now \in Int /\ now <= before
  <2>1. -Worst(was) \in Int /\ -Worst(is) \in Int /\ -Worst(is) <= -Worst(was)
    BY <1>9
  <2>2. /\ before = (IF 0 <= -Worst(was) THEN -Worst(was) ELSE 0)
        /\ now = (IF 0 <= -Worst(is) THEN -Worst(is) ELSE 0)
    BY <2>1, MaxOfTwo
  <2> HIDE DEF before, now, was, is
  <2> QED BY <2>1, <2>2
<1>11. /\ Demanded(held, mark) = 2 * before + short(held)
       /\ TwiceRequirement(is, Shares(after.held), mark) = 2 * now + short(after.held)
  BY DEF Demanded, TwiceRequirement, Bare, Shares
<1>12. Power(cash, held, mark) = Max({0, 2 * cash - Demanded(held, mark)})
  BY <1>8 DEF Power, Bare
<1> HIDE DEF before, now, short, was, is
<1>13. 2 * cash - Demanded(held, mark) \in Int
  BY <1>7, <1>10, <1>11
<1>14. 2 * (cash - after.cash) <= 2 * cash - Demanded(held, mark)
  <2>1. Power(cash, held, mark) = IF 0 <= 2 * cash - Demanded(held, mark)
                                  THEN 2 * cash - Demanded(held, mark) ELSE 0
    BY <1>12, <1>13, MaxOfTwo
  <2> QED BY <1>4, <1>13, <2>1
<1>15. 2 * after.cash >= TwiceRequirement(is, Shares(after.held), mark)
  BY <1>2, <1>6, <1>7, <1>10, <1>11, <1>14
<1> QED BY <1>9, <1>15 DEF Backed, is, after

\* tools.go, account: whatever was traded, remembered and settled, an account says what
\* an agent may size by: no reading gives anything away, what closing fetches is what is
\* shown, and the buying power can be spent.
THEOREM AccountHonest == Spec => []AccountIsHonest
<1>1. WalletIsReadable => AccountIsHonest
  <2> SUFFICES ASSUME WalletIsReadable, wallet # Nothing PROVE AccountIsHonest
    BY DEF AccountIsHonest
  <2> DEFINE cash == wallet.cash
             held == wallet.held
             mark == wallet.mark
  <2>1. cash \in Int /\ held \in [Instruments -> Positions] /\ mark \in [Roots -> Int]
    BY DEF WalletIsReadable
  <2>2. (\A m \in Readings : IsReading(m)) /\ \A t \in Trades : IsTrade(t)
    BY ArithmeticAssumption
  <2>3. \A m : Shown(m) = Account(cash, held, m, mark)
    BY DEF Shown
  <2> HIDE DEF cash, held, mark
  <2>4. ReadingGivesNothing
    <3> SUFFICES ASSUME NEW m \in Readings, NEW t \in Trades, Executable(t.legs, m, FALSE),
                        \A c \in Contracts : t.legs[c] < 0 => m[c].ask > 0
                 PROVE  LET after == Traded(cash, held, t.legs, t.sets, m)
                            then  == Account(after.cash, after.held, m, mark)
                        IN /\ then.equity <= Account(cash, held, m, mark).equity
                           /\ then.liquidation <= Account(cash, held, m, mark).liquidation
      BY <2>3 DEF ReadingGivesNothing, cash, held, mark
    <3>1. IsReading(m) /\ IsTrade(t) /\ cash \in Int /\ held \in [Instruments -> Positions]
      BY <2>1, <2>2
    <3> QED BY <3>1, FillGivesNothing
  <2>5. ClosingFetchesIt
    <3> SUFFICES ASSUME NEW m \in Readings, \A r \in Roots : held[r].qty = 0
                 PROVE  LET legs == [c \in Contracts |-> -held[c].qty]
                        IN 2 * (Traded(cash, held, legs, 1, m).cash
                                  + ContractsIn(legs, 1) * PerContract)
                             = Account(cash, held, m, mark).liquidation
      BY <2>3 DEF ClosingFetchesIt, cash, held, mark
    <3>1. IsReading(m) /\ cash \in Int /\ held \in [Instruments -> Positions]
      BY <2>1, <2>2
    <3> QED BY <3>1, ClosingFetches
  <2>6. PowerIsSpendable
    <3> SUFFICES ASSUME NEW m \in Readings, NEW t \in Trades, Executable(t.legs, m, FALSE),
                        \A c \in Contracts : t.legs[c] >= 0,
                        2 * (cash - Traded(cash, held, t.legs, t.sets, m).cash)
                          <= Account(cash, held, m, mark).power
                 PROVE  LET after == Traded(cash, held, t.legs, t.sets, m)
                        IN Backed(after.cash, Bare(after.held), Shares(after.held), mark)
      BY <2>3 DEF PowerIsSpendable, cash, held, mark
    <3>1. IsReading(m) /\ IsTrade(t) /\ cash \in Int /\ held \in [Instruments -> Positions]
          /\ mark \in [Roots -> Int]
      BY <2>1, <2>2
    <3>2. Account(cash, held, m, mark).power = Power(cash, held, mark)
      BY DEF Account
    <3> QED BY <3>1, <3>2, SpendingIsBacked
  <2>7. \A m \in Readings : (\A x \in Instruments : m[x].bid <= m[x].ask) =>
                              Shown(m).liquidation <= Shown(m).equity
    <3> SUFFICES ASSUME NEW m \in Readings, \A x \in Instruments : m[x].bid <= m[x].ask
                 PROVE  Account(cash, held, m, mark).liquidation <= Account(cash, held, m, mark).equity
      BY <2>3
    <3>1. IsReading(m) /\ cash \in Int /\ held \in [Instruments -> Positions]
      BY <2>1, <2>2
    <3> QED BY <3>1, ClosingIsDear
  <2> QED BY <2>4, <2>5, <2>6, <2>7 DEF AccountIsHonest
<1> QED BY <1>1, WalletReadable, PTL

-----------------------------------------------------------------------------
(* What closed positions made.                                             *)

\* A number comes to one number of parts.
LEMMA PartsAreOne ==
  ASSUME NEW a \in Fractions, NEW D \in Int, NEW m \in Int, NEW n \in Int,
         InParts(m, D, a), InParts(n, D, a)
  PROVE  m = n
<1>1. a.den \in Nat \ {0} /\ a.num \in Int
  BY DEF Fractions
<1>2. m * a.den = n * a.den
  BY DEF InParts
<1> QED BY <1>1, <1>2, Cancelled

\* What a position makes that is closed, all or part of it.
LEMMA ClosedInParts ==
  ASSUME NEW p \in Positions, NEW signed \in Int, NEW price \in Int, NEW size \in Int,
         NEW D \in Nat \ {0}, NEW was \in Int, InParts(was, D, p.avg),
         p.qty * signed < 0, NEW closed \in Int, closed = Min({Abs(p.qty), Abs(signed)})
  PROVE  InParts((IF p.qty > 0 THEN closed * size ELSE -(closed * size)) * (D * price - was), D,
                 ClosedAt(p, signed, price, size))
<1> DEFINE k == IF p.qty > 0 THEN closed * size ELSE -(closed * size)
           gain == Sum2(Whole(price), Times(-1, p.avg))
<1>1. p.qty \in Int /\ p.avg \in Fractions /\ D * price \in Int /\ k \in Int
  <2>1. p.qty \in Int /\ p.avg \in Fractions
    BY DEF Positions
  <2>2. D * price \in Int /\ closed * size \in Int
    OBVIOUS
  <2> QED BY <2>1, <2>2
<1>2. Whole(price) \in Fractions /\ InParts(D * price, D, Whole(price))
  BY WholeIs
<1>3. Times(-1, p.avg) \in Fractions /\ InParts((-1) * was, D, Times(-1, p.avg))
  <2>1. -1 \in Int
    OBVIOUS
  <2>2. \A k1 \in Int : Times(k1, p.avg) \in Fractions /\ InParts(k1 * was, D, Times(k1, p.avg))
    BY <1>1, TimesInParts
  <2> QED BY <2>1, <2>2
<1>4. (-1) * was \in Int
  OBVIOUS
<1>5. gain \in Fractions /\ InParts(D * price + (-1) * was, D, gain)
  BY <1>1, <1>2, <1>3, <1>4, SumInParts
<1>6. D * price + (-1) * was = D * price - was /\ D * price - was \in Int
  BY <1>1
<1>7. ClosedAt(p, signed, price, size) = Times(k, gain)
  BY <1>1 DEF ClosedAt
<1> HIDE DEF gain, k
<1>8. InParts(k * (D * price - was), D, Times(k, gain))
  BY <1>1, <1>5, <1>6, TimesInParts
<1> QED BY <1>7, <1>8 DEF k

\* A position added to on its side costs what it cost and what was paid.
LEMMA AddedInParts ==
  ASSUME NEW p \in Positions, NEW signed \in Int, NEW price \in Int, p.qty * signed > 0,
         NEW D \in Nat \ {0}, NEW was \in Int, NEW is \in Int,
         InParts(was, D, p.avg), InParts(is, D, Adjusted(p, signed, price).avg)
  PROVE  (p.qty + signed) * is = p.qty * was + D * (signed * price)
<1> DEFINE q == p.qty
           u == Abs(q)
           v == Abs(signed)
           w == Abs(q + signed)
           num == p.avg.num * u + price * v * p.avg.den
           den == p.avg.den * w
           avg == Fraction(num, den)
<1>1. q \in Int /\ p.avg \in Fractions /\ p.avg.num \in Int /\ p.avg.den \in Nat \ {0}
  BY DEF Positions, Fractions
<1>2. (q > 0 /\ signed > 0) \/ (q < 0 /\ signed < 0)
  <2>1. \A x, y \in Int : /\ x * y > 0 => x # 0 /\ y # 0
                          /\ x > 0 /\ y < 0 => x * y <= 0
                          /\ x < 0 /\ y > 0 => x * y <= 0
    <3>1. \A x, y \in Int : (x > 0 /\ y < 0 => x * y <= 0) /\ (x < 0 /\ y > 0 => x * y <= 0)
      BY Signs
    <3>2. \A x, y \in Int : x * y > 0 => x # 0 /\ y # 0
      OBVIOUS
    <3> QED BY <3>1, <3>2
  <2> HIDE DEF q
  <2> QED BY <1>1, <2>1 DEF q
<1>3. /\ u \in Nat \ {0} /\ v \in Nat \ {0} /\ w \in Nat \ {0} /\ w = u + v /\ q + signed # 0
      /\ (q = u /\ signed = v) \/ (q = -u /\ signed = -v)
  <2> HIDE DEF q
  <2> QED BY <1>1, <1>2 DEF Abs
<1>4. Adjusted(p, signed, price).avg = avg
  BY <1>3 DEF Adjusted
<1> HIDE DEF q, u, v, w
<1>5. num \in Int /\ den \in Nat \ {0}
  <2>1. \A x, y \in Nat \ {0} : x * y \in Nat \ {0}
    OBVIOUS
  <2>2. num \in Int
    BY <1>1, <1>3
  <2> QED BY <1>1, <1>3, <2>1, <2>2
<1>6. avg \in Fractions /\ avg.num * den = num * avg.den /\ avg.num \in Int /\ avg.den \in Nat \ {0}
  <2> HIDE DEF num, den
  <2>1. avg \in Fractions /\ avg.num * den = num * avg.den
    BY <1>5, FractionIs
  <2> QED BY <2>1 DEF Fractions
<1>7. is * avg.den = D * avg.num /\ was * p.avg.den = D * p.avg.num
  BY <1>4 DEF InParts
<1> HIDE DEF num, den, avg
<1>8. is * den = D * num
  <2> DEFINE n == avg.num
             d == avg.den
  <2>1. n \in Int /\ d \in Nat \ {0} /\ n * den = num * d /\ is * d = D * n
    BY <1>6, <1>7
  <2> HIDE DEF n, d
  <2>2. (is * den) * d = (is * d) * den /\ (D * n) * den = D * (n * den)
        /\ D * (num * d) = (D * num) * d
    BY <1>5, <2>1
  <2>3. (is * den) * d = (D * num) * d
    BY <2>1, <2>2
  <2>4. is * den \in Int /\ D * num \in Int
    BY <1>5
  <2> QED BY <2>1, <2>3, <2>4, Cancelled
<1>9. is * w = was * u + D * (v * price)
  <2> DEFINE n == p.avg.num
             d == p.avg.den
  <2>1. n \in Int /\ d \in Nat \ {0} /\ was * d = D * n
        /\ num = n * u + price * v * d /\ den = d * w
    BY <1>1, <1>7 DEF num, den
  <2> HIDE DEF n, d
  <2>2. /\ is * (d * w) = (is * w) * d
        /\ D * (n * u + price * v * d) = (D * n) * u + (D * (v * price)) * d
        /\ (was * d) * u = (was * u) * d
        /\ (was * u) * d + (D * (v * price)) * d = (was * u + D * (v * price)) * d
    <3>1. is * (d * w) = (is * w) * d /\ (was * d) * u = (was * u) * d
      BY <1>3, <2>1
    <3>2. D * (n * u + price * v * d) = (D * n) * u + (D * (v * price)) * d
      BY <1>3, <2>1
    <3>3. (was * u) * d + (D * (v * price)) * d = (was * u + D * (v * price)) * d
      <4>1. was * u \in Int /\ D * (v * price) \in Int
        BY <1>3
      <4> QED BY <2>1, <4>1
    <3> QED BY <3>1, <3>2, <3>3
  <2>3. (is * w) * d = (was * u + D * (v * price)) * d
    BY <1>8, <2>1, <2>2
  <2>4. is * w \in Int /\ was * u + D * (v * price) \in Int
    <3>1. is * w \in Int /\ was * u \in Int /\ D * (v * price) \in Int
      BY <1>3
    <3> QED BY <3>1
  <2> QED BY <2>1, <2>3, <2>4, Cancelled
<1>10. CASE q = u /\ signed = v
  BY <1>3, <1>9, <1>10 DEF q
<1>11. CASE q = -u /\ signed = -v
  <2>1. q + signed = -w
    BY <1>3, <1>11
  <2>2. (-w) * is = -(is * w) /\ (-u) * was = -(was * u) /\ D * ((-v) * price) = -(D * (v * price))
    BY <1>3
  <2>3. is * w \in Int /\ was * u \in Int /\ D * (v * price) \in Int
    BY <1>3
  <2>4. (q + signed) * is = q * was + D * (signed * price)
    BY <1>9, <1>11, <2>1, <2>2, <2>3
  <2> QED BY <2>4 DEF q
<1> QED BY <1>3, <1>10, <1>11

\* book.go, move: whatever is done to a position, it costs afterwards what it cost, what
\* was paid, and what of it was closed made.
LEMMA MoveKeeps ==
  ASSUME NEW p \in Positions, NEW signed \in Int, NEW price \in Int, NEW size \in Int,
         NEW D \in Nat \ {0}, NEW was \in Int, NEW is \in Int,
         InParts(was, D, p.avg), InParts(is, D, Adjusted(p, signed, price).avg)
  PROVE  \E made \in Int :
           /\ InParts(made, D, ClosedAt(p, signed, price, size))
           /\ (p.qty + signed) * size * is
                = p.qty * size * was + D * (signed * size * price) + made
<1> DEFINE q == p.qty
           more == q + signed
           now == Adjusted(p, signed, price)
           shut == Min({Abs(q), Abs(signed)})
           k == IF q > 0 THEN shut * size ELSE -(shut * size)
<1>1. q \in Int /\ p.avg \in Fractions
  BY DEF Positions
<1>2. /\ more # 0 => now.avg = IF q * signed > 0 THEN now.avg
                               ELSE IF Abs(signed) > Abs(q) THEN Whole(price) ELSE p.avg
  BY DEF Adjusted
<1>3. Abs(q) \in Nat /\ Abs(signed) \in Nat /\ shut = IF Abs(q) <= Abs(signed) THEN Abs(q) ELSE Abs(signed)
  <2>1. Abs(q) \in Nat /\ Abs(signed) \in Nat
    <3> HIDE DEF q
    <3> QED BY <1>1 DEF Abs
  <2> QED BY <2>1, MinOfTwo
<1>4. Whole(price) \in Fractions /\ InParts(D * price, D, Whole(price)) /\ D * price \in Int
  <2>1. D * price \in Int
    OBVIOUS
  <2> QED BY <2>1, WholeIs
<1>5. Whole(0) \in Fractions /\ InParts(0, D, Whole(0))
  BY DEF Whole, Fractions, InParts
<1>6. q * signed >= 0 => ClosedAt(p, signed, price, size) = Whole(0)
  BY DEF ClosedAt
<1>7. q * signed < 0 => InParts(k * (D * price - was), D, ClosedAt(p, signed, price, size))
  <2> SUFFICES ASSUME p.qty * signed < 0
               PROVE  InParts(k * (D * price - was), D, ClosedAt(p, signed, price, size))
    OBVIOUS
  <2>1. shut \in Int
    BY <1>3
  <2> QED BY <2>1, ClosedInParts
<1>8. (now.avg = p.avg => is = was) /\ (now.avg = Whole(price) => is = D * price)
  <2> HIDE DEF now
  <2> QED BY <1>1, <1>4, PartsAreOne DEF now
<1>9. q * signed > 0 => more * is = q * was + D * (signed * price)
  BY AddedInParts
<1>10. q * signed \in Int /\ more \in Int
  <2> HIDE DEF q
  <2> QED BY <1>1
<1>11. ASSUME q * signed < 0
       PROVE  (q > 0 /\ signed < 0) \/ (q < 0 /\ signed > 0)
  <2>1. \A x, y \in Int : x * y < 0 => (x > 0 /\ y < 0) \/ (x < 0 /\ y > 0)
    BY Signs
  <2> HIDE DEF q
  <2> QED BY <1>1, <1>11, <2>1
<1>12. \A x \in Int : 0 * x = 0 /\ x * 0 = 0
  OBVIOUS
<1> HIDE DEF now
<1>13. CASE q * signed > 0
  <2>1. more * size * is = q * size * was + D * (signed * size * price) + 0
    <3> HIDE DEF more, q
    <3>1. more * size * is = size * (more * is)
      BY <1>10
    <3>2. size * (q * was + D * (signed * price)) = q * size * was + D * (signed * size * price)
      BY <1>1
    <3>3. q * size * was + D * (signed * size * price) \in Int
      BY <1>1
    <3> QED BY <1>9, <1>13, <3>1, <3>2, <3>3
  <2>2. q * signed >= 0
    BY <1>10, <1>13
  <2> QED BY <1>5, <1>6, <2>1, <2>2
<1>14. CASE q * signed = 0
  <2>1. q = 0 \/ signed = 0
    <3> HIDE DEF q
    <3> QED BY <1>1, <1>14
  <2>2. CASE signed = 0 /\ q # 0
    <3>1. more # 0 /\ more = q /\ Abs(signed) = 0
      BY <1>1, <2>2 DEF Abs
    <3>2. ~(Abs(signed) > Abs(q))
      BY <1>3, <3>1
    <3>3. now.avg = p.avg
      BY <1>2, <1>10, <1>14, <3>1, <3>2
    <3>4. is = was
      BY <1>8, <3>3
    <3> HIDE DEF q, more
    <3>5. D * (signed * size * price) = 0
      BY <2>2
    <3>6. q * size * was \in Int
      BY <1>1
    <3>7. more * size * is = q * size * was + D * (signed * size * price) + 0
      BY <3>1, <3>4, <3>5, <3>6
    <3> QED BY <1>5, <1>6, <1>14, <3>7 DEF q, more
  <2>3. CASE q = 0 /\ signed # 0
    <3>1. more # 0 /\ more = signed
      BY <2>3
    <3>2. Abs(signed) > Abs(q)
      BY <2>3 DEF Abs
    <3>3. is = D * price
      BY <1>2, <1>8, <1>10, <1>14, <3>1, <3>2
    <3> HIDE DEF q, more
    <3>4. q * size * was = 0
      BY <2>3
    <3>5. signed * size * (D * price) = D * (signed * size * price)
          /\ D * (signed * size * price) \in Int
      OBVIOUS
    <3>6. more * size * is = q * size * was + D * (signed * size * price) + 0
      BY <3>1, <3>3, <3>4, <3>5
    <3> QED BY <1>5, <1>6, <1>14, <3>6 DEF q, more
  <2>4. CASE q = 0 /\ signed = 0
    <3>1. more = 0
      BY <2>4
    <3> HIDE DEF q, more
    <3>2. q * size * was = 0 /\ D * (signed * size * price) = 0 /\ more * size * is = 0
      BY <2>4, <3>1
    <3>3. more * size * is = q * size * was + D * (signed * size * price) + 0
      BY <3>2
    <3> QED BY <1>5, <1>6, <1>14, <3>3 DEF q, more
  <2> QED BY <2>1, <2>2, <2>3, <2>4
<1>15. CASE q * signed < 0
  <2> DEFINE rest == k * (D * price - was)
  <2>1. D * price - was \in Int
    OBVIOUS
  <2>2. CASE Abs(signed) >= Abs(q)
    <3>1. k = q * size
      <4>1. shut = Abs(q)
        BY <1>3, <2>2
      <4>2. CASE q > 0
        <5>1. shut = q
          <6> HIDE DEF shut, q
          <6> QED BY <1>1, <4>1, <4>2 DEF Abs
        <5>2. k = shut * size
          BY <4>2
        <5> HIDE DEF k, shut, q
        <5> QED BY <5>1, <5>2
      <4>3. CASE q < 0
        <5>1. shut = -q
          BY <4>1, <4>3 DEF Abs
        <5>2. k = -((-q) * size)
          BY <1>1, <4>3, <5>1
        <5> HIDE DEF q, k
        <5>3. -((-q) * size) = q * size
          BY <1>1
        <5> QED BY <5>2, <5>3
      <4> QED BY <1>11, <1>15, <4>2, <4>3
    <3>2. more = 0 \/ is = D * price
      <4>1. CASE Abs(signed) > Abs(q)
        BY <1>2, <1>8, <1>10, <1>15, <4>1
      <4>2. CASE ~(Abs(signed) > Abs(q))
        <5>1. Abs(signed) = Abs(q)
          BY <1>3, <2>2, <4>2
        <5>2. more = 0
          <6> HIDE DEF q
          <6> QED BY <1>1, <1>11, <1>15, <5>1 DEF Abs
        <5> QED BY <5>2
      <4> QED BY <4>1, <4>2
    <3> HIDE DEF k
    <3>3. more * size * is = more * size * (D * price)
      <4> HIDE DEF more
      <4>1. CASE more = 0
        <5>1. \A x \in Int : more * size * x = 0
          BY <4>1
        <5> QED BY <1>4, <5>1
      <4> QED BY <3>2, <4>1
    <3>4. more * size * (D * price)
            = q * size * was + D * (signed * size * price) + (q * size) * (D * price - was)
      <4> DEFINE a == q * size
                 b == signed * size
      <4>1. a \in Int /\ b \in Int
        <5> HIDE DEF q
        <5> QED BY <1>1
      <4>2. more * size = a + b
        <5> HIDE DEF q
        <5> QED BY <1>1
      <4> HIDE DEF a, b, more, q
      <4>3. (a + b) * (D * price) = a * was + D * (b * price) + a * (D * price - was)
        BY <4>1
      <4> QED BY <4>2, <4>3 DEF a, b
    <3>5. more * size * is = q * size * was + D * (signed * size * price) + rest
      BY <3>1, <3>3, <3>4
    <3>6. rest \in Int
      <4>1. q * size \in Int
        <5> HIDE DEF q
        <5> QED BY <1>1
      <4> HIDE DEF q
      <4> QED BY <2>1, <3>1, <4>1
    <3> QED BY <1>7, <1>15, <3>5, <3>6
  <2>3. CASE Abs(signed) < Abs(q)
    <3>1. k = -(signed * size)
      <4>1. shut = Abs(signed)
        BY <1>3, <2>3
      <4>2. CASE q > 0
        <5>1. shut = -signed
          <6>1. signed < 0
            BY <1>1, <1>11, <1>15, <4>2
          <6> HIDE DEF shut, q
          <6> QED BY <4>1, <6>1 DEF Abs
        <5>2. k = (-signed) * size
          BY <4>2, <5>1
        <5> QED BY <5>2
      <4>3. CASE q < 0
        <5>1. shut = signed
          BY <1>1, <1>11, <1>15, <4>1, <4>3 DEF Abs
        <5> QED BY <1>1, <4>3, <5>1
      <4> QED BY <1>11, <1>15, <4>2, <4>3
    <3>2. more # 0 /\ ~(Abs(signed) > Abs(q))
      <4> HIDE DEF q
      <4> QED BY <1>1, <1>3, <2>3 DEF Abs
    <3>3. is = was
      BY <1>2, <1>8, <1>10, <1>15, <3>2
    <3> HIDE DEF k
    <3>4. more * size * was
            = q * size * was + D * (signed * size * price) + (-(signed * size)) * (D * price - was)
      <4> DEFINE a == q * size
                 b == signed * size
      <4>1. a \in Int /\ b \in Int
        <5> HIDE DEF q
        <5> QED BY <1>1
      <4>2. more * size = a + b
        <5> HIDE DEF q
        <5> QED BY <1>1
      <4> HIDE DEF a, b, more, q
      <4>3. (a + b) * was = a * was + D * (b * price) + (-b) * (D * price - was)
        BY <4>1
      <4> QED BY <4>2, <4>3 DEF a, b
    <3>5. more * size * is = q * size * was + D * (signed * size * price) + rest
      BY <3>1, <3>3, <3>4
    <3>6. rest \in Int
      <4>1. -(signed * size) \in Int
        OBVIOUS
      <4> QED BY <2>1, <3>1, <4>1
    <3> QED BY <1>7, <1>15, <3>5, <3>6
  <2> QED BY <1>3, <2>2, <2>3
<1> QED BY <1>10, <1>13, <1>14, <1>15

-----------------------------------------------------------------------------
(* The books balance.                                                      *)

\* The entry prices of what is held, in parts of which D make one, and what it cost.
Parts(D, A, held) ==
  A \in [Instruments -> Int] /\ \A x \in Instruments : InParts(A[x], D, held[x].avg)
Basis(held, A) == [x \in Instruments |-> held[x].qty * SizeOf(x) * A[x]]

\* Whatever is held, before and after, can be counted in parts of one size.
LEMMA CommonParts ==
  ASSUME NEW held \in [Instruments -> Positions], NEW more \in [Instruments -> Positions],
         NEW made \in Fractions
  PROVE  \E D \in Nat \ {0}, A, B \in [Instruments -> Int], M \in Int :
           Parts(D, A, held) /\ Parts(D, B, more) /\ InParts(M, D, made)
<1> DEFINE f == [x \in Instruments |-> held[x].avg]
           h == [x \in Instruments |-> more[x].avg]
           F == {f[x] : x \in Instruments}
           H == {h[x] : x \in Instruments}
           all == (F \cup H) \cup {made}
<1>1. IsFiniteSet(Instruments)
  BY RiskAssumption, FS_Union DEF Instruments
<1>2. \A x \in Instruments : f[x] \in Fractions /\ h[x] \in Fractions /\ f[x] \in F /\ h[x] \in H
  BY DEF Positions
<1>3. IsFiniteSet(F) /\ IsFiniteSet(H) /\ F \subseteq Fractions /\ H \subseteq Fractions
  <2> HIDE DEF f, h
  <2> QED BY <1>1, <1>2, ImageIsFinite
<1> HIDE DEF F, H
<1>4. IsFiniteSet(all) /\ all \subseteq Fractions
  <2>1. IsFiniteSet({made}) /\ IsFiniteSet(F \cup H)
    BY <1>3, FS_Singleton, FS_Union
  <2> QED BY <1>3, <2>1, FS_Union
<1>5. PICK D : IsCommon(D, all)
  BY <1>4, HasCommon
<1>6. D \in Nat \ {0} /\ \A a \in all : \E n \in Int : InParts(n, D, a)
  BY <1>5 DEF IsCommon
<1> DEFINE A == [x \in Instruments |-> CHOOSE n \in Int : InParts(n, D, held[x].avg)]
           B == [x \in Instruments |-> CHOOSE n \in Int : InParts(n, D, more[x].avg)]
<1>7. PICK M \in Int : InParts(M, D, made)
  BY <1>6
<1>8. \A x \in Instruments : /\ A[x] \in Int /\ InParts(A[x], D, held[x].avg)
                             /\ B[x] \in Int /\ InParts(B[x], D, more[x].avg)
  <2> SUFFICES ASSUME NEW x \in Instruments
               PROVE  /\ A[x] \in Int /\ InParts(A[x], D, held[x].avg)
                      /\ B[x] \in Int /\ InParts(B[x], D, more[x].avg)
    OBVIOUS
  <2>1. held[x].avg \in all /\ more[x].avg \in all
    BY <1>2
  <2>2. (\E n \in Int : InParts(n, D, held[x].avg)) /\ \E n \in Int : InParts(n, D, more[x].avg)
    BY <1>6, <2>1
  <2>3. /\ A[x] = CHOOSE n \in Int : InParts(n, D, held[x].avg)
        /\ B[x] = CHOOSE n \in Int : InParts(n, D, more[x].avg)
    OBVIOUS
  <2> HIDE DEF A, B
  <2> QED BY <2>2, <2>3
<1>9. A \in [Instruments -> Int] /\ B \in [Instruments -> Int]
  <2>1. /\ A = [x \in Instruments |-> A[x]] /\ B = [x \in Instruments |-> B[x]]
    OBVIOUS
  <2> HIDE DEF A, B
  <2> QED BY <1>8, <2>1
<1> HIDE DEF A, B
<1>10. Parts(D, A, held) /\ Parts(D, B, more)
  BY <1>8, <1>9 DEF Parts
<1> QED BY <1>6, <1>7, <1>9, <1>10

\* What is held cost, in parts, what its basis adds up to.
LEMMA BasisIs ==
  ASSUME NEW held \in [Instruments -> Positions], NEW D \in Nat \ {0}, NEW A, Parts(D, A, held)
  PROVE  /\ IsFiniteSet(Instruments)
         /\ \A x \in Instruments :
              /\ held[x].qty \in Int /\ SizeOf(x) \in Nat \ {0} /\ A[x] \in Int
              /\ Basis(held, A)[x] = held[x].qty * SizeOf(x) * A[x]
              /\ Basis(held, A)[x] \in Int
              /\ CostBasis(held, x) \in Fractions /\ InParts(Basis(held, A)[x], D, CostBasis(held, x))
         /\ SumFunctionOnSet(Basis(held, A), Instruments) \in Int
         /\ CostOfAll(held) \in Fractions
         /\ InParts(SumFunctionOnSet(Basis(held, A), Instruments), D, CostOfAll(held))
<1>1. IsFiniteSet(Instruments)
  BY RiskAssumption, FS_Union DEF Instruments
<1>2. ASSUME NEW x \in Instruments
      PROVE  /\ held[x].qty \in Int /\ SizeOf(x) \in Nat \ {0} /\ A[x] \in Int
             /\ Basis(held, A)[x] = held[x].qty * SizeOf(x) * A[x]
             /\ Basis(held, A)[x] \in Int
             /\ CostBasis(held, x) \in Fractions /\ InParts(Basis(held, A)[x], D, CostBasis(held, x))
  <2> DEFINE k == held[x].qty * SizeOf(x)
             avg == held[x].avg
             part == A[x]
  <2>1. held[x].qty \in Int /\ avg \in Fractions /\ SizeOf(x) \in Nat \ {0}
    BY RiskAssumption DEF Positions, SizeOf
  <2>2. part \in Int /\ InParts(part, D, avg)
    BY DEF Parts
  <2>3. k \in Int
    BY <2>1
  <2>4. Basis(held, A)[x] = k * part
    BY DEF Basis
  <2>5. CostBasis(held, x) = Times(k, avg)
    BY DEF CostBasis
  <2> HIDE DEF k, avg, part
  <2>6. Times(k, avg) \in Fractions /\ InParts(k * part, D, Times(k, avg)) /\ k * part \in Int
    <3>1. k * part \in Int
      BY <2>2, <2>3
    <3> QED BY <2>1, <2>2, <2>3, <3>1, TimesInParts
  <2> QED BY <2>1, <2>2, <2>4, <2>5, <2>6 DEF k, avg, part
<1>3. SumFunctionOnSet(Basis(held, A), Instruments) \in Int
  BY <1>1, <1>2, SumIsInt
<1>4. /\ CostOfAll(held) \in Fractions
      /\ InParts(SumFunctionOnSet(Basis(held, A), Instruments), D, CostOfAll(held))
  <2> DEFINE f == [x \in Instruments |-> CostBasis(held, x)]
             F == Basis(held, A)
  <2>1. \A x \in Instruments : f[x] \in Fractions /\ F[x] \in Int /\ InParts(F[x], D, f[x])
    BY <1>2
  <2>2. CostOfAll(held) = TotalOf(f, Instruments)
    BY DEF CostOfAll
  <2> HIDE DEF f, F
  <2> QED BY <1>1, <2>1, <2>2, TotalInParts DEF F
<1> QED BY <1>1, <1>2, <1>3, <1>4

\* What it is for the books to balance, in parts.
Balance(held, cash, made, fees) ==
  Same(Sum2(CostOfAll(held), Whole(cash)), Sum2(made, Whole(Start - fees)))

\* The books balance where the parts do.
LEMMA BalanceInParts ==
  ASSUME NEW held \in [Instruments -> Positions], NEW D \in Nat \ {0}, NEW A, Parts(D, A, held),
         NEW cash \in Int, NEW fees \in Int, NEW made \in Fractions, NEW M \in Int, InParts(M, D, made)
  PROVE  Balance(held, cash, made, fees) <=>
           SumFunctionOnSet(Basis(held, A), Instruments) + D * cash = M + D * (Start - fees)
<1> DEFINE S == SumFunctionOnSet(Basis(held, A), Instruments)
           all == CostOfAll(held)
<1>1. S \in Int /\ all \in Fractions /\ InParts(S, D, all)
  BY BasisIs
<1> HIDE DEF S, all
<1>2. Start - fees \in Int /\ D * cash \in Int /\ D * (Start - fees) \in Int
  <2>1. Start - fees \in Int
    BY ArithmeticAssumption
  <2> QED BY <2>1
<1>3. /\ Whole(cash) \in Fractions /\ InParts(D * cash, D, Whole(cash))
      /\ Whole(Start - fees) \in Fractions /\ InParts(D * (Start - fees), D, Whole(Start - fees))
  BY <1>2, WholeIs
<1> DEFINE a == Sum2(all, Whole(cash))
           b == Sum2(made, Whole(Start - fees))
<1>4. a \in Fractions /\ InParts(S + D * cash, D, a)
  BY <1>1, <1>2, <1>3, SumInParts
<1>5. b \in Fractions /\ InParts(M + D * (Start - fees), D, b)
  BY <1>2, <1>3, SumInParts
<1>6. S + D * cash \in Int /\ M + D * (Start - fees) \in Int
  BY <1>1, <1>2
<1> HIDE DEF a, b
<1>7. Same(a, b) <=> S + D * cash = M + D * (Start - fees)
  BY <1>4, <1>5, <1>6, SameInParts
<1> QED BY <1>7 DEF Balance, a, b, all, S

\* match.go: a fill keeps the books balanced.
LEMMA FillBalances ==
  ASSUME NEW cash \in Int, NEW held \in [Instruments -> Positions], NEW made \in Fractions,
         NEW fees \in Int, NEW t, IsTrade(t), NEW m, IsReading(m), Balance(held, cash, made, fees)
  PROVE  LET after  == Traded(cash, held, t.legs, t.sets, m)
             closed == [c \in Contracts |-> ClosedAt(held[c], t.legs[c] * t.sets,
                                                    Side(m[c], t.legs[c] > 0), Multiplier)]
         IN Balance(after.held, after.cash, Sum2(made, TotalOf(closed, Contracts)),
                    fees + ContractsIn(t.legs, t.sets) * PerContract)
<1> DEFINE after  == Traded(cash, held, t.legs, t.sets, m)
           n(c)   == t.legs[c] * t.sets
           at(c)  == Side(m[c], t.legs[c] > 0)
           closed == [c \in Contracts |-> ClosedAt(held[c], n(c), at(c), Multiplier)]
           price  == SetPrice(t.legs, m)
           fee    == ContractsIn(t.legs, t.sets) * PerContract
           cost   == [c \in Contracts |-> t.legs[c] * at(c)]
<1>1. t.legs \in Holdings /\ t.sets \in Nat
  BY DEF IsTrade
<1>2. /\ after.cash \in Int /\ after.held \in [Instruments -> Positions]
      /\ after.cash = cash - price * t.sets * Multiplier - fee
      /\ \A c \in Contracts : /\ after.held[c] = Adjusted(held[c], n(c), at(c))
                              /\ after.held[c].qty = held[c].qty + n(c)
      /\ \A r \in Roots : after.held[r] = held[r]
  BY <1>1, TradedIs
<1>3. /\ IsFiniteSet(Contracts) /\ Contracts \subseteq Instruments
      /\ \A c \in Contracts : t.legs[c] \in Int /\ at(c) \in Int
      /\ price \in Int /\ price = SumFunctionOnSet(cost, Contracts)
      /\ ContractsIn(t.legs, t.sets) \in Nat
  BY <1>1, SetPriceIs
<1>4. fee \in Int
  <2>1. \A x, y \in Int : x * y \in Int
    OBVIOUS
  <2> QED BY <1>3, <2>1, ValuationAssumption
<1> HIDE DEF after
<1>5. PICK D \in Nat \ {0}, A, B \in [Instruments -> Int], M \in Int :
        Parts(D, A, held) /\ Parts(D, B, after.held) /\ InParts(M, D, made)
  BY <1>2, CommonParts
<1>6. M \in Int /\ InParts(M, D, made)
  BY <1>5
<1>7. Parts(D, A, held) /\ Parts(D, B, after.held)
  BY <1>5
<1> DEFINE F == Basis(held, A)
           G == Basis(after.held, B)
           k == D * (t.sets * Multiplier)
           gain(c) == CHOOSE g \in Int :
                        /\ InParts(g, D, closed[c])
                        /\ G[c] = F[c] + k * cost[c] + g
           U == [c \in Contracts |-> gain(c)]
<1>8. /\ IsFiniteSet(Instruments)
      /\ \A x \in Instruments : held[x].qty \in Int /\ SizeOf(x) \in Nat \ {0} /\ A[x] \in Int
                                  /\ F[x] = held[x].qty * SizeOf(x) * A[x] /\ F[x] \in Int
      /\ SumFunctionOnSet(F, Instruments) \in Int
  BY <1>7, BasisIs
<1>9. /\ \A x \in Instruments : B[x] \in Int
                                  /\ G[x] = after.held[x].qty * SizeOf(x) * B[x] /\ G[x] \in Int
      /\ SumFunctionOnSet(G, Instruments) \in Int
  <2>1. \A h1 \in [Instruments -> Positions] : Parts(D, B, h1) =>
          /\ \A x \in Instruments : B[x] \in Int /\ Basis(h1, B)[x] = h1[x].qty * SizeOf(x) * B[x]
                                      /\ Basis(h1, B)[x] \in Int
          /\ SumFunctionOnSet(Basis(h1, B), Instruments) \in Int
    <3> SUFFICES ASSUME NEW h1 \in [Instruments -> Positions], Parts(D, B, h1)
                 PROVE  /\ \A x \in Instruments :
                             B[x] \in Int /\ Basis(h1, B)[x] = h1[x].qty * SizeOf(x) * B[x]
                               /\ Basis(h1, B)[x] \in Int
                        /\ SumFunctionOnSet(Basis(h1, B), Instruments) \in Int
      OBVIOUS
    <3> QED BY BasisIs
  <2> QED BY <1>2, <1>7, <2>1
<1>10. k \in Int
  <2>1. t.sets * Multiplier \in Int
    BY <1>1, RiskAssumption
  <2> QED BY <2>1
<1>11. \A c \in Contracts : cost[c] = t.legs[c] * at(c) /\ cost[c] \in Int /\ k * cost[c] \in Int
  <2>1. \A x, y \in Int : x * y \in Int
    OBVIOUS
  <2> HIDE DEF at, k
  <2> QED BY <1>3, <1>10, <2>1
<1>12. ASSUME NEW c \in Contracts
       PROVE  \E g \in Int : InParts(g, D, closed[c]) /\ G[c] = F[c] + k * cost[c] + g
  <2> DEFINE p == held[c]
             s == n(c)
             r == at(c)
             a == A[c]
             b == B[c]
  <2>1. c \in Instruments /\ SizeOf(c) = Multiplier /\ Multiplier \in Int
    BY <1>3, RiskAssumption DEF SizeOf
  <2>2. p \in Positions /\ r \in Int /\ a \in Int /\ b \in Int
    BY <1>3, <1>8, <1>9, <2>1
  <2>3. s \in Int
    BY <1>1, <1>3
  <2>4. InParts(a, D, p.avg) /\ InParts(b, D, Adjusted(p, s, r).avg)
    BY <1>2, <1>7, <2>1 DEF Parts
  <2>5. closed[c] = ClosedAt(p, s, r, Multiplier)
    OBVIOUS
  <2>6. G[c] = (p.qty + s) * Multiplier * b /\ F[c] = p.qty * Multiplier * a
    BY <1>2, <1>8, <1>9, <2>1
  <2>7. s * Multiplier * r = (t.sets * Multiplier) * cost[c]
    <3> DEFINE l == t.legs[c]
    <3>1. l \in Int /\ s = l * t.sets /\ cost[c] = l * r
      BY <1>3
    <3> HIDE DEF l, s, r, cost
    <3> QED BY <1>1, <2>1, <2>2, <3>1
  <2> HIDE DEF p, s, r, a, b, closed, F, G
  <2>8. PICK g \in Int :
          /\ InParts(g, D, ClosedAt(p, s, r, Multiplier))
          /\ (p.qty + s) * Multiplier * b = p.qty * Multiplier * a + D * (s * Multiplier * r) + g
    BY <2>1, <2>2, <2>3, <2>4, MoveKeeps
  <2>9. D * ((t.sets * Multiplier) * cost[c]) = k * cost[c]
    <3>1. t.sets * Multiplier \in Int /\ cost[c] \in Int
      BY <1>1, <1>11, <2>1
    <3> DEFINE w == t.sets * Multiplier
               v == cost[c]
    <3> HIDE DEF w, v
    <3>2. D * (w * v) = (D * w) * v
      BY <3>1 DEF w, v
    <3> QED BY <3>2 DEF w, v
  <2>10. InParts(g, D, closed[c]) /\ G[c] = F[c] + k * cost[c] + g
    BY <2>5, <2>6, <2>7, <2>8, <2>9
  <2> QED BY <2>10
<1>13. \A c \in Contracts : U[c] \in Int /\ InParts(U[c], D, closed[c]) /\ G[c] = F[c] + k * cost[c] + U[c]
  <2> SUFFICES ASSUME NEW c \in Contracts
               PROVE  U[c] \in Int /\ InParts(U[c], D, closed[c]) /\ G[c] = F[c] + k * cost[c] + U[c]
    OBVIOUS
  <2>1. U[c] = gain(c)
    OBVIOUS
  <2> HIDE DEF F, G, closed, k, cost
  <2>2. \E g \in Int : InParts(g, D, closed[c]) /\ G[c] = F[c] + k * cost[c] + g
    BY <1>12
  <2> HIDE DEF U
  <2> QED BY <2>1, <2>2
<1>14. \A c \in Contracts : closed[c] \in Fractions
  <2> SUFFICES ASSUME NEW c \in Contracts PROVE closed[c] \in Fractions
    OBVIOUS
  <2>1. held[c] \in Positions /\ n(c) \in Int /\ at(c) \in Int /\ Multiplier \in Int
    BY <1>1, <1>3, RiskAssumption
  <2> HIDE DEF n, at
  <2> QED BY <2>1, ClosedAtIs
<1>15. \A x \in Instruments \ Contracts : G[x] = F[x]
  <2> SUFFICES ASSUME NEW x \in Instruments \ Contracts PROVE G[x] = F[x]
    OBVIOUS
  <2>1. x \in Roots /\ after.held[x] = held[x] /\ x \in Instruments
    BY <1>2 DEF Instruments
  <2>2. held[x].avg \in Fractions /\ InParts(A[x], D, held[x].avg) /\ InParts(B[x], D, held[x].avg)
    BY <1>7, <2>1 DEF Parts, Positions
  <2>3. A[x] = B[x]
    BY <1>8, <1>9, <2>2, PartsAreOne
  <2> HIDE DEF F, G
  <2> QED BY <1>8, <1>9, <2>1, <2>3
<1> HIDE DEF F, G, U, closed, k, cost, price, fee, n, at
<1> DEFINE V == [c \in Contracts |-> k * cost[c]]
           W == [c \in Contracts |-> V[c] + U[c]]
           E == [x \in Instruments |-> IF x \in Contracts THEN W[x] ELSE 0]
<1>16. \A c \in Contracts : V[c] = k * cost[c] /\ V[c] \in Int /\ U[c] \in Int /\ W[c] = V[c] + U[c]
                              /\ W[c] \in Int
  BY <1>11, <1>13
<1> HIDE DEF V, W
<1>17. \A x \in Instruments : E[x] \in Int /\ F[x] \in Int /\ G[x] \in Int /\ G[x] = F[x] + E[x]
                               /\ (x \in Contracts => E[x] = W[x]) /\ (x \notin Contracts => E[x] = 0)
  <2> SUFFICES ASSUME NEW x \in Instruments
               PROVE  E[x] \in Int /\ F[x] \in Int /\ G[x] \in Int /\ G[x] = F[x] + E[x]
                      /\ (x \in Contracts => E[x] = W[x]) /\ (x \notin Contracts => E[x] = 0)
    OBVIOUS
  <2>1. F[x] \in Int /\ G[x] \in Int
    BY <1>8, <1>9
  <2>2. CASE x \in Contracts
    <3>1. E[x] = W[x] /\ W[x] \in Int /\ W[x] = V[x] + U[x] /\ V[x] = k * cost[x]
      BY <1>16, <2>2
    <3>2. G[x] = F[x] + k * cost[x] + U[x] /\ U[x] \in Int /\ V[x] \in Int
      BY <1>13, <1>16, <2>2
    <3> HIDE DEF E
    <3> QED BY <2>1, <2>2, <3>1, <3>2
  <2>3. CASE x \notin Contracts
    BY <1>15, <2>1, <2>3
  <2> QED BY <2>2, <2>3
<1> HIDE DEF E
<1>18. SumFunctionOnSet(G, Instruments) = SumFunctionOnSet(F, Instruments) + SumFunctionOnSet(E, Instruments)
  BY <1>8, <1>17, SumOfSums
<1>19. SumFunctionOnSet(E, Instruments) = SumFunctionOnSet(E, Contracts)
  BY <1>3, <1>8, <1>17, SumPadded
<1>20. SumFunctionOnSet(E, Contracts) = SumFunctionOnSet(W, Contracts)
  <2>1. \A c \in Contracts : E[c] = W[c]
    BY <1>3, <1>17
  <2> QED BY <1>3, <2>1, SumOfSame
<1>21. SumFunctionOnSet(W, Contracts) = SumFunctionOnSet(V, Contracts) + SumFunctionOnSet(U, Contracts)
  BY <1>3, <1>16, SumOfSums
<1>22. SumFunctionOnSet(V, Contracts) = k * price
  <2>1. SumFunctionOnSet(V, Contracts) = k * SumFunctionOnSet(cost, Contracts)
    <3>1. (\A c \in Contracts : cost[c] \in Int /\ V[c] = k * cost[c])
          /\ IsFiniteSet(Contracts) /\ k \in Int
      BY <1>3, <1>10, <1>11, <1>16
    <3> QED BY <3>1, SumScaled
  <2> QED BY <1>3, <2>1
<1> DEFINE total == TotalOf(closed, Contracts)
           X == SumFunctionOnSet(U, Contracts)
<1>23. total \in Fractions /\ InParts(X, D, total)
  BY <1>3, <1>13, <1>14, TotalInParts
<1>24. X \in Int
  BY <1>3, <1>16, SumIsInt
<1> HIDE DEF total, X
<1>25. Sum2(made, total) \in Fractions /\ InParts(M + X, D, Sum2(made, total)) /\ M + X \in Int
  <2>1. M + X \in Int
    BY <1>24
  <2> QED BY <1>6, <1>23, <1>24, <2>1, SumInParts
<1>26. SumFunctionOnSet(F, Instruments) + D * cash = M + D * (Start - fees)
  BY <1>6, <1>7, BalanceInParts DEF F
<1>27. SumFunctionOnSet(G, Instruments) = SumFunctionOnSet(F, Instruments) + k * price + X
  <2>1. k * price \in Int
    BY <1>3, <1>10
  <2> QED BY <1>8, <1>18, <1>19, <1>20, <1>21, <1>22, <1>24, <2>1 DEF X
<1>28. SumFunctionOnSet(G, Instruments) + D * after.cash = (M + X) + D * (Start - (fees + fee))
  <2> DEFINE SF == SumFunctionOnSet(F, Instruments)
             w == t.sets * Multiplier
  <2>1. SF \in Int /\ w \in Int /\ Start \in Int /\ price \in Int
    BY <1>1, <1>3, <1>8, RiskAssumption, ArithmeticAssumption
  <2>2. price * t.sets * Multiplier = w * price
    BY <1>1, <1>3, RiskAssumption
  <2>3. k * price = D * (w * price)
    <3> HIDE DEF w
    <3>1. k = D * w
      BY DEF k, w
    <3> QED BY <2>1, <3>1
  <2> DEFINE y == w * price
  <2>4. y \in Int
    <3> HIDE DEF w
    <3> QED BY <2>1
  <2>5. after.cash = cash - y - fee
    BY <1>2, <2>2
  <2> HIDE DEF y, w, SF
  <2>6. SF + D * y + X + D * (cash - y - fee) = (M + X) + D * (Start - (fees + fee))
    <3>1. D * (cash - y - fee) = D * cash - D * y - D * fee
      BY <1>4, <2>4
    <3>2. D * (Start - (fees + fee)) = D * (Start - fees) - D * fee
      BY <1>4, <2>1
    <3>3. D * cash \in Int /\ D * y \in Int /\ D * fee \in Int /\ D * (Start - fees) \in Int
      <4>1. Start - fees \in Int
        BY <2>1
      <4> QED BY <1>4, <2>4, <4>1
    <3> QED BY <1>24, <1>26, <2>1, <3>1, <3>2, <3>3 DEF SF
  <2> QED BY <1>27, <2>3, <2>5, <2>6 DEF SF, y
<1>29. Balance(after.held, after.cash, Sum2(made, total), fees + fee)
  <2>1. fees + fee \in Int
    BY <1>4
  <2>2. \A h1 \in [Instruments -> Positions], c1, f1 \in Int, m1 \in Fractions, M1 \in Int :
          Parts(D, B, h1) /\ InParts(M1, D, m1)
            /\ SumFunctionOnSet(Basis(h1, B), Instruments) + D * c1 = M1 + D * (Start - f1)
          => Balance(h1, c1, m1, f1)
    BY BalanceInParts
  <2> QED BY <1>2, <1>7, <1>25, <1>28, <2>1, <2>2 DEF G
<1> QED BY <1>29 DEF after, total, closed, fee, n, at

\* book.go, settle: a contract that expires, and what it turns into, keep the books
\* balanced.
LEMMA SettlementBalances ==
  ASSUME NEW cash \in Int, NEW held \in [Instruments -> Positions], NEW made \in Fractions,
         NEW fees \in Int, NEW c \in Contracts, NEW under \in Int, Balance(held, cash, made, fees)
  PROVE  LET after  == Exercised(cash, held, c, under)
             root   == Term[c].root
             turned == (IF Term[c].call THEN 1 ELSE -1) * held[c].qty * Multiplier
             closed == ClosedAt(held[c], -held[c].qty, 0, Multiplier)
             given  == IF Intrinsic(c, under) = 0 THEN Whole(0)
                       ELSE ClosedAt(held[root], turned, Term[c].strike, 1)
         IN Balance(after.held, after.cash, Sum2(Sum2(made, closed), given), fees)
<1> DEFINE after  == Exercised(cash, held, c, under)
           root   == Term[c].root
           turned == (IF Term[c].call THEN 1 ELSE -1) * held[c].qty * Multiplier
           closed == ClosedAt(held[c], -held[c].qty, 0, Multiplier)
           given  == IF Intrinsic(c, under) = 0 THEN Whole(0)
                     ELSE ClosedAt(held[root], turned, Term[c].strike, 1)
           strike == Term[c].strike
           worth  == Intrinsic(c, under) > 0
           paid   == IF worth THEN turned * strike ELSE 0
<1>1. /\ after.cash \in Int /\ after.held \in [Instruments -> Positions]
      /\ root \in Roots /\ root # c /\ turned \in Int /\ strike \in Int
      /\ after.cash = IF worth THEN cash - strike * turned ELSE cash
      /\ after.held[c] = NoPosition
      /\ after.held[root] = IF worth THEN Adjusted(held[root], turned, strike) ELSE held[root]
      /\ \A x \in Instruments \ {c, root} : after.held[x] = held[x]
  BY ExercisedIs
<1>2. ~worth => Intrinsic(c, under) = 0
  <2>1. strike \in Int /\ under - strike \in Int /\ strike - under \in Int
    BY <1>1
  <2>2. Intrinsic(c, under) \in Int /\ Intrinsic(c, under) >= 0
    <3> HIDE DEF strike
    <3>1. Max({0, under - strike}) >= 0 /\ Max({0, strike - under}) >= 0
          /\ Max({0, under - strike}) \in Int /\ Max({0, strike - under}) \in Int
      BY <2>1, MaxOfTwo
    <3> QED BY <3>1 DEF Intrinsic, strike
  <2> QED BY <2>2
<1>3. worth => Intrinsic(c, under) # 0
  OBVIOUS
<1>4. paid \in Int /\ after.cash = cash - paid
  <2>1. turned * strike \in Int /\ turned * strike = strike * turned
    <3> HIDE DEF turned, strike
    <3> QED BY <1>1
  <2> QED BY <1>1, <2>1
<1> HIDE DEF after, turned, worth, strike, paid
<1>5. c \in Instruments /\ root \in Instruments /\ SizeOf(c) = Multiplier /\ SizeOf(root) = 1
      /\ Multiplier \in Int
  BY <1>1, RiskAssumption, ValuationAssumption DEF Instruments, SizeOf
<1>6. PICK D \in Nat \ {0}, A, B \in [Instruments -> Int], M \in Int :
        Parts(D, A, held) /\ Parts(D, B, after.held) /\ InParts(M, D, made)
  BY <1>1, CommonParts
<1>7. M \in Int /\ InParts(M, D, made)
  BY <1>6
<1>8. Parts(D, A, held) /\ Parts(D, B, after.held)
  BY <1>6
<1> DEFINE F == Basis(held, A)
           G == Basis(after.held, B)
<1>9. /\ IsFiniteSet(Instruments)
      /\ \A x \in Instruments : held[x].qty \in Int /\ SizeOf(x) \in Nat \ {0} /\ A[x] \in Int
                                  /\ F[x] = held[x].qty * SizeOf(x) * A[x] /\ F[x] \in Int
      /\ SumFunctionOnSet(F, Instruments) \in Int
  BY <1>8, BasisIs
<1>10. /\ \A x \in Instruments : B[x] \in Int
                                  /\ G[x] = after.held[x].qty * SizeOf(x) * B[x] /\ G[x] \in Int
       /\ SumFunctionOnSet(G, Instruments) \in Int
  <2>1. \A h1 \in [Instruments -> Positions] : Parts(D, B, h1) =>
          /\ \A x \in Instruments : B[x] \in Int /\ Basis(h1, B)[x] = h1[x].qty * SizeOf(x) * B[x]
                                      /\ Basis(h1, B)[x] \in Int
          /\ SumFunctionOnSet(Basis(h1, B), Instruments) \in Int
    <3> SUFFICES ASSUME NEW h1 \in [Instruments -> Positions], Parts(D, B, h1)
                 PROVE  /\ \A x \in Instruments :
                             B[x] \in Int /\ Basis(h1, B)[x] = h1[x].qty * SizeOf(x) * B[x]
                               /\ Basis(h1, B)[x] \in Int
                        /\ SumFunctionOnSet(Basis(h1, B), Instruments) \in Int
      OBVIOUS
    <3> QED BY BasisIs
  <2> QED BY <1>1, <1>8, <2>1
<1>11. \A x \in Instruments : /\ held[x] \in Positions
                              /\ InParts(A[x], D, held[x].avg)
                              /\ InParts(B[x], D, after.held[x].avg)
  BY <1>8 DEF Parts
<1>12. \A x \in Instruments : after.held[x] = held[x] => G[x] = F[x]
  <2> SUFFICES ASSUME NEW x \in Instruments, after.held[x] = held[x] PROVE G[x] = F[x]
    OBVIOUS
  <2>1. held[x].avg \in Fractions /\ InParts(A[x], D, held[x].avg) /\ InParts(B[x], D, held[x].avg)
    BY <1>11 DEF Positions
  <2>2. A[x] = B[x]
    BY <1>9, <1>10, <2>1, PartsAreOne
  <2> HIDE DEF F, G
  <2> QED BY <1>9, <1>10, <2>2
<1> HIDE DEF F, G
<1>13. PICK g \in Int : InParts(g, D, closed) /\ G[c] = F[c] + g
  <2> DEFINE p == held[c]
             a == A[c]
             b == B[c]
  <2>1. p \in Positions /\ p.qty \in Int /\ -p.qty \in Int /\ 0 \in Int /\ a \in Int /\ b \in Int
        /\ InParts(a, D, p.avg)
    BY <1>5, <1>9, <1>10, <1>11
  <2>2. Adjusted(p, -p.qty, 0) = NoPosition /\ after.held[c] = NoPosition
    <3>1. p.qty + (-p.qty) = 0
      BY <2>1
    <3> QED BY <1>1, <3>1 DEF Adjusted
  <2>3. InParts(b, D, Adjusted(p, -p.qty, 0).avg)
    BY <1>5, <1>11, <2>2
  <2>4. closed = ClosedAt(p, -p.qty, 0, Multiplier)
    OBVIOUS
  <2>5. F[c] = p.qty * Multiplier * a /\ G[c] = 0 * Multiplier * b
    BY <1>5, <1>9, <1>10, <2>2 DEF NoPosition
  <2> DEFINE s == -p.qty
             r == 0
  <2>10. /\ p \in Positions /\ s \in Int /\ r \in Int /\ Multiplier \in Int /\ D \in Nat \ {0}
         /\ a \in Int /\ b \in Int
         /\ InParts(a, D, p.avg) /\ InParts(b, D, Adjusted(p, s, r).avg)
    BY <1>5, <2>1, <2>3
  <2> HIDE DEF p, a, b, closed, s, r
  <2>11. PICK g \in Int :
          /\ InParts(g, D, ClosedAt(p, s, r, Multiplier))
          /\ (p.qty + s) * Multiplier * b = p.qty * Multiplier * a + D * (s * Multiplier * r) + g
    BY <2>10, MoveKeeps
  <2>6. /\ InParts(g, D, ClosedAt(p, -p.qty, 0, Multiplier))
        /\ (p.qty + (-p.qty)) * Multiplier * b
             = p.qty * Multiplier * a + D * ((-p.qty) * Multiplier * 0) + g
    BY <2>11 DEF s, r
  <2>7. (p.qty + (-p.qty)) * Multiplier * b = 0 * Multiplier * b
        /\ D * ((-p.qty) * Multiplier * 0) = 0
    <3> DEFINE w == p.qty
    <3>1. w \in Int
      BY <2>1
    <3> HIDE DEF w
    <3>2. w + (-w) = 0 /\ D * ((-w) * Multiplier * 0) = 0
      <4>1. (-w) * Multiplier * 0 = 0 /\ D * 0 = 0
        BY <1>5, <3>1
      <4> QED BY <3>1, <4>1
    <3> QED BY <3>2 DEF w
  <2>8. p.qty * Multiplier * a \in Int
    <3> DEFINE w == p.qty
    <3>1. w \in Int
      BY <2>1
    <3> HIDE DEF w
    <3>2. w * Multiplier * a \in Int
      BY <1>5, <2>1, <3>1
    <3> QED BY <3>2 DEF w
  <2>9. G[c] = F[c] + g
    BY <2>5, <2>6, <2>7, <2>8
  <2> QED BY <2>4, <2>6, <2>9
<1>14. PICK h \in Int : InParts(h, D, given) /\ G[root] = F[root] + (D * paid + h)
  <2>1. CASE ~worth
    <3>1. given = Whole(0) /\ paid = 0 /\ after.held[root] = held[root]
      BY <1>1, <1>2, <2>1 DEF paid
    <3>2. G[root] = F[root] /\ F[root] \in Int
      BY <1>5, <1>9, <1>12, <3>1
    <3>3. InParts(0, D, Whole(0)) /\ D * 0 + 0 = 0 /\ 0 \in Int
      BY DEF InParts, Whole
    <3> QED BY <3>1, <3>2, <3>3
  <2>2. CASE worth
    <3> DEFINE p == held[root]
               a == A[root]
               b == B[root]
    <3>1. p \in Positions /\ p.qty \in Int /\ a \in Int /\ b \in Int
          /\ InParts(a, D, p.avg) /\ InParts(b, D, Adjusted(p, turned, strike).avg)
      BY <1>1, <1>5, <1>9, <1>10, <1>11, <2>2
    <3>2. given = ClosedAt(p, turned, strike, 1) /\ paid = turned * strike
      BY <1>3, <2>2 DEF turned, strike, paid
    <3>3. after.held[root] = Adjusted(p, turned, strike)
      BY <1>1, <2>2
    <3> DEFINE w == p.qty
    <3>4. w \in Int /\ F[root] = w * 1 * a
      BY <1>5, <1>9
    <3>5. G[root] = (w + turned) * 1 * b
      <4>1. Adjusted(p, turned, strike).qty = p.qty + turned
        <5> HIDE DEF p
        <5> QED BY <1>1, <3>1, AdjustedIs
      <4> QED BY <1>5, <1>10, <3>3, <4>1
    <3>6. PICK h \in Int :
            /\ InParts(h, D, ClosedAt(p, turned, strike, 1))
            /\ (w + turned) * 1 * b = w * 1 * a + D * (turned * 1 * strike) + h
      <4> DEFINE one == 1
      <4>1. one \in Int /\ turned \in Int /\ strike \in Int
        BY <1>1
      <4> HIDE DEF p, a, b, one
      <4>2. \E h \in Int :
              /\ InParts(h, D, ClosedAt(p, turned, strike, one))
              /\ (p.qty + turned) * one * b = p.qty * one * a + D * (turned * one * strike) + h
        BY <3>1, <4>1, MoveKeeps
      <4> QED BY <4>2 DEF one
    <3> HIDE DEF p, a, b, w, given
    <3>7. turned * 1 * strike = paid /\ D * (turned * 1 * strike) = D * paid /\ D * paid \in Int
          /\ w * 1 * a \in Int
      <4>1. turned * 1 * strike = turned * strike
        BY <1>1
      <4> QED BY <1>4, <3>1, <3>2, <3>4, <4>1
    <3>8. G[root] = F[root] + (D * paid + h)
      <4> DEFINE s == w * 1 * a
      <4>1. s \in Int /\ G[root] = s + D * paid + h /\ F[root] = s
        BY <3>4, <3>5, <3>6, <3>7
      <4> HIDE DEF s
      <4> QED BY <3>7, <4>1
    <3> QED BY <3>2, <3>6, <3>8
  <2> QED BY <2>1, <2>2
<1>15. closed \in Fractions /\ given \in Fractions
  <2>1. held[c] \in Positions /\ -held[c].qty \in Int /\ 0 \in Int /\ held[root] \in Positions /\ 1 \in Int
    BY <1>5, <1>9
  <2>2. closed \in Fractions
    BY <1>5, <2>1, ClosedAtIs
  <2>3. ClosedAt(held[root], turned, strike, 1) \in Fractions
    BY <1>1, <2>1, ClosedAtIs
  <2>4. Whole(0) \in Fractions
    BY DEF Whole, Fractions
  <2> QED BY <2>2, <2>3, <2>4 DEF turned, strike
<1> HIDE DEF closed, given
<1>16. /\ Sum2(made, closed) \in Fractions /\ InParts(M + g, D, Sum2(made, closed)) /\ M + g \in Int
  <2>1. M + g \in Int
    OBVIOUS
  <2> QED BY <1>7, <1>13, <1>15, <2>1, SumInParts
<1> DEFINE all == Sum2(Sum2(made, closed), given)
<1>17. /\ all \in Fractions /\ InParts(M + g + h, D, all) /\ M + g + h \in Int
  <2>1. M + g + h \in Int
    OBVIOUS
  <2> QED BY <1>14, <1>15, <1>16, <2>1, SumInParts
<1> DEFINE H == [x \in Instruments |-> IF x = c THEN F[c] + g ELSE F[x]]
<1>18. SumFunctionOnSet(H, Instruments) = SumFunctionOnSet(F, Instruments) + g
  <2>1. /\ \A x \in Instruments : F[x] \in Int
        /\ \A x \in Instruments \ {c} : H[x] = F[x]
        /\ H[c] = F[c] + g
    BY <1>5, <1>9
  <2> HIDE DEF H
  <2> QED BY <1>5, <1>9, <2>1, SumChanged
<1>19. SumFunctionOnSet(G, Instruments) = SumFunctionOnSet(H, Instruments) + (D * paid + h)
  <2>1. \A x \in Instruments : H[x] = IF x = c THEN F[c] + g ELSE F[x]
    OBVIOUS
  <2> HIDE DEF H
  <2>2. /\ \A x \in Instruments : H[x] \in Int
        /\ \A x \in Instruments \ {root} : G[x] = H[x]
        /\ G[root] = H[root] + (D * paid + h)
    <3>1. \A x \in Instruments : H[x] \in Int
      BY <1>5, <1>9, <2>1
    <3>2. \A x \in Instruments \ {c, root} : G[x] = F[x]
      BY <1>1, <1>12
    <3>3. \A x \in Instruments \ {root} : G[x] = H[x]
      BY <1>5, <1>13, <2>1, <3>2
    <3>4. H[root] = F[root]
      BY <1>1, <1>5, <2>1
    <3> QED BY <1>14, <3>1, <3>3, <3>4
  <2>3. D * paid + h \in Int
    <3>1. D * paid \in Int
      BY <1>4
    <3> QED BY <3>1
  <2> QED BY <1>5, <1>9, <2>2, <2>3, SumChanged
<1> HIDE DEF H, all
<1>20. SumFunctionOnSet(F, Instruments) + D * cash = M + D * (Start - fees)
  BY <1>7, <1>8, BalanceInParts DEF F
<1>21. SumFunctionOnSet(G, Instruments) + D * after.cash = (M + g + h) + D * (Start - fees)
  <2>1. D * after.cash = D * cash - D * paid /\ D * cash \in Int /\ D * paid \in Int
    BY <1>4
  <2>2. SumFunctionOnSet(F, Instruments) \in Int /\ D * (Start - fees) \in Int
    <3>1. Start - fees \in Int
      BY ArithmeticAssumption
    <3> QED BY <1>9, <3>1
  <2> DEFINE e == D * cash
             o == D * paid
             i == D * (Start - fees)
  <2>3. /\ D * after.cash = e - o /\ e \in Int /\ o \in Int /\ i \in Int
        /\ SumFunctionOnSet(F, Instruments) + e = M + i
        /\ SumFunctionOnSet(G, Instruments) = SumFunctionOnSet(F, Instruments) + g + (o + h)
        /\ SumFunctionOnSet(F, Instruments) \in Int
    BY <1>18, <1>19, <1>20, <2>1, <2>2
  <2> HIDE DEF e, o, i
  <2>4. SumFunctionOnSet(G, Instruments) + D * after.cash = (M + g + h) + i
    BY <2>3
  <2> QED BY <2>4 DEF i
<1>22. Balance(after.held, after.cash, all, fees)
  <2>1. \A h1 \in [Instruments -> Positions], c1, f1 \in Int, m1 \in Fractions, M1 \in Int :
          Parts(D, B, h1) /\ InParts(M1, D, m1)
            /\ SumFunctionOnSet(Basis(h1, B), Instruments) + D * c1 = M1 + D * (Start - f1)
          => Balance(h1, c1, m1, f1)
    BY BalanceInParts
  <2> QED BY <1>1, <1>8, <1>17, <1>21, <2>1 DEF G
<1> QED BY <1>22 DEF after, all, closed, given, turned, strike, worth

\* Nothing was traded.
LEMMA BooksFirst == Init => BooksBalance
<1> SUFFICES ASSUME Init, wallet # Nothing PROVE BooksBalance
  BY DEF BooksBalance
<1>1. wallet = NewWallet
  BY DEF Init
<1> DEFINE held == [x \in Instruments |-> NoPosition]
           A == [x \in Instruments |-> 0]
           F == Basis(held, A)
<1>2. NoPosition \in Positions /\ NoPosition.qty = 0 /\ NoPosition.avg = Whole(0)
  BY DEF NoPosition, Positions, Whole, Fractions
<1>3. held \in [Instruments -> Positions] /\ \A x \in Instruments : held[x].qty = 0
  BY <1>2
<1>4. InParts(0, 1, Whole(0)) /\ Whole(0) \in Fractions
  BY DEF InParts, Whole, Fractions
<1>5. Parts(1, A, held)
  BY <1>2, <1>4 DEF Parts
<1> HIDE DEF held, A
<1>6. 1 \in Nat \ {0} /\ 0 \in Int /\ Start \in Int
  BY ArithmeticAssumption
<1>7. /\ IsFiniteSet(Instruments)
      /\ \A x \in Instruments : /\ SizeOf(x) \in Nat \ {0} /\ A[x] \in Int
                                /\ F[x] = held[x].qty * SizeOf(x) * A[x] /\ F[x] \in Int
  BY <1>3, <1>5, <1>6, BasisIs
<1>8. \A x \in Instruments : F[x] = 0
  <2>1. \A y, z \in Int : 0 * y * z = 0
    OBVIOUS
  <2> HIDE DEF F
  <2> QED BY <1>3, <1>7, <2>1
<1> HIDE DEF F
<1>9. SumFunctionOnSet(F, Instruments) = 0
  <2>1. {} \subseteq Instruments
    OBVIOUS
  <2>2. SumFunctionOnSet(F, Instruments) = SumFunctionOnSet(F, {})
    BY <1>7, <1>8, <2>1, SumPadded
  <2> QED BY <2>2, SumOfNone
<1>10. Balance(held, Start, Whole(0), 0)
  <2>1. SumFunctionOnSet(F, Instruments) + 1 * Start = 0 + 1 * (Start - 0)
    BY <1>6, <1>9
  <2> DEFINE one == 1
             none == 0
  <2>2. /\ one \in Nat \ {0} /\ none \in Int /\ Parts(one, A, held) /\ InParts(none, one, Whole(0))
        /\ SumFunctionOnSet(Basis(held, A), Instruments) + one * Start = none + one * (Start - none)
    BY <1>4, <1>5, <2>1 DEF F
  <2> HIDE DEF one, none
  <2>3. Balance(held, Start, Whole(0), none)
    BY <1>3, <1>4, <1>6, <2>2, BalanceInParts
  <2> QED BY <2>3 DEF none
<1>11. wallet.held = held /\ wallet.cash = Start /\ wallet.made = Whole(0) /\ wallet.fees = 0
  BY <1>1 DEF NewWallet, held
<1> QED BY <1>10, <1>11 DEF BooksBalance, Balance

\* Every step keeps the books balanced.
LEMMA BooksNext == WalletIsReadable /\ BooksBalance /\ [Next]_vars => BooksBalance'
<1> SUFFICES ASSUME WalletIsReadable, BooksBalance, [Next]_vars, wallet' # Nothing
             PROVE  Balance(wallet'.held, wallet'.cash, wallet'.made, wallet'.fees)
  BY DEF BooksBalance, Balance, CostOfAll, CostBasis
<1>1. wallet # Nothing => /\ wallet \in Wallets
                          /\ wallet.cash \in Int /\ wallet.held \in [Instruments -> Positions]
                          /\ wallet.made \in Fractions /\ wallet.fees \in Int
                          /\ Balance(wallet.held, wallet.cash, wallet.made, wallet.fees)
  BY DEF WalletIsReadable, Wallets, BooksBalance, Balance
<1>2. CASE Remembers
  <2>1. wallet # Nothing /\ \E r : wallet' = [wallet EXCEPT !.mark = r]
    BY <1>2 DEF Remembers
  <2>2. wallet'.held = wallet.held /\ wallet'.cash = wallet.cash /\ wallet'.made = wallet.made
        /\ wallet'.fees = wallet.fees
    BY <1>1, <2>1 DEF Wallets
  <2> QED BY <1>1, <2>1, <2>2
<1>3. CASE Trade
  <2>1. wallet # Nothing
    BY <1>3 DEF Trade
  <2>2. PICK t \in Trades, m \in Readings :
          LET after == Traded(wallet.cash, wallet.held, t.legs, t.sets, m)
              made  == [c \in Contracts |-> ClosedAt(wallet.held[c], t.legs[c] * t.sets,
                                                    Side(m[c], t.legs[c] > 0), Multiplier)]
          IN /\ IsTrade(t) /\ IsReading(m)
             /\ wallet' = [wallet EXCEPT
                  !.cash = after.cash, !.held = after.held,
                  !.made = Sum2(@, TotalOf(made, Contracts)),
                  !.fees = @ + ContractsIn(t.legs, t.sets) * PerContract]
    BY <1>1, <1>3, <2>1, WalletTrades
  <2> DEFINE after == Traded(wallet.cash, wallet.held, t.legs, t.sets, m)
             made  == [c \in Contracts |-> ClosedAt(wallet.held[c], t.legs[c] * t.sets,
                                                   Side(m[c], t.legs[c] > 0), Multiplier)]
             total == TotalOf(made, Contracts)
             fee   == ContractsIn(t.legs, t.sets) * PerContract
  <2>3. /\ wallet' = [wallet EXCEPT !.cash = after.cash, !.held = after.held,
                                    !.made = Sum2(@, total), !.fees = @ + fee]
        /\ IsTrade(t) /\ IsReading(m)
    BY <2>2
  <2>4. Balance(after.held, after.cash, Sum2(wallet.made, total), wallet.fees + fee)
    BY <1>1, <2>1, <2>3, FillBalances
  <2> HIDE DEF after, total, fee
  <2>5. /\ wallet'.held = after.held /\ wallet'.cash = after.cash
        /\ wallet'.made = Sum2(wallet.made, total) /\ wallet'.fees = wallet.fees + fee
    BY <1>1, <2>1, <2>3 DEF Wallets
  <2> QED BY <2>4, <2>5
<1>4. CASE Settles
  <2>1. wallet # Nothing
    BY <1>4 DEF Settles
  <2>2. PICK c \in Contracts, under \in Ends :
          LET after  == Exercised(wallet.cash, wallet.held, c, under)
              root   == Term[c].root
              turned == (IF Term[c].call THEN 1 ELSE -1) * wallet.held[c].qty * Multiplier
              closed == ClosedAt(wallet.held[c], -wallet.held[c].qty, 0, Multiplier)
              given  == IF Intrinsic(c, under) = 0 THEN Whole(0)
                        ELSE ClosedAt(wallet.held[root], turned, Term[c].strike, 1)
          IN /\ under \in Int
             /\ wallet'.cash = after.cash /\ wallet'.held = after.held
             /\ wallet'.made = Sum2(Sum2(wallet.made, closed), given)
             /\ wallet'.fees = wallet.fees
    BY <1>1, <1>4, <2>1, WalletSettles
  <2>3. under \in Int
    BY <2>2
  <2> QED BY <1>1, <2>1, <2>2, <2>3, SettlementBalances
<1>5. CASE FillsPart \/ TimePasses \/ Pass \/ UNCHANGED vars
  <2>1. wallet' = wallet
    BY <1>5 DEF FillsPart, TimePasses, Pass, vars
  <2> QED BY <1>1, <2>1
<1> QED BY <1>2, <1>3, <1>4, <1>5 DEF Next

\* What is held at what it cost and the cash are what the account began with, less the fees,
\* and what closed positions made.
THEOREM BooksAreBalanced == Spec => []BooksBalance
<1>1. Init => BooksBalance /\ WalletIsReadable
  BY BooksFirst, WalletFirst
<1>2. BooksBalance /\ WalletIsReadable /\ [Next]_vars => (BooksBalance /\ WalletIsReadable)'
  BY BooksNext, WalletNext
<1> QED BY <1>1, <1>2, PTL DEF Spec

\* What is shown of a position, in parts: what it is worth less what it cost.
LEMMA ProfitInParts ==
  ASSUME NEW held \in [Instruments -> Positions], NEW m, IsReading(m), NEW D \in Nat \ {0}, NEW A,
         Parts(D, A, held), NEW x \in Instruments
  PROVE  /\ TwiceProfit(held, m, x) \in Fractions
         /\ InParts(D * Twice(held, m)[x] + (-2) * Basis(held, A)[x], D, TwiceProfit(held, m, x))
         /\ D * Twice(held, m)[x] \in Int /\ (-2) * Basis(held, A)[x] \in Int
         /\ held[x].qty = 0 => D * Twice(held, m)[x] = 0 /\ (-2) * Basis(held, A)[x] = 0
<1> DEFINE worth == Twice(held, m)[x]
           part  == Basis(held, A)[x]
           cost  == CostBasis(held, x)
           minus == -2
<1>1. worth \in Int /\ (held[x].qty = 0 => worth = 0)
  BY WorthsAre
<1>2. /\ part \in Int /\ cost \in Fractions /\ InParts(part, D, cost)
      /\ part = held[x].qty * SizeOf(x) * A[x] /\ A[x] \in Int /\ SizeOf(x) \in Nat \ {0}
  BY BasisIs
<1>3. TwiceProfit(held, m, x) = Sum2(Whole(worth), Times(minus, cost))
  BY DEF TwiceProfit, Twice
<1>4. minus \in Int
  OBVIOUS
<1>5. held[x].qty = 0 => part = 0
  <2>1. \A y, z \in Int : 0 * y * z = 0
    OBVIOUS
  <2> HIDE DEF part
  <2> QED BY <1>2, <2>1
<1> HIDE DEF worth, part, cost, minus
<1>6. D * worth \in Int /\ minus * part \in Int
      /\ (worth = 0 => D * worth = 0) /\ (part = 0 => minus * part = 0)
  <2>1. D * worth \in Int /\ minus * part \in Int
    BY <1>1, <1>2, <1>4
  <2>2. \A y \in Int : y * 0 = 0
    OBVIOUS
  <2> QED BY <1>4, <2>1, <2>2
<1>7. Whole(worth) \in Fractions /\ InParts(D * worth, D, Whole(worth))
  BY <1>1, WholeIs
<1>8. Times(minus, cost) \in Fractions /\ InParts(minus * part, D, Times(minus, cost))
  BY <1>2, <1>4, TimesInParts
<1>9. Sum2(Whole(worth), Times(minus, cost)) \in Fractions
      /\ InParts(D * worth + minus * part, D, Sum2(Whole(worth), Times(minus, cost)))
  BY <1>6, <1>7, <1>8, SumInParts
<1> QED BY <1>1, <1>3, <1>5, <1>6, <1>9 DEF worth, part, minus

\* Where the books balance, the profits shown are what the equity says they are.
LEMMA ProfitsOfBalance ==
  ASSUME NEW held \in [Instruments -> Positions], NEW cash \in Int, NEW made \in Fractions,
         NEW fees \in Int, NEW mark, NEW m, IsReading(m), Balance(held, cash, made, fees)
  PROVE  LET rows   == {x \in Instruments : held[x].qty # 0}
             profit == [x \in Instruments |-> TwiceProfit(held, m, x)]
         IN Same(Sum2(Whole(2 * (Start - fees)), TotalOf(profit, rows)),
                 Sum2(Whole(Account(cash, held, m, mark).equity), Times(-2, made)))
<1> DEFINE rows   == {x \in Instruments : held[x].qty # 0}
           profit == [x \in Instruments |-> TwiceProfit(held, m, x)]
           equity == Account(cash, held, m, mark).equity
           begun  == Start - fees
           minus  == -2
<1>1. PICK D \in Nat \ {0}, A, B \in [Instruments -> Int], M \in Int :
        Parts(D, A, held) /\ Parts(D, B, held) /\ InParts(M, D, made)
  BY CommonParts
<1>2. M \in Int /\ InParts(M, D, made)
  BY <1>1
<1>3. Parts(D, A, held)
  BY <1>1
<1> DEFINE F == Basis(held, A)
           T == Twice(held, m)
           U == [x \in Instruments |-> D * T[x]]
           V == [x \in Instruments |-> minus * F[x]]
           W == [x \in Instruments |-> U[x] + V[x]]
           SF == SumFunctionOnSet(F, Instruments)
           ST == SumFunctionOnSet(T, Instruments)
           SW == SumFunctionOnSet(W, Instruments)
           total == TotalOf(profit, rows)
<1>4. /\ IsFiniteSet(Instruments) /\ SF \in Int /\ \A x \in Instruments : F[x] \in Int
  BY <1>3, BasisIs
<1>5. ST \in Int /\ equity = 2 * cash + ST
  <2>1. cash \in Int /\ held \in [Instruments -> Positions] /\ IsReading(m)
    OBVIOUS
  <2> QED BY <2>1, ShownIs
<1>6. \A x \in Instruments : T[x] \in Int
  BY WorthsAre
<1>7. \A x \in Instruments :
        /\ U[x] = D * T[x] /\ V[x] = minus * F[x] /\ W[x] = U[x] + V[x]
        /\ U[x] \in Int /\ V[x] \in Int /\ W[x] \in Int
        /\ profit[x] = TwiceProfit(held, m, x) /\ profit[x] \in Fractions
        /\ InParts(W[x], D, profit[x])
        /\ held[x].qty = 0 => W[x] = 0
  <2> SUFFICES ASSUME NEW x \in Instruments
               PROVE  /\ U[x] = D * T[x] /\ V[x] = minus * F[x] /\ W[x] = U[x] + V[x]
                      /\ U[x] \in Int /\ V[x] \in Int /\ W[x] \in Int
                      /\ profit[x] = TwiceProfit(held, m, x) /\ profit[x] \in Fractions
                      /\ InParts(W[x], D, profit[x])
                      /\ held[x].qty = 0 => W[x] = 0
    OBVIOUS
  <2>1. U[x] = D * T[x] /\ V[x] = minus * F[x] /\ W[x] = U[x] + V[x]
        /\ profit[x] = TwiceProfit(held, m, x)
    OBVIOUS
  <2>2. /\ TwiceProfit(held, m, x) \in Fractions
        /\ InParts(D * T[x] + minus * F[x], D, TwiceProfit(held, m, x))
        /\ D * T[x] \in Int /\ minus * F[x] \in Int
        /\ held[x].qty = 0 => D * T[x] = 0 /\ minus * F[x] = 0
    BY <1>3, ProfitInParts
  <2> HIDE DEF U, V, W, profit, T, F, minus
  <2> QED BY <2>1, <2>2
<1>8. rows \subseteq Instruments /\ IsFiniteSet(rows) /\ \A x \in Instruments \ rows : W[x] = 0
  BY <1>4, <1>7, FS_Subset
<1>9. begun \in Int /\ minus \in Int /\ equity \in Int /\ 2 * begun \in Int
  BY <1>5, ArithmeticAssumption
<1> HIDE DEF U, V, W, profit, T, F, minus, rows, equity, begun
<1>10. SumFunctionOnSet(W, rows) = SW /\ SW \in Int
  BY <1>4, <1>7, <1>8, SumPadded, SumIsInt
<1>11. total \in Fractions /\ InParts(SW, D, total)
  <2>1. \A x \in rows : profit[x] \in Fractions /\ W[x] \in Int /\ InParts(W[x], D, profit[x])
    BY <1>7, <1>8
  <2> HIDE DEF SW, total
  <2> QED BY <1>8, <1>10, <2>1, TotalInParts DEF total
<1>12. SW = D * ST + minus * SF
  <2>1. SW = SumFunctionOnSet(U, Instruments) + SumFunctionOnSet(V, Instruments)
    BY <1>4, <1>7, SumOfSums
  <2>2. SumFunctionOnSet(U, Instruments) = D * ST
    <3>1. D \in Int
      OBVIOUS
    <3> QED BY <1>4, <1>6, <1>7, <3>1, SumScaled
  <2>3. SumFunctionOnSet(V, Instruments) = minus * SF
    BY <1>4, <1>7, <1>9, SumScaled
  <2> QED BY <2>1, <2>2, <2>3
<1>13. SF + D * cash = M + D * begun
  BY <1>2, <1>3, BalanceInParts DEF F, begun
<1> HIDE DEF SF, ST, SW, total
<1> DEFINE a == Sum2(Whole(2 * begun), total)
           b == Sum2(Whole(equity), Times(minus, made))
<1>14. a \in Fractions /\ InParts(D * (2 * begun) + SW, D, a) /\ D * (2 * begun) \in Int
  <2>1. D * (2 * begun) \in Int
    BY <1>9
  <2>2. Whole(2 * begun) \in Fractions /\ InParts(D * (2 * begun), D, Whole(2 * begun))
    BY <1>9, WholeIs
  <2> QED BY <1>10, <1>11, <2>1, <2>2, SumInParts
<1>15. b \in Fractions /\ InParts(D * equity + minus * M, D, b)
       /\ D * equity \in Int /\ minus * M \in Int
  <2>1. D * equity \in Int /\ minus * M \in Int
    BY <1>9
  <2>2. Whole(equity) \in Fractions /\ InParts(D * equity, D, Whole(equity))
    BY <1>9, WholeIs
  <2>3. Times(minus, made) \in Fractions /\ InParts(minus * M, D, Times(minus, made))
    BY <1>2, <1>9, TimesInParts
  <2> QED BY <2>1, <2>2, <2>3, SumInParts
<1>16. D * (2 * begun) + SW = D * equity + minus * M
  <2> DEFINE d == D * cash
             e == D * begun
             g == D * ST
  <2>1. d \in Int /\ e \in Int /\ g \in Int /\ SF \in Int
    BY <1>4, <1>5, <1>9 DEF SF, ST
  <2>2. D * (2 * begun) = 2 * e /\ D * equity = 2 * d + g
    BY <1>5, <1>9
  <2>3. minus * SF = -(2 * SF) /\ minus * M = -(2 * M)
    BY <2>1 DEF minus
  <2>4. SF + d = M + e /\ SW = g + minus * SF
    BY <1>12, <1>13
  <2> DEFINE x == D * (2 * begun)
             y == D * equity
             u == minus * SF
             v == minus * M
  <2>5. /\ x = 2 * e /\ y = 2 * d + g /\ u = -(2 * SF) /\ v = -(2 * M)
        /\ SF + d = M + e /\ SW = g + u /\ M \in Int
    BY <1>2, <2>2, <2>3, <2>4
  <2> HIDE DEF d, e, g, x, y, u, v, SF, SW
  <2>6. x + SW = y + v
    BY <2>1, <2>5
  <2> QED BY <2>6 DEF x, y, u, v
<1>17. D * (2 * begun) + SW \in Int /\ D * equity + minus * M \in Int
  BY <1>10, <1>14, <1>15 DEF SW
<1> HIDE DEF a, b
<1>18. Same(a, b)
  BY <1>14, <1>15, <1>16, <1>17, SameInParts
<1> QED BY <1>18 DEF a, b, total, begun, equity, minus, rows, profit

\* book.go, move: "or the P&L would drift silently".  Whatever was traded and settled, the
\* equity is what the account began with, less the fees, what closed positions made and the
\* profits shown of those still held.
THEOREM ProfitIsWhole == Spec => []ProfitAddsUp
<1>1. WalletIsReadable /\ BooksBalance => ProfitAddsUp
  <2> SUFFICES ASSUME WalletIsReadable, BooksBalance, wallet # Nothing, NEW m \in Readings
               PROVE  LET rows   == {x \in Instruments : wallet.held[x].qty # 0}
                          profit == [x \in Instruments |-> TwiceProfit(wallet.held, m, x)]
                      IN Same(Sum2(Whole(2 * (Start - wallet.fees)), TotalOf(profit, rows)),
                              Sum2(Whole(Shown(m).equity), Times(-2, wallet.made)))
    BY DEF ProfitAddsUp
  <2>1. /\ wallet.cash \in Int /\ wallet.held \in [Instruments -> Positions]
        /\ wallet.made \in Fractions /\ wallet.fees \in Int
        /\ Balance(wallet.held, wallet.cash, wallet.made, wallet.fees)
    BY DEF WalletIsReadable, BooksBalance, Balance
  <2>2. IsReading(m)
    BY ArithmeticAssumption
  <2> QED BY <2>1, <2>2, ProfitsOfBalance DEF Shown
<1> QED BY <1>1, WalletReadable, BooksAreBalanced, PTL

=============================================================================
