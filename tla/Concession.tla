----------------------------- MODULE Concession -----------------------------
(***************************************************************************)
(* Where the ladder would move an order, and the name its replacement      *)
(* gets: walk of execution.go, with reservation.go.  A price is a number   *)
(* of cents for a set, a credit negative, so that larger gives up more.    *)
(*                                                                         *)
(* A name is a sequence of fields (cut at semicolons), a field one of      *)
(* words (cut at commas and blanks).  Of a word only what it says and how  *)
(* long it is are kept.  How far a step goes is the stride of Ladder.      *)
(***************************************************************************)
EXTENDS Risk, SequencesExt

CONSTANTS
  NoPrice,    \* no such price, no such number
  NameLimit,  \* the longest name the broker takes
  StampSize,  \* the length of a moment, written out
  FloorSize   \* the length of a worst price, written out

ASSUME ConcessionAssumption ==
  /\ StampSize \in Nat \ {0} /\ FloorSize \in Nat \ {0}
  /\ NameLimit \in Nat /\ FloorSize + 1 + StampSize <= NameLimit

NumberWord(n)  == [says |-> "number", value |-> n, size |-> StampSize]
WorstWord(p)   == [says |-> "worst", value |-> p, size |-> FloorSize]
TextWord(n, s) == [says |-> "text", value |-> n, size |-> s]

IsWord(w) ==
  /\ w \in [says : {"number", "worst", "text"}, value : {w.value}, size : Nat]
  /\ w.says = "worst" => w.value \in Int \cup {NoPrice}

IsField(field) == field \in Seq(Range(field)) /\ \A j \in DOMAIN field : IsWord(field[j])

IsName(name) == name \in Seq(Range(name)) /\ \A i \in DOMAIN name : IsField(name[i])

\* The length of parts of these lengths with a separator between each two of them.
Joined(sizes) == SumFunction(sizes) + Max({0, Len(sizes) - 1})

Size(name) ==
  Joined([i \in DOMAIN name |-> Joined([j \in DOMAIN name[i] |-> name[i][j].size])])

\* Where a field says the worst price.
Says(field) == {j \in DOMAIN field : field[j].says = "worst"}

\* stated: the first word that says it decides, if only to say nothing.
Reservation(name) ==
  LET stating == {i \in DOMAIN name : Says(name[i]) # {}}
      field   == name[Min(stating)]
  IN IF stating = {} THEN NoPrice ELSE field[Min(Says(field))].value

\* The name without a moment at its end.
Unstamped(name) ==
  IF name # <<>> /\ Len(Last(name)) = 1 /\ Last(name)[1].says = "number"
  THEN Front(name) ELSE name

NameFor(worst) == <<<<WorstWord(worst)>>>>

HasRoom(name) == name # <<>> /\ Size(name) + 1 + StampSize <= NameLimit

\* Mutant of NameCarrying: the moment of the replacement before is not taken off.
CarryingEveryMoment(name, at) ==
  Append(IF HasRoom(name) THEN name
         ELSE IF Reservation(name) # NoPrice THEN NameFor(Reservation(name)) ELSE <<>>,
         <<NumberWord(at)>>)

\* The name of a replacement: all the session wrote, or the worst price alone where that
\* is too long, and the moment.
NameCarrying(name, at) ==
  Append(IF HasRoom(Unstamped(name)) THEN Unstamped(name)
         ELSE IF Reservation(name) # NoPrice THEN NameFor(Reservation(name)) ELSE <<>>,
         <<NumberWord(at)>>)

------------------------------------------------------------------------------
(* The price.                                                              *)

IsLeg(leg) ==
  leg \in [contract : Contracts, sell : BOOLEAN, ratio : Int, quantity : Int, intent : STRING]

\* An order that may be walked, with the name its session gave it and its first price.
IsWalkable(o) ==
  /\ o \in [legs : {o.legs}, limit : Int, first : Int, name : {o.name}, was : {o.was}]
  /\ IsFiniteSet(o.legs) /\ \A leg \in o.legs : IsLeg(leg)
  /\ IsName(o.was) /\ Size(o.was) <= NameLimit

\* The quotes a pass has read.
IsBook(quotes) ==
  quotes \in [DOMAIN quotes -> [bid : Int, ask : Int, delta : Int \cup {NoPrice}]]

\* How many of a leg go into a set.
RatioOf(leg) ==
  IF leg.ratio > 0 THEN leg.ratio ELSE IF leg.quantity > 0 THEN leg.quantity ELSE 1

\* What the book offers for a set, if every leg of it is quoted on both sides.
Showing(o, quotes) ==
  IF \E leg \in o.legs : leg.contract \notin DOMAIN quotes
                           \/ quotes[leg.contract].bid <= 0 \/ quotes[leg.contract].ask <= 0
  THEN NoPrice
  ELSE SumFunction([leg \in o.legs |-> RatioOf(leg) *
         (IF leg.sell THEN -quotes[leg.contract].bid ELSE quotes[leg.contract].ask)])

OnlyOpens(o) == o.legs # {} /\ \A leg \in o.legs : leg.intent = "open"

\* A vertical sold for a credit: only of that is the edge known.
Measurable(o, price) ==
  /\ Cardinality(o.legs) = 2 /\ price < 0
  /\ \A leg \in o.legs : (IF leg.ratio > 0 THEN leg.ratio ELSE leg.quantity) = 1
  /\ \E sold, bought \in o.legs :
       sold.sell /\ ~bought.sell /\ Term[sold.contract].strike # Term[bought.contract].strike

\* EdgeAt, times the width: what a fill at the price pays above what it has to survive.
\* A price and a delta are in hundredths.
EdgeTimesWidth(o, price, quotes) ==
  LET sold   == CHOOSE leg \in o.legs : leg.sell
      bought == CHOOSE leg \in o.legs : ~leg.sell
      width  == Abs(Term[sold.contract].strike - Term[bought.contract].strike)
  IN [edge  |-> 100 * Abs(price) - width * Abs(quotes[sold.contract].delta),
      width |-> width]

\* Whether the worst price pays less than the declaration demands, where one does.
RefusesTheFloor(o, floor, quotes, least) ==
  /\ least # NoPrice
  /\ OnlyOpens(o) /\ Measurable(o, floor)
  /\ \E sold \in o.legs : sold.sell /\ quotes[sold.contract].delta # NoPrice
  /\ LET at == EdgeTimesWidth(o, floor, quotes) IN at.edge < least * at.width

\* A step toward a price, not past it.
Toward(limit, target, step) ==
  IF 2 * Abs(target - limit) < step THEN target
  ELSE IF target > limit THEN Min({limit + step, target}) ELSE Max({limit - step, target})

\* The price a pass moves the order to; its own when the pass leaves it alone.
NextLimit(o, quotes, least, step) ==
  LET showing == Showing(o, quotes)
      floor   == Reservation(o.name)
  IN IF \/ showing = NoPrice \/ showing <= o.limit
        \/ floor = NoPrice \/ RefusesTheFloor(o, floor, quotes, least)
     THEN o.limit
     ELSE Toward(o.limit, IF showing > floor THEN floor ELSE showing, step)

\* The order after a pass at a moment.  The broker refuses a name it knows.
Walked(o, quotes, least, step, at, known) ==
  LET next == NextLimit(o, quotes, least, step)
      name == NameCarrying(o.name, at)
  IN IF next = o.limit \/ name \in known THEN o
     ELSE [o EXCEPT !.limit = next, !.name = name]

=============================================================================
