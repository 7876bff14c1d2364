-------------------------------- MODULE Sums --------------------------------
(***************************************************************************)
(* Finite sums.  The risk of a book, the value of an account and the cost  *)
(* of an order are each added up over a set in the code (execution.go, the *)
(* engine of the testbed); the models add them up with SumFunctionOnSet of *)
(* the module Functions, which these lemmas say how to reckon with.  None  *)
(* takes an operator for a parameter: what an induction over the size of a *)
(* set would show is shown of a least subset it fails for.                 *)
(***************************************************************************)
EXTENDS Functions, Integers, FiniteSetTheorems, TLAPS

\* One of a nonempty family of subsets of a finite set has no other of the family in it.
LEMMA LeastSet ==
  ASSUME NEW S, IsFiniteSet(S), NEW A, A \subseteq SUBSET S, A # {}
  PROVE  \E T \in A : \A U \in A : U \subseteq T => U = T
<1>1. SUBSET S = FiniteSubsetsOf(S)
  BY FS_FiniteSubsetsOfFinite
<1>2. PICK T \in A : \A U \in A : ~(<<U, T>> \in StrictSubsetOrdering(S))
  BY <1>1, FS_StrictSubsetOrderingWellFounded, WFMin
<1>3. \A U \in A : U \subseteq T => U = T
  <2> SUFFICES ASSUME NEW U \in A, U \subseteq T, U # T PROVE FALSE
    OBVIOUS
  <2>1. U \in SUBSET S /\ T \in SUBSET S
    OBVIOUS
  <2> QED BY <1>2, <2>1 DEF StrictSubsetOrdering
<1> QED BY <1>3

\* The element taken first.
First(s) == CHOOSE x \in s : TRUE

\* The function a sum is read off: what the elements of each subset come to.
IsSumOf(g, f, S) ==
  g = [s \in SUBSET S |-> IF s = {} THEN 0 ELSE f[First(s)] + g[s \ {First(s)}]]

\* A sum is read off that function at the whole set.
LEMMA SumIsRead ==
  ASSUME NEW f, NEW S
  PROVE  SumFunctionOnSet(f, S) = (CHOOSE g : IsSumOf(g, f, S))[S]
BY DEF SumFunctionOnSet, FoldFunctionOnSet, MapThenFoldSet, IsSumOf, First

\* Two such functions agree where both are.
LEMMA SumsAgree ==
  ASSUME NEW f, NEW S, IsFiniteSet(S), NEW g, IsSumOf(g, f, S), NEW T, NEW h, IsSumOf(h, f, T),
         NEW U, U \subseteq S, U \subseteq T
  PROVE  g[U] = h[U]
<1> DEFINE A == {u \in SUBSET S : u \subseteq T /\ g[u] # h[u]}
<1>1. SUFFICES ASSUME A # {} PROVE FALSE
  OBVIOUS
<1>2. PICK u \in A : \A v \in A : v \subseteq u => v = u
  <2>1. A \subseteq SUBSET S
    OBVIOUS
  <2> HIDE DEF A
  <2> QED BY <1>1, <2>1, LeastSet
<1>3. /\ g[u] = IF u = {} THEN 0 ELSE f[First(u)] + g[u \ {First(u)}]
      /\ h[u] = IF u = {} THEN 0 ELSE f[First(u)] + h[u \ {First(u)}]
  BY DEF IsSumOf
<1>4. u # {} => First(u) \in u
  BY DEF First
<1>5. u # {} => g[u \ {First(u)}] = h[u \ {First(u)}]
  BY <1>2, <1>4
<1> QED BY <1>3, <1>5

\* There is one.
LEMMA SumExists ==
  ASSUME NEW f, NEW S, IsFiniteSet(S)
  PROVE  \E g : IsSumOf(g, f, S)
<1> DEFINE A == {T \in SUBSET S : ~ \E g : IsSumOf(g, f, T)}
<1>1. SUFFICES ASSUME A # {} PROVE FALSE
  OBVIOUS
<1>2. PICK T \in A : \A v \in A : v \subseteq T => v = T
  <2>1. A \subseteq SUBSET S
    OBVIOUS
  <2> HIDE DEF A
  <2> QED BY <1>1, <2>1, LeastSet
<1> DEFINE G(u) == CHOOSE g : IsSumOf(g, f, u)
           rest(s) == s \ {First(s)}
<1>3. ASSUME NEW u \in SUBSET T, u # T PROVE IsSumOf(G(u), f, u) /\ IsFiniteSet(u)
  <2>1. \E g : IsSumOf(g, f, u)
    BY <1>2, <1>3
  <2>2. IsFiniteSet(u)
    BY FS_Subset
  <2> QED BY <2>1, <2>2
<1> HIDE DEF G
<1> DEFINE g == [s \in SUBSET T |-> IF s = {} THEN 0 ELSE f[First(s)] + G(rest(s))[rest(s)]]
<1>4. ASSUME NEW s \in SUBSET T, s # {} PROVE g[rest(s)] = G(rest(s))[rest(s)]
  <2> DEFINE u == rest(s)
  <2>1. First(s) \in s
    BY <1>4 DEF First
  <2>2. u \in SUBSET T /\ u # T
    BY <2>1
  <2>3. IsSumOf(G(u), f, u) /\ IsFiniteSet(u)
    BY <1>3, <2>2
  <2>4. G(u)[u] = IF u = {} THEN 0 ELSE f[First(u)] + G(u)[rest(u)]
    BY <2>3 DEF IsSumOf
  <2>5. g[u] = IF u = {} THEN 0 ELSE f[First(u)] + G(rest(u))[rest(u)]
    BY <2>2
  <2>6. ASSUME u # {} PROVE G(u)[rest(u)] = G(rest(u))[rest(u)]
    <3>1. rest(u) \in SUBSET T /\ rest(u) # T /\ rest(u) \subseteq u
      BY <2>2
    <3>2. IsSumOf(G(rest(u)), f, rest(u))
      BY <1>3, <3>1
    <3> HIDE DEF u, rest
    <3> QED BY <2>3, <3>1, <3>2, SumsAgree
  <2> QED BY <2>4, <2>5, <2>6
<1>5. IsSumOf(g, f, T)
  BY <1>4 DEF IsSumOf
<1>6. \E h : IsSumOf(h, f, T)
  <2> HIDE DEF g
  <2> QED BY <1>5
<1> QED BY <1>2, <1>6

\* The sum over no elements, and over some: one of them and the sum over the others.
LEMMA SumUnfolds ==
  ASSUME NEW f, NEW S, IsFiniteSet(S)
  PROVE  SumFunctionOnSet(f, S) =
           IF S = {} THEN 0 ELSE f[First(S)] + SumFunctionOnSet(f, S \ {First(S)})
<1> DEFINE G(u) == CHOOSE g : IsSumOf(g, f, u)
           R == S \ {First(S)}
<1>1. IsFiniteSet(R) /\ R \subseteq S
  BY FS_Subset
<1>2. IsSumOf(G(S), f, S) /\ IsSumOf(G(R), f, R)
  <2>1. (\E g : IsSumOf(g, f, S)) /\ (\E g : IsSumOf(g, f, R))
    BY <1>1, SumExists
  <2> QED BY <2>1
<1>3. SumFunctionOnSet(f, S) = G(S)[S] /\ SumFunctionOnSet(f, R) = G(R)[R]
  BY SumIsRead
<1> HIDE DEF G
<1>4. G(S)[R] = G(R)[R]
  BY <1>1, <1>2, SumsAgree
<1>5. G(S)[S] = IF S = {} THEN 0 ELSE f[First(S)] + G(S)[R]
  BY <1>2 DEF IsSumOf
<1> QED BY <1>3, <1>4, <1>5

\* Nothing comes to nothing.
LEMMA SumOfNone == ASSUME NEW f PROVE SumFunctionOnSet(f, {}) = 0
<1>1. IsFiniteSet({})
  BY FS_EmptySet
<1> QED BY <1>1, SumUnfolds

\* Sums of integers are integers.
LEMMA SumIsInt ==
  ASSUME NEW f, NEW S, IsFiniteSet(S), \A x \in S : f[x] \in Int
  PROVE  SumFunctionOnSet(f, S) \in Int
<1> DEFINE A == {T \in SUBSET S : SumFunctionOnSet(f, T) \notin Int}
<1>1. SUFFICES ASSUME A # {} PROVE FALSE
  OBVIOUS
<1>2. PICK T \in A : \A v \in A : v \subseteq T => v = T
  <2>1. A \subseteq SUBSET S
    OBVIOUS
  <2> HIDE DEF A
  <2> QED BY <1>1, <2>1, LeastSet
<1>3. IsFiniteSet(T) /\ T # {}
  <2>1. IsFiniteSet(T)
    BY FS_Subset
  <2>2. SumFunctionOnSet(f, {}) \in Int
    BY SumOfNone
  <2> QED BY <2>1, <2>2
<1>4. First(T) \in T
  BY <1>3 DEF First
<1>5. SumFunctionOnSet(f, T \ {First(T)}) \in Int
  BY <1>2, <1>4
<1> QED BY <1>3, <1>4, <1>5, SumUnfolds

\* Which element is taken first does not matter.
LEMMA SumWithout ==
  ASSUME NEW f, NEW S, IsFiniteSet(S), \A x \in S : f[x] \in Int, NEW a \in S
  PROVE  SumFunctionOnSet(f, S) = f[a] + SumFunctionOnSet(f, S \ {a})
<1> DEFINE Sum(T) == SumFunctionOnSet(f, T)
           A == {T \in SUBSET S : \E x \in T : Sum(T) # f[x] + Sum(T \ {x})}
<1>1. SUFFICES ASSUME A # {} PROVE FALSE
  OBVIOUS
<1>2. PICK T \in A : \A v \in A : v \subseteq T => v = T
  <2>1. A \subseteq SUBSET S
    OBVIOUS
  <2> HIDE DEF A
  <2> QED BY <1>1, <2>1, LeastSet
<1>3. PICK x \in T : Sum(T) # f[x] + Sum(T \ {x})
  OBVIOUS
<1> DEFINE c == First(T)
           R == T \ {c, x}
<1>4. IsFiniteSet(T) /\ IsFiniteSet(T \ {c}) /\ IsFiniteSet(T \ {x}) /\ IsFiniteSet(R)
  BY FS_Subset
<1>5. c \in T /\ Sum(T) = f[c] + Sum(T \ {c})
  BY <1>3, <1>4, SumUnfolds DEF First
<1>6. c # x
  BY <1>3, <1>5
<1>7. Sum(T \ {c}) = f[x] + Sum(R)
  <2>1. x \in T \ {c} /\ (T \ {c}) \ {x} = R /\ T \ {c} # T /\ T \ {c} \in SUBSET S
    BY <1>5, <1>6
  <2> QED BY <1>2, <2>1
<1>8. Sum(T \ {x}) = f[c] + Sum(R)
  <2>1. c \in T \ {x} /\ (T \ {x}) \ {c} = R /\ T \ {x} # T /\ T \ {x} \in SUBSET S
    BY <1>5, <1>6
  <2> QED BY <1>2, <2>1
<1>9. f[x] \in Int /\ f[c] \in Int /\ Sum(R) \in Int
  <2>1. \A y \in R : f[y] \in Int
    OBVIOUS
  <2>2. Sum(R) \in Int
    <3> HIDE DEF R
    <3> QED BY <1>4, <2>1, SumIsInt
  <2> QED BY <1>5, <2>2
<1> HIDE DEF Sum, c, R
<1> QED BY <1>3, <1>5, <1>7, <1>8, <1>9

\* An element more.
LEMMA SumWith ==
  ASSUME NEW f, NEW S, IsFiniteSet(S), NEW a, a \notin S, \A x \in S \cup {a} : f[x] \in Int
  PROVE  SumFunctionOnSet(f, S \cup {a}) = f[a] + SumFunctionOnSet(f, S)
<1>1. IsFiniteSet(S \cup {a}) /\ (S \cup {a}) \ {a} = S
  BY FS_AddElement
<1> QED BY <1>1, SumWithout

\* A sum depends on what it adds up only.
LEMMA SumOfSame ==
  ASSUME NEW f, NEW g, NEW S, IsFiniteSet(S), \A x \in S : f[x] = g[x]
  PROVE  SumFunctionOnSet(f, S) = SumFunctionOnSet(g, S)
<1> DEFINE A == {T \in SUBSET S : SumFunctionOnSet(f, T) # SumFunctionOnSet(g, T)}
<1>1. SUFFICES ASSUME A # {} PROVE FALSE
  OBVIOUS
<1>2. PICK T \in A : \A v \in A : v \subseteq T => v = T
  <2>1. A \subseteq SUBSET S
    OBVIOUS
  <2> HIDE DEF A
  <2> QED BY <1>1, <2>1, LeastSet
<1>3. IsFiniteSet(T) /\ T # {}
  BY FS_Subset, SumOfNone
<1>4. First(T) \in T
  BY <1>3 DEF First
<1>5. SumFunctionOnSet(f, T \ {First(T)}) = SumFunctionOnSet(g, T \ {First(T)})
  BY <1>2, <1>4
<1> QED BY <1>3, <1>4, <1>5, SumUnfolds

\* What is added to one element is added to the sum.
LEMMA SumChanged ==
  ASSUME NEW f, NEW g, NEW S, IsFiniteSet(S), NEW a \in S, NEW d \in Int,
         \A x \in S : f[x] \in Int, \A x \in S \ {a} : g[x] = f[x], g[a] = f[a] + d
  PROVE  SumFunctionOnSet(g, S) = SumFunctionOnSet(f, S) + d
<1> DEFINE R == S \ {a}
<1>1. IsFiniteSet(R) /\ \A x \in R : f[x] \in Int /\ g[x] = f[x]
  BY FS_Subset
<1>2. \A x \in S : g[x] \in Int
  OBVIOUS
<1>3. /\ SumFunctionOnSet(f, S) = f[a] + SumFunctionOnSet(f, R)
      /\ SumFunctionOnSet(g, S) = g[a] + SumFunctionOnSet(g, R)
  BY <1>2, SumWithout
<1>4. SumFunctionOnSet(g, R) = SumFunctionOnSet(f, R) /\ SumFunctionOnSet(f, R) \in Int
  <2> HIDE DEF R
  <2> QED BY <1>1, SumOfSame, SumIsInt
<1> HIDE DEF R
<1> QED BY <1>3, <1>4

\* Sums are added up part by part.
LEMMA SumOfSums ==
  ASSUME NEW f, NEW g, NEW h, NEW S, IsFiniteSet(S),
         \A x \in S : f[x] \in Int /\ g[x] \in Int /\ h[x] = f[x] + g[x]
  PROVE  SumFunctionOnSet(h, S) = SumFunctionOnSet(f, S) + SumFunctionOnSet(g, S)
<1> DEFINE F(T) == SumFunctionOnSet(f, T)
           G(T) == SumFunctionOnSet(g, T)
           H(T) == SumFunctionOnSet(h, T)
           A == {T \in SUBSET S : H(T) # F(T) + G(T)}
<1>1. SUFFICES ASSUME A # {} PROVE FALSE
  OBVIOUS
<1>2. PICK T \in A : \A v \in A : v \subseteq T => v = T
  <2>1. A \subseteq SUBSET S
    OBVIOUS
  <2> HIDE DEF A
  <2> QED BY <1>1, <2>1, LeastSet
<1>3. IsFiniteSet(T) /\ T # {}
  <2>1. IsFiniteSet(T)
    BY FS_Subset
  <2>2. H({}) = F({}) + G({})
    BY SumOfNone
  <2> QED BY <2>1, <2>2
<1> DEFINE c == First(T)
           R == T \ {c}
<1>4. c \in T
  BY <1>3 DEF First
<1>5. H(R) = F(R) + G(R)
  BY <1>2, <1>4
<1>6. F(T) = f[c] + F(R) /\ G(T) = g[c] + G(R) /\ H(T) = h[c] + H(R)
  BY <1>3, SumUnfolds
<1>7. F(R) \in Int /\ G(R) \in Int
  <2>1. IsFiniteSet(R) /\ \A x \in R : f[x] \in Int /\ g[x] \in Int
    BY FS_Subset
  <2> HIDE DEF R
  <2> QED BY <2>1, SumIsInt
<1>8. f[c] \in Int /\ g[c] \in Int /\ h[c] = f[c] + g[c]
  BY <1>4
<1> HIDE DEF F, G, H, c, R
<1> QED BY <1>2, <1>5, <1>6, <1>7, <1>8 DEF F, G, H

\* A sum of larger numbers is no smaller.
LEMMA SumIsMonotone ==
  ASSUME NEW f, NEW g, NEW S, IsFiniteSet(S),
         \A x \in S : f[x] \in Int /\ g[x] \in Int /\ f[x] <= g[x]
  PROVE  SumFunctionOnSet(f, S) <= SumFunctionOnSet(g, S)
<1> DEFINE F(T) == SumFunctionOnSet(f, T)
           G(T) == SumFunctionOnSet(g, T)
           A == {T \in SUBSET S : ~(F(T) <= G(T))}
<1>1. SUFFICES ASSUME A # {} PROVE FALSE
  OBVIOUS
<1>2. PICK T \in A : \A v \in A : v \subseteq T => v = T
  <2>1. A \subseteq SUBSET S
    OBVIOUS
  <2> HIDE DEF A
  <2> QED BY <1>1, <2>1, LeastSet
<1>3. IsFiniteSet(T) /\ T # {}
  <2>1. IsFiniteSet(T)
    BY FS_Subset
  <2>2. F({}) <= G({})
    BY SumOfNone
  <2> QED BY <2>1, <2>2
<1> DEFINE c == First(T)
           R == T \ {c}
<1>4. c \in T
  BY <1>3 DEF First
<1>5. F(R) <= G(R)
  BY <1>2, <1>4
<1>6. F(T) = f[c] + F(R) /\ G(T) = g[c] + G(R)
  BY <1>3, SumUnfolds
<1>7. F(R) \in Int /\ G(R) \in Int
  <2>1. IsFiniteSet(R) /\ \A x \in R : f[x] \in Int /\ g[x] \in Int
    BY FS_Subset
  <2> HIDE DEF R
  <2> QED BY <2>1, SumIsInt
<1>8. f[c] \in Int /\ g[c] \in Int /\ f[c] <= g[c]
  BY <1>4
<1> HIDE DEF F, G, c, R
<1> QED BY <1>2, <1>5, <1>6, <1>7, <1>8 DEF F, G

\* A sum over some of the elements is no larger, where none is below zero.
LEMMA SumOfPart ==
  ASSUME NEW f, NEW S, IsFiniteSet(S), \A x \in S : f[x] \in Nat, NEW T, T \subseteq S
  PROVE  SumFunctionOnSet(f, T) <= SumFunctionOnSet(f, S)
<1> DEFINE F(U) == SumFunctionOnSet(f, U)
           A == {U \in SUBSET S : T \subseteq U /\ ~(F(T) <= F(U))}
<1>1. SUFFICES ASSUME A # {} PROVE FALSE
  OBVIOUS
<1>2. PICK U \in A : \A v \in A : v \subseteq U => v = U
  <2>1. A \subseteq SUBSET S
    OBVIOUS
  <2> HIDE DEF A
  <2> QED BY <1>1, <2>1, LeastSet
<1>3. IsFiniteSet(T) /\ IsFiniteSet(U)
  BY FS_Subset
<1>4. F(T) \in Int /\ \A V \in SUBSET S : F(V) \in Int
  BY <1>3, FS_Subset, SumIsInt
<1>5. PICK c \in U : c \notin T
  BY <1>4
<1>6. F(T) <= F(U \ {c})
  BY <1>2, <1>5
<1>7. F(U) = f[c] + F(U \ {c}) /\ f[c] \in Nat /\ F(U \ {c}) \in Int
  <2>1. \A x \in U : f[x] \in Int
    OBVIOUS
  <2> QED BY <1>3, <1>4, <2>1, SumWithout
<1> HIDE DEF F
<1> QED BY <1>2, <1>4, <1>6, <1>7

\* Elements that come to nothing may be left out.
LEMMA SumPadded ==
  ASSUME NEW f, NEW S, IsFiniteSet(S), NEW T, T \subseteq S,
         \A x \in S : f[x] \in Int, \A x \in S \ T : f[x] = 0
  PROVE  SumFunctionOnSet(f, S) = SumFunctionOnSet(f, T)
<1> DEFINE F(U) == SumFunctionOnSet(f, U)
           A == {U \in SUBSET S : T \subseteq U /\ F(U) # F(T)}
<1>1. SUFFICES ASSUME A # {} PROVE FALSE
  OBVIOUS
<1>2. PICK U \in A : \A v \in A : v \subseteq U => v = U
  <2>1. A \subseteq SUBSET S
    OBVIOUS
  <2> HIDE DEF A
  <2> QED BY <1>1, <2>1, LeastSet
<1>3. PICK c \in U : c \notin T
  OBVIOUS
<1>4. F(U \ {c}) = F(T)
  BY <1>2, <1>3
<1>5. F(U) = f[c] + F(U \ {c}) /\ f[c] = 0 /\ F(U \ {c}) \in Int
  <2>1. IsFiniteSet(U) /\ IsFiniteSet(U \ {c}) /\ \A x \in U : f[x] \in Int
    BY FS_Subset
  <2>2. F(U) = f[c] + F(U \ {c})
    BY <2>1, SumWithout
  <2>3. F(U \ {c}) \in Int
    BY <2>1, SumIsInt
  <2> QED BY <1>3, <2>2, <2>3
<1> HIDE DEF F
<1> QED BY <1>4, <1>5

\* A sum of multiples is a multiple of the sum.
LEMMA SumScaled ==
  ASSUME NEW f, NEW g, NEW S, IsFiniteSet(S), NEW k \in Int,
         \A x \in S : f[x] \in Int /\ g[x] = k * f[x]
  PROVE  SumFunctionOnSet(g, S) = k * SumFunctionOnSet(f, S)
<1> DEFINE F(T) == SumFunctionOnSet(f, T)
           G(T) == SumFunctionOnSet(g, T)
           A == {T \in SUBSET S : G(T) # k * F(T)}
<1>1. SUFFICES ASSUME A # {} PROVE FALSE
  OBVIOUS
<1>2. PICK T \in A : \A v \in A : v \subseteq T => v = T
  <2>1. A \subseteq SUBSET S
    OBVIOUS
  <2> HIDE DEF A
  <2> QED BY <1>1, <2>1, LeastSet
<1>3. IsFiniteSet(T) /\ T # {}
  <2>1. IsFiniteSet(T)
    BY FS_Subset
  <2>2. G({}) = k * F({})
    BY SumOfNone
  <2> QED BY <2>1, <2>2
<1> DEFINE c == First(T)
           R == T \ {c}
<1>4. c \in T
  BY <1>3 DEF First
<1>5. G(R) = k * F(R)
  BY <1>2, <1>4
<1>6. F(T) = f[c] + F(R) /\ G(T) = g[c] + G(R)
  BY <1>3, SumUnfolds
<1>7. F(R) \in Int
  <2>1. IsFiniteSet(R) /\ \A x \in R : f[x] \in Int
    BY FS_Subset
  <2> HIDE DEF R
  <2> QED BY <2>1, SumIsInt
<1>8. f[c] \in Int /\ g[c] = k * f[c]
  BY <1>4
<1> HIDE DEF F, G, c, R
<1> QED BY <1>2, <1>5, <1>6, <1>7, <1>8 DEF F, G

\* What finitely many elements are mapped to is finitely many.
LEMMA ImageIsFinite ==
  ASSUME NEW f, NEW S, IsFiniteSet(S)
  PROVE  IsFiniteSet({f[x] : x \in S})
<1> DEFINE T == {f[x] : x \in S}
           g == [x \in S |-> f[x]]
<1>1. g \in Surjection(S, T)
  BY DEF Surjection
<1> QED BY <1>1, FS_Surjection

\* Among finitely many elements one has the largest number.
LEMMA HasLargest ==
  ASSUME NEW f, NEW S, IsFiniteSet(S), S # {}, \A x \in S : f[x] \in Int
  PROVE  \E a \in S : \A x \in S : f[x] <= f[a]
<1> DEFINE up(x) == {y \in S : f[y] >= f[x]}
           A == {up(x) : x \in S}
<1>1. A \subseteq SUBSET S /\ A # {}
  OBVIOUS
<1>2. PICK T \in A : \A U \in A : U \subseteq T => U = T
  <2> HIDE DEF A
  <2> QED BY <1>1, LeastSet
<1>3. PICK a \in S : T = up(a)
  OBVIOUS
<1>4. ASSUME NEW x \in S, f[x] > f[a] PROVE FALSE
  <2>1. up(x) \in A
    OBVIOUS
  <2>2. up(x) \subseteq T
    BY <1>3, <1>4
  <2>3. a \notin up(x) /\ a \in T
    BY <1>3, <1>4
  <2> QED BY <1>2, <2>1, <2>2, <2>3
<1> QED BY <1>4

-----------------------------------------------------------------------------
(* Sums of payoffs.                                                        *)

\* What the right to buy, or to sell, at k comes to at a price s.
EndValue(call, k, s) ==
  IF call THEN IF s <= k THEN 0 ELSE s - k
          ELSE IF k <= s THEN 0 ELSE k - s

EndValues(call, k, q, H, s) == [c \in H |-> EndValue(call[c], k[c], s) * q[c]]

\* They are whole numbers.
LEMMA EndValuesAreWhole ==
  ASSUME NEW H, IsFiniteSet(H), NEW call, NEW k, NEW q,
         \A c \in H : k[c] \in Nat /\ q[c] \in Int, NEW s \in Nat
  PROVE  /\ \A c \in H : /\ EndValue(call[c], k[c], s) \in Nat
                         /\ EndValues(call, k, q, H, s)[c] = EndValue(call[c], k[c], s) * q[c]
                         /\ EndValues(call, k, q, H, s)[c] \in Int
         /\ SumFunctionOnSet(EndValues(call, k, q, H, s), H) \in Int
<1>1. ASSUME NEW c \in H
      PROVE  /\ EndValue(call[c], k[c], s) \in Nat
             /\ EndValues(call, k, q, H, s)[c] = EndValue(call[c], k[c], s) * q[c]
             /\ EndValues(call, k, q, H, s)[c] \in Int
  <2>1. k[c] \in Nat /\ q[c] \in Int
    OBVIOUS
  <2>2. EndValue(call[c], k[c], s) \in Nat
    BY <2>1 DEF EndValue
  <2>3. EndValues(call, k, q, H, s)[c] = EndValue(call[c], k[c], s) * q[c]
    BY DEF EndValues
  <2>4. EndValue(call[c], k[c], s) * q[c] \in Int
    BY <2>1, <2>2
  <2> QED BY <2>2, <2>3, <2>4
<1>2. SumFunctionOnSet(EndValues(call, k, q, H, s), H) \in Int
  BY <1>1, SumIsInt
<1> QED BY <1>1, <1>2

\* Between two neighbouring bends a right's value runs straight.
LEMMA StraightBetween ==
  ASSUME NEW call, NEW k \in Nat, NEW lo \in Nat, NEW hi \in Nat, NEW s \in Nat, lo <= s, s <= hi,
         k <= lo \/ hi <= k
  PROVE  (hi - lo) * EndValue(call, k, s)
           = (hi - s) * EndValue(call, k, lo) + (s - lo) * EndValue(call, k, hi)
<1>1. CASE k <= lo /\ call
  <2>1. /\ EndValue(call, k, s) = s - k /\ EndValue(call, k, lo) = lo - k
        /\ EndValue(call, k, hi) = hi - k
    BY <1>1 DEF EndValue
  <2>2. (hi - lo) * (s - k) = (hi - s) * (lo - k) + (s - lo) * (hi - k)
    OBVIOUS
  <2> QED BY <2>1, <2>2
<1>2. CASE k <= lo /\ ~call
  <2>1. EndValue(call, k, s) = 0 /\ EndValue(call, k, lo) = 0 /\ EndValue(call, k, hi) = 0
    BY <1>2 DEF EndValue
  <2> QED BY <2>1
<1>3. CASE hi <= k /\ call
  <2>1. EndValue(call, k, s) = 0 /\ EndValue(call, k, lo) = 0 /\ EndValue(call, k, hi) = 0
    BY <1>3 DEF EndValue
  <2> QED BY <2>1
<1>4. CASE hi <= k /\ ~call
  <2>1. /\ EndValue(call, k, s) = k - s /\ EndValue(call, k, lo) = k - lo
        /\ EndValue(call, k, hi) = k - hi
    BY <1>4 DEF EndValue
  <2>2. (hi - lo) * (k - s) = (hi - s) * (k - lo) + (s - lo) * (k - hi)
    OBVIOUS
  <2> QED BY <2>1, <2>2
<1> QED BY <1>1, <1>2, <1>3, <1>4

\* Past the last bend a sum that does not fall there is no less than at that bend.
LEMMA LeastPastTheBends ==
  ASSUME NEW H, IsFiniteSet(H), NEW call, NEW k, NEW q,
         \A c \in H : k[c] \in Nat /\ q[c] \in Int,
         SumFunctionOnSet(q, {c \in H : call[c]}) >= 0,
         NEW lo \in Nat, NEW s \in Nat, lo <= s, \A c \in H : k[c] <= lo
  PROVE  SumFunctionOnSet(EndValues(call, k, q, H, lo), H)
           <= SumFunctionOnSet(EndValues(call, k, q, H, s), H)
<1> DEFINE V(t) == SumFunctionOnSet(EndValues(call, k, q, H, t), H)
           calls == {c \in H : call[c]}
           up == [c \in H |-> IF call[c] THEN q[c] ELSE 0]
           more == [c \in H |-> (s - lo) * up[c]]
<1>1. ASSUME NEW c \in H
      PROVE  /\ up[c] \in Int /\ more[c] = (s - lo) * up[c] /\ more[c] \in Int
             /\ EndValues(call, k, q, H, lo)[c] \in Int
             /\ EndValues(call, k, q, H, s)[c] = EndValues(call, k, q, H, lo)[c] + more[c]
  <2>1. q[c] \in Int /\ k[c] \in Nat /\ k[c] <= lo
    OBVIOUS
  <2>2. /\ EndValues(call, k, q, H, s)[c] = EndValue(call[c], k[c], s) * q[c]
        /\ EndValues(call, k, q, H, lo)[c] = EndValue(call[c], k[c], lo) * q[c]
        /\ EndValues(call, k, q, H, lo)[c] \in Int
        /\ EndValue(call[c], k[c], lo) \in Int
    <3>1. \A t \in Nat : EndValue(call[c], k[c], t) \in Nat /\ EndValues(call, k, q, H, t)[c] \in Int
      BY EndValuesAreWhole
    <3> QED BY <3>1 DEF EndValues
  <2>3. up[c] \in Int /\ more[c] = (s - lo) * up[c] /\ more[c] \in Int
    BY <2>1
  <2>4. CASE call[c]
    <3>1. /\ EndValue(call[c], k[c], s) = EndValue(call[c], k[c], lo) + (s - lo)
          /\ more[c] = (s - lo) * q[c]
      BY <2>1, <2>4 DEF EndValue
    <3> HIDE DEF up, more
    <3> QED BY <2>1, <2>2, <2>3, <3>1
  <2>5. CASE ~call[c]
    <3>1. EndValue(call[c], k[c], s) = EndValue(call[c], k[c], lo) /\ more[c] = 0
      BY <2>1, <2>5 DEF EndValue
    <3> HIDE DEF up, more
    <3> QED BY <2>1, <2>2, <2>3, <3>1
  <2> QED BY <2>2, <2>3, <2>4, <2>5
<1>2. SumFunctionOnSet(up, calls) = SumFunctionOnSet(q, calls)
  <2>1. IsFiniteSet(calls) /\ \A c \in calls : up[c] = q[c]
    BY FS_Subset
  <2> HIDE DEF up, calls
  <2> QED BY <2>1, SumOfSame
<1>3. SumFunctionOnSet(up, H) = SumFunctionOnSet(up, calls)
  <2>1. calls \subseteq H /\ \A c \in H \ calls : up[c] = 0
    OBVIOUS
  <2> HIDE DEF up, calls
  <2> QED BY <1>1, <2>1, SumPadded
<1> HIDE DEF more, up
<1>4. V(s) = V(lo) + SumFunctionOnSet(more, H)
  BY <1>1, SumOfSums
<1>5. SumFunctionOnSet(up, H) \in Int
  BY <1>1, SumIsInt
<1>6. SumFunctionOnSet(more, H) = (s - lo) * SumFunctionOnSet(up, H)
  <2>1. s - lo \in Int
    OBVIOUS
  <2> QED BY <1>1, <2>1, SumScaled
<1> DEFINE S == SumFunctionOnSet(up, H)
<1>7. S >= 0 /\ S \in Int /\ s - lo \in Nat /\ V(s) = V(lo) + (s - lo) * S /\ V(lo) \in Int
  <2>1. V(lo) \in Int
    <3> HIDE DEF calls
    <3> QED BY EndValuesAreWhole
  <2> QED BY <1>2, <1>3, <1>4, <1>5, <1>6, <2>1
<1> HIDE DEF S, V
<1>8. (s - lo) * S \in Nat
  BY <1>7
<1>9. V(lo) <= V(s)
  BY <1>7, <1>8
<1> QED BY <1>9 DEF V

\* A number that is a mean of two others, weighted, is no less than one of them.
LEMMA MeanOfTwo ==
  ASSUME NEW a \in Nat, NEW b \in Nat, a + b > 0, NEW x \in Int, NEW y \in Int, NEW z \in Int,
         (a + b) * x = a * y + b * z
  PROVE  y <= x \/ z <= x
<1>1. SUFFICES ASSUME x + 1 <= y, x + 1 <= z PROVE FALSE
  OBVIOUS
<1>2. a * (x + 1) <= a * y /\ b * (x + 1) <= b * z
  BY <1>1
<1>3. a * (x + 1) = a * x + a /\ b * (x + 1) = b * x + b /\ (a + b) * x = a * x + b * x
  OBVIOUS
<1>4. a * x \in Int /\ b * x \in Int /\ a * y \in Int /\ b * z \in Int
  OBVIOUS
<1> QED BY <1>2, <1>3, <1>4

\* A sum of payoffs bends where one of them does: if it does not fall past the last bend,
\* it is nowhere less than at every bend and at zero.
LEMMA LeastAtABend ==
  ASSUME NEW H, IsFiniteSet(H), NEW call, NEW k, NEW q,
         \A c \in H : k[c] \in Nat /\ q[c] \in Int,
         SumFunctionOnSet(q, {c \in H : call[c]}) >= 0,
         NEW P, IsFiniteSet(P), P \subseteq Nat, 0 \in P, \A c \in H : k[c] \in P, NEW s \in Nat
  PROVE  \E p \in P : SumFunctionOnSet(EndValues(call, k, q, H, p), H)
                        <= SumFunctionOnSet(EndValues(call, k, q, H, s), H)
<1> DEFINE V(t) == SumFunctionOnSet(EndValues(call, k, q, H, t), H)
           id == [p \in Nat |-> p]
           minus == [p \in Nat |-> -p]
           below == {p \in P : p <= s}
           above == {p \in P : p > s}
<1>1. PICK lo \in below : \A p \in below : p <= lo
  <2>1. IsFiniteSet(below) /\ below # {} /\ \A p \in below : id[p] = p /\ id[p] \in Int
    BY FS_Subset
  <2> HIDE DEF id, below
  <2>2. \E a \in below : \A x \in below : id[x] <= id[a]
    BY <2>1, HasLargest
  <2> QED BY <2>1, <2>2
<1>2. lo \in P /\ lo \in Nat /\ lo <= s
  OBVIOUS
<1>3. CASE above = {}
  <2>1. \A c \in H : k[c] <= lo
    BY <1>1, <1>3
  <2> QED BY <1>2, <2>1, LeastPastTheBends
<1>4. CASE above # {}
  <2>1. PICK hi \in above : \A p \in above : hi <= p
    <3>1. IsFiniteSet(above) /\ \A p \in above : minus[p] = -p /\ minus[p] \in Int /\ p \in Int
      BY FS_Subset
    <3> HIDE DEF minus, above
    <3>2. \E a \in above : \A x \in above : minus[x] <= minus[a]
      BY <1>4, <3>1, HasLargest
    <3> QED BY <3>1, <3>2
  <2>2. hi \in P /\ hi \in Nat /\ s < hi
    OBVIOUS
  <2> DEFINE a == hi - s
             b == s - lo
             n == hi - lo
             f == [c \in H |-> a * EndValues(call, k, q, H, lo)[c]]
             h == [c \in H |-> b * EndValues(call, k, q, H, hi)[c]]
             t == [c \in H |-> n * EndValues(call, k, q, H, s)[c]]
  <2>3. a \in Nat /\ b \in Nat /\ n \in Nat /\ n = a + b /\ n > 0
    BY <1>2, <2>2
  <2>4. /\ \A c \in H : /\ EndValues(call, k, q, H, s)[c] \in Int
                         /\ EndValues(call, k, q, H, lo)[c] \in Int
                         /\ EndValues(call, k, q, H, hi)[c] \in Int
        /\ V(s) \in Int /\ V(lo) \in Int /\ V(hi) \in Int
    BY <1>2, <2>2, EndValuesAreWhole
  <2>5. ASSUME NEW c \in H
        PROVE  n * EndValues(call, k, q, H, s)[c]
                 = a * EndValues(call, k, q, H, lo)[c] + b * EndValues(call, k, q, H, hi)[c]
    <3> DEFINE x == EndValue(call[c], k[c], s)
               y == EndValue(call[c], k[c], lo)
               z == EndValue(call[c], k[c], hi)
               w == q[c]
    <3>1. k[c] \in Nat /\ (k[c] <= lo \/ hi <= k[c])
      <4>1. k[c] \in Nat /\ k[c] \in P
        OBVIOUS
      <4>2. k[c] \in below \/ k[c] \in above
        BY <4>1
      <4> QED BY <1>1, <2>1, <4>1, <4>2
    <3>2. n * x = a * y + b * z
      BY <1>2, <2>2, <3>1, StraightBetween
    <3>3. /\ EndValues(call, k, q, H, s)[c] = x * w /\ EndValues(call, k, q, H, lo)[c] = y * w
          /\ EndValues(call, k, q, H, hi)[c] = z * w
          /\ x \in Int /\ y \in Int /\ z \in Int /\ w \in Int
      <4>1. \A r \in Nat : EndValue(call[c], k[c], r) \in Nat
        BY EndValuesAreWhole
      <4> QED BY <1>2, <2>2, <4>1 DEF EndValues
    <3> HIDE DEF x, y, z, w, a, b, n
    <3>4. n * (x * w) = (n * x) * w /\ (a * y + b * z) * w = a * (y * w) + b * (z * w)
      BY <2>3, <3>3
    <3> QED BY <3>2, <3>3, <3>4
  <2> HIDE DEF a, b, n
  <2>6. \A c \in H : /\ f[c] = a * EndValues(call, k, q, H, lo)[c]
                     /\ h[c] = b * EndValues(call, k, q, H, hi)[c]
                     /\ t[c] = n * EndValues(call, k, q, H, s)[c]
                     /\ f[c] \in Int /\ h[c] \in Int /\ t[c] = f[c] + h[c]
    BY <2>3, <2>4, <2>5
  <2> HIDE DEF f, h, t
  <2>7. SumFunctionOnSet(t, H) = SumFunctionOnSet(f, H) + SumFunctionOnSet(h, H)
    BY <2>6, SumOfSums
  <2>8. /\ SumFunctionOnSet(t, H) = n * V(s)
        /\ SumFunctionOnSet(f, H) = a * V(lo)
        /\ SumFunctionOnSet(h, H) = b * V(hi)
    <3>1. n \in Int /\ a \in Int /\ b \in Int
      BY <2>3
    <3> QED BY <2>4, <2>6, <3>1, SumScaled
  <2>9. (a + b) * V(s) = a * V(lo) + b * V(hi)
    BY <2>3, <2>7, <2>8
  <2> HIDE DEF V
  <2>10. V(lo) <= V(s) \/ V(hi) <= V(s)
    BY <2>3, <2>4, <2>9, MeanOfTwo
  <2> QED BY <1>2, <2>2, <2>10 DEF V
<1> QED BY <1>3, <1>4

=============================================================================
