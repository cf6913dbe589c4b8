--------------------------- MODULE Amounts_proofs ---------------------------
(***************************************************************************)
(* What the tables of the ledger add up to, for any number of miners and   *)
(* messages and whichever database calls fail: neither table promises the  *)
(* miners more than the pool received (NeverOverpaid), and a balance is    *)
(* what its miner earned (BalancesMatchEarnings); with them TypeOK, which  *)
(* needs every amount to be a number.                                      *)
(*                                                                         *)
(* A sum over a set is a recursive function that takes an element by       *)
(* CHOOSE.  That there is such a function, and that the order of the       *)
(* elements does not matter, is proved first, by induction over the        *)
(* subsets of a finite set.                                                *)
(***************************************************************************)
EXTENDS Ledger_proofs, FiniteSetTheorems

-----------------------------------------------------------------------------
(* Sums over finite sets *)

\* The element that a sum over s takes first.
Any(s) == CHOOSE x \in s : TRUE

\* g gives each subset of S the sum of f over it, element by element.
Adds(g, f, S) ==
    g = [s \in SUBSET S |-> IF s = {} THEN 0 ELSE f[Any(s)] + g[s \ {Any(s)}]]

Total(f, S) == MapThenSumSet(LAMBDA x : f[x], S)

\* Induction over the subsets of a finite set, without an operator as a parameter:
\* of a set that were not good, a smallest subset that is not would lack a reason.
LEMMA AllSubsets ==
    ASSUME NEW S, IsFiniteSet(S), NEW Good,
           \A T \in SUBSET S : (\A x \in T : T \ {x} \in Good) => T \in Good
    PROVE  SUBSET S \subseteq Good
<1> DEFINE Bad == (SUBSET S) \ Good
           sizes == {n \in Nat : \E T \in Bad : Cardinality(T) = n}
<1> SUFFICES ASSUME Bad # {} PROVE FALSE
  OBVIOUS
<1>1. \A T \in SUBSET S : IsFiniteSet(T) /\ Cardinality(T) \in Nat
  BY FS_Subset, FS_CardinalityType
<1>2. sizes \subseteq Nat /\ sizes # {}
  BY <1>1
<1>3. PICK n \in sizes : \A m \in sizes : n <= m
  BY <1>2, SmallestExists
<1>4. PICK T \in Bad : Cardinality(T) = n
  BY <1>3
<1>5. ASSUME NEW x \in T, T \ {x} \notin Good PROVE FALSE
  <2>1. T \ {x} \in Bad
    BY <1>5
  <2>2. Cardinality(T \ {x}) = n - 1
    BY <1>1, <1>4, FS_RemoveElement
  <2>3. Cardinality(T \ {x}) \in sizes
    BY <1>1, <2>1
  <2> HIDE DEF sizes
  <2> QED
    BY <1>2, <1>3, <2>2, <2>3
<1> QED
  BY <1>4, <1>5

\* What is taken from a set is in it.
LEMMA AnyIsElement == ASSUME NEW s, s # {} PROVE Any(s) \in s
BY DEF Any

\* Such a g exists: it is built up to one size of subsets after the other.
LEMMA AddsExists ==
    ASSUME NEW S, IsFiniteSet(S), NEW f
    PROVE  \E g : Adds(g, f, S)
<1> DEFINE Upto(n) == {s \in SUBSET S : Cardinality(s) <= n}
           IsPart(g, n) == g = [s \in Upto(n) |->
                                   IF s = {} THEN 0 ELSE f[Any(s)] + g[s \ {Any(s)}]]
           missing == {n \in Nat : ~ \E g : IsPart(g, n)}
<1>0. \A T \in SUBSET S : IsFiniteSet(T) /\ Cardinality(T) \in Nat
  BY FS_Subset, FS_CardinalityType
<1>1. 0 \notin missing
  <2>1. \A s \in Upto(0) : s = {}
    BY <1>0, FS_EmptySet
  <2>2. IsPart([s \in Upto(0) |-> 0], 0)
    BY <2>1
  <2> QED
    BY <2>2
<1>2. ASSUME NEW n \in Nat, n \notin missing PROVE n + 1 \notin missing
  <2>1. PICK g : IsPart(g, n)
    BY <1>2
  <2> DEFINE h == [s \in Upto(n + 1) |->
                      IF s = {} THEN 0 ELSE f[Any(s)] + g[s \ {Any(s)}]]
  <2>2. \A s \in Upto(n) : g[s] = h[s]
    <3>1. Upto(n) \subseteq Upto(n + 1)
      BY <1>0
    <3> HIDE DEF Upto
    <3> QED
      BY <2>1, <3>1
  <2>3. ASSUME NEW s \in Upto(n + 1), s # {} PROVE g[s \ {Any(s)}] = h[s \ {Any(s)}]
    <3>1. Any(s) \in s
      BY <2>3, AnyIsElement
    <3>2. Cardinality(s \ {Any(s)}) = Cardinality(s) - 1
      BY <1>0, <3>1, FS_RemoveElement
    <3>3. s \ {Any(s)} \in Upto(n)
      BY <1>0, <3>2
    <3> QED
      BY <2>2, <3>3
  <2> HIDE DEF h
  <2>4. h = [s \in Upto(n + 1) |->
                IF s = {} THEN 0 ELSE f[Any(s)] + h[s \ {Any(s)}]]
    BY <2>3 DEF h
  <2> QED
    BY <2>4
<1>3. missing = {}
  <2> SUFFICES ASSUME missing # {} PROVE FALSE
    OBVIOUS
  <2>0. missing \subseteq Nat
    OBVIOUS
  <2> HIDE DEF missing
  <2>1. PICK n \in missing : \A m \in missing : n <= m
    BY <2>0, SmallestExists
  <2>2. n \in Nat /\ n # 0
    BY <1>1, <2>0, <2>1
  <2>3. n - 1 \in Nat /\ ~ (n <= n - 1)
    BY <2>2
  <2>4. (n - 1) + 1 \notin missing
    BY <1>2, <2>1, <2>3
  <2> QED
    BY <2>1, <2>2, <2>4
<1>4. PICK g : IsPart(g, Cardinality(S))
  BY <1>0, <1>3
<1>5. Upto(Cardinality(S)) = SUBSET S
  BY FS_Subset
<1> QED
  BY <1>4, <1>5 DEF Adds

\* And it does not matter which element is taken first.
LEMMA AddsAnyOrder ==
    ASSUME NEW S, IsFiniteSet(S), NEW f, NEW g, Adds(g, f, S), \A x \in S : f[x] \in Nat
    PROVE  /\ g[{}] = 0
           /\ \A T \in SUBSET S : g[T] \in Nat
           /\ \A T \in SUBSET S : \A x \in T : g[T] = f[x] + g[T \ {x}]
<1> DEFINE Natural == {T \in SUBSET S : g[T] \in Nat}
           Orderless == {T \in SUBSET S : \A x \in T : g[T] = f[x] + g[T \ {x}]}
<1>1. \A T \in SUBSET S : g[T] = IF T = {} THEN 0 ELSE f[Any(T)] + g[T \ {Any(T)}]
  BY DEF Adds
<1>2. SUBSET S \subseteq Natural
  <2>1. ASSUME NEW T \in SUBSET S, \A x \in T : T \ {x} \in Natural
        PROVE  T \in Natural
    <3>1. g[T] = IF T = {} THEN 0 ELSE f[Any(T)] + g[T \ {Any(T)}]
      BY <1>1
    <3>2. T # {} => f[Any(T)] \in Nat /\ g[T \ {Any(T)}] \in Nat
      BY <2>1, AnyIsElement
    <3>3. g[T] \in Nat
      BY <3>1, <3>2
    <3> QED
      BY <3>3
  <2> HIDE DEF Natural
  <2> QED
    BY <2>1, AllSubsets
<1>3. SUBSET S \subseteq Orderless
  <2>1. ASSUME NEW T \in SUBSET S, \A x \in T : T \ {x} \in Orderless
        PROVE  T \in Orderless
    <3> SUFFICES ASSUME NEW x \in T PROVE g[T] = f[x] + g[T \ {x}]
      OBVIOUS
    <3> DEFINE a == Any(T)
               rest == (T \ {x}) \ {a}
    <3>1. a \in T /\ g[T] = f[a] + g[T \ {a}]
      BY <1>1, AnyIsElement
    <3> HIDE DEF a
    <3>2. CASE a = x
      BY <3>1, <3>2
    <3>3. CASE a # x
      <4>1. x \in T \ {a} /\ a \in T \ {x}
        BY <3>1, <3>3
      <4>2. (T \ {a}) \ {x} = rest /\ rest \in SUBSET S
        OBVIOUS
      <4>3. g[T \ {a}] = f[x] + g[rest]
        BY <2>1, <3>1, <4>1, <4>2
      <4>4. g[T \ {x}] = f[a] + g[rest]
        BY <2>1, <4>1
      <4>5. f[a] \in Nat /\ f[x] \in Nat /\ g[rest] \in Nat
        BY <1>2, <3>1, <4>2
      <4> HIDE DEF rest
      <4> QED
        BY <3>1, <4>3, <4>4, <4>5
    <3> QED
      BY <3>2, <3>3
  <2> HIDE DEF Orderless
  <2> QED
    BY <2>1, AllSubsets
<1> QED
  BY <1>1, <1>2, <1>3

\* The sum that the operator of the community modules stands for.
LEMMA TotalAdds ==
    ASSUME NEW S, IsFiniteSet(S), NEW f
    PROVE  \E g : Adds(g, f, S) /\ Total(f, S) = g[S]
<1>1. \E g : Adds(g, f, S)
  BY AddsExists
<1>2. Adds(CHOOSE g : Adds(g, f, S), f, S)
  BY <1>1
<1>3. Total(f, S) = (CHOOSE g : Adds(g, f, S))[S]
  BY DEF Total, MapThenSumSet, MapThenFoldSet, Adds, Any
<1> QED
  BY <1>2, <1>3

\* Whatever adds f up gives its total.
LEMMA AddsTotal ==
    ASSUME NEW S, IsFiniteSet(S), NEW f, \A x \in S : f[x] \in Nat,
           NEW g, Adds(g, f, S), NEW T \in SUBSET S
    PROVE  g[T] = Total(f, T)
<1>1. IsFiniteSet(T) /\ \A x \in T : f[x] \in Nat
  BY FS_Subset
<1>2. PICK h : Adds(h, f, T) /\ Total(f, T) = h[T]
  BY <1>1, TotalAdds
<1> DEFINE Same == {U \in SUBSET T : g[U] = h[U]}
<1>3. SUBSET T \subseteq Same
  <2>1. ASSUME NEW U \in SUBSET T, \A x \in U : U \ {x} \in Same
        PROVE  U \in Same
    <3>1. /\ g[U] = IF U = {} THEN 0 ELSE f[Any(U)] + g[U \ {Any(U)}]
          /\ h[U] = IF U = {} THEN 0 ELSE f[Any(U)] + h[U \ {Any(U)}]
      <4>1. U \in SUBSET S
        OBVIOUS
      <4>2. g[U] = IF U = {} THEN 0 ELSE f[Any(U)] + g[U \ {Any(U)}]
        BY <4>1 DEF Adds
      <4>3. h[U] = IF U = {} THEN 0 ELSE f[Any(U)] + h[U \ {Any(U)}]
        BY <1>2 DEF Adds
      <4> QED
        BY <4>2, <4>3
    <3>2. U # {} => g[U \ {Any(U)}] = h[U \ {Any(U)}]
      BY <2>1, AnyIsElement
    <3> QED
      BY <3>1, <3>2
  <2> HIDE DEF Same
  <2> QED
    BY <1>1, <2>1, AllSubsets
<1> QED
  BY <1>2, <1>3

-----------------------------------------------------------------------------
(* Laws of sums *)

\* Nothing adds up to 0.
LEMMA TotalEmpty == ASSUME NEW f PROVE Total(f, {}) = 0
<1>1. PICK g : Adds(g, f, {}) /\ Total(f, {}) = g[{}]
  BY TotalAdds, FS_EmptySet
<1> QED
  BY <1>1, AddsAnyOrder, FS_EmptySet

\* Numbers add up to a number.
LEMMA TotalNat ==
    ASSUME NEW S, IsFiniteSet(S), NEW f, \A x \in S : f[x] \in Nat
    PROVE  Total(f, S) \in Nat
<1>1. PICK g : Adds(g, f, S) /\ Total(f, S) = g[S]
  BY TotalAdds
<1> QED
  BY <1>1, AddsAnyOrder

\* One element more, or less.
LEMMA TotalSplit ==
    ASSUME NEW S, IsFiniteSet(S), NEW f, \A x \in S : f[x] \in Nat, NEW x \in S
    PROVE  Total(f, S) = f[x] + Total(f, S \ {x})
<1>1. PICK g : Adds(g, f, S) /\ Total(f, S) = g[S]
  BY TotalAdds
<1>2. g[S] = f[x] + g[S \ {x}]
  BY <1>1, AddsAnyOrder
<1>3. g[S \ {x}] = Total(f, S \ {x})
  BY <1>1, AddsTotal
<1> QED
  BY <1>1, <1>2, <1>3

\* One term is its own sum.
LEMMA TotalSingle ==
    ASSUME NEW f, NEW x, f[x] \in Nat
    PROVE  Total(f, {x}) = f[x]
<1>1. IsFiniteSet({x})
  BY FS_Singleton
<1>2. Total(f, {x}) = f[x] + Total(f, {x} \ {x})
  BY <1>1, TotalSplit
<1>3. {x} \ {x} = {}
  OBVIOUS
<1> QED
  BY <1>2, <1>3, TotalEmpty

\* The terms decide the sum.
LEMMA TotalCongruent ==
    ASSUME NEW S, IsFiniteSet(S), NEW f, NEW h,
           \A x \in S : f[x] \in Nat /\ h[x] = f[x]
    PROVE  Total(h, S) = Total(f, S)
<1> DEFINE Good == {T \in SUBSET S : Total(h, T) = Total(f, T)}
<1>1. ASSUME NEW T \in SUBSET S, \A x \in T : T \ {x} \in Good
      PROVE  T \in Good
  <2>1. IsFiniteSet(T)
    BY FS_Subset
  <2>2. CASE T = {}
    BY <2>2, TotalEmpty
  <2>3. CASE T # {}
    <3>1. PICK x \in T : TRUE
      BY <2>3
    <3>2. Total(f, T) = f[x] + Total(f, T \ {x})
      BY <2>1, TotalSplit
    <3>3. Total(h, T) = h[x] + Total(h, T \ {x})
      BY <2>1, TotalSplit
    <3> QED
      BY <1>1, <3>2, <3>3
  <2> QED
    BY <2>2, <2>3
<1> HIDE DEF Good
<1>2. S \in Good
  BY <1>1, AllSubsets
<1> QED
  BY <1>2 DEF Good

\* Sums are added term by term.
LEMMA TotalPlus ==
    ASSUME NEW S, IsFiniteSet(S), NEW f, NEW g, NEW h,
           \A x \in S : f[x] \in Nat /\ g[x] \in Nat /\ h[x] = f[x] + g[x]
    PROVE  Total(h, S) = Total(f, S) + Total(g, S)
<1> DEFINE Good == {T \in SUBSET S : Total(h, T) = Total(f, T) + Total(g, T)}
<1>1. ASSUME NEW T \in SUBSET S, \A x \in T : T \ {x} \in Good
      PROVE  T \in Good
  <2>1. IsFiniteSet(T)
    BY FS_Subset
  <2>2. CASE T = {}
    BY <2>2, TotalEmpty
  <2>3. CASE T # {}
    <3>1. PICK x \in T : TRUE
      BY <2>3
    <3>2. Total(f, T) = f[x] + Total(f, T \ {x})
      BY <2>1, TotalSplit
    <3>3. Total(g, T) = g[x] + Total(g, T \ {x})
      BY <2>1, TotalSplit
    <3>4. Total(h, T) = h[x] + Total(h, T \ {x})
      BY <2>1, TotalSplit
    <3>5. Total(h, T \ {x}) = Total(f, T \ {x}) + Total(g, T \ {x})
      BY <1>1
    <3>6. IsFiniteSet(T \ {x})
      BY <2>1, FS_RemoveElement
    <3>7. Total(f, T \ {x}) \in Nat /\ Total(g, T \ {x}) \in Nat
      BY <3>6, TotalNat
    <3>8. Total(h, T) = Total(f, T) + Total(g, T)
      BY <3>2, <3>3, <3>4, <3>5, <3>7
    <3> QED
      BY <3>8
  <2> QED
    BY <2>2, <2>3
<1> HIDE DEF Good
<1>2. S \in Good
  BY <1>1, AllSubsets
<1> QED
  BY <1>2 DEF Good

\* Larger terms give a larger sum.
LEMMA TotalMonotonic ==
    ASSUME NEW S, IsFiniteSet(S), NEW f, NEW h,
           \A x \in S : f[x] \in Nat /\ h[x] \in Nat /\ f[x] <= h[x]
    PROVE  Total(f, S) <= Total(h, S)
<1> DEFINE d == [x \in S |-> h[x] - f[x]]
<1>1. \A x \in S : d[x] \in Nat /\ h[x] = f[x] + d[x]
  OBVIOUS
<1> HIDE DEF d
<1>2. Total(h, S) = Total(f, S) + Total(d, S)
  BY <1>1, TotalPlus
<1>3. Total(f, S) \in Nat /\ Total(d, S) \in Nat
  BY <1>1, TotalNat
<1> QED
  BY <1>2, <1>3

\* A common factor of the terms is one of the sum.
LEMMA TotalTimes ==
    ASSUME NEW S, IsFiniteSet(S), NEW f, NEW h, NEW c \in Nat,
           \A x \in S : f[x] \in Nat /\ h[x] = f[x] * c
    PROVE  Total(h, S) = Total(f, S) * c
<1> DEFINE Good == {T \in SUBSET S : Total(h, T) = Total(f, T) * c}
<1>1. ASSUME NEW T \in SUBSET S, \A x \in T : T \ {x} \in Good
      PROVE  T \in Good
  <2>1. IsFiniteSet(T)
    BY FS_Subset
  <2>2. CASE T = {}
    BY <2>2, TotalEmpty
  <2>3. CASE T # {}
    <3>1. PICK x \in T : TRUE
      BY <2>3
    <3> DEFINE rest == T \ {x}
    <3>2. Total(f, T) = f[x] + Total(f, rest)
      BY <2>1, TotalSplit
    <3>3. h[x] \in Nat /\ \A y \in T : h[y] \in Nat
      OBVIOUS
    <3>4. Total(h, T) = h[x] + Total(h, rest)
      BY <2>1, <3>3, TotalSplit
    <3>5. Total(h, rest) = Total(f, rest) * c
      BY <1>1
    <3>6. IsFiniteSet(rest)
      BY <2>1, FS_RemoveElement
    <3>7. Total(f, rest) \in Nat
      BY <3>6, TotalNat
    <3> HIDE DEF rest
    <3>8. Total(h, T) = Total(f, T) * c
      BY <3>2, <3>4, <3>5, <3>7
    <3> QED
      BY <3>8
  <2> QED
    BY <2>2, <2>3
<1> HIDE DEF Good
<1>2. S \in Good
  BY <1>1, AllSubsets
<1> QED
  BY <1>2 DEF Good

\* Terms that are zero do not count.
LEMMA TotalSupport ==
    ASSUME NEW S, IsFiniteSet(S), NEW f, NEW R \in SUBSET S,
           \A x \in S : f[x] \in Nat, \A x \in S \ R : f[x] = 0
    PROVE  Total(f, S) = Total(f, R)
<1> DEFINE Good == {T \in SUBSET S : Total(f, T) = Total(f, T \cap R)}
<1>1. ASSUME NEW T \in SUBSET S, \A x \in T : T \ {x} \in Good
      PROVE  T \in Good
  <2>1. IsFiniteSet(T) /\ IsFiniteSet(T \cap R)
    BY FS_Subset
  <2>2. CASE T = {}
    BY <2>2
  <2>3. CASE T # {}
    <3>1. PICK x \in T : TRUE
      BY <2>3
    <3>2. Total(f, T) = f[x] + Total(f, T \ {x})
      BY <2>1, TotalSplit
    <3>3. Total(f, T \ {x}) = Total(f, (T \ {x}) \cap R)
      BY <1>1
    <3>4. CASE x \in R
      <4>1. Total(f, T \cap R) = f[x] + Total(f, (T \cap R) \ {x})
        BY <2>1, <3>4, TotalSplit
      <4>2. (T \cap R) \ {x} = (T \ {x}) \cap R
        OBVIOUS
      <4> QED
        BY <3>2, <3>3, <4>1, <4>2
    <3>5. CASE x \notin R
      <4>1. (T \ {x}) \cap R = T \cap R
        BY <3>5
      <4>2. Total(f, T \cap R) \in Nat
        BY <2>1, TotalNat
      <4>3. Total(f, T) = Total(f, T \cap R)
        BY <3>2, <3>3, <3>5, <4>1, <4>2
      <4> QED
        BY <4>3
    <3> QED
      BY <3>4, <3>5
  <2> QED
    BY <2>2, <2>3
<1> HIDE DEF Good
<1>2. S \in Good
  BY <1>1, AllSubsets
<1>3. S \cap R = R
  OBVIOUS
<1> QED
  BY <1>2, <1>3 DEF Good

-----------------------------------------------------------------------------
(* The shares of a reward *)

\* There are 2^n subsets of 1 .. n.
LEMMA PowerOfTwo == ASSUME NEW n \in Nat PROVE 2^n \in Nat
<1>1. IsFiniteSet(1 .. n) /\ Cardinality(1 .. n) = n
  BY FS_Interval
<1>2. IsFiniteSet(SUBSET (1 .. n)) /\ Cardinality(SUBSET (1 .. n)) = 2^n
  BY <1>1, FS_SUBSET
<1> QED
  BY <1>2, FS_CardinalityType

\* So the power of a contribution is a number, of whatever difficulty.
LEMMA HashPowerNat == ASSUME NEW d \in Nat PROVE HashPower(d) \in Nat
<1>1. CASE d < MIN_DIFF \/ d >= MIN_DIFF + 17
  BY <1>1 DEF HashPower, MIN_DIFF, MAX_HASHPOWER
<1>2. CASE ~ (d < MIN_DIFF \/ d >= MIN_DIFF + 17)
  <2>1. d - MIN_DIFF \in Nat
    BY <1>2 DEF MIN_DIFF
  <2>2. 2^(d - MIN_DIFF) \in Nat
    BY <2>1, PowerOfTwo
  <2>3. MIN_HASHPOWER * 2^(d - MIN_DIFF) \in Nat
    BY <2>2 DEF MIN_HASHPOWER
  <2> QED
    BY <1>2, <2>3 DEF HashPower
<1> QED
  BY <1>1, <1>2

Powers(contributions) == [m \in Miner |-> HashPower(contributions[m].difficulty)]

\* The sum over the contributors, as one the lemmas are about.
LEMMA TotalHashPowerAdds ==
    ASSUME NEW contributions \in [Miner -> Contribution \cup {None}]
    PROVE  /\ IsFiniteSet(Contributors(contributions))
           /\ \A m \in Contributors(contributions) :
                 /\ m \in Miner
                 /\ Powers(contributions)[m] \in Nat
                 /\ Powers(contributions)[m] = HashPower(contributions[m].difficulty)
           /\ TotalHashPower(contributions)
                 = Total(Powers(contributions), Contributors(contributions))
<1> DEFINE S == Contributors(contributions)
           f == Powers(contributions)
           IsSum(g) ==
              g = [s \in SUBSET S |->
                      IF s = {} THEN 0
                      ELSE HashPower(contributions[Any(s)].difficulty) + g[s \ {Any(s)}]]
<1>1. IsFiniteSet(S) /\ S \subseteq Miner
  BY FS_Subset, LedgerAssumption DEF Contributors
<1>2. \A m \in S : f[m] = HashPower(contributions[m].difficulty) /\ f[m] \in Nat
  <2> SUFFICES ASSUME NEW m \in S
               PROVE  f[m] = HashPower(contributions[m].difficulty) /\ f[m] \in Nat
    OBVIOUS
  <2>1. contributions[m].difficulty \in Nat
    BY LedgerAssumption DEF Contributors, Contribution
  <2> QED
    BY <1>1, <2>1, HashPowerNat DEF Powers
<1>3. TotalHashPower(contributions) = (CHOOSE g : IsSum(g))[S]
  BY DEF TotalHashPower, MapThenSumSet, MapThenFoldSet, Any
<1> HIDE DEF S, f
<1>4. \A g : IsSum(g) <=> Adds(g, f, S)
  <2>1. \A s \in SUBSET S : s # {} => f[Any(s)] = HashPower(contributions[Any(s)].difficulty)
    BY <1>2, AnyIsElement
  <2> QED
    BY <2>1 DEF Adds
<1> DEFINE sum == CHOOSE g : IsSum(g)
<1>5. Adds(sum, f, S)
  <2>1. IsSum(sum)
    BY <1>1, <1>4, AddsExists
  <2> QED
    BY <1>4, <2>1
<1> HIDE DEF sum
<1>6. sum[S] = Total(f, S)
  BY <1>1, <1>2, <1>5, AddsTotal
<1> QED
  BY <1>1, <1>2, <1>3, <1>6 DEF S, f, sum

\* What the message brings each miner.
Gain == [m \in Miner |-> IF m \in Contributors(msg.contributions) THEN Earned(m) ELSE 0]

\* A positive factor can be cancelled.
LEMMA TimesReflects ==
    ASSUME NEW a \in Nat, NEW b \in Nat, NEW t \in Nat, t > 0, a * t <= b * t
    PROVE  a <= b
<1> SUFFICES ASSUME b + 1 <= a PROVE FALSE
  OBVIOUS
<1>1. (b + 1) * t <= a * t
  BY TimesMonotonic
<1>2. (b + 1) * t = b * t + t
  OBVIOUS
<1>3. a * t \in Nat /\ b * t \in Nat
  BY NatTimes
<1> QED
  BY <1>1, <1>2, <1>3

\* The shares of all miners, rounded down, are within the reward.
LEMMA GainsWithinReward ==
    ASSUME msg \in Message, TotalHashPower(msg.contributions) > 0
    PROVE  /\ Gain \in [Miner -> Nat]
           /\ Total(Gain, Miner) <= msg.reward
<1> DEFINE C == Contributors(msg.contributions)
           T == TotalHashPower(msg.contributions)
           R == msg.reward
           h == Powers(msg.contributions)
<1>1. msg.contributions \in [Miner -> Contribution \cup {None}] /\ R \in Nat
  BY LedgerAssumption DEF Message
<1>2. /\ IsFiniteSet(C) /\ C \subseteq Miner
      /\ \A m \in C : h[m] \in Nat /\ h[m] = HashPower(msg.contributions[m].difficulty)
      /\ T = Total(h, C)
  BY <1>1, TotalHashPowerAdds
<1>3. T \in Nat \ {0}
  BY <1>2, TotalNat
<1>4. \A m \in C : Gain[m] = Share(h[m], T, R)
  BY <1>2 DEF Gain, Earned
<1> HIDE DEF C, T, R, h
<1>5. \A m \in C : Gain[m] \in Nat /\ Gain[m] * T <= h[m] * R
  <2> SUFFICES ASSUME NEW m \in C PROVE Gain[m] \in Nat /\ Gain[m] * T <= h[m] * R
    OBVIOUS
  <2>1. h[m] \in Nat /\ Gain[m] = Share(h[m], T, R)
    BY <1>2, <1>4
  <2>2. Share(h[m], T, R) \in Nat /\ Share(h[m], T, R) * T <= h[m] * R
    BY <1>1, <1>3, <2>1, ShareAtMostProportional
  <2> QED
    BY <2>1, <2>2
<1>6. Gain \in [Miner -> Nat] /\ \A m \in Miner \ C : Gain[m] = 0
  <2>1. \A m \in Miner \ C : Gain[m] = 0
    BY DEF Gain, C
  <2>2. Gain = [m \in Miner |-> Gain[m]]
    BY DEF Gain
  <2> QED
    BY <1>5, <2>1, <2>2
<1>7. Total(Gain, Miner) = Total(Gain, C)
  BY <1>2, <1>6, LedgerAssumption, TotalSupport
<1> DEFINE scaled == [m \in C |-> Gain[m] * T]
           powered == [m \in C |-> h[m] * R]
<1>8. Total(scaled, C) = Total(Gain, C) * T
  <2>1. \A m \in C : Gain[m] \in Nat /\ scaled[m] = Gain[m] * T
    BY <1>5
  <2> HIDE DEF scaled
  <2> QED
    BY <1>2, <1>3, <2>1, TotalTimes
<1>9. Total(powered, C) = T * R
  <2>1. \A m \in C : h[m] \in Nat /\ powered[m] = h[m] * R
    BY <1>2
  <2> HIDE DEF powered
  <2> QED
    BY <1>1, <1>2, <2>1, TotalTimes
<1>10. Total(scaled, C) <= Total(powered, C)
  <2>1. \A m \in C : scaled[m] \in Nat /\ powered[m] \in Nat /\ scaled[m] <= powered[m]
    BY <1>1, <1>2, <1>3, <1>5, NatTimes
  <2> HIDE DEF scaled, powered
  <2> QED
    BY <1>2, <2>1, TotalMonotonic
<1>11. Total(Gain, C) \in Nat
  BY <1>2, <1>5, TotalNat
<1>12. Total(Gain, C) <= R
  <2>1. Total(Gain, C) * T <= R * T
    BY <1>1, <1>3, <1>8, <1>9, <1>10
  <2> QED
    BY <1>1, <1>3, <1>11, <2>1, TimesReflects
<1> QED
  BY <1>6, <1>7, <1>12 DEF R

-----------------------------------------------------------------------------
(* What the earnings table holds for a miner *)

\* Its rows of one batch.
AmountIn(batch, m) ==
    MapThenSumSet(LAMBDA row : row.amount, {row \in batch : row.miner = m})

EarnedIn(batches, m) ==
    MapThenSumSet(LAMBDA i : MapThenSumSet(LAMBDA row : row.amount,
                                 {row \in batches[i] : row.miner = m}),
                  DOMAIN batches)

\* No two rows of a batch are of one miner.
RowPerMiner(batch) == \A r, s \in batch : r.miner = s.miner => r = s

\* A miner without a row has nothing in the batch, one with a row its amount.
LEMMA AmountInBatch ==
    ASSUME NEW batch \in SUBSET EarningRow, RowPerMiner(batch), NEW m
    PROVE  /\ AmountIn(batch, m) \in Nat
           /\ (\A row \in batch : row.miner # m) => AmountIn(batch, m) = 0
           /\ \A row \in batch : row.miner = m => AmountIn(batch, m) = row.amount
<1> DEFINE S == {row \in batch : row.miner = m}
           f == [row \in S |-> row.amount]
           IsSum(g) ==
              g = [s \in SUBSET S |->
                      IF s = {} THEN 0 ELSE Any(s).amount + g[s \ {Any(s)}]]
           sum == CHOOSE g : IsSum(g)
<1>1. AmountIn(batch, m) = sum[S]
  BY DEF AmountIn, MapThenSumSet, MapThenFoldSet, Any
<1>2. S = {} \/ \E row \in batch : S = {row} /\ row.miner = m
  BY DEF RowPerMiner
<1>3. IsFiniteSet(S)
  BY <1>2, FS_EmptySet, FS_Singleton
<1>4. \A row \in S : f[row] = row.amount /\ f[row] \in Nat
  BY DEF EarningRow
<1>5. \A row \in batch : row.miner = m <=> row \in S
  OBVIOUS
<1> HIDE DEF S, f
<1>6. \A g : IsSum(g) <=> Adds(g, f, S)
  <2>1. \A s \in SUBSET S : s # {} => f[Any(s)] = Any(s).amount
    BY <1>4, AnyIsElement
  <2> QED
    BY <2>1 DEF Adds
<1>7. Adds(sum, f, S)
  <2>1. IsSum(sum)
    BY <1>3, <1>6, AddsExists
  <2> QED
    BY <1>6, <2>1
<1> HIDE DEF sum
<1>8. sum[S] = Total(f, S)
  BY <1>3, <1>4, <1>7, AddsTotal
<1>9. CASE S = {}
  BY <1>1, <1>5, <1>8, <1>9, TotalEmpty
<1>10. CASE S # {}
  <2>1. PICK row \in batch : S = {row} /\ row.miner = m
    BY <1>2, <1>10
  <2>2. Total(f, S) = row.amount /\ row.amount \in Nat
    BY <1>4, <2>1, TotalSingle
  <2>3. \A r \in batch : r.miner = m => r = row
    BY <1>5, <2>1
  <2> QED
    BY <1>1, <1>8, <2>1, <2>2, <2>3
<1> QED
  BY <1>9, <1>10

\* Of all batches.
LEMMA EarnedInAdds ==
    ASSUME NEW batches, IsFiniteSet(DOMAIN batches), NEW m,
           \A i \in DOMAIN batches : AmountIn(batches[i], m) \in Nat
    PROVE  EarnedIn(batches, m)
             = Total([i \in DOMAIN batches |-> AmountIn(batches[i], m)], DOMAIN batches)
<1> DEFINE S == DOMAIN batches
           f == [i \in S |-> AmountIn(batches[i], m)]
           IsSum(g) ==
              g = [s \in SUBSET S |->
                      IF s = {} THEN 0
                      ELSE AmountIn(batches[Any(s)], m) + g[s \ {Any(s)}]]
           sum == CHOOSE g : IsSum(g)
<1>1. EarnedIn(batches, m) = sum[S]
  BY DEF EarnedIn, AmountIn, MapThenSumSet, MapThenFoldSet, Any
<1>2. \A i \in S : f[i] = AmountIn(batches[i], m) /\ f[i] \in Nat
  OBVIOUS
<1> HIDE DEF S, f
<1>3. \A g : IsSum(g) <=> Adds(g, f, S)
  <2>1. \A s \in SUBSET S : s # {} => f[Any(s)] = AmountIn(batches[Any(s)], m)
    BY <1>2, AnyIsElement
  <2> QED
    BY <2>1 DEF Adds
<1>4. IsFiniteSet(S)
  BY DEF S
<1>5. Adds(sum, f, S)
  <2>1. IsSum(sum)
    BY <1>3, <1>4, AddsExists
  <2> QED
    BY <1>3, <2>1
<1> HIDE DEF sum
<1>6. sum[S] = Total(f, S)
  BY <1>2, <1>4, <1>5, AddsTotal
<1> QED
  BY <1>1, <1>6 DEF S, f

\* A batch more adds what the miner has in it.
LEMMA EarnedInAppend ==
    ASSUME NEW batches \in Seq(SUBSET EarningRow),
           \A i \in DOMAIN batches : RowPerMiner(batches[i]),
           NEW batch \in SUBSET EarningRow, RowPerMiner(batch), NEW m
    PROVE  /\ EarnedIn(batches, m) \in Nat
           /\ EarnedIn(Append(batches, batch), m)
                 = EarnedIn(batches, m) + AmountIn(batch, m)
<1> DEFINE more == Append(batches, batch)
           n == Len(batches)
           f == [i \in DOMAIN batches |-> AmountIn(batches[i], m)]
           h == [i \in DOMAIN more |-> AmountIn(more[i], m)]
<1>1. /\ n \in Nat /\ DOMAIN batches = 1 .. n /\ DOMAIN more = 1 .. n + 1
      /\ more[n + 1] = batch /\ \A i \in 1 .. n : more[i] = batches[i]
  BY LenProperties
<1>2. \A i \in 1 .. n : batches[i] \in SUBSET EarningRow
  BY <1>1, ElementOfSeq
<1> HIDE DEF more, n
<1>3. IsFiniteSet(1 .. n) /\ IsFiniteSet(1 .. n + 1)
  BY <1>1, FS_Interval
<1>4. \A i \in 1 .. n : f[i] = AmountIn(batches[i], m) /\ f[i] \in Nat
  BY <1>1, <1>2, AmountInBatch
<1>5. AmountIn(batch, m) \in Nat
  BY AmountInBatch
<1>6. /\ h[n + 1] = AmountIn(batch, m)
      /\ \A i \in 1 .. n : h[i] = f[i]
      /\ \A i \in 1 .. n + 1 : h[i] = AmountIn(more[i], m) /\ h[i] \in Nat
  BY <1>1, <1>4, <1>5
<1>7. EarnedIn(batches, m) = Total(f, 1 .. n)
  <2>1. \A i \in DOMAIN batches : AmountIn(batches[i], m) \in Nat
    BY <1>1, <1>4
  <2> QED
    BY <1>1, <1>3, <2>1, EarnedInAdds
<1>8. EarnedIn(more, m) = Total(h, 1 .. n + 1)
  <2>1. \A i \in DOMAIN more : AmountIn(more[i], m) \in Nat
    BY <1>1, <1>6
  <2> QED
    BY <1>1, <1>3, <2>1, EarnedInAdds
<1> HIDE DEF f, h
<1>9. Total(h, 1 .. n + 1) = h[n + 1] + Total(h, (1 .. n + 1) \ {n + 1})
  <2>1. n + 1 \in 1 .. n + 1
    BY <1>1
  <2> QED
    BY <1>3, <1>6, <2>1, TotalSplit
<1>10. (1 .. n + 1) \ {n + 1} = 1 .. n
  BY <1>1
<1>11. Total(h, 1 .. n) = Total(f, 1 .. n)
  BY <1>3, <1>4, <1>6, TotalCongruent
<1>12. Total(f, 1 .. n) \in Nat
  BY <1>3, <1>4, TotalNat
<1>13. EarnedIn(more, m) = AmountIn(batch, m) + EarnedIn(batches, m)
  BY <1>6, <1>7, <1>8, <1>9, <1>10, <1>11
<1>14. EarnedIn(more, m) = EarnedIn(batches, m) + AmountIn(batch, m)
  BY <1>5, <1>7, <1>12, <1>13
<1> QED
  BY <1>7, <1>12, <1>14 DEF more

\* An empty table holds nothing.
LEMMA EarnedInEmpty == ASSUME NEW m PROVE EarnedIn(<<>>, m) = 0
<1>1. DOMAIN <<>> = {}
  OBVIOUS
<1>2. EarnedIn(<<>>, m) = Total([i \in {} |-> AmountIn(<<>>[i], m)], {})
  BY <1>1, EarnedInAdds, FS_EmptySet
<1> QED
  BY <1>2, TotalEmpty

\* What a miner earned, before and after a step.
LEMMA EarnedByIn ==
    ASSUME NEW m
    PROVE  EarnedBy(m) = EarnedIn(earnings, m) /\ EarnedBy(m)' = EarnedIn(earnings', m)
BY DEF EarnedBy, EarnedIn, MapThenSumSet, MapThenFoldSet

\* What each miner earned.
AllEarned == [m \in Miner |-> EarnedBy(m)]

\* The sums of NeverOverpaid are totals.
LEMMA SumsOverMiners ==
    /\ (\A m \in Miner : EarnedBy(m) \in Nat) =>
          MapThenSumSet(EarnedBy, Miner) = Total(AllEarned, Miner)
    /\ MapThenSumSet(LAMBDA m : balances[m], Miner) = Total(balances, Miner)
<1>1. ASSUME \A m \in Miner : EarnedBy(m) \in Nat
      PROVE  MapThenSumSet(EarnedBy, Miner) = Total(AllEarned, Miner)
  <2> DEFINE f == AllEarned
             IsSum(g) ==
                g = [s \in SUBSET Miner |->
                        IF s = {} THEN 0 ELSE EarnedBy(Any(s)) + g[s \ {Any(s)}]]
             sum == CHOOSE g : IsSum(g)
  <2>1. MapThenSumSet(EarnedBy, Miner) = sum[Miner]
    BY DEF MapThenSumSet, MapThenFoldSet, Any
  <2>2. \A m \in Miner : f[m] = EarnedBy(m) /\ f[m] \in Nat
    BY <1>1 DEF AllEarned
  <2> HIDE DEF f
  <2>3. \A g : IsSum(g) <=> Adds(g, f, Miner)
    <3>1. \A s \in SUBSET Miner : s # {} => f[Any(s)] = EarnedBy(Any(s))
      BY <2>2, AnyIsElement
    <3> QED
      BY <3>1 DEF Adds
  <2>4. Adds(sum, f, Miner)
    <3>1. IsSum(sum)
      BY <2>3, AddsExists, LedgerAssumption
    <3> QED
      BY <2>3, <3>1
  <2> HIDE DEF sum
  <2>5. sum[Miner] = Total(f, Miner)
    BY <2>2, <2>4, AddsTotal, LedgerAssumption
  <2> QED
    BY <2>1, <2>5 DEF f
<1>2. MapThenSumSet(LAMBDA m : balances[m], Miner) = Total(balances, Miner)
  BY DEF Total
<1> QED
  BY <1>1, <1>2

-----------------------------------------------------------------------------
(* Types, amounts included *)

AmountsTyped ==
    /\ earnings \in Seq(SUBSET EarningRow)
    /\ \A i \in DOMAIN earnings : RowPerMiner(earnings[i])
    /\ balances \in [Miner -> Nat]
    /\ totalRewards \in Nat
    /\ pc = "rewards" => TotalHashPower(msg.contributions) > 0

\* Nothing is left of a message that is done with.
ProcessorReset ==
    /\ pc = "recv" => msg = None
    /\ pc # "close" => contributionId = None
    /\ restarts \in 0 .. MaxRestarts

AmountInv == LedgerTypeOK /\ AmountsTyped /\ ProcessorReset

\* The batch that is booked for a message.
Booking == {[miner |-> m, challengeId |-> msg.challengeId, amount |-> Earned(m)] :
               m \in Contributors(msg.contributions)}

\* It holds a row per contributor, with the contributor's share.
LEMMA BookingGains ==
    ASSUME msg \in Message, TotalHashPower(msg.contributions) > 0
    PROVE  /\ Booking \in SUBSET EarningRow
           /\ RowPerMiner(Booking)
           /\ \A m \in Miner : AmountIn(Booking, m) = Gain[m]
<1> DEFINE C == Contributors(msg.contributions)
<1>1. Gain \in [Miner -> Nat] /\ C \subseteq Miner /\ msg.challengeId \in Nat
  BY GainsWithinReward DEF Contributors, Message
<1>2. \A m \in C : Gain[m] = Earned(m)
  BY DEF Gain, Contributors
<1>3. \A m \in Miner \ C : Gain[m] = 0
  BY DEF Gain
<1>4. Booking \in SUBSET EarningRow /\ RowPerMiner(Booking)
  <2>1. Booking \in SUBSET EarningRow
    BY <1>1, <1>2 DEF Booking, EarningRow
  <2>2. RowPerMiner(Booking)
    BY DEF Booking, RowPerMiner
  <2> QED
    BY <2>1, <2>2
<1>5. ASSUME NEW m \in Miner PROVE AmountIn(Booking, m) = Gain[m]
  <2>1. CASE m \in C
    <3> DEFINE r == [miner |-> m, challengeId |-> msg.challengeId, amount |-> Earned(m)]
    <3>1. r \in Booking /\ r.miner = m /\ r.amount = Gain[m]
      BY <1>2, <2>1 DEF Booking
    <3> QED
      BY <1>4, <3>1, AmountInBatch
  <2>2. CASE m \notin C
    <3>1. \A row \in Booking : row.miner # m
      BY <2>2 DEF Booking
    <3> QED
      BY <1>3, <1>4, <2>2, <3>1, AmountInBatch
  <2> QED
    BY <2>1, <2>2
<1> QED
  BY <1>4, <1>5

\* A batch more, or not: each miner has earned what the message brings it, or nothing.
LEMMA EarningsBooked ==
    ASSUME AmountInv, AddEarnings
    PROVE  /\ msg \in Message /\ TotalHashPower(msg.contributions) > 0
           /\ earnings' \in Seq(SUBSET EarningRow)
           /\ \A i \in DOMAIN earnings' : RowPerMiner(earnings'[i])
           /\ \A m \in Miner : EarnedBy(m) \in Nat
           /\ \/ \A m \in Miner : EarnedBy(m)' = EarnedBy(m) + Gain[m]
              \/ BatchFails /\ \A m \in Miner : EarnedBy(m)' = EarnedBy(m)
<1>1. /\ msg \in Message /\ TotalHashPower(msg.contributions) > 0
      /\ earnings \in Seq(SUBSET EarningRow)
      /\ \A i \in DOMAIN earnings : RowPerMiner(earnings[i])
  BY DEF AddEarnings, AmountInv, LedgerTypeOK, AmountsTyped
<1>2. /\ Booking \in SUBSET EarningRow /\ RowPerMiner(Booking)
      /\ \A m \in Miner : AmountIn(Booking, m) = Gain[m]
  BY <1>1, BookingGains
<1>3. \A m \in Miner : /\ EarnedIn(earnings, m) \in Nat
                      /\ EarnedIn(Append(earnings, Booking), m)
                            = EarnedIn(earnings, m) + Gain[m]
  BY <1>1, <1>2, EarnedInAppend
<1>4. CASE earnings' = Append(earnings, Booking)
  <2>1. earnings' \in Seq(SUBSET EarningRow)
    BY <1>1, <1>2, <1>4
  <2>2. \A i \in DOMAIN earnings' :
           earnings'[i] = Booking \/ (i \in DOMAIN earnings /\ earnings'[i] = earnings[i])
    BY <1>1, <1>2, <1>4
  <2>3. \A i \in DOMAIN earnings' : RowPerMiner(earnings'[i])
    BY <1>1, <1>2, <2>2
  <2> QED
    BY <1>1, <1>3, <1>4, <2>1, <2>3, EarnedByIn
<1>5. CASE BatchFails /\ UNCHANGED earnings
  BY <1>1, <1>3, <1>5, EarnedByIn
<1> QED
  BY <1>4, <1>5 DEF AddEarnings, Booking

\* Balances grow by no more than that, and by all of it for those that are enrolled.
LEMMA BalancesPaid ==
    ASSUME AmountInv, UpdateRewards
    PROVE  /\ Gain \in [Miner -> Nat] /\ Total(Gain, Miner) <= msg.reward
           /\ balances' \in [Miner -> Nat]
           /\ \A m \in Miner : /\ balances[m] <= balances'[m]
                               /\ balances'[m] <= balances[m] + Gain[m]
           /\ ~BatchFails => \A m \in Enrolled : balances'[m] = balances[m] + Gain[m]
<1>1. /\ Gain \in [Miner -> Nat] /\ Total(Gain, Miner) <= msg.reward
      /\ balances \in [Miner -> Nat]
  BY GainsWithinReward DEF UpdateRewards, AmountInv, LedgerTypeOK, AmountsTyped
<1>2. CASE balances' = [m \in Miner |->
               IF m \in Contributors(msg.contributions) \cap Enrolled
               THEN balances[m] + Earned(m) ELSE balances[m]]
  <2>1. \A m \in Miner : Gain[m] = IF m \in Contributors(msg.contributions)
                                  THEN Earned(m) ELSE 0
    BY DEF Gain
  <2>2. \A m \in Miner : balances'[m] = IF m \in Enrolled THEN balances[m] + Gain[m]
                                        ELSE balances[m]
    BY <1>1, <1>2, <2>1
  <2>3. \A m \in Miner : balances'[m] \in Nat
    BY <1>1, <2>2
  <2>4. balances' \in [Miner -> Nat]
    BY <1>2, <2>3
  <2> QED
    BY <1>1, <2>2, <2>4, LedgerAssumption
<1>3. CASE BatchFails /\ UNCHANGED balances
  BY <1>1, <1>3
<1> QED
  BY <1>1, <1>2, <1>3 DEF UpdateRewards

\* Amounts stay numbers, and the message that is paid for has hash power.
LEMMA AmountsTypedKept ==
    ASSUME AmountInv, [Next]_vars
    PROVE  AmountsTyped'
<1>1. AmountsTyped /\ (pc # "recv" => msg \in Message)
  BY DEF AmountInv, LedgerTypeOK
<1>2. CASE AddEarnings
  BY <1>1, <1>2, EarningsBooked DEF AddEarnings, AmountsTyped
<1>3. CASE UpdateRewards
  BY <1>1, <1>3, BalancesPaid DEF UpdateRewards, AmountsTyped
<1>4. CASE UpdatePoolRewards
  <2>1. msg.reward \in Nat
    BY <1>1, <1>4, LedgerAssumption DEF UpdatePoolRewards, Message
  <2> QED
    BY <1>1, <1>4, <2>1 DEF UpdatePoolRewards, AmountsTyped
<1>5. CASE /\ UNCHANGED <<earnings, balances, totalRewards>>
           /\ pc' = "rewards" => pc = "rewards" /\ UNCHANGED msg
  BY <1>1, <1>5 DEF AmountsTyped
<1>6. CASE Processor /\ ~AddEarnings /\ ~UpdateRewards /\ ~UpdatePoolRewards
  BY <1>5, <1>6 DEF Processor, Receive, AddContributions, FindContribution, CloseChallenge,
     database
<1>7. CASE Attender \/ Restart \/ UNCHANGED vars
  BY <1>5, <1>7 DEF Attender, Start, AttNotified, MoveOn, AttRecord, AttOld, AttNew,
     AttSend, Restart, vars, processor, database
<1> QED
  BY <1>2, <1>3, <1>4, <1>6, <1>7 DEF Next

\* The processor lets go of a message when it is done, and at a restart.
LEMMA ProcessorResetKept ==
    ASSUME AmountInv, [Next]_vars
    PROVE  ProcessorReset'
<1>1. ProcessorReset /\ restarts \in Nat
  BY DEF AmountInv, ProcessorReset
<1>2. CASE Processor
  BY <1>1, <1>2 DEF Processor, Receive, AddEarnings, UpdateRewards, AddContributions,
     UpdatePoolRewards, FindContribution, CloseChallenge, ProcessorReset
<1>3. CASE Restart
  BY <1>1, <1>3, LedgerAssumption DEF Restart, ProcessorReset
<1>4. CASE Attender \/ UNCHANGED vars
  BY <1>1, <1>4 DEF Attender, Start, AttNotified, MoveOn, AttRecord, AttOld, AttNew,
     AttSend, vars, processor, ProcessorReset
<1> QED
  BY <1>2, <1>3, <1>4 DEF Next

\* Empty tables, balances of 0.
LEMMA AmountInvInit == Init => AmountInv
<1> SUFFICES ASSUME Init PROVE AmountInv
  OBVIOUS
<1>1. earnings \in Seq(SUBSET EarningRow) /\ DOMAIN earnings = {}
  BY DEF Init
<1>2. balances \in [Miner -> Nat]
  BY DEF Init
<1> QED
  BY <1>1, <1>2, InitTyped, LedgerAssumption DEF Init, AmountInv, AmountsTyped, ProcessorReset

\* All steps.
LEMMA AmountInvNext == AmountInv /\ [Next]_vars => AmountInv'
BY NextTyped, AmountsTypedKept, ProcessorResetKept DEF AmountInv

\* TypeOK of the ledger: the batches and the amounts in them included.
THEOREM LedgerTypeCorrect == Spec => []TypeOK
<1>1. AmountInv => TypeOK
  BY DEF AmountInv, LedgerTypeOK, AmountsTyped, ProcessorReset, TypeOK, Row
<1> QED
  BY <1>1, AmountInvInit, AmountInvNext, PTL DEF Spec

-----------------------------------------------------------------------------
(* The pool's total covers what was promised *)

\* The reward of the message counts from the step at which a table may hold shares of it
\* until the total holds it.
Announced(places) == IF pc \in places THEN msg.reward ELSE 0

EarnedWithin ==
    restarts = 0 =>
        Total(AllEarned, Miner)
          <= totalRewards + Announced({"rewards", "contributions", "pool"})

PaidWithin ==
    restarts = 0 =>
        Total(balances, Miner) <= totalRewards + Announced({"contributions", "pool"})

OverpaidInv == AmountInv /\ EarnedWithin /\ PaidWithin

\* What the sums of naturals need to know.
LEMMA AmountsNat ==
    ASSUME AmountInv
    PROVE  /\ \A m \in Miner : EarnedBy(m) \in Nat /\ AllEarned[m] = EarnedBy(m)
           /\ Total(AllEarned, Miner) \in Nat
           /\ Total(balances, Miner) \in Nat
           /\ totalRewards \in Nat
           /\ pc # "recv" => msg \in Message /\ msg.reward \in Nat
<1>1. /\ earnings \in Seq(SUBSET EarningRow)
      /\ \A i \in DOMAIN earnings : RowPerMiner(earnings[i])
      /\ balances \in [Miner -> Nat] /\ totalRewards \in Nat
      /\ pc # "recv" => msg \in Message
  BY DEF AmountInv, AmountsTyped, LedgerTypeOK
<1>2. \A m \in Miner : EarnedBy(m) \in Nat
  <2>1. {} \in SUBSET EarningRow /\ RowPerMiner({})
    BY DEF RowPerMiner
  <2> QED
    BY <1>1, <2>1, EarnedInAppend, EarnedByIn
<1>3. \A m \in Miner : AllEarned[m] = EarnedBy(m)
  BY DEF AllEarned
<1>4. Total(AllEarned, Miner) \in Nat
  BY <1>2, <1>3, TotalNat, LedgerAssumption
<1>5. Total(balances, Miner) \in Nat
  BY <1>1, TotalNat, LedgerAssumption
<1>6. pc # "recv" => msg.reward \in Nat
  BY <1>1, LedgerAssumption DEF Message
<1> QED
  BY <1>1, <1>2, <1>3, <1>4, <1>5, <1>6

\* Booking a batch adds at most the reward to the sum of the earnings.
LEMMA EarnedGrows ==
    ASSUME AmountInv, AddEarnings
    PROVE  Total(AllEarned', Miner) <= Total(AllEarned, Miner) + msg.reward
<1>1. /\ msg \in Message /\ TotalHashPower(msg.contributions) > 0
      /\ Gain \in [Miner -> Nat] /\ Total(Gain, Miner) <= msg.reward
  BY EarningsBooked, GainsWithinReward
<1>2. /\ \A m \in Miner : EarnedBy(m) \in Nat /\ AllEarned[m] = EarnedBy(m)
      /\ Total(AllEarned, Miner) \in Nat /\ msg.reward \in Nat
  BY AmountsNat DEF AddEarnings
<1>3. \A m \in Miner : AllEarned'[m] = EarnedBy(m)'
  BY DEF AllEarned
<1>4. Total(Gain, Miner) \in Nat
  BY <1>1, TotalNat, LedgerAssumption
<1>5. CASE \A m \in Miner : EarnedBy(m)' = EarnedBy(m) + Gain[m]
  <2>1. \A m \in Miner : /\ AllEarned[m] \in Nat /\ Gain[m] \in Nat
                        /\ AllEarned'[m] = AllEarned[m] + Gain[m]
    BY <1>1, <1>2, <1>3, <1>5
  <2>2. Total(AllEarned', Miner) = Total(AllEarned, Miner) + Total(Gain, Miner)
    BY <2>1, TotalPlus, LedgerAssumption
  <2> QED
    BY <1>1, <1>2, <1>4, <2>2
<1>6. CASE \A m \in Miner : EarnedBy(m)' = EarnedBy(m)
  <2>1. \A m \in Miner : AllEarned[m] \in Nat /\ AllEarned'[m] = AllEarned[m]
    BY <1>2, <1>3, <1>6
  <2>2. Total(AllEarned', Miner) = Total(AllEarned, Miner)
    BY <2>1, TotalCongruent, LedgerAssumption
  <2> QED
    BY <1>2, <2>2
<1> QED
  BY <1>5, <1>6, EarningsBooked

\* So does paying it out to the sum of the balances.
LEMMA PaidGrows ==
    ASSUME AmountInv, UpdateRewards
    PROVE  Total(balances', Miner) <= Total(balances, Miner) + msg.reward
<1> DEFINE more == [m \in Miner |-> balances[m] + Gain[m]]
<1>1. /\ Gain \in [Miner -> Nat] /\ Total(Gain, Miner) <= msg.reward
      /\ balances' \in [Miner -> Nat] /\ balances \in [Miner -> Nat]
      /\ \A m \in Miner : balances'[m] <= balances[m] + Gain[m]
  BY BalancesPaid DEF AmountInv, AmountsTyped
<1>2. \A m \in Miner : /\ balances[m] \in Nat /\ Gain[m] \in Nat /\ balances'[m] \in Nat
                      /\ more[m] = balances[m] + Gain[m] /\ more[m] \in Nat
                      /\ balances'[m] <= more[m]
  BY <1>1
<1> HIDE DEF more
<1>3. Total(more, Miner) = Total(balances, Miner) + Total(Gain, Miner)
  BY <1>2, TotalPlus, LedgerAssumption
<1>4. Total(balances', Miner) <= Total(more, Miner)
  BY <1>2, TotalMonotonic, LedgerAssumption
<1>5. /\ Total(balances, Miner) \in Nat /\ Total(balances', Miner) \in Nat
      /\ Total(Gain, Miner) \in Nat /\ msg.reward \in Nat
  BY <1>1, <1>2, TotalNat, AmountsNat, LedgerAssumption DEF UpdateRewards
<1> QED
  BY <1>1, <1>3, <1>4, <1>5

\* Only booking, paying and adding to the total touch the sums; a restart ends the claim.
LEMMA OverpaidKept ==
    ASSUME OverpaidInv, [Next]_vars
    PROVE  EarnedWithin' /\ PaidWithin'
<1>1. /\ AmountInv /\ EarnedWithin /\ PaidWithin /\ restarts \in Nat
      /\ Total(AllEarned, Miner) \in Nat /\ Total(balances, Miner) \in Nat
      /\ totalRewards \in Nat /\ (pc # "recv" => msg.reward \in Nat)
  BY AmountsNat DEF OverpaidInv, AmountInv, ProcessorReset
<1>2. Total(AllEarned', Miner) \in Nat /\ Total(balances', Miner) \in Nat
  <2>1. AmountInv'
    BY <1>1, AmountInvNext
  <2>2. /\ balances' \in [Miner -> Nat] /\ earnings' \in Seq(SUBSET EarningRow)
        /\ \A i \in DOMAIN earnings' : RowPerMiner(earnings'[i])
    BY <2>1 DEF AmountInv, AmountsTyped
  <2>3. {} \in SUBSET EarningRow /\ RowPerMiner({})
    BY DEF RowPerMiner
  <2>4. \A m \in Miner : EarnedBy(m)' \in Nat
    BY <2>2, <2>3, EarnedInAppend, EarnedByIn
  <2>5. \A m \in Miner : AllEarned'[m] \in Nat
    BY <2>4 DEF AllEarned
  <2> QED
    BY <2>2, <2>5, TotalNat, LedgerAssumption
<1>3. UNCHANGED earnings => AllEarned' = AllEarned
  <2> SUFFICES ASSUME UNCHANGED earnings PROVE AllEarned' = AllEarned
    OBVIOUS
  <2>1. \A m \in Miner : EarnedBy(m)' = EarnedBy(m)
    BY EarnedByIn
  <2> QED
    BY <2>1 DEF AllEarned
<1>4. CASE AddEarnings
  <2>1. /\ pc = "earnings" /\ pc' = "rewards"
        /\ UNCHANGED <<balances, totalRewards, msg, restarts>>
    BY <1>4 DEF AddEarnings
  <2>2. Total(AllEarned', Miner) <= Total(AllEarned, Miner) + msg.reward
    BY <1>1, <1>4, EarnedGrows
  <2>3. EarnedWithin'
    BY <1>1, <1>2, <2>1, <2>2 DEF EarnedWithin, Announced
  <2>4. PaidWithin'
    BY <1>1, <2>1 DEF PaidWithin, Announced
  <2> QED
    BY <2>3, <2>4
<1>5. CASE UpdateRewards
  <2>1. /\ pc = "rewards" /\ pc' = "contributions"
        /\ UNCHANGED <<earnings, totalRewards, msg, restarts>>
    BY <1>5 DEF UpdateRewards
  <2>2. Total(balances', Miner) <= Total(balances, Miner) + msg.reward
    BY <1>1, <1>5, PaidGrows
  <2>3. EarnedWithin'
    BY <1>1, <1>3, <2>1 DEF EarnedWithin, Announced
  <2>4. PaidWithin'
    BY <1>1, <1>2, <2>1, <2>2 DEF PaidWithin, Announced
  <2> QED
    BY <2>3, <2>4
<1>6. CASE UpdatePoolRewards
  <2>1. /\ pc = "pool" /\ pc' = "lookup" /\ totalRewards' = totalRewards + msg.reward
        /\ UNCHANGED <<earnings, balances, restarts>>
    BY <1>6 DEF UpdatePoolRewards
  <2> QED
    BY <1>1, <1>3, <2>1 DEF EarnedWithin, PaidWithin, Announced
<1>7. CASE Restart
  BY <1>1, <1>7 DEF Restart, EarnedWithin, PaidWithin
<1>8. ASSUME UNCHANGED <<earnings, balances, totalRewards, restarts>>,
             Announced({"rewards", "contributions", "pool"})'
               = Announced({"rewards", "contributions", "pool"}),
             Announced({"contributions", "pool"})' = Announced({"contributions", "pool"})
      PROVE  EarnedWithin' /\ PaidWithin'
  BY <1>1, <1>3, <1>8 DEF EarnedWithin, PaidWithin
<1>9. CASE Processor /\ ~AddEarnings /\ ~UpdateRewards /\ ~UpdatePoolRewards
  BY <1>8, <1>9 DEF Processor, Receive, AddContributions, FindContribution, CloseChallenge,
     database, Announced
<1>10. CASE Attender \/ UNCHANGED vars
  BY <1>8, <1>10 DEF Attender, Start, AttNotified, MoveOn, AttRecord, AttOld, AttNew,
     AttSend, vars, processor, database, Announced
<1> QED
  BY <1>4, <1>5, <1>6, <1>7, <1>9, <1>10 DEF Next

\* Neither table promises the miners more than the pool has received.
THEOREM LedgerNeverOverpaid == Spec => []NeverOverpaid
<1>1. Init => OverpaidInv
  <2> SUFFICES ASSUME Init PROVE OverpaidInv
    OBVIOUS
  <2>1. AmountInv
    BY AmountInvInit
  <2>2. \A m \in Miner : AllEarned[m] = 0 /\ balances[m] = 0
    BY EarnedInEmpty, EarnedByIn DEF Init, AllEarned
  <2>3. Total(AllEarned, Miner) = 0 /\ Total(balances, Miner) = 0
    <3>1. IsFiniteSet(Miner) /\ {} \in SUBSET Miner
      BY LedgerAssumption
    <3> QED
      BY <2>2, <3>1, TotalSupport, TotalEmpty
  <2> QED
    BY <2>1, <2>3 DEF Init, OverpaidInv, EarnedWithin, PaidWithin, Announced
<1>2. OverpaidInv /\ [Next]_vars => OverpaidInv'
  BY AmountInvNext, OverpaidKept DEF OverpaidInv
<1>3. OverpaidInv => NeverOverpaid
  <2> SUFFICES ASSUME OverpaidInv, pc = "recv", restarts = 0
               PROVE  /\ MapThenSumSet(EarnedBy, Miner) <= totalRewards
                      /\ MapThenSumSet(LAMBDA m : balances[m], Miner) <= totalRewards
    BY DEF NeverOverpaid
  <2>1. totalRewards \in Nat /\ \A m \in Miner : EarnedBy(m) \in Nat
    BY AmountsNat DEF OverpaidInv
  <2>2. Total(AllEarned, Miner) <= totalRewards /\ Total(balances, Miner) <= totalRewards
    BY <2>1 DEF OverpaidInv, EarnedWithin, PaidWithin, Announced
  <2> QED
    BY <2>1, <2>2, SumsOverMiners
<1> QED
  BY <1>1, <1>2, <1>3, PTL DEF Spec

-----------------------------------------------------------------------------
(* Balances and earnings *)

\* What is booked and not yet paid.
Pending(m) == IF pc = "rewards" THEN Gain[m] ELSE 0

PaidFromEarnings ==
    /\ \A m \in Miner : balances[m] + Pending(m) <= EarnedBy(m)
    /\ restarts = 0 => \A m \in Enrolled : balances[m] + Pending(m) = EarnedBy(m)

MatchInv == AmountInv /\ PaidFromEarnings

\* What was booked is paid by the next step or, after a restart, never.
LEMMA PaidFromEarningsKept ==
    ASSUME ~BatchFails, MatchInv, [Next]_vars
    PROVE  PaidFromEarnings'
<1>1. /\ AmountInv /\ PaidFromEarnings /\ restarts \in Nat /\ Enrolled \subseteq Miner
      /\ \A m \in Miner : EarnedBy(m) \in Nat /\ balances[m] \in Nat
  BY AmountsNat, LedgerAssumption DEF MatchInv, AmountInv, AmountsTyped, ProcessorReset
<1>2. UNCHANGED earnings => \A m \in Miner : EarnedBy(m)' = EarnedBy(m)
  BY EarnedByIn
<1>3. pc = "rewards" => Gain \in [Miner -> Nat]
  BY <1>1, GainsWithinReward DEF AmountInv, AmountsTyped, LedgerTypeOK
<1>4. CASE AddEarnings
  <2>1. /\ pc = "earnings" /\ pc' = "rewards" /\ UNCHANGED <<balances, msg, restarts>>
    BY <1>4 DEF AddEarnings
  <2>2. /\ Gain \in [Miner -> Nat]
        /\ \A m \in Miner : EarnedBy(m)' = EarnedBy(m) + Gain[m]
    BY <1>1, <1>4, EarningsBooked, GainsWithinReward
  <2>3. Gain' = Gain
    BY <2>1 DEF Gain, Earned
  <2>4. \A m \in Miner : Pending(m) = 0 /\ Pending(m)' = Gain[m]
    BY <2>1, <2>3 DEF Pending
  <2> QED
    BY <1>1, <2>1, <2>2, <2>4 DEF PaidFromEarnings
<1>5. CASE UpdateRewards
  <2>1. /\ pc = "rewards" /\ pc' = "contributions" /\ UNCHANGED <<earnings, restarts>>
    BY <1>5 DEF UpdateRewards
  <2>2. /\ \A m \in Miner : balances'[m] \in Nat /\ balances'[m] <= balances[m] + Gain[m]
        /\ \A m \in Enrolled : balances'[m] = balances[m] + Gain[m]
    BY <1>1, <1>5, BalancesPaid
  <2>3. \A m \in Miner : Pending(m) = Gain[m] /\ Pending(m)' = 0
    BY <2>1 DEF Pending
  <2> QED
    BY <1>1, <1>2, <1>3, <2>1, <2>2, <2>3 DEF PaidFromEarnings
<1>6. CASE Restart
  <2>1. pc' = "recv" /\ restarts' # 0 /\ UNCHANGED <<earnings, balances>>
    BY <1>1, <1>6 DEF Restart, database
  <2>2. \A m \in Miner : Pending(m) \in Nat /\ Pending(m)' = 0
    BY <1>3, <2>1 DEF Pending
  <2> QED
    BY <1>1, <1>2, <2>1, <2>2 DEF PaidFromEarnings
<1>7. ASSUME UNCHANGED <<earnings, balances, restarts>>, pc # "rewards", pc' # "rewards"
      PROVE  PaidFromEarnings'
  <2>1. \A m \in Miner : Pending(m) = 0 /\ Pending(m)' = 0
    BY <1>7 DEF Pending
  <2> QED
    BY <1>1, <1>2, <1>7, <2>1 DEF PaidFromEarnings
<1>8. CASE Processor /\ ~AddEarnings /\ ~UpdateRewards
  BY <1>7, <1>8 DEF Processor, Receive, AddContributions, UpdatePoolRewards,
     FindContribution, CloseChallenge, database
<1>9. CASE Attender \/ UNCHANGED vars
  <2>1. UNCHANGED <<earnings, balances, restarts, pc, msg>>
    BY <1>9 DEF Attender, Start, AttNotified, MoveOn, AttRecord, AttOld, AttNew,
       AttSend, vars, processor, database
  <2>2. Gain' = Gain
    BY <2>1 DEF Gain, Earned
  <2>3. \A m \in Miner : Pending(m)' = Pending(m)
    BY <2>1, <2>2 DEF Pending
  <2> QED
    BY <1>1, <1>2, <2>1, <2>3 DEF PaidFromEarnings
<1> QED
  BY <1>4, <1>5, <1>6, <1>8, <1>9 DEF Next

\* As long as batches do not fail, no balance is above what its miner earned, and that of
\* an enrolled one is below it only after a restart.
THEOREM LedgerBalancesMatch == ~BatchFails => (Spec => []BalancesMatchEarnings)
<1> SUFFICES ASSUME ~BatchFails PROVE Spec => []BalancesMatchEarnings
  OBVIOUS
<1>1. Init => MatchInv
  <2> SUFFICES ASSUME Init PROVE MatchInv
    OBVIOUS
  <2>1. AmountInv
    BY AmountInvInit
  <2>2. \A m \in Miner : EarnedBy(m) = 0 /\ balances[m] = 0 /\ Pending(m) = 0
    BY EarnedInEmpty, EarnedByIn DEF Init, Pending
  <2> QED
    BY <2>1, <2>2, LedgerAssumption DEF MatchInv, PaidFromEarnings
<1>2. MatchInv /\ [Next]_vars => MatchInv'
  BY AmountInvNext, PaidFromEarningsKept DEF MatchInv
<1>3. MatchInv => BalancesMatchEarnings
  <2> SUFFICES ASSUME MatchInv PROVE BalancesMatchEarnings
    OBVIOUS
  <2>1. /\ \A m \in Miner : EarnedBy(m) \in Nat /\ balances[m] \in Nat
        /\ Enrolled \subseteq Miner
    BY AmountsNat, LedgerAssumption DEF MatchInv, AmountInv, AmountsTyped
  <2>2. \A m \in Miner : Pending(m) \in Nat /\ (pc # "rewards" => Pending(m) = 0)
    BY GainsWithinReward DEF MatchInv, AmountInv, AmountsTyped, LedgerTypeOK, Pending
  <2> QED
    BY <2>1, <2>2 DEF MatchInv, PaidFromEarnings, BalancesMatchEarnings
<1> QED
  BY <1>1, <1>2, <1>3, PTL DEF Spec

=============================================================================
