------------------------- MODULE UsageSummaryProofs -------------------------
(***************************************************************************)
(* Proofs about UsageSummary, for any number of records, any amounts and   *)
(* any order.  Sums, running totals and powers of ten are recursive, and   *)
(* the library states induction over predicates, which no prover at hand   *)
(* can instantiate: here the predicate is a set, {n \in Nat : P(n)}.       *)
(***************************************************************************)
EXTENDS UsageSummary, FiniteSetTheorems, WellFoundedInduction, TLAPS

-----------------------------------------------------------------------------
(* Induction *)

LEMMA Least ==
  ASSUME NEW S \in SUBSET Nat, S # {}
  PROVE  \E x \in S : \A y \in S : x <= y
<1>1. \E x \in S : \A y \in S : ~ (<<y, x>> \in OpToRel(<, Nat))
  BY WFMin, NatLessThanWellFounded, Zenon
<1>2. \A x, y \in S : ~ (<<y, x>> \in OpToRel(<, Nat)) => ~ (y < x)
  BY DEF OpToRel
<1>3. \A x, y \in Nat : ~ (y < x) => x <= y
  OBVIOUS
<1> QED BY <1>1, <1>2, <1>3

LEMMA Induction ==
  ASSUME NEW S \in SUBSET Nat, 0 \in S, \A n \in S : n + 1 \in S
  PROVE  S = Nat
<1> SUFFICES ASSUME Nat \ S # {} PROVE FALSE
  OBVIOUS
<1>1. PICK x \in Nat \ S : \A y \in Nat \ S : x <= y
  BY Least
<1>2. x - 1 \in S /\ x - 1 + 1 = x
  BY <1>1
<1> QED BY <1>1, <1>2

LEMMA Greatest ==
  ASSUME NEW n \in Nat, NEW S \in SUBSET (0 .. n), S # {}
  PROVE  \E x \in S : \A y \in S : y <= x
<1> DEFINE R == {n - y : y \in S}
<1>1. R \in SUBSET Nat /\ R # {}
  <2>1. \A y \in 0 .. n : n - y \in Nat
    OBVIOUS
  <2> QED BY <2>1
<1>2. PICK r \in R : \A y \in R : r <= y
  BY <1>1, Least
<1>3. PICK x \in S : r = n - x
  BY <1>2
<1>4. \A y \in S : n - x <= n - y
  BY <1>2, <1>3
<1> QED BY <1>3, <1>4

\* Every finite set can be filled one element at a time.
LEMMA SetInduction ==
  ASSUME NEW S, IsFiniteSet(S), NEW F \in SUBSET SUBSET S, {} \in F,
         \A T \in F : \A x \in S \ T : T \cup {x} \in F
  PROVE  S \in F
<1> DEFINE A == {n \in Nat : \A T \in SUBSET S : Cardinality(T) = n => T \in F}
<1>0. \A T \in SUBSET S : IsFiniteSet(T) /\ Cardinality(T) \in Nat
  BY FS_Subset, FS_CardinalityType
<1>1. 0 \in A
  BY <1>0, FS_EmptySet
<1>2. ASSUME NEW n \in A PROVE n + 1 \in A
  <2> SUFFICES ASSUME NEW T \in SUBSET S, Cardinality(T) = n + 1 PROVE T \in F
    OBVIOUS
  <2>1. PICK x \in T : TRUE
    BY <1>0, FS_EmptySet
  <2>2. Cardinality(T \ {x}) = n
    BY <1>0, FS_RemoveElement, SMTT(30)
  <2>3. T \ {x} \in F
    BY <2>2
  <2>4. (T \ {x}) \cup {x} = T /\ x \in S \ (T \ {x})
    OBVIOUS
  <2> QED BY <2>3, <2>4
<1>3. A = Nat
  <2>1. A \in SUBSET Nat
    OBVIOUS
  <2> HIDE DEF A
  <2> QED BY <1>1, <1>2, <2>1, Induction
<1>4. Cardinality(S) \in A
  BY <1>0, <1>3
<1> QED BY <1>4

Iterates(f, start, step) ==
  f[0] = start /\ \A n \in Nat : f[n + 1] = step[<<n, f[n]>>]

\* What is defined step by step exists.
LEMMA PrimitiveRecursion ==
  ASSUME NEW D, NEW start \in D, NEW step \in [Nat \X D -> D]
  PROVE  \E f \in [Nat -> D] : Iterates(f, start, step)
<1> DEFINE Follows(g, n) == /\ g \in [0 .. n -> D] /\ g[0] = start
                            /\ \A m \in Nat : m < n => g[m + 1] = step[<<m, g[m]>>]
<1>1. \A n \in Nat : \E g : Follows(g, n)
  <2> DEFINE A == {n \in Nat : \E g : Follows(g, n)}
  <2>1. 0 \in A
    <3>1. Follows([m \in 0 .. 0 |-> start], 0)
      OBVIOUS
    <3> QED BY <3>1
  <2>2. ASSUME NEW n \in A PROVE n + 1 \in A
    <3>1. PICK g : Follows(g, n)
      OBVIOUS
    <3> DEFINE h == [m \in 0 .. n + 1 |-> IF m = n + 1 THEN step[<<n, g[n]>>] ELSE g[m]]
    <3>2. n \in Nat /\ g[n] \in D /\ step[<<n, g[n]>>] \in D
      BY <3>1
    <3>3. h \in [0 .. n + 1 -> D]
      BY <3>1, <3>2
    <3>4. h[0] = start
      BY <3>1, <3>2
    <3>5. ASSUME NEW m \in Nat, m < n + 1 PROVE h[m + 1] = step[<<m, h[m]>>]
      <4>1. h[m] = g[m]
        BY <3>2, <3>5
      <4>2. CASE m = n
        BY <4>1, <4>2, <3>2
      <4>3. CASE m < n
        BY <4>1, <4>3, <3>1, <3>2
      <4> QED BY <4>2, <4>3, <3>2, <3>5
    <3>6. Follows(h, n + 1)
      BY <3>3, <3>4, <3>5
    <3> HIDE DEF h, Follows
    <3> QED BY <3>2, <3>6
  <2>3. A = Nat
    <3>1. A \in SUBSET Nat
      OBVIOUS
    <3> HIDE DEF A
    <3> QED BY <2>1, <2>2, <3>1, Induction
  <2> QED BY <2>3
<1>2. ASSUME NEW n \in Nat, NEW k \in Nat, NEW g, NEW h, Follows(g, n), Follows(h, k), n <= k
      PROVE  \A m \in 0 .. n : g[m] = h[m]
  <2> DEFINE B == {m \in Nat : m <= n => g[m] = h[m]}
  <2>1. 0 \in B
    BY <1>2
  <2>2. ASSUME NEW m \in B PROVE m + 1 \in B
    <3> SUFFICES ASSUME m + 1 <= n PROVE g[m + 1] = h[m + 1]
      OBVIOUS
    <3>1. g[m + 1] = step[<<m, g[m]>>]
      BY <1>2
    <3>2. h[m + 1] = step[<<m, h[m]>>]
      BY <1>2
    <3> QED BY <3>1, <3>2
  <2>3. B = Nat
    <3>1. B \in SUBSET Nat
      OBVIOUS
    <3> HIDE DEF B, Follows
    <3> QED BY <2>1, <2>2, <3>1, Induction
  <2> QED BY <2>3
<1> DEFINE part(n) == CHOOSE g : Follows(g, n)
           f == [n \in Nat |-> part(n)[n]]
<1>3. \A n \in Nat : Follows(part(n), n)
  BY <1>1
<1>4. f \in [Nat -> D]
  <2> HIDE DEF part
  <2> QED BY <1>3
<1>5. f[0] = start
  <2> HIDE DEF part
  <2> QED BY <1>3
<1>6. ASSUME NEW n \in Nat PROVE f[n + 1] = step[<<n, f[n]>>]
  <2> HIDE DEF part
  <2>1. Follows(part(n), n) /\ Follows(part(n + 1), n + 1)
    BY <1>3
  <2>2. part(n)[n] = part(n + 1)[n]
    <3> HIDE DEF Follows
    <3> QED BY <2>1, <1>2
  <2>3. part(n + 1)[n + 1] = step[<<n, part(n + 1)[n]>>]
    BY <2>1
  <2> QED BY <2>2, <2>3
<1>7. Iterates(f, start, step)
  <2> HIDE DEF f
  <2> QED BY <1>5, <1>6 DEF Iterates
<1> HIDE DEF f
<1> QED BY <1>4, <1>7

-----------------------------------------------------------------------------
(* Sums over finite sets *)

Pick(s) == CHOOSE x \in s : TRUE

\* g adds f up over the subsets of S.
AddsUp(g, f, S) ==
  /\ g \in [SUBSET S -> Nat]
  /\ g = [s \in SUBSET S |-> IF s = {} THEN 0 ELSE f[Pick(s)] + g[s \ {Pick(s)}]]

LEMMA PickIn == \A s : s # {} => Pick(s) \in s
BY DEF Pick

LEMMA SumExists ==
  ASSUME NEW S, IsFiniteSet(S), NEW f, \A x \in S : f[x] \in Nat
  PROVE  \E g : AddsUp(g, f, S)
<1> DEFINE Upto(g, n) ==
      /\ g \in [SUBSET S -> Nat]
      /\ \A s \in SUBSET S : Cardinality(s) <= n =>
           g[s] = IF s = {} THEN 0 ELSE f[Pick(s)] + g[s \ {Pick(s)}]
    A == {n \in Nat : \E g : Upto(g, n)}
<1>0. /\ \A s \in SUBSET S : IsFiniteSet(s) /\ Cardinality(s) \in Nat
      /\ \A s \in SUBSET S : Cardinality(s) = 0 <=> s = {}
      /\ \A s \in SUBSET S : s # {} =>
           Pick(s) \in S /\ Cardinality(s \ {Pick(s)}) = Cardinality(s) - 1
  BY FS_Subset, FS_CardinalityType, FS_EmptySet, FS_RemoveElement, PickIn
<1>1. 0 \in A
  <2> DEFINE g == [s \in SUBSET S |-> 0]
  <2>1. \A s \in SUBSET S : Cardinality(s) <= 0 => s = {}
    BY <1>0
  <2>2. Upto(g, 0)
    BY <2>1
  <2> QED BY <2>2
<1>2. ASSUME NEW n \in A PROVE n + 1 \in A
  <2>1. PICK g : Upto(g, n)
    OBVIOUS
  <2> DEFINE h == [s \in SUBSET S |-> IF Cardinality(s) <= n THEN g[s]
                                      ELSE f[Pick(s)] + g[s \ {Pick(s)}]]
  <2>2. h \in [SUBSET S -> Nat]
    BY <2>1, <1>0
  <2>3. ASSUME NEW s \in SUBSET S, Cardinality(s) <= n + 1
        PROVE  h[s] = IF s = {} THEN 0 ELSE f[Pick(s)] + h[s \ {Pick(s)}]
    <3>1. CASE s = {}
      BY <3>1, <2>1, <1>0
    <3>2. CASE s # {}
      <4>1. h[s \ {Pick(s)}] = g[s \ {Pick(s)}]
        BY <3>2, <2>3, <1>0
      <4>2. CASE Cardinality(s) <= n
        BY <4>1, <4>2, <3>2, <2>1
      <4>3. CASE ~ (Cardinality(s) <= n)
        BY <4>1, <4>3, <3>2
      <4> QED BY <4>2, <4>3
    <3> QED BY <3>1, <3>2
  <2>4. Upto(h, n + 1)
    BY <2>2, <2>3
  <2> HIDE DEF h, Upto
  <2> QED BY <2>4
<1>3. A = Nat
  <2>1. A \in SUBSET Nat
    OBVIOUS
  <2> HIDE DEF A
  <2> QED BY <1>1, <1>2, <2>1, Induction
<1>4. PICK g : Upto(g, Cardinality(S))
  <2>1. Cardinality(S) \in Nat
    BY FS_CardinalityType
  <2> HIDE DEF Upto
  <2> QED BY <1>3, <2>1
<1>5. \A s \in SUBSET S : Cardinality(s) <= Cardinality(S)
  BY FS_Subset
<1> QED BY <1>4, <1>5 DEF AddsUp

LEMMA SumUnique ==
  ASSUME NEW S, IsFiniteSet(S), NEW T \in SUBSET S, NEW f, NEW g, NEW h,
         AddsUp(g, f, S), AddsUp(h, f, T)
  PROVE  \A s \in SUBSET T : g[s] = h[s]
<1> DEFINE A == {n \in Nat : \A s \in SUBSET T : Cardinality(s) = n => g[s] = h[s]}
<1>0. /\ \A s \in SUBSET T : IsFiniteSet(s) /\ Cardinality(s) \in Nat
      /\ \A s \in SUBSET T : Cardinality(s) = 0 <=> s = {}
      /\ \A s \in SUBSET T : s # {} =>
           Pick(s) \in T /\ Cardinality(s \ {Pick(s)}) = Cardinality(s) - 1
  BY FS_Subset, FS_CardinalityType, FS_EmptySet, FS_RemoveElement, PickIn
<1>1. 0 \in A
  BY <1>0 DEF AddsUp
<1>2. ASSUME NEW n \in A PROVE n + 1 \in A
  <2> SUFFICES ASSUME NEW s \in SUBSET T, Cardinality(s) = n + 1 PROVE g[s] = h[s]
    OBVIOUS
  <2>1. s # {} /\ Cardinality(s \ {Pick(s)}) = n
    BY <1>0
  <2>2. g[s \ {Pick(s)}] = h[s \ {Pick(s)}]
    BY <2>1
  <2>3. g[s] = f[Pick(s)] + g[s \ {Pick(s)}] /\ h[s] = f[Pick(s)] + h[s \ {Pick(s)}]
    BY <2>1 DEF AddsUp
  <2> QED BY <2>2, <2>3
<1>3. A = Nat
  <2>1. A \in SUBSET Nat
    OBVIOUS
  <2> HIDE DEF A
  <2> QED BY <1>1, <1>2, <2>1, Induction
<1> QED BY <1>0, <1>3

LEMMA SumAddsUp ==
  ASSUME NEW S, IsFiniteSet(S), NEW f, \A x \in S : f[x] \in Nat
  PROVE  \E g : AddsUp(g, f, S) /\ SumFunctionOnSet(f, S) = g[S]
<1> DEFINE iter[s \in SUBSET S] == IF s = {} THEN 0 ELSE f[Pick(s)] + iter[s \ {Pick(s)}]
<1>1. PICK g : AddsUp(g, f, S)
  BY SumExists
<1>2. iter = [s \in SUBSET S |-> IF s = {} THEN 0 ELSE f[Pick(s)] + iter[s \ {Pick(s)}]]
  BY <1>1, Zenon DEF AddsUp
<1>3. SumFunctionOnSet(f, S) = iter[S]
  BY DEF SumFunctionOnSet, FoldFunctionOnSet, MapThenFoldSet, Pick
<1> HIDE DEF iter
<1> DEFINE A == {n \in Nat : \A s \in SUBSET S : Cardinality(s) = n => iter[s] = g[s]}
<1>0. /\ \A s \in SUBSET S : IsFiniteSet(s) /\ Cardinality(s) \in Nat
      /\ \A s \in SUBSET S : Cardinality(s) = 0 <=> s = {}
      /\ \A s \in SUBSET S : s # {} =>
           Pick(s) \in S /\ Cardinality(s \ {Pick(s)}) = Cardinality(s) - 1
  BY FS_Subset, FS_CardinalityType, FS_EmptySet, FS_RemoveElement, PickIn
<1>4. 0 \in A
  BY <1>0, <1>1, <1>2 DEF AddsUp
<1>5. ASSUME NEW n \in A PROVE n + 1 \in A
  <2> SUFFICES ASSUME NEW s \in SUBSET S, Cardinality(s) = n + 1 PROVE iter[s] = g[s]
    OBVIOUS
  <2>1. s # {} /\ Cardinality(s \ {Pick(s)}) = n
    BY <1>0
  <2>2. iter[s \ {Pick(s)}] = g[s \ {Pick(s)}]
    BY <2>1
  <2>3. g[s] = f[Pick(s)] + g[s \ {Pick(s)}]
    BY <2>1, <1>1 DEF AddsUp
  <2>4. iter[s] = f[Pick(s)] + iter[s \ {Pick(s)}]
    BY <2>1, <1>2
  <2> QED BY <2>2, <2>3, <2>4
<1>6. A = Nat
  <2>1. A \in SUBSET Nat
    OBVIOUS
  <2> HIDE DEF A
  <2> QED BY <1>4, <1>5, <2>1, Induction
<1>7. iter[S] = g[S]
  BY <1>0, <1>6
<1> QED BY <1>1, <1>3, <1>7

LEMMA SumEmpty == \A f : SumFunctionOnSet(f, {}) = 0
<1>1. \A f : \E g : AddsUp(g, f, {}) /\ SumFunctionOnSet(f, {}) = g[{}]
  BY SumAddsUp, FS_EmptySet
<1> QED BY <1>1 DEF AddsUp

LEMMA SumNat ==
  ASSUME NEW S, IsFiniteSet(S), NEW f, \A x \in S : f[x] \in Nat
  PROVE  SumFunctionOnSet(f, S) \in Nat
<1>1. PICK g : AddsUp(g, f, S) /\ SumFunctionOnSet(f, S) = g[S]
  BY SumAddsUp
<1>2. g \in [SUBSET S -> Nat] /\ S \in SUBSET S
  BY <1>1 DEF AddsUp
<1> QED BY <1>1, <1>2

LEMMA SumPick ==
  ASSUME NEW S, IsFiniteSet(S), S # {}, NEW f, \A x \in S : f[x] \in Nat
  PROVE  SumFunctionOnSet(f, S) = f[Pick(S)] + SumFunctionOnSet(f, S \ {Pick(S)})
<1> DEFINE T == S \ {Pick(S)}
<1>1. PICK g : AddsUp(g, f, S) /\ SumFunctionOnSet(f, S) = g[S]
  BY SumAddsUp
<1>2. IsFiniteSet(T) /\ T \in SUBSET S /\ \A x \in T : f[x] \in Nat
  BY FS_RemoveElement
<1>3. PICK h : AddsUp(h, f, T) /\ SumFunctionOnSet(f, T) = h[T]
  BY <1>2, SumAddsUp
<1>4. g[T] = h[T]
  BY <1>1, <1>2, <1>3, SumUnique
<1>5. g[S] = f[Pick(S)] + g[T]
  BY <1>1 DEF AddsUp
<1> QED BY <1>1, <1>3, <1>4, <1>5

\* The order in which a sum is taken does not matter: any element may go first.
LEMMA SumRemove ==
  ASSUME NEW S, IsFiniteSet(S), NEW f, \A x \in S : f[x] \in Nat
  PROVE  \A x \in S : SumFunctionOnSet(f, S) = f[x] + SumFunctionOnSet(f, S \ {x})
<1> DEFINE sum(T) == SumFunctionOnSet(f, T)
           A == {n \in Nat : \A T \in SUBSET S : Cardinality(T) = n =>
                               \A x \in T : sum(T) = f[x] + sum(T \ {x})}
<1>0. /\ \A T \in SUBSET S : IsFiniteSet(T) /\ Cardinality(T) \in Nat /\ sum(T) \in Nat
      /\ \A T \in SUBSET S : Cardinality(T) = 0 <=> T = {}
      /\ \A T \in SUBSET S : \A x \in T :
           T \ {x} \in SUBSET S /\ Cardinality(T \ {x}) = Cardinality(T) - 1
      /\ \A T \in SUBSET S : T # {} =>
           Pick(T) \in T /\ sum(T) = f[Pick(T)] + sum(T \ {Pick(T)})
  <2>1. \A T \in SUBSET S : IsFiniteSet(T) /\ \A x \in T : f[x] \in Nat
    BY FS_Subset
  <2>2. \A T \in SUBSET S : T # {} => sum(T) = f[Pick(T)] + sum(T \ {Pick(T)})
    BY <2>1, SumPick
  <2> QED BY <2>1, <2>2, FS_CardinalityType, FS_EmptySet, FS_RemoveElement, PickIn, SumNat
<1> HIDE DEF sum
<1>1. 0 \in A
  BY <1>0
<1>2. ASSUME NEW n \in A PROVE n + 1 \in A
  <2> SUFFICES ASSUME NEW T \in SUBSET S, Cardinality(T) = n + 1, NEW x \in T
               PROVE  sum(T) = f[x] + sum(T \ {x})
    OBVIOUS
  <2> DEFINE p == Pick(T)
  <2>1. p \in T /\ sum(T) = f[p] + sum(T \ {p})
    BY <1>0
  <2> HIDE DEF p
  <2>2. CASE x = p
    BY <2>1, <2>2
  <2>3. CASE x # p
    <3>1. Cardinality(T \ {p}) = n /\ Cardinality(T \ {x}) = n
      BY <1>0, <2>1
    <3>2. sum(T \ {p}) = f[x] + sum((T \ {p}) \ {x})
      BY <3>1, <2>3
    <3>3. sum(T \ {x}) = f[p] + sum((T \ {x}) \ {p})
      BY <3>1, <2>1, <2>3
    <3>4. sum((T \ {x}) \ {p}) = sum((T \ {p}) \ {x})
      <4>1. (T \ {p}) \ {x} = (T \ {x}) \ {p}
        OBVIOUS
      <4> QED BY <4>1, Zenon
    <3>5. f[x] \in Nat /\ f[p] \in Nat
      BY <2>1
    <3>7. sum((T \ {p}) \ {x}) \in Nat
      <4> DEFINE U == (T \ {p}) \ {x}
      <4>1. U \in SUBSET S
        OBVIOUS
      <4> HIDE DEF U
      <4>2. sum(U) \in Nat
        BY <4>1, <1>0
      <4> QED BY <4>2 DEF U
    <3>8. \A a, b, c \in Nat : a + (b + c) = b + (a + c)
      OBVIOUS
    <3>9. sum(T) = f[p] + (f[x] + sum((T \ {p}) \ {x}))
      BY <2>1, <3>2, Zenon
    <3>10. f[x] + sum(T \ {x}) = f[x] + (f[p] + sum((T \ {p}) \ {x}))
      BY <3>3, <3>4, Zenon
    <3>11. f[p] + (f[x] + sum((T \ {p}) \ {x})) = f[x] + (f[p] + sum((T \ {p}) \ {x}))
      BY <3>5, <3>7, <3>8, Zenon
    <3> QED BY <3>9, <3>10, <3>11, Zenon
  <2> QED BY <2>2, <2>3
<1>3. A = Nat
  <2>1. A \in SUBSET Nat
    OBVIOUS
  <2> HIDE DEF A
  <2> QED BY <1>1, <1>2, <2>1, Induction
<1> QED BY <1>0, <1>3 DEF sum

LEMMA SumAdd ==
  ASSUME NEW S, IsFiniteSet(S), NEW f, \A y \in S : f[y] \in Nat,
         NEW x, x \notin S, f[x] \in Nat
  PROVE  SumFunctionOnSet(f, S \cup {x}) = f[x] + SumFunctionOnSet(f, S)
<1>1. IsFiniteSet(S \cup {x}) /\ \A y \in S \cup {x} : f[y] \in Nat
  BY FS_AddElement
<1>2. (S \cup {x}) \ {x} = S
  OBVIOUS
<1>3. \A y \in S \cup {x} : SumFunctionOnSet(f, S \cup {x}) =
                              f[y] + SumFunctionOnSet(f, (S \cup {x}) \ {y})
  BY <1>1, SumRemove
<1> QED BY <1>2, <1>3

LEMMA SumSame ==
  ASSUME NEW S, IsFiniteSet(S), NEW f, NEW g,
         \A x \in S : f[x] \in Nat /\ f[x] = g[x]
  PROVE  SumFunctionOnSet(f, S) = SumFunctionOnSet(g, S)
<1> DEFINE F == {T \in SUBSET S : SumFunctionOnSet(f, T) = SumFunctionOnSet(g, T)}
<1>1. {} \in F
  BY SumEmpty
<1>2. ASSUME NEW T \in F, NEW x \in S \ T PROVE T \cup {x} \in F
  <2>1. IsFiniteSet(T)
    BY FS_Subset
  <2>2. SumFunctionOnSet(f, T \cup {x}) = f[x] + SumFunctionOnSet(f, T)
    BY <2>1, SumAdd
  <2>3. SumFunctionOnSet(g, T \cup {x}) = g[x] + SumFunctionOnSet(g, T)
    BY <2>1, SumAdd
  <2> QED BY <2>2, <2>3
<1>3. S \in F
  <2>1. F \in SUBSET SUBSET S
    OBVIOUS
  <2> HIDE DEF F
  <2> QED BY <1>1, <1>2, <2>1, SetInduction
<1> QED BY <1>3

LEMMA SumScaled ==
  ASSUME NEW S, IsFiniteSet(S), NEW f, NEW g, NEW c \in Nat,
         \A x \in S : f[x] \in Nat /\ g[x] = c * f[x]
  PROVE  SumFunctionOnSet(g, S) = c * SumFunctionOnSet(f, S)
<1> DEFINE F == {T \in SUBSET S : SumFunctionOnSet(g, T) = c * SumFunctionOnSet(f, T)}
<1>0. \A x \in S : g[x] \in Nat
  OBVIOUS
<1>1. {} \in F
  BY SumEmpty
<1>2. ASSUME NEW T \in F, NEW x \in S \ T PROVE T \cup {x} \in F
  <2>1. IsFiniteSet(T)
    BY FS_Subset
  <2>2. SumFunctionOnSet(f, T \cup {x}) = f[x] + SumFunctionOnSet(f, T)
    BY <2>1, SumAdd
  <2>3. SumFunctionOnSet(g, T \cup {x}) = g[x] + SumFunctionOnSet(g, T)
    BY <1>0, <2>1, SumAdd
  <2>4. SumFunctionOnSet(f, T) \in Nat /\ f[x] \in Nat
    BY <2>1, SumNat
  <2>5. \A a, b \in Nat : c * a + c * b = c * (a + b)
    OBVIOUS
  <2> QED BY <2>2, <2>3, <2>4, <2>5
<1>3. S \in F
  <2>1. F \in SUBSET SUBSET S
    OBVIOUS
  <2> HIDE DEF F
  <2> QED BY <1>1, <1>2, <2>1, SetInduction
<1> QED BY <1>3

LEMMA SumUnion ==
  ASSUME NEW S, IsFiniteSet(S), NEW R, IsFiniteSet(R), S \cap R = {},
         NEW f, \A x \in S \cup R : f[x] \in Nat
  PROVE  SumFunctionOnSet(f, S \cup R) = SumFunctionOnSet(f, S) + SumFunctionOnSet(f, R)
<1> DEFINE F == {T \in SUBSET S : SumFunctionOnSet(f, T \cup R) =
                                    SumFunctionOnSet(f, T) + SumFunctionOnSet(f, R)}
<1>0. SumFunctionOnSet(f, R) \in Nat
  BY SumNat
<1>1. {} \in F
  <2>1. {} \cup R = R
    OBVIOUS
  <2> QED BY <2>1, <1>0, SumEmpty
<1>2. ASSUME NEW T \in F, NEW x \in S \ T PROVE T \cup {x} \in F
  <2>1. IsFiniteSet(T) /\ IsFiniteSet(T \cup R)
    BY FS_Subset, FS_Union
  <2>2. SumFunctionOnSet(f, T \cup {x}) = f[x] + SumFunctionOnSet(f, T)
    BY <2>1, SumAdd
  <2>3. x \notin T \cup R /\ (T \cup {x}) \cup R = (T \cup R) \cup {x}
    OBVIOUS
  <2>4. SumFunctionOnSet(f, (T \cup R) \cup {x}) = f[x] + SumFunctionOnSet(f, T \cup R)
    BY <2>1, <2>3, SumAdd
  <2>5. \A y \in T : f[y] \in Nat
    OBVIOUS
  <2>6. SumFunctionOnSet(f, T) \in Nat
    BY <2>1, <2>5, SumNat
  <2>7. f[x] \in Nat
    OBVIOUS
  <2>8. SumFunctionOnSet(f, T \cup R) = SumFunctionOnSet(f, T) + SumFunctionOnSet(f, R)
    OBVIOUS
  <2>9. SumFunctionOnSet(f, (T \cup {x}) \cup R) =
          SumFunctionOnSet(f, T \cup {x}) + SumFunctionOnSet(f, R)
    <3>1. SumFunctionOnSet(f, (T \cup {x}) \cup R) = f[x] + SumFunctionOnSet(f, T \cup R)
      BY <2>3, <2>4, Zenon
    <3> QED BY <1>0, <2>2, <2>6, <2>7, <2>8, <3>1
  <2> QED BY <2>9
<1>3. S \in F
  <2>1. F \in SUBSET SUBSET S
    OBVIOUS
  <2> HIDE DEF F
  <2> QED BY <1>1, <1>2, <2>1, SetInduction
<1> QED BY <1>3

LEMMA SumSubset ==
  ASSUME NEW S, IsFiniteSet(S), NEW T \in SUBSET S, NEW f, \A x \in S : f[x] \in Nat
  PROVE  SumFunctionOnSet(f, T) <= SumFunctionOnSet(f, S)
<1>1. IsFiniteSet(T) /\ IsFiniteSet(S \ T) /\ T \cap (S \ T) = {} /\ T \cup (S \ T) = S
  BY FS_Subset, FS_Difference
<1>2. SumFunctionOnSet(f, T \cup (S \ T)) = SumFunctionOnSet(f, T) + SumFunctionOnSet(f, S \ T)
  BY <1>1, SumUnion
<1>3. SumFunctionOnSet(f, T) \in Nat /\ SumFunctionOnSet(f, S \ T) \in Nat
  <2>1. \A x \in T : f[x] \in Nat
    OBVIOUS
  <2>2. \A x \in S \ T : f[x] \in Nat
    OBVIOUS
  <2>3. SumFunctionOnSet(f, T) \in Nat
    BY <1>1, <2>1, SumNat
  <2>4. SumFunctionOnSet(f, S \ T) \in Nat
    BY <1>1, <2>2, SumNat
  <2> QED BY <2>3, <2>4
<1>4. SumFunctionOnSet(f, S) = SumFunctionOnSet(f, T) + SumFunctionOnSet(f, S \ T)
  BY <1>1, <1>2, Zenon
<1> QED BY <1>3, <1>4

\* Naming the summands otherwise changes nothing.
LEMMA SumRenamed ==
  ASSUME NEW S, IsFiniteSet(S), NEW b, \A x, y \in S : b[x] = b[y] => x = y,
         NEW f, NEW g, \A x \in S : g[x] \in Nat /\ g[x] = f[b[x]]
  PROVE  SumFunctionOnSet(g, S) = SumFunctionOnSet(f, {b[x] : x \in S})
<1> DEFINE F == {T \in SUBSET S :
                   /\ SumFunctionOnSet(g, T) = SumFunctionOnSet(f, {b[x] : x \in T})
                   /\ IsFiniteSet({b[x] : x \in T})}
<1>1. {} \in F
  <2>1. {b[x] : x \in {}} = {}
    OBVIOUS
  <2> QED BY <2>1, SumEmpty, FS_EmptySet
<1>2. ASSUME NEW T \in F, NEW x \in S \ T PROVE T \cup {x} \in F
  <2> DEFINE I == {b[y] : y \in T}
  <2>1. IsFiniteSet(T) /\ IsFiniteSet(I)
    BY FS_Subset
  <2>2. {b[y] : y \in T \cup {x}} = I \cup {b[x]} /\ b[x] \notin I
    OBVIOUS
  <2>3. \A z \in I \cup {b[x]} : f[z] \in Nat
    OBVIOUS
  <2>4. SumFunctionOnSet(g, T \cup {x}) = g[x] + SumFunctionOnSet(g, T)
    BY <2>1, SumAdd
  <2>5. SumFunctionOnSet(g, T) = SumFunctionOnSet(f, I)
    OBVIOUS
  <2> HIDE DEF I
  <2>6. SumFunctionOnSet(f, I \cup {b[x]}) = f[b[x]] + SumFunctionOnSet(f, I)
    BY <2>1, <2>2, <2>3, SumAdd
  <2>7. IsFiniteSet(I \cup {b[x]})
    BY <2>1, FS_AddElement
  <2> QED BY <2>2, <2>4, <2>5, <2>6, <2>7
<1>3. S \in F
  <2>1. F \in SUBSET SUBSET S
    OBVIOUS
  <2> HIDE DEF F
  <2> QED BY <1>1, <1>2, <2>1, SetInduction
<1> QED BY <1>3

LEMMA GroupsFinite ==
  ASSUME NEW K, IsFiniteSet(K), NEW part, \A k \in K : IsFiniteSet(part[k])
  PROVE  IsFiniteSet(UNION {part[k] : k \in K})
<1> DEFINE all(T) == UNION {part[k] : k \in T}
           F == {T \in SUBSET K : IsFiniteSet(all(T))}
<1>1. {} \in F
  <2>1. all({}) = {}
    OBVIOUS
  <2> QED BY <2>1, FS_EmptySet
<1>2. ASSUME NEW T \in F, NEW x \in K \ T PROVE T \cup {x} \in F
  <2>1. all(T \cup {x}) = part[x] \cup all(T)
    OBVIOUS
  <2>2. IsFiniteSet(part[x]) /\ IsFiniteSet(all(T))
    OBVIOUS
  <2> HIDE DEF all
  <2> QED BY <2>1, <2>2, FS_Union, ZenonT(60)
<1>3. K \in F
  <2>1. F \in SUBSET SUBSET K
    OBVIOUS
  <2> HIDE DEF F
  <2> QED BY <1>1, <1>2, <2>1, SetInduction
<1> QED BY <1>3

\* A sum may be taken group by group.
LEMMA SumGrouped ==
  ASSUME NEW K, IsFiniteSet(K), NEW part, \A k \in K : IsFiniteSet(part[k]),
         \A k, l \in K : k # l => part[k] \cap part[l] = {},
         NEW f, \A k \in K : \A x \in part[k] : f[x] \in Nat,
         NEW s, \A k \in K : s[k] = SumFunctionOnSet(f, part[k])
  PROVE  SumFunctionOnSet(s, K) = SumFunctionOnSet(f, UNION {part[k] : k \in K})
<1> DEFINE all(T) == UNION {part[k] : k \in T}
           F == {T \in SUBSET K : /\ SumFunctionOnSet(s, T) = SumFunctionOnSet(f, all(T))
                                  /\ IsFiniteSet(all(T))}
<1>0. \A k \in K : s[k] \in Nat
  BY SumNat
<1>1. {} \in F
  <2>1. all({}) = {}
    OBVIOUS
  <2> QED BY <2>1, SumEmpty, FS_EmptySet
<1>2. ASSUME NEW T \in F, NEW x \in K \ T PROVE T \cup {x} \in F
  <2>1. IsFiniteSet(T) /\ IsFiniteSet(all(T)) /\ IsFiniteSet(part[x])
    BY FS_Subset
  <2>2. all(T \cup {x}) = part[x] \cup all(T) /\ part[x] \cap all(T) = {}
    OBVIOUS
  <2>3. \A z \in part[x] \cup all(T) : f[z] \in Nat
    OBVIOUS
  <2>4. SumFunctionOnSet(s, T \cup {x}) = s[x] + SumFunctionOnSet(s, T)
    BY <1>0, <2>1, SumAdd
  <2>5. SumFunctionOnSet(s, T) = SumFunctionOnSet(f, all(T))
    OBVIOUS
  <2>6. s[x] = SumFunctionOnSet(f, part[x])
    OBVIOUS
  <2> HIDE DEF all
  <2>7. SumFunctionOnSet(f, part[x] \cup all(T)) =
          SumFunctionOnSet(f, part[x]) + SumFunctionOnSet(f, all(T))
    BY <2>1, <2>2, <2>3, SumUnion
  <2>8. IsFiniteSet(part[x] \cup all(T))
    BY <2>1, FS_Union
  <2> QED BY <2>2, <2>4, <2>5, <2>6, <2>7, <2>8
<1>3. K \in F
  <2>1. F \in SUBSET SUBSET K
    OBVIOUS
  <2> HIDE DEF F
  <2> QED BY <1>1, <1>2, <2>1, SetInduction
<1> QED BY <1>3

LEMMA SumOfOnes ==
  ASSUME NEW S, IsFiniteSet(S), NEW f, \A x \in S : f[x] = 1
  PROVE  SumFunctionOnSet(f, S) = Cardinality(S)
<1> DEFINE F == {T \in SUBSET S : SumFunctionOnSet(f, T) = Cardinality(T)}
<1>1. {} \in F
  BY SumEmpty, FS_EmptySet
<1>2. ASSUME NEW T \in F, NEW x \in S \ T PROVE T \cup {x} \in F
  <2>1. IsFiniteSet(T) /\ Cardinality(T) \in Nat
    BY FS_Subset, FS_CardinalityType
  <2>2. SumFunctionOnSet(f, T \cup {x}) = f[x] + SumFunctionOnSet(f, T)
    BY <2>1, SumAdd
  <2>3. Cardinality(T \cup {x}) = Cardinality(T) + 1
    BY <2>1, FS_AddElement
  <2> QED BY <2>1, <2>2, <2>3
<1>3. S \in F
  <2>1. F \in SUBSET SUBSET S
    OBVIOUS
  <2> HIDE DEF F
  <2> QED BY <1>1, <1>2, <2>1, SetInduction
<1> QED BY <1>3

\* A finite set may be counted group by group.
LEMMA CountGrouped ==
  ASSUME NEW K, IsFiniteSet(K), NEW part, \A k \in K : IsFiniteSet(part[k]),
         \A k, l \in K : k # l => part[k] \cap part[l] = {},
         NEW s, \A k \in K : s[k] = Cardinality(part[k])
  PROVE  SumFunctionOnSet(s, K) = Cardinality(UNION {part[k] : k \in K})
<1> DEFINE all == UNION {part[k] : k \in K}
           one == [x \in all |-> 1]
<1>1. \A k \in K : SumFunctionOnSet(one, part[k]) = Cardinality(part[k])
  <2>1. \A k \in K : IsFiniteSet(part[k]) /\ \A x \in part[k] : one[x] = 1
    OBVIOUS
  <2> HIDE DEF one
  <2> QED BY <2>1, SumOfOnes
<1>2. IsFiniteSet(all)
  BY GroupsFinite
<1>3. SumFunctionOnSet(one, all) = Cardinality(all)
  <2>1. \A x \in all : one[x] = 1
    OBVIOUS
  <2> HIDE DEF one, all
  <2> QED BY <1>2, <2>1, SumOfOnes
<1>4. \A k \in K : \A x \in part[k] : one[x] \in Nat
  OBVIOUS
<1>5. \A k \in K : s[k] = SumFunctionOnSet(one, part[k])
  BY <1>1
<1> HIDE DEF one
<1>6. SumFunctionOnSet(s, K) = SumFunctionOnSet(one, UNION {part[k] : k \in K})
  BY <1>4, <1>5, SumGrouped
<1> QED BY <1>3, <1>6

-----------------------------------------------------------------------------
(* Powers of ten and digits *)

LEMMA TensFacts ==
  /\ Tens[0] = 1
  /\ \A n \in Nat : Tens[n] \in Nat /\ Tens[n] >= 1 /\ Tens[n + 1] = 10 * Tens[n]
<1> DEFINE D == Nat \ {0}
           start == 1
           step == [p \in Nat \X D |-> 10 * p[2]]
<1>1. start \in D /\ step \in [Nat \X D -> D]
  OBVIOUS
<1>2. PICK f \in [Nat -> D] : Iterates(f, start, step)
  <2> HIDE DEF step, D, start
  <2> QED BY <1>1, PrimitiveRecursion
<1>3. f[0] = 1 /\ \A n \in Nat : f[n + 1] = 10 * f[n]
  BY <1>2 DEF Iterates
<1> HIDE DEF step
<1>4. f = [n \in Nat |-> IF n = 0 THEN 1 ELSE 10 * f[n - 1]]
  <2>1. \A n \in Nat : n # 0 => n - 1 \in Nat /\ (n - 1) + 1 = n
    OBVIOUS
  <2>2. \A n \in Nat : f[n] = IF n = 0 THEN 1 ELSE 10 * f[n - 1]
    BY <1>3, <2>1
  <2> QED BY <2>2
<1>5. Tens = [n \in Nat |-> IF n = 0 THEN 1 ELSE 10 * Tens[n - 1]]
  BY <1>4, Zenon DEF Tens
<1> DEFINE A == {n \in Nat : Tens[n] = f[n]}
<1>6. 0 \in A
  BY <1>3, <1>5
<1>7. ASSUME NEW n \in A PROVE n + 1 \in A
  <2>1. n + 1 \in Nat /\ n + 1 # 0 /\ (n + 1) - 1 = n
    OBVIOUS
  <2>2. Tens[n + 1] = 10 * Tens[n]
    BY <1>5, <2>1
  <2>3. Tens[n + 1] = f[n + 1]
    BY <2>2, <1>3
  <2> QED BY <2>3
<1>8. A = Nat
  <2>1. A \in SUBSET Nat
    OBVIOUS
  <2> HIDE DEF A
  <2> QED BY <1>6, <1>7, <2>1, Induction
<1>9. \A n \in Nat : f[n] \in Nat /\ f[n] >= 1
  <2>1. \A n \in Nat : f[n] \in D
    BY <1>2
  <2> QED BY <2>1
<1>10. \A n \in Nat : Tens[n] = f[n]
  BY <1>8
<1>11. Tens[0] = 1 /\ \A n \in Nat : n + 1 \in Nat
  BY <1>3, <1>10
<1> QED BY <1>3, <1>9, <1>10, <1>11

LEMMA TensAdd ==
  ASSUME NEW m \in Nat, NEW n \in Nat
  PROVE  Tens[m + n] = Tens[m] * Tens[n]
<1> DEFINE A == {k \in Nat : Tens[m + k] = Tens[m] * Tens[k]}
<1>1. 0 \in A
  BY TensFacts
<1>2. ASSUME NEW k \in A PROVE k + 1 \in A
  <2>1. /\ Tens[(m + k) + 1] = 10 * Tens[m + k] /\ Tens[k + 1] = 10 * Tens[k]
        /\ Tens[m] \in Nat /\ Tens[k] \in Nat
    BY TensFacts
  <2>2. Tens[m + k] = Tens[m] * Tens[k]
    OBVIOUS
  <2>3. \A a, b \in Nat : 10 * (a * b) = a * (10 * b)
    OBVIOUS
  <2>4. m + (k + 1) = (m + k) + 1
    OBVIOUS
  <2>5. Tens[m + (k + 1)] = Tens[m] * Tens[k + 1]
    BY <2>1, <2>2, <2>3, <2>4
  <2> QED BY <2>5
<1>3. A = Nat
  <2>1. A \in SUBSET Nat
    OBVIOUS
  <2> HIDE DEF A
  <2> QED BY <1>1, <1>2, <2>1, Induction
<1> QED BY <1>3

LEMMA TensSplit ==
  ASSUME NEW m \in Nat, NEW n \in Nat, m <= n
  PROVE  n - m \in Nat /\ Tens[n] = Tens[m] * Tens[n - m]
<1>1. n - m \in Nat /\ m + (n - m) = n
  OBVIOUS
<1>2. Tens[m + (n - m)] = Tens[m] * Tens[n - m]
  BY <1>1, TensAdd
<1> QED BY <1>1, <1>2

LEMMA TimesMonotone ==
  /\ \A a, b, c \in Nat : b <= c => a * b <= a * c
  /\ \A a, b, c \in Nat : b < c /\ a >= 1 => a * b < a * c
  /\ \A a, b, c \in Nat : a * b = a * c /\ a >= 1 => b = c
<1>1. \A a, d \in Nat : a * d \in Nat
  OBVIOUS
<1>2. \A a, d \in Nat : a >= 1 /\ d >= 1 => a * d >= 1
  OBVIOUS
<1>3. \A a, b, d \in Nat : a * (b + d) = a * b + a * d
  OBVIOUS
<1>4. \A a, b, c \in Nat : b <= c => a * b <= a * c
  <2> TAKE a, b, c \in Nat
  <2> HAVE b <= c
  <2>1. c - b \in Nat /\ b + (c - b) = c
    OBVIOUS
  <2>2. a * c = a * b + a * (c - b) /\ a * b \in Nat /\ a * (c - b) \in Nat
    BY <1>1, <1>3, <2>1
  <2> QED BY <2>2
<1>5. \A a, b, c \in Nat : b < c /\ a >= 1 => a * b < a * c
  <2> TAKE a, b, c \in Nat
  <2> HAVE b < c /\ a >= 1
  <2>1. c - b \in Nat /\ b + (c - b) = c /\ c - b >= 1
    OBVIOUS
  <2>2. a * c = a * b + a * (c - b) /\ a * b \in Nat /\ a * (c - b) \in Nat /\ a * (c - b) >= 1
    BY <1>1, <1>2, <1>3, <2>1
  <2> QED BY <2>2
<1>6. \A a, b, c \in Nat : a * b = a * c /\ a >= 1 => b = c
  <2> TAKE a, b, c \in Nat
  <2> HAVE a * b = a * c /\ a >= 1
  <2>1. ~ (b < c) /\ ~ (c < b)
    BY <1>1, <1>5
  <2> QED BY <2>1
<1> QED BY <1>4, <1>5, <1>6

LEMMA TensMonotone ==
  ASSUME NEW m \in Nat, NEW n \in Nat, m <= n
  PROVE  Tens[m] <= Tens[n]
<1>1. n - m \in Nat /\ Tens[n] = Tens[m] * Tens[n - m]
  BY TensSplit
<1>2. Tens[m] \in Nat /\ Tens[n - m] \in Nat /\ 1 <= Tens[n - m]
  BY <1>1, TensFacts
<1>3. Tens[m] * 1 <= Tens[m] * Tens[n - m]
  BY <1>2, TimesMonotone
<1> QED BY <1>1, <1>2, <1>3

LEMMA TensLarge == \A n \in Nat : n < Tens[n]
<1> DEFINE A == {n \in Nat : n < Tens[n]}
<1>1. 0 \in A
  BY TensFacts
<1>2. ASSUME NEW n \in A PROVE n + 1 \in A
  BY TensFacts
<1>3. A = Nat
  <2>1. A \in SUBSET Nat
    OBVIOUS
  <2> HIDE DEF A
  <2> QED BY <1>1, <1>2, <2>1, Induction
<1> QED BY <1>3

LEMMA DigitsFacts ==
  ASSUME NEW n \in Nat
  PROVE  /\ Digits(n) \in Nat /\ Digits(n) >= 1
         /\ n < Tens[Digits(n)]
         /\ Digits(n) = 1 \/ Tens[Digits(n) - 1] <= n
<1> DEFINE S == {k \in Nat : k >= 1 /\ n < Tens[k]}
<1>1. n + 1 \in S
  BY TensLarge, TensFacts
<1>2. PICK k \in S : \A j \in S : k <= j
  <2>1. S \in SUBSET Nat /\ S # {}
    BY <1>1
  <2> HIDE DEF S
  <2> QED BY <2>1, Least
<1>3. k \in 1 .. n + 1 /\ n < Tens[k]
  BY <1>1, <1>2
<1>4. k = 1 \/ Tens[k - 1] <= n
  <2> SUFFICES ASSUME k # 1 PROVE Tens[k - 1] <= n
    OBVIOUS
  <2>1. k - 1 \in Nat /\ k - 1 >= 1 /\ ~ (k <= k - 1)
    BY <1>3
  <2>2. ~ (n < Tens[k - 1]) /\ Tens[k - 1] \in Nat
    BY <1>2, <2>1, TensFacts
  <2> QED BY <2>2
<1>5. \E d \in 1 .. n + 1 : n < Tens[d] /\ (d = 1 \/ Tens[d - 1] <= n)
  BY <1>3, <1>4
<1>6. /\ Digits(n) \in 1 .. n + 1 /\ n < Tens[Digits(n)]
      /\ Digits(n) = 1 \/ Tens[Digits(n) - 1] <= n
  BY <1>5, Zenon DEF Digits
<1> QED BY <1>6

LEMMA DigitsBound ==
  ASSUME NEW n \in Nat, NEW k \in Nat, k >= 1
  PROVE  Digits(n) <= k <=> n < Tens[k]
<1> DEFINE d == Digits(n)
<1>1. d \in Nat /\ d >= 1 /\ n < Tens[d] /\ (d = 1 \/ Tens[d - 1] <= n)
  BY DigitsFacts
<1> HIDE DEF d
<1>2. Tens[k] \in Nat /\ Tens[d] \in Nat
  BY <1>1, TensFacts
<1>3. ASSUME d <= k PROVE n < Tens[k]
  BY <1>1, <1>2, <1>3, TensMonotone
<1>4. ASSUME n < Tens[k] PROVE d <= k
  <2> SUFFICES ASSUME d > k PROVE FALSE
    BY <1>1
  <2>1. d - 1 \in Nat /\ k <= d - 1 /\ Tens[d - 1] <= n
    BY <1>1
  <2>2. Tens[k] <= Tens[d - 1] /\ Tens[d - 1] \in Nat
    BY <2>1, TensMonotone, TensFacts
  <2> QED BY <1>4, <1>2, <2>1, <2>2
<1> QED BY <1>3, <1>4 DEF d

-----------------------------------------------------------------------------
(* Decimals *)

Decimals == [coef : Nat, scale : Nat]

LEMMA DecimalType ==
  /\ \A c, s \in Nat : Decimal(c, s) \in Decimals
  /\ \A c, s : Decimal(c, s).coef = c /\ Decimal(c, s).scale = s
  /\ \A d \in Decimals : d.coef \in Nat /\ d.scale \in Nat /\ d = Decimal(d.coef, d.scale)
BY DEF Decimal, Decimals

LEMMA AcceptedBounds ==
  ASSUME NEW d \in Decimals
  PROVE  DecimalAccepted(d) <=>
           \/ d.coef = 0
           \/ d.scale = 0 /\ d.coef < Tens[MaxLength]
           \/ d.scale >= 1 /\ d.scale + 2 <= MaxLength /\ d.coef < Tens[MaxLength - 1]
<1> DEFINE n == Digits(d.coef)
<1>0. d.coef \in Nat /\ d.scale \in Nat /\ MaxLength \in Nat /\ MaxLength >= 1
  BY UsageAssumption DEF Decimals
<1>1. n \in Nat /\ n >= 1 /\ \A k \in Nat : k >= 1 => (n <= k <=> d.coef < Tens[k])
  BY <1>0, DigitsFacts, DigitsBound
<1> HIDE DEF n
<1>2. n <= MaxLength <=> d.coef < Tens[MaxLength]
  BY <1>0, <1>1
<1>3. MaxLength >= 2 => (n + 1 <= MaxLength <=> d.coef < Tens[MaxLength - 1])
  <2> SUFFICES ASSUME MaxLength >= 2
               PROVE  n + 1 <= MaxLength <=> d.coef < Tens[MaxLength - 1]
    OBVIOUS
  <2>1. MaxLength - 1 \in Nat /\ MaxLength - 1 >= 1
    BY <1>0
  <2>2. n <= MaxLength - 1 <=> d.coef < Tens[MaxLength - 1]
    BY <1>1, <2>1
  <2>3. n <= MaxLength - 1 <=> n + 1 <= MaxLength
    BY <1>0, <1>1
  <2> QED BY <2>2, <2>3
<1>4. DecimalAccepted(d) <=>
        d.coef = 0 \/ (IF d.scale = 0 THEN n ELSE IF d.scale >= n THEN 2 + d.scale ELSE n + 1)
                        <= MaxLength
  BY DEF DecimalAccepted, WrittenLength, n
<1>5. CASE d.scale = 0
  BY <1>0, <1>2, <1>4, <1>5
<1>6. CASE d.scale >= 1 /\ d.scale >= n
  <2>1. DecimalAccepted(d) <=> d.coef = 0 \/ 2 + d.scale <= MaxLength
    BY <1>0, <1>1, <1>4, <1>6
  <2>2. 2 + d.scale <= MaxLength => d.coef < Tens[MaxLength - 1]
    BY <1>0, <1>1, <1>3, <1>6
  <2> QED BY <1>0, <1>6, <2>1, <2>2
<1>7. CASE d.scale >= 1 /\ d.scale < n
  <2>1. DecimalAccepted(d) <=> d.coef = 0 \/ n + 1 <= MaxLength
    BY <1>0, <1>1, <1>4, <1>7
  <2>2. n + 1 <= MaxLength => MaxLength >= 2 /\ d.scale + 2 <= MaxLength
    BY <1>0, <1>1, <1>7
  <2>3. d.scale + 2 <= MaxLength => MaxLength >= 2
    BY <1>0
  <2> QED BY <1>0, <1>3, <1>7, <2>1, <2>2, <2>3
<1> QED BY <1>0, <1>1, <1>5, <1>6, <1>7

\* A decimal with no more units and no finer scale than an accepted one is
\* accepted.
LEMMA AcceptedSmaller ==
  ASSUME NEW c \in Decimals, NEW d \in Decimals, DecimalAccepted(d),
         c.scale <= d.scale, c.coef <= d.coef
  PROVE  DecimalAccepted(c)
<1>0. c.coef \in Nat /\ c.scale \in Nat /\ d.coef \in Nat /\ d.scale \in Nat /\ MaxLength \in Nat
  BY UsageAssumption DEF Decimals
<1>1. \/ d.coef = 0
      \/ d.scale = 0 /\ d.coef < Tens[MaxLength]
      \/ d.scale >= 1 /\ d.scale + 2 <= MaxLength /\ d.coef < Tens[MaxLength - 1]
  BY AcceptedBounds
<1>2. d.scale + 2 <= MaxLength => /\ Tens[MaxLength - 1] <= Tens[MaxLength]
                                  /\ Tens[MaxLength - 1] \in Nat /\ Tens[MaxLength] \in Nat
  <2> SUFFICES ASSUME d.scale + 2 <= MaxLength
               PROVE  /\ Tens[MaxLength - 1] <= Tens[MaxLength]
                      /\ Tens[MaxLength - 1] \in Nat /\ Tens[MaxLength] \in Nat
    OBVIOUS
  <2>1. MaxLength - 1 \in Nat /\ MaxLength - 1 <= MaxLength
    BY <1>0
  <2> QED BY <1>0, <2>1, TensMonotone, TensFacts
<1>3. Tens[MaxLength] \in Nat
  BY <1>0, TensFacts
<1>4. \/ c.coef = 0
      \/ c.scale = 0 /\ c.coef < Tens[MaxLength]
      \/ c.scale >= 1 /\ c.scale + 2 <= MaxLength /\ c.coef < Tens[MaxLength - 1]
  BY <1>0, <1>1, <1>2, <1>3
<1> QED BY <1>4, AcceptedBounds

LEMMA ZeroAccepted == Decimal(0, 0) \in Decimals /\ DecimalAccepted(Decimal(0, 0))
BY DEF DecimalAccepted, Decimal, Decimals

\* The amounts that take part in sums: no zero is written with a long scale.
Short(d) == d \in Decimals /\ d.scale < MaxLength /\ d.coef < Tens[MaxLength]

LEMMA AcceptedShort ==
  ASSUME NEW d \in Decimals, DecimalAccepted(d), d.coef = 0 => d.scale < MaxLength
  PROVE  Short(d)
<1>0. d.coef \in Nat /\ d.scale \in Nat /\ MaxLength \in Nat /\ MaxLength >= 1
  BY UsageAssumption DEF Decimals
<1>1. Tens[MaxLength] \in Nat /\ Tens[MaxLength] >= 1
  BY <1>0, TensFacts
<1>2. d.scale + 2 <= MaxLength => /\ Tens[MaxLength - 1] <= Tens[MaxLength]
                                  /\ Tens[MaxLength - 1] \in Nat
  <2> SUFFICES ASSUME d.scale + 2 <= MaxLength
               PROVE  Tens[MaxLength - 1] <= Tens[MaxLength] /\ Tens[MaxLength - 1] \in Nat
    OBVIOUS
  <2>1. MaxLength - 1 \in Nat /\ MaxLength - 1 <= MaxLength
    BY <1>0
  <2> QED BY <1>0, <2>1, TensMonotone, TensFacts
<1>3. \/ d.coef = 0
      \/ d.scale = 0 /\ d.coef < Tens[MaxLength]
      \/ d.scale >= 1 /\ d.scale + 2 <= MaxLength /\ d.coef < Tens[MaxLength - 1]
  BY AcceptedBounds
<1>4. d.scale < MaxLength /\ d.coef < Tens[MaxLength]
  BY <1>0, <1>1, <1>2, <1>3
<1> QED BY <1>4 DEF Short

LEMMA Division ==
  ASSUME NEW a \in Nat, NEW b \in Nat, b >= 1
  PROVE  /\ a \div b \in Nat /\ a % b \in Nat /\ a = b * (a \div b) + (a % b)
OBVIOUS

\* The text of an amount has the value of the amount, and no more digits.
LEMMA WrittenFacts ==
  ASSUME NEW d \in Decimals
  PROVE  /\ Written(d) \in Decimals
         /\ Written(d).scale <= d.scale /\ Written(d).coef <= d.coef
         /\ Written(d).coef = 0 => Written(d).scale = 0
         /\ d.scale - Written(d).scale \in Nat
         /\ d.coef = Written(d).coef * Tens[d.scale - Written(d).scale]
<1>0. d.coef \in Nat /\ d.scale \in Nat
  BY DEF Decimals
<1>1. CASE d.coef = 0
  <2>1. Written(d) = Decimal(0, 0)
    BY <1>1 DEF Written
  <2>2. d.scale - 0 = d.scale /\ Tens[d.scale] \in Nat
    BY <1>0, TensFacts
  <2> QED BY <1>0, <1>1, <2>1, <2>2, DecimalType
<1>2. CASE d.coef # 0
  <2> DEFINE Z == {k \in 0 .. d.scale : d.coef % Tens[k] = 0}
             IsLast(k) == d.coef % Tens[k] = 0 /\ \A m \in k + 1 .. d.scale : d.coef % Tens[m] # 0
             zeros == CHOOSE k \in 0 .. d.scale : IsLast(k)
  <2>1. 0 \in Z
    <3>1. d.coef % 1 = 0
      BY <1>0
    <3> QED BY <1>0, <3>1, TensFacts
  <2>2. PICK k \in Z : \A m \in Z : m <= k
    <3>1. Z \in SUBSET (0 .. d.scale) /\ Z # {}
      BY <2>1
    <3> HIDE DEF Z
    <3> QED BY <1>0, <3>1, Greatest
  <2>3. k \in 0 .. d.scale /\ IsLast(k)
    BY <1>0, <2>2
  <2>4. zeros \in 0 .. d.scale /\ IsLast(zeros)
    <3> HIDE DEF IsLast
    <3> QED BY <2>3
  <2>5. Written(d) = Decimal(d.coef \div Tens[zeros], d.scale - zeros)
    BY <1>2 DEF Written
  <2> HIDE DEF zeros, Z
  <2> DEFINE t == Tens[zeros]
             q == d.coef \div t
  <2>6. t \in Nat /\ t >= 1 /\ d.coef % t = 0 /\ zeros \in Nat
    BY <1>0, <2>4, TensFacts
  <2>7. q \in Nat /\ d.coef = t * q
    <3> HIDE DEF t
    <3>1. q \in Nat /\ d.coef % t \in Nat /\ d.coef = t * q + (d.coef % t)
      BY <1>0, <2>6, Division
    <3> HIDE DEF q
    <3>2. \A x \in Nat : x + 0 = x
      OBVIOUS
    <3>3. t * q \in Nat
      BY <3>1, <2>6
    <3> QED BY <3>1, <3>2, <3>3, <2>6
  <2>8. d.scale - zeros \in Nat /\ d.scale - (d.scale - zeros) = zeros
    BY <1>0, <2>4
  <2>9. Written(d) \in Decimals /\ Written(d).coef = q /\ Written(d).scale = d.scale - zeros
    <3>1. Written(d) = Decimal(q, d.scale - zeros)
      BY <2>5
    <3> HIDE DEF q
    <3> QED BY <2>7, <2>8, <3>1, DecimalType
  <2> HIDE DEF t, q
  <2>10. q # 0 /\ q <= d.coef /\ d.coef = q * t
    <3>1. t * 0 = 0 /\ t * q = q * t
      BY <2>6, <2>7
    <3>2. q * 1 <= q * t
      BY <2>6, <2>7, TimesMonotone
    <3> QED BY <1>2, <2>7, <3>1, <3>2
  <2> QED BY <1>0, <2>4, <2>6, <2>8, <2>9, <2>10 DEF t
<1> QED BY <1>1, <1>2

LEMMA WrittenAccepted ==
  ASSUME NEW d \in Decimals, DecimalAccepted(d)
  PROVE  DecimalAccepted(Written(d)) /\ Short(Written(d))
<1>1. DecimalAccepted(Written(d))
  BY WrittenFacts, AcceptedSmaller
<1>2. 0 < MaxLength
  BY UsageAssumption
<1> QED BY <1>1, <1>2, WrittenFacts, AcceptedShort

LEMMA RoundedNat == ASSUME NEW n \in Nat, NEW drop \in Nat PROVE Rounded(n, drop) \in Nat
<1>1. n \div Tens[drop] \in Nat
  BY TensFacts, Division
<1> DEFINE kept == n \div Tens[drop]
<1>2. Rounded(n, drop) = kept + 1 \/ Rounded(n, drop) = kept
  BY DEF Rounded
<1> QED BY <1>1, <1>2

LEMMA SumOfType ==
  ASSUME NEW c \in Decimals, NEW d \in Decimals, NEW precision \in Nat
  PROVE  SumOf(c, d, precision) \in Decimals
<1> DEFINE s == IF c.scale > d.scale THEN c.scale ELSE d.scale
           n == c.coef * Tens[s - c.scale] + d.coef * Tens[s - d.scale]
           drop == IF Digits(n) > precision THEN Digits(n) - precision ELSE 0
<1>0. c.coef \in Nat /\ c.scale \in Nat /\ d.coef \in Nat /\ d.scale \in Nat
  BY DEF Decimals
<1>1. s \in Nat /\ s - c.scale \in Nat /\ s - d.scale \in Nat
  BY <1>0
<1>2. SumOf(c, d, precision) = IF drop <= s THEN Decimal(Rounded(n, drop), s - drop)
                               ELSE Decimal(Rounded(n, drop) * Tens[drop - s], 0)
  BY DEF SumOf
<1> HIDE DEF s
<1>3. n \in Nat
  <2>1. Tens[s - c.scale] \in Nat /\ Tens[s - d.scale] \in Nat
    BY <1>1, TensFacts
  <2>2. \A x, y \in Nat : x * y \in Nat
    OBVIOUS
  <2> QED BY <1>0, <2>1, <2>2
<1> HIDE DEF n
<1>4. drop \in Nat
  BY <1>3, DigitsFacts
<1> HIDE DEF drop
<1>5. Rounded(n, drop) \in Nat
  BY <1>3, <1>4, RoundedNat
<1>6. CASE drop <= s
  <2>1. s - drop \in Nat
    BY <1>1, <1>4, <1>6
  <2> QED BY <1>2, <1>5, <1>6, <2>1, DecimalType
<1>7. CASE ~ (drop <= s)
  <2>1. drop - s \in Nat
    BY <1>1, <1>4, <1>7
  <2>2. Tens[drop - s] \in Nat
    BY <2>1, TensFacts
  <2>3. Rounded(n, drop) * Tens[drop - s] \in Nat
    BY <1>5, <2>2
  <2> QED BY <1>2, <1>7, <2>3, DecimalType
<1> QED BY <1>6, <1>7

\* The sum of two bounded amounts is never rounded: the contexts are wide
\* enough for both.
LEMMA SumOfExact ==
  ASSUME NEW c, NEW d, Short(c), Short(d), NEW precision \in Nat, precision >= 2 * MaxLength,
         NEW s, s = IF c.scale > d.scale THEN c.scale ELSE d.scale
  PROVE  SumOf(c, d, precision) =
           Decimal(c.coef * Tens[s - c.scale] + d.coef * Tens[s - d.scale], s)
<1> DEFINE n == c.coef * Tens[s - c.scale] + d.coef * Tens[s - d.scale]
           drop == IF Digits(n) > precision THEN Digits(n) - precision ELSE 0
<1>0. /\ c.coef \in Nat /\ c.scale \in Nat /\ d.coef \in Nat /\ d.scale \in Nat
      /\ c.coef < Tens[MaxLength] /\ d.coef < Tens[MaxLength]
      /\ c.scale < MaxLength /\ d.scale < MaxLength /\ MaxLength \in Nat /\ MaxLength >= 1
  BY UsageAssumption DEF Short, Decimals
<1>1. s \in Nat /\ s < MaxLength /\ s - c.scale \in Nat /\ s - d.scale \in Nat
  BY <1>0
<1>2. SumOf(c, d, precision) = IF drop <= s THEN Decimal(Rounded(n, drop), s - drop)
                               ELSE Decimal(Rounded(n, drop) * Tens[drop - s], 0)
  BY DEF SumOf
<1> DEFINE L == Tens[MaxLength]
           M == Tens[MaxLength - 1]
<1>3. L \in Nat /\ M \in Nat /\ L = 10 * M /\ M >= 1 /\ L >= 1
  <2>1. MaxLength - 1 \in Nat /\ (MaxLength - 1) + 1 = MaxLength
    BY <1>0
  <2> QED BY <1>0, <2>1, TensFacts
<1>4. ASSUME NEW x \in Nat, x < L, NEW t \in Nat, t <= MaxLength - 1
      PROVE  x * Tens[t] \in Nat /\ x * Tens[t] <= L * M
  <2>1. MaxLength - 1 \in Nat
    BY <1>0
  <2>2. Tens[t] \in Nat /\ Tens[t] <= M
    BY <1>4, <2>1, TensFacts, TensMonotone
  <2> HIDE DEF L, M
  <2>3. x * Tens[t] <= x * M
    BY <1>3, <2>2, TimesMonotone
  <2>4. M * x <= M * L
    BY <1>3, <1>4, TimesMonotone
  <2>5. x * Tens[t] \in Nat /\ x * M \in Nat /\ L * M \in Nat /\ x * M = M * x /\ L * M = M * L
    BY <1>3, <2>2
  <2> QED BY <2>3, <2>4, <2>5
<1>5. n \in Nat /\ n <= 2 * (L * M) /\ L * M \in Nat
  <2>1. s - c.scale <= MaxLength - 1 /\ s - d.scale <= MaxLength - 1
    BY <1>0, <1>1
  <2>2. c.coef * Tens[s - c.scale] \in Nat /\ c.coef * Tens[s - c.scale] <= L * M
    BY <1>0, <1>1, <1>4, <2>1
  <2>3. d.coef * Tens[s - d.scale] \in Nat /\ d.coef * Tens[s - d.scale] <= L * M
    BY <1>0, <1>1, <1>4, <2>1
  <2> HIDE DEF L, M
  <2>4. L * M \in Nat
    BY <1>3
  <2> QED BY <2>2, <2>3, <2>4
<1>6. n < Tens[2 * MaxLength]
  <2>1. 2 * MaxLength = MaxLength + MaxLength
    BY <1>0
  <2>2. Tens[MaxLength + MaxLength] = L * L
    BY <1>0, TensAdd
  <2> HIDE DEF L, M, n
  <2>3. L * L = 10 * (L * M)
    BY <1>3
  <2>4. L * M >= 1
    BY <1>3
  <2> QED BY <1>5, <2>1, <2>2, <2>3, <2>4
<1> HIDE DEF n
<1>7. drop = 0
  <2>1. 2 * MaxLength \in Nat /\ 2 * MaxLength >= 1
    BY <1>0
  <2>2. Digits(n) <= 2 * MaxLength /\ Digits(n) \in Nat
    BY <1>5, <1>6, <2>1, DigitsBound, DigitsFacts
  <2> QED BY <1>0, <2>2
<1> HIDE DEF drop
<1>8. Rounded(n, 0) = n
  <2>1. Tens[0] = 1
    BY TensFacts
  <2>2. n \div 1 = n /\ n % 1 = 0
    BY <1>5
  <2>3. ~ (2 * 0 > 1) /\ 2 * 0 # 1
    OBVIOUS
  <2> QED BY <2>1, <2>2, <2>3 DEF Rounded
<1>9. SumOf(c, d, precision) = Decimal(n, s)
  <2>1. 0 <= s /\ s - 0 = s
    BY <1>1
  <2> QED BY <1>2, <1>7, <1>8, <2>1
<1> QED BY <1>9 DEF n

-----------------------------------------------------------------------------
(* Running totals *)

LEMMA RunningFacts ==
  ASSUME NEW amount, NEW P, \A i \in P : amount[i] \in Decimals, NEW precision \in Nat
  PROVE  LET total == RunningTotals(amount, P, precision)
         IN  /\ total[0] = Decimal(0, 0)
             /\ \A n \in Nat : /\ total[n] \in Decimals
                               /\ total[n + 1] = IF n + 1 \in P
                                                 THEN SumOf(total[n], amount[n + 1], precision)
                                                 ELSE total[n]
<1> DEFINE start == Decimal(0, 0)
           step == [p \in Nat \X Decimals |->
                      IF p[1] + 1 \in P THEN SumOf(p[2], amount[p[1] + 1], precision) ELSE p[2]]
           total == RunningTotals(amount, P, precision)
<1>1. start \in Decimals
  BY DecimalType
<1>2. step \in [Nat \X Decimals -> Decimals]
  <2>1. \A p \in Nat \X Decimals :
          (IF p[1] + 1 \in P THEN SumOf(p[2], amount[p[1] + 1], precision) ELSE p[2]) \in Decimals
    BY SumOfType
  <2> QED BY <2>1
<1>3. PICK f \in [Nat -> Decimals] : Iterates(f, start, step)
  <2> HIDE DEF step, start
  <2> QED BY <1>1, <1>2, PrimitiveRecursion
<1>4. f[0] = start
  BY <1>3 DEF Iterates
<1>5. ASSUME NEW n \in Nat
      PROVE  f[n + 1] = IF n + 1 \in P THEN SumOf(f[n], amount[n + 1], precision) ELSE f[n]
  <2>1. f[n + 1] = step[<<n, f[n]>>] /\ <<n, f[n]>> \in Nat \X Decimals
    BY <1>3 DEF Iterates
  <2> QED BY <2>1
<1>6. f = [n \in Nat |-> IF n = 0 THEN Decimal(0, 0)
                         ELSE IF n \in P THEN SumOf(f[n - 1], amount[n], precision)
                         ELSE f[n - 1]]
  <2>1. \A n \in Nat : n # 0 => n - 1 \in Nat /\ (n - 1) + 1 = n
    OBVIOUS
  <2>2. \A n \in Nat : n # 0 => f[n] = IF n \in P THEN SumOf(f[n - 1], amount[n], precision)
                                       ELSE f[n - 1]
    BY <1>5, <2>1
  <2> QED BY <1>4, <2>2
<1>7. total = [n \in Nat |-> IF n = 0 THEN Decimal(0, 0)
                             ELSE IF n \in P THEN SumOf(total[n - 1], amount[n], precision)
                             ELSE total[n - 1]]
  BY <1>6, Zenon DEF RunningTotals
<1> HIDE DEF total, step
<1> DEFINE A == {n \in Nat : total[n] = f[n]}
<1>8. 0 \in A
  BY <1>4, <1>7
<1>9. ASSUME NEW n \in A PROVE n + 1 \in A
  <2>1. n + 1 \in Nat /\ n + 1 # 0 /\ (n + 1) - 1 = n
    OBVIOUS
  <2>2. total[n + 1] = IF n + 1 \in P THEN SumOf(total[n], amount[n + 1], precision) ELSE total[n]
    BY <1>7, <2>1
  <2>3. total[n + 1] = f[n + 1]
    BY <2>2, <1>5
  <2> QED BY <2>1, <2>3
<1>10. A = Nat
  <2>1. A \in SUBSET Nat
    OBVIOUS
  <2> HIDE DEF A
  <2> QED BY <1>8, <1>9, <2>1, Induction
<1>11. \A n \in Nat : total[n] = f[n] /\ n + 1 \in Nat
  BY <1>10
<1>12. total[0] = Decimal(0, 0)
  BY <1>4, <1>11
<1>13. ASSUME NEW n \in Nat
       PROVE  /\ total[n] \in Decimals
              /\ total[n + 1] = IF n + 1 \in P THEN SumOf(total[n], amount[n + 1], precision)
                                ELSE total[n]
  BY <1>5, <1>11
<1> QED BY <1>12, <1>13 DEF total

LEMMA RunningStart ==
  ASSUME NEW amount, NEW P, \A i \in P : amount[i] \in Decimals, NEW precision \in Nat
  PROVE  RunningTotals(amount, P, precision)[0] = Decimal(0, 0)
<1> DEFINE total == RunningTotals(amount, P, precision)
<1>1. /\ total[0] = Decimal(0, 0)
      /\ \A n \in Nat : /\ total[n] \in Decimals
                        /\ total[n + 1] = IF n + 1 \in P
                                          THEN SumOf(total[n], amount[n + 1], precision)
                                          ELSE total[n]
  BY RunningFacts
<1> QED BY <1>1

-----------------------------------------------------------------------------
(* Exact sums of money *)

\* The amounts at P, each in units of 10^-s, added up.
InUnits(amount, P, s) == [i \in P |-> amount[i].coef * Tens[s - amount[i].scale]]
Units(amount, P, s) == SumFunctionOnSet(InUnits(amount, P, s), P)

LEMMA FinestFacts ==
  ASSUME NEW P, IsFiniteSet(P), NEW amount, \A i \in P : amount[i] \in Decimals
  PROVE  /\ Finest(amount, P) \in Nat
         /\ \A i \in P : amount[i].scale <= Finest(amount, P)
         /\ Finest(amount, P) = 0 \/ \E i \in P : Finest(amount, P) = amount[i].scale
<1> DEFINE scales(T) == {0} \cup {amount[i].scale : i \in T}
           F == {T \in SUBSET P : \E s \in scales(T) : \A i \in T : amount[i].scale <= s}
<1>0. \A i \in P : amount[i].scale \in Nat
  BY DEF Decimals
<1>1. {} \in F
  OBVIOUS
<1>2. ASSUME NEW T \in F, NEW x \in P \ T PROVE T \cup {x} \in F
  <2>1. PICK s \in scales(T) : \A i \in T : amount[i].scale <= s
    OBVIOUS
  <2>2. s \in Nat /\ amount[x].scale \in Nat
    BY <1>0
  <2>3. CASE s <= amount[x].scale
    <3>1. amount[x].scale \in scales(T \cup {x})
      OBVIOUS
    <3>2. \A i \in T \cup {x} : amount[i].scale <= amount[x].scale
      BY <1>0, <2>1, <2>2, <2>3
    <3> QED BY <3>1, <3>2
  <2>4. CASE amount[x].scale <= s
    <3>1. s \in scales(T \cup {x})
      BY <2>1
    <3>2. \A i \in T \cup {x} : amount[i].scale <= s
      BY <2>1, <2>4
    <3> QED BY <3>1, <3>2
  <2> QED BY <2>2, <2>3, <2>4
<1>3. P \in F
  <2>1. F \in SUBSET SUBSET P
    OBVIOUS
  <2> HIDE DEF F
  <2> QED BY <1>1, <1>2, <2>1, SetInduction
<1>4. \E s \in scales(P) : \A i \in P : amount[i].scale <= s
  BY <1>3
<1>5. /\ Finest(amount, P) \in scales(P)
      /\ \A i \in P : amount[i].scale <= Finest(amount, P)
  BY <1>4, Zenon DEF Finest
<1> QED BY <1>0, <1>5

LEMMA UnitsFacts ==
  ASSUME NEW P, IsFiniteSet(P), NEW amount, \A i \in P : amount[i] \in Decimals,
         NEW s \in Nat, \A i \in P : amount[i].scale <= s
  PROVE  /\ \A i \in P : /\ s - amount[i].scale \in Nat
                         /\ InUnits(amount, P, s)[i] = amount[i].coef * Tens[s - amount[i].scale]
                         /\ InUnits(amount, P, s)[i] \in Nat
         /\ Units(amount, P, s) \in Nat
<1>1. ASSUME NEW i \in P
      PROVE  /\ s - amount[i].scale \in Nat
             /\ InUnits(amount, P, s)[i] = amount[i].coef * Tens[s - amount[i].scale]
             /\ InUnits(amount, P, s)[i] \in Nat
  <2>1. amount[i].coef \in Nat /\ amount[i].scale \in Nat
    BY DEF Decimals
  <2>2. s - amount[i].scale \in Nat
    BY <2>1
  <2>3. Tens[s - amount[i].scale] \in Nat
    BY <2>2, TensFacts
  <2>4. InUnits(amount, P, s)[i] = amount[i].coef * Tens[s - amount[i].scale]
    BY DEF InUnits
  <2>5. \A a, b \in Nat : a * b \in Nat
    OBVIOUS
  <2> QED BY <2>1, <2>2, <2>3, <2>4, <2>5
<1>2. Units(amount, P, s) \in Nat
  BY <1>1, SumNat DEF Units
<1> QED BY <1>1, <1>2

LEMMA ExactMoneyFacts ==
  ASSUME NEW P, IsFiniteSet(P), NEW amount, \A i \in P : amount[i] \in Decimals
  PROVE  /\ ExactMoney(amount, P) \in Decimals
         /\ ExactMoney(amount, P).scale = Finest(amount, P)
         /\ ExactMoney(amount, P).coef = Units(amount, P, Finest(amount, P))
<1> DEFINE finest == Finest(amount, P)
<1>1. finest \in Nat /\ \A i \in P : amount[i].scale <= finest
  BY FinestFacts
<1>2. Units(amount, P, finest) \in Nat
  BY <1>1, UnitsFacts
<1>3. ExactMoney(amount, P) = Decimal(Units(amount, P, finest), finest)
  BY DEF ExactMoney, Units, InUnits, SumFunction
<1> QED BY <1>1, <1>2, <1>3, DecimalType

\* Finer units change the number of units, not the money.
LEMMA UnitsRefined ==
  ASSUME NEW P, IsFiniteSet(P), NEW amount, \A i \in P : amount[i] \in Decimals,
         NEW s \in Nat, Finest(amount, P) <= s
  PROVE  /\ s - Finest(amount, P) \in Nat /\ Tens[s - Finest(amount, P)] \in Nat
         /\ Tens[s - Finest(amount, P)] >= 1
         /\ Units(amount, P, s) = Tens[s - Finest(amount, P)] * ExactMoney(amount, P).coef
<1> DEFINE finest == Finest(amount, P)
           t == Tens[s - finest]
           f == InUnits(amount, P, finest)
           g == InUnits(amount, P, s)
<1>1. finest \in Nat /\ \A i \in P : amount[i].scale \in Nat /\ amount[i].scale <= finest
  BY FinestFacts DEF Decimals
<1>2. s - finest \in Nat /\ \A i \in P : amount[i].scale <= s
  BY <1>1
<1>3. t \in Nat /\ t >= 1
  BY <1>2, TensFacts
<1>4. ASSUME NEW i \in P PROVE f[i] \in Nat /\ g[i] = t * f[i]
  <2> DEFINE c == amount[i].coef
             k == finest - amount[i].scale
  <2>1. k \in Nat /\ f[i] = c * Tens[k] /\ f[i] \in Nat
    BY <1>1, UnitsFacts
  <2>2. s - amount[i].scale \in Nat /\ g[i] = c * Tens[s - amount[i].scale]
    BY <1>2, UnitsFacts
  <2>3. s - amount[i].scale = k + (s - finest)
    BY <1>1, <1>2
  <2>4. Tens[s - amount[i].scale] = Tens[k] * t
    BY <1>2, <2>1, <2>3, TensAdd
  <2>5. c \in Nat /\ Tens[k] \in Nat
    BY <2>1, TensFacts DEF Decimals
  <2> HIDE DEF t, c, k, f, g
  <2>6. \A x, y, z \in Nat : x * (y * z) = z * (x * y)
    OBVIOUS
  <2>7. c * (Tens[k] * t) = t * (c * Tens[k])
    BY <1>3, <2>5, <2>6
  <2> QED BY <2>1, <2>2, <2>4, <2>7
<1>5. SumFunctionOnSet(g, P) = t * SumFunctionOnSet(f, P)
  <2> HIDE DEF t, f, g
  <2> QED BY <1>3, <1>4, SumScaled
<1>6. ExactMoney(amount, P).coef = SumFunctionOnSet(f, P)
  BY ExactMoneyFacts DEF Units
<1> QED BY <1>2, <1>3, <1>5, <1>6 DEF Units

LEMMA ExactMoneyEmpty == \A amount : ExactMoney(amount, {}) = Decimal(0, 0)
<1> SUFFICES ASSUME NEW amount PROVE ExactMoney(amount, {}) = Decimal(0, 0)
  OBVIOUS
<1>1. Finest(amount, {}) = 0
  BY FinestFacts, FS_EmptySet
<1>2. Units(amount, {}, 0) = 0
  BY SumEmpty DEF Units
<1> QED BY <1>1, <1>2, ExactMoneyFacts, FS_EmptySet, DecimalType

\* One more amount is added as the code adds it, but for the rounding.
LEMMA ExactMoneyAdd ==
  ASSUME NEW P, IsFiniteSet(P), NEW i, i \notin P,
         NEW amount, \A j \in P \cup {i} : amount[j] \in Decimals,
         NEW c, c = ExactMoney(amount, P), NEW a, a = amount[i],
         NEW s, s = IF c.scale > a.scale THEN c.scale ELSE a.scale
  PROVE  ExactMoney(amount, P \cup {i}) =
           Decimal(c.coef * Tens[s - c.scale] + a.coef * Tens[s - a.scale], s)
<1> DEFINE Q == P \cup {i}
<1>0. IsFiniteSet(Q) /\ \A j \in Q : amount[j] \in Decimals
  BY FS_AddElement
<1>1. /\ \A j \in P : amount[j].scale \in Nat
      /\ a \in Decimals /\ a.scale \in Nat /\ a.coef \in Nat
  BY DEF Decimals
<1>2. /\ c \in Decimals /\ c.scale = Finest(amount, P) /\ c.scale \in Nat /\ c.coef \in Nat
      /\ \A j \in P : amount[j].scale <= c.scale
      /\ c.scale = 0 \/ \E j \in P : c.scale = amount[j].scale
  BY ExactMoneyFacts, FinestFacts DEF Decimals
<1>3. s \in Nat /\ c.scale <= s /\ a.scale <= s /\ (s = c.scale \/ s = a.scale)
  BY <1>1, <1>2
<1>4. Finest(amount, Q) = s
  <2> DEFINE r == Finest(amount, Q)
  <2>1. /\ r \in Nat /\ \A j \in Q : amount[j].scale <= r
        /\ r = 0 \/ \E j \in Q : r = amount[j].scale
    BY <1>0, FinestFacts
  <2> HIDE DEF r
  <2>2. a.scale <= r /\ c.scale <= r
    BY <1>2, <2>1
  <2>3. r <= c.scale \/ r <= a.scale
    BY <1>1, <1>2, <2>1
  <2>4. r = s
    BY <1>1, <1>2, <1>3, <2>1, <2>2, <2>3
  <2> QED BY <2>4 DEF r
<1>5. \A j \in Q : amount[j].scale <= s
  BY <1>0, <1>4, FinestFacts
<1>6. Units(amount, Q, s) = a.coef * Tens[s - a.scale] + Units(amount, P, s)
  <2> DEFINE g == InUnits(amount, Q, s)
             f == InUnits(amount, P, s)
  <2>1. (\A j \in Q : g[j] \in Nat) /\ g[i] = a.coef * Tens[s - a.scale]
    BY <1>0, <1>3, <1>5, UnitsFacts
  <2>2. \A j \in P : f[j] = g[j]
    BY DEF InUnits
  <2> HIDE DEF f, g
  <2>3. SumFunctionOnSet(g, P \cup {i}) = g[i] + SumFunctionOnSet(g, P)
    BY <2>1, SumAdd
  <2>4. SumFunctionOnSet(g, P) = SumFunctionOnSet(f, P)
    BY <2>1, <2>2, SumSame
  <2> QED BY <2>1, <2>3, <2>4 DEF Units, f, g
<1>7. Units(amount, P, s) = Tens[s - c.scale] * c.coef /\ Tens[s - c.scale] \in Nat
  BY <1>2, <1>3, UnitsRefined
<1>8. Tens[s - a.scale] \in Nat
  <2>1. s - a.scale \in Nat
    BY <1>1, <1>3
  <2> QED BY <2>1, TensFacts
<1>10. Units(amount, Q, s) = c.coef * Tens[s - c.scale] + a.coef * Tens[s - a.scale]
  <2>1. \A x, y, z, w \in Nat : x * y + w * z = z * w + x * y
    OBVIOUS
  <2> QED BY <1>1, <1>2, <1>6, <1>7, <1>8, <2>1
<1>11. /\ ExactMoney(amount, Q) \in Decimals /\ ExactMoney(amount, Q).scale = s
       /\ ExactMoney(amount, Q).coef = Units(amount, Q, s)
  BY <1>0, <1>4, ExactMoneyFacts
<1> HIDE DEF Q
<1>12. ExactMoney(amount, Q) = Decimal(Units(amount, Q, s), s)
  BY <1>11, DecimalType
<1> QED BY <1>10, <1>12 DEF Q

\* A part of the amounts is no finer and no more than all of them.
LEMMA ExactMoneyPart ==
  ASSUME NEW P, IsFiniteSet(P), NEW T \in SUBSET P,
         NEW amount, \A j \in P : amount[j] \in Decimals
  PROVE  /\ ExactMoney(amount, T).scale <= ExactMoney(amount, P).scale
         /\ ExactMoney(amount, T).coef <= ExactMoney(amount, P).coef
<1> DEFINE s == Finest(amount, P)
           r == Finest(amount, T)
<1>0. IsFiniteSet(T) /\ \A j \in T : amount[j] \in Decimals
  BY FS_Subset
<1>1. s \in Nat /\ \A j \in P : amount[j].scale \in Nat /\ amount[j].scale <= s
  BY FinestFacts DEF Decimals
<1>2. r \in Nat /\ (r = 0 \/ \E j \in T : r = amount[j].scale)
  BY <1>0, FinestFacts
<1>3. r <= s
  BY <1>1, <1>2
<1>4. /\ Units(amount, T, s) = Tens[s - r] * ExactMoney(amount, T).coef
      /\ Tens[s - r] \in Nat /\ Tens[s - r] >= 1
  BY <1>0, <1>1, <1>3, UnitsRefined
<1>5. Units(amount, T, s) <= Units(amount, P, s)
  <2> DEFINE g == InUnits(amount, P, s)
             f == InUnits(amount, T, s)
  <2>1. \A j \in P : g[j] \in Nat
    BY <1>1, UnitsFacts
  <2>2. \A j \in T : f[j] = g[j] /\ f[j] \in Nat
    BY <2>1 DEF InUnits
  <2> HIDE DEF f, g
  <2>3. SumFunctionOnSet(g, T) <= SumFunctionOnSet(g, P)
    BY <2>1, SumSubset
  <2>4. SumFunctionOnSet(f, T) = SumFunctionOnSet(g, T)
    BY <1>0, <2>2, SumSame
  <2> QED BY <2>3, <2>4 DEF Units, f, g
<1>6. /\ ExactMoney(amount, T).coef \in Nat /\ ExactMoney(amount, T).scale = r
      /\ ExactMoney(amount, P).scale = s /\ ExactMoney(amount, P).coef = Units(amount, P, s)
      /\ ExactMoney(amount, P).coef \in Nat
  BY <1>0, ExactMoneyFacts DEF Decimals
<1> HIDE DEF r, s
<1>7. \A a, b \in Nat : a >= 1 => b <= a * b
  <2> TAKE a, b \in Nat
  <2> HAVE a >= 1
  <2>1. b * 1 <= b * a
    BY TimesMonotone
  <2> QED BY <2>1
<1>8. ExactMoney(amount, T).coef <= Tens[s - r] * ExactMoney(amount, T).coef
  BY <1>4, <1>6, <1>7
<1>9. Tens[s - r] * ExactMoney(amount, T).coef \in Nat
  BY <1>4, <1>6
<1> QED BY <1>3, <1>4, <1>5, <1>6, <1>8, <1>9

LEMMA UptoFacts ==
  ASSUME NEW P, NEW n \in Nat
  PROVE  /\ IsFiniteSet(P \cap (1 .. n))
         /\ P \cap (1 .. 0) = {}
         /\ n + 1 \in P => /\ P \cap (1 .. n + 1) = (P \cap (1 .. n)) \cup {n + 1}
                           /\ n + 1 \notin P \cap (1 .. n)
         /\ n + 1 \notin P => P \cap (1 .. n + 1) = P \cap (1 .. n)
<1>1. IsFiniteSet(1 .. n)
  BY FS_Interval
<1>2. IsFiniteSet(P \cap (1 .. n))
  BY <1>1, FS_Intersection
<1>3. 1 .. n + 1 = (1 .. n) \cup {n + 1} /\ n + 1 \notin 1 .. n /\ 1 .. 0 = {}
  OBVIOUS
<1> QED BY <1>2, <1>3

\* As long as no total was refused, the running total is exact.
LEMMA RunningExact ==
  ASSUME NEW amount, NEW P, \A i \in P : Short(amount[i]),
         NEW precision \in Nat, precision >= 2 * MaxLength,
         NEW n \in Nat,
         \A m \in Nat : m < n => DecimalAccepted(RunningTotals(amount, P, precision)[m])
  PROVE  RunningTotals(amount, P, precision)[n] = ExactMoney(amount, P \cap (1 .. n))
<1> DEFINE total == RunningTotals(amount, P, precision)
           part(m) == P \cap (1 .. m)
           A == {m \in Nat : m <= n => total[m] = ExactMoney(amount, part(m))}
<1>0. \A i \in P : amount[i] \in Decimals
  BY DEF Short
<1>1. /\ total[0] = Decimal(0, 0)
      /\ \A m \in Nat : /\ total[m] \in Decimals
                        /\ total[m + 1] = IF m + 1 \in P
                                          THEN SumOf(total[m], amount[m + 1], precision)
                                          ELSE total[m]
  BY <1>0, RunningFacts
<1>2. \A m \in Nat : m < n => DecimalAccepted(total[m])
  OBVIOUS
<1> HIDE DEF total
<1>3. 0 \in A
  <2>1. part(0) = {}
    BY UptoFacts
  <2> QED BY <1>1, <2>1, ExactMoneyEmpty
<1>4. ASSUME NEW m \in A PROVE m + 1 \in A
  <2> SUFFICES ASSUME m + 1 <= n PROVE total[m + 1] = ExactMoney(amount, part(m + 1))
    OBVIOUS
  <2>1. m \in Nat /\ m < n /\ total[m] = ExactMoney(amount, part(m))
    OBVIOUS
  <2>2. CASE m + 1 \notin P
    <3>1. part(m + 1) = part(m)
      BY <2>1, <2>2, UptoFacts
    <3> QED BY <1>1, <2>1, <2>2, <3>1
  <2>3. CASE m + 1 \in P
    <3> DEFINE c == total[m]
               a == amount[m + 1]
               s == IF c.scale > a.scale THEN c.scale ELSE a.scale
    <3>1. /\ part(m + 1) = part(m) \cup {m + 1} /\ m + 1 \notin part(m)
          /\ IsFiniteSet(part(m)) /\ \A j \in part(m) \cup {m + 1} : amount[j] \in Decimals
      BY <1>0, <2>1, <2>3, UptoFacts
    <3>2. c \in Decimals /\ DecimalAccepted(c)
      BY <1>1, <1>2, <2>1
    <3>3. c.scale < MaxLength
      <4>1. c.scale = Finest(amount, part(m))
        BY <2>1, <3>1, ExactMoneyFacts
      <4>2. c.scale = 0 \/ \E j \in part(m) : c.scale = amount[j].scale
        BY <3>1, <4>1, FinestFacts
      <4>3. 0 < MaxLength /\ \A j \in part(m) : amount[j].scale < MaxLength
        BY UsageAssumption DEF Short
      <4> QED BY <4>2, <4>3
    <3>4. Short(c) /\ Short(a)
      BY <2>3, <3>2, <3>3, AcceptedShort
    <3>5. SumOf(c, a, precision) =
            Decimal(c.coef * Tens[s - c.scale] + a.coef * Tens[s - a.scale], s)
      <4> HIDE DEF c, a
      <4> QED BY <3>4, SumOfExact
    <3>6. ExactMoney(amount, part(m) \cup {m + 1}) =
            Decimal(c.coef * Tens[s - c.scale] + a.coef * Tens[s - a.scale], s)
      <4>1. c = ExactMoney(amount, part(m))
        BY <2>1
      <4> HIDE DEF part, c, a, s
      <4>2. a = amount[m + 1] /\ s = IF c.scale > a.scale THEN c.scale ELSE a.scale
        BY DEF a, s
      <4> QED BY <3>1, <4>1, <4>2, ExactMoneyAdd
    <3>7. total[m + 1] = SumOf(c, a, precision)
      BY <1>1, <2>1, <2>3
    <3> HIDE DEF s, c, a, part
    <3> QED BY <3>1, <3>5, <3>6, <3>7
  <2> QED BY <2>2, <2>3
<1>5. A = Nat
  <2>1. A \in SUBSET Nat
    OBVIOUS
  <2> HIDE DEF A
  <2> QED BY <1>3, <1>4, <2>1, Induction
<1>6. n \in A
  BY <1>5
<1>7. total[n] = ExactMoney(amount, part(n))
  BY <1>6
<1> QED BY <1>7 DEF total

\* A total is refused on the way exactly when the exact sum of all is too
\* long; otherwise the last total is that sum.
LEMMA RunningOverflow ==
  ASSUME NEW N \in Nat, NEW P \in SUBSET (1 .. N), NEW amount, \A i \in P : Short(amount[i]),
         NEW precision \in Nat, precision >= 2 * MaxLength
  PROVE  LET total == RunningTotals(amount, P, precision)
         IN  /\ (\A n \in 1 .. N : DecimalAccepted(total[n])) <=>
                  DecimalAccepted(ExactMoney(amount, P))
             /\ DecimalAccepted(ExactMoney(amount, P)) => total[N] = ExactMoney(amount, P)
<1> DEFINE total == RunningTotals(amount, P, precision)
<1>0. IsFiniteSet(P) /\ \A i \in P : amount[i] \in Decimals
  <2>1. IsFiniteSet(1 .. N)
    BY FS_Interval
  <2>2. IsFiniteSet(P)
    BY <2>1, FS_Subset
  <2> QED BY <2>2 DEF Short
<1>1. DecimalAccepted(total[0])
  <2>1. \A i \in P : amount[i] \in Decimals
    BY <1>0
  <2>2. total[0] = Decimal(0, 0)
    BY <2>1, RunningStart
  <2> HIDE DEF total
  <2> QED BY <2>2, ZeroAccepted
<1>2. \A n \in Nat : (\A m \in Nat : m < n => DecimalAccepted(total[m])) =>
                        total[n] = ExactMoney(amount, P \cap (1 .. n))
  BY RunningExact
<1> HIDE DEF total
<1>3. P \cap (1 .. N) = P
  OBVIOUS
<1>4. ASSUME \A n \in 1 .. N : DecimalAccepted(total[n])
      PROVE  total[N] = ExactMoney(amount, P) /\ DecimalAccepted(ExactMoney(amount, P))
  <2>1. \A m \in Nat : m <= N => DecimalAccepted(total[m])
    BY <1>1, <1>4
  <2>2. total[N] = ExactMoney(amount, P \cap (1 .. N))
    BY <1>2, <2>1
  <2> QED BY <1>3, <2>1, <2>2
<1>5. ASSUME \E n \in 1 .. N : ~ DecimalAccepted(total[n])
      PROVE  ~ DecimalAccepted(ExactMoney(amount, P))
  <2> DEFINE R == {n \in Nat : n <= N /\ ~ DecimalAccepted(total[n])}
  <2>1. R \in SUBSET Nat /\ R # {}
    BY <1>5
  <2>2. PICK n \in R : \A m \in R : n <= m
    <3> HIDE DEF R
    <3> QED BY <2>1, Least
  <2>3. n \in Nat /\ n <= N /\ ~ DecimalAccepted(total[n])
    OBVIOUS
  <2>4. \A m \in Nat : m < n => DecimalAccepted(total[m])
    BY <2>2, <2>3
  <2> DEFINE T == P \cap (1 .. n)
  <2>5. total[n] = ExactMoney(amount, T)
    BY <1>2, <2>3, <2>4
  <2>6. T \in SUBSET P /\ IsFiniteSet(T) /\ \A i \in T : amount[i] \in Decimals
    BY <1>0, FS_Subset
  <2> HIDE DEF T
  <2>7. /\ ExactMoney(amount, T).scale <= ExactMoney(amount, P).scale
        /\ ExactMoney(amount, T).coef <= ExactMoney(amount, P).coef
    BY <1>0, <2>6, ExactMoneyPart
  <2>8. ExactMoney(amount, T) \in Decimals /\ ExactMoney(amount, P) \in Decimals
    BY <1>0, <2>6, ExactMoneyFacts
  <2> QED BY <2>3, <2>5, <2>7, <2>8, AcceptedSmaller
<1>6. /\ (\A n \in 1 .. N : DecimalAccepted(total[n])) <=> DecimalAccepted(ExactMoney(amount, P))
      /\ DecimalAccepted(ExactMoney(amount, P)) => total[N] = ExactMoney(amount, P)
  BY <1>4, <1>5
<1> QED BY <1>6 DEF total

\* Integer totals: some sum on the way passes the bound exactly when the sum
\* of all does.
LEMMA IntegersExact ==
  ASSUME NEW N \in Nat, NEW f, DOMAIN f \in SUBSET (1 .. N), \A i \in DOMAIN f : f[i] \in Nat
  PROVE  /\ IntegersOverflow(f) <=> SumFunction(f) > MaxInteger
         /\ SumFunction(f) \in Nat
<1> DEFINE P == DOMAIN f
           sum(T) == SumFunctionOnSet(f, T)
           upto(i) == {j \in P : j <= i}
<1>0. IsFiniteSet(P)
  <2>1. IsFiniteSet(1 .. N)
    BY FS_Interval
  <2> QED BY <2>1, FS_Subset
<1>1. SumFunction(f) = sum(P)
  BY DEF SumFunction
<1>2. \A T \in SUBSET P : sum(T) \in Nat /\ sum(T) <= sum(P)
  <2> SUFFICES ASSUME NEW T \in SUBSET P PROVE sum(T) \in Nat /\ sum(T) <= sum(P)
    OBVIOUS
  <2>1. IsFiniteSet(T) /\ \A i \in T : f[i] \in Nat
    BY <1>0, FS_Subset
  <2>2. sum(T) \in Nat
    BY <2>1, SumNat
  <2>3. sum(T) <= sum(P)
    BY <1>0, SumSubset
  <2> QED BY <2>2, <2>3
<1>3. IntegersOverflow(f) <=> \E i \in P : sum(upto(i)) > MaxInteger
  BY DEF IntegersOverflow
<1>4. \A i \in P : upto(i) \in SUBSET P
  OBVIOUS
<1>5. P = {} => sum(P) = 0
  BY SumEmpty
<1>6. P # {} => \E i \in P : upto(i) = P
  <2> SUFFICES ASSUME P # {} PROVE \E i \in P : upto(i) = P
    OBVIOUS
  <2>1. P \in SUBSET (0 .. N)
    OBVIOUS
  <2>2. PICK i \in P : \A j \in P : j <= i
    BY <2>1, Greatest
  <2> QED BY <2>2
<1>7. sum(P) \in Nat /\ MaxInteger \in Nat
  BY <1>2, UsageAssumption
<1> HIDE DEF sum, upto, P
<1>8. ASSUME NEW i \in P, sum(upto(i)) > MaxInteger PROVE sum(P) > MaxInteger
  BY <1>2, <1>4, <1>7, <1>8
<1>9. ASSUME sum(P) > MaxInteger PROVE \E i \in P : sum(upto(i)) > MaxInteger
  <2>1. P # {}
    BY <1>5, <1>7, <1>9
  <2>2. PICK i \in P : upto(i) = P
    BY <2>1, <1>6
  <2>3. sum(upto(i)) = sum(P)
    BY <2>2, Zenon
  <2> QED BY <2>3, <1>9
<1> QED BY <1>1, <1>3, <1>7, <1>8, <1>9

-----------------------------------------------------------------------------
(* Selections *)

\* A selection all of whose records were accepted.
Sound(rs) ==
  /\ Len(rs) \in Nat /\ Len(rs) <= MaxRecords /\ DOMAIN rs = 1 .. Len(rs)
  /\ \A i \in DOMAIN rs :
       /\ IsRecord(rs[i]) /\ RecordAccepted(rs[i])
       /\ rs[i].cost.amount # None => Short(rs[i].cost.amount)

LEMMA SnapshotFacts ==
  ASSUME NEW r, IsRecord(r)
  PROVE  /\ IsRecord(SnapshotRecord(r))
         /\ SnapshotRecord(r).cost.amount # None /\ DecimalAccepted(SnapshotRecord(r).cost.amount)
              => Short(SnapshotRecord(r).cost.amount)
<1> DEFINE s == SnapshotRecord(r)
           a == r.cost.amount
<1>1. DOMAIN r = RecordFields /\ DOMAIN r.cost = CostFields /\ r.status \in Status
  BY DEF IsRecord
<1>2. a = None \/ a \in Decimals
  BY DEF IsRecord, Decimals
<1>3. /\ DOMAIN s = RecordFields /\ s.status = r.status /\ DOMAIN s.cost = CostFields
      /\ s.cost.amount = IF a = None THEN None ELSE Written(a)
  BY <1>1 DEF SnapshotRecord, RecordFields, CostFields
<1> HIDE DEF s, a
<1>4. s.cost.amount = None \/ s.cost.amount \in Decimals
  BY <1>2, <1>3, WrittenFacts
<1>5. IsRecord(s)
  BY <1>1, <1>3, <1>4 DEF IsRecord, Decimals
<1>6. ASSUME s.cost.amount # None, DecimalAccepted(s.cost.amount) PROVE Short(s.cost.amount)
  <2> DEFINE w == Written(a)
  <2>1. a \in Decimals /\ s.cost.amount = w
    BY <1>2, <1>3, <1>6
  <2>2. w \in Decimals /\ (w.coef = 0 => w.scale = 0)
    BY <2>1, WrittenFacts
  <2> HIDE DEF w
  <2>3. w.coef = 0 => w.scale < MaxLength
    BY <2>2, UsageAssumption
  <2>4. DecimalAccepted(w)
    BY <2>1, <1>6
  <2>5. Short(w)
    BY <2>2, <2>3, <2>4, AcceptedShort
  <2> QED BY <2>1, <2>5
<1> QED BY <1>5, <1>6 DEF s

LEMMA SelectionFacts ==
  ASSUME NEW q, IsRequest(q)
  PROVE  /\ Len(Selection(q)) = Len(q.records) /\ Len(q.records) \in Nat
         /\ DOMAIN Selection(q) = 1 .. Len(q.records)
         /\ ~ InvalidRequest(q) /\ (\A i \in DOMAIN Selection(q) : RecordAccepted(Selection(q)[i]))
              => Sound(Selection(q))
<1> DEFINE rs == Selection(q)
<1>1. /\ Len(q.records) \in Nat /\ DOMAIN q.records = 1 .. Len(q.records)
      /\ \A i \in DOMAIN q.records : IsRecord(q.records[i])
  BY DEF IsRequest
<1>2. rs = [i \in 1 .. Len(q.records) |-> SnapshotRecord(q.records[i])]
  BY <1>1 DEF Selection
<1>3. DOMAIN rs = 1 .. Len(q.records)
  BY <1>2
<1>4. Len(rs) = Len(q.records)
  BY <1>1, <1>2
<1>5. \A i \in DOMAIN rs : rs[i] = SnapshotRecord(q.records[i])
  BY <1>2
<1> HIDE DEF rs
<1>6. ASSUME ~ InvalidRequest(q), \A i \in DOMAIN rs : RecordAccepted(rs[i]) PROVE Sound(rs)
  <2>1. Len(q.records) <= MaxRecords
    BY <1>6, <1>1, SummaryAssumption DEF InvalidRequest
  <2>2. ASSUME NEW i \in DOMAIN rs
        PROVE  /\ IsRecord(rs[i]) /\ RecordAccepted(rs[i])
               /\ rs[i].cost.amount # None => Short(rs[i].cost.amount)
    <3>1. IsRecord(q.records[i]) /\ rs[i] = SnapshotRecord(q.records[i])
      BY <1>1, <1>3, <1>5
    <3>2. RecordAccepted(rs[i])
      BY <1>6
    <3>3. rs[i].cost.amount # None => DecimalAccepted(rs[i].cost.amount)
      BY <3>2 DEF RecordAccepted, CostEvidenceAccepted
    <3> QED BY <3>1, <3>2, <3>3, SnapshotFacts
  <2> QED BY <1>1, <1>3, <1>4, <2>1, <2>2 DEF Sound
<1> QED BY <1>1, <1>3, <1>4, <1>6 DEF rs

-----------------------------------------------------------------------------
(* Overflow *)

\* An exact sum over the positions P passes its bound.
TooMuch(rs, P) ==
  \/ SumFunction(Durations(rs, P)) > MaxInteger
  \/ \E f \in TokenField : SumFunction(Tokens(rs, P, f)) > MaxInteger
  \/ \E identity \in CostIdentities(rs, P) :
       /\ identity.cost_type \in Monetary
       /\ ~ DecimalAccepted(ExactMoney(Amounts(rs), Sharing(rs, P, identity)))

LEMMA IntegerFields ==
  ASSUME NEW rs, Sound(rs), NEW P \in SUBSET DOMAIN rs
  PROVE  /\ DOMAIN Durations(rs, P) = P
         /\ \A i \in P : Durations(rs, P)[i] = rs[i].duration_ms /\ rs[i].duration_ms \in Nat
         /\ \A f \in TokenField :
              /\ DOMAIN Tokens(rs, P, f) = {i \in P : f \in DOMAIN rs[i].usage.tokens}
              /\ \A i \in DOMAIN Tokens(rs, P, f) :
                   /\ Tokens(rs, P, f)[i] = rs[i].usage.tokens[f]
                   /\ rs[i].usage.tokens[f] \in Nat
<1>1. \A i \in P : RecordAccepted(rs[i])
  BY DEF Sound
<1>2. \A i \in P : rs[i].duration_ms \in 0 .. MaxInteger
  BY <1>1 DEF RecordAccepted
<1>3. \A i \in P : \A f \in DOMAIN rs[i].usage.tokens : rs[i].usage.tokens[f] \in 0 .. MaxInteger
  BY <1>1 DEF RecordAccepted, TokenUsageAccepted
<1> QED BY <1>2, <1>3, UsageAssumption DEF Durations, Tokens

LEMMA IntegersOfPart ==
  ASSUME NEW rs, Sound(rs), NEW P \in SUBSET DOMAIN rs
  PROVE  /\ IntegersOverflow(Durations(rs, P)) <=> SumFunction(Durations(rs, P)) > MaxInteger
         /\ SumFunction(Durations(rs, P)) \in Nat
         /\ SumFunction(Durations(rs, P)) <= SumFunction(Durations(rs, DOMAIN rs))
         /\ \A f \in TokenField :
              /\ IntegersOverflow(Tokens(rs, P, f)) <=> SumFunction(Tokens(rs, P, f)) > MaxInteger
              /\ SumFunction(Tokens(rs, P, f)) \in Nat
              /\ SumFunction(Tokens(rs, P, f)) <= SumFunction(Tokens(rs, DOMAIN rs, f))
<1>1. Len(rs) \in Nat /\ DOMAIN rs = 1 .. Len(rs) /\ IsFiniteSet(1 .. Len(rs))
  BY FS_Interval DEF Sound
<1>2. ASSUME NEW f, NEW g, DOMAIN f \in SUBSET DOMAIN g, DOMAIN g \in SUBSET DOMAIN rs,
             \A i \in DOMAIN g : g[i] \in Nat, \A i \in DOMAIN f : f[i] = g[i]
      PROVE  /\ IntegersOverflow(f) <=> SumFunction(f) > MaxInteger
             /\ SumFunction(f) \in Nat /\ SumFunction(f) <= SumFunction(g)
  <2>1. (IntegersOverflow(f) <=> SumFunction(f) > MaxInteger) /\ SumFunction(f) \in Nat
    BY <1>1, <1>2, IntegersExact
  <2>2. IsFiniteSet(DOMAIN g) /\ IsFiniteSet(DOMAIN f)
    BY <1>1, <1>2, FS_Subset
  <2>3. SumFunctionOnSet(g, DOMAIN f) <= SumFunctionOnSet(g, DOMAIN g)
    BY <1>2, <2>2, SumSubset
  <2>4. SumFunctionOnSet(f, DOMAIN f) = SumFunctionOnSet(g, DOMAIN f)
    BY <1>2, <2>2, SumSame
  <2> QED BY <2>1, <2>3, <2>4 DEF SumFunction
<1>3. /\ IntegersOverflow(Durations(rs, P)) <=> SumFunction(Durations(rs, P)) > MaxInteger
      /\ SumFunction(Durations(rs, P)) \in Nat
      /\ SumFunction(Durations(rs, P)) <= SumFunction(Durations(rs, DOMAIN rs))
  <2> DEFINE f == Durations(rs, P)
             g == Durations(rs, DOMAIN rs)
  <2>1. DOMAIN f = P /\ \A i \in P : f[i] = rs[i].duration_ms
    BY IntegerFields
  <2>2. DOMAIN g = DOMAIN rs /\ \A i \in DOMAIN rs : g[i] = rs[i].duration_ms /\ g[i] \in Nat
    BY IntegerFields
  <2> HIDE DEF f, g
  <2>3. /\ DOMAIN f \in SUBSET DOMAIN g /\ DOMAIN g \in SUBSET DOMAIN rs
        /\ \A i \in DOMAIN g : g[i] \in Nat
        /\ \A i \in DOMAIN f : f[i] = g[i]
    BY <2>1, <2>2
  <2>4. /\ IntegersOverflow(f) <=> SumFunction(f) > MaxInteger
        /\ SumFunction(f) \in Nat /\ SumFunction(f) <= SumFunction(g)
    BY <1>2, <2>3
  <2> QED BY <2>4 DEF f, g
<1>4. ASSUME NEW field \in TokenField
      PROVE  /\ IntegersOverflow(Tokens(rs, P, field)) <=> SumFunction(Tokens(rs, P, field)) > MaxInteger
             /\ SumFunction(Tokens(rs, P, field)) \in Nat
             /\ SumFunction(Tokens(rs, P, field)) <= SumFunction(Tokens(rs, DOMAIN rs, field))
  <2>0. \A Q \in SUBSET DOMAIN rs :
          /\ DOMAIN Tokens(rs, Q, field) = {i \in Q : field \in DOMAIN rs[i].usage.tokens}
          /\ \A i \in DOMAIN Tokens(rs, Q, field) :
               /\ Tokens(rs, Q, field)[i] = rs[i].usage.tokens[field]
               /\ rs[i].usage.tokens[field] \in Nat
    BY IntegerFields, Zenon
  <2> DEFINE f == Tokens(rs, P, field)
             g == Tokens(rs, DOMAIN rs, field)
  <2>1. /\ DOMAIN f = {i \in P : field \in DOMAIN rs[i].usage.tokens}
        /\ \A i \in DOMAIN f : f[i] = rs[i].usage.tokens[field]
    BY <2>0, Zenon
  <2>2. /\ DOMAIN g = {i \in DOMAIN rs : field \in DOMAIN rs[i].usage.tokens}
        /\ \A i \in DOMAIN g : g[i] = rs[i].usage.tokens[field] /\ g[i] \in Nat
    <3>1. DOMAIN rs \in SUBSET DOMAIN rs
      OBVIOUS
    <3> QED BY <2>0, <3>1
  <2> HIDE DEF f, g
  <2>3. /\ DOMAIN f \in SUBSET DOMAIN g /\ DOMAIN g \in SUBSET DOMAIN rs
        /\ \A i \in DOMAIN g : g[i] \in Nat
        /\ \A i \in DOMAIN f : f[i] = g[i]
    BY <2>1, <2>2
  <2>4. /\ IntegersOverflow(f) <=> SumFunction(f) > MaxInteger
        /\ SumFunction(f) \in Nat /\ SumFunction(f) <= SumFunction(g)
    BY <1>2, <2>3
  <2> QED BY <2>4 DEF f, g
<1> QED BY <1>3, <1>4

\* The positions of one monetary identity, and their amounts.
LEMMA SharingFacts ==
  ASSUME NEW rs, Sound(rs), NEW P \in SUBSET DOMAIN rs, NEW identity, identity.cost_type \in Monetary
  PROVE  /\ Sharing(rs, P, identity) \in SUBSET P
         /\ IsFiniteSet(Sharing(rs, P, identity))
         /\ \A i \in Sharing(rs, P, identity) :
              /\ Amounts(rs)[i] = rs[i].cost.amount
              /\ Short(Amounts(rs)[i]) /\ Amounts(rs)[i] \in Decimals
<1>1. Len(rs) \in Nat /\ DOMAIN rs = 1 .. Len(rs) /\ IsFiniteSet(1 .. Len(rs))
  BY FS_Interval DEF Sound
<1>2. Sharing(rs, P, identity) \in SUBSET P
  BY DEF Sharing
<1>3. IsFiniteSet(Sharing(rs, P, identity))
  BY <1>1, <1>2, FS_Subset
<1>4. ASSUME NEW i \in Sharing(rs, P, identity)
      PROVE  Amounts(rs)[i] = rs[i].cost.amount /\ Short(rs[i].cost.amount)
  <2>1. i \in DOMAIN rs /\ CostIdentity(rs[i].cost) = identity
    BY DEF Sharing
  <2>2. DOMAIN rs[i].cost = CostFields
    BY <2>1 DEF Sound, IsRecord
  <2>3. rs[i].cost.cost_type = identity.cost_type
    BY <2>1, <2>2 DEF CostIdentity, CostFields
  <2>4. rs[i].cost.amount # None
    BY <2>1, <2>3 DEF Sound, RecordAccepted, CostEvidenceAccepted, CostIdentityAccepted
  <2> QED BY <2>1, <2>4 DEF Sound, Amounts
<1> QED BY <1>2, <1>3, <1>4 DEF Short

\* The totals of one monetary identity are exact unless they pass the bound.
LEMMA MoneyExact ==
  ASSUME NEW rs, Sound(rs), NEW P \in SUBSET DOMAIN rs, NEW identity, identity.cost_type \in Monetary,
         NEW T, T = Sharing(rs, P, identity)
  PROVE  /\ ExactMoney(Amounts(rs), T) \in Decimals
         /\ MoneyOverflows(rs, T) <=> ~ DecimalAccepted(ExactMoney(Amounts(rs), T))
         /\ ~ MoneyOverflows(rs, T) => Money(rs, T)[Len(rs)] = ExactMoney(Amounts(rs), T)
<1>1. Len(rs) \in Nat /\ DOMAIN rs = 1 .. Len(rs)
  BY DEF Sound
<1>2. /\ T \in SUBSET (1 .. Len(rs)) /\ IsFiniteSet(T)
      /\ \A i \in T : Short(Amounts(rs)[i]) /\ Amounts(rs)[i] \in Decimals
  BY <1>1, SharingFacts
<1>3. Precision \in Nat /\ Precision >= 2 * MaxLength
  BY SummaryAssumption
<1>4. /\ (\A n \in 1 .. Len(rs) : DecimalAccepted(Money(rs, T)[n])) <=>
           DecimalAccepted(ExactMoney(Amounts(rs), T))
      /\ DecimalAccepted(ExactMoney(Amounts(rs), T)) => Money(rs, T)[Len(rs)] = ExactMoney(Amounts(rs), T)
  BY <1>1, <1>2, <1>3, RunningOverflow DEF Money
<1> QED BY <1>1, <1>2, <1>4, ExactMoneyFacts DEF MoneyOverflows

LEMMA MoneyOfPart ==
  ASSUME NEW rs, Sound(rs), NEW P \in SUBSET DOMAIN rs, NEW identity, identity.cost_type \in Monetary,
         DecimalAccepted(ExactMoney(Amounts(rs), Sharing(rs, DOMAIN rs, identity)))
  PROVE  DecimalAccepted(ExactMoney(Amounts(rs), Sharing(rs, P, identity)))
<1> DEFINE T == Sharing(rs, P, identity)
           U == Sharing(rs, DOMAIN rs, identity)
           amount == Amounts(rs)
<1>1. T \in SUBSET U
  BY DEF Sharing
<1>2. IsFiniteSet(U) /\ \A i \in U : amount[i] \in Decimals
  BY SharingFacts
<1>3. ExactMoney(amount, U) \in Decimals /\ ExactMoney(amount, T) \in Decimals
  BY MoneyExact
<1>4. DecimalAccepted(ExactMoney(amount, U))
  OBVIOUS
<1> HIDE DEF T, U, amount
<1>5. /\ ExactMoney(amount, T).scale <= ExactMoney(amount, U).scale
      /\ ExactMoney(amount, T).coef <= ExactMoney(amount, U).coef
  BY <1>1, <1>2, ExactMoneyPart
<1>6. DecimalAccepted(ExactMoney(amount, T))
  BY <1>3, <1>4, <1>5, AcceptedSmaller
<1> QED BY <1>6 DEF T, amount

\* The code's checks of the sums on the way are a check of the exact sums,
\* and what passes for the whole passes for every group.
LEMMA OverflowExact ==
  ASSUME NEW rs, Sound(rs), NEW P \in SUBSET DOMAIN rs
  PROVE  /\ Overflows(rs, P) <=> TooMuch(rs, P)
         /\ TooMuch(rs, P) => TooMuch(rs, DOMAIN rs)
<1>1. IntegersOverflow(Durations(rs, P)) <=> SumFunction(Durations(rs, P)) > MaxInteger
  BY IntegersOfPart
<1>2. \A f \in TokenField :
        IntegersOverflow(Tokens(rs, P, f)) <=> SumFunction(Tokens(rs, P, f)) > MaxInteger
  BY IntegersOfPart
<1>3. \A identity \in CostIdentities(rs, P) : identity.cost_type \in Monetary =>
        (MoneyOverflows(rs, Sharing(rs, P, identity)) <=>
           ~ DecimalAccepted(ExactMoney(Amounts(rs), Sharing(rs, P, identity))))
  BY MoneyExact
<1>4. Overflows(rs, P) <=> TooMuch(rs, P)
  BY <1>1, <1>2, <1>3, Zenon DEF Overflows, TooMuch
<1>5. DOMAIN rs \in SUBSET DOMAIN rs
  OBVIOUS
<1>6. SumFunction(Durations(rs, P)) > MaxInteger =>
        SumFunction(Durations(rs, DOMAIN rs)) > MaxInteger
  BY <1>5, IntegersOfPart, UsageAssumption
<1>7. \A f \in TokenField : SumFunction(Tokens(rs, P, f)) > MaxInteger =>
        SumFunction(Tokens(rs, DOMAIN rs, f)) > MaxInteger
  BY <1>5, IntegersOfPart, UsageAssumption
<1>8. \A identity \in CostIdentities(rs, P) : identity \in CostIdentities(rs, DOMAIN rs)
  BY DEF CostIdentities
<1>9. \A identity : /\ identity.cost_type \in Monetary
                    /\ ~ DecimalAccepted(ExactMoney(Amounts(rs), Sharing(rs, P, identity)))
        => ~ DecimalAccepted(ExactMoney(Amounts(rs), Sharing(rs, DOMAIN rs, identity)))
  BY MoneyOfPart
<1>10. TooMuch(rs, P) => TooMuch(rs, DOMAIN rs)
  BY <1>6, <1>7, <1>8, <1>9, Zenon DEF TooMuch
<1> QED BY <1>4, <1>10

-----------------------------------------------------------------------------
(* Totals are exact *)

Groups(rs) == [key \in GroupKeys(rs) |-> Metrics(rs, GroupPositions(rs, key))]

\* Which checks an answer has passed.
LEMMA Answers ==
  ASSUME NEW q, IsRequest(q), NEW rs, rs = Selection(q)
  PROVE  LET answer == Summarize(q)
         IN  /\ answer.code = "aggregate_overflow" => Sound(rs) /\ TooMuch(rs, DOMAIN rs)
             /\ answer.code \in {"summary", "contract_error"} =>
                  /\ Sound(rs) /\ ~ TooMuch(rs, DOMAIN rs)
                  /\ ~ Duplicate(rs)
                  /\ answer = Build(Metrics(rs, DOMAIN rs), Groups(rs))
<1> DEFINE overflow == \/ Overflows(rs, DOMAIN rs)
                       \/ \E key \in GroupKeys(rs) : Overflows(rs, GroupPositions(rs, key))
           built == Build(Metrics(rs, DOMAIN rs), Groups(rs))
           invalid == \E i \in DOMAIN rs : ~ RecordAccepted(rs[i])
           mixed == \E i \in DOMAIN rs : rs[i][q.scope] # q.scope_id
           answer == Summarize(q)
<1>1. answer = IF InvalidRequest(q) THEN Refusal("invalid_request")
               ELSE IF invalid THEN Refusal("invalid_record")
               ELSE IF Duplicate(rs) THEN Refusal("duplicate_invocation")
               ELSE IF mixed THEN Refusal("correlation_mismatch")
               ELSE IF overflow THEN Refusal("aggregate_overflow")
               ELSE built
  BY Zenon DEF Summarize, Groups
<1>2. ~ InvalidRequest(q) /\ ~ invalid => Sound(rs)
  BY SelectionFacts
<1>3. Sound(rs) => (overflow <=> TooMuch(rs, DOMAIN rs))
  <2> SUFFICES ASSUME Sound(rs) PROVE overflow <=> TooMuch(rs, DOMAIN rs)
    OBVIOUS
  <2>1. \A key : GroupPositions(rs, key) \in SUBSET DOMAIN rs
    BY DEF GroupPositions
  <2>2. \A P \in SUBSET DOMAIN rs : (Overflows(rs, P) => TooMuch(rs, DOMAIN rs))
    BY OverflowExact, Zenon
  <2>3. Overflows(rs, DOMAIN rs) <=> TooMuch(rs, DOMAIN rs)
    BY OverflowExact
  <2> QED BY <2>1, <2>2, <2>3
<1>4. built.code \in {"summary", "contract_error"}
  BY DEF Build, Refusal
<1>5. \A code : Refusal(code).code = code
  BY DEF Refusal
<1> HIDE DEF overflow, built, invalid, mixed, answer
<1>6. ASSUME answer.code = "aggregate_overflow" PROVE Sound(rs) /\ TooMuch(rs, DOMAIN rs)
  BY <1>1, <1>2, <1>3, <1>4, <1>5, <1>6
<1>7. ASSUME answer.code \in {"summary", "contract_error"}
      PROVE  ~ InvalidRequest(q) /\ ~ invalid /\ ~ Duplicate(rs) /\ ~ overflow /\ answer = built
  BY <1>1, <1>5, <1>7
<1> QED BY <1>2, <1>3, <1>6, <1>7 DEF answer, built

\* Dropping zeros keeps the value.
LEMMA WrittenSame == \A d \in Decimals : SameValue(Written(d), d)
<1> SUFFICES ASSUME NEW d \in Decimals PROVE SameValue(Written(d), d)
  OBVIOUS
<1> DEFINE w == Written(d)
<1>1. /\ w.coef \in Nat /\ w.scale \in Nat /\ w.scale <= d.scale /\ d.scale \in Nat
      /\ d.coef = w.coef * Tens[d.scale - w.scale]
  BY WrittenFacts DEF Decimals
<1> HIDE DEF w
<1>2. d.scale - w.scale \in Nat /\ Tens[d.scale] = Tens[w.scale] * Tens[d.scale - w.scale]
  BY <1>1, TensSplit
<1>3. Tens[w.scale] \in Nat /\ Tens[d.scale - w.scale] \in Nat
  BY <1>1, <1>2, TensFacts
<1>4. \A x, y, z \in Nat : x * (y * z) = (x * z) * y
  OBVIOUS
<1>5. w.coef * (Tens[w.scale] * Tens[d.scale - w.scale]) =
        (w.coef * Tens[d.scale - w.scale]) * Tens[w.scale]
  BY <1>1, <1>3, <1>4
<1>6. w.coef * Tens[d.scale] = d.coef * Tens[w.scale]
  BY <1>1, <1>2, <1>5
<1> QED BY <1>6 DEF SameValue, w

LEMMA AmountsOfPart ==
  ASSUME NEW rs, Sound(rs), NEW P \in SUBSET DOMAIN rs, ~ TooMuch(rs, P)
  PROVE  AmountsExact(rs, P, Snapshot(Metrics(rs, P)))
<1> DEFINE m == Metrics(rs, P)
<1>1. /\ DOMAIN Snapshot(m).costs = CostIdentities(rs, P)
      /\ \A identity \in CostIdentities(rs, P) :
           Snapshot(m).costs[identity].amount =
             LET amount == Bucket(rs, Sharing(rs, P, identity), identity).amount
             IN IF amount = None THEN None ELSE Written(amount)
  BY DEF Metrics, Snapshot, SnapshotBucket, Bucket
<1> HIDE DEF m
<1>2. ASSUME NEW identity \in CostIdentities(rs, P), Snapshot(m).costs[identity].amount # None
      PROVE  SameValue(Snapshot(m).costs[identity].amount,
                       ExactMoney(Amounts(rs), Sharing(rs, P, identity)))
  <2> DEFINE T == Sharing(rs, P, identity)
             b == Bucket(rs, T, identity).amount
  <2>1. b = IF identity.cost_type \in Monetary THEN Money(rs, T)[Len(rs)] ELSE None
    BY DEF Bucket
  <2>2. b # None /\ Snapshot(m).costs[identity].amount = Written(b)
    BY <1>1, <1>2
  <2>3. identity.cost_type \in Monetary /\ b = Money(rs, T)[Len(rs)]
    BY <2>1, <2>2
  <2>4. DecimalAccepted(ExactMoney(Amounts(rs), T))
    BY <2>3 DEF TooMuch
  <2>5. ExactMoney(Amounts(rs), T) \in Decimals /\ b = ExactMoney(Amounts(rs), T)
    BY <2>3, <2>4, MoneyExact
  <2> HIDE DEF b, T
  <2>6. SameValue(Written(b), ExactMoney(Amounts(rs), T))
    BY <2>5, WrittenSame
  <2> QED BY <2>2, <2>6 DEF T
<1>3. \A identity \in DOMAIN Snapshot(m).costs : Snapshot(m).costs[identity].amount # None =>
        SameValue(Snapshot(m).costs[identity].amount,
                  ExactMoney(Amounts(rs), Sharing(rs, P, identity)))
  BY <1>1, <1>2
<1> QED BY <1>3, Zenon DEF AmountsExact, m

\* What a call can answer.
LEMMA TotalsExactAnswer ==
  ASSUME NEW q, IsRequest(q), NEW rs, rs = Selection(q), NEW answer, answer = Summarize(q)
  PROVE  /\ answer.code = "aggregate_overflow" => ExactlyTooMuch(rs)
         /\ answer.code \in {"summary", "contract_error"} => ~ ExactlyTooMuch(rs)
         /\ answer.code = "summary" =>
              /\ AmountsExact(rs, DOMAIN rs, answer.summary.metrics)
              /\ \A key \in DOMAIN answer.summary.groups :
                   AmountsExact(rs, GroupPositions(rs, key), answer.summary.groups[key])
<1>1. ExactlyTooMuch(rs) <=> TooMuch(rs, DOMAIN rs)
  BY Zenon DEF ExactlyTooMuch, TooMuch
<1>2. answer.code = "aggregate_overflow" => ExactlyTooMuch(rs)
  BY <1>1, Answers
<1>3. answer.code \in {"summary", "contract_error"} => ~ ExactlyTooMuch(rs)
  BY <1>1, Answers
<1>4. ASSUME answer.code = "summary"
      PROVE  /\ AmountsExact(rs, DOMAIN rs, answer.summary.metrics)
             /\ \A key \in DOMAIN answer.summary.groups :
                  AmountsExact(rs, GroupPositions(rs, key), answer.summary.groups[key])
  <2>1. /\ Sound(rs) /\ ~ TooMuch(rs, DOMAIN rs)
        /\ answer = Build(Metrics(rs, DOMAIN rs), Groups(rs))
    BY <1>4, Answers
  <2>2. /\ answer.summary.metrics = Snapshot(Metrics(rs, DOMAIN rs))
        /\ answer.summary.groups = [key \in DOMAIN Groups(rs) |-> Snapshot(Groups(rs)[key])]
    BY <1>4, <2>1 DEF Build, Refusal
  <2>3. /\ DOMAIN answer.summary.groups = GroupKeys(rs)
        /\ \A key \in GroupKeys(rs) :
             answer.summary.groups[key] = Snapshot(Metrics(rs, GroupPositions(rs, key)))
    BY <2>2 DEF Groups
  <2>4. \A P \in SUBSET DOMAIN rs : AmountsExact(rs, P, Snapshot(Metrics(rs, P)))
    BY <2>1, OverflowExact, AmountsOfPart
  <2>5. \A key : GroupPositions(rs, key) \in SUBSET DOMAIN rs
    BY DEF GroupPositions
  <2>6. DOMAIN rs \in SUBSET DOMAIN rs
    OBVIOUS
  <2> QED BY <2>2, <2>3, <2>4, <2>5, <2>6
<1> QED BY <1>2, <1>3, <1>4

\* Requests are the constant's, and an answer is the one of the request.
Answered == /\ request \in Requests
            /\ outcome # None => outcome = Summarize(request)

LEMMA AnsweredAlways == Spec => []Answered
<1>1. Init => Answered
  BY DEF Init, Answered
<1>2. Answered /\ [Call]_vars => Answered'
  BY DEF Answered, Call, vars
<1> QED BY <1>1, <1>2, PTL DEF Spec

\* An overflow is reported exactly when an exact sum of the selection passes
\* its bound, and the amounts of a summary and of its groups are exact
\* (_add_integer, _add_decimal and the checks of summarize): however many
\* records there are, in whatever order, with whatever scales.
THEOREM TotalsAlwaysExact == Spec => []TotalsExact
<1>1. Answered => TotalsExact
  <2> SUFFICES ASSUME Answered, outcome # None
               PROVE  LET rs == Selection(request)
                      IN /\ outcome.code = "aggregate_overflow" => ExactlyTooMuch(rs)
                         /\ outcome.code \in {"summary", "contract_error"} => ~ ExactlyTooMuch(rs)
                         /\ outcome.code = "summary" =>
                              /\ AmountsExact(rs, DOMAIN rs, outcome.summary.metrics)
                              /\ \A key \in DOMAIN outcome.summary.groups :
                                   AmountsExact(rs, GroupPositions(rs, key),
                                                outcome.summary.groups[key])
    BY Zenon DEF TotalsExact
  <2>1. IsRequest(request) /\ outcome = Summarize(request)
    BY RequestAssumption DEF Answered
  <2> QED BY <2>1, TotalsExactAnswer
<1> QED BY <1>1, AnsweredAlways, PTL

-----------------------------------------------------------------------------
(* The order of the records does not matter *)

Image(order, T) == {order[i] : i \in T}

\* us lists the records of rs in another order.
Reordered(rs, us, order) ==
  /\ Len(rs) \in Nat /\ Len(us) = Len(rs)
  /\ DOMAIN rs = 1 .. Len(rs) /\ DOMAIN us = 1 .. Len(rs)
  /\ \A i \in DOMAIN rs : order[i] \in DOMAIN rs /\ us[i] = rs[order[i]]
  /\ \A i, j \in DOMAIN rs : order[i] = order[j] => i = j
  /\ \A k \in DOMAIN rs : \E i \in DOMAIN rs : order[i] = k

LEMMA ImageFacts ==
  ASSUME NEW S, IsFiniteSet(S), NEW order, \A x, y \in S : order[x] = order[y] => x = y
  PROVE  /\ IsFiniteSet(Image(order, S))
         /\ Cardinality(Image(order, S)) = Cardinality(S)
<1> DEFINE f == [x \in S |-> order[x]]
           T == Image(order, S)
<1>1. f \in [S -> T] /\ (\A x, y \in S : f[x] = f[y] => x = y) /\ \A t \in T : \E x \in S : f[x] = t
  BY DEF Image
<1> HIDE DEF f, T
<1>2. f \in Bijection(S, T)
  BY <1>1 DEF Bijection, Injection, Surjection, IsInjective
<1>3. ExistsBijection(S, T)
  BY <1>2 DEF ExistsBijection
<1>4. IsFiniteSet(T) /\ Cardinality(T) = Cardinality(S)
  BY <1>3, FS_Bijection
<1> QED BY <1>4 DEF T

\* A listing of 1 .. n without repetition misses nothing.
LEMMA ListingFacts ==
  ASSUME NEW n \in Nat, NEW order \in SetToSeqs(1 .. n)
  PROVE  /\ DOMAIN order = 1 .. n
         /\ \A i \in 1 .. n : order[i] \in 1 .. n
         /\ \A i, j \in 1 .. n : order[i] = order[j] => i = j
         /\ \A k \in 1 .. n : \E i \in 1 .. n : order[i] = k
<1>1. IsFiniteSet(1 .. n) /\ Cardinality(1 .. n) = n
  BY FS_Interval
<1>2. order \in [1 .. n -> 1 .. n] /\ \A i, j \in 1 .. n : i # j => order[i] # order[j]
  BY <1>1 DEF SetToSeqs
<1>3. Image(order, 1 .. n) \in SUBSET (1 .. n)
  BY <1>2 DEF Image
<1>4. Cardinality(Image(order, 1 .. n)) = n
  BY <1>1, <1>2, ImageFacts
<1>5. Image(order, 1 .. n) = 1 .. n
  BY <1>1, <1>3, <1>4, FS_Subset
<1>6. \A k \in 1 .. n : \E i \in 1 .. n : order[i] = k
  BY <1>5 DEF Image
<1> QED BY <1>2, <1>6

LEMMA PositionsFinite ==
  ASSUME NEW rs, Len(rs) \in Nat, DOMAIN rs = 1 .. Len(rs)
  PROVE  IsFiniteSet(DOMAIN rs) /\ \A P \in SUBSET DOMAIN rs : IsFiniteSet(P)
<1>1. IsFiniteSet(1 .. Len(rs))
  BY FS_Interval
<1> QED BY <1>1, FS_Subset

\* Counting and adding up over the records that moved.
LEMMA ReorderedSums ==
  ASSUME NEW rs, NEW us, NEW order, Reordered(rs, us, order), NEW T \in SUBSET DOMAIN rs
  PROVE  /\ Image(order, T) \in SUBSET DOMAIN rs
         /\ Cardinality(Image(order, T)) = Cardinality(T)
         /\ T = {} <=> Image(order, T) = {}
         /\ \A f, g : (\A i \in T : g[i] \in Nat /\ g[i] = f[order[i]]) =>
              SumFunctionOnSet(g, T) = SumFunctionOnSet(f, Image(order, T))
<1>1. Image(order, T) \in SUBSET DOMAIN rs /\ (T = {} <=> Image(order, T) = {})
  <2>1. \A i \in T : order[i] \in DOMAIN rs
    BY DEF Reordered
  <2> QED BY <2>1 DEF Image
<1>2. IsFiniteSet(T) /\ \A i, j \in T : order[i] = order[j] => i = j
  BY PositionsFinite DEF Reordered
<1>3. Cardinality(Image(order, T)) = Cardinality(T)
  BY <1>2, ImageFacts
<1>4. ASSUME NEW f, NEW g, \A i \in T : g[i] \in Nat /\ g[i] = f[order[i]]
      PROVE  SumFunctionOnSet(g, T) = SumFunctionOnSet(f, Image(order, T))
  <2>1. SumFunctionOnSet(g, T) = SumFunctionOnSet(f, {order[i] : i \in T})
    BY <1>2, <1>4, SumRenamed
  <2> QED BY <2>1, Zenon DEF Image
<1> QED BY <1>1, <1>3, <1>4

\* The positions whose record observed the token field f.
Observing(rs, P, f) == {i \in P : f \in DOMAIN rs[i].usage.tokens}
Missing(rs, P, f) == P \ Observing(rs, P, f)

\* The sets of positions the summary is made of move with the records.
LEMMA ReorderedSets ==
  ASSUME NEW rs, NEW us, NEW order, Reordered(rs, us, order), NEW P \in SUBSET DOMAIN rs,
         NEW Q, Q = Image(order, P)
  PROVE  /\ \A field : Image(order, Counted(us, P, field)) = Counted(rs, Q, field)
         /\ CostIdentities(us, P) = CostIdentities(rs, Q)
         /\ \A identity : Image(order, Sharing(us, P, identity)) = Sharing(rs, Q, identity)
<1>1. \A i \in P : us[i] = rs[order[i]]
  BY DEF Reordered
<1>2. \A k : k \in Q <=> \E i \in P : k = order[i]
  BY DEF Image
<1>3. ASSUME NEW field PROVE Image(order, Counted(us, P, field)) = Counted(rs, Q, field)
  BY <1>1, <1>2 DEF Counted, Image
<1>4. CostIdentities(us, P) = CostIdentities(rs, Q)
  BY <1>1, <1>2 DEF CostIdentities
<1>5. ASSUME NEW identity
      PROVE  Image(order, Sharing(us, P, identity)) = Sharing(rs, Q, identity)
  BY <1>1, <1>2 DEF Sharing, Image
<1> QED BY <1>3, <1>4, <1>5

LEMMA ReorderedTokens ==
  ASSUME NEW rs, NEW us, NEW order, Reordered(rs, us, order), NEW P \in SUBSET DOMAIN rs,
         NEW Q, Q = Image(order, P), NEW f
  PROVE  /\ Image(order, Observing(us, P, f)) = Observing(rs, Q, f)
         /\ Image(order, Missing(us, P, f)) = Missing(rs, Q, f)
<1>1. \A i \in P : us[i] = rs[order[i]]
  BY DEF Reordered
<1>2. \A k : k \in Q <=> \E i \in P : k = order[i]
  BY DEF Image
<1>3. \A i \in P : i \in Observing(us, P, f) <=> order[i] \in Observing(rs, Q, f)
  BY <1>1, <1>2 DEF Observing
<1>4. Observing(us, P, f) \in SUBSET P /\ Observing(rs, Q, f) \in SUBSET Q
  BY DEF Observing
<1> QED BY <1>2, <1>3, <1>4 DEF Image, Missing

LEMMA ReorderedKeys ==
  ASSUME NEW rs, NEW us, NEW order, Reordered(rs, us, order)
  PROVE  /\ Image(order, DOMAIN us) = DOMAIN rs
         /\ GroupKeys(us) = GroupKeys(rs)
         /\ \A key : /\ GroupPositions(us, key) \in SUBSET DOMAIN rs
                     /\ Image(order, GroupPositions(us, key)) = GroupPositions(rs, key)
<1>1. /\ DOMAIN us = DOMAIN rs /\ \A i \in DOMAIN rs : order[i] \in DOMAIN rs /\ us[i] = rs[order[i]]
      /\ \A k \in DOMAIN rs : \E i \in DOMAIN rs : order[i] = k
  BY DEF Reordered
<1>2. Image(order, DOMAIN us) = DOMAIN rs
  BY <1>1 DEF Image
<1>3. GroupKeys(us) = GroupKeys(rs)
  BY <1>1 DEF GroupKeys
<1>4. ASSUME NEW key
      PROVE  /\ GroupPositions(us, key) \in SUBSET DOMAIN rs
             /\ Image(order, GroupPositions(us, key)) = GroupPositions(rs, key)
  BY <1>1 DEF GroupPositions, Image
<1> QED BY <1>2, <1>3, <1>4

LEMMA ReorderedSame ==
  ASSUME NEW rs, NEW us, NEW order, Reordered(rs, us, order)
  PROVE  /\ \A i \in DOMAIN us : \E k \in DOMAIN rs : us[i] = rs[k]
         /\ \A k \in DOMAIN rs : \E i \in DOMAIN us : us[i] = rs[k]
<1>1. /\ DOMAIN us = DOMAIN rs /\ \A i \in DOMAIN rs : order[i] \in DOMAIN rs /\ us[i] = rs[order[i]]
      /\ \A k \in DOMAIN rs : \E i \in DOMAIN rs : order[i] = k
  BY DEF Reordered
<1>2. ASSUME NEW k \in DOMAIN rs PROVE \E i \in DOMAIN us : us[i] = rs[k]
  <2>1. PICK i \in DOMAIN rs : order[i] = k
    BY <1>1
  <2> QED BY <1>1, <2>1
<1> QED BY <1>1, <1>2

LEMMA ReorderedSound ==
  ASSUME NEW rs, NEW us, NEW order, Reordered(rs, us, order)
  PROVE  /\ Sound(rs) => Sound(us)
         /\ Duplicate(us) <=> Duplicate(rs)
         /\ (\E i \in DOMAIN us : ~ RecordAccepted(us[i])) <=>
              (\E i \in DOMAIN rs : ~ RecordAccepted(rs[i]))
<1>1. /\ DOMAIN us = DOMAIN rs /\ \A i \in DOMAIN rs : order[i] \in DOMAIN rs /\ us[i] = rs[order[i]]
      /\ \A k \in DOMAIN rs : \E i \in DOMAIN rs : order[i] = k
      /\ \A i, j \in DOMAIN rs : order[i] = order[j] => i = j
  BY DEF Reordered
<1>2. Sound(rs) => Sound(us)
  <2> SUFFICES ASSUME Sound(rs) PROVE Sound(us)
    OBVIOUS
  <2>1. \A i \in DOMAIN us :
          /\ IsRecord(us[i]) /\ RecordAccepted(us[i])
          /\ us[i].cost.amount # None => Short(us[i].cost.amount)
    BY <1>1, SMTT(30) DEF Sound
  <2> QED BY <2>1 DEF Sound, Reordered
<1>3. Duplicate(us) <=> Duplicate(rs)
  <2>1. ASSUME NEW i \in DOMAIN us, NEW j \in DOMAIN us, i # j,
               us[i].invocation_id = us[j].invocation_id
        PROVE  Duplicate(rs)
    <3>1. /\ order[i] \in DOMAIN rs /\ order[j] \in DOMAIN rs /\ order[i] # order[j]
          /\ us[i] = rs[order[i]] /\ us[j] = rs[order[j]]
      BY <1>1, <2>1
    <3> QED BY <2>1, <3>1 DEF Duplicate
  <2>2. ASSUME NEW k \in DOMAIN rs, NEW l \in DOMAIN rs, k # l,
               rs[k].invocation_id = rs[l].invocation_id
        PROVE  Duplicate(us)
    <3>1. PICK i \in DOMAIN rs : order[i] = k
      BY <1>1
    <3>2. PICK j \in DOMAIN rs : order[j] = l
      BY <1>1
    <3>3. i \in DOMAIN us /\ j \in DOMAIN us /\ i # j /\ us[i] = rs[k] /\ us[j] = rs[l]
      BY <1>1, <2>2, <3>1, <3>2
    <3> QED BY <2>2, <3>3 DEF Duplicate
  <2> QED BY <2>1, <2>2 DEF Duplicate
<1>4. /\ \A i \in DOMAIN us : \E k \in DOMAIN rs : us[i] = rs[k]
      /\ \A k \in DOMAIN rs : \E i \in DOMAIN us : us[i] = rs[k]
  BY ReorderedSame
<1>5. (\E i \in DOMAIN us : ~ RecordAccepted(us[i])) <=>
        (\E i \in DOMAIN rs : ~ RecordAccepted(rs[i]))
  BY <1>4, Zenon
<1> QED BY <1>2, <1>3, <1>5

LEMMA ReorderedMoney ==
  ASSUME NEW P, IsFiniteSet(P), NEW order, \A i, j \in P : order[i] = order[j] => i = j,
         NEW a, NEW b, \A i \in P : b[i] = a[order[i]] /\ b[i] \in Decimals
  PROVE  ExactMoney(b, P) = ExactMoney(a, Image(order, P))
<1> DEFINE Q == Image(order, P)
           s == Finest(b, P)
<1>1. IsFiniteSet(Q) /\ \A k \in Q : a[k] \in Decimals
  <2>1. \A k \in Q : \E i \in P : k = order[i]
    BY DEF Image
  <2> QED BY <2>1, ImageFacts
<1>2. \A i \in P : order[i] \in Q
  BY DEF Image
<1>3. /\ s \in Nat /\ \A i \in P : b[i].scale <= s
      /\ s = 0 \/ \E i \in P : s = b[i].scale
  BY FinestFacts
<1>4. \A k \in Q : a[k].scale <= s
  <2>1. \A k \in Q : \E i \in P : k = order[i]
    BY DEF Image
  <2> HIDE DEF Q, s
  <2> QED BY <1>3, <2>1
<1>5. Finest(a, Q) = s
  <2> DEFINE r == Finest(a, Q)
  <2>1. /\ r \in Nat /\ \A k \in Q : a[k].scale <= r
        /\ r = 0 \/ \E k \in Q : r = a[k].scale
    BY <1>1, FinestFacts
  <2> HIDE DEF r, s, Q
  <2>2. s <= r
    BY <1>2, <1>3, <2>1
  <2>3. r <= s
    BY <1>3, <1>4, <2>1
  <2> QED BY <1>3, <2>1, <2>2, <2>3 DEF r
<1>6. Units(b, P, s) = Units(a, Q, s)
  <2> DEFINE g == InUnits(b, P, s)
             f == InUnits(a, Q, s)
  <2>1. \A i \in P : g[i] \in Nat
    BY <1>3, UnitsFacts
  <2>2. \A i \in P : g[i] = f[order[i]]
    BY <1>2 DEF InUnits
  <2> HIDE DEF f, g
  <2>3. SumFunctionOnSet(g, P) = SumFunctionOnSet(f, {order[i] : i \in P})
    BY <2>1, <2>2, SumRenamed
  <2> QED BY <2>3, Zenon DEF Units, Image, f, g
<1>7. /\ ExactMoney(b, P) \in Decimals /\ ExactMoney(b, P).scale = s
      /\ ExactMoney(b, P).coef = Units(b, P, s)
  BY ExactMoneyFacts
<1>8. /\ ExactMoney(a, Q) \in Decimals /\ ExactMoney(a, Q).scale = s
      /\ ExactMoney(a, Q).coef = Units(a, Q, s)
  BY <1>1, <1>5, ExactMoneyFacts
<1> HIDE DEF Q, s
<1>9. ExactMoney(b, P) = ExactMoney(a, Q)
  BY <1>6, <1>7, <1>8, DecimalType
<1> QED BY <1>9 DEF Q

\* The amount of a bucket is the exact sum of its evidence.
LEMMA BucketExact ==
  ASSUME NEW rs, Sound(rs), NEW P \in SUBSET DOMAIN rs, ~ TooMuch(rs, P),
         NEW identity \in CostIdentities(rs, P)
  PROVE  Bucket(rs, Sharing(rs, P, identity), identity) =
           [invocation_count |-> Cardinality(Sharing(rs, P, identity)),
            amount |-> IF identity.cost_type \in Monetary
                       THEN ExactMoney(Amounts(rs), Sharing(rs, P, identity)) ELSE None]
<1> DEFINE T == Sharing(rs, P, identity)
<1>1. identity.cost_type \in Monetary => Money(rs, T)[Len(rs)] = ExactMoney(Amounts(rs), T)
  <2> SUFFICES ASSUME identity.cost_type \in Monetary
               PROVE  Money(rs, T)[Len(rs)] = ExactMoney(Amounts(rs), T)
    OBVIOUS
  <2>1. DecimalAccepted(ExactMoney(Amounts(rs), T))
    BY DEF TooMuch
  <2> QED BY <2>1, MoneyExact
<1> HIDE DEF T
<1>2. Bucket(rs, T, identity) =
        [invocation_count |-> Cardinality(T),
         amount |-> IF identity.cost_type \in Monetary THEN ExactMoney(Amounts(rs), T) ELSE None]
  BY <1>1 DEF Bucket
<1> QED BY <1>2 DEF T

LEMMA ReorderedSum ==
  ASSUME NEW rs, NEW us, NEW order, Reordered(rs, us, order), Sound(rs),
         NEW P \in SUBSET DOMAIN rs, NEW Q, Q = Image(order, P)
  PROVE  /\ SumFunction(Durations(us, P)) = SumFunction(Durations(rs, Q))
         /\ \A f \in TokenField : SumFunction(Tokens(us, P, f)) = SumFunction(Tokens(rs, Q, f))
         /\ \A identity : identity.cost_type \in Monetary =>
              ExactMoney(Amounts(us), Sharing(us, P, identity)) =
                ExactMoney(Amounts(rs), Sharing(rs, Q, identity))
<1>1. /\ Sound(us) /\ DOMAIN us = DOMAIN rs
      /\ \A i \in P : us[i] = rs[order[i]] /\ order[i] \in Q
      /\ \A i, j \in P : order[i] = order[j] => i = j
  <2>1. Sound(us)
    BY ReorderedSound
  <2>2. \A i \in P : order[i] \in Q
    BY DEF Image
  <2> QED BY <2>1, <2>2 DEF Reordered
<1>2. Q \in SUBSET DOMAIN rs
  BY ReorderedSums
<1>0. \A f : Image(order, Observing(us, P, f)) = Observing(rs, Q, f)
  BY ReorderedTokens
<1>3. SumFunction(Durations(us, P)) = SumFunction(Durations(rs, Q))
  <2> DEFINE g == Durations(us, P)
             f == Durations(rs, Q)
  <2>1. DOMAIN g = P /\ \A i \in P : g[i] = us[i].duration_ms /\ g[i] \in Nat
    BY <1>1, IntegerFields
  <2>2. DOMAIN f = Q /\ \A i \in Q : f[i] = rs[i].duration_ms
    BY <1>2, IntegerFields
  <2> HIDE DEF f, g
  <2>3. \A i \in P : g[i] \in Nat /\ g[i] = f[order[i]]
    BY <1>1, <2>1, <2>2
  <2>4. SumFunctionOnSet(g, P) = SumFunctionOnSet(f, Image(order, P))
    BY <2>3, ReorderedSums
  <2>5. SumFunction(g) = SumFunction(f)
    BY <2>1, <2>2, <2>4, Zenon DEF SumFunction
  <2> QED BY <2>5 DEF f, g
<1>4. ASSUME NEW field \in TokenField
      PROVE  SumFunction(Tokens(us, P, field)) = SumFunction(Tokens(rs, Q, field))
  <2> DEFINE g == Tokens(us, P, field)
             f == Tokens(rs, Q, field)
             T == Observing(us, P, field)
             U == Observing(rs, Q, field)
  <2>0. \A i \in DOMAIN g : g[i] = us[i].usage.tokens[field] /\ us[i].usage.tokens[field] \in Nat
    BY <1>1, IntegerFields, Zenon
  <2>1. DOMAIN g = T
    BY DEF Tokens, Observing
  <2>2. DOMAIN f = U /\ \A i \in DOMAIN f : f[i] = rs[i].usage.tokens[field]
    BY DEF Tokens, Observing
  <2>3. T \in SUBSET DOMAIN rs /\ T \in SUBSET P
    BY DEF Observing
  <2>4. Image(order, T) = U
    BY <1>0
  <2>5. \A i \in T : order[i] \in U
    BY <2>4 DEF Image
  <2> HIDE DEF f, g, T, U
  <2>6. \A i \in T : g[i] \in Nat /\ g[i] = f[order[i]]
    BY <1>1, <2>0, <2>1, <2>2, <2>3, <2>5
  <2>7. SumFunctionOnSet(g, T) = SumFunctionOnSet(f, Image(order, T))
    BY <2>3, <2>6, ReorderedSums
  <2>8. SumFunction(g) = SumFunction(f)
    BY <2>1, <2>2, <2>4, <2>7, Zenon DEF SumFunction
  <2> QED BY <2>8 DEF f, g
<1>5. ASSUME NEW identity, identity.cost_type \in Monetary
      PROVE  ExactMoney(Amounts(us), Sharing(us, P, identity)) =
               ExactMoney(Amounts(rs), Sharing(rs, Q, identity))
  <2> DEFINE T == Sharing(us, P, identity)
             b == Amounts(us)
             a == Amounts(rs)
  <2>1. /\ T \in SUBSET P /\ IsFiniteSet(T)
        /\ \A i \in T : b[i] = us[i].cost.amount /\ b[i] \in Decimals
    BY <1>1, <1>5, SharingFacts
  <2>2. Image(order, T) = Sharing(rs, Q, identity)
    BY ReorderedSets
  <2>3. \A i \in T : order[i] \in DOMAIN rs
    BY <1>1, <1>2, <2>1
  <2>4. \A k \in DOMAIN rs : a[k] = rs[k].cost.amount
    BY DEF Amounts
  <2> HIDE DEF T, a, b
  <2>5. \A i \in T : b[i] = a[order[i]] /\ b[i] \in Decimals
    BY <1>1, <2>1, <2>3, <2>4
  <2>6. \A i, j \in T : order[i] = order[j] => i = j
    BY <1>1, <2>1
  <2>7. ExactMoney(b, T) = ExactMoney(a, Image(order, T))
    BY <2>1, <2>5, <2>6, ReorderedMoney
  <2> QED BY <2>2, <2>7 DEF T, a, b
<1> QED BY <1>3, <1>4, <1>5

LEMMA ReorderedOverflow ==
  ASSUME NEW rs, NEW us, NEW order, Reordered(rs, us, order), Sound(rs),
         NEW P \in SUBSET DOMAIN rs, NEW Q, Q = Image(order, P)
  PROVE  TooMuch(us, P) <=> TooMuch(rs, Q)
<1>1. CostIdentities(us, P) = CostIdentities(rs, Q)
  BY ReorderedSets
<1>2. SumFunction(Durations(us, P)) = SumFunction(Durations(rs, Q))
  BY ReorderedSum
<1>3. \A f \in TokenField : SumFunction(Tokens(us, P, f)) = SumFunction(Tokens(rs, Q, f))
  BY ReorderedSum
<1>4. \A identity : identity.cost_type \in Monetary =>
        ExactMoney(Amounts(us), Sharing(us, P, identity)) =
          ExactMoney(Amounts(rs), Sharing(rs, Q, identity))
  BY ReorderedSum
<1>5. /\ SumFunction(Durations(us, P)) > MaxInteger <=> SumFunction(Durations(rs, Q)) > MaxInteger
      /\ \A f \in TokenField : SumFunction(Tokens(us, P, f)) > MaxInteger <=>
                                 SumFunction(Tokens(rs, Q, f)) > MaxInteger
  BY <1>2, <1>3
<1>6. \A identity : identity.cost_type \in Monetary =>
        (DecimalAccepted(ExactMoney(Amounts(us), Sharing(us, P, identity))) <=>
           DecimalAccepted(ExactMoney(Amounts(rs), Sharing(rs, Q, identity))))
  BY <1>4, Zenon
<1> QED BY <1>1, <1>5, <1>6, Zenon DEF TooMuch

LEMMA TokenSummaryFacts ==
  ASSUME NEW rs, NEW P, NEW f
  PROVE  TokenSummary(rs, P, f) =
           [total       |-> IF Observing(rs, P, f) = {} THEN None ELSE SumFunction(Tokens(rs, P, f)),
            observed    |-> Cardinality(Observing(rs, P, f)),
            unavailable |-> Cardinality(Missing(rs, P, f))]
<1>1. DOMAIN Tokens(rs, P, f) = Observing(rs, P, f)
  BY DEF Tokens, Observing
<1> QED BY <1>1, Zenon DEF TokenSummary, Missing

LEMMA ReorderedMetrics ==
  ASSUME NEW rs, NEW us, NEW order, Reordered(rs, us, order), Sound(rs),
         NEW P \in SUBSET DOMAIN rs, NEW Q, Q = Image(order, P), ~ TooMuch(rs, Q)
  PROVE  Metrics(us, P) = Metrics(rs, Q)
<1>1. \A field : Cardinality(Counted(us, P, field)) = Cardinality(Counted(rs, Q, field))
  <2> TAKE field
  <2> DEFINE T == Counted(us, P, field)
  <2>1. T \in SUBSET DOMAIN rs
    BY DEF Counted
  <2>2. Image(order, T) = Counted(rs, Q, field)
    BY ReorderedSets
  <2> HIDE DEF T
  <2>3. Cardinality(Image(order, T)) = Cardinality(T)
    BY <2>1, ReorderedSums
  <2> QED BY <2>2, <2>3 DEF T
<1>2. SumFunction(Durations(us, P)) = SumFunction(Durations(rs, Q))
  BY ReorderedSum
<1>3. \A f \in TokenField : TokenSummary(us, P, f) = TokenSummary(rs, Q, f)
  <2> TAKE f \in TokenField
  <2> DEFINE T == Observing(us, P, f)
             U == Missing(us, P, f)
  <2>1. T \in SUBSET DOMAIN rs /\ U \in SUBSET DOMAIN rs
    BY DEF Observing, Missing
  <2>2. Image(order, T) = Observing(rs, Q, f) /\ Image(order, U) = Missing(rs, Q, f)
    BY ReorderedTokens
  <2>3. SumFunction(Tokens(us, P, f)) = SumFunction(Tokens(rs, Q, f))
    BY ReorderedSum
  <2> HIDE DEF T, U
  <2>4. /\ Cardinality(Image(order, T)) = Cardinality(T)
        /\ Cardinality(Image(order, U)) = Cardinality(U)
        /\ T = {} <=> Image(order, T) = {}
    BY <2>1, ReorderedSums
  <2>5. /\ Cardinality(T) = Cardinality(Observing(rs, Q, f))
        /\ Cardinality(U) = Cardinality(Missing(rs, Q, f))
        /\ T = {} <=> Observing(rs, Q, f) = {}
    BY <2>2, <2>4
  <2> QED BY <2>3, <2>5, TokenSummaryFacts DEF T, U
<1>4. CostIdentities(us, P) = CostIdentities(rs, Q)
  BY ReorderedSets
<1>5. Sound(us) /\ P \in SUBSET DOMAIN us /\ Q \in SUBSET DOMAIN rs /\ ~ TooMuch(us, P)
  <2>1. DOMAIN us = DOMAIN rs
    BY DEF Reordered
  <2>2. Sound(us)
    BY ReorderedSound
  <2>3. Q \in SUBSET DOMAIN rs
    BY ReorderedSums
  <2>4. ~ TooMuch(us, P)
    BY ReorderedOverflow
  <2> QED BY <2>1, <2>2, <2>3, <2>4
<1>6. \A identity \in CostIdentities(rs, Q) :
        Bucket(us, Sharing(us, P, identity), identity) = Bucket(rs, Sharing(rs, Q, identity), identity)
  <2> TAKE identity \in CostIdentities(rs, Q)
  <2> DEFINE T == Sharing(us, P, identity)
             U == Sharing(rs, Q, identity)
  <2>1. Bucket(us, T, identity) =
           [invocation_count |-> Cardinality(T),
            amount |-> IF identity.cost_type \in Monetary THEN ExactMoney(Amounts(us), T) ELSE None]
    BY <1>4, <1>5, BucketExact
  <2>2. Bucket(rs, U, identity) =
           [invocation_count |-> Cardinality(U),
            amount |-> IF identity.cost_type \in Monetary THEN ExactMoney(Amounts(rs), U) ELSE None]
    BY <1>5, BucketExact
  <2>3. identity.cost_type \in Monetary => ExactMoney(Amounts(us), T) = ExactMoney(Amounts(rs), U)
    BY ReorderedSum
  <2>4. T \in SUBSET DOMAIN rs
    BY DEF Sharing
  <2>5. Image(order, T) = U
    BY ReorderedSets
  <2> HIDE DEF T, U
  <2>6. Cardinality(T) = Cardinality(U)
    BY <2>4, <2>5, ReorderedSums
  <2>7. (IF identity.cost_type \in Monetary THEN ExactMoney(Amounts(us), T) ELSE None) =
          (IF identity.cost_type \in Monetary THEN ExactMoney(Amounts(rs), U) ELSE None)
    BY <2>3
  <2> QED BY <2>1, <2>2, <2>6, <2>7, Zenon DEF T, U
<1>7. [field \in CountFields |-> Cardinality(Counted(us, P, field))] =
        [field \in CountFields |-> Cardinality(Counted(rs, Q, field))]
  BY <1>1
<1>8. [f \in TokenField |-> TokenSummary(us, P, f)] = [f \in TokenField |-> TokenSummary(rs, Q, f)]
  BY <1>3
<1>9. [identity \in CostIdentities(us, P) |-> Bucket(us, Sharing(us, P, identity), identity)] =
        [identity \in CostIdentities(rs, Q) |-> Bucket(rs, Sharing(rs, Q, identity), identity)]
  BY <1>4, <1>6
<1> QED BY <1>2, <1>7, <1>8, <1>9, Zenon DEF Metrics

LEMMA ReorderedGroups ==
  ASSUME NEW rs, NEW us, NEW order, Reordered(rs, us, order), Sound(rs), ~ TooMuch(rs, DOMAIN rs)
  PROVE  /\ Metrics(us, DOMAIN us) = Metrics(rs, DOMAIN rs)
         /\ Groups(us) = Groups(rs)
<1>1. /\ DOMAIN us = DOMAIN rs /\ Image(order, DOMAIN us) = DOMAIN rs
      /\ GroupKeys(us) = GroupKeys(rs)
      /\ \A key : /\ GroupPositions(us, key) \in SUBSET DOMAIN rs
                  /\ Image(order, GroupPositions(us, key)) = GroupPositions(rs, key)
  <2>1. DOMAIN us = DOMAIN rs
    BY DEF Reordered
  <2> QED BY <2>1, ReorderedKeys
<1>2. Metrics(us, DOMAIN us) = Metrics(rs, DOMAIN rs)
  <2>1. DOMAIN us \in SUBSET DOMAIN rs
    BY <1>1
  <2> QED BY <1>1, <2>1, ReorderedMetrics
<1>3. ASSUME NEW key \in GroupKeys(rs)
      PROVE  Metrics(us, GroupPositions(us, key)) = Metrics(rs, GroupPositions(rs, key))
  <2> DEFINE P == GroupPositions(us, key)
             Q == GroupPositions(rs, key)
  <2>1. P \in SUBSET DOMAIN rs /\ Image(order, P) = Q
    BY <1>1
  <2>2. Q \in SUBSET DOMAIN rs
    BY DEF GroupPositions
  <2> HIDE DEF P, Q
  <2>3. ~ TooMuch(rs, Q)
    BY <2>2, OverflowExact
  <2>4. Metrics(us, P) = Metrics(rs, Q)
    BY <2>1, <2>3, ReorderedMetrics
  <2> QED BY <2>4 DEF P, Q
<1>4. Groups(us) = Groups(rs)
  BY <1>1, <1>3 DEF Groups
<1> QED BY <1>2, <1>4

\* The same records in another order get the same answer.
LEMMA ReorderedAnswer ==
  ASSUME NEW q, IsRequest(q), NEW p, IsRequest(p), p.scope = q.scope, p.scope_id = q.scope_id,
         NEW order, Reordered(Selection(q), Selection(p), order)
  PROVE  Summarize(p) = Summarize(q)
<1> DEFINE rs == Selection(q)
           us == Selection(p)
           overflow(r) == \/ Overflows(r, DOMAIN r)
                          \/ \E key \in GroupKeys(r) : Overflows(r, GroupPositions(r, key))
           invalid(r) == \E i \in DOMAIN r : ~ RecordAccepted(r[i])
           mixed(r, scope, id) == \E i \in DOMAIN r : r[i][scope] # id
           built(r) == Build(Metrics(r, DOMAIN r), Groups(r))
           answer(r, wrong, scope, id) ==
             IF wrong THEN Refusal("invalid_request")
             ELSE IF invalid(r) THEN Refusal("invalid_record")
             ELSE IF Duplicate(r) THEN Refusal("duplicate_invocation")
             ELSE IF mixed(r, scope, id) THEN Refusal("correlation_mismatch")
             ELSE IF overflow(r) THEN Refusal("aggregate_overflow")
             ELSE built(r)
<1>1. /\ Summarize(q) = answer(rs, InvalidRequest(q), q.scope, q.scope_id)
      /\ Summarize(p) = answer(us, InvalidRequest(p), p.scope, p.scope_id)
  BY Zenon DEF Summarize, Groups
<1>2. InvalidRequest(p) <=> InvalidRequest(q)
  <2>1. Len(us) = Len(rs)
    BY DEF Reordered
  <2>2. Len(us) = Len(p.records) /\ Len(rs) = Len(q.records)
    BY SelectionFacts
  <2> HIDE DEF us, rs
  <2> QED BY <2>1, <2>2 DEF InvalidRequest
<1>3. ~ InvalidRequest(q) /\ ~ invalid(rs) => Sound(rs)
  BY SelectionFacts
<1>4. Reordered(rs, us, order)
  OBVIOUS
<1> HIDE DEF rs, us
<1>5. /\ invalid(us) <=> invalid(rs)
      /\ Duplicate(us) <=> Duplicate(rs)
      /\ mixed(us, p.scope, p.scope_id) <=> mixed(rs, q.scope, q.scope_id)
  <2>1. (invalid(us) <=> invalid(rs)) /\ (Duplicate(us) <=> Duplicate(rs))
    BY <1>4, ReorderedSound
  <2>2. \A scope, id : mixed(us, scope, id) <=> mixed(rs, scope, id)
    <3>1. /\ \A i \in DOMAIN us : \E k \in DOMAIN rs : us[i] = rs[k]
          /\ \A k \in DOMAIN rs : \E i \in DOMAIN us : us[i] = rs[k]
      BY <1>4, ReorderedSame
    <3>2. ASSUME NEW scope, NEW id, NEW i \in DOMAIN us, us[i][scope] # id
          PROVE  \E k \in DOMAIN rs : rs[k][scope] # id
      <4>1. PICK k \in DOMAIN rs : us[i] = rs[k]
        BY <3>1
      <4> QED BY <3>2, <4>1
    <3>3. ASSUME NEW scope, NEW id, NEW k \in DOMAIN rs, rs[k][scope] # id
          PROVE  \E i \in DOMAIN us : us[i][scope] # id
      <4>1. PICK i \in DOMAIN us : us[i] = rs[k]
        BY <3>1
      <4> QED BY <3>3, <4>1
    <3> QED BY <3>2, <3>3, Zenon
  <2>3. p.scope = q.scope /\ p.scope_id = q.scope_id
    OBVIOUS
  <2> HIDE DEF mixed, invalid
  <2> QED BY <2>1, <2>2, <2>3
<1>6. ASSUME Sound(rs) PROVE overflow(us) <=> overflow(rs)
  <2>1. \A r : Sound(r) => (overflow(r) <=> TooMuch(r, DOMAIN r))
    <3> SUFFICES ASSUME NEW r, Sound(r) PROVE overflow(r) <=> TooMuch(r, DOMAIN r)
      OBVIOUS
    <3>1. \A key : GroupPositions(r, key) \in SUBSET DOMAIN r
      BY DEF GroupPositions
    <3>2. \A P \in SUBSET DOMAIN r : (Overflows(r, P) => TooMuch(r, DOMAIN r))
      BY OverflowExact, Zenon
    <3>3. Overflows(r, DOMAIN r) <=> TooMuch(r, DOMAIN r)
      BY OverflowExact
    <3> QED BY <3>1, <3>2, <3>3
  <2>2. Sound(us)
    BY <1>4, <1>6, ReorderedSound
  <2>3. DOMAIN us \in SUBSET DOMAIN rs /\ Image(order, DOMAIN us) = DOMAIN rs
    <3>1. DOMAIN us = DOMAIN rs
      BY <1>4 DEF Reordered
    <3>2. Image(order, DOMAIN us) = DOMAIN rs
      BY <1>4, ReorderedKeys
    <3> QED BY <3>1, <3>2
  <2>4. TooMuch(us, DOMAIN us) <=> TooMuch(rs, DOMAIN rs)
    BY <1>4, <1>6, <2>3, ReorderedOverflow
  <2> HIDE DEF overflow
  <2> QED BY <1>6, <2>1, <2>2, <2>4
<1>7. ASSUME Sound(rs), ~ overflow(rs) PROVE built(us) = built(rs)
  <2>1. ~ TooMuch(rs, DOMAIN rs)
    <3>1. DOMAIN rs \in SUBSET DOMAIN rs
      OBVIOUS
    <3> QED BY <1>7, <3>1, OverflowExact
  <2>2. Metrics(us, DOMAIN us) = Metrics(rs, DOMAIN rs) /\ Groups(us) = Groups(rs)
    BY <1>4, <1>7, <2>1, ReorderedGroups
  <2> QED BY <2>2, Zenon
<1> HIDE DEF overflow, invalid, mixed, built
<1> QED BY <1>1, <1>2, <1>3, <1>5, <1>6, <1>7

\* The answer, a refusal included, does not depend on the order in which the
\* records are listed (summarize, its dictionaries and its sorted output).
THEOREM OrderAlwaysIrrelevant == Spec => []OrderIrrelevant
<1>1. Answered => OrderIrrelevant
  <2> SUFFICES ASSUME Answered, outcome # None,
                      NEW order \in SetToSeqs(DOMAIN request.records)
               PROVE  Summarize([request EXCEPT !.records =
                                   [i \in DOMAIN order |-> request.records[order[i]]]]) = outcome
    BY DEF OrderIrrelevant
  <2> DEFINE n == Len(request.records)
             q == request
             p == [request EXCEPT !.records = [i \in DOMAIN order |-> request.records[order[i]]]]
  <2>1. IsRequest(q) /\ outcome = Summarize(q)
    BY RequestAssumption DEF Answered
  <2>2. /\ n \in Nat /\ DOMAIN q.records = 1 .. n /\ DOMAIN q = {"records", "scope", "scope_id"}
        /\ \A i \in 1 .. n : IsRecord(q.records[i])
    BY <2>1 DEF IsRequest
  <2>3. /\ DOMAIN order = 1 .. n
        /\ \A i \in 1 .. n : order[i] \in 1 .. n
        /\ \A i, j \in 1 .. n : order[i] = order[j] => i = j
        /\ \A k \in 1 .. n : \E i \in 1 .. n : order[i] = k
    BY <2>2, ListingFacts
  <2>4. /\ p.records = [i \in 1 .. n |-> q.records[order[i]]]
        /\ p.scope = q.scope /\ p.scope_id = q.scope_id
        /\ DOMAIN p = {"records", "scope", "scope_id"}
    BY <2>2, <2>3
  <2> HIDE DEF n, p, q
  <2>5. Len(p.records) = n /\ DOMAIN p.records = 1 .. n
    BY <2>2, <2>4
  <2>6. IsRequest(p)
    BY <2>2, <2>3, <2>4, <2>5, ZenonT(60) DEF IsRequest
  <2>7. /\ Len(Selection(q)) = n /\ Len(Selection(p)) = n
        /\ DOMAIN Selection(q) = 1 .. n /\ DOMAIN Selection(p) = 1 .. n
    BY <2>1, <2>2, <2>5, <2>6, SelectionFacts DEF n
  <2>8. \A i \in 1 .. n : Selection(p)[i] = Selection(q)[order[i]]
    BY <2>2, <2>3, <2>4 DEF Selection
  <2>9. Reordered(Selection(q), Selection(p), order)
    BY <2>2, <2>3, <2>7, <2>8 DEF Reordered
  <2>10. Summarize(p) = Summarize(q)
    BY <2>1, <2>4, <2>6, <2>9, ReorderedAnswer
  <2> QED BY <2>1, <2>10 DEF p
<1> QED BY <1>1, AnsweredAlways, PTL

-----------------------------------------------------------------------------
(* The contract accepts the numbers of every part *)

LEMMA ImageFinite ==
  ASSUME NEW S, IsFiniteSet(S), NEW f
  PROVE  IsFiniteSet(Image(f, S))
<1> DEFINE g == [x \in S |-> f[x]]
           T == Image(f, S)
<1>1. g \in [S -> T] /\ \A t \in T : \E x \in S : g[x] = t
  BY DEF Image
<1> HIDE DEF g, T
<1>2. g \in Surjection(S, T)
  BY <1>1 DEF Surjection
<1>3. IsFiniteSet(T)
  BY <1>2, FS_Surjection
<1> QED BY <1>3 DEF T

LEMMA DisjointCount ==
  ASSUME NEW S, IsFiniteSet(S), NEW R, IsFiniteSet(R), S \cap R = {}
  PROVE  Cardinality(S \cup R) = Cardinality(S) + Cardinality(R)
<1>1. Cardinality(S \cup R) = Cardinality(S) + Cardinality(R) - Cardinality(S \cap R)
  BY FS_Union
<1>2. Cardinality(S \cap R) = 0
  BY FS_EmptySet
<1> QED BY <1>1, <1>2, FS_CardinalityType

\* Each record of a part has one identity of cost.
LEMMA IdentityFacts ==
  ASSUME NEW rs, Sound(rs), NEW P \in SUBSET DOMAIN rs
  PROVE  /\ IsFiniteSet(P) /\ Cardinality(P) \in Nat /\ Cardinality(P) <= MaxRecords
         /\ IsFiniteSet(CostIdentities(rs, P))
         /\ \A identity : /\ Sharing(rs, P, identity) \in SUBSET P
                          /\ IsFiniteSet(Sharing(rs, P, identity))
                          /\ identity \in CostIdentities(rs, P) <=> Sharing(rs, P, identity) # {}
         /\ \A a, b : a # b => Sharing(rs, P, a) \cap Sharing(rs, P, b) = {}
         /\ P = UNION {Sharing(rs, P, identity) : identity \in CostIdentities(rs, P)}
<1>1. Len(rs) \in Nat /\ DOMAIN rs = 1 .. Len(rs) /\ Len(rs) <= MaxRecords
  BY DEF Sound
<1>2. IsFiniteSet(P) /\ Cardinality(P) \in Nat /\ Cardinality(P) <= Len(rs)
  <2>1. IsFiniteSet(1 .. Len(rs)) /\ Cardinality(1 .. Len(rs)) = Len(rs)
    BY <1>1, FS_Interval, SMTT(30)
  <2> QED BY <1>1, <2>1, FS_Subset, FS_CardinalityType
<1>3. IsFiniteSet(CostIdentities(rs, P))
  <2> DEFINE f == [i \in P |-> CostIdentity(rs[i].cost)]
  <2>1. CostIdentities(rs, P) = Image(f, P)
    BY DEF CostIdentities, Image
  <2> QED BY <1>2, <2>1, ImageFinite
<1>4. \A identity : /\ Sharing(rs, P, identity) \in SUBSET P
                    /\ identity \in CostIdentities(rs, P) <=> Sharing(rs, P, identity) # {}
  BY DEF Sharing, CostIdentities
<1>5. \A identity : IsFiniteSet(Sharing(rs, P, identity))
  BY <1>2, <1>4, FS_Subset
<1>6. \A a, b : a # b => Sharing(rs, P, a) \cap Sharing(rs, P, b) = {}
  BY DEF Sharing
<1>7. P = UNION {Sharing(rs, P, identity) : identity \in CostIdentities(rs, P)}
  BY DEF Sharing, CostIdentities
<1> QED BY <1>1, <1>2, <1>3, <1>4, <1>5, <1>6, <1>7, SummaryAssumption

\* The counts of a part: its statuses split it, no record has two predecessors.
LEMMA CountFacts ==
  ASSUME NEW rs, Sound(rs), NEW P \in SUBSET DOMAIN rs, NEW m, m = Metrics(rs, P)
  PROVE  /\ \A field \in CountFields : m.counts[field] = Cardinality(Counted(rs, P, field))
         /\ m.counts["invocation_count"] = Cardinality(P)
         /\ m.counts["succeeded"] + m.counts["failed"] + m.counts["cancelled"] = Cardinality(P)
         /\ m.counts["retry_of_invocation_id"] + m.counts["fallback_from_invocation_id"]
              <= Cardinality(P)
<1> DEFINE s == Counted(rs, P, "succeeded")
           f == Counted(rs, P, "failed")
           c == Counted(rs, P, "cancelled")
           r == Counted(rs, P, "retry_of_invocation_id")
           b == Counted(rs, P, "fallback_from_invocation_id")
<1>1. \A field \in CountFields : m.counts[field] = Cardinality(Counted(rs, P, field))
  BY DEF Metrics
<1>2. IsFiniteSet(P) /\ Cardinality(P) \in Nat
  BY IdentityFacts
<1>3. Counted(rs, P, "invocation_count") = P
  BY DEF Counted, Status, Predecessors
<1>4. /\ s = {i \in P : rs[i].status = "succeeded"}
      /\ f = {i \in P : rs[i].status = "failed"}
      /\ c = {i \in P : rs[i].status = "cancelled"}
  <2>1. ASSUME NEW status \in Status
        PROVE  Counted(rs, P, status) = {i \in P : rs[i].status = status}
    BY DEF Counted, Status, Predecessors
  <2> QED BY <2>1 DEF Status
<1>5. \A i \in P : rs[i].status \in Status
  BY DEF Sound, IsRecord
<1>6. /\ s \cap f = {} /\ (s \cup f) \cap c = {} /\ (s \cup f) \cup c = P
      /\ s \in SUBSET P /\ f \in SUBSET P /\ c \in SUBSET P
  BY <1>4, <1>5 DEF Status
<1>7. /\ r = {i \in P : rs[i]["retry_of_invocation_id"] # None}
      /\ b = {i \in P : rs[i]["fallback_from_invocation_id"] # None}
  BY DEF Counted, Status, Predecessors
<1>8. r \cap b = {} /\ r \in SUBSET P /\ b \in SUBSET P
  <2>1. ASSUME NEW i \in P, rs[i]["retry_of_invocation_id"] # None,
                            rs[i]["fallback_from_invocation_id"] # None
        PROVE  FALSE
    <3> DEFINE two == {p \in Predecessors : rs[i][p] # None}
               one == {"retry_of_invocation_id"}
               other == {"fallback_from_invocation_id"}
    <3>1. two = one \cup other
      BY <2>1 DEF Predecessors
    <3>2. Cardinality(two) = IF rs[i].attempt_number > 1 THEN 1 ELSE 0
      BY DEF Sound, RecordAccepted, MetadataAccepted, AttemptAccepted
    <3> HIDE DEF two
    <3>3. /\ IsFiniteSet(one) /\ Cardinality(one) = 1
          /\ IsFiniteSet(other) /\ Cardinality(other) = 1
      BY FS_Singleton
    <3>4. one \cap other = {}
      OBVIOUS
    <3> HIDE DEF one, other
    <3>5. Cardinality(two) = 1 + 1
      BY <3>1, <3>3, <3>4, DisjointCount
    <3> QED BY <3>2, <3>5
  <2> QED BY <1>7, <2>1
<1> HIDE DEF s, f, c, r, b
<1>9. /\ IsFiniteSet(s) /\ IsFiniteSet(f) /\ IsFiniteSet(c) /\ IsFiniteSet(r) /\ IsFiniteSet(b)
      /\ IsFiniteSet(s \cup f)
  BY <1>2, <1>6, <1>8, FS_Subset, FS_Union
<1>10. /\ Cardinality(s) \in Nat /\ Cardinality(f) \in Nat /\ Cardinality(c) \in Nat
       /\ Cardinality(r) \in Nat /\ Cardinality(b) \in Nat
  BY <1>9, FS_CardinalityType
<1>11. Cardinality(s \cup f) = Cardinality(s) + Cardinality(f)
  BY <1>6, <1>9, DisjointCount
<1>12. Cardinality(P) = Cardinality(s) + Cardinality(f) + Cardinality(c)
  <2>1. Cardinality((s \cup f) \cup c) = Cardinality(s \cup f) + Cardinality(c)
    BY <1>6, <1>9, DisjointCount
  <2> QED BY <1>6, <1>11, <2>1
<1>13. Cardinality(r) + Cardinality(b) <= Cardinality(P)
  <2>1. Cardinality(r \cup b) = Cardinality(r) + Cardinality(b)
    BY <1>8, <1>9, DisjointCount
  <2>2. r \cup b \in SUBSET P
    BY <1>8
  <2>3. Cardinality(r \cup b) <= Cardinality(P)
    BY <1>2, <2>2, FS_Subset
  <2> QED BY <2>1, <2>3
<1>14. /\ m.counts["succeeded"] = Cardinality(s) /\ m.counts["failed"] = Cardinality(f)
       /\ m.counts["cancelled"] = Cardinality(c)
       /\ m.counts["retry_of_invocation_id"] = Cardinality(r)
       /\ m.counts["fallback_from_invocation_id"] = Cardinality(b)
       /\ m.counts["invocation_count"] = Cardinality(P)
  BY <1>1, <1>3 DEF CountFields, s, f, c, r, b
<1> QED BY <1>1, <1>12, <1>13, <1>14

\* The tokens of a part.
LEMMA TokenFacts ==
  ASSUME NEW rs, Sound(rs), NEW P \in SUBSET DOMAIN rs, ~ TooMuch(rs, P),
         NEW f \in TokenField, NEW t, t = TokenSummary(rs, P, f)
  PROVE  /\ TokenSummaryAccepted(t)
         /\ t.observed + t.unavailable = Cardinality(P)
         /\ t.total = None <=> Observing(rs, P, f) = {}
         /\ t.total # None => t.total = SumFunction(Tokens(rs, P, f))
<1> DEFINE T == Observing(rs, P, f)
           U == Missing(rs, P, f)
           sum == SumFunction(Tokens(rs, P, f))
<1>1. IsFiniteSet(P) /\ Cardinality(P) \in Nat /\ Cardinality(P) <= MaxRecords
  BY IdentityFacts
<1>2. T \cap U = {} /\ T \cup U = P /\ T \in SUBSET P /\ U \in SUBSET P
  BY DEF Observing, Missing
<1>3. t.total = (IF T = {} THEN None ELSE sum) /\ t.observed = Cardinality(T)
      /\ t.unavailable = Cardinality(U)
  BY TokenSummaryFacts
<1>4. sum \in Nat /\ ~ (sum > MaxInteger)
  <2>1. sum \in Nat
    BY IntegersOfPart
  <2> QED BY <2>1 DEF TooMuch
<1> HIDE DEF T, U, sum
<1>5. /\ IsFiniteSet(T) /\ IsFiniteSet(U) /\ Cardinality(T) \in Nat /\ Cardinality(U) \in Nat
      /\ Cardinality(T) <= Cardinality(P) /\ Cardinality(U) <= Cardinality(P)
  BY <1>1, <1>2, FS_Subset, FS_CardinalityType
<1>6. Cardinality(T) + Cardinality(U) = Cardinality(P)
  BY <1>2, <1>5, DisjointCount
<1>7. Cardinality(T) = 0 <=> T = {}
  BY <1>5, FS_EmptySet
<1>8. sum # None
  BY <1>4, NoneAssumption
<1>9. MaxRecords \in Nat /\ MaxInteger \in Nat
  BY SummaryAssumption, UsageAssumption
<1>10. TokenSummaryAccepted(t)
  BY <1>1, <1>3, <1>4, <1>5, <1>7, <1>8, <1>9 DEF TokenSummaryAccepted
<1> QED BY <1>3, <1>6, <1>8, <1>10 DEF T, sum

\* Only whether there is an amount matters to the rules of a cost.
LEMMA IdentityAccepted ==
  ASSUME NEW c, DOMAIN c = CostFields, CostIdentityAccepted(c),
         NEW identity, identity = CostIdentity(c),
         NEW x, x # None <=> identity.cost_type \in Monetary
  PROVE  CostIdentityAccepted([identity EXCEPT !.amount = x])
<1> DEFINE e == [identity EXCEPT !.amount = x]
<1>1. /\ identity.cost_type = c.cost_type
      /\ e.cost_type = c.cost_type /\ e.amount = x /\ e.currency = c.currency
      /\ e.pricing_source_id = c.pricing_source_id /\ e.pricing_version = c.pricing_version
      /\ e.pricing_effective_at = c.pricing_effective_at
      /\ e.unavailable_reason = c.unavailable_reason
  BY DEF CostIdentity, CostFields
<1> HIDE DEF e
<1>2. Pricing(e) = Pricing(c)
  BY <1>1 DEF Pricing
<1>3. /\ PricingComplete(e) <=> PricingComplete(c)
      /\ PricingAbsent(e) <=> PricingAbsent(c)
  BY <1>2 DEF PricingComplete, PricingAbsent
<1>4. CostIdentityAccepted(e)
  BY <1>1, <1>3 DEF CostIdentityAccepted
<1> QED BY <1>4 DEF e

LEMMA BucketFacts ==
  ASSUME NEW rs, Sound(rs), NEW P \in SUBSET DOMAIN rs, ~ TooMuch(rs, P),
         NEW identity \in CostIdentities(rs, P),
         NEW T, T = Sharing(rs, P, identity), NEW b, b = Bucket(rs, T, identity)
  PROVE  /\ b.invocation_count = Cardinality(T) /\ b.invocation_count \in 1 .. MaxRecords
         /\ b.amount # None <=> identity.cost_type \in Monetary
         /\ b.amount # None => /\ b.amount = ExactMoney(Amounts(rs), T)
                               /\ b.amount \in Decimals /\ DecimalAccepted(b.amount)
         /\ BucketAccepted(identity, b) /\ BucketAccepted(identity, SnapshotBucket(b))
<1>1. b = [invocation_count |-> Cardinality(T),
           amount |-> IF identity.cost_type \in Monetary THEN ExactMoney(Amounts(rs), T) ELSE None]
  BY BucketExact
<1>2. b.invocation_count = Cardinality(T) /\ b.invocation_count \in 1 .. MaxRecords
  <2>1. /\ IsFiniteSet(P) /\ Cardinality(P) \in Nat /\ Cardinality(P) <= MaxRecords
        /\ T \in SUBSET P /\ T # {}
    BY IdentityFacts
  <2>2. Cardinality(T) <= Cardinality(P) /\ Cardinality(T) \in Nat /\ Cardinality(T) # 0
    BY <2>1, FS_Subset, FS_CardinalityType, FS_EmptySet
  <2> QED BY <1>1, <2>1, <2>2, SummaryAssumption
<1>3. identity.cost_type \in Monetary =>
        ExactMoney(Amounts(rs), T) \in Decimals /\ DecimalAccepted(ExactMoney(Amounts(rs), T))
  BY MoneyExact DEF TooMuch
<1>4. \A d \in Decimals : d # None
  BY NoneAssumption DEF Decimals
<1>5. /\ b.amount # None <=> identity.cost_type \in Monetary
      /\ b.amount # None => /\ b.amount = ExactMoney(Amounts(rs), T)
                            /\ b.amount \in Decimals /\ DecimalAccepted(b.amount)
  BY <1>1, <1>3, <1>4
<1>6. PICK i \in P : identity = CostIdentity(rs[i].cost)
  BY DEF CostIdentities
<1>7. DOMAIN rs[i].cost = CostFields /\ CostIdentityAccepted(rs[i].cost)
  BY DEF Sound, IsRecord, RecordAccepted, CostEvidenceAccepted
<1>8. \A x : (x # None <=> identity.cost_type \in Monetary) =>
               CostIdentityAccepted([identity EXCEPT !.amount = x])
  BY <1>6, <1>7, IdentityAccepted
<1>9. BucketAccepted(identity, b)
  BY <1>2, <1>5, <1>8 DEF BucketAccepted
<1>10. BucketAccepted(identity, SnapshotBucket(b))
  <2> DEFINE w == SnapshotBucket(b)
  <2>1. /\ w.invocation_count = b.invocation_count
        /\ w.amount = IF b.amount = None THEN None ELSE Written(b.amount)
    BY <1>1 DEF SnapshotBucket
  <2> HIDE DEF w
  <2>2. b.amount # None => Written(b.amount) \in Decimals /\ DecimalAccepted(Written(b.amount))
    BY <1>5, WrittenFacts, WrittenAccepted
  <2>3. /\ w.amount # None <=> identity.cost_type \in Monetary
        /\ w.amount # None => DecimalAccepted(w.amount)
    BY <1>4, <1>5, <2>1, <2>2
  <2>4. BucketAccepted(identity, w)
    BY <1>2, <1>8, <2>1, <2>3 DEF BucketAccepted
  <2> QED BY <2>4 DEF w
<1> QED BY <1>2, <1>5, <1>9, <1>10

LEMMA CostCount ==
  ASSUME NEW rs, Sound(rs), NEW P \in SUBSET DOMAIN rs,
         NEW s, \A identity \in CostIdentities(rs, P) : s[identity] = Cardinality(Sharing(rs, P, identity))
  PROVE  SumFunctionOnSet(s, CostIdentities(rs, P)) = Cardinality(P)
<1> DEFINE K == CostIdentities(rs, P)
           part == [identity \in K |-> Sharing(rs, P, identity)]
<1>1. /\ IsFiniteSet(K)
      /\ \A k \in K : IsFiniteSet(part[k])
      /\ \A k, l \in K : k # l => part[k] \cap part[l] = {}
      /\ \A k \in K : s[k] = Cardinality(part[k])
  BY IdentityFacts
<1>2. P = UNION {part[k] : k \in K}
  <2>1. P = UNION {Sharing(rs, P, k) : k \in K}
    BY IdentityFacts
  <2>2. \A k \in K : part[k] = Sharing(rs, P, k)
    OBVIOUS
  <2>3. {part[k] : k \in K} = {Sharing(rs, P, k) : k \in K}
    BY <2>2
  <2> QED BY <2>1, <2>3, Zenon
<1> HIDE DEF K, part
<1>3. SumFunctionOnSet(s, K) = Cardinality(UNION {part[k] : k \in K})
  BY <1>1, CountGrouped
<1> QED BY <1>2, <1>3, Zenon DEF K

\* What the code computes for the whole, or for one group, passes the
\* contract, and passes it again after a round trip through text.
LEMMA PartAccepted ==
  ASSUME NEW rs, Sound(rs), NEW P \in SUBSET DOMAIN rs, ~ TooMuch(rs, P),
         NEW m, m = Metrics(rs, P)
  PROVE  MetricsAccepted(m) /\ MetricsAccepted(Snapshot(m))
<1> DEFINE n == Cardinality(P)
           K == CostIdentities(rs, P)
           bucket(identity) == Bucket(rs, Sharing(rs, P, identity), identity)
           w == Snapshot(m)
<1>1. /\ m.duration = SumFunction(Durations(rs, P))
      /\ \A f \in TokenField : m.tokens[f] = TokenSummary(rs, P, f)
      /\ DOMAIN m.costs = K /\ \A identity \in K : m.costs[identity] = bucket(identity)
  BY DEF Metrics
<1>2. /\ w.counts = m.counts /\ w.duration = m.duration /\ w.tokens = m.tokens
      /\ DOMAIN w.costs = K /\ \A identity \in K : w.costs[identity] = SnapshotBucket(bucket(identity))
  BY <1>1 DEF Snapshot, Metrics
<1>3. /\ m.counts["invocation_count"] = n
      /\ m.counts["succeeded"] + m.counts["failed"] + m.counts["cancelled"] = n
      /\ m.counts["retry_of_invocation_id"] + m.counts["fallback_from_invocation_id"] <= n
  BY CountFacts
<1>4. n <= MaxRecords
  BY IdentityFacts
<1>5. m.duration <= MaxInteger
  <2>1. SumFunction(Durations(rs, P)) \in Nat /\ ~ (SumFunction(Durations(rs, P)) > MaxInteger)
    BY IntegersOfPart DEF TooMuch
  <2> QED BY <1>1, <2>1, UsageAssumption
<1>6. \A f \in TokenField : /\ TokenSummaryAccepted(m.tokens[f])
                            /\ m.tokens[f].observed + m.tokens[f].unavailable = n
  BY <1>1, TokenFacts
<1>7. \A identity \in K : /\ BucketAccepted(identity, m.costs[identity])
                          /\ BucketAccepted(identity, w.costs[identity])
                          /\ m.costs[identity].invocation_count = Cardinality(Sharing(rs, P, identity))
                          /\ w.costs[identity].invocation_count = Cardinality(Sharing(rs, P, identity))
  <2> TAKE identity \in K
  <2> DEFINE T == Sharing(rs, P, identity)
             b == Bucket(rs, T, identity)
  <2>1. /\ b.invocation_count = Cardinality(T)
        /\ BucketAccepted(identity, b) /\ BucketAccepted(identity, SnapshotBucket(b))
    BY BucketFacts
  <2>2. SnapshotBucket(b).invocation_count = b.invocation_count
    BY DEF SnapshotBucket, Bucket
  <2>3. m.costs[identity] = b /\ w.costs[identity] = SnapshotBucket(b)
    BY <1>1, <1>2
  <2> HIDE DEF b, T, w
  <2> QED BY <2>1, <2>2, <2>3 DEF T
<1>8. ASSUME NEW costs, DOMAIN costs = K,
             \A identity \in K : costs[identity].invocation_count = Cardinality(Sharing(rs, P, identity))
      PROVE  SumFunction([identity \in DOMAIN costs |-> costs[identity].invocation_count]) = n
  <2> DEFINE s == [identity \in DOMAIN costs |-> costs[identity].invocation_count]
  <2>1. DOMAIN s = K /\ \A identity \in K : s[identity] = Cardinality(Sharing(rs, P, identity))
    BY <1>8
  <2> HIDE DEF s
  <2>2. SumFunctionOnSet(s, K) = n
    BY <2>1, CostCount
  <2>3. SumFunction(s) = n
    BY <2>1, <2>2, Zenon DEF SumFunction
  <2> QED BY <2>3 DEF s
<1>9. /\ SumFunction([identity \in DOMAIN m.costs |-> m.costs[identity].invocation_count]) = n
      /\ SumFunction([identity \in DOMAIN w.costs |-> w.costs[identity].invocation_count]) = n
  BY <1>1, <1>2, <1>7, <1>8
<1> HIDE DEF w, n, K, bucket
<1>10. MetricsAccepted(m)
  BY <1>1, <1>3, <1>4, <1>5, <1>6, <1>7, <1>9 DEF MetricsAccepted
<1>11. MetricsAccepted(w)
  BY <1>2, <1>3, <1>4, <1>5, <1>6, <1>7, <1>9 DEF MetricsAccepted
<1> QED BY <1>10, <1>11 DEF w

\* The positions of the groups split the selection.
LEMMA GroupFacts ==
  ASSUME NEW rs, Sound(rs)
  PROVE  /\ IsFiniteSet(GroupKeys(rs))
         /\ \A key : GroupPositions(rs, key) \in SUBSET DOMAIN rs
         /\ \A key \in GroupKeys(rs) : (key[2] = None) # (key[3] = None)
         /\ \A a, b : a # b => GroupPositions(rs, a) \cap GroupPositions(rs, b) = {}
         /\ \A i \in DOMAIN rs : \E key \in GroupKeys(rs) : i \in GroupPositions(rs, key)
<1>1. IsFiniteSet(GroupKeys(rs))
  <2> DEFINE f == [i \in DOMAIN rs |-> GroupKey(rs[i])]
  <2>1. GroupKeys(rs) = Image(f, DOMAIN rs)
    BY DEF GroupKeys, Image
  <2>2. IsFiniteSet(DOMAIN rs)
    BY PositionsFinite DEF Sound
  <2> QED BY <2>1, <2>2, ImageFinite
<1>2. \A key : GroupPositions(rs, key) \in SUBSET DOMAIN rs
  BY DEF GroupPositions
<1>3. ASSUME NEW key \in GroupKeys(rs) PROVE (key[2] = None) # (key[3] = None)
  <2>1. PICK i \in DOMAIN rs : key = GroupKey(rs[i])
    BY DEF GroupKeys
  <2>2. (rs[i].model = None) # (rs[i].model_unavailable_reason = None)
    BY DEF Sound, RecordAccepted, MetadataAccepted
  <2>3. key[2] = rs[i].model /\ key[3] = rs[i].model_unavailable_reason
    BY <2>1 DEF GroupKey
  <2> QED BY <2>2, <2>3
<1>4. \A a, b : a # b => GroupPositions(rs, a) \cap GroupPositions(rs, b) = {}
  BY DEF GroupPositions
<1>5. \A i \in DOMAIN rs : \E key \in GroupKeys(rs) : i \in GroupPositions(rs, key)
  BY DEF GroupPositions, GroupKeys
<1> QED BY <1>1, <1>2, <1>3, <1>4, <1>5

-----------------------------------------------------------------------------
(* The groups add up to the whole *)

\* The positions W, split over groups.
Split(rs, K, part, W) ==
  /\ K \in SUBSET GroupKeys(rs) /\ W \in SUBSET DOMAIN rs
  /\ \A key \in K : part[key] \in SUBSET GroupPositions(rs, key) /\ part[key] \in SUBSET W
  /\ \A i \in W : \E key \in K : i \in part[key]

LEMMA SplitFacts ==
  ASSUME NEW rs, Sound(rs), NEW K, NEW part, NEW W, Split(rs, K, part, W)
  PROVE  /\ IsFiniteSet(K) /\ IsFiniteSet(W)
         /\ \A k \in K : IsFiniteSet(part[k])
         /\ \A k, l \in K : k # l => part[k] \cap part[l] = {}
         /\ W = UNION {part[k] : k \in K}
<1>1. IsFiniteSet(K)
  BY GroupFacts, FS_Subset DEF Split
<1>2. \A P \in SUBSET DOMAIN rs : IsFiniteSet(P)
  BY PositionsFinite DEF Sound
<1>3. IsFiniteSet(W) /\ \A k \in K : IsFiniteSet(part[k])
  BY <1>2 DEF Split
<1>4. \A k, l \in K : k # l => part[k] \cap part[l] = {}
  BY GroupFacts DEF Split
<1>5. W = UNION {part[k] : k \in K}
  BY DEF Split
<1> QED BY <1>1, <1>3, <1>4, <1>5

LEMMA SplitCount ==
  ASSUME NEW rs, Sound(rs), NEW K, NEW part, NEW W, Split(rs, K, part, W),
         NEW s, DOMAIN s = K, \A key \in K : s[key] = Cardinality(part[key])
  PROVE  SumFunction(s) = Cardinality(W)
<1>1. SumFunctionOnSet(s, K) = Cardinality(UNION {part[k] : k \in K})
  BY SplitFacts, CountGrouped
<1>2. W = UNION {part[k] : k \in K}
  BY SplitFacts
<1> QED BY <1>1, <1>2, Zenon DEF SumFunction

LEMMA SplitSum ==
  ASSUME NEW rs, Sound(rs), NEW K, NEW part, NEW W, Split(rs, K, part, W),
         NEW f, \A i \in W : f[i] \in Nat,
         NEW s, DOMAIN s = K, \A key \in K : s[key] = SumFunctionOnSet(f, part[key])
  PROVE  SumFunction(s) = SumFunctionOnSet(f, W)
<1>1. \A k \in K : \A x \in part[k] : f[x] \in Nat
  BY DEF Split
<1>2. SumFunctionOnSet(s, K) = SumFunctionOnSet(f, UNION {part[k] : k \in K})
  BY <1>1, SplitFacts, SumGrouped
<1>3. W = UNION {part[k] : k \in K}
  BY SplitFacts
<1> QED BY <1>2, <1>3, Zenon DEF SumFunction

\* The groups of a summary, and their numbers.
After(rs) == [key \in GroupKeys(rs) |-> Snapshot(Metrics(rs, GroupPositions(rs, key)))]

LEMMA AfterFacts ==
  ASSUME NEW rs
  PROVE  /\ DOMAIN After(rs) = GroupKeys(rs)
         /\ \A key \in GroupKeys(rs) :
              LET P == GroupPositions(rs, key)
              IN /\ \A field \in CountFields :
                      After(rs)[key].counts[field] = Cardinality(Counted(rs, P, field))
                 /\ After(rs)[key].duration = SumFunction(Durations(rs, P))
                 /\ \A f \in TokenField : After(rs)[key].tokens[f] = TokenSummary(rs, P, f)
                 /\ DOMAIN After(rs)[key].costs = CostIdentities(rs, P)
                 /\ \A identity \in CostIdentities(rs, P) :
                      After(rs)[key].costs[identity] =
                        SnapshotBucket(Bucket(rs, Sharing(rs, P, identity), identity))
  BY DEF After, Snapshot, Metrics

LEMMA CountsRollUp ==
  ASSUME NEW rs, Sound(rs), NEW field \in CountFields,
         NEW s, DOMAIN s = GroupKeys(rs),
         \A key \in GroupKeys(rs) : s[key] = Cardinality(Counted(rs, GroupPositions(rs, key), field))
  PROVE  SumFunction(s) = Cardinality(Counted(rs, DOMAIN rs, field))
<1> DEFINE part == [key \in GroupKeys(rs) |-> Counted(rs, GroupPositions(rs, key), field)]
           W == Counted(rs, DOMAIN rs, field)
<1>1. \A P : Counted(rs, P, field) \in SUBSET P
  BY DEF Counted
<1>2. \A key : \A i \in GroupPositions(rs, key) :
        i \in Counted(rs, GroupPositions(rs, key), field) <=> i \in W
  BY DEF Counted, GroupPositions
<1>3. Split(rs, GroupKeys(rs), part, W)
  <2>1. \A key \in GroupKeys(rs) : part[key] = Counted(rs, GroupPositions(rs, key), field)
    OBVIOUS
  <2>2. W \in SUBSET DOMAIN rs
    BY <1>1
  <2>3. \A key \in GroupKeys(rs) : part[key] \in SUBSET GroupPositions(rs, key) /\ part[key] \in SUBSET W
    BY <1>1, <1>2, <2>1
  <2>4. \A i \in W : \E key \in GroupKeys(rs) : i \in part[key]
    <3> HIDE DEF W, part
    <3> QED BY <1>2, <2>1, <2>2, GroupFacts
  <2> HIDE DEF W, part
  <2> QED BY <2>2, <2>3, <2>4 DEF Split
<1>4. \A key \in GroupKeys(rs) : s[key] = Cardinality(part[key])
  OBVIOUS
<1> HIDE DEF part, W
<1>5. SumFunction(s) = Cardinality(W)
  BY <1>3, <1>4, SplitCount
<1> QED BY <1>5 DEF W

LEMMA DurationsRollUp ==
  ASSUME NEW rs, Sound(rs), NEW s, DOMAIN s = GroupKeys(rs),
         \A key \in GroupKeys(rs) : s[key] = SumFunction(Durations(rs, GroupPositions(rs, key)))
  PROVE  SumFunction(s) = SumFunction(Durations(rs, DOMAIN rs))
<1> DEFINE part == [key \in GroupKeys(rs) |-> GroupPositions(rs, key)]
           f == Durations(rs, DOMAIN rs)
<1>1. Split(rs, GroupKeys(rs), part, DOMAIN rs)
  <2>1. \A key \in GroupKeys(rs) : part[key] = GroupPositions(rs, key)
    OBVIOUS
  <2> HIDE DEF part
  <2> QED BY <2>1, GroupFacts DEF Split
<1>2. DOMAIN f = DOMAIN rs /\ \A i \in DOMAIN rs : f[i] = rs[i].duration_ms /\ f[i] \in Nat
  BY IntegerFields
<1>3. ASSUME NEW key \in GroupKeys(rs) PROVE s[key] = SumFunctionOnSet(f, part[key])
  <2> DEFINE P == GroupPositions(rs, key)
             g == Durations(rs, P)
  <2>1. P \in SUBSET DOMAIN rs /\ IsFiniteSet(P)
    BY GroupFacts, PositionsFinite DEF Sound
  <2>2. DOMAIN g = P /\ \A i \in P : g[i] = rs[i].duration_ms
    BY <2>1, IntegerFields
  <2>3. s[key] = SumFunction(g) /\ part[key] = P
    OBVIOUS
  <2> HIDE DEF P, g, f, part
  <2>4. \A i \in P : g[i] \in Nat /\ g[i] = f[i]
    BY <1>2, <2>1, <2>2
  <2>5. SumFunctionOnSet(g, P) = SumFunctionOnSet(f, P)
    BY <2>1, <2>4, SumSame
  <2> QED BY <2>2, <2>3, <2>5, Zenon DEF SumFunction
<1> HIDE DEF part
<1>4. SumFunction(s) = SumFunctionOnSet(f, DOMAIN rs)
  <2> HIDE DEF f
  <2> QED BY <1>1, <1>2, <1>3, SplitSum
<1> QED BY <1>2, <1>4, Zenon DEF SumFunction

LEMMA TokensSplit ==
  ASSUME NEW rs, Sound(rs), NEW f
  PROVE  /\ Split(rs, {key \in GroupKeys(rs) : Observing(rs, GroupPositions(rs, key), f) # {}},
                  [key \in GroupKeys(rs) |-> Observing(rs, GroupPositions(rs, key), f)],
                  Observing(rs, DOMAIN rs, f))
         /\ Split(rs, GroupKeys(rs),
                  [key \in GroupKeys(rs) |-> Observing(rs, GroupPositions(rs, key), f)],
                  Observing(rs, DOMAIN rs, f))
         /\ Split(rs, GroupKeys(rs),
                  [key \in GroupKeys(rs) |-> Missing(rs, GroupPositions(rs, key), f)],
                  Missing(rs, DOMAIN rs, f))
<1> DEFINE seen == {key \in GroupKeys(rs) : Observing(rs, GroupPositions(rs, key), f) # {}}
           part == [key \in GroupKeys(rs) |-> Observing(rs, GroupPositions(rs, key), f)]
           rest == [key \in GroupKeys(rs) |-> Missing(rs, GroupPositions(rs, key), f)]
           W == Observing(rs, DOMAIN rs, f)
           U == Missing(rs, DOMAIN rs, f)
<1>1. /\ \A key \in GroupKeys(rs) : part[key] = {i \in GroupPositions(rs, key) : f \in DOMAIN rs[i].usage.tokens}
      /\ W = {i \in DOMAIN rs : f \in DOMAIN rs[i].usage.tokens}
  BY DEF Observing
<1>2. /\ \A key \in GroupKeys(rs) : rest[key] = {i \in GroupPositions(rs, key) : f \notin DOMAIN rs[i].usage.tokens}
      /\ U = {i \in DOMAIN rs : f \notin DOMAIN rs[i].usage.tokens}
  BY DEF Observing, Missing
<1>3. seen = {key \in GroupKeys(rs) : part[key] # {}}
  OBVIOUS
<1> HIDE DEF seen, part, rest, W, U
<1>4. Split(rs, GroupKeys(rs), part, W)
  BY <1>1, GroupFacts DEF Split
<1>5. Split(rs, GroupKeys(rs), rest, U)
  BY <1>2, GroupFacts DEF Split
<1>6. Split(rs, seen, part, W)
  BY <1>3, <1>4 DEF Split
<1> QED BY <1>4, <1>5, <1>6 DEF seen, part, rest, W, U

LEMMA TokensOfGroups ==
  ASSUME NEW rs, Sound(rs), ~ TooMuch(rs, DOMAIN rs), NEW f \in TokenField
  PROVE  \A key \in GroupKeys(rs) :
           LET t == After(rs)[key].tokens[f]
               P == GroupPositions(rs, key)
           IN /\ t.observed = Cardinality(Observing(rs, P, f))
              /\ t.unavailable = Cardinality(Missing(rs, P, f))
              /\ t.total = None <=> Observing(rs, P, f) = {}
              /\ t.total # None => t.total = SumFunctionOnSet(Tokens(rs, DOMAIN rs, f), Observing(rs, P, f))
<1> TAKE key \in GroupKeys(rs)
<1> DEFINE P == GroupPositions(rs, key)
           t == After(rs)[key].tokens[f]
           g == Tokens(rs, P, f)
           w == Tokens(rs, DOMAIN rs, f)
           T == Observing(rs, P, f)
<1>1. t = TokenSummary(rs, P, f)
  BY AfterFacts
<1>2. P \in SUBSET DOMAIN rs
  BY GroupFacts
<1>3. ~ TooMuch(rs, P)
  BY <1>2, OverflowExact
<1> HIDE DEF P, t
<1>4. t.observed = Cardinality(T) /\ t.unavailable = Cardinality(Missing(rs, P, f))
  BY <1>1, TokenSummaryFacts
<1>5. (t.total = None <=> T = {}) /\ (t.total # None => t.total = SumFunction(g))
  BY <1>1, <1>2, <1>3, TokenFacts
<1>6. DOMAIN g = T
  BY DEF Tokens, Observing
<1>7. \A i \in DOMAIN g : g[i] = rs[i].usage.tokens[f] /\ rs[i].usage.tokens[f] \in Nat
  BY <1>2, IntegerFields, Zenon
<1>8. \A i \in T : w[i] = rs[i].usage.tokens[f]
  BY <1>2 DEF Tokens, Observing
<1>9. T \in SUBSET DOMAIN rs /\ IsFiniteSet(T)
  <2>1. T \in SUBSET DOMAIN rs
    BY <1>2 DEF Observing
  <2> QED BY <2>1, PositionsFinite DEF Sound
<1> HIDE DEF g, w, T
<1>10. \A i \in T : g[i] \in Nat /\ g[i] = w[i]
  BY <1>6, <1>7, <1>8
<1>11. SumFunctionOnSet(g, T) = SumFunctionOnSet(w, T)
  BY <1>9, <1>10, SumSame
<1>12. SumFunction(g) = SumFunctionOnSet(w, T)
  BY <1>6, <1>11, Zenon DEF SumFunction
<1> QED BY <1>4, <1>5, <1>12 DEF P, t, w, T

LEMMA TokensRolledUp ==
  ASSUME NEW rs, Sound(rs), ~ TooMuch(rs, DOMAIN rs), NEW f \in TokenField,
         NEW m, m.tokens[f] = TokenSummary(rs, DOMAIN rs, f)
  PROVE  TokensRollUp(m, After(rs), f)
<1> DEFINE groups == After(rs)
           K == GroupKeys(rs)
           seen == {key \in DOMAIN groups : groups[key].tokens[f].total # None}
           part == [key \in K |-> Observing(rs, GroupPositions(rs, key), f)]
           rest == [key \in K |-> Missing(rs, GroupPositions(rs, key), f)]
           W == Observing(rs, DOMAIN rs, f)
           w == Tokens(rs, DOMAIN rs, f)
           observed == [key \in DOMAIN groups |-> groups[key].tokens[f].observed]
           unavailable == [key \in DOMAIN groups |-> groups[key].tokens[f].unavailable]
           total == [key \in seen |-> groups[key].tokens[f].total]
<1>1. DOMAIN groups = K
  BY AfterFacts
<1>2. \A key \in K : /\ groups[key].tokens[f].observed = Cardinality(part[key])
                     /\ groups[key].tokens[f].unavailable = Cardinality(rest[key])
                     /\ groups[key].tokens[f].total = None <=> part[key] = {}
                     /\ groups[key].tokens[f].total # None =>
                          groups[key].tokens[f].total = SumFunctionOnSet(w, part[key])
  BY TokensOfGroups
<1>3. seen = {key \in K : Observing(rs, GroupPositions(rs, key), f) # {}}
  BY <1>1, <1>2
<1>4. Split(rs, seen, part, W) /\ Split(rs, K, part, W) /\ Split(rs, K, rest, Missing(rs, DOMAIN rs, f))
  <2>1. Split(rs, {key \in K : Observing(rs, GroupPositions(rs, key), f) # {}}, part, W)
    BY TokensSplit
  <2>2. Split(rs, seen, part, W)
    BY <1>3, <2>1, Zenon
  <2>3. Split(rs, K, part, W)
    BY TokensSplit
  <2>4. Split(rs, K, rest, Missing(rs, DOMAIN rs, f))
    BY TokensSplit
  <2> QED BY <2>2, <2>3, <2>4
<1>5. DOMAIN w = W /\ \A i \in W : w[i] \in Nat
  <2>1. DOMAIN rs \in SUBSET DOMAIN rs
    OBVIOUS
  <2>2. \A i \in DOMAIN w : w[i] = rs[i].usage.tokens[f] /\ rs[i].usage.tokens[f] \in Nat
    BY <2>1, IntegerFields, Zenon
  <2>3. DOMAIN w = W
    BY DEF Tokens, Observing
  <2> QED BY <2>2, <2>3
<1>6. /\ m.tokens[f].observed = Cardinality(W)
      /\ m.tokens[f].unavailable = Cardinality(Missing(rs, DOMAIN rs, f))
      /\ m.tokens[f].total = None <=> W = {}
      /\ m.tokens[f].total # None => m.tokens[f].total = SumFunction(w)
  <2>1. DOMAIN rs \in SUBSET DOMAIN rs
    OBVIOUS
  <2> QED BY <2>1, TokenSummaryFacts, TokenFacts
<1>7. /\ DOMAIN observed = K /\ \A key \in K : observed[key] = Cardinality(part[key])
      /\ DOMAIN unavailable = K /\ \A key \in K : unavailable[key] = Cardinality(rest[key])
      /\ DOMAIN total = seen /\ \A key \in seen : total[key] = SumFunctionOnSet(w, part[key])
  BY <1>1, <1>2
<1> HIDE DEF seen, part, rest, W, w, observed, unavailable, total, groups, K
<1>8. SumFunction(observed) = Cardinality(W)
  BY <1>4, <1>7, SplitCount
<1>9. SumFunction(unavailable) = Cardinality(Missing(rs, DOMAIN rs, f))
  BY <1>4, <1>7, SplitCount
<1>10. SumFunction(total) = SumFunctionOnSet(w, W)
  BY <1>4, <1>5, <1>7, SplitSum
<1>11. SumFunction(w) = SumFunctionOnSet(w, W)
  BY <1>5, Zenon DEF SumFunction
<1>12. W = {} <=> seen = {}
  <2>1. W = {} => seen = {}
    <3> SUFFICES ASSUME W = {}, NEW key \in seen PROVE FALSE
      OBVIOUS
    <3>1. key \in K /\ part[key] # {}
      BY <1>3 DEF part, K
    <3>2. part[key] \in SUBSET W
      BY <1>4 DEF Split
    <3> QED BY <3>1, <3>2
  <2>2. seen = {} => W = {}
    BY <1>4 DEF Split
  <2> QED BY <2>1, <2>2
<1>13. /\ m.tokens[f].observed = SumFunction(observed)
       /\ m.tokens[f].unavailable = SumFunction(unavailable)
       /\ IF m.tokens[f].total = None THEN seen = {}
          ELSE seen # {} /\ m.tokens[f].total = SumFunction(total)
  BY <1>6, <1>8, <1>9, <1>10, <1>11, <1>12
<1> QED BY <1>13, Zenon DEF TokensRollUp, seen, observed, unavailable, total, groups

\* Two decimals that are the same number of finer units have the same value.
LEMMA SameUnits ==
  ASSUME NEW c \in Decimals, NEW d \in Decimals, NEW s \in Nat, c.scale <= s, d.scale <= s,
         c.coef * Tens[s - c.scale] = d.coef * Tens[s - d.scale]
  PROVE  SameValue(c, d)
<1> DEFINE x == c.coef
           y == d.coef
           a == Tens[s - c.scale]
           b == Tens[s - d.scale]
           t == Tens[c.scale]
           u == Tens[d.scale]
<1>1. /\ c.scale \in Nat /\ d.scale \in Nat /\ s - c.scale \in Nat /\ s - d.scale \in Nat
      /\ x \in Nat /\ y \in Nat
  BY DEF Decimals
<1>2. /\ a \in Nat /\ a >= 1 /\ b \in Nat /\ b >= 1 /\ t \in Nat /\ u \in Nat
  BY <1>1, TensFacts
<1>3. t * a = u * b
  <2>1. Tens[s] = t * a /\ Tens[s] = u * b
    BY <1>1, TensSplit
  <2> QED BY <2>1
<1>4. x * a = y * b
  OBVIOUS
<1> HIDE DEF x, y, a, b, t, u
<1>7. (x * u) * (a * b) = (y * t) * (a * b)
  <2>1. \A p, q, r, v \in Nat : (p * q) * (r * v) = (p * r) * (q * v)
    OBVIOUS
  <2>2. \A p, q, r, v \in Nat : (p * q) * (r * v) = (p * v) * (q * r)
    OBVIOUS
  <2>3. (x * u) * (a * b) = (x * a) * (u * b)
    BY <1>1, <1>2, <2>1
  <2>4. (y * t) * (a * b) = (y * b) * (t * a)
    BY <1>1, <1>2, <2>2
  <2> QED BY <1>3, <1>4, <2>3, <2>4, Zenon
<1>8. a * b \in Nat /\ a * b >= 1 /\ x * u \in Nat /\ y * t \in Nat
  <2>1. \A p, q \in Nat : p * q \in Nat
    OBVIOUS
  <2>2. a * b >= 1
    <3>1. a * 1 <= a * b
      BY <1>2, TimesMonotone
    <3> QED BY <1>2, <2>1, <3>1
  <2> QED BY <1>1, <1>2, <2>1, <2>2
<1>9. x * u = y * t
  <2> DEFINE p == a * b
             q == x * u
             r == y * t
  <2>1. p \in Nat /\ p >= 1 /\ q \in Nat /\ r \in Nat /\ q * p = r * p
    BY <1>7, <1>8
  <2> HIDE DEF p, q, r
  <2>2. p * q = p * r
    BY <2>1
  <2>3. q = r
    BY <2>1, <2>2, TimesMonotone
  <2> QED BY <2>3 DEF q, r
<1> QED BY <1>9 DEF SameValue, x, y, t, u

\* The amount of a group, in the finest units of the whole.
LEMMA GroupMoney ==
  ASSUME NEW rs, Sound(rs), ~ TooMuch(rs, DOMAIN rs),
         NEW identity, identity.cost_type \in Monetary,
         NEW U, U = Sharing(rs, DOMAIN rs, identity), NEW s, s = Finest(Amounts(rs), U),
         NEW key \in GroupKeys(rs), identity \in DOMAIN After(rs)[key].costs,
         NEW T, T = Sharing(rs, GroupPositions(rs, key), identity),
         NEW w, w = After(rs)[key].costs[identity].amount
  PROVE  /\ Short(w) /\ w \in Decimals /\ w.scale <= s
         /\ w.coef * Tens[s - w.scale] = SumFunctionOnSet(InUnits(Amounts(rs), U, s), T)
<1> DEFINE a == Amounts(rs)
           P == GroupPositions(rs, key)
           e == ExactMoney(a, T)
           b == Bucket(rs, Sharing(rs, P, identity), identity)
<1>1. P \in SUBSET DOMAIN rs /\ ~ TooMuch(rs, P)
  <2>1. P \in SUBSET DOMAIN rs
    BY GroupFacts
  <2> HIDE DEF P
  <2> QED BY <2>1, OverflowExact
<1>2. identity \in CostIdentities(rs, P) /\ w = SnapshotBucket(b).amount
  BY AfterFacts
<1>3. b.amount # None /\ b.amount = e /\ e \in Decimals /\ DecimalAccepted(e)
  <2> HIDE DEF P, b
  <2>1. T = Sharing(rs, P, identity) /\ b = Bucket(rs, T, identity)
    BY DEF P, b
  <2> QED BY <1>1, <1>2, <2>1, BucketFacts
<1>4. w = Written(e)
  <2>1. SnapshotBucket(b).amount = IF b.amount = None THEN None ELSE Written(b.amount)
    BY DEF SnapshotBucket, Bucket
  <2> QED BY <1>2, <1>3, <2>1
<1>5. /\ T \in SUBSET U /\ IsFiniteSet(T) /\ IsFiniteSet(U)
      /\ \A i \in U : a[i] \in Decimals
  <2>1. T \in SUBSET U
    BY <1>1 DEF Sharing
  <2>2. DOMAIN rs \in SUBSET DOMAIN rs
    OBVIOUS
  <2>3. IsFiniteSet(U) /\ \A i \in U : a[i] \in Decimals
    BY <2>2, SharingFacts
  <2> QED BY <2>1, <2>3, FS_Subset
<1> HIDE DEF a, P, b
<1>6. s \in Nat /\ \A i \in U : a[i].scale <= s
  BY <1>5, FinestFacts DEF a
<1>7. /\ e.scale = Finest(a, T) /\ e.scale \in Nat /\ e.scale <= s
  <2>1. e.scale <= ExactMoney(a, U).scale
    BY <1>5, ExactMoneyPart
  <2>2. ExactMoney(a, U).scale = s
    BY <1>5, ExactMoneyFacts DEF a
  <2>3. e.scale = Finest(a, T)
    BY <1>5, ExactMoneyFacts
  <2> QED BY <1>3, <2>1, <2>2, <2>3 DEF Decimals
<1>8. Units(a, T, s) = Tens[s - e.scale] * e.coef
  BY <1>5, <1>6, <1>7, UnitsRefined
<1>9. Units(a, T, s) = SumFunctionOnSet(InUnits(a, U, s), T)
  <2> DEFINE f == InUnits(a, T, s)
             g == InUnits(a, U, s)
  <2>1. \A i \in U : g[i] \in Nat
    BY <1>5, <1>6, UnitsFacts
  <2>2. \A i \in T : f[i] = g[i] /\ f[i] \in Nat
    BY <1>5, <2>1 DEF InUnits
  <2> HIDE DEF f, g
  <2>3. SumFunctionOnSet(f, T) = SumFunctionOnSet(g, T)
    BY <1>5, <2>2, SumSame
  <2> QED BY <2>3 DEF Units, f, g
<1> HIDE DEF e
<1>10. /\ w \in Decimals /\ Short(w) /\ w.scale <= e.scale /\ w.coef \in Nat /\ w.scale \in Nat
       /\ e.scale - w.scale \in Nat /\ e.coef = w.coef * Tens[e.scale - w.scale]
  BY <1>3, <1>4, WrittenFacts, WrittenAccepted DEF Decimals
<1>11. w.coef * Tens[s - w.scale] = Tens[s - e.scale] * e.coef
  <2>1. s - e.scale \in Nat /\ s - w.scale = (e.scale - w.scale) + (s - e.scale)
    BY <1>6, <1>7, <1>10
  <2>2. Tens[s - w.scale] = Tens[e.scale - w.scale] * Tens[s - e.scale]
    <3>1. \A p, q \in Nat : Tens[p + q] = Tens[p] * Tens[q]
      BY TensAdd
    <3>2. Tens[(e.scale - w.scale) + (s - e.scale)] = Tens[e.scale - w.scale] * Tens[s - e.scale]
      BY <1>10, <2>1, <3>1
    <3> QED BY <2>1, <3>2
  <2>3. Tens[e.scale - w.scale] \in Nat /\ Tens[s - e.scale] \in Nat
    BY <1>10, <2>1, TensFacts
  <2>4. \A x, y, z \in Nat : x * (y * z) = z * (x * y)
    OBVIOUS
  <2>5. w.coef * (Tens[e.scale - w.scale] * Tens[s - e.scale]) =
          Tens[s - e.scale] * (w.coef * Tens[e.scale - w.scale])
    BY <1>10, <2>3, <2>4, SMTT(30)
  <2> QED BY <1>10, <2>2, <2>5
<1>12. w.scale <= s
  BY <1>6, <1>7, <1>10
<1> QED BY <1>8, <1>9, <1>10, <1>11, <1>12 DEF a

\* The groups with a bucket of one identity.
Sharers(rs, identity) == {key \in GroupKeys(rs) : identity \in DOMAIN After(rs)[key].costs}

\* order lists S without repetition.
Listing(order, n, S) ==
  /\ n \in Nat /\ \A i \in 1 .. n : order[i] \in S
  /\ \A i, j \in 1 .. n : order[i] = order[j] => i = j
  /\ \A x \in S : \E i \in 1 .. n : order[i] = x

AmountsListed(amount, rs, identity, order, n) ==
  \A i \in 1 .. n : amount[i] = After(rs)[order[i]].costs[identity].amount

\* Any listing of the groups adds up to the whole, however their amounts were
\* shortened: the roll-up of the money.
LEMMA ListedMoney ==
  ASSUME NEW rs, Sound(rs), ~ TooMuch(rs, DOMAIN rs),
         NEW identity, identity.cost_type \in Monetary,
         NEW U, U = Sharing(rs, DOMAIN rs, identity),
         NEW sharing, sharing = Sharers(rs, identity),
         NEW N, NEW order, Listing(order, N, sharing),
         NEW amount, AmountsListed(amount, rs, identity, order, N)
  PROVE  LET totals == RunningTotals(amount, 1 .. N, RollUpPrecision)
         IN  /\ \A n \in 1 .. N : DecimalAccepted(totals[n])
             /\ SameValue(Written(ExactMoney(Amounts(rs), U)), totals[N])
<1> DEFINE a == Amounts(rs)
           s == Finest(a, U)
           e == ExactMoney(a, U)
           d == ExactMoney(amount, 1 .. N)
           f == InUnits(a, U, s)
           g == InUnits(amount, 1 .. N, s)
           part == [key \in sharing |-> Sharing(rs, GroupPositions(rs, key), identity)]
           in == [key \in sharing |-> SumFunctionOnSet(f, part[key])]
<1>0. sharing = {key \in GroupKeys(rs) : identity \in DOMAIN After(rs)[key].costs}
  BY DEF Sharers
<1> /\ N \in Nat /\ \A n \in 1 .. N : order[n] \in sharing
    /\ \A n, k \in 1 .. N : order[n] = order[k] => n = k
    /\ \A key \in sharing : \E n \in 1 .. N : order[n] = key
    /\ \A n \in 1 .. N : amount[n] = After(rs)[order[n]].costs[identity].amount
  BY DEF Listing, AmountsListed
<1>1. IsFiniteSet(U) /\ (\A i \in U : a[i] \in Decimals) /\ U \in SUBSET DOMAIN rs
  <2>1. DOMAIN rs \in SUBSET DOMAIN rs
    OBVIOUS
  <2> QED BY <2>1, SharingFacts
<1>2. s \in Nat /\ (\A i \in U : a[i].scale <= s) /\ (\A i \in U : f[i] \in Nat)
  BY <1>1, FinestFacts, UnitsFacts
<1>3. e \in Decimals /\ e.scale = s /\ e.coef = SumFunctionOnSet(f, U)
  BY <1>1, ExactMoneyFacts DEF Units
<1>4. ASSUME NEW n \in 1 .. N
      PROVE  /\ Short(amount[n]) /\ amount[n] \in Decimals /\ amount[n].scale <= s
             /\ g[n] = in[order[n]]
  <2> DEFINE key == order[n]
             w == amount[n]
             T == Sharing(rs, GroupPositions(rs, key), identity)
  <2>1. /\ key \in sharing /\ key \in GroupKeys(rs) /\ identity \in DOMAIN After(rs)[key].costs
        /\ w = After(rs)[key].costs[identity].amount
    BY <1>0
  <2>2. in[key] = SumFunctionOnSet(f, T)
    BY <2>1
  <2>3. g[n] = w.coef * Tens[s - w.scale]
    BY DEF InUnits
  <2> HIDE DEF key, w, T
  <2>4. /\ Short(w) /\ w \in Decimals /\ w.scale <= s
        /\ w.coef * Tens[s - w.scale] = SumFunctionOnSet(f, T)
    BY <2>1, GroupMoney DEF T
  <2> QED BY <2>2, <2>3, <2>4 DEF key, w
<1>5. IsFiniteSet(1 .. N) /\ \A n \in 1 .. N : g[n] \in Nat
  <2>1. 1 \in Int /\ N \in Int
    OBVIOUS
  <2>2. IsFiniteSet(1 .. N)
    BY ONLY <2>1, FS_Interval
  <2> QED BY <1>2, <1>4, <2>2, UnitsFacts
<1>6. Split(rs, sharing, part, U)
  <2>1. \A key \in sharing : part[key] = Sharing(rs, GroupPositions(rs, key), identity)
    OBVIOUS
  <2>2. \A key \in GroupKeys(rs) : DOMAIN After(rs)[key].costs = CostIdentities(rs, GroupPositions(rs, key))
    BY AfterFacts
  <2>3. \A key : \A i \in GroupPositions(rs, key) :
          i \in Sharing(rs, GroupPositions(rs, key), identity) <=> i \in U
    BY DEF Sharing, GroupPositions
  <2>4. \A P : Sharing(rs, P, identity) \in SUBSET P
    BY DEF Sharing
  <2>5. \A i \in U : \E key \in sharing : i \in part[key]
    <3> SUFFICES ASSUME NEW i \in U PROVE \E key \in sharing : i \in part[key]
      OBVIOUS
    <3>1. PICK key \in GroupKeys(rs) : i \in GroupPositions(rs, key)
      BY <1>1, GroupFacts
    <3>2. i \in Sharing(rs, GroupPositions(rs, key), identity)
      BY <2>3, <3>1
    <3>3. identity \in CostIdentities(rs, GroupPositions(rs, key))
      BY <3>2 DEF Sharing, CostIdentities
    <3>4. key \in sharing
      BY <1>0, <2>2, <3>1, <3>3
    <3> QED BY <2>1, <3>2, <3>4
  <2>6. \A key \in sharing : part[key] \in SUBSET GroupPositions(rs, key) /\ part[key] \in SUBSET U
    <3> HIDE DEF part
    <3> QED BY <2>1, <2>3, <2>4
  <2>7. sharing \in SUBSET GroupKeys(rs)
    BY <1>0
  <2> HIDE DEF part
  <2> QED BY <1>1, <2>5, <2>6, <2>7 DEF Split
<1>7. DOMAIN in = sharing /\ \A key \in sharing : in[key] = SumFunctionOnSet(f, part[key])
  OBVIOUS
<1> HIDE DEF a, s, e, d, f, g, part, in
<1>8. SumFunction(in) = SumFunctionOnSet(f, U)
  BY <1>2, <1>6, <1>7, SplitSum
<1>9. SumFunctionOnSet(g, 1 .. N) = SumFunctionOnSet(in, sharing)
  <2>1. SumFunctionOnSet(g, 1 .. N) = SumFunctionOnSet(in, {order[n] : n \in 1 .. N})
    <3>1. \A n \in 1 .. N : g[n] \in Nat /\ g[n] = in[order[n]]
      BY <1>4, <1>5
    <3>2. \A n, k \in 1 .. N : order[n] = order[k] => n = k
      OBVIOUS
    <3> DEFINE D == 1 .. N
    <3>3. /\ IsFiniteSet(D) /\ \A x \in D : g[x] \in Nat /\ g[x] = in[order[x]]
          /\ \A x, y \in D : order[x] = order[y] => x = y
      BY <1>5, <3>1, <3>2
    <3> HIDE DEF D
    <3>4. SumFunctionOnSet(g, D) = SumFunctionOnSet(in, {order[x] : x \in D})
      BY ONLY <3>3, SumRenamed
    <3> QED BY <3>4, Zenon DEF D
  <2>2. {order[n] : n \in 1 .. N} = sharing
    OBVIOUS
  <2> QED BY <2>1, <2>2, Zenon
<1>10. Units(amount, 1 .. N, s) = e.coef
  <2>1. SumFunction(in) = SumFunctionOnSet(in, sharing)
    BY <1>7, Zenon DEF SumFunction
  <2> QED BY <1>3, <1>8, <1>9, <2>1 DEF Units, g
<1>11. d \in Decimals /\ d.scale = Finest(amount, 1 .. N) /\ d.coef \in Nat /\ d.scale \in Nat
  BY <1>4, <1>5, ExactMoneyFacts DEF Decimals, d
<1>12. d.scale <= s
  <2>1. d.scale = 0 \/ \E n \in 1 .. N : d.scale = amount[n].scale
    BY <1>4, <1>5, <1>11, FinestFacts, SMTT(30)
  <2> QED BY <1>2, <1>4, <2>1
<1>13. e.coef = Tens[s - d.scale] * d.coef /\ Tens[s - d.scale] \in Nat /\ Tens[s - d.scale] >= 1
  BY <1>2, <1>4, <1>5, <1>10, <1>11, <1>12, UnitsRefined DEF d
<1>14. d.coef <= e.coef
  <2>1. d.coef * 1 <= d.coef * Tens[s - d.scale]
    BY <1>11, <1>13, TimesMonotone
  <2> QED BY <1>11, <1>13, <2>1
<1>15. DecimalAccepted(d)
  <2>1. DecimalAccepted(e)
    <3>1. CASE U = {}
      <4>1. e = Decimal(0, 0)
        BY <3>1, ExactMoneyEmpty DEF e
      <4> QED BY <4>1, ZeroAccepted
    <3>2. CASE U # {}
      <4>1. identity \in CostIdentities(rs, DOMAIN rs)
        BY <3>2 DEF Sharing, CostIdentities
      <4> QED BY <4>1 DEF TooMuch, e, a
    <3> QED BY <3>1, <3>2
  <2> QED BY <1>3, <1>11, <1>12, <1>14, <2>1, AcceptedSmaller
<1> DEFINE totals == RunningTotals(amount, 1 .. N, RollUpPrecision)
<1>16. (\A n \in 1 .. N : DecimalAccepted(totals[n])) /\ totals[N] = d
  <2>1. RollUpPrecision \in Nat /\ RollUpPrecision >= 2 * MaxLength
    BY SummaryAssumption
  <2>2. \A n \in 1 .. N : Short(amount[n])
    BY <1>4
  <2>3. 1 .. N \in SUBSET (1 .. N)
    OBVIOUS
  <2> QED BY <1>15, <2>1, <2>2, <2>3, RunningOverflow DEF d
<1>17. SameValue(Written(e), d)
  <2> DEFINE w == Written(e)
  <2>1. /\ w \in Decimals /\ w.scale <= e.scale
        /\ e.coef = w.coef * Tens[e.scale - w.scale]
    BY <1>3, WrittenFacts
  <2> HIDE DEF w
  <2>2. d.coef * Tens[s - d.scale] = Tens[s - d.scale] * d.coef
    BY <1>11, <1>13
  <2>3. w.scale <= s /\ w.coef * Tens[s - w.scale] = d.coef * Tens[s - d.scale]
    BY <1>3, <1>13, <2>1, <2>2
  <2>4. SameValue(w, d)
    BY <1>2, <1>11, <1>12, <2>1, <2>3, SameUnits
  <2> QED BY <2>4 DEF w
<1> QED BY <1>16, <1>17 DEF e, a

LEMMA SequenceOfSet ==
  ASSUME NEW S, IsFiniteSet(S), NEW order, order = SetToSeq(S), NEW n, n = Cardinality(S)
  PROVE  /\ n \in Nat /\ DOMAIN order = 1 .. n /\ Len(order) = n
         /\ \A i \in 1 .. n : order[i] \in S
         /\ \A i, j \in 1 .. n : order[i] = order[j] => i = j
         /\ \A x \in S : \E i \in 1 .. n : order[i] = x
<1>1. n \in Nat /\ ExistsBijection(1 .. n, S)
  BY FS_CardinalityType
<1>2. \E f \in [1 .. n -> S] : IsInjective(f)
  BY <1>1 DEF ExistsBijection, Bijection, Injection, IsInjective
<1>3. order \in [1 .. n -> S] /\ IsInjective(order)
  BY <1>2, Zenon DEF SetToSeq
<1>4. /\ DOMAIN order = 1 .. n /\ (\A i \in 1 .. n : order[i] \in S)
      /\ \A i, j \in 1 .. n : order[i] = order[j] => i = j
  BY <1>3 DEF IsInjective
<1>5. Len(order) = n
  BY <1>1, <1>3
<1>6. Image(order, 1 .. n) = S
  <2>1. IsFiniteSet(1 .. n) /\ Cardinality(1 .. n) = n
    BY <1>1, FS_Interval
  <2>2. Image(order, 1 .. n) \in SUBSET S
    BY <1>4 DEF Image
  <2> DEFINE D == 1 .. n
  <2>3. IsFiniteSet(D) /\ Cardinality(D) = n /\ \A x, y \in D : order[x] = order[y] => x = y
    BY <1>4, <2>1
  <2> HIDE DEF D
  <2>4. Cardinality(Image(order, D)) = n
    BY <2>3, ImageFacts
  <2>5. Image(order, D) \in SUBSET S
    BY <2>2 DEF D
  <2>6. Image(order, D) = S
    BY <2>4, <2>5, FS_Subset
  <2> QED BY <2>6 DEF D
<1>7. \A x \in S : \E i \in 1 .. n : order[i] = x
  BY <1>6 DEF Image
<1> QED BY <1>1, <1>4, <1>5, <1>7

LEMMA MoneyRolledUp ==
  ASSUME NEW rs, Sound(rs), ~ TooMuch(rs, DOMAIN rs), NEW identity \in CostIdentities(rs, DOMAIN rs),
         NEW b, b = SnapshotBucket(Bucket(rs, Sharing(rs, DOMAIN rs, identity), identity))
  PROVE  MoneyRollsUp(identity, b, After(rs))
<1> DEFINE groups == After(rs)
           U == Sharing(rs, DOMAIN rs, identity)
           whole == Bucket(rs, U, identity)
           sharing == {key \in DOMAIN groups : identity \in DOMAIN groups[key].costs}
           order == SetToSeq(sharing)
           n == Cardinality(sharing)
           amount == [k \in DOMAIN order |-> groups[order[k]].costs[identity].amount]
           totals == RunningTotals(amount, DOMAIN order, RollUpPrecision)
           count == [key \in sharing |-> groups[key].costs[identity].invocation_count]
           part == [key \in sharing |-> Sharing(rs, GroupPositions(rs, key), identity)]
<1>1. /\ sharing = {key \in GroupKeys(rs) : identity \in DOMAIN After(rs)[key].costs}
      /\ sharing = {key \in GroupKeys(rs) : identity \in CostIdentities(rs, GroupPositions(rs, key))}
  BY AfterFacts
<1>2. Split(rs, sharing, part, U)
  <2>1. \A key \in sharing : part[key] = Sharing(rs, GroupPositions(rs, key), identity)
    OBVIOUS
  <2>2. \A key : \A i \in GroupPositions(rs, key) :
          i \in Sharing(rs, GroupPositions(rs, key), identity) <=> i \in U
    BY DEF Sharing, GroupPositions
  <2>3. \A P : Sharing(rs, P, identity) \in SUBSET P
    BY DEF Sharing
  <2>4. \A i \in U : \E key \in sharing : i \in part[key]
    <3> SUFFICES ASSUME NEW i \in U PROVE \E key \in sharing : i \in part[key]
      OBVIOUS
    <3>1. PICK key \in GroupKeys(rs) : i \in GroupPositions(rs, key)
      BY <2>3, GroupFacts
    <3>2. i \in Sharing(rs, GroupPositions(rs, key), identity)
      BY <2>2, <3>1
    <3>3. identity \in CostIdentities(rs, GroupPositions(rs, key))
      BY <3>2 DEF Sharing, CostIdentities
    <3>4. key \in sharing
      BY <1>1, <3>1, <3>3
    <3> QED BY <2>1, <3>2, <3>4
  <2>5. sharing \in SUBSET GroupKeys(rs)
    BY <1>1
  <2> HIDE DEF part, sharing, U
  <2>6. \A key \in sharing : part[key] \in SUBSET GroupPositions(rs, key) /\ part[key] \in SUBSET U
    BY <2>1, <2>2, <2>3
  <2>7. U \in SUBSET DOMAIN rs
    BY <2>3 DEF U
  <2> QED BY <2>4, <2>5, <2>6, <2>7 DEF Split
<1>3. IsFiniteSet(sharing)
  <2> HIDE DEF sharing, part, U
  <2> QED BY <1>2, SplitFacts
<1>4. \A key \in sharing : count[key] = Cardinality(part[key])
  <2> TAKE key \in sharing
  <2>1. key \in GroupKeys(rs) /\ identity \in CostIdentities(rs, GroupPositions(rs, key))
    BY <1>1
  <2>2. groups[key].costs[identity] =
          SnapshotBucket(Bucket(rs, Sharing(rs, GroupPositions(rs, key), identity), identity))
    BY <2>1, AfterFacts
  <2>3. \A T : SnapshotBucket(Bucket(rs, T, identity)).invocation_count = Cardinality(T)
    BY DEF SnapshotBucket, Bucket
  <2>4. count[key] = groups[key].costs[identity].invocation_count
    OBVIOUS
  <2>5. part[key] = Sharing(rs, GroupPositions(rs, key), identity)
    OBVIOUS
  <2> HIDE DEF count, part, groups
  <2> QED BY <2>2, <2>3, <2>4, <2>5
<1>5. b.invocation_count = SumFunction(count)
  <2>1. b.invocation_count = Cardinality(U)
    BY DEF SnapshotBucket, Bucket
  <2>2. DOMAIN count = sharing
    OBVIOUS
  <2> HIDE DEF count, part, sharing, U
  <2>3. SumFunction(count) = Cardinality(U)
    BY <1>2, <1>4, <2>2, SplitCount
  <2> QED BY <2>1, <2>3
<1>6. ASSUME b.amount # None
      PROVE  /\ \A k \in DOMAIN order : DecimalAccepted(totals[k])
             /\ SameValue(b.amount, totals[Len(order)])
  <2>1. /\ identity.cost_type \in Monetary /\ whole.amount # None
        /\ whole.amount = ExactMoney(Amounts(rs), U) /\ b.amount = Written(whole.amount)
    <3>1. DOMAIN rs \in SUBSET DOMAIN rs
      OBVIOUS
    <3>2. b.amount = IF whole.amount = None THEN None ELSE Written(whole.amount)
      BY DEF SnapshotBucket, Bucket
    <3>3. whole.amount # None
      BY <1>6, <3>2
    <3> QED BY <3>1, <3>2, <3>3, BucketFacts
  <2>2. /\ n \in Nat /\ DOMAIN order = 1 .. n /\ Len(order) = n
        /\ \A i \in 1 .. n : order[i] \in sharing
        /\ \A i, j \in 1 .. n : order[i] = order[j] => i = j
        /\ \A x \in sharing : \E i \in 1 .. n : order[i] = x
    <3> HIDE DEF sharing
    <3> QED BY <1>3, SequenceOfSet
  <2>3. \A k \in 1 .. n : amount[k] = After(rs)[order[k]].costs[identity].amount
    BY <2>2
  <2>4. U = Sharing(rs, DOMAIN rs, identity) /\ sharing = Sharers(rs, identity)
    BY <1>1 DEF Sharers
  <2> HIDE DEF sharing, order, n, amount, U, groups
  <2>5. Listing(order, n, sharing)
    BY <2>2 DEF Listing
  <2>6. AmountsListed(amount, rs, identity, order, n)
    BY <2>3 DEF AmountsListed
  <2>7. LET sums == RunningTotals(amount, 1 .. n, RollUpPrecision)
        IN  /\ \A k \in 1 .. n : DecimalAccepted(sums[k])
            /\ SameValue(Written(ExactMoney(Amounts(rs), U)), sums[n])
    <3>1. Sound(rs) /\ ~ TooMuch(rs, DOMAIN rs) /\ identity.cost_type \in Monetary
      BY <2>1
    <3> QED BY ONLY <2>4, <2>5, <2>6, <3>1, ListedMoney
  <2>8. totals = RunningTotals(amount, 1 .. n, RollUpPrecision)
    BY <2>2, Zenon
  <2> HIDE DEF totals, whole
  <2> QED BY <2>1, <2>2, <2>7, <2>8
<1> HIDE DEF totals, count
<1> QED BY <1>5, <1>6, Zenon DEF MoneyRollsUp, totals, count

LEMMA SummaryRollsUp ==
  ASSUME NEW rs, Sound(rs), ~ TooMuch(rs, DOMAIN rs), NEW m, m = Snapshot(Metrics(rs, DOMAIN rs))
  PROVE  RollsUp(m, After(rs))
<1> DEFINE groups == After(rs)
           K == GroupKeys(rs)
<1>0. DOMAIN rs \in SUBSET DOMAIN rs
  OBVIOUS
<1>1. /\ \A field \in CountFields : m.counts[field] = Cardinality(Counted(rs, DOMAIN rs, field))
      /\ m.duration = SumFunction(Durations(rs, DOMAIN rs))
      /\ \A f \in TokenField : m.tokens[f] = TokenSummary(rs, DOMAIN rs, f)
      /\ DOMAIN m.costs = CostIdentities(rs, DOMAIN rs)
      /\ \A identity \in CostIdentities(rs, DOMAIN rs) :
           m.costs[identity] = SnapshotBucket(Bucket(rs, Sharing(rs, DOMAIN rs, identity), identity))
  BY DEF Snapshot, Metrics
<1>2. /\ DOMAIN groups = K
      /\ \A key \in K :
           /\ \A field \in CountFields :
                groups[key].counts[field] = Cardinality(Counted(rs, GroupPositions(rs, key), field))
           /\ groups[key].duration = SumFunction(Durations(rs, GroupPositions(rs, key)))
           /\ DOMAIN groups[key].costs = CostIdentities(rs, GroupPositions(rs, key))
  BY AfterFacts
<1> HIDE DEF groups, K
<1>3. \A field \in CountFields :
        m.counts[field] = SumFunction([key \in DOMAIN groups |-> groups[key].counts[field]])
  <2> TAKE field \in CountFields
  <2> DEFINE s == [key \in DOMAIN groups |-> groups[key].counts[field]]
  <2>1. /\ DOMAIN s = K
        /\ \A key \in K : s[key] = Cardinality(Counted(rs, GroupPositions(rs, key), field))
    BY <1>2
  <2> HIDE DEF s
  <2>2. SumFunction(s) = Cardinality(Counted(rs, DOMAIN rs, field))
    BY <2>1, CountsRollUp DEF K
  <2> QED BY <1>1, <2>2 DEF s
<1>4. m.duration = SumFunction([key \in DOMAIN groups |-> groups[key].duration])
  <2> DEFINE s == [key \in DOMAIN groups |-> groups[key].duration]
  <2>1. /\ DOMAIN s = K
        /\ \A key \in K : s[key] = SumFunction(Durations(rs, GroupPositions(rs, key)))
    BY <1>2
  <2> HIDE DEF s
  <2>2. SumFunction(s) = SumFunction(Durations(rs, DOMAIN rs))
    BY <2>1, DurationsRollUp DEF K
  <2> QED BY <1>1, <2>2 DEF s
<1>5. \A f \in TokenField : TokensRollUp(m, groups, f)
  BY <1>1, TokensRolledUp DEF groups
<1>6. DOMAIN m.costs = UNION {DOMAIN groups[key].costs : key \in DOMAIN groups}
  <2>1. \A identity \in CostIdentities(rs, DOMAIN rs) :
          \E key \in K : identity \in DOMAIN groups[key].costs
    <3> TAKE identity \in CostIdentities(rs, DOMAIN rs)
    <3>1. PICK i \in DOMAIN rs : identity = CostIdentity(rs[i].cost)
      BY DEF CostIdentities
    <3>2. PICK key \in K : i \in GroupPositions(rs, key)
      BY GroupFacts DEF K
    <3> QED BY <1>2, <3>1, <3>2 DEF CostIdentities
  <2>2. \A key \in K : \A identity \in DOMAIN groups[key].costs :
          identity \in CostIdentities(rs, DOMAIN rs)
    <3>1. \A key : \A identity \in CostIdentities(rs, GroupPositions(rs, key)) :
            identity \in CostIdentities(rs, DOMAIN rs)
      BY DEF CostIdentities, GroupPositions
    <3> QED BY <1>2, <3>1
  <2> QED BY <1>1, <1>2, <2>1, <2>2
<1>7. \A identity \in DOMAIN m.costs : MoneyRollsUp(identity, m.costs[identity], groups)
  BY <1>1, MoneyRolledUp DEF groups
<1> QED BY <1>3, <1>4, <1>5, <1>6, <1>7, Zenon DEF RollsUp, groups

\* The contract of the summary has no complaint about what the code computes.
LEMMA BuildSucceeds ==
  ASSUME NEW rs, Sound(rs), ~ TooMuch(rs, DOMAIN rs)
  PROVE  Build(Metrics(rs, DOMAIN rs), Groups(rs)).code = "summary"
<1> DEFINE whole == Metrics(rs, DOMAIN rs)
           groups == Groups(rs)
           after == [key \in DOMAIN groups |-> Snapshot(groups[key])]
           summary == [metrics |-> Snapshot(whole), groups |-> after]
<1>1. MetricsAccepted(whole) /\ MetricsAccepted(Snapshot(whole))
  <2>1. DOMAIN rs \in SUBSET DOMAIN rs
    OBVIOUS
  <2> QED BY <2>1, PartAccepted
<1>2. DOMAIN groups = GroupKeys(rs)
      /\ \A key \in GroupKeys(rs) : groups[key] = Metrics(rs, GroupPositions(rs, key))
  BY DEF Groups
<1>3. after = After(rs)
  BY <1>2 DEF After
<1>4. \A key \in DOMAIN groups : GroupAccepted(key, groups[key]) /\ GroupAccepted(key, after[key])
  <2> SUFFICES ASSUME NEW key \in DOMAIN groups
               PROVE  GroupAccepted(key, groups[key]) /\ GroupAccepted(key, after[key])
    OBVIOUS
  <2> DEFINE P == GroupPositions(rs, key)
             m == Metrics(rs, P)
  <2>1. key \in GroupKeys(rs) /\ groups[key] = m /\ after[key] = Snapshot(m)
    BY <1>2
  <2>2. P \in SUBSET DOMAIN rs /\ (key[2] = None) # (key[3] = None)
    BY <2>1, GroupFacts
  <2> HIDE DEF P
  <2>3. ~ TooMuch(rs, P)
    BY <2>2, OverflowExact
  <2>4. MetricsAccepted(m) /\ MetricsAccepted(Snapshot(m))
    BY <2>2, <2>3, PartAccepted
  <2> HIDE DEF m, groups, after
  <2> QED BY <2>1, <2>2, <2>4 DEF GroupAccepted
<1>5. RollsUp(summary.metrics, after)
  <2>1. RollsUp(Snapshot(whole), After(rs))
    BY SummaryRollsUp
  <2> QED BY <1>3, <2>1
<1> HIDE DEF whole, groups, after
<1>6. Build(whole, groups) = [code |-> "summary", summary |-> summary]
  BY <1>1, <1>4, <1>5 DEF Build, after
<1> QED BY <1>6 DEF whole, groups

\* Records the aggregator accepts never end in an error it does not declare:
\* whatever the sums, the contract of the summary and its roll-up of the groups
\* agree with what was computed (_validate_metrics, _validate_group_rollup).
THEOREM SummaryAlwaysAccepted == Spec => []SummaryAccepted
<1>1. Answered => SummaryAccepted
  <2> SUFFICES ASSUME Answered, outcome # None, outcome.code = "contract_error" PROVE FALSE
    BY DEF SummaryAccepted
  <2> DEFINE rs == Selection(request)
  <2>1. IsRequest(request) /\ outcome = Summarize(request)
    BY RequestAssumption DEF Answered
  <2>2. Sound(rs) /\ ~ TooMuch(rs, DOMAIN rs) /\ outcome = Build(Metrics(rs, DOMAIN rs), Groups(rs))
    BY <2>1, Answers
  <2> HIDE DEF rs
  <2>3. outcome.code = "summary"
    BY <2>2, BuildSucceeds
  <2> QED BY <2>3
<1> QED BY <1>1, AnsweredAlways, PTL
=============================================================================
