------------------------------ MODULE FoldLemmas -----------------------------
(***************************************************************************)
(* Facts about the sum of a function over a finite set, SumFunctionOnSet   *)
(* of the community modules, from which the totals of the shop are built.  *)
(* The operator is defined by a recursive function that takes the members  *)
(* of the set in a fixed order; what is proved here is that it exists,     *)
(* what its steps are, and that the order does not matter.                 *)
(*                                                                         *)
(* Induction is used in the form of NatSetInduction, on a set of numbers:  *)
(* it needs no operator as a parameter.                                    *)
(***************************************************************************)
EXTENDS Integers, FiniteSets, Sequences, SequencesExt, TLAPS,
        FiniteSetTheorems, SequenceTheorems, WellFoundedInduction

\* A set that holds 0 and with each number the next holds every number.
LEMMA NatSetInduction ==
  ASSUME NEW T, 0 \in T, \A n \in Nat : n \in T => n + 1 \in T
  PROVE  \A n \in Nat : n \in T
<1> DEFINE C == Nat \ T
           R == {ss \in Nat \X Nat : ss[1] < ss[2]}
<1> SUFFICES ASSUME C # {} PROVE FALSE
  OBVIOUS
<1>1. IsWellFoundedOn(OpToRel(<, Nat), Nat)
  BY NatLessThanWellFounded
<1>2. OpToRel(<, Nat) = R
  BY DEF OpToRel
<1>3. IsWellFoundedOn(R, Nat)
  BY <1>1, <1>2
<1>4. \E x \in C : \A y \in C : ~ (<<y, x>> \in R)
  <2> QED BY <1>3, WFMin
<1>5. PICK x \in C : \A y \in C : ~ (<<y, x>> \in R)
  BY <1>4
<1>6. x # 0 /\ x - 1 \in Nat
  OBVIOUS
<1>7. x - 1 \in C
  BY <1>6
<1>8. <<x - 1, x>> \in R
  BY <1>6
<1> QED BY <1>5, <1>7, <1>8

-----------------------------------------------------------------------------

\* The member that the sum takes first, and the equation of its function.
First(T) == CHOOSE x \in T : TRUE
SumsOver(g, f, D) ==
  g = [T \in D |-> IF T = {} THEN 0 ELSE f[First(T)] + g[T \ {First(T)}]]

Sums(g, f, S) == SumsOver(g, f, SUBSET S)

LEMMA OneLess ==
  ASSUME NEW T, IsFiniteSet(T), NEW n \in Nat, Cardinality(T) = n + 1
  PROVE  T # {} /\ \A x \in T : Cardinality(T \ {x}) = n
<1>1. T # {}
  BY FS_EmptySet
<1>2. ASSUME NEW x \in T PROVE Cardinality(T \ {x}) = n
  BY <1>2, FS_RemoveElement
<1> QED BY <1>1, <1>2

LEMMA FirstIn ==
  ASSUME NEW T, T # {}
  PROVE  First(T) \in T
BY DEF First

\* The equation has a solution on the subsets of a finite set.
LEMMA SumExists ==
  ASSUME NEW f, NEW S, IsFiniteSet(S)
  PROVE  \E g : Sums(g, f, S)
<1> DEFINE Small(n) == {T \in SUBSET S : Cardinality(T) <= n}
           N == {n \in Nat : \E g : SumsOver(g, f, Small(n))}
<1>1. \A T \in SUBSET S : IsFiniteSet(T) /\ Cardinality(T) \in Nat /\ Cardinality(T) <= Cardinality(S)
  BY FS_Subset, FS_CardinalityType
<1>2. 0 \in N
  <2>1. \A T \in Small(0) : T = {}
    BY <1>1, FS_EmptySet
  <2>2. SumsOver([T \in Small(0) |-> 0], f, Small(0))
    BY <2>1 DEF Sums, SumsOver
  <2> QED BY <2>2
<1>3. ASSUME NEW n \in Nat, n \in N PROVE n + 1 \in N
  <2>1. PICK g : SumsOver(g, f, Small(n))
    BY <1>3
  <2> DEFINE h == [T \in Small(n + 1) |->
                     IF T = {} THEN 0 ELSE f[First(T)] + g[T \ {First(T)}]]
  <2>2. \A T \in Small(n + 1) : T # {} => T \ {First(T)} \in Small(n)
    <3> TAKE T \in Small(n + 1)
    <3> HAVE T # {}
    <3>1. First(T) \in T
      BY FirstIn
    <3>2. Cardinality(T \ {First(T)}) = Cardinality(T) - 1
      BY <1>1, <3>1, FS_RemoveElement
    <3> QED BY <1>1, <3>2
  <2>3. \A T \in Small(n) : T \in Small(n + 1) /\ h[T] = g[T]
    <3>1. Small(n) \subseteq Small(n + 1)
      BY <1>1
    <3>2. \A T \in Small(n) : g[T] = IF T = {} THEN 0 ELSE f[First(T)] + g[T \ {First(T)}]
      <4> HIDE DEF Small
      <4> QED BY <2>1 DEF Sums, SumsOver
    <3> QED BY <3>1, <3>2
  <2>4. SumsOver(h, f, Small(n + 1))
    <3>1. \A T \in Small(n + 1) : T # {} => h[T \ {First(T)}] = g[T \ {First(T)}]
      <4> HIDE DEF Small, h
      <4> QED BY <2>2, <2>3
    <3> QED BY <3>1 DEF Sums, SumsOver
  <2>5. n + 1 \in Nat
    OBVIOUS
  <2> HIDE DEF h, Small
  <2> QED BY <2>4, <2>5
<1>4. Cardinality(S) \in N
  <2> HIDE DEF N
  <2> QED BY <1>1, <1>2, <1>3, NatSetInduction
<1>5. Small(Cardinality(S)) = SUBSET S
  BY <1>1
<1> QED BY <1>4, <1>5 DEF Sums

\* The library's function is such a solution.
LEMMA SumIsSolution ==
  ASSUME NEW f, NEW S, IsFiniteSet(S)
  PROVE  \E g : Sums(g, f, S) /\ SumFunctionOnSet(f, S) = g[S]
<1> DEFINE it[T \in SUBSET S] ==
      IF T = {} THEN 0 ELSE LET x == CHOOSE x \in T : TRUE IN f[x] + it[T \ {x}]
<1>1. SumFunctionOnSet(f, S) = it[S]
  BY DEF SumFunctionOnSet, FoldFunctionOnSet, MapThenFoldSet
<1>2. \E g : g = [T \in SUBSET S |->
        IF T = {} THEN 0 ELSE LET x == CHOOSE x \in T : TRUE IN f[x] + g[T \ {x}]]
  <2>1. PICK g : Sums(g, f, S)
    BY SumExists
  <2> WITNESS g
  <2> QED BY <2>1 DEF Sums, SumsOver, First
<1>3. it = [T \in SUBSET S |->
        IF T = {} THEN 0 ELSE LET x == CHOOSE x \in T : TRUE IN f[x] + it[T \ {x}]]
  BY <1>2
<1>4. Sums(it, f, S)
  BY <1>3 DEF Sums, SumsOver, First
<1> HIDE DEF it
<1> QED BY <1>1, <1>4

\* Solutions agree, also with those on larger sets, and for functions that agree.
LEMMA SumUnique ==
  ASSUME NEW f, NEW f2, NEW S, NEW U, NEW g, NEW h,
         IsFiniteSet(S), S \subseteq U, \A x \in S : f[x] = f2[x],
         Sums(g, f, S), Sums(h, f2, U)
  PROVE  g[S] = h[S]
<1> DEFINE N == {n \in Nat : \A T \in SUBSET S : Cardinality(T) = n => g[T] = h[T]}
<1>1. \A T \in SUBSET S : IsFiniteSet(T) /\ Cardinality(T) \in Nat
  BY FS_Subset, FS_CardinalityType
<1>2. \A T \in SUBSET S : /\ g[T] = IF T = {} THEN 0 ELSE f[First(T)] + g[T \ {First(T)}]
                          /\ h[T] = IF T = {} THEN 0 ELSE f2[First(T)] + h[T \ {First(T)}]
  <2> TAKE T \in SUBSET S
  <2>1. T \in SUBSET U
    OBVIOUS
  <2> QED BY <2>1 DEF Sums, SumsOver
<1>3. 0 \in N
  BY <1>1, <1>2, FS_EmptySet
<1>4. ASSUME NEW n \in Nat, n \in N PROVE n + 1 \in N
  <2> SUFFICES ASSUME NEW T \in SUBSET S, Cardinality(T) = n + 1 PROVE g[T] = h[T]
    OBVIOUS
  <2>1. T # {}
    BY <1>1, OneLess
  <2>2. First(T) \in T
    BY <2>1, FirstIn
  <2>3. T \ {First(T)} \in SUBSET S /\ Cardinality(T \ {First(T)}) = n
    BY <1>1, <2>2, OneLess
  <2>4. g[T \ {First(T)}] = h[T \ {First(T)}] /\ f[First(T)] = f2[First(T)]
    BY <1>4, <2>2, <2>3
  <2> QED BY <1>2, <2>1, <2>4
<1>5. Cardinality(S) \in N
  <2> HIDE DEF N
  <2> QED BY <1>1, <1>3, <1>4, NatSetInduction
<1> QED BY <1>5

-----------------------------------------------------------------------------
(* What other modules use                                                  *)

\* The sum over nothing is 0.
LEMMA SumEmpty ==
  ASSUME NEW f
  PROVE  SumFunctionOnSet(f, {}) = 0
<1>1. PICK g : Sums(g, f, {}) /\ SumFunctionOnSet(f, {}) = g[{}]
  BY SumIsSolution, FS_EmptySet
<1> QED BY <1>1 DEF Sums, SumsOver

\* The sum depends only on the values on the set.
LEMMA SumSame ==
  ASSUME NEW f, NEW f2, NEW S, IsFiniteSet(S), \A x \in S : f[x] = f2[x]
  PROVE  SumFunctionOnSet(f, S) = SumFunctionOnSet(f2, S)
<1>1. PICK g : Sums(g, f, S) /\ SumFunctionOnSet(f, S) = g[S]
  BY SumIsSolution
<1>2. PICK h : Sums(h, f2, S) /\ SumFunctionOnSet(f2, S) = h[S]
  BY SumIsSolution
<1>3. S \subseteq S
  OBVIOUS
<1>4. g[S] = h[S]
  BY <1>1, <1>2, <1>3, SumUnique
<1> QED BY <1>1, <1>2, <1>4

\* One step of the sum, in its own order.
LEMMA SumFirst ==
  ASSUME NEW f, NEW S, IsFiniteSet(S), S # {}
  PROVE  SumFunctionOnSet(f, S) = f[First(S)] + SumFunctionOnSet(f, S \ {First(S)})
<1> PICK R : R = S \ {First(S)}
  OBVIOUS
<1>1. PICK h : Sums(h, f, S) /\ SumFunctionOnSet(f, S) = h[S]
  BY SumIsSolution
<1>2. IsFiniteSet(R)
  BY FS_Subset
<1>3. PICK g : Sums(g, f, R) /\ SumFunctionOnSet(f, R) = g[R]
  BY <1>2, SumIsSolution
<1>4. g[R] = h[R]
  <2>1. R \subseteq S /\ \A x \in R : f[x] = f[x]
    OBVIOUS
  <2>2. Sums(g, f, R) /\ Sums(h, f, S)
    BY <1>1, <1>3
  <2> QED BY <1>2, <2>1, <2>2, SumUnique
<1>5. h[S] = f[First(S)] + h[R]
  BY <1>1 DEF Sums, SumsOver
<1> QED BY <1>1, <1>3, <1>4, <1>5

\* A sum of integers is an integer, and one of natural numbers a natural number.
LEMMA SumType ==
  ASSUME NEW S, IsFiniteSet(S), NEW f, NEW Num \in {Int, Nat}, \A x \in S : f[x] \in Num
  PROVE  SumFunctionOnSet(f, S) \in Num
<1> DEFINE N == {n \in Nat : \A T \in SUBSET S : Cardinality(T) = n => SumFunctionOnSet(f, T) \in Num}
<1>1. \A T \in SUBSET S : IsFiniteSet(T) /\ Cardinality(T) \in Nat
  BY FS_Subset, FS_CardinalityType
<1>2. 0 \in N
  BY <1>1, FS_EmptySet, SumEmpty
<1>3. ASSUME NEW n \in Nat, n \in N PROVE n + 1 \in N
  <2> SUFFICES ASSUME NEW T \in SUBSET S, Cardinality(T) = n + 1
               PROVE  SumFunctionOnSet(f, T) \in Num
    OBVIOUS
  <2>1. T # {} /\ First(T) \in T
    BY <1>1, OneLess, FirstIn
  <2>2. T \ {First(T)} \in SUBSET S /\ Cardinality(T \ {First(T)}) = n
    BY <1>1, <2>1, OneLess
  <2>3. SumFunctionOnSet(f, T \ {First(T)}) \in Num /\ f[First(T)] \in Num
    BY <1>3, <2>1, <2>2
  <2>4. SumFunctionOnSet(f, T) = f[First(T)] + SumFunctionOnSet(f, T \ {First(T)})
    BY <1>1, <2>1, SumFirst
  <2> QED BY <2>3, <2>4
<1>4. Cardinality(S) \in N
  <2> HIDE DEF N
  <2> QED BY <1>1, <1>2, <1>3, NatSetInduction
<1> QED BY <1>4

\* Any member may be taken first.
LEMMA SumRemove ==
  ASSUME NEW S, IsFiniteSet(S), NEW f, \A x \in S : f[x] \in Int, NEW y \in S
  PROVE  SumFunctionOnSet(f, S) = f[y] + SumFunctionOnSet(f, S \ {y})
<1> DEFINE N == {n \in Nat : \A T \in SUBSET S : \A x \in T :
                   Cardinality(T) = n => SumFunctionOnSet(f, T) = f[x] + SumFunctionOnSet(f, T \ {x})}
<1>1. \A T \in SUBSET S : /\ IsFiniteSet(T) /\ Cardinality(T) \in Nat
                          /\ SumFunctionOnSet(f, T) \in Int
  <2> TAKE T \in SUBSET S
  <2>1. IsFiniteSet(T) /\ Cardinality(T) \in Nat
    BY FS_Subset, FS_CardinalityType
  <2> QED BY <2>1, SumType
<1>2. 0 \in N
  BY <1>1, FS_EmptySet
<1>3. ASSUME NEW n \in Nat, n \in N PROVE n + 1 \in N
  <2> SUFFICES ASSUME NEW T \in SUBSET S, NEW x \in T, Cardinality(T) = n + 1
               PROVE  SumFunctionOnSet(f, T) = f[x] + SumFunctionOnSet(f, T \ {x})
    OBVIOUS
  <2> PICK c : c = First(T)
    OBVIOUS
  <2>1. c \in T
    BY FirstIn
  <2>2. SumFunctionOnSet(f, T) = f[c] + SumFunctionOnSet(f, T \ {c})
    BY <1>1, SumFirst
  <2>3. CASE x = c
    BY <2>2, <2>3
  <2>4. CASE x # c
    <3>1. /\ T \ {c} \in SUBSET S /\ Cardinality(T \ {c}) = n /\ x \in T \ {c}
          /\ T \ {x} \in SUBSET S /\ Cardinality(T \ {x}) = n /\ c \in T \ {x}
      BY <1>1, <2>1, <2>4, OneLess
    <3>2. SumFunctionOnSet(f, T \ {c}) = f[x] + SumFunctionOnSet(f, (T \ {c}) \ {x})
      BY <1>3, <3>1
    <3>3. SumFunctionOnSet(f, T \ {x}) = f[c] + SumFunctionOnSet(f, (T \ {x}) \ {c})
      BY <1>3, <3>1
    <3>4. (T \ {c}) \ {x} = (T \ {x}) \ {c}
      OBVIOUS
    <3>5. f[x] \in Int /\ f[c] \in Int /\ SumFunctionOnSet(f, (T \ {x}) \ {c}) \in Int
      BY <1>1, <2>1
    <3>6. SumFunctionOnSet(f, T) = f[c] + (f[x] + SumFunctionOnSet(f, (T \ {x}) \ {c}))
      BY <2>2, <3>2, <3>4
    <3>7. SumFunctionOnSet(f, T) = f[x] + (f[c] + SumFunctionOnSet(f, (T \ {x}) \ {c}))
      BY <3>5, <3>6
    <3> QED BY <3>3, <3>7
  <2> QED BY <2>3, <2>4
<1>4. Cardinality(S) \in N
  <2> HIDE DEF N
  <2> QED BY <1>1, <1>2, <1>3, NatSetInduction
<1> QED BY <1>4

\* No part of a sum of natural numbers is larger than the sum.
LEMMA SumBounds ==
  ASSUME NEW S, IsFiniteSet(S), NEW f, \A x \in S : f[x] \in Nat, NEW y \in S
  PROVE  f[y] <= SumFunctionOnSet(f, S)
<1>1. SumFunctionOnSet(f, S) = f[y] + SumFunctionOnSet(f, S \ {y})
  BY SumRemove
<1>2. SumFunctionOnSet(f, S \ {y}) \in Nat
  BY SumType, FS_Subset
<1> QED BY <1>1, <1>2

\* A list without one of its items.
LEMMA RemoveAtType ==
  ASSUME NEW S, NEW s \in Seq(S), NEW n \in 1..Len(s)
  PROVE  RemoveAt(s, n) \in Seq(S)
<1>1. Len(s) \in Nat /\ \A k \in 1..Len(s) : s[k] \in S
  OBVIOUS
<1>2. SubSeq(s, 1, n - 1) \in Seq(S)
  <2>1. \A k \in 1..(n - 1) : s[k] \in S
    BY <1>1
  <2> QED BY <1>1, <2>1, SubSeqProperties
<1>3. SubSeq(s, n + 1, Len(s)) \in Seq(S)
  <2>1. \A k \in (n + 1)..Len(s) : s[k] \in S
    BY <1>1
  <2> QED BY <1>1, <2>1, SubSeqProperties
<1> QED BY <1>2, <1>3, ConcatProperties DEF RemoveAt
=============================================================================
