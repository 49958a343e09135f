---------------------------- MODULE SumTheorems ----------------------------
(***************************************************************************)
(* What SumFunctionOnSet(f, S), the sum of f[x] over a finite set S, is,   *)
(* and what a fold over a finite set preserves: the facts that the proofs  *)
(* of several components need.  Induction is over sets of good cases.      *)
(***************************************************************************)
EXTENDS Integers, Functions, FiniteSetTheorems, WellFoundedInduction, TLAPS

----------------------------------------------------------------------------
(* Induction. *)

\* A nonempty set of natural numbers has a least element.
LEMMA LeastElement ==
  ASSUME NEW T \in SUBSET Nat, T # {}
  PROVE  \E x \in T : \A y \in T : x <= y
<1>1. PICK x \in T : \A y \in T : ~(<<y, x>> \in OpToRel(<, Nat))
  BY NatLessThanWellFounded, WFMin, Zenon
<1>2. \A y \in T : ~(y < x)
  BY <1>1 DEF OpToRel
<1>3. QED
  BY <1>2

\* A set of numbers with zero and with the successor of each of them has all.
LEMMA NumberInduction ==
  ASSUME NEW T \in SUBSET Nat, 0 \in T, \A n \in T : n + 1 \in T
  PROVE  T = Nat
<1>1. SUFFICES ASSUME Nat \ T # {} PROVE FALSE
  OBVIOUS
<1>2. PICK m \in Nat \ T : \A y \in Nat \ T : m <= y
  BY <1>1, LeastElement
<1>3. m - 1 \in Nat /\ m - 1 \notin Nat \ T
  BY <1>2
<1>4. QED
  BY <1>2, <1>3

\* A set of subsets of a finite S with the empty set, and with every set that
\* one more element makes of one of its members, has S itself.
LEMMA SubsetInduction ==
  ASSUME NEW S, IsFiniteSet(S), NEW P \in SUBSET SUBSET S, {} \in P,
         \A T \in P : \A x \in S \ T : T \cup {x} \in P
  PROVE  S \in P
<1> DEFINE N == {n \in Nat : \A T \in SUBSET S : Cardinality(T) = n => T \in P}
<1>0. \A T \in SUBSET S : IsFiniteSet(T) /\ Cardinality(T) \in Nat
  BY FS_Subset, FS_CardinalityType
<1>1. 0 \in N
  <2>1. ASSUME NEW T \in SUBSET S, Cardinality(T) = 0 PROVE T = {}
    BY <1>0, <2>1, FS_EmptySet
  <2>2. QED
    BY <2>1
<1>2. ASSUME NEW n \in N PROVE n + 1 \in N
  <2>1. SUFFICES ASSUME NEW T \in SUBSET S, Cardinality(T) = n + 1 PROVE T \in P
    OBVIOUS
  <2>2. T # {}
    <3>1. n + 1 # 0
      BY <1>2
    <3>2. QED
      BY <2>1, <3>1, FS_EmptySet
  <2>3. PICK x \in T : TRUE
    BY <2>2
  <2>4. Cardinality(T \ {x}) = n
    BY <1>0, <2>1, FS_RemoveElement, SMTT(40)
  <2>5. T \ {x} \in P
    BY <1>2, <2>4
  <2>6. x \in S \ (T \ {x}) /\ (T \ {x}) \cup {x} = T
    OBVIOUS
  <2>7. QED
    BY <2>5, <2>6
<1>3. N = Nat
  <2>1. N \in SUBSET Nat
    OBVIOUS
  <2> HIDE DEF N
  <2>2. QED
    BY <1>1, <1>2, <2>1, NumberInduction
<1>4. QED
  BY <1>0, <1>3

----------------------------------------------------------------------------
(* Folds over a finite set, its elements picked in some order. *)

\* g holds the folds of step over the subsets of S.
Folds(g, base, step, pick, S) ==
  g = [s \in SUBSET S |-> IF s = {} THEN base ELSE step[<<pick[s], g[s \ {pick[s]}]>>]]

\* A fold that removes one element after the other exists.
LEMMA FoldExists ==
  ASSUME NEW S, IsFiniteSet(S), NEW base, NEW step, NEW pick,
         \A s \in SUBSET S : s # {} => pick[s] \in s
  PROVE  \E g : Folds(g, base, step, pick, S)
<1> DEFINE UpTo(n) == {s \in SUBSET S : Cardinality(s) <= n}
           Good(g, SS) == g = [s \in SS |-> IF s = {} THEN base ELSE step[<<pick[s], g[s \ {pick[s]}]>>]]
           N == {n \in Nat : \E g : Good(g, UpTo(n))}
<1>0. \A s \in SUBSET S : IsFiniteSet(s) /\ Cardinality(s) \in Nat
  BY FS_Subset, FS_CardinalityType
<1>2. \A s \in SUBSET S : s # {} => /\ Cardinality(s \ {pick[s]}) = Cardinality(s) - 1
                                    /\ Cardinality(s) > 0
  <2>1. SUFFICES ASSUME NEW s \in SUBSET S, s # {}
                 PROVE  Cardinality(s \ {pick[s]}) = Cardinality(s) - 1 /\ Cardinality(s) > 0
    OBVIOUS
  <2>2. Cardinality(s \ {pick[s]}) = Cardinality(s) - 1
    BY <1>0, <2>1, FS_RemoveElement
  <2>3. Cardinality(s) # 0
    BY <1>0, <2>1, FS_EmptySet
  <2> QED BY <1>0, <2>2, <2>3
<1>3. 0 \in N
  <2> DEFINE g == [s \in UpTo(0) |-> base]
  <2>1. \A s \in UpTo(0) : s = {}
    <3>1. SUFFICES ASSUME NEW s \in UpTo(0) PROVE s = {}
      OBVIOUS
    <3>2. s \in SUBSET S /\ Cardinality(s) <= 0
      OBVIOUS
    <3> HIDE DEF N, UpTo
    <3>3. Cardinality(s) = 0 /\ IsFiniteSet(s)
      BY <1>0, <3>2
    <3> QED BY <3>3, FS_EmptySet
  <2>2. Good(g, UpTo(0))
    BY <2>1
  <2>3. \E k : Good(k, UpTo(0))
    BY <2>2
  <2> QED BY <2>3
<1>4. ASSUME NEW n \in N PROVE n + 1 \in N
  <2>1. PICK g : Good(g, UpTo(n))
    BY <1>4
  <2> DEFINE h == [s \in UpTo(n + 1) |-> IF s = {} THEN base ELSE step[<<pick[s], g[s \ {pick[s]}]>>]]
  <2>2. ASSUME NEW s \in UpTo(n + 1), s # {}
        PROVE  h[s \ {pick[s]}] = g[s \ {pick[s]}]
    <3>1. s \ {pick[s]} \in UpTo(n) /\ s \ {pick[s]} \in UpTo(n + 1)
      BY <1>0, <1>2, <2>2
    <3>2. \A t \in UpTo(n) : g[t] = IF t = {} THEN base ELSE step[<<pick[t], g[t \ {pick[t]}]>>]
      BY <2>1
    <3> QED BY <3>1, <3>2
  <2>3. Good(h, UpTo(n + 1))
    BY <2>2
  <2>4. \E k : Good(k, UpTo(n + 1))
    <3> HIDE DEF h, UpTo
    <3> QED BY <2>3
  <2>5. n + 1 \in Nat
    BY <1>4
  <2> QED BY <2>4, <2>5
<1>5. N = Nat
  <2>1. N \in SUBSET Nat
    OBVIOUS
  <2> HIDE DEF N
  <2> QED BY <1>3, <1>4, <2>1, NumberInduction
<1>6. UpTo(Cardinality(S)) = SUBSET S
  BY <1>0, FS_Subset
<1>7. PICK g : Good(g, UpTo(Cardinality(S)))
  <2>1. Cardinality(S) \in N
    BY <1>0, <1>5
  <2> QED BY <2>1
<1>8. Good(g, SUBSET S)
  BY <1>6, <1>7
<1>9. Folds(g, base, step, pick, S)
  BY <1>8 DEF Folds
<1> QED BY <1>9

\* What the empty fold has and every turn keeps, all folds have.
LEMMA FoldKeeps ==
  ASSUME NEW S, IsFiniteSet(S), NEW A, NEW g, g[{}] \in A, NEW pick,
         \A s \in SUBSET S : s # {} => /\ pick[s] \in s
                                       /\ g[s \ {pick[s]}] \in A => g[s] \in A
  PROVE  \A s \in SUBSET S : g[s] \in A
<1> DEFINE Bad == {s \in SUBSET S : g[s] \notin A}
           N == {Cardinality(s) : s \in Bad}
<1>1. \A s \in SUBSET S : IsFiniteSet(s) /\ Cardinality(s) \in Nat
  BY FS_Subset, FS_CardinalityType
<1>2. SUFFICES ASSUME Bad # {} PROVE FALSE
  OBVIOUS
<1>3. N # {} /\ N \in SUBSET Nat
  BY <1>1, <1>2
<1>4. PICK n \in N : \A m \in N : n <= m
  <2> HIDE DEF N
  <2> QED BY <1>3, LeastElement
<1>5. PICK s \in Bad : Cardinality(s) = n
  OBVIOUS
<1>6. s \in SUBSET S /\ s # {} /\ pick[s] \in s
  OBVIOUS
<1>7. Cardinality(s \ {pick[s]}) = n - 1 /\ n \in Nat
  BY <1>1, <1>5, <1>6, FS_RemoveElement
<1>8. s \ {pick[s]} \in SUBSET S /\ s \ {pick[s]} \notin Bad
  BY <1>3, <1>4, <1>6, <1>7
<1> QED BY <1>5, <1>6, <1>8

----------------------------------------------------------------------------
(* The recursion behind SumFunctionOnSet. *)

Pick(s) == CHOOSE x \in s : TRUE

\* g holds the sums of f over the sets of SS.
Sums(g, f, SS) ==
  g = [s \in SS |-> IF s = {} THEN 0 ELSE f[Pick(s)] + g[s \ {Pick(s)}]]

PartialSums(f, S) == CHOOSE g : Sums(g, f, SUBSET S)

\* SumFunctionOnSet, as partial sums.
LEMMA SumUnfolds ==
  ASSUME NEW f, NEW S
  PROVE  SumFunctionOnSet(f, S) = PartialSums(f, S)[S]
BY DEF SumFunctionOnSet, FoldFunctionOnSet, MapThenFoldSet, PartialSums, Sums, Pick

\* The partial sums of a finite set exist.
LEMMA SumsExist ==
  ASSUME NEW f, NEW S, IsFiniteSet(S)
  PROVE  Sums(PartialSums(f, S), f, SUBSET S)
<1> DEFINE UpTo(n) == {s \in SUBSET S : Cardinality(s) <= n}
           N == {n \in Nat : \E g : Sums(g, f, UpTo(n))}
<1>0. \A s \in SUBSET S : IsFiniteSet(s) /\ Cardinality(s) \in Nat
  BY FS_Subset, FS_CardinalityType
<1>1. \A s \in SUBSET S : s # {} => /\ Pick(s) \in s
                                    /\ Cardinality(s \ {Pick(s)}) = Cardinality(s) - 1
                                    /\ Cardinality(s) > 0
  <2>1. SUFFICES ASSUME NEW s \in SUBSET S, s # {}
                 PROVE  /\ Pick(s) \in s
                        /\ Cardinality(s \ {Pick(s)}) = Cardinality(s) - 1
                        /\ Cardinality(s) > 0
    OBVIOUS
  <2>2. Pick(s) \in s
    BY <2>1 DEF Pick
  <2>3. Cardinality(s \ {Pick(s)}) = Cardinality(s) - 1
    BY <1>0, <2>2, FS_RemoveElement
  <2>4. Cardinality(s) # 0
    BY <1>0, <2>1, FS_EmptySet
  <2>5. QED
    BY <1>0, <2>2, <2>3, <2>4
<1>2. 0 \in N
  <2>1. Sums([s \in UpTo(0) |-> 0], f, UpTo(0))
    <3>1. ASSUME NEW s \in UpTo(0) PROVE s = {}
      <4>1. s \in SUBSET S /\ Cardinality(s) <= 0
        OBVIOUS
      <4> HIDE DEF N, UpTo
      <4>2. Cardinality(s) = 0 /\ IsFiniteSet(s)
        BY <1>0, <4>1
      <4>3. QED
        BY <4>2, FS_EmptySet
    <3>2. [s \in UpTo(0) |-> 0]
            = [s \in UpTo(0) |-> IF s = {} THEN 0
                                 ELSE f[Pick(s)] + [t \in UpTo(0) |-> 0][s \ {Pick(s)}]]
      BY <3>1
    <3>3. QED
      BY <3>2 DEF Sums
  <2>2. \E g : Sums(g, f, UpTo(0))
    BY <2>1
  <2>3. QED
    BY <2>2
<1>3. ASSUME NEW n \in N PROVE n + 1 \in N
  <2>1. PICK g : Sums(g, f, UpTo(n))
    BY <1>3
  <2> DEFINE h == [s \in UpTo(n + 1) |-> IF s = {} THEN 0 ELSE f[Pick(s)] + g[s \ {Pick(s)}]]
  <2>2. ASSUME NEW s \in UpTo(n + 1), s # {}
        PROVE  h[s \ {Pick(s)}] = g[s \ {Pick(s)}]
    <3>1. s \ {Pick(s)} \in UpTo(n) /\ s \ {Pick(s)} \in UpTo(n + 1)
      BY <1>0, <1>1, <2>2
    <3>2. \A t \in UpTo(n) : g[t] = IF t = {} THEN 0 ELSE f[Pick(t)] + g[t \ {Pick(t)}]
      BY <2>1 DEF Sums
    <3>3. QED
      BY <3>1, <3>2
  <2>3. Sums(h, f, UpTo(n + 1))
    BY <2>2 DEF Sums
  <2>4. \E k : Sums(k, f, UpTo(n + 1))
    <3> HIDE DEF h, UpTo
    <3>1. QED
      BY <2>3
  <2>5. n + 1 \in Nat
    BY <1>3
  <2>6. QED
    BY <2>4, <2>5
<1>4. N = Nat
  <2>1. N \in SUBSET Nat
    OBVIOUS
  <2> HIDE DEF N
  <2>2. QED
    BY <1>2, <1>3, <2>1, NumberInduction
<1>5. UpTo(Cardinality(S)) = SUBSET S
  BY <1>0, FS_Subset
<1>6. \E g : Sums(g, f, SUBSET S)
  <2>1. Cardinality(S) \in N
    BY <1>0, <1>4
  <2>2. \E g : Sums(g, f, UpTo(Cardinality(S)))
    BY <2>1
  <2>3. QED
    BY <1>5, <2>2
<1>7. QED
  BY <1>6 DEF PartialSums

\* The sums over the subsets of a set do not depend on the set around it.
LEMMA SumsAgree ==
  ASSUME NEW f, NEW S, IsFiniteSet(S), NEW T \in SUBSET S
  PROVE  PartialSums(f, S)[T] = PartialSums(f, T)[T]
<1> DEFINE g == PartialSums(f, S)
           h == PartialSums(f, T)
           Differ == {s \in SUBSET T : g[s] # h[s]}
           N == {Cardinality(s) : s \in Differ}
<1>0. IsFiniteSet(T) /\ \A s \in SUBSET T : IsFiniteSet(s) /\ Cardinality(s) \in Nat
  BY FS_Subset, FS_CardinalityType
<1>1. Sums(g, f, SUBSET S) /\ Sums(h, f, SUBSET T)
  BY <1>0, SumsExist
<1> HIDE DEF g, h
<1>2. \A s \in SUBSET T : /\ g[s] = IF s = {} THEN 0 ELSE f[Pick(s)] + g[s \ {Pick(s)}]
                          /\ h[s] = IF s = {} THEN 0 ELSE f[Pick(s)] + h[s \ {Pick(s)}]
  BY <1>1 DEF Sums
<1>3. SUFFICES ASSUME Differ # {} PROVE FALSE
  BY DEF g, h
<1>4. N # {} /\ N \in SUBSET Nat
  BY <1>0, <1>3
<1>5. PICK n \in N : \A m \in N : n <= m
  <2> HIDE DEF N
  <2>1. QED
    BY <1>4, LeastElement
<1>6. PICK s \in Differ : Cardinality(s) = n
  OBVIOUS
<1>7. s # {}
  BY <1>2
<1>8. Pick(s) \in s
  BY <1>7 DEF Pick
<1>9. Cardinality(s \ {Pick(s)}) = n - 1 /\ n \in Nat
  BY <1>0, <1>6, <1>8, FS_RemoveElement
<1>10. n - 1 \notin N
  BY <1>4, <1>5, <1>9
<1>11. s \ {Pick(s)} \in SUBSET T /\ s \ {Pick(s)} \notin Differ
  BY <1>9, <1>10
<1>12. QED
  BY <1>2, <1>7, <1>11

----------------------------------------------------------------------------
(* Sums. *)

\* The empty sum.
LEMMA SumEmpty == ASSUME NEW f PROVE SumFunctionOnSet(f, {}) = 0
<1>1. Sums(PartialSums(f, {}), f, SUBSET {})
  BY SumsExist, FS_EmptySet
<1>2. QED
  BY <1>1, SumUnfolds DEF Sums

\* The sum is what the last element adds to the sum of the others.
LEMMA SumPicked ==
  ASSUME NEW f, NEW S, IsFiniteSet(S), S # {}
  PROVE  SumFunctionOnSet(f, S) = f[Pick(S)] + SumFunctionOnSet(f, S \ {Pick(S)})
<1>1. Sums(PartialSums(f, S), f, SUBSET S)
  BY SumsExist
<1>2. PartialSums(f, S)[S] = f[Pick(S)] + PartialSums(f, S)[S \ {Pick(S)}]
  BY <1>1 DEF Sums
<1>3. PartialSums(f, S)[S \ {Pick(S)}] = PartialSums(f, S \ {Pick(S)})[S \ {Pick(S)}]
  BY SumsAgree
<1>4. QED
  BY <1>2, <1>3, SumUnfolds

\* A sum of integers is an integer.
LEMMA SumInt ==
  ASSUME NEW f, NEW S, IsFiniteSet(S), \A x \in S : f[x] \in Int
  PROVE  SumFunctionOnSet(f, S) \in Int
<1> DEFINE Sum(T) == SumFunctionOnSet(f, T)
           N == {n \in Nat : \A T \in SUBSET S : Cardinality(T) = n => Sum(T) \in Int}
<1>0. \A T \in SUBSET S : IsFiniteSet(T) /\ Cardinality(T) \in Nat
  BY FS_Subset, FS_CardinalityType
<1>1. \A T \in SUBSET S : T # {} => Pick(T) \in T /\ Sum(T) = f[Pick(T)] + Sum(T \ {Pick(T)})
  BY <1>0, SumPicked DEF Pick
<1>2. Sum({}) = 0
  BY SumEmpty
<1> HIDE DEF Sum
<1>3. 0 \in N
  <2>1. ASSUME NEW T \in SUBSET S, Cardinality(T) = 0 PROVE Sum(T) \in Int
    <3>1. T = {}
      BY <1>0, <2>1, FS_EmptySet
    <3>2. QED
      BY <1>2, <3>1
  <2>2. QED
    BY <2>1
<1>4. ASSUME NEW n \in N PROVE n + 1 \in N
  <2>0. n \in Nat /\ n + 1 # 0
    BY <1>4
  <2>1. ASSUME NEW T \in SUBSET S, Cardinality(T) = n + 1 PROVE Sum(T) \in Int
    <3>1. T # {}
      BY <2>0, <2>1, FS_EmptySet
    <3>2. Pick(T) \in T /\ Sum(T) = f[Pick(T)] + Sum(T \ {Pick(T)})
      BY <1>1, <3>1
    <3>3. Cardinality(T \ {Pick(T)}) = n
      <4> HIDE DEF N
      <4>1. Cardinality(T \ {Pick(T)}) = Cardinality(T) - 1
        BY <1>0, <3>2, FS_RemoveElement
      <4>2. QED
        BY <2>0, <2>1, <4>1
    <3>4. Sum(T \ {Pick(T)}) \in Int
      BY <1>4, <3>3
    <3>5. QED
      BY <3>2, <3>4
  <2>2. QED
    BY <2>0, <2>1
<1>5. N = Nat
  <2>1. N \in SUBSET Nat
    OBVIOUS
  <2> HIDE DEF N
  <2>2. QED
    BY <1>3, <1>4, <2>1, NumberInduction
<1>6. QED
  <2>1. Cardinality(S) \in N /\ S \in SUBSET S
    BY <1>0, <1>5
  <2>2. Sum(S) \in Int
    BY <2>1
  <2>3. QED
    BY <2>2 DEF Sum

\* Taking any element out.
LEMMA SumRemove ==
  ASSUME NEW f, NEW S, IsFiniteSet(S), \A x \in S : f[x] \in Int
  PROVE  \A x \in S : SumFunctionOnSet(f, S) = f[x] + SumFunctionOnSet(f, S \ {x})
<1> DEFINE Sum(T) == SumFunctionOnSet(f, T)
           Good(T) == \A x \in T : Sum(T) = f[x] + Sum(T \ {x})
           N == {n \in Nat : \A T \in SUBSET S : Cardinality(T) = n => Good(T)}
<1>0. \A T \in SUBSET S : IsFiniteSet(T) /\ Cardinality(T) \in Nat
  BY FS_Subset, FS_CardinalityType
<1>1. \A T \in SUBSET S : T # {} => Pick(T) \in T /\ Sum(T) = f[Pick(T)] + Sum(T \ {Pick(T)})
  BY <1>0, SumPicked DEF Pick
<1>2. ASSUME NEW T \in SUBSET S, NEW x \in T
      PROVE  Cardinality(T \ {x}) = Cardinality(T) - 1
  BY <1>0, FS_RemoveElement
<1>3. \A T \in SUBSET S : Sum(T) \in Int
  BY <1>0, SumInt
<1> HIDE DEF Sum
<1>4. 0 \in N
  <2>1. ASSUME NEW T \in SUBSET S, Cardinality(T) = 0 PROVE Good(T)
    <3>1. T = {}
      BY <1>0, <2>1, FS_EmptySet
    <3>2. QED
      BY <3>1
  <2>2. QED
    BY <2>1
<1>5. ASSUME NEW n \in N PROVE n + 1 \in N
  <2>0. n \in Nat /\ n + 1 # 0
    BY <1>5
  <2>1. ASSUME NEW T \in SUBSET S, Cardinality(T) = n + 1 PROVE Good(T)
    <3>1. T # {}
      BY <2>0, <2>1, FS_EmptySet
    <3> DEFINE c == Pick(T)
    <3>2. c \in T /\ Sum(T) = f[c] + Sum(T \ {c}) /\ f[c] \in Int
      BY <1>1, <3>1
    <3>3. \A x \in T : Good(T \ {x})
      BY <1>5, <1>2, <2>0, <2>1
    <3> HIDE DEF c
    <3>5. ASSUME NEW x \in T PROVE Sum(T) = f[x] + Sum(T \ {x})
      <4>1. CASE x = c
        BY <3>2, <4>1
      <4>2. CASE x # c
        <5>1. Sum(T \ {c}) = f[x] + Sum((T \ {c}) \ {x})
          BY <3>2, <3>3, <4>2
        <5>2. Sum(T \ {x}) = f[c] + Sum((T \ {x}) \ {c})
          BY <3>2, <3>3, <4>2
        <5>3. (T \ {c}) \ {x} = (T \ {x}) \ {c}
          OBVIOUS
        <5>4. Sum((T \ {c}) \ {x}) \in Int
          BY <1>3
        <5>5. f[x] \in Int
          OBVIOUS
        <5> HIDE DEF N, Good
        <5>6. QED
          <6>1. Sum(T \ {x}) = f[c] + Sum((T \ {c}) \ {x})
            BY <5>2, <5>3
          <6>2. f[c] \in Int /\ Sum(T) = f[c] + Sum(T \ {c})
            BY <3>2
          <6>3. QED
            BY <5>1, <5>4, <5>5, <6>1, <6>2
      <4>3. QED
        BY <4>1, <4>2
    <3>6. QED
      BY <3>5
  <2>2. QED
    BY <2>0, <2>1
<1>6. N = Nat
  <2>1. N \in SUBSET Nat
    OBVIOUS
  <2> HIDE DEF N
  <2>2. QED
    BY <1>4, <1>5, <2>1, NumberInduction
<1>7. Good(S)
  <2>1. Cardinality(S) \in N /\ S \in SUBSET S
    BY <1>0, <1>6
  <2>2. QED
    BY <2>1
<1>8. QED
  BY <1>7 DEF Sum

\* Putting an element in.
LEMMA SumAdd ==
  ASSUME NEW f, NEW S, IsFiniteSet(S), \A y \in S : f[y] \in Int, NEW x, x \notin S, f[x] \in Int
  PROVE  SumFunctionOnSet(f, S \cup {x}) = f[x] + SumFunctionOnSet(f, S)
<1>1. IsFiniteSet(S \cup {x}) /\ (S \cup {x}) \ {x} = S
  BY FS_AddElement
<1>2. QED
  BY <1>1, SumRemove

\* The sum over a single element.
LEMMA SumOfOne ==
  ASSUME NEW f, NEW x, f[x] \in Int
  PROVE  SumFunctionOnSet(f, {x}) = f[x]
<1>1. SumFunctionOnSet(f, {} \cup {x}) = f[x] + SumFunctionOnSet(f, {})
  BY SumAdd, FS_EmptySet
<1>2. SumFunctionOnSet(f, {}) = 0
  BY SumEmpty
<1>3. {} \cup {x} = {x}
  OBVIOUS
<1>4. SumFunctionOnSet(f, {x}) = f[x] + 0
  BY <1>1, <1>2, <1>3, Zenon
<1> QED BY <1>4

\* Sums of functions of which one is nowhere larger.
LEMMA SumMonotone ==
  ASSUME NEW f, NEW g, NEW S, IsFiniteSet(S),
         \A x \in S : f[x] \in Int /\ g[x] \in Int /\ f[x] <= g[x]
  PROVE  SumFunctionOnSet(f, S) <= SumFunctionOnSet(g, S)
<1> DEFINE F(T) == SumFunctionOnSet(f, T)
           G(T) == SumFunctionOnSet(g, T)
           P == {T \in SUBSET S : F(T) <= G(T)}
<1>1. \A T \in SUBSET S : F(T) \in Int /\ G(T) \in Int
  BY FS_Subset, SumInt
<1>2. \A T \in SUBSET S : \A x \in S \ T : /\ F(T \cup {x}) = f[x] + F(T)
                                           /\ G(T \cup {x}) = g[x] + G(T)
  BY FS_Subset, SumAdd
<1>3. {} \in P
  BY SumEmpty
<1> HIDE DEF F, G
<1>4. ASSUME NEW T \in P, NEW x \in S \ T PROVE T \cup {x} \in P
  <2>1. F(T) <= G(T) /\ F(T) \in Int /\ G(T) \in Int /\ f[x] \in Int /\ g[x] \in Int /\ f[x] <= g[x]
    BY <1>1
  <2>2. F(T \cup {x}) = f[x] + F(T) /\ G(T \cup {x}) = g[x] + G(T)
    BY <1>2
  <2>3. F(T \cup {x}) <= G(T \cup {x})
    <3> HIDE DEF P
    <3>1. QED
      BY <2>1, <2>2
  <2>4. QED
    BY <2>3
<1>5. S \in P
  <2>1. P \in SUBSET SUBSET S
    OBVIOUS
  <2> HIDE DEF P
  <2>2. QED
    BY <1>3, <1>4, <2>1, SubsetInduction
<1>6. QED
  BY <1>5 DEF F, G

\* Functions that agree on S have the same sum over S.
LEMMA SumAgree ==
  ASSUME NEW f, NEW g, NEW S, IsFiniteSet(S), \A x \in S : f[x] \in Int /\ f[x] = g[x]
  PROVE  SumFunctionOnSet(f, S) = SumFunctionOnSet(g, S)
<1>1. \A x \in S : f[x] \in Int /\ g[x] \in Int /\ f[x] <= g[x] /\ g[x] <= f[x]
  OBVIOUS
<1>2. SumFunctionOnSet(f, S) <= SumFunctionOnSet(g, S)
  BY <1>1, SumMonotone
<1>3. SumFunctionOnSet(g, S) <= SumFunctionOnSet(f, S)
  BY <1>1, SumMonotone
<1>4. SumFunctionOnSet(g, S) \in Int /\ SumFunctionOnSet(f, S) \in Int
  BY <1>1, SumInt
<1>5. QED
  BY <1>2, <1>3, <1>4

\* A function with one value replaced.
LEMMA SumReplace ==
  ASSUME NEW f, NEW g, NEW S, IsFiniteSet(S), NEW x \in S, \A y \in S : f[y] \in Int,
         g[x] \in Int, \A y \in S \ {x} : g[y] = f[y]
  PROVE  SumFunctionOnSet(g, S) = SumFunctionOnSet(f, S) - f[x] + g[x]
<1>1. IsFiniteSet(S \ {x})
  BY FS_Subset
<1>2. SumFunctionOnSet(f, S) = f[x] + SumFunctionOnSet(f, S \ {x})
  BY SumRemove
<1>3. SumFunctionOnSet(g, S) = g[x] + SumFunctionOnSet(g, S \ {x})
  <2>1. \A y \in S : g[y] \in Int
    OBVIOUS
  <2>2. QED
    BY <2>1, SumRemove
<1>4. SumFunctionOnSet(f, S \ {x}) = SumFunctionOnSet(g, S \ {x})
  BY <1>1, SumAgree
<1>5. SumFunctionOnSet(f, S \ {x}) \in Int /\ f[x] \in Int
  BY <1>1, SumInt
<1>6. QED
  BY <1>2, <1>3, <1>4, <1>5

\* A sum of sums.
LEMMA SumPlus ==
  ASSUME NEW f, NEW g, NEW h, NEW S, IsFiniteSet(S),
         \A x \in S : f[x] \in Int /\ g[x] \in Int,
         \A x \in S : h[x] = f[x] + g[x]
  PROVE  SumFunctionOnSet(h, S) = SumFunctionOnSet(f, S) + SumFunctionOnSet(g, S)
<1> DEFINE F(T) == SumFunctionOnSet(f, T)
           G(T) == SumFunctionOnSet(g, T)
           H(T) == SumFunctionOnSet(h, T)
           P == {T \in SUBSET S : H(T) = F(T) + G(T)}
<1>0. \A x \in S : h[x] \in Int
  OBVIOUS
<1>1. \A T \in SUBSET S : F(T) \in Int /\ G(T) \in Int
  BY FS_Subset, SumInt
<1>2. \A T \in SUBSET S : \A x \in S \ T : /\ F(T \cup {x}) = f[x] + F(T)
                                           /\ G(T \cup {x}) = g[x] + G(T)
                                           /\ H(T \cup {x}) = h[x] + H(T)
  BY <1>0, FS_Subset, SumAdd
<1>3. {} \in P
  BY SumEmpty
<1> HIDE DEF F, G, H
<1>4. ASSUME NEW T \in P, NEW x \in S \ T PROVE T \cup {x} \in P
  <2>1. H(T) = F(T) + G(T) /\ F(T) \in Int /\ G(T) \in Int
    BY <1>1
  <2>2. f[x] \in Int /\ g[x] \in Int /\ h[x] = f[x] + g[x]
    OBVIOUS
  <2>3. F(T \cup {x}) = f[x] + F(T) /\ G(T \cup {x}) = g[x] + G(T) /\ H(T \cup {x}) = h[x] + H(T)
    BY <1>2
  <2>4. H(T \cup {x}) = F(T \cup {x}) + G(T \cup {x})
    <3> HIDE DEF P
    <3>1. QED
      BY <2>1, <2>2, <2>3
  <2>5. QED
    BY <2>4
<1>5. S \in P
  <2>1. P \in SUBSET SUBSET S
    OBVIOUS
  <2> HIDE DEF P
  <2>2. QED
    BY <1>3, <1>4, <2>1, SubsetInduction
<1>6. QED
  BY <1>5 DEF F, G, H

\* A multiple of a sum.
LEMMA SumTimes ==
  ASSUME NEW f, NEW h, NEW S, IsFiniteSet(S), NEW a \in Int,
         \A x \in S : f[x] \in Int, \A x \in S : h[x] = a * f[x]
  PROVE  SumFunctionOnSet(h, S) = a * SumFunctionOnSet(f, S)
<1> DEFINE F(T) == SumFunctionOnSet(f, T)
           H(T) == SumFunctionOnSet(h, T)
           P == {T \in SUBSET S : H(T) = a * F(T)}
<1>0. \A x \in S : h[x] \in Int
  OBVIOUS
<1>1. \A T \in SUBSET S : F(T) \in Int
  BY FS_Subset, SumInt
<1>2. \A T \in SUBSET S : \A x \in S \ T : /\ F(T \cup {x}) = f[x] + F(T)
                                           /\ H(T \cup {x}) = h[x] + H(T)
  BY <1>0, FS_Subset, SumAdd
<1>3. {} \in P
  BY SumEmpty
<1> HIDE DEF F, H
<1>4. ASSUME NEW T \in P, NEW x \in S \ T PROVE T \cup {x} \in P
  <2>1. H(T) = a * F(T) /\ F(T) \in Int
    BY <1>1
  <2>2. f[x] \in Int /\ h[x] = a * f[x]
    OBVIOUS
  <2>3. F(T \cup {x}) = f[x] + F(T) /\ H(T \cup {x}) = h[x] + H(T)
    BY <1>2
  <2>4. H(T \cup {x}) = a * F(T \cup {x})
    <3> HIDE DEF P
    <3>1. \A p, r \in Int : a * p + a * r = a * (p + r)
      OBVIOUS
    <3>2. QED
      BY <2>1, <2>2, <2>3, <3>1
  <2>5. QED
    BY <2>4
<1>5. S \in P
  <2>1. P \in SUBSET SUBSET S
    OBVIOUS
  <2> HIDE DEF P
  <2>2. QED
    BY <1>3, <1>4, <2>1, SubsetInduction
<1>6. QED
  BY <1>5 DEF F, H

\* The sum of a constant.
LEMMA SumConstant ==
  ASSUME NEW f, NEW S, IsFiniteSet(S), NEW k \in Int, \A x \in S : f[x] = k
  PROVE  SumFunctionOnSet(f, S) = k * Cardinality(S)
<1> DEFINE F(T) == SumFunctionOnSet(f, T)
           P == {T \in SUBSET S : F(T) = k * Cardinality(T)}
<1>1. \A T \in SUBSET S : \A x \in S \ T : F(T \cup {x}) = k + F(T)
  BY FS_Subset, SumAdd, ZenonT(40)
<1>2. \A T \in SUBSET S : \A x \in S \ T : Cardinality(T \cup {x}) = Cardinality(T) + 1
  BY FS_Subset, FS_AddElement
<1>3. \A T \in SUBSET S : Cardinality(T) \in Nat
  BY FS_Subset, FS_CardinalityType
<1>4. {} \in P
  BY SumEmpty, FS_EmptySet
<1> HIDE DEF F
<1>5. ASSUME NEW T \in P, NEW x \in S \ T PROVE T \cup {x} \in P
  <2>1. F(T) = k * Cardinality(T) /\ Cardinality(T) \in Nat
    BY <1>3
  <2>2. F(T \cup {x}) = k + F(T) /\ Cardinality(T \cup {x}) = Cardinality(T) + 1
    BY <1>1, <1>2
  <2>3. F(T \cup {x}) = k * Cardinality(T \cup {x})
    <3> HIDE DEF P
    <3>1. \A n \in Nat : k + k * n = k * (n + 1)
      OBVIOUS
    <3>2. QED
      BY <2>1, <2>2, <3>1
  <2>4. QED
    BY <2>3
<1>6. S \in P
  <2>1. P \in SUBSET SUBSET S
    OBVIOUS
  <2> HIDE DEF P
  <2>2. QED
    BY <1>4, <1>5, <2>1, SubsetInduction
<1>7. QED
  BY <1>6 DEF F

\* A sum of natural numbers is one, and none of them is larger.
LEMMA SumNat ==
  ASSUME NEW f, NEW S, IsFiniteSet(S), \A x \in S : f[x] \in Nat
  PROVE  /\ SumFunctionOnSet(f, S) \in Nat
         /\ \A x \in S : f[x] <= SumFunctionOnSet(f, S)
<1> DEFINE zero == [x \in S |-> 0]
<1>1. \A T \in SUBSET S : SumFunctionOnSet(f, T) \in Nat
  <2>1. SUFFICES ASSUME NEW T \in SUBSET S PROVE SumFunctionOnSet(f, T) \in Nat
    OBVIOUS
  <2>2. IsFiniteSet(T)
    BY FS_Subset
  <2>3. SumFunctionOnSet(zero, T) = 0 * Cardinality(T) /\ Cardinality(T) \in Nat
    BY <2>2, SumConstant, FS_CardinalityType
  <2>4. SumFunctionOnSet(zero, T) <= SumFunctionOnSet(f, T)
    BY <2>2, SumMonotone
  <2>5. SumFunctionOnSet(f, T) \in Int
    BY <2>2, SumInt
  <2> HIDE DEF zero
  <2>6. QED
    BY <2>3, <2>4, <2>5
<1>2. ASSUME NEW x \in S PROVE f[x] <= SumFunctionOnSet(f, S)
  <2>1. SumFunctionOnSet(f, S) = f[x] + SumFunctionOnSet(f, S \ {x})
    BY SumRemove
  <2>2. SumFunctionOnSet(f, S \ {x}) \in Nat
    BY <1>1
  <2>3. QED
    BY <2>1, <2>2
<1>3. QED
  BY <1>1, <1>2

\* The sum over 1..n+1 has one more summand.
LEMMA SumNextNumber ==
  ASSUME NEW n \in Nat, NEW f, \A i \in 1 .. n + 1 : f[i] \in Int
  PROVE  SumFunctionOnSet(f, 1 .. n + 1) = SumFunctionOnSet(f, 1 .. n) + f[n + 1]
<1>1. 1 .. n + 1 = (1 .. n) \cup {n + 1} /\ n + 1 \notin 1 .. n
  OBVIOUS
<1>2. IsFiniteSet(1 .. n)
  BY FS_Interval
<1>3. SumFunctionOnSet(f, (1 .. n) \cup {n + 1}) = f[n + 1] + SumFunctionOnSet(f, 1 .. n)
  BY <1>1, <1>2, SumAdd
<1>4. SumFunctionOnSet(f, 1 .. n) \in Int
  BY <1>2, SumInt
<1>5. f[n + 1] \in Int
  OBVIOUS
<1>6. SumFunctionOnSet(f, 1 .. n + 1) = f[n + 1] + SumFunctionOnSet(f, 1 .. n)
  BY <1>1, <1>3
<1>7. QED
  BY <1>4, <1>5, <1>6
=============================================================================
