--------------------- MODULE WorkloadManagerListProofs ---------------------
(***************************************************************************)
(* The admission queue as a list, proved for every workload file, every    *)
(* blocking threshold and every outcome of the mapping attempts: models    *)
(* are met in workload order, a blocked one ends the walk, and the list    *)
(* implements the set-level queue of WorkloadManager that GlobalManager    *)
(* is built on.                                                            *)
(***************************************************************************)
EXTENDS WorkloadManagerList, FiniteSetTheorems, WellFoundedInduction, TLAPS

-----------------------------------------------------------------------------
(* Sorting and filtering. *)

\* The order of positions by key, and of equal keys by position.
Precedes(keys, j, k) == keys[j] < keys[k] \/ (keys[j] = keys[k] /\ j < k)

\* Sorted lists all of K, each after those that precede it: a position has more
\* others before it than any that precedes it, and by counting, every number of
\* others below the size of K occurs.
LEMMA SortedIsOrder ==
  ASSUME NEW K \in SUBSET Int, IsFiniteSet(K), NEW keys \in [K -> Int]
  PROVE  /\ Cardinality(K) \in Nat
         /\ Sorted(K, keys) \in [1..Cardinality(K) -> K]
         /\ \A k \in K : \E n \in 1..Cardinality(K) : Sorted(K, keys)[n] = k
         /\ \A m, n \in 1..Cardinality(K) :
              m < n => Precedes(keys, Sorted(K, keys)[m], Sorted(K, keys)[n])
<1> DEFINE N == Cardinality(K)
           B(k) == {j \in K : Precedes(keys, j, k)}
           r(k) == Cardinality(B(k))
           f == [k \in K |-> r(k) + 1]
<1>0. N \in Nat
  BY FS_CardinalityType
<1>1. ASSUME NEW k \in K
      PROVE  r(k) \in Nat /\ r(k) < N /\ IsFiniteSet(B(k))
  <2>1. B(k) \in SUBSET K /\ k \notin B(k)
    BY DEF Precedes
  <2> HIDE DEF B
  <2>2. IsFiniteSet(B(k)) /\ r(k) <= N /\ (N = r(k) => K = B(k))
    BY <2>1, FS_Subset
  <2>3. r(k) \in Nat
    BY <2>2, FS_CardinalityType
  <2>4. QED
    BY <1>0, <2>1, <2>2, <2>3
<1>2. ASSUME NEW j \in K, NEW k \in K, Precedes(keys, j, k)
      PROVE  r(j) < r(k)
  <2>0. \A i \in K : Precedes(keys, i, j) => Precedes(keys, i, k)
    <3> SUFFICES ASSUME NEW i \in K, Precedes(keys, i, j) PROVE Precedes(keys, i, k)
      OBVIOUS
    <3>1. /\ keys[i] \in Int /\ keys[j] \in Int /\ keys[k] \in Int
          /\ i \in Int /\ j \in Int /\ k \in Int
      OBVIOUS
    <3>2. QED
      BY <1>2, <3>1 DEF Precedes
  <2>1. B(j) \in SUBSET B(k) /\ j \in B(k) /\ j \notin B(j)
    <3>1. ~Precedes(keys, j, j)
      BY DEF Precedes
    <3>2. QED
      BY <1>2, <2>0, <3>1
  <2> HIDE DEF B
  <2>2. IsFiniteSet(B(k)) /\ r(j) \in Nat /\ r(k) \in Nat
    BY <1>1
  <2>3. r(j) <= r(k) /\ (r(k) = r(j) => B(k) = B(j))
    BY <2>1, <2>2, FS_Subset
  <2>4. QED
    BY <2>1, <2>2, <2>3
<1>3. \A j, k \in K : j = k \/ Precedes(keys, j, k) \/ Precedes(keys, k, j)
  BY DEF Precedes
<1> HIDE DEF B, r
<1>4. \A j, k \in K : r(j) = r(k) => j = k
  BY <1>1, <1>2, <1>3
<1>5. \A j, k \in K : r(j) < r(k) => Precedes(keys, j, k)
  <2> SUFFICES ASSUME NEW j \in K, NEW k \in K, r(j) < r(k) PROVE Precedes(keys, j, k)
    OBVIOUS
  <2>1. r(j) \in Nat /\ r(k) \in Nat
    BY <1>1
  <2>2. j # k /\ ~(r(k) < r(j))
    BY <2>1
  <2>3. QED
    BY <1>2, <1>3, <2>2
<1>6. f \in Injection(K, 1..N)
  <2>1. f \in [K -> 1..N]
    BY <1>0, <1>1
  <2>2. \A j, k \in K : f[j] = f[k] => j = k
    BY <1>1, <1>4
  <2>3. QED
    BY <2>1, <2>2 DEF Injection, IsInjective
<1>7. f \in Surjection(K, 1..N)
  <2>1. IsFiniteSet(1..N) /\ Cardinality(1..N) = N
    BY <1>0, FS_Interval
  <2>2. QED
    BY <1>6, <2>1, FS_Injection
<1>8. \A n \in 1..N : \E k \in K : r(k) = n - 1
  <2>1. \A n \in 1..N : \E k \in K : f[k] = n
    BY <1>7 DEF Surjection
  <2>2. QED
    BY <1>0, <1>1, <2>1
<1>9. Sorted(K, keys) = [n \in 1..N |-> CHOOSE k \in K : r(k) = n - 1]
  BY DEF Sorted, Precedes, B, r
<1>10. \A n \in 1..N : Sorted(K, keys)[n] \in K /\ r(Sorted(K, keys)[n]) = n - 1
  BY <1>8, <1>9
<1>11. Sorted(K, keys) \in [1..N -> K]
  BY <1>9, <1>10
<1>12. \A k \in K : \E n \in 1..N : Sorted(K, keys)[n] = k
  <2> SUFFICES ASSUME NEW k \in K PROVE \E n \in 1..N : Sorted(K, keys)[n] = k
    OBVIOUS
  <2>1. r(k) + 1 \in 1..N
    BY <1>0, <1>1
  <2>2. r(Sorted(K, keys)[r(k) + 1]) = r(k) /\ Sorted(K, keys)[r(k) + 1] \in K
    BY <1>1, <1>10, <2>1
  <2>3. QED
    BY <1>4, <2>1, <2>2
<1>13. ASSUME NEW m \in 1..N, NEW n \in 1..N, m < n
       PROVE  Precedes(keys, Sorted(K, keys)[m], Sorted(K, keys)[n])
  <2>1. r(Sorted(K, keys)[m]) < r(Sorted(K, keys)[n])
    BY <1>0, <1>10, <1>13
  <2>2. QED
    BY <1>10, <1>5, <2>1
<1>14. QED
  BY <1>0, <1>11, <1>12, <1>13


\* An initial interval is finite.
LEMMA IntervalSize ==
  ASSUME NEW n \in Nat
  PROVE  IsFiniteSet(1..n) /\ Cardinality(1..n) = n /\ 1..n \subseteq Int
BY FS_Interval

\* A function on an initial interval is a sequence.
LEMMA IntervalIsSeq ==
  ASSUME NEW S, NEW n \in Nat, NEW t \in [1..n -> S]
  PROVE  t \in Seq(S) /\ Len(t) = n
OBVIOUS

\* t holds the entries of s at the positions K, each once, in the given order.
Draws(t, s, K, order) ==
  /\ order \in [1..Len(t) -> K]
  /\ \A n \in 1..Len(t) : t[n] = s[order[n]]
  /\ \A k \in K : \E n \in 1..Len(t) : order[n] = k

\* A sorted list holds the entries of the list, by key, and where keys are equal
\* in the order they had.
LEMMA StableSortSorts ==
  ASSUME NEW S, NEW s \in Seq(S), NEW keys \in [DOMAIN s -> Int]
  PROVE  /\ StableSort(s, keys) \in Seq(S)
         /\ Len(StableSort(s, keys)) = Len(s)
         /\ \E order : /\ Draws(StableSort(s, keys), s, DOMAIN s, order)
                       /\ \A m, n \in 1..Len(s) : m < n => Precedes(keys, order[m], order[n])
<1> DEFINE K == DOMAIN s
           order == Sorted(K, keys)
           t == StableSort(s, keys)
<1>1. K = 1..Len(s) /\ Len(s) \in Nat
  OBVIOUS
<1>2. K \in SUBSET Int /\ IsFiniteSet(K) /\ Cardinality(K) = Len(s)
  BY <1>1, IntervalSize, Zenon
<1>3. /\ order \in [1..Len(s) -> K]
      /\ \A k \in K : \E n \in 1..Len(s) : order[n] = k
      /\ \A m, n \in 1..Len(s) : m < n => Precedes(keys, order[m], order[n])
  <2> HIDE DEF K
  <2>1. keys \in [K -> Int]
    BY DEF K
  <2>2. QED
    BY <1>2, <2>1, SortedIsOrder
<1>4. t = At(s, order)
  BY DEF StableSort
<1> HIDE DEF t, order
<1>5. t = [n \in 1..Len(s) |-> s[order[n]]]
  BY <1>3, <1>4 DEF At
<1>6. t \in Seq(S) /\ Len(t) = Len(s)
  <2>1. \A n \in 1..Len(s) : s[order[n]] \in S
    BY <1>1, <1>3
  <2>2. t \in [1..Len(s) -> S]
    BY <1>5, <2>1
  <2>3. QED
    BY <1>1, <2>2, IntervalIsSeq
<1>7. Draws(t, s, K, order)
  <2>1. \A n \in 1..Len(s) : t[n] = s[order[n]]
    BY <1>5
  <2>2. QED
    BY <1>3, <1>6, <2>1 DEF Draws
<1>8. QED
  BY <1>3, <1>6, <1>7 DEF t

\* A filtered list holds the entries at the positions kept, in the order they had.
LEMMA KeepFilters ==
  ASSUME NEW S, NEW s \in Seq(S), NEW K \in SUBSET DOMAIN s
  PROVE  /\ Keep(s, K) \in Seq(S)
         /\ \E order : /\ Draws(Keep(s, K), s, K, order)
                       /\ \A m, n \in 1..Len(Keep(s, K)) : m < n => order[m] < order[n]
<1> DEFINE keys == [k \in K |-> k]
           order == Sorted(K, keys)
           t == Keep(s, K)
           N == Cardinality(K)
<1>1. DOMAIN s = 1..Len(s) /\ Len(s) \in Nat
  OBVIOUS
<1>2. K \in SUBSET Int /\ IsFiniteSet(K)
  <2>1. IsFiniteSet(DOMAIN s) /\ DOMAIN s \subseteq Int
    BY <1>1, IntervalSize, Zenon
  <2>2. QED
    BY <2>1, FS_Subset
<1>3. keys \in [K -> Int]
  BY <1>2
<1>4. /\ order \in [1..N -> K] /\ N \in Nat
      /\ \A k \in K : \E n \in 1..N : order[n] = k
      /\ \A m, n \in 1..N : m < n => Precedes(keys, order[m], order[n])
  <2> HIDE DEF keys
  <2>1. QED
    BY <1>2, <1>3, SortedIsOrder
<1>5. t = At(s, order)
  BY DEF Keep
<1> HIDE DEF t, order, N
<1>6. \A m, n \in 1..N : m < n => order[m] < order[n]
  BY <1>2, <1>4 DEF Precedes
<1>7. t = [n \in 1..N |-> s[order[n]]]
  BY <1>4, <1>5 DEF At
<1>8. t \in Seq(S) /\ Len(t) = N
  <2>1. \A n \in 1..N : s[order[n]] \in S
    BY <1>1, <1>4
  <2>2. t \in [1..N -> S]
    BY <1>7, <2>1
  <2>3. QED
    BY <1>4, <2>2, IntervalIsSeq
<1>9. Draws(t, s, K, order)
  <2>1. \A n \in 1..N : t[n] = s[order[n]]
    BY <1>7
  <2>2. QED
    BY <1>4, <1>8, <2>1 DEF Draws
<1>10. QED
  BY <1>6, <1>8, <1>9 DEF t

-----------------------------------------------------------------------------
(* The workload and the lists of its entries. *)

Row == [idx : Int, time : Nat]

Entry == [idx : Int, ready_time : Nat, failure_age : 0..MaxAge]

\* The sorted workload has every row of the file once, by increasing time.
LEMMA WorkloadIsSorted ==
  /\ Workload \in Seq(Row)
  /\ Len(Workload) = Len(Rows)
  /\ DOMAIN Workload = 1..Len(Workload)
  /\ \A j, k \in DOMAIN Workload : Workload[j].idx = Workload[k].idx => j = k
  /\ \A j, k \in DOMAIN Workload : j <= k => Workload[j].time <= Workload[k].time
<1> DEFINE keys == [k \in DOMAIN Rows |-> Rows[k].time]
<1>1. Rows \in Seq(Row) /\ Len(Rows) \in Nat /\ DOMAIN Rows = 1..Len(Rows)
  BY RowsAssumption DEF Row
<1>2. \A k \in DOMAIN Rows : Rows[k] \in Row /\ Rows[k].time \in Nat
  <2>1. \A k \in DOMAIN Rows : Rows[k] \in Row
    BY <1>1
  <2>2. QED
    BY <2>1 DEF Row
<1>3. keys \in [DOMAIN Rows -> Int]
  BY <1>2
<1>4. Workload = StableSort(Rows, keys)
  BY DEF Workload
<1> HIDE DEF keys
<1>5. /\ Workload \in Seq(Row) /\ Len(Workload) = Len(Rows)
      /\ \E order : /\ Draws(Workload, Rows, DOMAIN Rows, order)
                    /\ \A m, n \in 1..Len(Rows) : m < n => Precedes(keys, order[m], order[n])
  BY <1>1, <1>3, <1>4, StableSortSorts
<1>6. DOMAIN Workload = 1..Len(Rows)
  BY <1>5
<1>7. PICK order : /\ Draws(Workload, Rows, DOMAIN Rows, order)
                   /\ \A m, n \in 1..Len(Rows) : m < n => Precedes(keys, order[m], order[n])
  BY <1>5
<1>8. \A n \in 1..Len(Rows) : order[n] \in DOMAIN Rows /\ Workload[n] = Rows[order[n]]
  BY <1>5, <1>7 DEF Draws
<1>9. ASSUME NEW j \in DOMAIN Workload, NEW k \in DOMAIN Workload, j < k
      PROVE  Workload[j].idx # Workload[k].idx /\ Workload[j].time <= Workload[k].time
  <2>1. /\ order[j] \in DOMAIN Rows /\ order[k] \in DOMAIN Rows
        /\ Workload[j] = Rows[order[j]] /\ Workload[k] = Rows[order[k]]
        /\ Precedes(keys, order[j], order[k])
    BY <1>6, <1>7, <1>8, <1>9
  <2>2. order[j] # order[k]
    BY <1>1, <1>2, <2>1 DEF Precedes, keys
  <2>3. Workload[j].idx # Workload[k].idx
    BY <2>1, <2>2, RowsAssumption
  <2>4. Rows[order[j]].time <= Rows[order[k]].time
    BY <1>2, <2>1 DEF Precedes, keys
  <2>5. QED
    BY <2>1, <2>3, <2>4
<1>10. \A k \in DOMAIN Workload : Workload[k].time \in Nat
  BY <1>2, <1>6, <1>8
<1>11. \A j, k \in DOMAIN Workload : j < k \/ k < j \/ j = k
  BY <1>1, <1>6
<1>12. QED
  <2>1. \A j, k \in DOMAIN Workload : Workload[j].idx = Workload[k].idx => j = k
    BY <1>9, <1>11
  <2>2. ASSUME NEW j \in DOMAIN Workload, NEW k \in DOMAIN Workload, j <= k
        PROVE  Workload[j].time <= Workload[k].time
    <3>1. CASE j = k
      BY <1>10, <3>1
    <3>2. CASE j < k
      BY <1>9, <3>2
    <3>3. QED
      BY <1>1, <1>6, <2>2, <3>1, <3>2
  <2>3. QED
    BY <1>5, <1>6, <2>1, <2>2

\* The position of an entry is its own.
LEMMA PositionFound ==
  ASSUME NEW w \in DOMAIN Workload
  PROVE  Position(Workload[w].idx) = w
BY WorkloadIsSorted DEF Position

\* A list of workload entries, and one in workload order.
FromWorkload(e) ==
  \E w \in DOMAIN Workload : Workload[w].idx = e.idx /\ Workload[w].time = e.ready_time

Listed(s) == s \in Seq(Entry) /\ \A k \in DOMAIN s : FromWorkload(s[k])

Ascending(s) == \A j, k \in DOMAIN s : j < k => Position(s[j].idx) < Position(s[k].idx)

\* Where a listed entry is in the workload.
LEMMA EntryPosition ==
  ASSUME NEW e, FromWorkload(e)
  PROVE  /\ Position(e.idx) \in DOMAIN Workload
         /\ Position(e.idx) \in Nat
         /\ Workload[Position(e.idx)].idx = e.idx
         /\ Workload[Position(e.idx)].time = e.ready_time
<1>1. PICK w \in DOMAIN Workload : Workload[w].idx = e.idx /\ Workload[w].time = e.ready_time
  BY DEF FromWorkload
<1>2. Position(e.idx) = w
  BY <1>1, PositionFound
<1>3. w \in Nat
  BY WorkloadIsSorted
<1>4. QED
  BY <1>1, <1>2, <1>3

\* Later entries are not earlier in time.
LEMMA PositionByTime ==
  ASSUME NEW e, NEW f, FromWorkload(e), FromWorkload(f), e.ready_time < f.ready_time
  PROVE  Position(e.idx) < Position(f.idx)
<1>1. /\ Position(e.idx) \in DOMAIN Workload /\ Position(f.idx) \in DOMAIN Workload
      /\ Position(e.idx) \in Nat /\ Position(f.idx) \in Nat
      /\ Workload[Position(e.idx)].time = e.ready_time
      /\ Workload[Position(f.idx)].time = f.ready_time
  BY EntryPosition
<1>2. \A w \in DOMAIN Workload : Workload[w].time \in Nat
  <2>1. \A w \in DOMAIN Workload : Workload[w] \in Row
    BY WorkloadIsSorted
  <2>2. QED
    BY <2>1 DEF Row
<1>3. Position(f.idx) <= Position(e.idx) => f.ready_time <= e.ready_time
  BY <1>1, WorkloadIsSorted
<1>4. e.ready_time \in Nat /\ f.ready_time \in Nat
  BY <1>1, <1>2
<1>5. QED
  BY <1>1, <1>3, <1>4

\* The members of a list.
LEMMA Members ==
  ASSUME NEW S, NEW s \in Seq(S)
  PROVE  /\ DOMAIN s = 1..Len(s) /\ Len(s) \in Nat
         /\ \A k \in DOMAIN s : s[k] \in S /\ s[k] \in ToSet(s)
         /\ \A e \in ToSet(s) : \E k \in DOMAIN s : s[k] = e
BY DEF ToSet

\* One list after another.
LEMMA After ==
  \A s, u \in Seq(Entry) :
    /\ s \o u \in Seq(Entry)
    /\ DOMAIN (s \o u) = 1..(Len(s) + Len(u))
    /\ \A k \in 1..Len(s) : (s \o u)[k] = s[k]
    /\ \A k \in 1..Len(u) : (s \o u)[Len(s) + k] = u[k]
    /\ \A k \in DOMAIN (s \o u) : k \in 1..Len(s) \/ \E c \in 1..Len(u) : k = Len(s) + c
<1> TAKE s, u \in Seq(Entry)
<1>1. /\ s \o u \in Seq(Entry)
      /\ DOMAIN (s \o u) = 1..(Len(s) + Len(u))
      /\ \A k \in 1..Len(s) : (s \o u)[k] = s[k]
      /\ \A k \in 1..Len(u) : (s \o u)[Len(s) + k] = u[k]
  OBVIOUS
<1>2. ASSUME NEW k \in 1..(Len(s) + Len(u)), k \notin 1..Len(s)
      PROVE  \E c \in 1..Len(u) : k = Len(s) + c
  <2>1. k - Len(s) \in 1..Len(u) /\ k = Len(s) + (k - Len(s))
    BY <1>2
  <2>2. QED
    BY <2>1
<1>3. QED
  BY <1>1, <1>2

\* A list in workload order has every index once.
LEMMA IndexOnce ==
  ASSUME NEW s, Listed(s), Ascending(s), NEW j \in DOMAIN s, NEW k \in DOMAIN s,
         s[j].idx = s[k].idx
  PROVE  j = k
<1>1. j \in Nat /\ k \in Nat
  BY Members DEF Listed
<1>2. Position(s[j].idx) \in Nat /\ Position(s[k].idx) = Position(s[j].idx)
  BY EntryPosition DEF Listed
<1>3. ~(j < k) /\ ~(k < j)
  BY <1>2 DEF Ascending
<1>4. QED
  BY <1>1, <1>3

\* A search finds the entry with the index, if there is one.
LEMMA FindFinds ==
  ASSUME NEW s, Listed(s), Ascending(s), NEW i
  PROVE  /\ \A k \in DOMAIN s : s[k].idx = i => Find(s, i) = k
         /\ (\A k \in DOMAIN s : s[k].idx # i) => Find(s, i) = 0
<1> DEFINE I == {k \in 1..Len(s) : s[k].idx = i}
<1>1. DOMAIN s = 1..Len(s) /\ Len(s) \in Nat
  BY Members DEF Listed
<1>2. Find(s, i) = IF I # {} THEN Min(I) ELSE 0
  BY DEF Find, SelectInSeq
<1>3. ASSUME NEW k \in DOMAIN s, s[k].idx = i PROVE Find(s, i) = k
  <2>1. I = {k}
    BY <1>1, <1>3, IndexOnce
  <2>2. Min({k}) = k
    BY <1>1 DEF Min
  <2>3. QED
    BY <1>2, <2>1, <2>2
<1>4. QED
  BY <1>1, <1>2, <1>3

\* Sorting by time a list in workload order changes nothing of that.
LEMMA SortKeeps ==
  ASSUME NEW s, Listed(s), Ascending(s)
  PROVE  LET t == StableSort(s, [k \in DOMAIN s |-> s[k].ready_time])
         IN  Listed(t) /\ Ascending(t) /\ ToSet(t) = ToSet(s)
<1> DEFINE keys == [k \in DOMAIN s |-> s[k].ready_time]
           t == StableSort(s, keys)
<1>1. s \in Seq(Entry) /\ DOMAIN s = 1..Len(s) /\ Len(s) \in Nat
  BY Members DEF Listed
<1>2. \A k \in DOMAIN s : s[k] \in Entry
  BY <1>1, Members
<1>3. \A k \in DOMAIN s : s[k].ready_time \in Nat
  BY <1>2 DEF Entry
<1>4. keys \in [DOMAIN s -> Int]
  BY <1>3
<1>5. \A k \in DOMAIN s : keys[k] = s[k].ready_time
  OBVIOUS
<1> HIDE DEF keys
<1>6. /\ t \in Seq(Entry) /\ Len(t) = Len(s)
      /\ \E order : /\ Draws(t, s, DOMAIN s, order)
                    /\ \A m, n \in 1..Len(s) : m < n => Precedes(keys, order[m], order[n])
  BY <1>1, <1>4, StableSortSorts
<1> HIDE DEF t
<1>7. PICK order : /\ Draws(t, s, DOMAIN s, order)
                   /\ \A m, n \in 1..Len(s) : m < n => Precedes(keys, order[m], order[n])
  BY <1>6
<1>8. DOMAIN t = 1..Len(s)
  BY <1>1, <1>6
<1>9. \A n \in DOMAIN t : order[n] \in DOMAIN s /\ t[n] = s[order[n]]
  BY <1>6, <1>7, <1>8 DEF Draws
<1>10. Listed(t)
  BY <1>6, <1>9 DEF Listed
<1>11. Ascending(t)
  <2> SUFFICES ASSUME NEW m \in DOMAIN t, NEW n \in DOMAIN t, m < n
               PROVE  Position(s[order[m]].idx) < Position(s[order[n]].idx)
    BY <1>9 DEF Ascending
  <2>1. order[m] \in DOMAIN s /\ order[n] \in DOMAIN s /\ Precedes(keys, order[m], order[n])
    BY <1>7, <1>8, <1>9
  <2>2. CASE s[order[m]].ready_time < s[order[n]].ready_time
    BY <2>1, <2>2, PositionByTime DEF Listed
  <2>3. CASE order[m] < order[n]
    BY <2>1, <2>3 DEF Ascending
  <2>4. QED
    BY <1>5, <2>1, <2>2, <2>3 DEF Precedes
<1>12. ToSet(t) = ToSet(s)
  <2>1. ASSUME NEW e \in ToSet(t) PROVE e \in ToSet(s)
    BY <1>1, <1>6, <1>9, Members
  <2>2. ASSUME NEW e \in ToSet(s) PROVE e \in ToSet(t)
    <3>1. PICK k \in DOMAIN s : s[k] = e
      BY <1>1, Members
    <3>2. PICK n \in DOMAIN t : order[n] = k
      BY <1>6, <1>7, <1>8 DEF Draws
    <3>3. QED
      BY <1>6, <1>9, <3>1, <3>2, Members
  <2>3. QED
    BY <2>1, <2>2
<1>13. QED
  BY <1>10, <1>11, <1>12 DEF t, keys

\* Neither does taking an entry out of it.
LEMMA KeepKeeps ==
  ASSUME NEW s, Listed(s), Ascending(s), NEW i
  PROVE  LET t == Keep(s, {k \in DOMAIN s : s[k].idx # i})
         IN  Listed(t) /\ Ascending(t) /\ ToSet(t) = {e \in ToSet(s) : e.idx # i}
<1> DEFINE K == {k \in DOMAIN s : s[k].idx # i}
           t == Keep(s, K)
<1>1. s \in Seq(Entry) /\ K \in SUBSET DOMAIN s
  BY DEF Listed
<1>2. \A k \in DOMAIN s : k \in K <=> s[k].idx # i
  OBVIOUS
<1> HIDE DEF K
<1>3. /\ t \in Seq(Entry)
      /\ \E order : /\ Draws(t, s, K, order)
                    /\ \A m, n \in 1..Len(t) : m < n => order[m] < order[n]
  BY <1>1, KeepFilters
<1> HIDE DEF t
<1>4. PICK order : /\ Draws(t, s, K, order)
                   /\ \A m, n \in 1..Len(t) : m < n => order[m] < order[n]
  BY <1>3
<1>5. DOMAIN t = 1..Len(t)
  BY <1>3
<1>6. \A n \in DOMAIN t : order[n] \in K /\ order[n] \in DOMAIN s /\ t[n] = s[order[n]]
  BY <1>1, <1>4, <1>5 DEF Draws
<1>7. Listed(t)
  BY <1>3, <1>6 DEF Listed
<1>8. Ascending(t)
  BY <1>4, <1>5, <1>6 DEF Ascending
<1>9. ToSet(t) = {e \in ToSet(s) : e.idx # i}
  <2>1. ASSUME NEW e \in ToSet(t) PROVE e \in ToSet(s) /\ e.idx # i
    BY <1>1, <1>2, <1>3, <1>6, Members
  <2>2. ASSUME NEW e \in ToSet(s), e.idx # i PROVE e \in ToSet(t)
    <3>1. PICK k \in DOMAIN s : s[k] = e
      BY <1>1, Members
    <3>2. PICK n \in DOMAIN t : order[n] = k
      BY <1>2, <1>4, <1>5, <2>2, <3>1 DEF Draws
    <3>3. QED
      BY <1>3, <1>6, <3>1, <3>2, Members
  <2>3. QED
    BY <2>1, <2>2
<1>10. QED
  BY <1>7, <1>8, <1>9 DEF t, K

-----------------------------------------------------------------------------
(* The inductive invariant. *)

\* An entry of the workload that has become ready.
Taken(w) == Workload[w].idx \in injected_models \/ Ready(Workload[w].idx)

\* The ready list is in workload order, which is stronger than being sorted by
\* time. Entries become ready in the order of their times, so those appended by a
\* later call belong behind all others.
ListInv ==
  /\ Listed(ready_models)
  /\ Ascending(ready_models)
  /\ now \in Nat
  /\ handed \in Seq(Int)
  /\ injected_models \subseteq {Workload[w].idx : w \in DOMAIN Workload}
  /\ \A k \in DOMAIN ready_models : ready_models[k].idx \notin injected_models
  /\ \A w \in DOMAIN Workload : Taken(w) => Workload[w].time <= now
  /\ \A v, w \in DOMAIN Workload : Workload[v].time <= Workload[w].time /\ Taken(w) => Taken(v)

IInv ==
  /\ ListInv
  /\ HandedInWorkloadOrder
  /\ BlockingEndsTheWalk

\* What update_ready_models finds.
DueNow == {w \in DOMAIN Workload : ~Taken(w) /\ Workload[w].time <= now}

\* What is ready, and which ready entries block, told from the members of the list.
LEMMA ReadyMembers ==
  ASSUME NEW s, Listed(s), Ascending(s), NEW i
  PROVE  /\ (\E k \in DOMAIN s : s[k].idx = i) <=> (\E e \in ToSet(s) : e.idx = i)
         /\ IsModelBlocking(i, s) <=>
              \E e \in ToSet(s) : e.idx = i /\ e.failure_age >= BlockingAgeThreshold
         /\ \A d, e \in ToSet(s) : d.idx = e.idx => d = e
         /\ \A e \in ToSet(s) : e \in Entry /\ FromWorkload(e)
<1>1. s \in Seq(Entry)
  BY DEF Listed
<1>2. DOMAIN s = 1..Len(s) /\ Len(s) \in Nat
  BY <1>1, Members
<1>3. (\E k \in DOMAIN s : s[k].idx = i) <=> (\E e \in ToSet(s) : e.idx = i)
  BY <1>1, Members
<1>4. \A d, e \in ToSet(s) : d.idx = e.idx => d = e
  BY <1>1, Members, IndexOnce
<1>5. \A e \in ToSet(s) : e \in Entry /\ FromWorkload(e)
  BY <1>1, Members DEF Listed
<1>6. ASSUME NEW k \in DOMAIN s, s[k].idx = i
      PROVE  /\ IsModelBlocking(i, s) <=> s[k].failure_age >= BlockingAgeThreshold
             /\ \A e \in ToSet(s) : e.idx = i => e = s[k]
             /\ s[k] \in ToSet(s)
  <2>1. Find(s, i) = k /\ k # 0
    BY <1>2, <1>6, FindFinds
  <2>2. s[k] \in ToSet(s)
    BY <1>1, Members
  <2>3. QED
    BY <1>4, <1>6, <2>1, <2>2 DEF IsModelBlocking
<1>7. ASSUME \A k \in DOMAIN s : s[k].idx # i
      PROVE  ~IsModelBlocking(i, s) /\ \A e \in ToSet(s) : e.idx # i
  <2>1. Find(s, i) = 0
    BY <1>7, FindFinds
  <2>2. QED
    BY <1>1, <1>3, <1>7, <2>1 DEF IsModelBlocking
<1>8. QED
  <2>1. CASE \E k \in DOMAIN s : s[k].idx = i
    BY <1>3, <1>4, <1>5, <1>6, <2>1
  <2>2. CASE ~\E k \in DOMAIN s : s[k].idx = i
    BY <1>3, <1>4, <1>5, <1>7, <2>2
  <2>3. QED
    BY <2>1, <2>2

\* update_ready_models appends what is due, all of it later than what is there.
LEMMA UpdateKeeps ==
  ASSUME ListInv
  PROVE  LET t == UpdateReadyModels(now)
         IN  /\ Listed(t) /\ Ascending(t)
             /\ ToSet(t) = ToSet(ready_models) \cup {Fresh(Workload[w]) : w \in DueNow}
<1> DEFINE due == Keep(Workload, DueNow)
           fresh == [k \in DOMAIN due |-> Fresh(due[k])]
           t == UpdateReadyModels(now)
           n == Len(ready_models)
<1>1. t = ready_models \o fresh
  <2>1. DueNow = {w \in DOMAIN Workload : /\ Workload[w].idx \notin injected_models
                                          /\ ~Ready(Workload[w].idx)
                                          /\ Workload[w].time <= now}
    BY DEF DueNow, Taken
  <2>2. QED
    BY <2>1 DEF UpdateReadyModels
<1>2. Workload \in Seq(Row) /\ DueNow \in SUBSET DOMAIN Workload
  BY WorkloadIsSorted DEF DueNow
<1>3. /\ due \in Seq(Row)
      /\ \E order : /\ Draws(due, Workload, DueNow, order)
                    /\ \A m, k \in 1..Len(due) : m < k => order[m] < order[k]
  BY <1>2, KeepFilters
<1> HIDE DEF due, t
<1>4. PICK order : /\ Draws(due, Workload, DueNow, order)
                   /\ \A m, k \in 1..Len(due) : m < k => order[m] < order[k]
  BY <1>3
<1>5. DOMAIN due = 1..Len(due) /\ Len(due) \in Nat
  BY <1>3, Members
<1>6. \A k \in 1..Len(due) : order[k] \in DueNow /\ due[k] = Workload[order[k]]
  BY <1>4 DEF Draws
<1>7. ASSUME NEW w \in DOMAIN Workload
      PROVE  /\ Fresh(Workload[w]) \in Entry
             /\ Fresh(Workload[w]).idx = Workload[w].idx
             /\ Fresh(Workload[w]).ready_time = Workload[w].time
             /\ FromWorkload(Fresh(Workload[w]))
  <2>1. Workload[w] \in Row
    BY <1>2
  <2>2. 0 \in 0..MaxAge
    BY RowsAssumption
  <2>3. QED
    BY <2>1, <2>2 DEF Fresh, Row, Entry, FromWorkload
<1>8. /\ fresh \in Seq(Entry) /\ Len(fresh) = Len(due)
      /\ \A k \in 1..Len(due) : fresh[k] = Fresh(Workload[order[k]])
  <2>1. \A k \in 1..Len(due) : Fresh(due[k]) = Fresh(Workload[order[k]]) /\ Fresh(due[k]) \in Entry
    BY <1>2, <1>6, <1>7
  <2>2. fresh \in [1..Len(due) -> Entry]
    BY <1>5, <2>1
  <2>3. fresh \in Seq(Entry) /\ Len(fresh) = Len(due)
    <3> HIDE DEF fresh
    <3>1. QED
      BY <1>5, <2>2, IntervalIsSeq
  <2>4. QED
    BY <1>5, <2>1, <2>3
<1> HIDE DEF fresh
<1>9. ready_models \in Seq(Entry) /\ DOMAIN ready_models = 1..n /\ n \in Nat
  BY Members DEF ListInv, Listed
<1>10. /\ t \in Seq(Entry) /\ DOMAIN t = 1..(n + Len(due)) /\ Len(due) \in Nat /\ n \in Nat
       /\ \A k \in 1..n : t[k] = ready_models[k]
       /\ \A k \in 1..Len(due) : t[n + k] = fresh[k]
       /\ \A k \in DOMAIN t : k \in 1..n \/ \E c \in 1..Len(due) : k = n + c
  <2>1. Len(fresh) = Len(due)
    BY <1>8
  <2> DEFINE u == ready_models \o fresh
  <2>2. /\ u \in Seq(Entry) /\ DOMAIN u = 1..(Len(ready_models) + Len(fresh))
        /\ \A k \in 1..Len(ready_models) : u[k] = ready_models[k]
        /\ \A k \in 1..Len(fresh) : u[Len(ready_models) + k] = fresh[k]
        /\ \A k \in DOMAIN u :
             k \in 1..Len(ready_models) \/ \E c \in 1..Len(fresh) : k = Len(ready_models) + c
    <3>1. ready_models \in Seq(Entry) /\ fresh \in Seq(Entry)
      BY <1>8, <1>9
    <3>2. QED
      BY <3>1, After, Zenon
  <2> HIDE DEF u
  <2>3. t = u
    BY <1>1 DEF u
  <2>4. QED
    BY <1>5, <1>9, <2>1, <2>2, <2>3
<1> HIDE DEF n
<1>11. \A k \in 1..Len(due) : /\ t[n + k] = Fresh(Workload[order[k]])
                              /\ order[k] \in DOMAIN Workload /\ order[k] \in DueNow
                              /\ FromWorkload(t[n + k])
                              /\ t[n + k].ready_time = Workload[order[k]].time
                              /\ Position(t[n + k].idx) = order[k]
  BY <1>2, <1>6, <1>7, <1>8, <1>10, PositionFound
<1>12. \A k \in 1..n : t[k] = ready_models[k] /\ FromWorkload(t[k]) /\ k \in DOMAIN ready_models
  BY <1>9, <1>10 DEF ListInv, Listed
<1>13. Listed(t)
  BY <1>10, <1>11, <1>12 DEF Listed
<1>14. ASSUME NEW j \in 1..n, NEW k \in 1..Len(due)
       PROVE  Position(t[j].idx) < Position(t[n + k].idx)
  <2> DEFINE p == Position(t[j].idx)
             w == order[k]
  <2>1. /\ p \in DOMAIN Workload /\ Workload[p].idx = t[j].idx /\ Workload[p].time = t[j].ready_time
    BY <1>12, EntryPosition
  <2>2. Taken(p)
    BY <1>12, <2>1 DEF Taken, Ready
  <2>3. w \in DOMAIN Workload /\ ~Taken(w)
    BY <1>11 DEF DueNow
  <2>4. ~(Workload[w].time <= Workload[p].time)
    <3> HIDE DEF p, w
    <3>1. QED
      BY <2>1, <2>2, <2>3 DEF ListInv
  <2>5. Workload[w].time \in Nat /\ Workload[p].time \in Nat
    <3>1. Workload[w] \in Row /\ Workload[p] \in Row
      BY <1>2, <2>1, <2>3
    <3>2. QED
      BY <3>1 DEF Row
  <2>6. t[j].ready_time < t[n + k].ready_time
    BY <1>11, <2>1, <2>4, <2>5
  <2>7. QED
    BY <1>11, <1>12, <2>6, PositionByTime
<1>15. Ascending(t)
  <2> SUFFICES ASSUME NEW j \in DOMAIN t, NEW k \in DOMAIN t, j < k
               PROVE  Position(t[j].idx) < Position(t[k].idx)
    BY DEF Ascending
  <2>1. CASE j \in 1..n /\ k \in 1..n
    BY <1>12, <2>1 DEF ListInv, Ascending
  <2>2. CASE j \in 1..n /\ k \notin 1..n
    BY <1>10, <1>14, <2>2
  <2>3. CASE j \notin 1..n /\ k \notin 1..n
    <3>1. PICK b \in 1..Len(due) : j = n + b
      BY <1>10, <2>3
    <3>2. PICK c \in 1..Len(due) : k = n + c
      BY <1>10, <2>3
    <3>3. b < c
      BY <1>10, <3>1, <3>2
    <3>4. order[b] < order[c]
      BY <1>4, <3>3
    <3>5. QED
      BY <1>11, <3>1, <3>2, <3>4
  <2>4. CASE j \notin 1..n /\ k \in 1..n
    BY <1>10, <2>4
  <2>5. QED
    BY <2>1, <2>2, <2>3, <2>4
<1>16. ToSet(t) = ToSet(ready_models) \cup {Fresh(Workload[w]) : w \in DueNow}
  <2>1. ASSUME NEW e \in ToSet(t)
        PROVE  e \in ToSet(ready_models) \/ \E w \in DueNow : e = Fresh(Workload[w])
    <3>1. PICK k \in DOMAIN t : t[k] = e
      BY <1>10, Members
    <3>2. CASE k \in 1..n
      BY <1>9, <1>12, <3>1, <3>2, Members
    <3>3. CASE k \notin 1..n
      <4>1. PICK c \in 1..Len(due) : k = n + c
        BY <1>10, <3>3
      <4>2. QED
        BY <1>11, <3>1, <4>1
    <3>4. QED
      BY <3>2, <3>3
  <2>2. ASSUME NEW e \in ToSet(ready_models) PROVE e \in ToSet(t)
    <3>1. PICK k \in 1..n : ready_models[k] = e
      BY <1>9, Members
    <3>2. k \in DOMAIN t /\ t[k] = e
      BY <1>10, <3>1
    <3>3. QED
      BY <1>10, <3>2, Members
  <2>3. ASSUME NEW w \in DueNow PROVE Fresh(Workload[w]) \in ToSet(t)
    <3>1. PICK k \in 1..Len(due) : order[k] = w
      BY <1>4 DEF Draws
    <3>2. n + k \in DOMAIN t /\ t[n + k] = Fresh(Workload[w])
      BY <1>10, <1>11, <3>1
    <3>3. QED
      BY <1>10, <3>2, Members
  <2>4. QED
    BY <2>1, <2>2, <2>3
<1>17. QED
  BY <1>13, <1>15, <1>16 DEF t

\* An entry after a failed attempt.
Older(e) == [e EXCEPT !.failure_age = IF @ < MaxAge THEN @ + 1 ELSE MaxAge]

\* It differs in its age only.
LEMMA OlderEntry ==
  ASSUME NEW e \in Entry
  PROVE  /\ Older(e) \in Entry /\ Older(e).idx = e.idx
         /\ Older(e).ready_time = e.ready_time
         /\ Older(e).failure_age = IF e.failure_age < MaxAge THEN e.failure_age + 1 ELSE MaxAge
<1> DEFINE a == IF e.failure_age < MaxAge THEN e.failure_age + 1 ELSE MaxAge
<1>1. e.failure_age \in 0..MaxAge /\ MaxAge \in Nat
  BY RowsAssumption DEF Entry
<1>2. a \in 0..MaxAge
  BY <1>1
<1>3. Older(e) = [e EXCEPT !.failure_age = a]
  BY DEF Older
<1>4. Older(e).failure_age = a
  BY <1>3 DEF Entry
<1> HIDE DEF a
<1>5. Older(e) \in Entry /\ Older(e).idx = e.idx /\ Older(e).ready_time = e.ready_time
  BY <1>2, <1>3 DEF Entry
<1>6. QED
  BY <1>4, <1>5 DEF a

\* increment_failure_age changes the age of one entry and nothing else.
LEMMA AgedKeeps ==
  ASSUME ListInv, NEW i, Ready(i)
  PROVE  LET t == Aged(i)
         IN  /\ Listed(t) /\ Ascending(t)
             /\ ToSet(t) = {IF e.idx = i THEN Older(e) ELSE e : e \in ToSet(ready_models)}
             /\ Len(t) = Len(ready_models)
             /\ \A k \in 1..Len(t) : t[k].idx = ready_models[k].idx
<1> DEFINE t == Aged(i)
           n == Len(ready_models)
           New(e) == IF e.idx = i THEN Older(e) ELSE e
<1>1. ready_models \in Seq(Entry) /\ Listed(ready_models) /\ Ascending(ready_models)
  BY DEF ListInv, Listed
<1>2. /\ DOMAIN ready_models = 1..n /\ n \in Nat
      /\ \A k \in 1..n : ready_models[k] \in Entry /\ FromWorkload(ready_models[k])
  BY <1>1, Members DEF Listed
<1>3. PICK m \in 1..n : ready_models[m].idx = i
  BY <1>2 DEF Ready
<1>4. Find(ready_models, i) = m /\ m # 0
  BY <1>1, <1>2, <1>3, FindFinds
<1>5. t = [ready_models EXCEPT ![m].failure_age = IF @ < MaxAge THEN @ + 1 ELSE MaxAge]
  BY <1>4 DEF Aged
<1>6. t = [ready_models EXCEPT ![m] = Older(ready_models[m])]
  BY <1>5 DEF Older
<1>7. \A k \in 1..n : ready_models[k].idx = i <=> k = m
  BY <1>1, <1>2, <1>3, IndexOnce
<1> HIDE DEF t
<1>8. DOMAIN t = 1..n /\ \A k \in 1..n : t[k] = New(ready_models[k])
  BY <1>2, <1>6, <1>7
<1> HIDE DEF n
<1>9. \A k \in 1..n : /\ t[k] \in Entry
                       /\ t[k].idx = ready_models[k].idx
                       /\ t[k].ready_time = ready_models[k].ready_time
  BY <1>2, <1>8, OlderEntry
<1>10. t \in Seq(Entry) /\ Len(t) = n
  <2>1. t = [k \in 1..n |-> t[k]]
    BY <1>6, <1>8
  <2>2. t \in [1..n -> Entry]
    BY <1>9, <2>1
  <2>3. QED
    BY <1>2, <2>2, IntervalIsSeq
<1>11. Listed(t)
  <2>1. \A k \in 1..n : FromWorkload(t[k])
    BY <1>2, <1>9 DEF FromWorkload
  <2>2. QED
    BY <1>8, <1>10, <2>1 DEF Listed
<1>12. Ascending(t)
  BY <1>1, <1>2, <1>8, <1>9 DEF Ascending
<1>13. ToSet(t) = {New(e) : e \in ToSet(ready_models)}
  <2>1. ASSUME NEW e \in ToSet(t) PROVE e \in {New(d) : d \in ToSet(ready_models)}
    <3>1. PICK k \in 1..n : t[k] = e
      BY <1>8, <1>10, Members
    <3>2. ready_models[k] \in ToSet(ready_models) /\ e = New(ready_models[k])
      BY <1>1, <1>2, <1>8, <3>1, Members
    <3>3. QED
      BY <3>2
  <2>2. ASSUME NEW e \in ToSet(ready_models) PROVE New(e) \in ToSet(t)
    <3>1. PICK k \in 1..n : ready_models[k] = e
      BY <1>1, <1>2, Members
    <3>2. t[k] = New(e) /\ k \in DOMAIN t
      BY <1>8, <3>1
    <3>3. QED
      BY <1>10, <3>2, Members
  <2> HIDE DEF New
  <2>3. QED
    BY <2>1, <2>2
<1>14. QED
  BY <1>9, <1>10, <1>11, <1>12, <1>13 DEF t, n

\* The rest of the models handed out.
LEMMA RestOfList ==
  ASSUME NEW s \in Seq(Int), s # <<>>
  PROVE  /\ Head(s) = s[1] /\ 1 \in DOMAIN s /\ Tail(s) \in Seq(Int)
         /\ DOMAIN s = 1..Len(s) /\ Len(s) \in Nat /\ DOMAIN Tail(s) = 1..(Len(s) - 1)
         /\ \A k \in 1..(Len(s) - 1) : Tail(s)[k] = s[k + 1]
OBVIOUS

-----------------------------------------------------------------------------
(* Every step keeps the invariant. *)

\* A new queue is empty.
LEMMA InitIInv == Init => IInv
<1> SUFFICES ASSUME Init PROVE IInv
  OBVIOUS
<1>1. ready_models = <<>> /\ injected_models = {} /\ now = 0 /\ handed = <<>>
  BY DEF Init
<1>2. Listed(ready_models) /\ Ascending(ready_models) /\ handed \in Seq(Int)
  BY <1>1 DEF Listed, Ascending
<1>3. \A w : ~Taken(w)
  BY <1>1 DEF Taken, Ready
<1>4. ListInv
  BY <1>1, <1>2, <1>3 DEF ListInv
<1>5. HandedInWorkloadOrder /\ BlockingEndsTheWalk
  BY <1>1 DEF HandedInWorkloadOrder, BlockingEndsTheWalk
<1>6. QED
  BY <1>4, <1>5 DEF IInv

\* What get_models_to_inject leaves in the list.
LEMMA GetMembers ==
  ASSUME ListInv, GetModelsToInject
  PROVE  /\ Listed(ready_models') /\ Ascending(ready_models')
         /\ ToSet(ready_models') =
              ToSet(ready_models) \cup {Fresh(Workload[w]) : w \in DueNow}
<1> DEFINE updated == UpdateReadyModels(now)
<1>1. /\ Listed(updated) /\ Ascending(updated)
      /\ ToSet(updated) = ToSet(ready_models) \cup {Fresh(Workload[w]) : w \in DueNow}
  BY UpdateKeeps
<1>2. ready_models' = StableSort(updated, [k \in DOMAIN updated |-> updated[k].ready_time])
  BY DEF GetModelsToInject
<1> HIDE DEF updated
<1>3. QED
  BY <1>1, <1>2, SortKeeps

\* The workload never changes.
LEMMA WorkloadFixed ==
  /\ Workload' = Workload
  /\ \A i : Position(i)' = Position(i)
BY DEF Workload, Position, StableSort, Sorted, At

\* The facts about list members that the steps use, before and after a step.
LEMMA ListFacts ==
  ASSUME NEW s, Listed(s), Ascending(s)
  PROVE  /\ s \in Seq(Entry) /\ DOMAIN s = 1..Len(s) /\ Len(s) \in Nat
         /\ \A k \in DOMAIN s : s[k] \in ToSet(s)
         /\ \A e \in ToSet(s) : \E k \in DOMAIN s : s[k] = e
         /\ \A e \in ToSet(s) : e \in Entry /\ e.idx \in Int /\ FromWorkload(e)
         /\ \A d, e \in ToSet(s) : d.idx = e.idx => d = e
         /\ \A j, k \in DOMAIN s : Position(s[j].idx) < Position(s[k].idx) => j < k
<1>1. s \in Seq(Entry)
  BY DEF Listed
<1>2. \A e \in ToSet(s) : e \in Entry /\ FromWorkload(e)
  BY ReadyMembers
<1>3. \A e \in ToSet(s) : e.idx \in Int
  BY <1>2 DEF Entry
<1>4. \A d, e \in ToSet(s) : d.idx = e.idx => d = e
  BY ReadyMembers
<1>5. ASSUME NEW j \in DOMAIN s, NEW k \in DOMAIN s, Position(s[j].idx) < Position(s[k].idx)
      PROVE  j < k
  <2>1. j \in Nat /\ k \in Nat
    BY <1>1, Members
  <2>2. Position(s[j].idx) \in Nat /\ Position(s[k].idx) \in Nat
    BY EntryPosition DEF Listed
  <2>3. ~(k < j) /\ k # j
    BY <1>5, <2>2 DEF Ascending
  <2>4. QED
    BY <2>1, <2>3
<1>6. QED
  BY <1>1, <1>2, <1>3, <1>4, <1>5, Members

\* A call of get_models_to_inject keeps the invariant, and hands out the list.
LEMMA GetStep ==
  ASSUME IInv, GetModelsToInject
  PROVE  IInv'
<1> DEFINE R == ready_models'
<1>1. /\ ListInv /\ Listed(ready_models) /\ Ascending(ready_models) /\ now \in Nat
      /\ injected_models' = injected_models /\ now' = now
      /\ handed' = [k \in DOMAIN R |-> R[k].idx]
  BY DEF IInv, ListInv, GetModelsToInject
<1>2. /\ Listed(R) /\ Ascending(R)
      /\ ToSet(R) = ToSet(ready_models) \cup {Fresh(Workload[w]) : w \in DueNow}
  BY <1>1, GetMembers
<1>3. \A w \in DOMAIN Workload : Workload[w].time \in Nat
  <2>1. \A w \in DOMAIN Workload : Workload[w] \in Row
    BY WorkloadIsSorted
  <2>2. QED
    BY <2>1 DEF Row
<1>4. /\ R \in Seq(Entry) /\ DOMAIN R = 1..Len(R) /\ Len(R) \in Nat
      /\ \A k \in DOMAIN R : R[k] \in ToSet(R)
      /\ \A e \in ToSet(R) : \E k \in DOMAIN R : R[k] = e
      /\ \A e \in ToSet(R) : e \in Entry /\ e.idx \in Int /\ FromWorkload(e)
      /\ \A j, k \in DOMAIN R : Position(R[j].idx) < Position(R[k].idx) => j < k
  BY <1>2, ListFacts
<1>5. \A i : Ready(i) <=> \E e \in ToSet(ready_models) : e.idx = i
  BY <1>1, ReadyMembers DEF Ready
<1>6. \A i : Ready(i)' <=> \E e \in ToSet(R) : e.idx = i
  BY <1>2, ReadyMembers DEF Ready
<1>7. \A w \in DueNow : Fresh(Workload[w]).idx = Workload[w].idx
  BY DEF Fresh
<1>8. ASSUME NEW w \in DOMAIN Workload
      PROVE  Taken(w)' <=> Taken(w) \/ Workload[w].time <= now
  <2>1. Taken(w)' <=> Workload[w].idx \in injected_models \/ Ready(Workload[w].idx)'
    BY <1>1, WorkloadFixed DEF Taken, Ready
  <2>2. Taken(w) => Taken(w)'
    BY <1>2, <1>5, <1>6, <2>1 DEF Taken
  <2>3. w \in DueNow => Taken(w)'
    BY <1>2, <1>6, <1>7, <2>1
  <2>4. Taken(w)' /\ ~Taken(w) => w \in DueNow
    <3> SUFFICES ASSUME Taken(w)', ~Taken(w) PROVE w \in DueNow
      OBVIOUS
    <3>1. PICK e \in ToSet(R) : e.idx = Workload[w].idx
      BY <1>6, <2>1 DEF Taken
    <3>2. e \notin ToSet(ready_models)
      BY <1>5, <3>1 DEF Taken
    <3>3. PICK v \in DueNow : e = Fresh(Workload[v])
      BY <1>2, <3>2
    <3>4. v = w
      BY <1>7, <3>1, <3>3, WorkloadIsSorted DEF DueNow
    <3>5. QED
      BY <3>3, <3>4
  <2>5. QED
    BY <2>2, <2>3, <2>4 DEF DueNow
<1>9. \A e \in ToSet(R) : e.idx \notin injected_models
  <2>1. \A e \in ToSet(ready_models) : e.idx \notin injected_models
    BY <1>1, ListFacts DEF ListInv
  <2>2. \A w \in DueNow : Workload[w].idx \notin injected_models
    BY DEF DueNow, Taken
  <2>3. QED
    BY <1>2, <1>7, <2>1, <2>2
<1>10. ListInv'
  <2>1. Listed(ready_models)' /\ Ascending(ready_models)'
    BY <1>2, WorkloadFixed DEF Listed, Ascending, FromWorkload
  <2>2. handed' \in Seq(Int)
    <3>1. \A k \in DOMAIN R : R[k].idx \in Int
      BY <1>4
    <3>2. handed' \in [1..Len(R) -> Int]
      BY <1>1, <1>4, <3>1
    <3>3. QED
      BY <1>4, <3>2, IntervalIsSeq
  <2>3. \A k \in DOMAIN R : R[k].idx \notin injected_models
    BY <1>4, <1>9
  <2>4. \A w \in DOMAIN Workload : Taken(w)' => Workload[w].time <= now
    BY <1>1, <1>8 DEF ListInv
  <2>5. ASSUME NEW v \in DOMAIN Workload, NEW w \in DOMAIN Workload,
               Workload[v].time <= Workload[w].time, Taken(w)'
        PROVE  Taken(v)'
    <3>1. Workload[w].time <= now
      BY <2>4, <2>5
    <3>2. Workload[v].time <= now
      BY <1>1, <1>3, <2>5, <3>1
    <3>3. QED
      BY <1>8, <3>2
  <2>6. injected_models \subseteq {Workload[w].idx : w \in DOMAIN Workload}
    BY <1>1 DEF ListInv
  <2>7. QED
    BY <1>1, <2>1, <2>2, <2>3, <2>4, <2>5, <2>6, WorkloadFixed DEF ListInv
<1>11. DOMAIN handed' = DOMAIN R /\ \A k \in DOMAIN R : handed'[k] = R[k].idx
  BY <1>1
<1>12. HandedInWorkloadOrder'
  <2>1. \A j, k \in DOMAIN R : j < k => Position(R[j].idx) < Position(R[k].idx)
    BY <1>2 DEF Ascending
  <2>2. \A k \in DOMAIN R : R[k].idx \notin injected_models
    BY <1>4, <1>9
  <2>3. QED
    BY <1>1, <1>11, <2>1, <2>2, WorkloadFixed DEF HandedInWorkloadOrder, Ready
<1>13. BlockingEndsTheWalk'
  <2> SUFFICES ASSUME NEW j \in DOMAIN R, NEW k \in DOMAIN R,
                      Position(R[k].idx) < Position(R[j].idx)
               PROVE  \E i \in 1..j : handed'[i] = R[k].idx
    BY <1>11, WorkloadFixed DEF BlockingEndsTheWalk
  <2>1. k < j
    BY <1>4
  <2>2. k \in 1..j
    BY <1>4, <2>1
  <2>3. QED
    BY <1>11, <2>2
<1>14. QED
  BY <1>10, <1>12, <1>13 DEF IInv

\* The next model of the walk is ready, and those behind it are others.
LEMMA WalkFacts ==
  ASSUME IInv, handed # <<>>
  PROVE  /\ Ready(Head(handed)) /\ Head(handed) \notin injected_models
         /\ Tail(handed) \in Seq(Int)
         /\ \A j, k \in DOMAIN Tail(handed) :
              j < k => Position(Tail(handed)[j]) < Position(Tail(handed)[k])
         /\ \A k \in DOMAIN Tail(handed) :
              /\ Tail(handed)[k] # Head(handed)
              /\ Ready(Tail(handed)[k])
              /\ Tail(handed)[k] \notin injected_models
<1> DEFINE h == Head(handed)
           rest == Tail(handed)
<1>1. handed \in Seq(Int)
  BY DEF IInv, ListInv
<1>2. /\ h = handed[1] /\ 1 \in DOMAIN handed /\ rest \in Seq(Int)
      /\ DOMAIN handed = 1..Len(handed) /\ Len(handed) \in Nat /\ DOMAIN rest = 1..(Len(handed) - 1)
      /\ \A k \in 1..(Len(handed) - 1) : rest[k] = handed[k + 1]
  BY <1>1, RestOfList
<1> HIDE DEF h, rest
<1>3. /\ \A j, k \in DOMAIN handed : j < k => Position(handed[j]) < Position(handed[k])
      /\ \A k \in DOMAIN handed : Ready(handed[k]) /\ handed[k] \notin injected_models
  BY DEF IInv, HandedInWorkloadOrder
<1>4. \A k \in DOMAIN rest : k + 1 \in DOMAIN handed /\ 1 < k + 1 /\ rest[k] = handed[k + 1]
  BY <1>2
<1>5. Ready(h) /\ h \notin injected_models
  BY <1>2, <1>3
<1>6. ASSUME NEW j \in DOMAIN rest, NEW k \in DOMAIN rest, j < k
      PROVE  Position(rest[j]) < Position(rest[k])
  <2>1. j + 1 < k + 1
    BY <1>2, <1>6
  <2>2. QED
    BY <1>3, <1>4, <2>1
<1>7. ASSUME NEW k \in DOMAIN rest
      PROVE  rest[k] # h /\ Ready(rest[k]) /\ rest[k] \notin injected_models
  <2>1. Position(handed[1]) < Position(handed[k + 1])
    BY <1>2, <1>3, <1>4
  <2>2. Position(h) \in Nat
    BY <1>2, <1>5, EntryPosition DEF IInv, ListInv, Listed, Ready
  <2>3. rest[k] # h
    BY <1>2, <1>4, <2>1, <2>2
  <2>4. QED
    BY <1>3, <1>4, <2>3
<1>8. QED
  BY <1>2, <1>5, <1>6, <1>7 DEF h, rest

\* A walk that goes on has no blocking model behind it, if the model it leaves
\* behind does not block in the list as it then is.
LEMMA WalkGoesOn ==
  ASSUME IInv, handed # <<>>, NEW s, Listed(s), Ascending(s),
         \A e \in ToSet(s) : e.idx = Head(handed) \/ e \in ToSet(ready_models),
         ~IsModelBlocking(Head(handed), s),
         NEW j \in DOMAIN Tail(handed), NEW k \in DOMAIN s, IsModelBlocking(s[k].idx, s),
         Position(s[k].idx) < Position(Tail(handed)[j])
  PROVE  \E i \in 1..j : Tail(handed)[i] = s[k].idx
<1> DEFINE h == Head(handed)
           rest == Tail(handed)
           x == s[k].idx
<1>1. handed \in Seq(Int) /\ Listed(ready_models) /\ Ascending(ready_models)
  BY DEF IInv, ListInv
<1>2. /\ h = handed[1] /\ 1 \in DOMAIN handed
      /\ DOMAIN handed = 1..Len(handed) /\ Len(handed) \in Nat /\ DOMAIN rest = 1..(Len(handed) - 1)
      /\ \A i \in 1..(Len(handed) - 1) : rest[i] = handed[i + 1]
  BY <1>1, RestOfList
<1>3. x # h
  OBVIOUS
<1>4. PICK e \in ToSet(s) : e.idx = x /\ e.failure_age >= BlockingAgeThreshold
  BY ReadyMembers
<1>5. e \in ToSet(ready_models)
  BY <1>3, <1>4
<1> HIDE DEF x, h, rest
<1>6. IsModelBlocking(x, ready_models)
  BY <1>1, <1>4, <1>5, ReadyMembers
<1>7. PICK m \in DOMAIN ready_models : ready_models[m].idx = x
  BY <1>1, <1>4, <1>5, ReadyMembers
<1>8. j + 1 \in DOMAIN handed /\ rest[j] = handed[j + 1] /\ j \in Nat
  BY <1>2 DEF rest
<1>9. Position(x) < Position(handed[j + 1])
  BY <1>8 DEF x, rest
<1>10. PICK i \in 1..(j + 1) : handed[i] = x
  BY <1>6, <1>7, <1>8, <1>9 DEF IInv, BlockingEndsTheWalk
<1>11. i # 1
  BY <1>2, <1>3, <1>10
<1>12. i - 1 \in 1..j /\ i - 1 \in 1..(Len(handed) - 1) /\ (i - 1) + 1 = i
  BY <1>2, <1>8, <1>10, <1>11
<1>13. rest[i - 1] = x
  BY <1>2, <1>10, <1>12
<1>14. QED
  BY <1>12, <1>13 DEF x, rest

\* A failed attempt keeps the invariant.
LEMMA FailStep ==
  ASSUME IInv, ModelFails
  PROVE  IInv'
<1> DEFINE h == Head(handed)
           R == ready_models'
           rest == Tail(handed)
<1>1. /\ ListInv /\ Listed(ready_models) /\ Ascending(ready_models) /\ now \in Nat
      /\ injected_models' = injected_models /\ now' = now /\ handed # <<>>
      /\ R = Aged(h)
      /\ handed' = IF IsModelBlocking(h, R) THEN <<>> ELSE rest
  BY DEF IInv, ListInv, ModelFails
<1>2. /\ Ready(h) /\ rest \in Seq(Int)
      /\ \A j, k \in DOMAIN rest : j < k => Position(rest[j]) < Position(rest[k])
      /\ \A k \in DOMAIN rest : Ready(rest[k]) /\ rest[k] \notin injected_models
  BY <1>1, WalkFacts
<1>3. /\ Listed(R) /\ Ascending(R)
      /\ ToSet(R) = {IF e.idx = h THEN Older(e) ELSE e : e \in ToSet(ready_models)}
      /\ Len(R) = Len(ready_models)
      /\ \A k \in 1..Len(R) : R[k].idx = ready_models[k].idx
  BY <1>1, <1>2, AgedKeeps
<1>4. DOMAIN R = 1..Len(R) /\ DOMAIN ready_models = 1..Len(R)
  BY <1>1, <1>3, ListFacts
<1>5. \A e \in ToSet(R) : e.idx = h \/ e \in ToSet(ready_models)
  <2>1. \A e \in ToSet(ready_models) : Older(e).idx = e.idx
    <3>1. \A e \in ToSet(ready_models) : e \in Entry
      BY <1>1, ListFacts
    <3>2. QED
      BY <3>1, OlderEntry
  <2> TAKE e \in ToSet(R)
  <2>2. PICK d \in ToSet(ready_models) : e = IF d.idx = h THEN Older(d) ELSE d
    BY <1>3
  <2>3. QED
    BY <2>1, <2>2
<1>6. \A i : Ready(i)' <=> Ready(i)
  BY <1>3, <1>4 DEF Ready
<1>7. \A w : Taken(w)' <=> Taken(w)
  BY <1>1, <1>6, WorkloadFixed DEF Taken, Ready
<1>8. handed' = <<>> \/ (handed' = rest /\ ~IsModelBlocking(h, R))
  BY <1>1
<1>9. ListInv'
  <2>1. Listed(ready_models)' /\ Ascending(ready_models)'
    BY <1>3, WorkloadFixed DEF Listed, Ascending, FromWorkload
  <2>2. handed' \in Seq(Int)
    <3>1. <<>> \in Seq(Int)
      OBVIOUS
    <3> HIDE DEF rest
    <3>2. QED
      BY <1>2, <1>8, <3>1
  <2>3. QED
    BY <1>1, <1>3, <1>4, <1>7, <2>1, <2>2, WorkloadFixed DEF ListInv
<1>10. HandedInWorkloadOrder'
  <2>1. CASE handed' = <<>>
    BY <2>1 DEF HandedInWorkloadOrder
  <2>2. CASE handed' = rest
    <3>1. \A k \in DOMAIN rest : \E m \in DOMAIN R : R[m].idx = rest[k]
      BY <1>2, <1>3, <1>4 DEF Ready
    <3> HIDE DEF rest
    <3>2. QED
      BY <1>1, <1>2, <2>2, <3>1, WorkloadFixed DEF HandedInWorkloadOrder, Ready
  <2>3. QED
    BY <1>8, <2>1, <2>2
<1>11. BlockingEndsTheWalk'
  <2>1. CASE handed' = <<>>
    BY <2>1 DEF BlockingEndsTheWalk
  <2>2. CASE handed' = rest /\ ~IsModelBlocking(h, R)
    <3>1. ASSUME NEW j \in DOMAIN rest, NEW k \in DOMAIN R, IsModelBlocking(R[k].idx, R),
                 Position(R[k].idx) < Position(rest[j])
          PROVE  \E i \in 1..j : rest[i] = R[k].idx
      BY <1>1, <1>3, <1>5, <2>2, <3>1, WalkGoesOn
    <3> HIDE DEF rest
    <3>2. QED
      BY <2>2, <3>1, WorkloadFixed DEF BlockingEndsTheWalk, IsModelBlocking
  <2>3. QED
    BY <1>8, <2>1, <2>2
<1>12. QED
  BY <1>9, <1>10, <1>11 DEF IInv

\* What mark_model_injected leaves in the list.
LEMMA MarkMembers ==
  ASSUME ListInv, MarkModelInjected
  PROVE  /\ Listed(ready_models') /\ Ascending(ready_models')
         /\ ToSet(ready_models') = {e \in ToSet(ready_models) : e.idx # Head(handed)}
<1>1. Listed(ready_models) /\ Ascending(ready_models)
  BY DEF ListInv
<1> DEFINE t == Keep(ready_models, {k \in DOMAIN ready_models : ready_models[k].idx # Head(handed)})
<1>2. ready_models' = t
  BY DEF MarkModelInjected
<1>3. /\ Listed(t) /\ Ascending(t)
      /\ ToSet(t) = {e \in ToSet(ready_models) : e.idx # Head(handed)}
  BY <1>1, KeepKeeps
<1> HIDE DEF t
<1>4. QED
  BY <1>2, <1>3

\* An injection keeps the invariant.
LEMMA MarkStep ==
  ASSUME IInv, MarkModelInjected
  PROVE  IInv'
<1> DEFINE h == Head(handed)
           R == ready_models'
           rest == Tail(handed)
<1>1. /\ ListInv /\ Listed(ready_models) /\ Ascending(ready_models) /\ now \in Nat
      /\ injected_models' = injected_models \cup {h} /\ now' = now /\ handed # <<>>
      /\ handed' = rest
  BY DEF IInv, ListInv, MarkModelInjected
<1>2. /\ Ready(h) /\ rest \in Seq(Int)
      /\ \A j, k \in DOMAIN rest : j < k => Position(rest[j]) < Position(rest[k])
      /\ \A k \in DOMAIN rest : rest[k] # h /\ Ready(rest[k]) /\ rest[k] \notin injected_models
  BY <1>1, WalkFacts
<1>3. /\ Listed(R) /\ Ascending(R)
      /\ ToSet(R) = {e \in ToSet(ready_models) : e.idx # h}
  BY <1>1, MarkMembers
<1>4. \A i : Ready(i) <=> \E e \in ToSet(ready_models) : e.idx = i
  BY <1>1, ReadyMembers DEF Ready
<1>5. \A i : Ready(i)' <=> \E e \in ToSet(R) : e.idx = i
  BY <1>3, ReadyMembers DEF Ready
<1>6. \A i : Ready(i)' <=> Ready(i) /\ i # h
  BY <1>3, <1>4, <1>5
<1>7. \A w : Taken(w)' <=> Taken(w)
  <2>1. \A w : Taken(w)' <=> Workload[w].idx \in injected_models' \/ Ready(Workload[w].idx)'
    BY WorkloadFixed DEF Taken, Ready
  <2>2. QED
    BY <1>1, <1>2, <1>6, <2>1 DEF Taken
<1>8. ListInv'
  <2>1. Listed(ready_models)' /\ Ascending(ready_models)'
    BY <1>3, WorkloadFixed DEF Listed, Ascending, FromWorkload
  <2>2. handed' \in Seq(Int)
    BY <1>1, <1>2
  <2>3. \A k \in DOMAIN R : R[k].idx \notin injected_models'
    <3>1. \A e \in ToSet(ready_models) : e.idx \notin injected_models
      BY <1>1, ListFacts DEF ListInv
    <3>2. \A k \in DOMAIN R : R[k] \in ToSet(R)
      BY <1>3, ListFacts
    <3>3. QED
      BY <1>1, <1>3, <3>1, <3>2
  <2>4. injected_models' \subseteq {Workload[w].idx : w \in DOMAIN Workload}
    <3>1. PICK k \in DOMAIN ready_models : ready_models[k].idx = h
      BY <1>2 DEF Ready
    <3>2. FromWorkload(ready_models[k])
      BY <1>1 DEF Listed
    <3>3. h \in {Workload[w].idx : w \in DOMAIN Workload}
      BY <3>1, <3>2 DEF FromWorkload
    <3>4. QED
      BY <1>1, <3>3 DEF ListInv
  <2>5. QED
    BY <1>1, <1>7, <2>1, <2>2, <2>3, <2>4, WorkloadFixed DEF ListInv
<1>9. HandedInWorkloadOrder'
  <2>1. \A k \in DOMAIN rest : \E m \in DOMAIN R : R[m].idx = rest[k]
    <3> SUFFICES ASSUME NEW k \in DOMAIN rest PROVE \E m \in DOMAIN R : R[m].idx = rest[k]
      OBVIOUS
    <3>1. PICK e \in ToSet(ready_models) : e.idx = rest[k]
      BY <1>2, <1>4
    <3>2. e \in ToSet(R)
      BY <1>2, <1>3, <3>1
    <3>3. \E m \in DOMAIN R : R[m] = e
      BY <1>3, <3>2, ListFacts
    <3>4. QED
      BY <3>1, <3>3
  <2> HIDE DEF rest
  <2>2. QED
    BY <1>1, <1>2, <2>1, WorkloadFixed DEF HandedInWorkloadOrder, Ready
<1>10. BlockingEndsTheWalk'
  <2>1. ~IsModelBlocking(h, R)
    BY <1>3, ReadyMembers
  <2>2. ASSUME NEW j \in DOMAIN rest, NEW k \in DOMAIN R, IsModelBlocking(R[k].idx, R),
               Position(R[k].idx) < Position(rest[j])
        PROVE  \E i \in 1..j : rest[i] = R[k].idx
    <3>1. \A e \in ToSet(R) : e.idx = h \/ e \in ToSet(ready_models)
      BY <1>3
    <3>2. QED
      BY <1>1, <1>3, <2>1, <2>2, <3>1, WalkGoesOn
  <2> HIDE DEF rest
  <2>3. QED
    BY <1>1, <2>2, WorkloadFixed DEF BlockingEndsTheWalk, IsModelBlocking
<1>11. QED
  BY <1>8, <1>9, <1>10 DEF IInv

\* Nothing happens to the queue while the clock moves.
LEMMA TickStep ==
  ASSUME IInv, Tick \/ UNCHANGED vars
  PROVE  IInv'
<1>1. /\ ready_models' = ready_models /\ injected_models' = injected_models /\ handed' = handed
      /\ now \in Nat /\ now' \in Nat /\ now <= now'
  BY DEF IInv, ListInv, Tick, vars
<1>2. \A w \in DOMAIN Workload : Workload[w].time \in Nat
  <2>1. \A w \in DOMAIN Workload : Workload[w] \in Row
    BY WorkloadIsSorted
  <2>2. QED
    BY <2>1 DEF Row
<1>3. \A w : Taken(w)' <=> Taken(w)
  BY <1>1, WorkloadFixed DEF Taken, Ready
<1>4. ListInv'
  <2>1. Listed(ready_models)' /\ Ascending(ready_models)'
    BY <1>1, WorkloadFixed DEF IInv, ListInv, Listed, Ascending, FromWorkload
  <2>2. \A w \in DOMAIN Workload : Taken(w)' => Workload[w].time <= now'
    BY <1>1, <1>2, <1>3 DEF IInv, ListInv
  <2>3. QED
    BY <1>1, <1>3, <2>1, <2>2, WorkloadFixed DEF IInv, ListInv
<1>5. HandedInWorkloadOrder'
  BY <1>1, WorkloadFixed DEF IInv, HandedInWorkloadOrder, Ready
<1>6. BlockingEndsTheWalk'
  BY <1>1, WorkloadFixed DEF IInv, BlockingEndsTheWalk, IsModelBlocking
<1>7. QED
  BY <1>4, <1>5, <1>6 DEF IInv

\* So every step keeps it.
LEMMA NextIInv == IInv /\ [Next]_vars => IInv'
BY GetStep, FailStep, MarkStep, TickStep DEF Next

\* The invariant holds throughout.
LEMMA ListInvariant == Spec => []IInv
BY InitIInv, NextIInv, PTL DEF Spec

-----------------------------------------------------------------------------
(* The theorems. *)

\* The injection loop meets the waiting models in the order of the sorted
\* workload, rows with equal times in file order, and whatever it still has to
\* look at is ready, whatever was injected, postponed or became due before.
THEOREM HandedInWorkloadOrderCorrect == Spec => []HandedInWorkloadOrder
<1>1. IInv => HandedInWorkloadOrder
  BY DEF IInv
<1>2. QED
  BY <1>1, ListInvariant, PTL

\* When a ready model has failed often enough to block, the walk over the list
\* returned by get_models_to_inject looks at nothing behind it.
THEOREM BlockingEndsTheWalkCorrect == Spec => []BlockingEndsTheWalk
<1>1. IInv => BlockingEndsTheWalk
  BY DEF IInv
<1>2. QED
  BY <1>1, ListInvariant, PTL

-----------------------------------------------------------------------------
(* The list implements the queue. *)

InjectedPositions == {Position(idx) : idx \in injected_models}

\* What the queue sees of the list: its members, by position, and their ages.
Seen ==
  /\ ReadyPositions \subseteq DOMAIN Workload
  /\ InjectedPositions \subseteq DOMAIN Workload
  /\ \A w \in DOMAIN Workload :
       /\ w \in ReadyPositions <=> \E e \in ToSet(ready_models) : e.idx = Workload[w].idx
       /\ w \in InjectedPositions <=> Workload[w].idx \in injected_models
       /\ \A e \in ToSet(ready_models) : e.idx = Workload[w].idx => AgeOf(w) = e.failure_age
       /\ w \notin ReadyPositions => AgeOf(w) = 0

\* The invariant makes the list look that way.
LEMMA QueueSees == IInv => Seen
<1> SUFFICES ASSUME IInv PROVE Seen
  OBVIOUS
<1>1. /\ Listed(ready_models) /\ Ascending(ready_models)
      /\ injected_models \subseteq {Workload[w].idx : w \in DOMAIN Workload}
  BY DEF IInv, ListInv
<1>2. /\ \A k \in DOMAIN ready_models : ready_models[k] \in ToSet(ready_models)
      /\ \A e \in ToSet(ready_models) : \E k \in DOMAIN ready_models : ready_models[k] = e
      /\ \A e \in ToSet(ready_models) : FromWorkload(e)
      /\ DOMAIN ready_models = 1..Len(ready_models)
  BY <1>1, ListFacts
<1>3. ReadyPositions = {Position(e.idx) : e \in ToSet(ready_models)}
  BY <1>2 DEF ReadyPositions
<1>4. ReadyPositions \subseteq DOMAIN Workload
  BY <1>2, <1>3, EntryPosition
<1>5. ASSUME NEW w \in DOMAIN Workload
      PROVE  w \in ReadyPositions <=> \E e \in ToSet(ready_models) : e.idx = Workload[w].idx
  <2>1. ASSUME w \in ReadyPositions PROVE \E e \in ToSet(ready_models) : e.idx = Workload[w].idx
    BY <1>2, <1>3, <2>1, EntryPosition
  <2>2. ASSUME NEW e \in ToSet(ready_models), e.idx = Workload[w].idx PROVE w \in ReadyPositions
    BY <1>3, <2>2, PositionFound
  <2>3. QED
    BY <2>1, <2>2
<1>6. \A idx \in injected_models :
        Position(idx) \in DOMAIN Workload /\ Workload[Position(idx)].idx = idx
  BY <1>1, PositionFound
<1>7. InjectedPositions \subseteq DOMAIN Workload
  BY <1>6 DEF InjectedPositions
<1>8. \A w \in DOMAIN Workload : w \in InjectedPositions <=> Workload[w].idx \in injected_models
  BY <1>6, PositionFound DEF InjectedPositions
<1>9. ASSUME NEW w \in DOMAIN Workload, NEW e \in ToSet(ready_models), e.idx = Workload[w].idx
      PROVE  AgeOf(w) = e.failure_age
  <2>1. PICK k \in DOMAIN ready_models : ready_models[k] = e
    BY <1>2
  <2>2. Find(ready_models, Workload[w].idx) = k /\ k # 0
    BY <1>1, <1>2, <1>9, <2>1, FindFinds
  <2>3. QED
    BY <2>1, <2>2 DEF AgeOf
<1>10. ASSUME NEW w \in DOMAIN Workload, w \notin ReadyPositions PROVE AgeOf(w) = 0
  <2>1. \A k \in DOMAIN ready_models : ready_models[k].idx # Workload[w].idx
    BY <1>2, <1>5, <1>10
  <2>2. Find(ready_models, Workload[w].idx) = 0
    BY <1>1, <2>1, FindFinds
  <2>3. QED
    BY <2>2 DEF AgeOf
<1>11. QED
  BY <1>4, <1>5, <1>7, <1>8, <1>9, <1>10 DEF Seen

\* A bounded nonempty set of natural numbers has a greatest element.
LEMMA GreatestNumber ==
  ASSUME NEW T \in SUBSET Nat, T # {}, NEW b \in Nat, \A x \in T : x <= b
  PROVE  \E x \in T : \A y \in T : y <= x
<1> DEFINE D == {b - x : x \in T}
<1>1. D \in SUBSET Nat /\ D # {}
  OBVIOUS
<1>2. PICK d \in D : \A c \in D : ~(<<c, d>> \in OpToRel(<, Nat))
  <2> HIDE DEF D
  <2>1. QED
    BY <1>1, NatLessThanWellFounded, WFMin, Zenon
<1>3. PICK x \in T : d = b - x
  OBVIOUS
<1>4. ASSUME NEW y \in T PROVE y <= x
  <2>1. b - y \in D /\ b - y \in Nat /\ d \in Nat
    BY <1>1
  <2>2. ~(b - y < d)
    BY <1>2, <2>1 DEF OpToRel
  <2>3. QED
    BY <1>3, <2>1, <2>2
<1>5. QED
  BY <1>4

\* The queue need only be asked at the times entries become due.
LEMMA MomentOf ==
  ASSUME now \in Nat
  PROVE  \E t \in Queue!Moments :
           \A w \in DOMAIN Workload : Workload[w].time <= t <=> Workload[w].time <= now
<1> DEFINE T == {x \in Queue!Moments : x <= now}
<1>1. DOMAIN Workload = 1..Len(Rows)
  BY WorkloadIsSorted
<1>2. \A w \in DOMAIN Workload : Workload[w].time \in Nat
  <2>1. \A w \in DOMAIN Workload : Workload[w] \in Row
    BY WorkloadIsSorted
  <2>2. QED
    BY <2>1 DEF Row
<1>3. Queue!Moments = {0} \cup {Workload[w].time : w \in DOMAIN Workload}
  BY <1>1 DEF Queue!Moments, Queue!Models
<1>4. T \in SUBSET Nat /\ T # {} /\ \A x \in T : x <= now
  BY <1>2, <1>3
<1>5. PICK t \in T : \A y \in T : y <= t
  <2> HIDE DEF T
  <2>1. QED
    BY <1>4, GreatestNumber
<1>6. t \in Nat /\ t <= now
  BY <1>4
<1>7. ASSUME NEW w \in DOMAIN Workload PROVE Workload[w].time <= t <=> Workload[w].time <= now
  <2>1. Workload[w].time <= now => Workload[w].time \in T
    BY <1>3
  <2>2. QED
    BY <1>2, <1>5, <1>6, <2>1
<1>8. QED
  BY <1>5, <1>7

\* A call of get_models_to_inject is one of the queue.
LEMMA GetImplements ==
  ASSUME IInv, IInv', GetModelsToInject
  PROVE  Queue!QueueNext
<1> DEFINE R == ready_models'
<1>1. ListInv /\ injected_models' = injected_models /\ now \in Nat
  BY DEF IInv, ListInv, GetModelsToInject
<1>2. ToSet(R) = ToSet(ready_models) \cup {Fresh(Workload[w]) : w \in DueNow}
  BY <1>1, GetMembers
<1>3. Seen /\ Seen'
  <2>1. Seen
    BY QueueSees
  <2>2. Seen'
    BY QueueSees, PTL
  <2>3. QED
    BY <2>1, <2>2
<1>4. DOMAIN Workload = 1..Len(Rows)
  BY WorkloadIsSorted
<1>5. PICK t \in Queue!Moments :
        \A w \in DOMAIN Workload : Workload[w].time <= t <=> Workload[w].time <= now
  BY <1>1, MomentOf
<1>6. InjectedPositions' = InjectedPositions
  BY <1>1, WorkloadFixed DEF InjectedPositions
<1>7. \A w \in DOMAIN Workload : w \in DueNow <=>
        w \notin ReadyPositions /\ w \notin InjectedPositions /\ Workload[w].time <= now
  <2>1. Listed(ready_models) /\ Ascending(ready_models)
    BY <1>1 DEF ListInv
  <2>2. \A i : Ready(i) <=> \E e \in ToSet(ready_models) : e.idx = i
    BY <2>1, ReadyMembers DEF Ready
  <2>3. QED
    BY <1>3, <2>2 DEF DueNow, Taken, Seen
<1>8. \A w \in DueNow : w \in DOMAIN Workload /\ Fresh(Workload[w]).idx = Workload[w].idx
                          /\ Fresh(Workload[w]).failure_age = 0
  BY DEF Fresh, DueNow
<1>9. Queue!Due(t) = DueNow
  BY <1>4, <1>5, <1>7, <1>8 DEF Queue!Due, Queue!Models, InjectedPositions
<1>10. ReadyPositions' = ReadyPositions \cup DueNow
  <2>1. \A w \in DOMAIN Workload : w \in ReadyPositions' <=> w \in ReadyPositions \cup DueNow
    <3> SUFFICES ASSUME NEW w \in DOMAIN Workload
                 PROVE  w \in ReadyPositions' <=> w \in ReadyPositions \cup DueNow
      OBVIOUS
    <3>1. w \in ReadyPositions' <=> \E e \in ToSet(R) : e.idx = Workload[w].idx
      BY <1>3, WorkloadFixed DEF Seen
    <3>2. w \in ReadyPositions <=> \E e \in ToSet(ready_models) : e.idx = Workload[w].idx
      BY <1>3 DEF Seen
    <3>3. (\E v \in DueNow : Fresh(Workload[v]).idx = Workload[w].idx) <=> w \in DueNow
      BY <1>8, WorkloadIsSorted
    <3>4. QED
      BY <1>2, <3>1, <3>2, <3>3
  <2>2. ReadyPositions' \subseteq DOMAIN Workload /\ ReadyPositions \subseteq DOMAIN Workload
    BY <1>3, WorkloadFixed DEF Seen
  <2>3. QED
    BY <1>8, <2>1, <2>2
<1>11. \A w \in DOMAIN Workload : AgeOf(w)' = IF w \in DueNow THEN 0 ELSE AgeOf(w)
  <2> SUFFICES ASSUME NEW w \in DOMAIN Workload
               PROVE  AgeOf(w)' = IF w \in DueNow THEN 0 ELSE AgeOf(w)
    OBVIOUS
  <2>1. \A e \in ToSet(R) : e.idx = Workload[w].idx => AgeOf(w)' = e.failure_age
    BY <1>3, WorkloadFixed DEF Seen
  <2>2. w \notin ReadyPositions' => AgeOf(w)' = 0
    BY <1>3, WorkloadFixed DEF Seen
  <2>3. CASE w \in DueNow
    <3>1. Fresh(Workload[w]) \in ToSet(R)
      BY <1>2, <2>3
    <3>2. QED
      BY <1>8, <2>1, <2>3, <3>1
  <2>4. CASE w \in ReadyPositions
    <3>1. PICK e \in ToSet(ready_models) : e.idx = Workload[w].idx
      BY <1>3, <2>4 DEF Seen
    <3>2. AgeOf(w) = e.failure_age /\ AgeOf(w)' = e.failure_age
      BY <1>2, <1>3, <2>1, <3>1 DEF Seen
    <3>3. QED
      BY <1>7, <2>4, <3>2
  <2>5. CASE w \notin ReadyPositions /\ w \notin DueNow
    BY <1>3, <1>10, <2>2, <2>5 DEF Seen
  <2>6. QED
    BY <2>3, <2>4, <2>5
<1>12. Queue!GetModelsToInject(t)
  BY <1>4, <1>6, <1>9, <1>10, <1>11, WorkloadFixed
  DEF Queue!GetModelsToInject, Queue!Models, InjectedPositions
<1>13. QED
  BY <1>5, <1>12 DEF Queue!QueueNext

\* The model the walk is at, as the queue sees it.
LEMMA NextSeen ==
  ASSUME IInv, handed # <<>>
  PROVE  /\ Position(Head(handed)) \in ReadyPositions
         /\ Position(Head(handed)) \in DOMAIN Workload
         /\ Workload[Position(Head(handed))].idx = Head(handed)
<1>1. Ready(Head(handed))
  BY WalkFacts
<1>2. PICK k \in DOMAIN ready_models : ready_models[k].idx = Head(handed)
  BY <1>1 DEF Ready
<1>3. FromWorkload(ready_models[k])
  BY DEF IInv, ListInv, Listed
<1>4. QED
  BY <1>2, <1>3, EntryPosition DEF ReadyPositions

\* A failed attempt is one of the queue.
LEMMA FailImplements ==
  ASSUME IInv, IInv', ModelFails
  PROVE  Queue!QueueNext
<1> DEFINE h == Head(handed)
           R == ready_models'
           m == Position(h)
<1>1. ListInv /\ injected_models' = injected_models /\ handed # <<>> /\ R = Aged(h)
  BY DEF IInv, ModelFails
<1>2. m \in ReadyPositions /\ m \in DOMAIN Workload /\ Workload[m].idx = h
  BY <1>1, NextSeen
<1>3. ToSet(R) = {IF e.idx = h THEN Older(e) ELSE e : e \in ToSet(ready_models)}
  BY <1>1, WalkFacts, AgedKeeps
<1>4. Seen /\ Seen'
  <2>1. Seen
    BY QueueSees
  <2>2. Seen'
    BY QueueSees, PTL
  <2>3. QED
    BY <2>1, <2>2
<1>5. \A e \in ToSet(ready_models) : e \in Entry
  BY <1>1, ListFacts DEF ListInv
<1>6. \A e \in ToSet(ready_models) :
        /\ Older(e).idx = e.idx
        /\ Older(e).failure_age = IF e.failure_age < MaxAge THEN e.failure_age + 1 ELSE MaxAge
  BY <1>5, OlderEntry
<1> HIDE DEF h, m
<1>7. \A i : (\E e \in ToSet(R) : e.idx = i) <=> (\E e \in ToSet(ready_models) : e.idx = i)
  <2> TAKE i
  <2>1. ASSUME NEW e \in ToSet(R), e.idx = i PROVE \E d \in ToSet(ready_models) : d.idx = i
    <3>1. PICK d \in ToSet(ready_models) : e = IF d.idx = h THEN Older(d) ELSE d
      BY <1>3
    <3>2. QED
      BY <1>6, <2>1, <3>1
  <2>2. ASSUME NEW d \in ToSet(ready_models), d.idx = i PROVE \E e \in ToSet(R) : e.idx = i
    <3>1. (IF d.idx = h THEN Older(d) ELSE d) \in ToSet(R)
      BY <1>3
    <3>2. QED
      BY <1>6, <2>2, <3>1
  <2>3. QED
    BY <2>1, <2>2
<1>8. ReadyPositions' = ReadyPositions
  <2>1. \A w \in DOMAIN Workload : w \in ReadyPositions' <=> w \in ReadyPositions
    BY <1>4, <1>7, WorkloadFixed DEF Seen
  <2>2. ReadyPositions' \subseteq DOMAIN Workload /\ ReadyPositions \subseteq DOMAIN Workload
    BY <1>4, WorkloadFixed DEF Seen
  <2>3. QED
    BY <2>1, <2>2
<1>9. InjectedPositions' = InjectedPositions
  BY <1>1, WorkloadFixed DEF InjectedPositions
<1>10. ASSUME NEW w \in DOMAIN Workload
       PROVE  AgeOf(w)' = IF w = m THEN IF AgeOf(m) < MaxAge THEN AgeOf(m) + 1 ELSE MaxAge
                          ELSE AgeOf(w)
  <2>1. \A e \in ToSet(R) : e.idx = Workload[w].idx => AgeOf(w)' = e.failure_age
    BY <1>4, WorkloadFixed DEF Seen
  <2>2. CASE w \in ReadyPositions
    <3>1. PICK e \in ToSet(ready_models) : e.idx = Workload[w].idx
      BY <1>4, <2>2 DEF Seen
    <3>2. AgeOf(w) = e.failure_age
      BY <1>4, <3>1 DEF Seen
    <3>3. w = m <=> e.idx = h
      BY <1>2, <3>1, WorkloadIsSorted
    <3>4. (IF e.idx = h THEN Older(e) ELSE e) \in ToSet(R)
      BY <1>3
    <3>5. AgeOf(w)' = IF e.idx = h THEN Older(e).failure_age ELSE e.failure_age
      BY <1>6, <2>1, <3>1, <3>4
    <3>6. QED
      BY <1>6, <3>2, <3>3, <3>5
  <2>3. CASE w \notin ReadyPositions
    <3>1. AgeOf(w)' = 0 /\ AgeOf(w) = 0
      BY <1>4, <1>8, <2>3, WorkloadFixed DEF Seen
    <3>2. QED
      BY <1>2, <2>3, <3>1
  <2>4. QED
    BY <2>2, <2>3
<1>11. Queue!IncrementFailureAge(m)
  BY <1>2, <1>8, <1>9, <1>10, WorkloadFixed
  DEF Queue!IncrementFailureAge, Queue!AgeAfterFailure, InjectedPositions
<1>12. QED
  BY <1>2, <1>11 DEF Queue!QueueNext

\* An injection is one of the queue.
LEMMA MarkImplements ==
  ASSUME IInv, IInv', MarkModelInjected
  PROVE  Queue!QueueNext
<1> DEFINE h == Head(handed)
           R == ready_models'
           m == Position(h)
<1>1. ListInv /\ injected_models' = injected_models \cup {h} /\ handed # <<>>
  BY DEF IInv, MarkModelInjected
<1>2. m \in ReadyPositions /\ m \in DOMAIN Workload /\ Workload[m].idx = h
  BY <1>1, NextSeen
<1>3. ToSet(R) = {e \in ToSet(ready_models) : e.idx # h}
  BY <1>1, MarkMembers
<1>4. Seen /\ Seen'
  <2>1. Seen
    BY QueueSees
  <2>2. Seen'
    BY QueueSees, PTL
  <2>3. QED
    BY <2>1, <2>2
<1>5. InjectedPositions' = InjectedPositions \cup {m}
  <2>1. InjectedPositions' = {Position(idx) : idx \in injected_models'}
    BY WorkloadFixed DEF InjectedPositions
  <2>2. QED
    BY <1>1, <2>1 DEF InjectedPositions
<1> HIDE DEF h, m
<1>6. \A w \in DOMAIN Workload : w = m <=> Workload[w].idx = h
  BY <1>2, WorkloadIsSorted
<1>7. ReadyPositions' = ReadyPositions \ {m}
  <2>1. \A w \in DOMAIN Workload : w \in ReadyPositions' <=> w \in ReadyPositions /\ w # m
    BY <1>3, <1>4, <1>6, WorkloadFixed DEF Seen
  <2>2. ReadyPositions' \subseteq DOMAIN Workload /\ ReadyPositions \subseteq DOMAIN Workload
    BY <1>4, WorkloadFixed DEF Seen
  <2>3. QED
    BY <2>1, <2>2
<1>8. ASSUME NEW w \in DOMAIN Workload
      PROVE  AgeOf(w)' = IF w = m THEN 0 ELSE AgeOf(w)
  <2>1. CASE w \in ReadyPositions /\ w # m
    <3>1. PICK e \in ToSet(ready_models) : e.idx = Workload[w].idx
      BY <1>4, <2>1 DEF Seen
    <3>2. e \in ToSet(R)
      BY <1>3, <1>6, <2>1, <3>1
    <3>3. AgeOf(w) = e.failure_age
      BY <1>4, <3>1 DEF Seen
    <3>4. AgeOf(w)' = e.failure_age
      BY <1>4, <3>1, <3>2, WorkloadFixed DEF Seen
    <3>5. QED
      BY <2>1, <3>3, <3>4
  <2>2. CASE w \notin ReadyPositions \/ w = m
    <3>1. AgeOf(w)' = 0
      BY <1>4, <1>7, <2>2, WorkloadFixed DEF Seen
    <3>2. w \notin ReadyPositions => AgeOf(w) = 0
      BY <1>4 DEF Seen
    <3>3. QED
      BY <2>2, <3>1, <3>2
  <2>3. QED
    BY <2>1, <2>2
<1>9. Queue!MarkModelInjected(m)
  BY <1>2, <1>5, <1>7, <1>8, WorkloadFixed
  DEF Queue!MarkModelInjected, InjectedPositions
<1>10. QED
  BY <1>2, <1>9 DEF Queue!QueueNext

\* Every step of the list is a step of the queue, or none.
LEMMA QueueStep ==
  ASSUME IInv, IInv', [Next]_vars
  PROVE  [Queue!QueueNext]_(Queue!workloadVars)
<1>1. CASE Tick \/ UNCHANGED vars
  <2>1. ready_models' = ready_models /\ injected_models' = injected_models
    BY <1>1 DEF Tick, vars
  <2>2. ReadyPositions' = ReadyPositions /\ InjectedPositions' = InjectedPositions
    BY <2>1, WorkloadFixed DEF ReadyPositions, InjectedPositions
  <2>3. [k \in DOMAIN Workload |-> AgeOf(k)]' = [k \in DOMAIN Workload |-> AgeOf(k)]
    BY <2>1, WorkloadFixed DEF AgeOf
  <2>4. QED
    BY <2>2, <2>3 DEF Queue!workloadVars, InjectedPositions
<1>2. CASE GetModelsToInject
  BY <1>2, GetImplements
<1>3. CASE ModelFails
  BY <1>3, FailImplements
<1>4. CASE MarkModelInjected
  BY <1>4, MarkImplements
<1>5. QED
  BY <1>1, <1>2, <1>3, <1>4 DEF Next

\* An empty list is an empty queue.
LEMMA QueueStart == Init => Queue!WorkloadInit
<1> SUFFICES ASSUME Init PROVE Queue!WorkloadInit
  OBVIOUS
<1>1. ready_models = <<>> /\ injected_models = {}
  BY DEF Init
<1>2. Seen
  BY InitIInv, QueueSees
<1>3. ReadyPositions = {} /\ InjectedPositions = {}
  BY <1>1 DEF ReadyPositions, InjectedPositions
<1>4. \A w \in DOMAIN Workload : AgeOf(w) = 0
  BY <1>2, <1>3 DEF Seen
<1>5. DOMAIN Workload = 1..Len(Rows)
  BY WorkloadIsSorted
<1>6. QED
  BY <1>3, <1>4, <1>5 DEF Queue!WorkloadInit, Queue!Models, InjectedPositions

\* The list that workload_manager.py keeps, sorted, searched, filtered and
\* appended to, behaves like the set of ready entries with their ages that
\* GlobalManager is built on: every call does to the list what the queue promises.
THEOREM QueueImplemented == Spec => ImplementsQueue
<1>1. IInv /\ IInv' /\ [Next]_vars => [Queue!QueueNext]_(Queue!workloadVars)
  BY QueueStep
<1>2. QED
  BY <1>1, QueueStart, ListInvariant, PTL DEF Spec, ImplementsQueue, Queue!QueueSpec
=============================================================================
