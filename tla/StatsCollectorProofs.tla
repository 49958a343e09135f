------------------------ MODULE StatsCollectorProofs ------------------------
(***************************************************************************)
(* The DSENT statistics, proved for any number of network simulations and  *)
(* of failed writes and any dump threshold: no entry is lost while it can  *)
(* still be written, and what was written is in order.                     *)
(***************************************************************************)
EXTENDS StatsCollector, WellFoundedInduction, TLAPS

-----------------------------------------------------------------------------
(* The inductive invariant, of a buffer and a file that hold n entries. *)

\* In the file, followed by the buffer, an entry comes after a copy of every
\* entry before it.  A failed dump leaves a prefix of the buffer in the file and
\* the whole of it to be written again, which keeps this so.
Ordered(f, b) ==
    /\ \A k \in DOMAIN f : \A e \in 1 .. f[k] - 1 : \E j \in 1 .. k - 1 : f[j] = e
    /\ \A k \in DOMAIN b : \A e \in 1 .. b[k] - 1 :
          e \in ToSet(f) \/ \E j \in 1 .. k - 1 : b[j] = e

Holds(f, b, n) == \A e \in 1 .. n : e \in ToSet(f) \cup ToSet(b)

\* Every entry once and in order.
Counted(f, b, n) ==
    /\ Len(f) + Len(b) = n
    /\ \A k \in DOMAIN f : f[k] = k
    /\ \A k \in DOMAIN b : b[k] = Len(f) + k

Good(s, n) ==
    /\ s.file \in Seq(Nat) /\ s.buffer \in Seq(Nat) /\ s.failures \in Nat
    /\ Ordered(s.file, s.buffer)
    /\ Holds(s.file, s.buffer, n)
    /\ s.failures = 0 => Counted(s.file, s.buffer, n)

\* The final dump empties the buffer unless it fails, and PowerComputer reads
\* the whole of a file in which nothing is cut short.
Read ==
    /\ status # "simulating" /\ failures = 0 => stats_buffer = <<>>
    /\ status = "analysed" /\ Torn \notin ToSet(file) => dsent_stats = file

IInv ==
    /\ added \in Nat
    /\ Good(Current, added)
    /\ Read

-----------------------------------------------------------------------------
(* Sequences. *)

\* The members of a sequence of natural numbers.
LEMMA Members ==
    ASSUME NEW s \in Seq(Nat)
    PROVE  /\ DOMAIN s = 1 .. Len(s) /\ Len(s) \in Nat
           /\ \A k \in 1 .. Len(s) : s[k] \in Nat /\ s[k] \in ToSet(s)
           /\ \A e : e \in ToSet(s) <=> \E k \in 1 .. Len(s) : s[k] = e
BY DEF ToSet

\* One sequence after another.
LEMMA After ==
    ASSUME NEW s \in Seq(Nat), NEW t \in Seq(Nat)
    PROVE  /\ s \o t \in Seq(Nat)
           /\ Len(s \o t) = Len(s) + Len(t)
           /\ \A k \in 1 .. Len(s) : (s \o t)[k] = s[k]
           /\ \A k \in 1 .. Len(t) : (s \o t)[Len(s) + k] = t[k]
           /\ ToSet(s) \subseteq ToSet(s \o t)
           /\ ToSet(t) \subseteq ToSet(s \o t)
<1>1. /\ s \o t \in Seq(Nat)
      /\ Len(s \o t) = Len(s) + Len(t)
      /\ \A k \in 1 .. Len(s) : (s \o t)[k] = s[k]
      /\ \A k \in 1 .. Len(t) : (s \o t)[Len(s) + k] = t[k]
  OBVIOUS
<1>2. ToSet(s) \subseteq ToSet(s \o t)
  <2> SUFFICES ASSUME NEW e \in ToSet(s) PROVE e \in ToSet(s \o t)
    OBVIOUS
  <2>1. PICK k \in 1 .. Len(s) : s[k] = e
    BY Members
  <2>2. k \in 1 .. Len(s \o t) /\ (s \o t)[k] = e
    BY <1>1, <2>1, Members
  <2>3. QED
    BY <1>1, <2>2, Members
<1>3. ToSet(t) \subseteq ToSet(s \o t)
  <2> SUFFICES ASSUME NEW e \in ToSet(t) PROVE e \in ToSet(s \o t)
    OBVIOUS
  <2>1. PICK k \in 1 .. Len(t) : t[k] = e
    BY Members
  <2>2. Len(s) + k \in 1 .. Len(s \o t) /\ (s \o t)[Len(s) + k] = e
    BY <1>1, <2>1, Members
  <2>3. QED
    BY <1>1, <2>2, Members
<1>4. QED
  BY <1>1, <1>2, <1>3

\* The first n members.
LEMMA Prefix ==
    ASSUME NEW s \in Seq(Nat), NEW n \in 0 .. Len(s)
    PROVE  /\ SubSeq(s, 1, n) \in Seq(Nat) /\ Len(SubSeq(s, 1, n)) = n
           /\ \A k \in 1 .. n : SubSeq(s, 1, n)[k] = s[k]
OBVIOUS

-----------------------------------------------------------------------------
(* Writing the buffer. *)

\* Writing a part of the buffer keeps the order.
LEMMA PartWritten ==
    ASSUME NEW f \in Seq(Nat), NEW b \in Seq(Nat), Ordered(f, b), NEW n \in 0 .. Len(b)
    PROVE  /\ f \o SubSeq(b, 1, n) \in Seq(Nat)
           /\ Ordered(f \o SubSeq(b, 1, n), b)
<1> DEFINE p == SubSeq(b, 1, n)
           g == f \o p
<1>1. p \in Seq(Nat) /\ Len(p) = n /\ (\A k \in 1 .. n : p[k] = b[k]) /\ n \in Nat
  BY Prefix, Members
<1> HIDE DEF p
<1>2. /\ g \in Seq(Nat) /\ Len(g) = Len(f) + n
      /\ \A k \in 1 .. Len(f) : g[k] = f[k]
      /\ \A k \in 1 .. n : g[Len(f) + k] = b[k]
      /\ ToSet(f) \subseteq ToSet(g)
  BY <1>1, After
<1> HIDE DEF g
<1>3. /\ Len(f) \in Nat /\ Len(b) \in Nat /\ DOMAIN f = 1 .. Len(f) /\ DOMAIN b = 1 .. Len(b)
      /\ DOMAIN g = 1 .. Len(f) + n
      /\ \A k \in 1 .. Len(f) : f[k] \in Nat
      /\ \A k \in 1 .. Len(b) : b[k] \in Nat
  BY <1>2, Members
<1>4. ASSUME NEW k \in DOMAIN g, NEW e \in 1 .. g[k] - 1
      PROVE  \E j \in 1 .. k - 1 : g[j] = e
  <2>1. CASE k <= Len(f)
    <3>1. k \in 1 .. Len(f) /\ e \in 1 .. f[k] - 1
      BY <1>2, <1>3, <2>1
    <3>2. PICK j \in 1 .. k - 1 : f[j] = e
      BY <1>3, <3>1 DEF Ordered
    <3>3. j \in 1 .. Len(f)
      BY <1>3, <3>1
    <3>4. QED
      BY <1>2, <3>2, <3>3
  <2>2. CASE k > Len(f)
    <3> DEFINE c == k - Len(f)
    <3>1. c \in 1 .. n /\ k = Len(f) + c
      BY <1>1, <1>3, <2>2
    <3>2. e \in 1 .. b[c] - 1 /\ c \in DOMAIN b
      BY <1>2, <1>3, <3>1
    <3> HIDE DEF c
    <3>3. CASE e \in ToSet(f)
      <4>1. PICK j \in 1 .. Len(f) : f[j] = e
        BY <3>3, Members
      <4>2. QED
        BY <1>2, <1>3, <2>2, <4>1
    <3>4. CASE \E j \in 1 .. c - 1 : b[j] = e
      <4>1. PICK j \in 1 .. c - 1 : b[j] = e
        BY <3>4
      <4>2. Len(f) + j \in 1 .. k - 1 /\ j \in 1 .. n
        BY <1>1, <1>3, <3>1
      <4>3. QED
        BY <1>2, <4>1, <4>2
    <3>5. QED
      BY <3>2, <3>3, <3>4 DEF Ordered
  <2>3. QED
    BY <1>3, <2>1, <2>2
<1>5. \A k \in DOMAIN b : \A e \in 1 .. b[k] - 1 :
        e \in ToSet(g) \/ \E j \in 1 .. k - 1 : b[j] = e
  BY <1>2 DEF Ordered
<1>6. QED
  BY <1>2, <1>4, <1>5 DEF Ordered, g, p

\* So does an entry that is cut short, which is before every other.
LEMMA TornWritten ==
    ASSUME NEW f \in Seq(Nat), NEW b \in Seq(Nat), Ordered(f, b)
    PROVE  f \o <<Torn>> \in Seq(Nat) /\ Ordered(f \o <<Torn>>, b)
<1> DEFINE g == f \o <<Torn>>
<1>1. <<Torn>> \in Seq(Nat) /\ Len(<<Torn>>) = 1 /\ <<Torn>>[1] = 0
  BY DEF Torn
<1>2. /\ g \in Seq(Nat) /\ Len(g) = Len(f) + 1
      /\ \A k \in 1 .. Len(f) : g[k] = f[k]
      /\ g[Len(f) + 1] = 0
      /\ ToSet(f) \subseteq ToSet(g)
  <2> DEFINE t == <<Torn>>
  <2> HIDE DEF t
  <2>1. t \in Seq(Nat) /\ Len(t) = 1 /\ t[1] = 0
    BY <1>1 DEF t
  <2>2. /\ f \o t \in Seq(Nat) /\ Len(f \o t) = Len(f) + Len(t)
        /\ \A k \in 1 .. Len(f) : (f \o t)[k] = f[k]
        /\ \A k \in 1 .. Len(t) : (f \o t)[Len(f) + k] = t[k]
        /\ ToSet(f) \subseteq ToSet(f \o t)
    BY <2>1, After, Zenon
  <2>3. (f \o t)[Len(f) + 1] = 0 /\ Len(f \o t) = Len(f) + 1
    BY <2>1, <2>2
  <2>4. QED
    BY <2>2, <2>3, Zenon DEF t
<1> HIDE DEF g
<1>3. Len(f) \in Nat /\ DOMAIN f = 1 .. Len(f) /\ DOMAIN g = 1 .. Len(f) + 1
  BY <1>2, Members
<1>4. ASSUME NEW k \in DOMAIN g, NEW e \in 1 .. g[k] - 1
      PROVE  \E j \in 1 .. k - 1 : g[j] = e
  <2>1. k # Len(f) + 1
    BY <1>2
  <2>2. k \in 1 .. Len(f) /\ g[k] = f[k]
    BY <1>2, <1>3, <2>1
  <2>3. PICK j \in 1 .. k - 1 : f[j] = e
    BY <1>3, <2>2 DEF Ordered
  <2>4. QED
    BY <1>2, <1>3, <2>2, <2>3, SMTT(40)
<1>5. \A k \in DOMAIN b : \A e \in 1 .. b[k] - 1 :
        e \in ToSet(g) \/ \E j \in 1 .. k - 1 : b[j] = e
  BY <1>2 DEF Ordered
<1>6. QED
  BY <1>2, <1>4, <1>5 DEF Ordered, g
\* What dump_stats leaves, whether it fails or not.
LEMMA DumpKeeps ==
    ASSUME NEW s, NEW n \in Nat, Good(s, n), NEW t \in DumpStats(s)
    PROVE  Good(t, n) /\ (t.failures = 0 => t.buffer = <<>> /\ s.failures = 0)
<1> DEFINE f == s.file
           b == s.buffer
<1>0. /\ f \in Seq(Nat) /\ b \in Seq(Nat) /\ s.failures \in Nat /\ Len(b) \in Nat
      /\ Ordered(f, b) /\ Holds(f, b, n)
      /\ s.failures = 0 => Counted(f, b, n)
  BY Members DEF Good
<1> HIDE DEF f, b
<1>1. CASE t = State(<<>>, f \o b, s.failures)
  <2>1. t.file = f \o b /\ t.buffer = <<>> /\ t.failures = s.failures
    BY <1>1 DEF State
  <2>2. SubSeq(b, 1, Len(b)) = b /\ Len(b) \in 0 .. Len(b)
    BY <1>0
  <2>3. f \o b \in Seq(Nat) /\ Ordered(f \o b, b)
    BY <1>0, <2>2, PartWritten
  <2>4. Ordered(f \o b, <<>>)
    <3> DEFINE g == f \o b
    <3>1. Ordered(g, b)
      BY <2>3
    <3> HIDE DEF g
    <3>2. Ordered(g, <<>>)
      BY <3>1 DEF Ordered
    <3>3. QED
      BY <3>2 DEF g
  <2>5. Holds(f \o b, <<>>, n)
    BY <1>0, After DEF Holds
  <2>6. Counted(f, b, n) => Counted(f \o b, <<>>, n)
    <3>1. /\ Len(f \o b) = Len(f) + Len(b)
          /\ \A k \in 1 .. Len(f) : (f \o b)[k] = f[k]
          /\ \A k \in 1 .. Len(b) : (f \o b)[Len(f) + k] = b[k]
          /\ DOMAIN (f \o b) = 1 .. Len(f \o b) /\ DOMAIN f = 1 .. Len(f)
          /\ DOMAIN b = 1 .. Len(b) /\ Len(f) \in Nat /\ Len(b) \in Nat
      BY <1>0, <2>3, After, Members
    <3> SUFFICES ASSUME Counted(f, b, n) PROVE Counted(f \o b, <<>>, n)
      OBVIOUS
    <3> DEFINE g == f \o b
    <3> HIDE DEF g
    <3>2. ASSUME NEW k \in 1 .. Len(f) + Len(b) PROVE g[k] = k
      <4>1. CASE k <= Len(f)
        BY <3>1, <4>1 DEF Counted, g
      <4>2. CASE k > Len(f)
        <5>1. k - Len(f) \in 1 .. Len(b) /\ k = Len(f) + (k - Len(f))
          BY <3>1, <4>2
        <5>2. g[k] = b[k - Len(f)]
          BY <3>1, <5>1 DEF g
        <5>3. QED
          BY <3>1, <5>1, <5>2 DEF Counted
      <4>3. QED
        BY <3>1, <4>1, <4>2
    <3>3. Len(g) = n /\ DOMAIN g = 1 .. Len(f) + Len(b)
      BY <3>1 DEF Counted, g
    <3>4. Counted(g, <<>>, n)
      BY <3>2, <3>3 DEF Counted
    <3>5. QED
      BY <3>4 DEF g
  <2>7. QED
    BY <1>0, <2>1, <2>3, <2>4, <2>5, <2>6 DEF Good
<1>2. ASSUME t.failures = s.failures + 1, t.buffer = b, t.file \in Seq(Nat),
             Ordered(t.file, b), ToSet(f) \subseteq ToSet(t.file)
      PROVE  Good(t, n) /\ t.failures # 0
  BY <1>0, <1>2 DEF Good, Holds
<1>3. ASSUME NEW k \in 0 .. Len(b)
      PROVE  /\ f \o SubSeq(b, 1, k) \in Seq(Nat)
             /\ Ordered(f \o SubSeq(b, 1, k), b)
             /\ ToSet(f) \subseteq ToSet(f \o SubSeq(b, 1, k))
  <2>1. SubSeq(b, 1, k) \in Seq(Nat)
    BY <1>0, Prefix
  <2>2. QED
    BY <1>0, <2>1, PartWritten, After
<1>4. CASE \E k \in 0 .. Len(b) : t = State(b, f \o SubSeq(b, 1, k), s.failures + 1)
  <2>1. PICK k \in 0 .. Len(b) : t = State(b, f \o SubSeq(b, 1, k), s.failures + 1)
    BY <1>4
  <2>2. t.file = f \o SubSeq(b, 1, k) /\ t.buffer = b /\ t.failures = s.failures + 1
    BY <2>1 DEF State
  <2>3. Good(t, n) /\ t.failures # 0
    BY <1>2, <1>3, <2>2
  <2>4. QED
    BY <2>3
<1>5. CASE \E k \in 0 .. Len(b) - 1 :
             t = State(b, f \o SubSeq(b, 1, k) \o <<Torn>>, s.failures + 1)
  <2>1. PICK k \in 0 .. Len(b) - 1 :
          t = State(b, f \o SubSeq(b, 1, k) \o <<Torn>>, s.failures + 1)
    BY <1>5
  <2> DEFINE g == f \o SubSeq(b, 1, k)
  <2>2. t.file = g \o <<Torn>> /\ t.buffer = b /\ t.failures = s.failures + 1
    BY <2>1 DEF State
  <2>3. k \in 0 .. Len(b)
    BY <1>0
  <2>4. g \in Seq(Nat) /\ Ordered(g, b) /\ ToSet(f) \subseteq ToSet(g)
    BY <1>3, <2>3
  <2> HIDE DEF g
  <2>5. g \o <<Torn>> \in Seq(Nat) /\ Ordered(g \o <<Torn>>, b)
    BY <1>0, <2>4, TornWritten
  <2>6. ToSet(g) \subseteq ToSet(g \o <<Torn>>)
    <3>1. <<Torn>> \in Seq(Nat)
      BY DEF Torn
    <3>2. QED
      BY <2>4, <3>1, After, Zenon
  <2>7. Good(t, n) /\ t.failures # 0
    BY <1>2, <2>2, <2>4, <2>5, <2>6
  <2>8. QED
    BY <2>7
<1>6. QED
  BY <1>1, <1>4, <1>5 DEF DumpStats, FailedDumps, f, b

\* A new entry comes after all the others.
LEMMA AppendKeeps ==
    ASSUME NEW f \in Seq(Nat), NEW b \in Seq(Nat), NEW n \in Nat,
           Ordered(f, b), Holds(f, b, n)
    PROVE  /\ Append(b, n + 1) \in Seq(Nat)
           /\ Ordered(f, Append(b, n + 1))
           /\ Holds(f, Append(b, n + 1), n + 1)
           /\ Counted(f, b, n) => Counted(f, Append(b, n + 1), n + 1)
<1> DEFINE c == Append(b, n + 1)
<1>1. /\ c \in Seq(Nat) /\ Len(c) = Len(b) + 1 /\ Len(b) \in Nat /\ Len(f) \in Nat
      /\ \A k \in 1 .. Len(b) : c[k] = b[k]
      /\ c[Len(b) + 1] = n + 1
      /\ DOMAIN b = 1 .. Len(b)
  BY Members
<1> HIDE DEF c
<1>2. DOMAIN c = 1 .. Len(b) + 1
  BY <1>1, Members
<1>3. ToSet(b) \subseteq ToSet(c) /\ n + 1 \in ToSet(c)
  <2>0. Len(b) + 1 \in DOMAIN c
    BY <1>1, <1>2
  <2>1. n + 1 \in ToSet(c)
    BY <1>1, <2>0, Zenon DEF ToSet
  <2>2. ASSUME NEW e \in ToSet(b) PROVE e \in ToSet(c)
    <3>1. PICK k \in 1 .. Len(b) : b[k] = e
      BY Members
    <3>2. k \in DOMAIN c /\ c[k] = e
      BY <1>1, <1>2, <3>1
    <3>3. QED
      BY <3>2 DEF ToSet
  <2>3. QED
    BY <2>1, <2>2
<1>4. ASSUME NEW k \in DOMAIN c, NEW e \in 1 .. c[k] - 1
      PROVE  e \in ToSet(f) \/ \E j \in 1 .. k - 1 : c[j] = e
  <2>1. CASE k = Len(b) + 1
    <3>1. e \in 1 .. n
      BY <1>1, <2>1
    <3>2. CASE e \in ToSet(b)
      <4>1. PICK j \in 1 .. Len(b) : b[j] = e
        BY <3>2, Members
      <4>2. QED
        BY <1>1, <2>1, <4>1
    <3>3. QED
      BY <3>1, <3>2 DEF Holds
  <2>2. CASE k # Len(b) + 1
    <3>1. k \in 1 .. Len(b) /\ c[k] = b[k]
      BY <1>1, <1>2, <2>2
    <3>2. CASE \E j \in 1 .. k - 1 : b[j] = e
      <4>1. PICK j \in 1 .. k - 1 : b[j] = e
        BY <3>2
      <4>2. j \in 1 .. Len(b)
        BY <1>1, <3>1
      <4>3. QED
        BY <1>1, <4>1, <4>2
    <3>3. QED
      BY <1>1, <3>1, <3>2 DEF Ordered
  <2>3. QED
    BY <2>1, <2>2
<1>5. Ordered(f, c)
  BY <1>4 DEF Ordered
<1>6. Holds(f, c, n + 1)
  <2> SUFFICES ASSUME NEW e \in 1 .. n + 1 PROVE e \in ToSet(f) \cup ToSet(c)
    BY DEF Holds
  <2>1. CASE e = n + 1
    BY <1>3, <2>1
  <2>2. CASE e # n + 1
    <3>1. e \in 1 .. n
      BY <2>2
    <3>2. QED
      BY <1>3, <3>1 DEF Holds
  <2>3. QED
    BY <2>1, <2>2
<1>7. Counted(f, b, n) => Counted(f, c, n + 1)
  <2> SUFFICES ASSUME Counted(f, b, n) PROVE Counted(f, c, n + 1)
    OBVIOUS
  <2>1. ASSUME NEW k \in DOMAIN c PROVE c[k] = Len(f) + k
    <3>1. CASE k = Len(b) + 1
      BY <1>1, <3>1 DEF Counted
    <3>2. CASE k # Len(b) + 1
      <4>1. k \in 1 .. Len(b)
        BY <1>1, <1>2, <3>2
      <4>2. QED
        BY <1>1, <4>1 DEF Counted
    <3>3. QED
      BY <3>1, <3>2
  <2>2. QED
    BY <1>1, <2>1 DEF Counted
<1>8. QED
  BY <1>1, <1>5, <1>6, <1>7 DEF c
\* add_stats and the dump it may make.
LEMMA AddKeeps ==
    ASSUME NEW s, NEW n \in Nat, Good(s, n), s = State(s.buffer, s.file, s.failures),
           NEW t \in AddStats(s, n + 1)
    PROVE  Good(t, n + 1)
<1> DEFINE u == [s EXCEPT !.buffer = Append(@, n + 1)]
<1>1. u.buffer = Append(s.buffer, n + 1) /\ u.file = s.file /\ u.failures = s.failures
  BY DEF State
<1>2. /\ s.file \in Seq(Nat) /\ s.buffer \in Seq(Nat) /\ s.failures \in Nat
      /\ Ordered(s.file, s.buffer) /\ Holds(s.file, s.buffer, n)
      /\ s.failures = 0 => Counted(s.file, s.buffer, n)
  BY DEF Good
<1>3. t = u \/ t \in DumpStats(u)
  BY DEF AddStats
<1> HIDE DEF u
<1>4. Good(u, n + 1)
  BY <1>1, <1>2, AppendKeeps DEF Good
<1>5. CASE t \in DumpStats(u)
  <2>1. n + 1 \in Nat
    OBVIOUS
  <2>2. QED
    BY <1>4, <1>5, <2>1, DumpKeeps
<1>6. QED
  BY <1>3, <1>4, <1>5

-----------------------------------------------------------------------------
(* The steps. *)

\* The buffer and the file as they are, and as a step leaves them.
LEMMA CurrentState ==
    /\ Current.buffer = stats_buffer /\ Current.file = file /\ Current.failures = failures
    /\ Current = State(Current.buffer, Current.file, Current.failures)
BY DEF Current, State

\* What a step makes of the buffer, the file and the failures is the next state.
LEMMA BecomesGood ==
    ASSUME NEW t, NEW n, Good(t, n), Becomes(t)
    PROVE  /\ Good(Current', n)
           /\ stats_buffer' = t.buffer /\ file' = t.file /\ failures' = t.failures
<1>1. stats_buffer' = t.buffer /\ file' = t.file /\ failures' = t.failures
  BY DEF Becomes
<1>2. /\ Current'.buffer = stats_buffer' /\ Current'.file = file'
      /\ Current'.failures = failures'
  BY DEF Current, State
<1>3. QED
  BY <1>1, <1>2 DEF Good

\* The invariant holds when a simulation begins.
LEMMA InitIInv == Init => IInv
<1> SUFFICES ASSUME Init PROVE IInv
  OBVIOUS
<1>1. /\ added = 0 /\ failures = 0 /\ status = "simulating"
      /\ Current.file = <<>> /\ Current.buffer = <<>> /\ Current.failures = 0
  BY DEF Init, Current, State
<1>2. Ordered(<<>>, <<>>) /\ Holds(<<>>, <<>>, 0) /\ Counted(<<>>, <<>>, 0)
  BY DEF Ordered, Holds, Counted
<1>3. <<>> \in Seq(Nat)
  OBVIOUS
<1>4. Good(Current, added)
  BY <1>1, <1>2, <1>3 DEF Good
<1>5. Read
  BY <1>1 DEF Read
<1>6. QED
  BY <1>1, <1>4, <1>5 DEF IInv

\* A file in which nothing is cut short is read to its end.
LEMMA WholeFileRead ==
    ASSUME file \in Seq(Nat), Torn \notin ToSet(file)
    PROVE  UpToTorn = 0
<1>1. \A k \in 1 .. Len(file) : file[k] # Torn
  BY Members
<1>2. {i \in 1 .. Len(file) : file[i] = Torn} = {}
  BY <1>1
<1>3. QED
  BY <1>2 DEF UpToTorn, SelectInSeq

\* Every step keeps the invariant.
LEMMA NextIInv == IInv /\ [Next]_vars => IInv'
<1> SUFFICES ASSUME IInv, [Next]_vars PROVE IInv'
  OBVIOUS
<1>0. added \in Nat /\ Good(Current, added) /\ Read
  BY DEF IInv
<1>1. CASE NetworkSimulated
  <2>1. added' = added + 1 /\ status = "simulating" /\ status' = status
    BY <1>1 DEF NetworkSimulated
  <2>2. PICK s \in AddStats(Current, added + 1) : \E t \in DumpStats(s) : Becomes(t)
    BY <1>1, <2>1 DEF NetworkSimulated
  <2>3. PICK t \in DumpStats(s) : Becomes(t)
    BY <2>2
  <2>4. Good(s, added + 1)
    BY <1>0, CurrentState, AddKeeps
  <2>5. Good(t, added + 1)
    BY <1>0, <2>4, DumpKeeps
  <2>6. Good(Current', added')
    BY <2>1, <2>3, <2>5, BecomesGood
  <2>7. Read'
    BY <2>1 DEF Read
  <2>8. QED
    BY <1>0, <2>1, <2>6, <2>7 DEF IInv
<1>2. CASE SimulationEnds
  <2>1. added' = added /\ status' = "over"
    BY <1>2 DEF SimulationEnds
  <2>2. PICK t \in DumpStats(Current) : Becomes(t)
    BY <1>2 DEF SimulationEnds
  <2>3. Good(t, added) /\ (t.failures = 0 => t.buffer = <<>>)
    BY <1>0, DumpKeeps
  <2>4. Good(Current', added') /\ (failures' = 0 => stats_buffer' = <<>>)
    BY <2>1, <2>2, <2>3, BecomesGood
  <2>5. Read'
    BY <2>1, <2>4 DEF Read
  <2>6. QED
    BY <1>0, <2>1, <2>4, <2>5 DEF IInv
<1>3. CASE LoadDsentStats
  <2>1. /\ status = "over" /\ UNCHANGED <<added, stats_buffer, file, failures>>
        /\ UpToTorn = 0 => dsent_stats' = file
    BY <1>3 DEF LoadDsentStats
  <2>2. Current' = Current
    BY <2>1 DEF Current
  <2>3. file \in Seq(Nat)
    BY <1>0, CurrentState DEF Good
  <2>4. Torn \notin ToSet(file) => dsent_stats' = file
    BY <2>1, <2>3, WholeFileRead
  <2>5. Read'
    BY <1>0, <2>1, <2>4 DEF Read
  <2>6. QED
    BY <1>0, <2>1, <2>2, <2>5 DEF IInv
<1>4. CASE UNCHANGED vars
  BY <1>0, <1>4 DEF vars, IInv, Current, Read
<1>5. QED
  BY <1>1, <1>2, <1>3, <1>4 DEF Next, Done

\* The invariant holds in every reachable state.
LEMMA StatsInvariant == Spec => []IInv
<1>1. QED
  BY InitIInv, NextIInv, PTL DEF Spec

\* No entry is forgotten, however many dumps fail and wherever they do: it is in
\* the file, whole, or still in the buffer.
THEOREM NothingIsForgottenCorrect == Spec => []NothingIsForgotten
<1>1. IInv => NothingIsForgotten
  BY CurrentState DEF IInv, Good, Holds, NothingIsForgotten
<1>2. QED
  BY <1>1, StatsInvariant, PTL

\* A nonempty set of natural numbers has a least element, which Min finds.
LEMMA MinIsLeast ==
    ASSUME NEW T \in SUBSET Nat, T # {}
    PROVE  Min(T) \in T /\ \A y \in T : Min(T) <= y
<1>1. PICK x \in T : \A y \in T : ~(<<y, x>> \in OpToRel(<, Nat))
  BY NatLessThanWellFounded, WFMin, Zenon
<1>2. \A y \in T : ~(y < x)
  BY <1>1 DEF OpToRel
<1>3. \A y \in T : x <= y
  BY <1>2
<1>4. QED
  BY <1>3 DEF Min

\* Where an entry that has been read was read first.
LEMMA FirstPlaceFound ==
    ASSUME dsent_stats \in Seq(Nat), NEW entry \in ToSet(dsent_stats)
    PROVE  /\ FirstPlace(entry) \in 1 .. Len(dsent_stats)
           /\ dsent_stats[FirstPlace(entry)] = entry
           /\ \A k \in 1 .. Len(dsent_stats) : dsent_stats[k] = entry => FirstPlace(entry) <= k
<1> DEFINE I == {i \in 1 .. Len(dsent_stats) : dsent_stats[i] = entry}
<1>1. I # {} /\ I \in SUBSET Nat
  BY Members, SMTT(40)
<1>2. FirstPlace(entry) = Min(I)
  BY <1>1 DEF FirstPlace, SelectInSeq
<1>3. Min(I) \in I /\ \A y \in I : Min(I) <= y
  <2> HIDE DEF I
  <2>1. QED
    BY <1>1, MinIsLeast
<1>4. QED
  BY <1>2, <1>3

\* The power analysis gets every network simulation exactly once and in order if
\* no write failed; otherwise, unless an entry was cut short or the last dump
\* failed too, still every one and in order.
THEOREM PowerSeesEverySimulationCorrect == Spec => []PowerSeesEverySimulation
<1>1. ASSUME IInv, status = "analysed"
      PROVE  /\ added \in Nat /\ file \in Seq(Nat) /\ failures \in Nat
             /\ Ordered(file, stats_buffer) /\ Holds(file, stats_buffer, added)
             /\ failures = 0 => Counted(file, stats_buffer, added) /\ stats_buffer = <<>>
             /\ Torn \notin ToSet(file) => dsent_stats = file
  <2>1. added \in Nat /\ Good(Current, added) /\ Read
    BY <1>1 DEF IInv
  <2>2. /\ file \in Seq(Nat) /\ failures \in Nat
        /\ Ordered(file, stats_buffer) /\ Holds(file, stats_buffer, added)
        /\ failures = 0 => Counted(file, stats_buffer, added)
    BY <2>1, CurrentState, Zenon DEF Good
  <2>3. QED
    BY <1>1, <2>1, <2>2 DEF Read
<1>2. ASSUME IInv, status = "analysed", failures = 0
      PROVE  dsent_stats = [i \in 1 .. added |-> i]
  <2>1. Len(file) = added /\ DOMAIN file = 1 .. Len(file) /\ \A k \in DOMAIN file : file[k] = k
    BY <1>1, <1>2, Members DEF Counted
  <2>2. Torn \notin ToSet(file)
    BY <2>1 DEF ToSet, Torn
  <2>3. file = [i \in 1 .. added |-> i]
    BY <1>1, <1>2, <2>1
  <2>4. QED
    BY <1>1, <1>2, <2>2, <2>3
<1>3. ASSUME IInv, status = "analysed", Torn \notin ToSet(file), stats_buffer = <<>>,
             NEW i \in 1 .. added, NEW j \in 1 .. added
      PROVE  FirstPlace(i) > 0 /\ (i < j => FirstPlace(i) < FirstPlace(j))
  <2>1. /\ dsent_stats = file /\ file \in Seq(Nat) /\ Ordered(file, <<>>)
        /\ Holds(file, <<>>, added) /\ added \in Nat
    BY <1>1, <1>3
  <2>2. i \in ToSet(dsent_stats) /\ j \in ToSet(dsent_stats)
    BY <2>1 DEF Holds, ToSet
  <2>3. /\ FirstPlace(i) \in 1 .. Len(file) /\ FirstPlace(j) \in 1 .. Len(file)
        /\ file[FirstPlace(j)] = j
        /\ \A k \in 1 .. Len(file) : file[k] = i => FirstPlace(i) <= k
    BY <2>1, <2>2, FirstPlaceFound
  <2>4. ASSUME i < j PROVE FirstPlace(i) < FirstPlace(j)
    <3>1. Len(file) \in Nat /\ DOMAIN file = 1 .. Len(file)
      BY <2>1, Members
    <3>2. i \in 1 .. file[FirstPlace(j)] - 1
      BY <2>1, <2>3, <2>4
    <3>3. PICK k \in 1 .. FirstPlace(j) - 1 : file[k] = i
      BY <2>1, <2>3, <3>1, <3>2 DEF Ordered
    <3>4. k \in 1 .. Len(file) /\ k < FirstPlace(j)
      BY <2>3, <3>1
    <3>5. FirstPlace(i) <= k
      BY <2>3, <3>3, <3>4
    <3>6. QED
      BY <2>3, <3>1, <3>4, <3>5
  <2>5. QED
    BY <2>3, <2>4
<1>4. IInv => PowerSeesEverySimulation
  BY <1>2, <1>3 DEF PowerSeesEverySimulation
<1>5. QED
  BY <1>4, StatsInvariant, PTL
=============================================================================
