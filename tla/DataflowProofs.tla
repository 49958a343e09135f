--------------------------- MODULE DataflowProofs ---------------------------
(***************************************************************************)
(* What becomes of a layer's data on its way: the chunks it is split into, *)
(* the trace that carries it through the network simulation and the        *)
(* packets that its chiplets are sent.                                     *)
(***************************************************************************)
EXTENDS LayerPartitioner, TrafficCalculator, GarnetTrace, SumTheorems, SequenceTheorems

----------------------------------------------------------------------------
(* The chunks of a layer. *)

\* Rounding moves a quotient by at most a half.
LEMMA RoundBounds ==
  ASSUME NEW a \in Nat, NEW b \in Nat \ {0}
  PROVE  /\ Round(a, b) \in Nat
         /\ 2 * (Round(a, b) * b - a) <= b
         /\ 2 * (a - Round(a, b) * b) <= b
<1> DEFINE q == a \div b
           r == a % b
<1>1. q \in Nat /\ r \in 0 .. b - 1 /\ a = b * q + r
  OBVIOUS
<1> HIDE DEF q, r
<1>2. Round(a, b) = IF 2 * r < b \/ (2 * r = b /\ q % 2 = 0) THEN q ELSE q + 1
  BY DEF Round, q, r
<1>3. CASE Round(a, b) = q /\ 2 * r <= b
  <2>1. q * b - a = -r /\ a - q * b = r
    BY <1>1
  <2>2. QED
    BY <1>1, <1>3, <2>1
<1>4. CASE Round(a, b) = q + 1 /\ 2 * r >= b
  <2>1. (q + 1) * b - a = b - r /\ a - (q + 1) * b = r - b
    BY <1>1
  <2>2. QED
    BY <1>1, <1>4, <2>1
<1>5. QED
  BY <1>1, <1>2, <1>3, <1>4

\* How far the first number of channels of a chunk is from its share.
LEMMA ScaledBounds ==
  ASSUME NEW a \in Nat \ {0}, NEW b \in Nat \ {0}
  PROVE  LET c == OneOrMore(Round(a, b))
         IN  c \in Nat \ {0} /\ c * b - a < b /\ 2 * (a - c * b) <= b
<1> DEFINE r == Round(a, b)
<1>1. r \in Nat /\ 2 * (r * b - a) <= b /\ 2 * (a - r * b) <= b
  BY RoundBounds
<1> HIDE DEF r
<1>2. CASE r < 1
  <2>1. OneOrMore(r) = 1 /\ r = 0
    BY <1>1, <1>2 DEF OneOrMore
  <2>2. 1 * b - a < b /\ 2 * (a - 1 * b) <= b
    BY <1>1, <2>1
  <2>3. QED
    BY <2>1, <2>2 DEF r
<1>3. CASE ~(r < 1)
  <2>1. OneOrMore(r) = r /\ r \in Nat \ {0} /\ r * b \in Int
    BY <1>1, <1>3 DEF OneOrMore
  <2>2. r * b - a < b
    BY <1>1, <2>1
  <2>3. QED
    BY <1>1, <2>1, <2>2 DEF r
<1>4. QED
  BY <1>2, <1>3
\* The channels by which the chunks exceed the layer before adjustment.
TooMany == SumFunction(Scaled) - channels

Reducing ==
  /\ chunks \in [DOMAIN shares -> Nat \ {0}]
  /\ excess \in Nat /\ excess <= TooMany /\ others \subseteq DOMAIN shares
  /\ SumFunction(chunks) = channels + excess
  /\ \A k \in DOMAIN shares : chunks[k] <= Scaled[k] /\ Scaled[k] - TooMany <= chunks[k]
  /\ \A k \in others : chunks[k] = Scaled[k]
  /\ excess > 0 => \A k \in DOMAIN shares \ others : chunks[k] = 1

PartitionInv ==
  /\ channels \in 1 .. MaxChannels /\ shares \in LayerMappings
  /\ stage \in {"scale", "adjust", "distribute", "done"}
  /\ stage = "adjust" => chunks = Scaled
  /\ stage = "distribute" => Reducing
  /\ ChunksMakeUpTheLayer /\ ChunksStayCloseToShares

\* Each chunk first gets a positive number of channels, close to its share.
LEMMA ScaledChunks ==
  ASSUME channels \in 1 .. MaxChannels, shares \in LayerMappings
  PROVE  /\ Len(shares) \in Nat /\ DOMAIN shares = 1 .. Len(shares)
         /\ IsFiniteSet(DOMAIN shares) /\ Cardinality(DOMAIN shares) = Len(shares)
         /\ Scaled \in [DOMAIN shares -> Nat \ {0}]
         /\ channels \in Nat \ {0} /\ Whole \in Nat \ {0}
         /\ \A k \in DOMAIN shares :
              /\ shares[k] \in Nat
              /\ Scaled[k] * Whole - channels * shares[k] < Whole
              /\ 2 * (channels * shares[k] - Scaled[k] * Whole) <= Whole
<1>1. PICK n \in Nat : shares \in [1 .. n -> 1 .. Whole]
  BY PartitionAssumption DEF LayerMappings
<1>2. Len(shares) = n /\ DOMAIN shares = 1 .. n
  BY <1>1
<1>3. IsFiniteSet(1 .. n) /\ Cardinality(1 .. n) = n
  <2>1. IsFiniteSet(1 .. n) /\ Cardinality(1 .. n) = IF 1 > n THEN 0 ELSE n - 1 + 1
    BY FS_Interval
  <2>2. QED
    BY <2>1
<1>4. channels \in Nat \ {0} /\ Whole \in Nat \ {0}
  BY PartitionAssumption
<1>5. ASSUME NEW k \in DOMAIN shares
      PROVE  /\ shares[k] \in Nat \ {0} /\ Scaled[k] \in Nat \ {0}
             /\ Scaled[k] * Whole - channels * shares[k] < Whole
             /\ 2 * (channels * shares[k] - Scaled[k] * Whole) <= Whole
  <2>1. shares[k] \in Nat \ {0}
    BY <1>1, <1>2, <1>4
  <2>2. channels * shares[k] \in Nat \ {0}
    BY <1>4, <2>1
  <2>3. Scaled[k] = OneOrMore(Round(channels * shares[k], Whole))
    BY DEF Scaled
  <2>4. QED
    BY <1>4, <2>1, <2>2, <2>3, ScaledBounds
<1>6. Scaled \in [DOMAIN shares -> Nat \ {0}]
  <2>1. Scaled = [k \in DOMAIN shares |-> Scaled[k]]
    BY DEF Scaled
  <2>2. QED
    BY <1>5, <2>1
<1>7. QED
  BY <1>2, <1>3, <1>4, <1>5, <1>6

\* The two ways in which p may differ from q, in the form in which they add up.
LEMMA RoundingIsOff ==
  ASSUME NEW p \in Int, NEW q \in Int, NEW w \in Nat, p - q < w, 2 * (q - p) <= w
  PROVE  /\ p - q \in Int /\ p - q <= w - 1 /\ p = (p - q) + q
         /\ (-2) * (p - q) \in Int /\ (-2) * (p - q) <= w
<1>1. PICK d \in Int : d = p - q
  OBVIOUS
<1>2. d < w /\ (-2) * d <= w /\ (-2) * d \in Int /\ p = d + q
  BY <1>1
<1> QED BY <1>1, <1>2

\* Rounding, and raising to one, adds or leaves out less than a channel per
\* chunk when the shares are the whole layer.
LEMMA TooManyBounds ==
  ASSUME channels \in 1 .. MaxChannels, shares \in LayerMappings,
         Len(shares) > 0, SumFunction(shares) = Whole
  PROVE  /\ TooMany \in Int /\ TooMany < Len(shares) /\ -(2 * TooMany) <= Len(shares)
<1> DEFINE D == DOMAIN shares
           n == Len(shares)
           given == [k \in D |-> Whole * Scaled[k]]
           due == [k \in D |-> channels * shares[k]]
           off == [k \in D |-> given[k] - due[k]]
           low == [k \in D |-> (-2) * off[k]]
           most == [k \in D |-> Whole - 1]
           some == [k \in D |-> Whole]
<1>0. /\ IsFiniteSet(D) /\ Cardinality(D) = n /\ n \in Nat /\ n > 0
      /\ channels \in Nat \ {0} /\ Whole \in Nat \ {0}
      /\ \A k \in D : /\ shares[k] \in Nat /\ Scaled[k] \in Nat
                      /\ Scaled[k] * Whole - channels * shares[k] < Whole
                      /\ 2 * (channels * shares[k] - Scaled[k] * Whole) <= Whole
  BY ScaledChunks
<1>1. ASSUME NEW k \in D
      PROVE  /\ given[k] \in Int /\ due[k] \in Int /\ off[k] \in Int /\ off[k] <= Whole - 1
             /\ given[k] = off[k] + due[k]
             /\ low[k] = (-2) * off[k] /\ low[k] \in Int /\ low[k] <= Whole
  <2>1. /\ shares[k] \in Nat /\ Scaled[k] \in Nat
        /\ Scaled[k] * Whole - channels * shares[k] < Whole
        /\ 2 * (channels * shares[k] - Scaled[k] * Whole) <= Whole
        /\ channels \in Nat /\ Whole \in Nat
    BY <1>0
  <2>2. /\ given[k] = Scaled[k] * Whole /\ given[k] \in Int
        /\ due[k] = channels * shares[k] /\ due[k] \in Int
        /\ off[k] = given[k] - due[k] /\ low[k] = (-2) * off[k]
    BY <2>1
  <2> HIDE DEF given, due, off, low
  <2>3. given[k] - due[k] < Whole /\ 2 * (due[k] - given[k]) <= Whole
    BY <2>1, <2>2
  <2>4. LET p == given[k]
            q == due[k]
        IN  /\ p - q \in Int /\ p - q <= Whole - 1 /\ p = (p - q) + q
            /\ (-2) * (p - q) \in Int /\ (-2) * (p - q) <= Whole
    BY <2>1, <2>2, <2>3, RoundingIsOff, Zenon
  <2>5. QED
    BY <2>2, <2>4, Zenon
<1>2. \A k \in D : /\ given[k] = Whole * Scaled[k] /\ due[k] = channels * shares[k]
                   /\ most[k] = Whole - 1 /\ some[k] = Whole
  OBVIOUS
<1> HIDE DEF D, n, given, due, off, low, most, some
<1>3. SumFunctionOnSet(given, D) = SumFunctionOnSet(off, D) + SumFunctionOnSet(due, D)
  <2>1. \A k \in D : off[k] \in Int /\ due[k] \in Int
    BY <1>1
  <2>2. \A k \in D : given[k] = off[k] + due[k]
    BY <1>1
  <2>3. QED
    BY <1>0, <2>1, <2>2, SumPlus
<1>4. /\ SumFunctionOnSet(Scaled, D) \in Int /\ SumFunctionOnSet(shares, D) = Whole
      /\ SumFunctionOnSet(off, D) \in Int
      /\ TooMany = SumFunctionOnSet(Scaled, D) - channels
  <2>1. DOMAIN Scaled = DOMAIN shares
    BY DEF Scaled
  <2>2. \A k \in D : Scaled[k] \in Int /\ off[k] \in Int
    BY <1>0, <1>1
  <2>3. SumFunctionOnSet(Scaled, D) \in Int /\ SumFunctionOnSet(off, D) \in Int
    BY <1>0, <2>2, SumInt
  <2>4. QED
    BY <2>1, <2>3 DEF SumFunction, TooMany, D
<1>5. SumFunctionOnSet(off, D) = Whole * TooMany /\ TooMany \in Int
  <2>1. TooMany \in Int
    BY <1>0, <1>4
  <2>2. SumFunctionOnSet(given, D) = Whole * SumFunctionOnSet(Scaled, D)
    BY <1>0, <1>2, SumTimes
  <2>3. SumFunctionOnSet(due, D) = channels * Whole
    <3>1. channels \in Int /\ \A k \in D : shares[k] \in Int
      BY <1>0
    <3>2. SumFunctionOnSet(due, D) = channels * SumFunctionOnSet(shares, D)
      BY <1>0, <1>2, <3>1, SumTimes
    <3>3. QED
      BY <1>4, <3>2
  <2>4. \A x, y \in Int : Whole * x = y + channels * Whole => y = Whole * (x - channels)
    <3>1. SUFFICES ASSUME NEW x \in Int, NEW y \in Int, Whole * x = y + channels * Whole
                   PROVE  y = Whole * (x - channels)
      OBVIOUS
    <3>2. Whole * (x - channels) = Whole * x - channels * Whole /\ channels * Whole \in Int
      BY <1>0
    <3>3. QED
      BY <3>1, <3>2
  <2>5. QED
    BY <1>3, <1>4, <2>1, <2>2, <2>3, <2>4
<1>6. SumFunctionOnSet(off, D) <= (Whole - 1) * n
  <2>1. SumFunctionOnSet(most, D) = (Whole - 1) * Cardinality(D)
    <3>1. Whole - 1 \in Int
      BY <1>0
    <3>2. QED
      BY <1>0, <1>2, <3>1, SumConstant
  <2>2. SumFunctionOnSet(off, D) <= SumFunctionOnSet(most, D)
    <3>1. \A k \in D : off[k] \in Int /\ most[k] \in Int /\ off[k] <= most[k]
      BY <1>0, <1>1, <1>2
    <3>2. QED
      BY <1>0, <3>1, SumMonotone
  <2>3. QED
    BY <1>0, <2>1, <2>2
<1>7. -(2 * SumFunctionOnSet(off, D)) <= Whole * n
  <2>1. SumFunctionOnSet(low, D) = (-2) * SumFunctionOnSet(off, D)
    <3> DEFINE a == -2
    <3>1. a \in Int /\ \A k \in D : low[k] = a * off[k]
      BY <1>1
    <3> HIDE DEF a
    <3>2. SumFunctionOnSet(low, D) = a * SumFunctionOnSet(off, D)
      BY <1>0, <1>1, <3>1, SumTimes
    <3>3. QED
      BY <3>2 DEF a
  <2>2. SumFunctionOnSet(some, D) = Whole * Cardinality(D)
    BY <1>0, <1>2, SumConstant
  <2>3. SumFunctionOnSet(low, D) <= SumFunctionOnSet(some, D)
    <3>1. \A k \in D : low[k] \in Int /\ some[k] \in Int /\ low[k] <= some[k]
      BY <1>0, <1>1, <1>2
    <3>2. QED
      BY <1>0, <3>1, SumMonotone
  <2>4. SumFunctionOnSet(off, D) \in Int
    BY <1>0, <1>1, SumInt
  <2>5. SumFunctionOnSet(low, D) = -(2 * SumFunctionOnSet(off, D))
    BY <2>1, <2>4
  <2>6. QED
    BY <1>0, <2>2, <2>3, <2>5
<1>8. TooMany < n
  <2>1. Whole * TooMany <= (Whole - 1) * n
    BY <1>5, <1>6
  <2>2. \A t \in Int : Whole * t <= (Whole - 1) * n => t < n
    <3>1. SUFFICES ASSUME NEW t \in Int, t >= n PROVE Whole * t > (Whole - 1) * n
      BY <1>0
    <3>2. Whole * t >= Whole * n
      BY <1>0, <3>1
    <3>3. (Whole - 1) * n = Whole * n - n /\ Whole * n \in Int /\ Whole * t \in Int
      BY <1>0
    <3>4. QED
      BY <1>0, <3>2, <3>3
  <2>3. QED
    BY <1>5, <2>1, <2>2
<1>9. -(2 * TooMany) <= n
  <2>1. -(2 * (Whole * TooMany)) <= Whole * n
    BY <1>5, <1>7
  <2>2. \A t \in Int : -(2 * (Whole * t)) <= Whole * n => -(2 * t) <= n
    <3>1. SUFFICES ASSUME NEW t \in Int, -(2 * t) > n PROVE -(2 * (Whole * t)) > Whole * n
      BY <1>0
    <3>2. -(2 * t) \in Int /\ -(2 * t) >= n + 1
      BY <1>0, <3>1
    <3>3. Whole * (-(2 * t)) >= Whole * (n + 1)
      BY <1>0, <3>2
    <3>4. Whole * (-(2 * t)) = -(2 * (Whole * t)) /\ Whole * (n + 1) = Whole * n + Whole
      BY <1>0
    <3>5. QED
      BY <1>0, <3>3, <3>4
  <2>3. QED
    BY <1>5, <2>1, <2>2
<1>10. QED
  BY <1>5, <1>8, <1>9 DEF n

\* A multiple of w near y, moved by fewer than n multiples, is within n of them.
LEMMA MovedMultiple ==
  ASSUME NEW x \in Int, NEW y \in Int, NEW w \in Nat, NEW n \in Int,
         NEW d \in Int, d < n, -d < n, x * w - y < w, 2 * (y - x * w) <= w,
         NEW c \in Int, c = x + d, w # 0
  PROVE  c * w - y < n * w /\ -(c * w - y) < n * w
<1>1. c * w = x * w + d * w
  OBVIOUS
<1>2. d * w <= n * w - w /\ -(d * w) <= n * w - w
  <2>1. \A a, b \in Int : a <= b => a * w <= b * w
    OBVIOUS
  <2>2. d * w <= (n - 1) * w /\ (-d) * w <= (n - 1) * w
    BY <2>1
  <2>3. (n - 1) * w = n * w - w /\ (-d) * w = -(d * w)
    OBVIOUS
  <2> QED BY <2>2, <2>3
<1>3. \A p, e, m \in Int : p - y < w /\ 2 * (y - p) <= w /\ e <= m - w /\ -e <= m - w
                           => (p + e) - y < m /\ -((p + e) - y) < m
  OBVIOUS
<1>4. x * w \in Int /\ d * w \in Int /\ n * w \in Int
  OBVIOUS
<1> QED BY <1>1, <1>2, <1>3, <1>4

\* A chunk moved by fewer channels than there are chunks stays close to its share.
LEMMA MovedChunk ==
  ASSUME channels \in 1 .. MaxChannels, shares \in LayerMappings,
         NEW k \in DOMAIN shares, NEW d \in Int, d < Len(shares), -d < Len(shares),
         NEW c \in Int, c = Scaled[k] + d
  PROVE  LET off == c * Whole - channels * shares[k]
         IN  off < Len(shares) * Whole /\ -off < Len(shares) * Whole
<1>1. /\ Scaled[k] \in Int /\ channels * shares[k] \in Int
      /\ Whole \in Nat /\ Whole # 0 /\ Len(shares) \in Int
      /\ Scaled[k] * Whole - channels * shares[k] < Whole
      /\ 2 * (channels * shares[k] - Scaled[k] * Whole) <= Whole
  BY ScaledChunks
<1> QED BY <1>1, MovedMultiple, Zenon

\* FirstSmallest is one of the chunks.
LEMMA SmallestChunk ==
  ASSUME chunks \in [DOMAIN chunks -> Nat], DOMAIN chunks \in SUBSET Nat, DOMAIN chunks # {}
  PROVE  FirstSmallest \in DOMAIN chunks
<1> DEFINE V == {chunks[k] : k \in DOMAIN chunks}
<1>1. V \in SUBSET Nat /\ V # {}
  OBVIOUS
<1>2. PICK v \in V : \A w \in V : v <= w
  <2> HIDE DEF V
  <2>1. QED
    BY <1>1, LeastElement
<1> DEFINE K == {k \in DOMAIN chunks : chunks[k] = v}
<1>3. K \in SUBSET Nat /\ K # {}
  OBVIOUS
<1>4. PICK k \in K : \A j \in K : k <= j
  <2> HIDE DEF K
  <2>1. QED
    BY <1>3, LeastElement
<1>5. ASSUME NEW j \in DOMAIN chunks PROVE chunks[k] < chunks[j] \/ (chunks[k] = chunks[j] /\ k <= j)
  <2>1. v <= chunks[j] /\ chunks[k] = v /\ v \in Nat /\ chunks[j] \in Nat
    BY <1>1, <1>2
  <2>2. QED
    BY <1>4, <2>1
<1>6. \E x \in DOMAIN chunks : \A j \in DOMAIN chunks :
         chunks[x] < chunks[j] \/ (chunks[x] = chunks[j] /\ x <= j)
  BY <1>5
<1> HIDE DEF V, K
<1>7. QED
  BY <1>6 DEF FirstSmallest

\* The scaled chunks depend on the layer and its shares only.
LEMMA SameLayer ==
  ASSUME channels' = channels, shares' = shares
  PROVE  Scaled' = Scaled /\ TooMany' = TooMany
BY DEF Scaled, TooMany

\* What adjusting starts from.
LEMMA BeforeAdjusting ==
  ASSUME PartitionInv, stage = "adjust"
  PROVE  /\ DOMAIN chunks = DOMAIN shares /\ IsFiniteSet(DOMAIN shares)
         /\ \A k \in DOMAIN shares : chunks[k] \in Nat \ {0} /\ chunks[k] \in Int
         /\ chunks \in [DOMAIN shares -> Nat \ {0}]
         /\ SumFunctionOnSet(chunks, DOMAIN shares) = channels - Difference
         /\ Difference \in Int /\ TooMany = -Difference
<1>1. /\ chunks = Scaled /\ Scaled \in [DOMAIN shares -> Nat \ {0}] /\ IsFiniteSet(DOMAIN shares)
      /\ channels \in Nat
  BY ScaledChunks DEF PartitionInv
<1>2. DOMAIN chunks = DOMAIN shares /\ \A k \in DOMAIN shares : chunks[k] \in Nat \ {0} /\ chunks[k] \in Int
  BY <1>1
<1>3. Difference = channels - SumFunctionOnSet(chunks, DOMAIN shares)
      /\ TooMany = SumFunctionOnSet(chunks, DOMAIN shares) - channels
  BY <1>1, <1>2 DEF Difference, TooMany, SumFunction
<1>4. SumFunctionOnSet(chunks, DOMAIN shares) \in Int
  BY <1>1, <1>2, SumInt
<1>5. QED
  BY <1>1, <1>2, <1>3, <1>4

\* Chunks that already add up are returned as they are.
LEMMA KeepChunksKeeps ==
  ASSUME PartitionInv, KeepChunks
  PROVE  PartitionInv'
<1>0. /\ stage = "adjust" /\ Difference = 0 /\ stage' = "done" /\ channels' = channels
      /\ shares' = shares /\ chunks' = chunks /\ chunks = Scaled
      /\ channels \in 1 .. MaxChannels /\ shares \in LayerMappings
  BY DEF KeepChunks, PartitionInv
<1>1. ChunksMakeUpTheLayer'
  <2>1. SumFunction(chunks) = channels
    BY <1>0, BeforeAdjusting, ScaledChunks DEF SumFunction
  <2>2. QED
    BY <1>0, <2>1, BeforeAdjusting DEF ChunksMakeUpTheLayer
<1>2. ChunksStayCloseToShares'
  <2>1. ASSUME NEW k \in DOMAIN shares, Len(shares) \in 1 .. channels
        PROVE  LET off == chunks[k] * Whole - channels * shares[k]
               IN  off < Len(shares) * Whole /\ -off < Len(shares) * Whole
    <3>1. 0 < Len(shares) /\ -0 < Len(shares) /\ chunks[k] \in Int /\ chunks[k] = Scaled[k] + 0
      BY <1>0, <2>1, BeforeAdjusting
    <3>2. QED
      BY <1>0, <3>1, MovedChunk
  <2>2. DOMAIN chunks = DOMAIN shares
    BY <1>0, BeforeAdjusting
  <2>3. QED
    BY <1>0, <2>1, <2>2 DEF ChunksStayCloseToShares
<1>3. QED
  BY <1>0, <1>1, <1>2 DEF PartitionInv

\* Channels that are missing go to the smallest chunk.
LEMMA IncreaseSmallestKeeps ==
  ASSUME PartitionInv, IncreaseSmallest
  PROVE  PartitionInv'
<1> DEFINE s == FirstSmallest
<1>0. /\ stage = "adjust" /\ Difference > 0 /\ stage' = "done" /\ channels' = channels
      /\ shares' = shares /\ chunks = Scaled
      /\ channels \in 1 .. MaxChannels /\ shares \in LayerMappings
  BY DEF IncreaseSmallest, PartitionInv
<1>1. CASE Len(shares) \notin 1 .. channels
  BY <1>0, <1>1 DEF PartitionInv, ChunksMakeUpTheLayer, ChunksStayCloseToShares
<1>2. CASE Len(shares) \in 1 .. channels
  <2>1. /\ DOMAIN chunks = DOMAIN shares /\ IsFiniteSet(DOMAIN shares)
        /\ \A k \in DOMAIN shares : chunks[k] \in Nat \ {0} /\ chunks[k] \in Int
        /\ SumFunctionOnSet(chunks, DOMAIN shares) = channels - Difference
        /\ Difference \in Int /\ TooMany = -Difference
    BY <1>0, BeforeAdjusting
  <2>2. DOMAIN shares = 1 .. Len(shares) /\ Len(shares) \in Nat /\ channels \in Nat
    BY <1>0, ScaledChunks
  <2>3. DOMAIN chunks # {} /\ chunks # <<>> /\ DOMAIN chunks \in SUBSET Nat
    BY <1>2, <2>1, <2>2
  <2>4. s \in DOMAIN shares
    <3>1. chunks \in [DOMAIN chunks -> Nat]
      BY <1>0, BeforeAdjusting
    <3>2. QED
      BY <2>1, <2>3, <3>1, SmallestChunk
  <2> HIDE DEF s
  <2>5. /\ DOMAIN chunks' = DOMAIN shares
        /\ chunks'[s] = chunks[s] + Difference
        /\ \A k \in DOMAIN shares \ {s} : chunks'[k] = chunks[k]
    BY <2>1, <2>3, <2>4 DEF IncreaseSmallest, s
  <2>6. ChunksMakeUpTheLayer'
    <3>1. chunks'[s] \in Int
      BY <2>1, <2>4, <2>5
    <3>2. SumFunctionOnSet(chunks', DOMAIN shares)
            = SumFunctionOnSet(chunks, DOMAIN shares) - chunks[s] + chunks'[s]
      BY <2>1, <2>4, <2>5, <3>1, SumReplace
    <3>3. SumFunctionOnSet(chunks', DOMAIN shares) = channels
      BY <2>1, <2>2, <2>4, <2>5, <3>2
    <3>4. \A k \in DOMAIN shares : chunks'[k] >= 1
      <4>1. chunks'[s] >= 1
        BY <1>0, <2>1, <2>4, <2>5
      <4>2. QED
        BY <2>1, <2>5, <4>1
    <3>5. QED
      BY <1>0, <2>5, <3>3, <3>4 DEF ChunksMakeUpTheLayer, SumFunction
  <2>7. ChunksStayCloseToShares'
    <3>1. SUFFICES ASSUME SumFunction(shares) = Whole, NEW k \in DOMAIN shares
                   PROVE  LET off == chunks'[k] * Whole - channels * shares[k]
                          IN  off < Len(shares) * Whole /\ -off < Len(shares) * Whole
      BY <1>0, <2>5 DEF ChunksStayCloseToShares
    <3>2. 2 * Difference <= Len(shares)
      BY <1>0, <1>2, <2>1, <3>1, TooManyBounds
    <3>3. Difference < Len(shares) /\ -Difference < Len(shares)
      BY <1>0, <2>1, <2>2, <3>2
    <3>4. CASE k = s
      <4>1. chunks'[k] \in Int /\ chunks'[k] = Scaled[k] + Difference
        BY <1>0, <2>1, <2>4, <2>5, <3>4
      <4>2. QED
        BY <1>0, <2>1, <3>3, <4>1, MovedChunk
    <3>5. CASE k # s
      <4>1. chunks'[k] \in Int /\ chunks'[k] = Scaled[k] + 0 /\ 0 < Len(shares) /\ -0 < Len(shares)
        BY <1>0, <1>2, <2>1, <2>5, <3>5
      <4>2. QED
        BY <1>0, <4>1, MovedChunk
    <3>6. QED
      BY <3>4, <3>5
  <2>8. QED
    BY <1>0, <2>6, <2>7 DEF PartitionInv
<1>3. QED
  BY <1>1, <1>2

\* Too many channels: the largest chunk gives up what it can.
LEMMA ReduceLargestKeeps ==
  ASSUME PartitionInv, NEW k \in DOMAIN chunks, ReduceLargest(k)
  PROVE  PartitionInv'
<1> DEFINE left == OneOrMore(chunks[k] + Difference)
<1>0. /\ stage = "adjust" /\ Difference < 0 /\ stage' = "distribute" /\ channels' = channels
      /\ shares' = shares /\ chunks = Scaled
      /\ channels \in 1 .. MaxChannels /\ shares \in LayerMappings
      /\ chunks' = [chunks EXCEPT ![k] = left]
      /\ excess' = (left - chunks[k]) - Difference
      /\ others' = DOMAIN chunks \ {k}
  BY DEF ReduceLargest, PartitionInv
<1>1. /\ DOMAIN chunks = DOMAIN shares /\ IsFiniteSet(DOMAIN shares)
      /\ \A j \in DOMAIN shares : chunks[j] \in Nat \ {0} /\ chunks[j] \in Int
      /\ chunks \in [DOMAIN shares -> Nat \ {0}]
      /\ SumFunctionOnSet(chunks, DOMAIN shares) = channels - Difference
      /\ Difference \in Int /\ TooMany = -Difference /\ channels \in Nat
  BY <1>0, BeforeAdjusting
<1>2. /\ left \in Nat \ {0} /\ left <= chunks[k] /\ chunks[k] + Difference <= left
      /\ left > chunks[k] + Difference => left = 1
  BY <1>0, <1>1 DEF OneOrMore
<1> HIDE DEF left
<1>3. /\ chunks' \in [DOMAIN shares -> Nat \ {0}] /\ chunks'[k] = left
      /\ \A j \in DOMAIN shares \ {k} : chunks'[j] = chunks[j]
  BY <1>0, <1>1, <1>2
<1>4. excess' \in Nat /\ excess' <= TooMany /\ (excess' > 0 => left = 1)
  BY <1>0, <1>1, <1>2
<1>5. SumFunction(chunks') = channels + excess'
  <2>1. SumFunctionOnSet(chunks', DOMAIN shares)
          = SumFunctionOnSet(chunks, DOMAIN shares) - chunks[k] + chunks'[k]
    BY <1>1, <1>2, <1>3, SumReplace
  <2>2. SumFunctionOnSet(chunks', DOMAIN shares) = channels + excess'
    BY <1>0, <1>1, <1>2, <1>3, <2>1
  <2>3. QED
    BY <1>3, <2>2 DEF SumFunction
<1>6. ASSUME NEW j \in DOMAIN shares PROVE chunks'[j] <= Scaled[j] /\ Scaled[j] - TooMany <= chunks'[j]
  <2>1. CASE j = k
    BY <1>0, <1>1, <1>2, <1>3, <2>1
  <2>2. CASE j # k
    BY <1>0, <1>1, <1>3, <2>2
  <2>3. QED
    BY <2>1, <2>2
<1>7. Reducing'
  <2>1. Scaled' = Scaled /\ TooMany' = TooMany
    BY <1>0, SameLayer
  <2>2. \A j \in others' : chunks'[j] = Scaled[j]
    BY <1>0, <1>1, <1>3
  <2>3. excess' > 0 => \A j \in DOMAIN shares \ others' : chunks'[j] = 1
    BY <1>0, <1>1, <1>3, <1>4
  <2>4. others' \subseteq DOMAIN shares
    BY <1>0, <1>1
  <2>5. QED
    BY <1>0, <1>3, <1>4, <1>5, <1>6, <2>1, <2>2, <2>3, <2>4 DEF Reducing
<1>8. QED
  BY <1>0, <1>7 DEF PartitionInv, ChunksMakeUpTheLayer, ChunksStayCloseToShares

\* What is left of the excess is taken from the next chunk.
LEMMA ReduceNextKeeps ==
  ASSUME PartitionInv, NEW k \in others, ReduceNext(k)
  PROVE  PartitionInv'
<1> DEFINE cut == CanReduce(k)
<1>0. /\ stage = "distribute" /\ stage' = "distribute" /\ channels' = channels /\ shares' = shares
      /\ channels \in 1 .. MaxChannels /\ shares \in LayerMappings /\ Reducing
      /\ excess > 0 /\ chunks' = [chunks EXCEPT ![k] = @ - cut]
      /\ excess' = excess - cut /\ others' = others \ {k}
  BY DEF ReduceNext, PartitionInv
<1>1. /\ chunks \in [DOMAIN shares -> Nat \ {0}] /\ excess \in Nat /\ excess <= TooMany
      /\ others \subseteq DOMAIN shares /\ k \in DOMAIN shares
      /\ SumFunctionOnSet(chunks, DOMAIN shares) = channels + excess
      /\ \A j \in others : chunks[j] = Scaled[j]
      /\ \A j \in DOMAIN shares \ others : chunks[j] = 1
  BY <1>0 DEF Reducing, SumFunction
<1>2. /\ IsFiniteSet(DOMAIN shares) /\ channels \in Nat /\ TooMany \in Int
      /\ \A j \in DOMAIN shares : chunks[j] \in Nat \ {0} /\ chunks[j] \in Int /\ Scaled[j] \in Nat
  <2>1. IsFiniteSet(DOMAIN shares) /\ channels \in Nat /\ Scaled \in [DOMAIN shares -> Nat \ {0}]
    BY <1>0, ScaledChunks
  <2>2. SumFunctionOnSet(Scaled, DOMAIN shares) \in Int /\ DOMAIN Scaled = DOMAIN shares
    BY <2>1, SumInt
  <2>3. QED
    BY <1>1, <2>1, <2>2 DEF TooMany, SumFunction
<1>3. /\ cut \in Nat /\ cut <= excess /\ chunks[k] - cut \in Nat \ {0}
      /\ cut < excess => chunks[k] - cut = 1
  BY <1>1, <1>2 DEF CanReduce
<1> HIDE DEF cut
<1>4. /\ chunks' \in [DOMAIN shares -> Nat \ {0}] /\ chunks'[k] = chunks[k] - cut
      /\ \A j \in DOMAIN shares \ {k} : chunks'[j] = chunks[j]
  BY <1>0, <1>1, <1>3
<1>5. excess' \in Nat /\ excess' <= TooMany /\ (excess' > 0 => chunks'[k] = 1)
  BY <1>0, <1>1, <1>2, <1>3, <1>4
<1>6. SumFunction(chunks') = channels + excess'
  <2>1. SumFunctionOnSet(chunks', DOMAIN shares)
          = SumFunctionOnSet(chunks, DOMAIN shares) - chunks[k] + chunks'[k]
    BY <1>1, <1>2, <1>3, <1>4, SumReplace
  <2>2. SumFunctionOnSet(chunks', DOMAIN shares) = channels + excess'
    BY <1>0, <1>1, <1>2, <1>3, <1>4, <2>1
  <2>3. QED
    BY <1>4, <2>2 DEF SumFunction
<1>7. ASSUME NEW j \in DOMAIN shares PROVE chunks'[j] <= Scaled[j] /\ Scaled[j] - TooMany <= chunks'[j]
  <2>1. CASE j = k
    <3>1. chunks[k] = Scaled[k] /\ chunks'[k] = chunks[k] - cut /\ chunks[k] \in Int
      BY <1>1, <1>2, <1>4
    <3>2. cut <= TooMany
      BY <1>1, <1>2, <1>3
    <3>3. QED
      BY <1>2, <1>3, <2>1, <3>1, <3>2
  <2>2. CASE j # k
    BY <1>0, <1>4, <2>2 DEF Reducing
  <2>3. QED
    BY <2>1, <2>2
<1>8. Reducing'
  <2>1. Scaled' = Scaled /\ TooMany' = TooMany
    BY <1>0, SameLayer
  <2>2. \A j \in others' : chunks'[j] = Scaled[j]
    BY <1>0, <1>1, <1>4
  <2>3. excess' > 0 => \A j \in DOMAIN shares \ others' : chunks'[j] = 1
    BY <1>0, <1>1, <1>4, <1>5
  <2>4. others' \subseteq DOMAIN shares
    BY <1>0, <1>1
  <2>5. QED
    BY <1>0, <1>4, <1>5, <1>6, <1>7, <2>1, <2>2, <2>3, <2>4 DEF Reducing
<1>9. QED
  BY <1>0, <1>8 DEF PartitionInv, ChunksMakeUpTheLayer, ChunksStayCloseToShares

\* The reduction ends once the excess is gone or every chunk has had its turn.
LEMMA EndReductionKeeps ==
  ASSUME PartitionInv, EndReduction
  PROVE  PartitionInv'
<1>0. /\ stage = "distribute" /\ stage' = "done" /\ channels' = channels /\ shares' = shares
      /\ channels \in 1 .. MaxChannels /\ shares \in LayerMappings /\ Reducing
      /\ chunks' = chunks /\ (excess = 0 \/ others = {})
  BY DEF EndReduction, PartitionInv
<1>1. /\ chunks \in [DOMAIN shares -> Nat \ {0}] /\ excess \in Nat
      /\ SumFunctionOnSet(chunks, DOMAIN shares) = channels + excess /\ SumFunction(chunks) = channels + excess
  BY <1>0 DEF Reducing, SumFunction
<1>2. /\ IsFiniteSet(DOMAIN shares) /\ Cardinality(DOMAIN shares) = Len(shares) /\ Len(shares) \in Nat
      /\ channels \in Nat /\ Scaled \in [DOMAIN shares -> Nat \ {0}]
  BY <1>0, ScaledChunks
<1>3. ASSUME Len(shares) \in 1 .. channels PROVE excess = 0
  <2>1. SUFFICES ASSUME excess > 0 PROVE FALSE
    BY <1>1
  <2>2. \A k \in DOMAIN shares : chunks[k] = 1
    BY <1>0, <2>1 DEF Reducing
  <2>3. SumFunctionOnSet(chunks, DOMAIN shares) = 1 * Cardinality(DOMAIN shares)
    BY <1>2, <2>2, SumConstant
  <2>4. QED
    BY <1>1, <1>2, <1>3, <2>1, <2>3
<1>4. ChunksMakeUpTheLayer'
  <2>1. SUFFICES ASSUME Len(shares) \in 1 .. channels
                 PROVE  SumFunction(chunks) = channels /\ \A k \in DOMAIN chunks : chunks[k] >= 1
    BY <1>0 DEF ChunksMakeUpTheLayer
  <2>2. SumFunction(chunks) = channels
    BY <1>1, <1>2, <1>3, <2>1
  <2>3. QED
    BY <1>1, <2>2
<1>5. ChunksStayCloseToShares'
  <2>1. SUFFICES ASSUME Len(shares) \in 1 .. channels, SumFunction(shares) = Whole, NEW k \in DOMAIN shares
                 PROVE  LET off == chunks[k] * Whole - channels * shares[k]
                        IN  off < Len(shares) * Whole /\ -off < Len(shares) * Whole
    BY <1>0, <1>1 DEF ChunksStayCloseToShares
  <2>2. TooMany \in Int /\ TooMany < Len(shares)
    BY <1>0, <1>2, <2>1, TooManyBounds
  <2>3. chunks[k] <= Scaled[k] /\ Scaled[k] - TooMany <= chunks[k]
    BY <1>0 DEF Reducing
  <2>4. chunks[k] \in Nat /\ Scaled[k] \in Nat
    BY <1>1, <1>2
  <2> DEFINE d == chunks[k] - Scaled[k]
  <2>5. d \in Int /\ chunks[k] = Scaled[k] + d /\ d < Len(shares) /\ -d < Len(shares) /\ chunks[k] \in Int
    BY <1>2, <2>1, <2>2, <2>3, <2>4
  <2> HIDE DEF d
  <2>6. QED
    BY <1>0, <2>5, MovedChunk
<1>6. QED
  BY <1>0, <1>4, <1>5 DEF PartitionInv

\* The invariant of the partitioner.
THEOREM PartitionInvariant == PartitionSpec => []PartitionInv
<1>1. PartitionInit => PartitionInv
  BY DEF PartitionInit, PartitionInv, ChunksMakeUpTheLayer, ChunksStayCloseToShares
<1>2. PartitionInv /\ [PartitionNext]_partitionVars => PartitionInv'
  <2>1. SUFFICES ASSUME PartitionInv, [PartitionNext]_partitionVars PROVE PartitionInv'
    OBVIOUS
  <2>2. CASE ScaleChunks
    <3>1. Scaled' = Scaled
      BY <2>2, SameLayer DEF ScaleChunks
    <3>2. QED
      BY <2>1, <2>2, <3>1
         DEF ScaleChunks, PartitionInv, ChunksMakeUpTheLayer, ChunksStayCloseToShares
  <2>3. ASSUME NEW k \in DOMAIN chunks, ReduceLargest(k) PROVE PartitionInv'
    BY <2>1, <2>3, ReduceLargestKeeps
  <2>4. ASSUME NEW k \in others, ReduceNext(k) PROVE PartitionInv'
    BY <2>1, <2>4, ReduceNextKeeps
  <2>5. CASE UNCHANGED partitionVars
    <3>1. channels' = channels /\ shares' = shares /\ chunks' = chunks /\ excess' = excess
          /\ others' = others /\ stage' = stage
      BY <2>5 DEF partitionVars
    <3>2. Scaled' = Scaled /\ TooMany' = TooMany
      BY <3>1, SameLayer
    <3>3. Reducing => Reducing'
      BY <3>1, <3>2 DEF Reducing
    <3>4. (ChunksMakeUpTheLayer => ChunksMakeUpTheLayer') /\ (ChunksStayCloseToShares => ChunksStayCloseToShares')
      BY <3>1 DEF ChunksMakeUpTheLayer, ChunksStayCloseToShares
    <3>5. QED
      BY <2>1, <3>1, <3>2, <3>3, <3>4 DEF PartitionInv
  <2>6. CASE Returned
    BY <2>5, <2>6 DEF Returned
  <2>7. QED
    BY <2>1, <2>2, <2>3, <2>4, <2>5, <2>6, KeepChunksKeeps, IncreaseSmallestKeeps, EndReductionKeeps
       DEF PartitionNext
<1>3. QED
  BY <1>1, <1>2, PTL DEF PartitionSpec

\* Partitioning loses and invents no channel, for any number of channels and
\* chunks and any shares, as long as there is a channel for every chunk.
THEOREM LayersArePartitioned == PartitionSpec => []ChunksMakeUpTheLayer
<1>1. PartitionInv => ChunksMakeUpTheLayer
  BY DEF PartitionInv
<1>2. QED
  BY <1>1, PartitionInvariant, PTL

\* A chunk of a wholly mapped layer stays within one channel per chunk of its
\* share: rounding, the minimum of one channel and the adjustment together.
THEOREM ChunksFollowShares == PartitionSpec => []ChunksStayCloseToShares
<1>1. PartitionInv => ChunksStayCloseToShares
  BY DEF PartitionInv
<1>2. QED
  BY <1>1, PartitionInvariant, PTL

----------------------------------------------------------------------------
(* The trace of a network simulation. *)

\* Flits of the lines in the file, and of the entries of the matrices.
LineFlits == [i \in DOMAIN lines |-> lines[i].flits]
EntryFlits == [e \in Entries |-> request[e[1]].traffic[e[2]]]

\* Nothing has moved while the file is written.
TraceWritten ==
  /\ SumFunctionOnSet(LineFlits, DOMAIN lines) + SumFunctionOnSet(EntryFlits, unwritten)
       = SumFunctionOnSet(EntryFlits, Entries)
  /\ \A e \in Entries \ unwritten : \E i \in DOMAIN lines : lines[i].key = request[e[1]].key
  /\ status = "preparing" =>
       line = 0 /\ packets = 0 /\ reading /\ flitsReceived = 0 /\ latencies = {}
  /\ status # "preparing" => unwritten = {} /\ maxPackets = MaxPackets
  /\ status = "running" => lines # <<>>

\* The reader is one line ahead of what it has injected, and only stops at
\* the end of the file.
TraceRead ==
  /\ reading => (line = 0 /\ packets = 0) \/ line = packets + 1
  /\ ~reading => packets = Len(lines)
  /\ \A i \in DOMAIN lines : lines[i].dest = DestInterface(lines[i].router)
  /\ flitsInjected = SumFunctionOnSet(LineFlits, 1 .. packets)
  /\ \A i \in DOMAIN lines : /\ flying[i] <= lines[i].flits
                             /\ i > packets => flying[i] = 0 /\ arrived[i] = {}

\* Flits are on their way or counted, and a line one of whose flits is no
\* longer on its way has an arrival.
FlitsAccounted ==
  status # "crashed" =>
    /\ flitsReceived + SumFunctionOnSet(flying, DOMAIN lines) = flitsInjected
    /\ \A i \in DOMAIN lines : i <= packets /\ flying[i] < lines[i].flits => arrived[i] # {}
    /\ status \in {"exiting", "complete"} =>
         flitsReceived = flitsInjected /\ packets = Len(lines)

\* A latency is recorded for a phase exactly if a flit of the phase took it.
LatenciesAreArrivals ==
  \A k \in Keys, t \in 1 .. MaxLatency :
    <<k, t>> \in latencies
      <=> \E i \in DOMAIN lines : lines[i].key = k /\ \E a \in arrived[i] : a[2] = t

TraceInv == TypeOK /\ TraceWritten /\ TraceRead /\ FlitsAccounted /\ LatenciesAreArrivals

\* A function on 1..n with one more value.
LEMMA OneMore ==
  ASSUME NEW n \in Nat, NEW S, NEW f \in [1 .. n -> S], NEW x \in S, NEW g, g = Append(f, x)
  PROVE  /\ g \in [1 .. n + 1 -> S]
         /\ \A i \in 1 .. n : g[i] = f[i]
         /\ g[n + 1] = x
<1>1. f \in Seq(S) /\ Len(f) = n
  OBVIOUS
<1>2. Append(f, x) \in Seq(S) /\ Len(Append(f, x)) = n + 1
  BY <1>1, AppendProperties
<1>3. Append(f, x) \in [1 .. n + 1 -> S]
  BY <1>2, LenProperties
<1>4. QED
  BY <1>1, <1>3, AppendProperties

\* A request is a list of keys with their matrices.
LEMMA RequestEntry ==
  ASSUME TypeOK, NEW i \in DOMAIN request
  PROVE  request[i] \in [key : Keys, traffic : Matrix]
<1> DEFINE S == [key : Keys, traffic : Matrix]
<1>1. request \in Seq(S)
  BY DEF TypeOK
<1> HIDE DEF S
<1>2. DOMAIN request = 1 .. Len(request)
  BY <1>1, LenProperties
<1>3. request[i] \in S
  BY <1>1, <1>2, ElementOfSeq
<1> QED BY <1>3 DEF S

\* The sets and functions the invariant sums over.
LEMMA TraceSums ==
  ASSUME TypeOK
  PROVE  /\ IsFiniteSet(Entries) /\ IsFiniteSet(unwritten)
         /\ DOMAIN lines = 1 .. Len(lines) /\ Len(lines) \in Nat /\ IsFiniteSet(DOMAIN lines)
         /\ \A e \in Entries : EntryFlits[e] \in 1 .. MaxFlits
         /\ \A i \in DOMAIN lines : LineFlits[i] \in 1 .. MaxFlits /\ LineFlits[i] = lines[i].flits
         /\ FlitsRequested = SumFunctionOnSet(EntryFlits, Entries)
         /\ MaxFlits \in Nat
<1>1. IsFiniteSet(Entries)
  <2>1. DOMAIN request = 1 .. Len(request) /\ Len(request) \in Nat
    BY DEF TypeOK
  <2>2. IsFiniteSet(DOMAIN request)
    BY <2>1, FS_Interval
  <2>3. IsFiniteSet(Chiplet)
    BY TraceAssumption, FS_Interval DEF Chiplet
  <2>4. IsFiniteSet(Flows)
    <3>1. IsFiniteSet(Chiplet \X Chiplet)
      BY <2>3, FS_Product
    <3>2. QED
      BY <3>1, TraceAssumption, FS_Subset
  <2>5. IsFiniteSet((DOMAIN request) \X Flows)
    BY <2>2, <2>4, FS_Product
  <2>6. QED
    BY <2>5, FS_Subset DEF Entries
<1>2. IsFiniteSet(unwritten)
  BY <1>1, FS_Subset DEF TypeOK
<1>3. DOMAIN lines = 1 .. Len(lines) /\ Len(lines) \in Nat
  BY DEF TypeOK
<1>4. IsFiniteSet(DOMAIN lines)
  BY <1>3, FS_Interval
<1>5. ASSUME NEW e \in Entries PROVE EntryFlits[e] \in 1 .. MaxFlits
  <2>1. /\ e[1] \in DOMAIN request /\ e[2] \in Flows
        /\ request[e[1]].traffic[e[2]] > 0
    BY DEF Entries
  <2>2. request[e[1]] \in [key : Keys, traffic : Matrix]
    BY <2>1, RequestEntry
  <2>3. request[e[1]].traffic[e[2]] \in 0 .. MaxFlits
    BY <2>1, <2>2 DEF Matrix
  <2>4. QED
    BY <2>1, <2>3, TraceAssumption DEF EntryFlits
<1>6. \A i \in DOMAIN lines : LineFlits[i] \in 1 .. MaxFlits /\ LineFlits[i] = lines[i].flits
  <2>1. \A i \in DOMAIN lines : lines[i] \in TraceLine
    BY LenProperties DEF TypeOK
  <2>2. QED
    BY <2>1 DEF TraceLine, LineFlits
<1>7. FlitsRequested = SumFunctionOnSet(EntryFlits, Entries)
  BY DEF FlitsRequested, EntryFlits, SumFunction
<1>8. QED
  BY <1>1, <1>2, <1>3, <1>4, <1>5, <1>6, <1>7, TraceAssumption

\* There are at least as many flits as lines.
LEMMA LinesCarryFlits ==
  ASSUME TypeOK
  PROVE  /\ SumFunctionOnSet(LineFlits, DOMAIN lines) \in Nat
         /\ Len(lines) <= SumFunctionOnSet(LineFlits, DOMAIN lines)
<1> DEFINE one == [i \in DOMAIN lines |-> 1]
<1>1. SumFunctionOnSet(one, DOMAIN lines) = 1 * Cardinality(DOMAIN lines)
  BY TraceSums, SumConstant
<1>2. Cardinality(DOMAIN lines) = Len(lines)
  <2>1. DOMAIN lines = 1 .. Len(lines) /\ Len(lines) \in Nat /\ 1 \in Int
    BY TraceSums
  <2>2. Cardinality(1 .. Len(lines)) = IF 1 > Len(lines) THEN 0 ELSE Len(lines) - 1 + 1
    BY <2>1, FS_Interval
  <2>3. QED
    BY <2>1, <2>2
<1>3. SumFunctionOnSet(one, DOMAIN lines) <= SumFunctionOnSet(LineFlits, DOMAIN lines)
  <2>1. \A i \in DOMAIN lines : one[i] \in Int /\ LineFlits[i] \in Int /\ one[i] <= LineFlits[i]
    BY TraceSums
  <2>2. QED
    BY <2>1, TraceSums, SumMonotone
<1>4. SumFunctionOnSet(LineFlits, DOMAIN lines) \in Int /\ Len(lines) \in Nat
  BY TraceSums, SumInt
<1> HIDE DEF one
<1>5. QED
  BY <1>1, <1>2, <1>3, <1>4

\* Nothing has been written or replayed.
LEMMA TraceInitially == ASSUME Init PROVE TraceInv
<1>1. TypeOK
  <2>1. request \in Seq([key : Keys, traffic : Matrix]) /\ unwritten \subseteq Entries
    BY TraceAssumption DEF Init
  <2>2. lines \in Seq(TraceLine) /\ Len(lines) = 0 /\ DOMAIN lines = {}
    BY DEF Init
  <2>3. /\ flying \in [DOMAIN lines -> 0 .. MaxFlits]
        /\ arrived \in [DOMAIN lines -> SUBSET (Chiplet \X (1 .. MaxLatency))]
    BY <2>2 DEF Init
  <2>4. QED
    BY <2>1, <2>2, <2>3 DEF Init, TypeOK
<1>2. DOMAIN lines = {} /\ Len(lines) = 0
  BY DEF Init
<1>3. SumFunctionOnSet(LineFlits, DOMAIN lines) = 0 /\ SumFunctionOnSet(flying, DOMAIN lines) = 0
  BY <1>2, SumEmpty
<1>4. SumFunctionOnSet(EntryFlits, unwritten) \in Int
  BY <1>1, TraceSums, SumInt DEF TypeOK
<1>5. TraceWritten
  BY <1>3, <1>4 DEF Init, TraceWritten
<1>6. TraceRead
  <2>1. 1 .. packets = {} /\ flitsInjected = 0
    BY DEF Init
  <2>2. flitsInjected = SumFunctionOnSet(LineFlits, 1 .. packets)
    BY <2>1, SumEmpty
  <2>3. QED
    BY <1>2, <2>2 DEF Init, TraceRead
<1>7. FlitsAccounted
  BY <1>2, <1>3 DEF Init, FlitsAccounted
<1>8. LatenciesAreArrivals
  BY <1>2 DEF Init, LatenciesAreArrivals
<1>9. QED
  BY <1>1, <1>5, <1>6, <1>7, <1>8 DEF TraceInv

\* The line of an entry is a line, and carries the flits of the entry.
LEMMA LineOfEntry ==
  ASSUME TypeOK, NEW e \in Entries
  PROVE  /\ LineOf(e) \in TraceLine
         /\ LineOf(e).flits = EntryFlits[e]
         /\ LineOf(e).key = request[e[1]].key
         /\ LineOf(e).dest = DestInterface(LineOf(e).router)
<1>1. e[1] \in DOMAIN request /\ e[2] \in Flows
  BY DEF Entries
<1>2. request[e[1]] \in [key : Keys, traffic : Matrix]
  BY <1>1, RequestEntry
<1>3. e[2][1] \in Chiplet /\ e[2][2] \in Chiplet /\ DestInterface(e[2][2]) \in Int
  BY <1>1, TraceAssumption DEF Chiplet, DestInterface
<1>4. request[e[1]].traffic[e[2]] \in 1 .. MaxFlits
  BY TraceSums DEF EntryFlits
<1>5. QED
  BY <1>2, <1>3, <1>4 DEF LineOf, TraceLine, EntryFlits

\* What an unchanged request, or unchanged lines, leave unchanged.
LEMMA SameRequest ==
  ASSUME request' = request
  PROVE  /\ Entries' = Entries /\ EntryFlits' = EntryFlits
         /\ FlitsRequested' = FlitsRequested /\ MaxPackets' = MaxPackets
<1>1. Entries' = Entries
  BY DEF Entries
<1>2. EntryFlits' = EntryFlits
  BY <1>1 DEF EntryFlits
<1>3. FlitsRequested' = FlitsRequested
  BY <1>2 DEF FlitsRequested, EntryFlits
<1>4. QED
  BY <1>1, <1>2, <1>3 DEF MaxPackets

\* A step that writes no line leaves every line as it is.
LEMMA SameLines ==
  ASSUME lines' = lines
  PROVE  LineFlits' = LineFlits
BY DEF LineFlits

\* A step without arrivals leaves the numbers of arrivals as they are.
LEMMA SameArrivals ==
  ASSUME lines' = lines, arrived' = arrived, latencies' = latencies, LatenciesAreArrivals
  PROVE  LatenciesAreArrivals'
<1>1. SUFFICES ASSUME NEW k \in Keys, NEW t \in 1 .. MaxLatency
               PROVE  <<k, t>> \in latencies'
                        <=> \E i \in DOMAIN lines' :
                              lines'[i].key = k /\ \E a \in arrived'[i] : a[2] = t
  BY DEF LatenciesAreArrivals
<1>2. <<k, t>> \in latencies
        <=> \E i \in DOMAIN lines : lines[i].key = k /\ \E a \in arrived[i] : a[2] = t
  BY Zenon DEF LatenciesAreArrivals
<1>3. QED
  BY <1>2, Zenon

\* A line is written for an entry that had none.
LEMMA WriteLineKeeps ==
  ASSUME TraceInv, NEW e \in unwritten, WriteLine(e)
  PROVE  TraceInv'
<1> DEFINE n == Len(lines)
           new == LineOf(e)
<1>0. /\ TypeOK /\ TraceWritten /\ TraceRead /\ FlitsAccounted /\ LatenciesAreArrivals
      /\ status = "preparing" /\ status' = status
      /\ lines' = Append(lines, new) /\ flying' = Append(flying, 0) /\ arrived' = Append(arrived, {})
      /\ unwritten' = unwritten \ {e} /\ e \in Entries
      /\ line = 0 /\ packets = 0 /\ reading /\ flitsReceived = 0 /\ latencies = {}
  BY DEF TraceInv, WriteLine, TypeOK, TraceWritten
<1>1. Entries' = Entries /\ EntryFlits' = EntryFlits /\ request' = request
  BY SameRequest DEF WriteLine
<1>2. new \in TraceLine /\ new.flits = EntryFlits[e] /\ new.key = request[e[1]].key
      /\ new.dest = DestInterface(new.router)
  BY <1>0, LineOfEntry
<1>3. n \in Nat /\ lines \in Seq(TraceLine) /\ DOMAIN lines = 1 .. n
  BY <1>0, LenProperties DEF TypeOK
<1> HIDE DEF n, new
<1>4. /\ lines' \in Seq(TraceLine) /\ Len(lines') = n + 1 /\ DOMAIN lines' = 1 .. n + 1
      /\ \A i \in 1 .. n : lines'[i] = lines[i]
      /\ lines'[n + 1] = new
  BY <1>0, <1>2, <1>3, AppendProperties, LenProperties DEF n
<1>5. /\ flying \in [1 .. n -> 0 .. MaxFlits] /\ 0 \in 0 .. MaxFlits
      /\ arrived \in [1 .. n -> SUBSET (Chiplet \X (1 .. MaxLatency))]
  BY <1>0, <1>3, TraceAssumption DEF TypeOK
<1>6. /\ flying' \in [1 .. n + 1 -> 0 .. MaxFlits]
      /\ \A i \in 1 .. n : flying'[i] = flying[i]
      /\ flying'[n + 1] = 0
  <2>1. flying' = Append(flying, 0)
    BY <1>0
  <2>2. flying' \in [1 .. n + 1 -> 0 .. MaxFlits]
    BY <1>3, <1>5, <2>1, OneMore
  <2>3. \A i \in 1 .. n : flying'[i] = flying[i]
    BY <1>3, <1>5, <2>1, OneMore
  <2>4. flying'[n + 1] = 0
    BY <1>3, <1>5, <2>1, OneMore
  <2>5. QED
    BY <2>2, <2>3, <2>4
<1>7. /\ arrived' \in [1 .. n + 1 -> SUBSET (Chiplet \X (1 .. MaxLatency))]
      /\ \A i \in 1 .. n : arrived'[i] = arrived[i]
      /\ arrived'[n + 1] = {}
  <2>1. {} \in SUBSET (Chiplet \X (1 .. MaxLatency))
    OBVIOUS
  <2>2. arrived' = Append(arrived, {})
    BY <1>0
  <2>3. arrived' \in [1 .. n + 1 -> SUBSET (Chiplet \X (1 .. MaxLatency))]
    BY <1>3, <1>5, <2>1, <2>2, OneMore
  <2>4. \A i \in 1 .. n : arrived'[i] = arrived[i]
    BY <1>3, <1>5, <2>1, <2>2, OneMore
  <2>5. arrived'[n + 1] = {}
    BY <1>3, <1>5, <2>1, <2>2, OneMore
  <2>6. QED
    BY <2>3, <2>4, <2>5
<1>8. TypeOK'
  BY <1>0, <1>1, <1>3, <1>4, <1>6, <1>7 DEF TypeOK, WriteLine
<1>9. TraceWritten'
  <2>1. SumFunctionOnSet(LineFlits', DOMAIN lines') + SumFunctionOnSet(EntryFlits, unwritten')
          = SumFunctionOnSet(EntryFlits, Entries)
    <3>1. SumFunctionOnSet(EntryFlits, unwritten)
            = EntryFlits[e] + SumFunctionOnSet(EntryFlits, unwritten')
      <4>1. \A x \in unwritten : EntryFlits[x] \in Int
        BY <1>0, TraceSums DEF TypeOK
      <4>2. IsFiniteSet(unwritten)
        BY <1>0, TraceSums
      <4>3. SumFunctionOnSet(EntryFlits, unwritten)
              = EntryFlits[e] + SumFunctionOnSet(EntryFlits, unwritten \ {e})
        BY <4>1, <4>2, SumRemove
      <4>4. QED
        BY <1>0, <4>3
    <3>2. SumFunctionOnSet(LineFlits', 1 .. n + 1) = SumFunctionOnSet(LineFlits', 1 .. n) + EntryFlits[e]
      <4>1. \A i \in 1 .. n + 1 : LineFlits'[i] = lines'[i].flits /\ LineFlits'[i] \in Int
        <5>1. \A i \in 1 .. n + 1 : lines'[i] \in TraceLine
          BY <1>3, <1>4, LenProperties
        <5>2. QED
          BY <1>4, <5>1 DEF LineFlits, TraceLine
      <4>2. SumFunctionOnSet(LineFlits', 1 .. n + 1) = SumFunctionOnSet(LineFlits', 1 .. n) + LineFlits'[n + 1]
        BY <1>3, <4>1, SumNextNumber
      <4>3. n + 1 \in 1 .. n + 1
        BY <1>3
      <4>4. QED
        BY <1>2, <1>4, <4>1, <4>2, <4>3
    <3>3. SumFunctionOnSet(LineFlits', 1 .. n) = SumFunctionOnSet(LineFlits, 1 .. n)
      <4>1. \A i \in 1 .. n : LineFlits[i] \in Int /\ LineFlits[i] = LineFlits'[i]
        <5>1. \A i \in 1 .. n : LineFlits[i] \in Int /\ LineFlits[i] = lines[i].flits
          <6>1. \A i \in DOMAIN lines : LineFlits[i] \in 1 .. MaxFlits /\ LineFlits[i] = lines[i].flits
            BY <1>0, TraceSums
          <6>2. QED
            BY <1>3, <6>1
        <5>2. \A i \in 1 .. n : i \in 1 .. n + 1
          BY <1>3
        <5>3. QED
          BY <1>4, <5>1, <5>2 DEF LineFlits
      <4>2. IsFiniteSet(1 .. n)
        BY <1>3, FS_Interval
      <4>3. QED
        BY <4>1, <4>2, SumAgree
    <3>4. /\ SumFunctionOnSet(LineFlits, 1 .. n) \in Int
          /\ SumFunctionOnSet(EntryFlits, unwritten') \in Int
          /\ EntryFlits[e] \in Int
      <4>1. SumFunctionOnSet(LineFlits, 1 .. n) \in Int
        BY <1>0, <1>3, LinesCarryFlits
      <4>2. IsFiniteSet(unwritten') /\ \A x \in unwritten' : EntryFlits[x] \in Int
        BY <1>0, TraceSums, FS_Subset DEF TypeOK
      <4>3. QED
        BY <1>0, <4>1, <4>2, SumInt, TraceSums
    <3>5. SumFunctionOnSet(LineFlits, 1 .. n) + SumFunctionOnSet(EntryFlits, unwritten)
            = SumFunctionOnSet(EntryFlits, Entries)
      BY <1>0, <1>3 DEF TraceWritten
    <3>6. QED
      BY <1>4, <3>1, <3>2, <3>3, <3>4, <3>5
  <2>2. ASSUME NEW d \in Entries \ unwritten'
        PROVE  \E i \in DOMAIN lines' : lines'[i].key = request[d[1]].key
    <3>1. CASE d = e
      BY <1>2, <1>3, <1>4, <3>1
    <3>2. CASE d # e
      <4>1. PICK i \in DOMAIN lines : lines[i].key = request[d[1]].key
        BY <1>0, <3>2 DEF TraceWritten
      <4>2. QED
        BY <1>3, <1>4, <4>1
    <3>3. QED
      BY <3>1, <3>2
  <2>3. QED
    BY <1>0, <1>1, <2>1, <2>2 DEF TraceWritten, WriteLine
<1>10. TraceRead'
  <2>1. \A i \in DOMAIN lines' : /\ flying'[i] <= lines'[i].flits
                                 /\ i > packets' => flying'[i] = 0 /\ arrived'[i] = {}
                                 /\ lines'[i].dest = DestInterface(lines'[i].router)
    <3>1. SUFFICES ASSUME NEW i \in 1 .. n + 1
                   PROVE  /\ flying'[i] <= lines'[i].flits
                          /\ i > packets' => flying'[i] = 0 /\ arrived'[i] = {}
                          /\ lines'[i].dest = DestInterface(lines'[i].router)
      BY <1>4
    <3>2. CASE i = n + 1
      <4>1. lines'[i].flits \in 1 .. MaxFlits
        BY <1>2, <1>4, <3>2 DEF TraceLine
      <4>2. QED
        BY <1>2, <1>4, <1>6, <1>7, <3>2, <4>1, TraceAssumption
    <3>3. CASE i # n + 1
      <4>1. i \in 1 .. n
        BY <1>3, <3>3
      <4>2. QED
        BY <1>0, <1>3, <1>4, <1>6, <1>7, <4>1 DEF TraceRead, WriteLine
    <3>4. QED
      BY <3>2, <3>3
  <2>2. flitsInjected' = SumFunctionOnSet(LineFlits', 1 .. packets')
    <3>1. 1 .. packets = {} /\ packets' = packets /\ flitsInjected' = flitsInjected
      BY <1>0 DEF WriteLine
    <3>2. QED
      BY <1>0, <3>1, SumEmpty DEF TraceRead
  <2>3. QED
    BY <1>0, <2>1, <2>2 DEF TraceRead, WriteLine
<1>11. FlitsAccounted'
  <2>1. SumFunctionOnSet(flying', 1 .. n + 1) = SumFunctionOnSet(flying, 1 .. n)
    <3>1. \A i \in 1 .. n + 1 : flying'[i] \in Int
      BY <1>6, TraceAssumption
    <3>2. SumFunctionOnSet(flying', 1 .. n + 1) = SumFunctionOnSet(flying', 1 .. n) + 0
      BY <1>3, <1>6, <3>1, SumNextNumber
    <3>3. \A i \in 1 .. n : flying'[i] \in Int /\ flying'[i] = flying[i]
      BY <1>3, <1>6, <3>1
    <3>4. IsFiniteSet(1 .. n)
      BY <1>3, FS_Interval
    <3>5. SumFunctionOnSet(flying', 1 .. n) = SumFunctionOnSet(flying, 1 .. n)
      BY <3>3, <3>4, SumAgree
    <3>6. SumFunctionOnSet(flying', 1 .. n) \in Int
      BY <3>3, <3>4, SumInt
    <3>7. QED
      BY <3>2, <3>5, <3>6
  <2>2. \A i \in DOMAIN lines' : ~(i <= packets')
    BY <1>0, <1>3, <1>4 DEF WriteLine
  <2>3. QED
    BY <1>0, <1>3, <1>4, <2>1, <2>2 DEF FlitsAccounted, WriteLine
<1>12. LatenciesAreArrivals'
  <2>1. \A i \in DOMAIN lines' : arrived'[i] = {}
    <3>1. packets' = 0 /\ \A i \in DOMAIN lines' : i > 0
      BY <1>0, <1>3, <1>4 DEF WriteLine
    <3>2. QED
      BY <1>10, <3>1 DEF TraceRead
  <2>2. latencies' = {}
    BY <1>0 DEF WriteLine
  <2>3. QED
    BY <2>1, <2>2 DEF LatenciesAreArrivals
<1>13. QED
  BY <1>8, <1>9, <1>10, <1>11, <1>12 DEF TraceInv

\* The replay starts with all lines written.
LEMMA StartKeeps ==
  ASSUME TraceInv, Start
  PROVE  TraceInv'
<1>0. /\ TypeOK /\ TraceWritten /\ TraceRead /\ FlitsAccounted /\ LatenciesAreArrivals
      /\ status = "preparing" /\ unwritten = {} /\ lines' = lines /\ request' = request
  BY DEF TraceInv, Start
<1>1. Entries' = Entries /\ EntryFlits' = EntryFlits /\ MaxPackets' = MaxPackets /\ LineFlits' = LineFlits
  BY <1>0, SameRequest, SameLines
<1>2. MaxPackets \in Int
  BY <1>0, TraceSums, SumInt DEF MaxPackets
<1>3. result' \in SUBSET (Keys \X (0 .. MaxLatency))
  <2>1. \A i \in DOMAIN request : request[i].key \in Keys
    BY <1>0, RequestEntry
  <2>2. 0 \in 0 .. MaxLatency
    BY TraceAssumption
  <2>3. QED
    BY <2>1, <2>2 DEF Start
<1>4. TypeOK'
  BY <1>0, <1>1, <1>2, <1>3 DEF TypeOK, Start
<1>5. TraceWritten'
  BY <1>0, <1>1 DEF TraceWritten, Start
<1>6. TraceRead'
  BY <1>0, <1>1 DEF TraceRead, Start
<1>7. FlitsAccounted'
  <2>1. CASE lines = <<>>
    <3>1. DOMAIN lines = {} /\ Len(lines) = 0
      BY <2>1
    <3>2. packets = 0 /\ 1 .. packets = {} /\ flitsReceived = 0
      BY <1>0 DEF TraceWritten
    <3>3. SumFunctionOnSet(flying, DOMAIN lines) = 0 /\ flitsInjected = 0
      BY <1>0, <3>1, <3>2, SumEmpty DEF TraceRead
    <3>4. QED
      BY <1>0, <3>1, <3>2, <3>3 DEF FlitsAccounted, Start
  <2>2. CASE lines # <<>>
    BY <1>0, <2>2 DEF FlitsAccounted, Start
  <2>3. QED
    BY <2>1, <2>2
<1>8. LatenciesAreArrivals'
  <2>1. lines' = lines /\ arrived' = arrived /\ latencies' = latencies
    BY DEF Start
  <2>2. LatenciesAreArrivals
    BY <1>0
  <2>3. QED
    BY <2>1, <2>2, SameArrivals
<1>9. QED
  BY <1>4, <1>5, <1>6, <1>7, <1>8 DEF TraceInv

\* The bound on packets never stops the reader before the end of the file.
LEMMA ReaderGoesOn ==
  ASSUME TraceInv, status # "preparing", NEW n \in Nat, n < Len(lines)
  PROVE  ReadsOn(n)
<1>1. TypeOK /\ TraceWritten
  BY DEF TraceInv
<1>2. maxPackets = FlitsRequested - 1
  BY <1>1 DEF TraceWritten, MaxPackets
<1>3. FlitsRequested = SumFunctionOnSet(LineFlits, DOMAIN lines)
  <2>1. unwritten = {}
    BY <1>1 DEF TraceWritten
  <2>2. SumFunctionOnSet(EntryFlits, unwritten) = 0
    BY <2>1, SumEmpty
  <2>3. SumFunctionOnSet(LineFlits, DOMAIN lines) \in Nat
    BY <1>1, LinesCarryFlits
  <2>4. QED
    BY <1>1, <2>2, <2>3, TraceSums DEF TraceWritten
<1>4. Len(lines) <= FlitsRequested /\ FlitsRequested \in Nat /\ Len(lines) \in Nat
  BY <1>1, <1>3, LinesCarryFlits, TraceSums
<1>5. QED
  BY <1>2, <1>4 DEF ReadsOn

\* An interface injects a flit of one of its own lines.
LEMMA WakeupKeeps ==
  ASSUME TraceInv, Wakeup
  PROVE  TraceInv'
<1>0. /\ TypeOK /\ TraceWritten /\ TraceRead /\ FlitsAccounted /\ LatenciesAreArrivals
      /\ status = "running" /\ reading /\ lines' = lines /\ request' = request
  BY DEF TraceInv, Wakeup
<1>1. Entries' = Entries /\ EntryFlits' = EntryFlits /\ MaxPackets' = MaxPackets /\ LineFlits' = LineFlits
  BY <1>0, SameRequest, SameLines
<1>2. DOMAIN lines = 1 .. Len(lines) /\ Len(lines) \in Nat /\ Len(lines) > 0
  <2>1. lines # <<>> /\ lines \in Seq(TraceLine)
    BY <1>0 DEF TraceWritten, TypeOK
  <2>2. QED
    BY <2>1, EmptySeq, LenProperties
<1>3. (line = 0 /\ packets = 0) \/ line = packets + 1
  BY <1>0 DEF TraceRead
<1>4. line \in 0 .. Len(lines) /\ packets \in 0 .. Len(lines)
  BY <1>0 DEF TypeOK
<1>5. Len(lines) \in Nat /\ Len(lines) > 0
  BY <1>2
<1>6. IsFiniteSet(DOMAIN lines)
  BY <1>0, TraceSums
<1>7. AtEnd <=> line = Len(lines)
  <2>1. AtEnd <=> line + 1 \notin 1 .. Len(lines)
    BY <1>2 DEF AtEnd
  <2>2. QED
    BY <1>5, <1>4, <2>1
<1>8. /\ packets' = line
      /\ line' = IF line = Len(lines) THEN line ELSE line + 1
      /\ reading' = (line # Len(lines))
  <2>1. line < Len(lines) => ReadsOn(line)
    BY <1>0, <1>4, ReaderGoesOn
  <2>2. packets + (IF line = 0 THEN 0 ELSE 1) = line
    BY <1>3, <1>4
  <2>3. packets' = line
    BY <2>2 DEF Wakeup
  <2>4. CASE line = Len(lines)
    BY <1>7, <2>2, <2>3, <2>4 DEF Wakeup
  <2>5. CASE line < Len(lines)
    <3>1. ~AtEnd /\ ReadsOn(line) /\ line # Len(lines)
      BY <1>4, <1>5, <1>7, <2>1, <2>5
    <3> QED BY <2>2, <2>3, <3>1 DEF Wakeup
  <2>6. QED
    BY <1>4, <1>5, <2>4, <2>5
<1>9. /\ DOMAIN flying' = DOMAIN lines
      /\ \A i \in DOMAIN lines : flying'[i] = IF i = line THEN lines[i].flits ELSE flying[i]
      /\ flitsInjected' = flitsInjected + (IF line = 0 THEN 0 ELSE lines[line].flits)
      /\ flitsReceived' = flitsReceived /\ arrived' = arrived /\ latencies' = latencies
      /\ status' = status /\ unwritten' = unwritten /\ maxPackets' = maxPackets
      /\ result' = result /\ endSimulation' = (endSimulation \/ AtEnd)
  BY DEF Wakeup
<1>10. \A i \in DOMAIN lines : /\ lines[i].flits \in 1 .. MaxFlits /\ LineFlits[i] = lines[i].flits
                              /\ flying[i] \in 0 .. MaxFlits
  <2>1. \A i \in DOMAIN lines : lines[i].flits \in 1 .. MaxFlits /\ LineFlits[i] = lines[i].flits
    BY <1>0, TraceSums
  <2>2. \A i \in DOMAIN lines : flying[i] \in 0 .. MaxFlits
    BY <1>0 DEF TypeOK
  <2>3. QED
    BY <2>1, <2>2
<1>11. MaxFlits \in Nat
  BY TraceAssumption
<1>12. TypeOK'
  <2>1. flying' \in [DOMAIN lines -> 0 .. MaxFlits]
    <3>1. \A i \in DOMAIN lines : flying'[i] \in 0 .. MaxFlits
      BY <1>9, <1>10, <1>11
    <3>2. flying' = [i \in DOMAIN lines |-> IF i = line THEN lines[i].flits ELSE flying[i]]
      BY DEF Wakeup
    <3>3. QED
      BY <3>1, <3>2
  <2>2. flitsInjected' \in Nat
    <3>1. CASE line = 0
      BY <1>0, <1>9, <3>1 DEF TypeOK
    <3>2. CASE line # 0
      <4>1. lines[line].flits \in Nat
        BY <1>2, <1>4, <1>10, <1>11, <3>2
      <4>2. QED
        BY <1>0, <1>9, <3>2, <4>1 DEF TypeOK
    <3>3. QED
      BY <3>1, <3>2
  <2>3. line' \in 0 .. Len(lines) /\ packets' \in 0 .. Len(lines)
    BY <1>5, <1>4, <1>8
  <2>4. endSimulation' \in BOOLEAN /\ reading' \in BOOLEAN
    BY <1>8, <1>9
  <2>5. QED
    BY <1>0, <1>1, <1>9, <2>1, <2>2, <2>3, <2>4 DEF TypeOK
<1>13. TraceWritten'
  BY <1>0, <1>1, <1>9 DEF TraceWritten
<1>14. CASE line = 0
  <2>1. packets' = packets /\ flitsInjected' = flitsInjected
    BY <1>0, <1>3, <1>8, <1>9, <1>4, <1>14 DEF TypeOK
  <2>2. flying' = flying
    <3>1. \A i \in DOMAIN lines : i # line
      BY <1>2, <1>14
    <3>2. flying \in [DOMAIN lines -> 0 .. MaxFlits]
      BY <1>0 DEF TypeOK
    <3>3. flying' = [i \in DOMAIN lines |-> IF i = line THEN lines[i].flits ELSE flying[i]]
      BY DEF Wakeup
    <3>4. QED
      BY <3>1, <3>2, <3>3
  <2>3. TraceRead'
    <3>1. reading' /\ line' = packets' + 1
      <4>1. line # Len(lines)
        BY <1>14, <1>5
      <4>2. reading'
        BY <1>8, <4>1, Zenon
      <4>3. QED
        BY <1>8, <1>14, <4>1, <4>2
    <3>2. QED
      BY <1>0, <1>1, <1>9, <2>1, <2>2, <3>1 DEF TraceRead
  <2>4. FlitsAccounted' /\ LatenciesAreArrivals'
    BY <1>0, <1>9, <2>1, <2>2, SameArrivals DEF FlitsAccounted
  <2>5. QED
    BY <1>12, <1>13, <2>3, <2>4 DEF TraceInv
<1>15. CASE line # 0
  <2>1. line = packets + 1 /\ packets' = packets + 1 /\ line \in DOMAIN lines
    <3>1. line = packets + 1 /\ line \in 1 .. Len(lines)
      BY <1>3, <1>4, <1>15, <1>5
    <3>2. QED
      BY <1>2, <1>8, <3>1
  <2>2. flying[line] = 0 /\ arrived[line] = {}
    <3>1. line > packets
      BY <1>4, <2>1
    <3>2. QED
      BY <1>0, <2>1, <3>1 DEF TraceRead
  <2>3. flitsInjected' = flitsInjected + lines[line].flits
    BY <1>9, <1>15
  <2>4. TraceRead'
    <3>1. flitsInjected' = SumFunctionOnSet(LineFlits', 1 .. packets')
      <4>1. \A i \in 1 .. packets + 1 : LineFlits[i] \in Int
        BY <1>2, <1>4, <1>10, <2>1
      <4>2. SumFunctionOnSet(LineFlits, 1 .. packets + 1)
              = SumFunctionOnSet(LineFlits, 1 .. packets) + LineFlits[packets + 1]
        BY <1>4, <4>1, SumNextNumber
      <4>3. QED
        BY <1>0, <1>1, <1>10, <2>1, <2>3, <4>2 DEF TraceRead
    <3>2. ASSUME NEW i \in DOMAIN lines
          PROVE  /\ flying'[i] <= lines[i].flits
                 /\ i > packets' => flying'[i] = 0 /\ arrived'[i] = {}
      <4>1. CASE i = line
        BY <1>4, <1>9, <1>10, <1>11, <2>1, <4>1
      <4>2. CASE i # line
        <5>1. i > packets' => i > packets
          BY <1>2, <1>4, <2>1
        <5>2. QED
          BY <1>0, <1>9, <4>2, <5>1 DEF TraceRead
      <4>3. QED
        BY <4>1, <4>2
    <3>3. /\ reading' => line' = packets' + 1
          /\ ~reading' => packets' = Len(lines)
      BY <1>2, <1>4, <1>8
    <3>4. QED
      BY <1>0, <3>1, <3>2, <3>3 DEF TraceRead
  <2>5. FlitsAccounted'
    <3>1. SumFunctionOnSet(flying', DOMAIN lines) = SumFunctionOnSet(flying, DOMAIN lines) + lines[line].flits
      <4>1. /\ \A i \in DOMAIN lines : flying[i] \in Int
            /\ flying'[line] = lines[line].flits /\ flying'[line] \in Int
            /\ \A i \in DOMAIN lines \ {line} : flying'[i] = flying[i]
            /\ IsFiniteSet(DOMAIN lines)
        BY <1>9, <1>10, <1>6, <2>1
      <4>2. SumFunctionOnSet(flying', DOMAIN lines)
              = SumFunctionOnSet(flying, DOMAIN lines) - flying[line] + flying'[line]
        BY <2>1, <4>1, SumReplace
      <4>3. SumFunctionOnSet(flying, DOMAIN lines) \in Int
        BY <4>1, SumInt
      <4>4. QED
        BY <2>2, <4>1, <4>2, <4>3
    <3>2. flitsReceived + SumFunctionOnSet(flying, DOMAIN lines) = flitsInjected
      BY <1>0 DEF FlitsAccounted
    <3>3. SumFunctionOnSet(flying, DOMAIN lines) \in Int
      <4>1. IsFiniteSet(DOMAIN lines) /\ \A i \in DOMAIN lines : flying[i] \in Int
        BY <1>10, <1>6
      <4>2. QED
        BY <4>1, SumInt
    <3>4. flitsReceived' + SumFunctionOnSet(flying', DOMAIN lines) = flitsInjected'
      <4>1. flitsReceived \in Int /\ lines[line].flits \in Int
        BY <1>0, <1>10, <2>1 DEF TypeOK
      <4>2. QED
        BY <1>9, <2>3, <3>1, <3>2, <3>3, <4>1
    <3>5. ASSUME NEW i \in DOMAIN lines, i <= packets', flying'[i] < lines[i].flits
          PROVE  arrived[i] # {}
      <4>1. i # line
        BY <1>9, <1>10, <1>11, <3>5
      <4>2. i <= packets /\ flying'[i] = flying[i]
        BY <1>2, <1>4, <1>9, <2>1, <3>5, <4>1
      <4>3. QED
        BY <1>0, <3>5, <4>2 DEF FlitsAccounted
    <3>6. QED
      BY <1>0, <1>9, <3>4, <3>5 DEF FlitsAccounted
  <2>6. LatenciesAreArrivals'
    BY <1>0, <1>9, SameArrivals
  <2>7. QED
    BY <1>12, <1>13, <2>4, <2>5, <2>6 DEF TraceInv
<1>16. QED
  BY <1>14, <1>15

\* A flit arrives where its line says.
LEMMA ReceiveKeeps ==
  ASSUME TraceInv, NEW i \in DOMAIN lines, NEW latency \in 1 .. MaxLatency, Receive(i, latency)
  PROVE  TraceInv'
<1> DEFINE ni == TargetInterface(i)
           accepted == ni >= NumChiplets
<1>0. /\ TypeOK /\ TraceWritten /\ TraceRead /\ FlitsAccounted /\ LatenciesAreArrivals
      /\ status = "running" /\ ~reading /\ lines' = lines /\ request' = request
      /\ flying[i] > 0 /\ flying' = [flying EXCEPT ![i] = @ - 1]
      /\ unwritten' = unwritten /\ maxPackets' = maxPackets /\ line' = line /\ reading' = reading
      /\ packets' = packets /\ flitsInjected' = flitsInjected
      /\ endSimulation' = endSimulation /\ result' = result
  BY DEF TraceInv, Receive
<1>1. Entries' = Entries /\ EntryFlits' = EntryFlits /\ MaxPackets' = MaxPackets /\ LineFlits' = LineFlits
  BY <1>0, SameRequest, SameLines
<1>2. /\ \A j \in DOMAIN lines : flying[j] \in Nat /\ flying[j] <= lines[j].flits
      /\ flying \in [DOMAIN lines -> 0 .. MaxFlits] /\ MaxFlits \in Nat
  BY <1>0, TraceAssumption DEF TypeOK, TraceRead
<1>3. /\ DOMAIN flying' = DOMAIN lines
      /\ \A j \in DOMAIN lines : flying'[j] = IF j = i THEN flying[i] - 1 ELSE flying[j]
  BY <1>0, <1>2
<1>4. /\ flying' \in [DOMAIN lines -> 0 .. MaxFlits]
      /\ \A j \in DOMAIN lines : flying'[j] <= lines[j].flits
  <2>1. flying[i] - 1 \in 0 .. MaxFlits
    BY <1>0, <1>2
  <2>2. flying' \in [DOMAIN lines -> 0 .. MaxFlits]
    BY <1>0, <1>2, <2>1
  <2>3. \A j \in DOMAIN lines : lines[j].flits \in Nat
    BY <1>0, TraceSums
  <2>4. ASSUME NEW j \in DOMAIN lines PROVE flying'[j] <= lines[j].flits
    <3>1. flying[j] \in Nat /\ lines[j].flits \in Nat /\ flying[j] <= lines[j].flits
      BY <1>2, <2>3
    <3>2. flying'[j] = flying[j] \/ flying'[j] = flying[j] - 1
      BY <1>3
    <3>3. QED
      BY <3>1, <3>2
  <2>5. QED
    BY <2>2, <2>4
<1>5. i <= packets /\ packets = Len(lines) /\ lines[i].key \in Keys
  <2>1. i <= packets \/ i > packets
    BY <1>0, TraceSums DEF TypeOK
  <2>2. packets = Len(lines) /\ ~(i > packets)
    BY <1>0 DEF TraceRead
  <2>3. lines[i] \in TraceLine
    BY <1>0, LenProperties DEF TypeOK
  <2>4. QED
    BY <2>1, <2>2, <2>3 DEF TraceLine
<1>6. CASE ~accepted
  <2>1. /\ status' = "crashed" /\ flitsReceived' \in Nat
        /\ latencies' = latencies /\ arrived' = arrived
    BY <1>0, <1>6 DEF Receive, TypeOK
  <2>2. TypeOK'
    BY <1>0, <1>1, <1>4, <2>1 DEF TypeOK
  <2>3. TraceWritten'
    BY <1>0, <1>1, <2>1 DEF TraceWritten
  <2>4. TraceRead'
    <3>1. \A j \in DOMAIN lines : j > packets => flying'[j] = 0 /\ arrived'[j] = {}
      BY <1>0, <1>3, <2>1 DEF TraceRead
    <3>2. QED
      BY <1>0, <1>1, <1>4, <3>1 DEF TraceRead
  <2>5. FlitsAccounted' /\ LatenciesAreArrivals'
    BY <1>0, <2>1, SameArrivals DEF FlitsAccounted
  <2>6. QED
    BY <2>2, <2>3, <2>4, <2>5 DEF TraceInv
<1>7. CASE accepted
  <2>1. /\ flitsReceived' = flitsReceived + 1
        /\ status' = IF Finished(flitsReceived + 1) THEN "exiting" ELSE "running"
        /\ latencies' = latencies \cup {<<lines[i].key, latency>>}
        /\ arrived' = [arrived EXCEPT ![i] = @ \cup {<<ni % NumChiplets, latency>>}]
    BY <1>7 DEF Receive, Recorded
  <2>2. ni % NumChiplets \in Chiplet
    <3>1. NumChiplets \in Nat \ {0}
      BY TraceAssumption
    <3>2. ni \in Nat
      BY <3>1 DEF TargetInterface, Interfaces
    <3> HIDE DEF ni
    <3>3. ni % NumChiplets \in 0 .. NumChiplets - 1
      BY <3>1, <3>2
    <3>4. QED
      BY <3>3 DEF Chiplet
  <2> HIDE DEF ni, accepted
  <2>3. /\ arrived' \in [DOMAIN lines -> SUBSET (Chiplet \X (1 .. MaxLatency))]
        /\ arrived'[i] = arrived[i] \cup {<<ni % NumChiplets, latency>>}
        /\ \A j \in DOMAIN lines : j # i => arrived'[j] = arrived[j]
    <3>1. arrived \in [DOMAIN lines -> SUBSET (Chiplet \X (1 .. MaxLatency))]
      BY <1>0 DEF TypeOK
    <3>2. arrived[i] \cup {<<ni % NumChiplets, latency>>} \in SUBSET (Chiplet \X (1 .. MaxLatency))
      BY <2>2, <3>1
    <3>3. QED
      BY <2>1, <3>1, <3>2
  <2>4. TypeOK'
    <3>1. latencies' \subseteq Keys \X (1 .. MaxLatency)
      BY <1>0, <1>5, <2>1 DEF TypeOK
    <3>2. status' \in {"exiting", "running"} /\ flitsReceived' \in Nat
      BY <1>0, <2>1 DEF TypeOK
    <3>3. QED
      BY <1>0, <1>1, <1>4, <2>3, <3>1, <3>2 DEF TypeOK
  <2>5. TraceWritten'
    BY <1>0, <1>1, <2>1 DEF TraceWritten
  <2>6. TraceRead'
    <3>1. \A j \in DOMAIN lines : j > packets => flying'[j] = 0 /\ arrived'[j] = {}
      <4>1. \A j \in DOMAIN lines : ~(j > packets)
        BY <1>0, <1>5, TraceSums
      <4>2. QED
        BY <4>1
    <3>2. QED
      BY <1>0, <1>1, <1>4, <3>1 DEF TraceRead
  <2>7. FlitsAccounted'
    <3>1. /\ SumFunctionOnSet(flying', DOMAIN lines) = SumFunctionOnSet(flying, DOMAIN lines) - 1
          /\ SumFunctionOnSet(flying, DOMAIN lines) \in Int
      <4>1. /\ IsFiniteSet(DOMAIN lines) /\ \A j \in DOMAIN lines : flying[j] \in Int
            /\ flying'[i] = flying[i] - 1 /\ flying'[i] \in Int
            /\ \A j \in DOMAIN lines \ {i} : flying'[j] = flying[j]
        BY <1>0, <1>2, <1>3, TraceSums
      <4>2. SumFunctionOnSet(flying', DOMAIN lines)
              = SumFunctionOnSet(flying, DOMAIN lines) - flying[i] + flying'[i]
        BY <4>1, SumReplace
      <4>3. SumFunctionOnSet(flying, DOMAIN lines) \in Int
        BY <4>1, SumInt
      <4>4. QED
        BY <4>1, <4>2, <4>3
    <3>2. flitsReceived' + SumFunctionOnSet(flying', DOMAIN lines) = flitsInjected
      <4>1. flitsReceived \in Int /\ flitsReceived + SumFunctionOnSet(flying, DOMAIN lines) = flitsInjected
        BY <1>0 DEF FlitsAccounted, TypeOK
      <4>2. QED
        BY <2>1, <3>1, <4>1
    <3>3. ASSUME NEW j \in DOMAIN lines, j <= packets, flying'[j] < lines[j].flits
          PROVE  arrived'[j] # {}
      <4>1. CASE j = i
        BY <2>3, <4>1
      <4>2. CASE j # i
        <5>1. flying[j] < lines[j].flits
          BY <1>3, <3>3, <4>2
        <5>2. arrived[j] # {}
          BY <1>0, <3>3, <5>1 DEF FlitsAccounted
        <5>3. QED
          BY <2>3, <4>2, <5>2
      <4>3. QED
        BY <4>1, <4>2
    <3>4. status' \in {"exiting", "complete"} => flitsReceived' = flitsInjected
      BY <2>1 DEF Finished
    <3>5. QED
      BY <1>0, <1>5, <3>2, <3>3, <3>4 DEF FlitsAccounted
  <2>8. LatenciesAreArrivals'
    <3>1. SUFFICES ASSUME NEW k \in Keys, NEW t \in 1 .. MaxLatency
                   PROVE  <<k, t>> \in latencies'
                            <=> \E j \in DOMAIN lines' :
                                  lines'[j].key = k /\ \E a \in arrived'[j] : a[2] = t
      BY DEF LatenciesAreArrivals
    <3>2. <<k, t>> \in latencies
            <=> \E j \in DOMAIN lines : lines[j].key = k /\ \E a \in arrived[j] : a[2] = t
      BY <1>0, Zenon DEF LatenciesAreArrivals
    <3>3. \A j \in DOMAIN lines :
            (\E a \in arrived'[j] : a[2] = t)
               <=> (\E a \in arrived[j] : a[2] = t) \/ (j = i /\ t = latency)
      <4>1. SUFFICES ASSUME NEW j \in DOMAIN lines
                     PROVE  (\E a \in arrived'[j] : a[2] = t)
                              <=> (\E a \in arrived[j] : a[2] = t) \/ (j = i /\ t = latency)
        OBVIOUS
      <4>2. CASE j # i
        BY <2>3, <4>2
      <4>3. CASE j = i
        <5> DEFINE new == <<ni % NumChiplets, latency>>
        <5>1. new[2] = latency
          OBVIOUS
        <5>2. arrived'[j] = arrived[j] \cup {new}
          BY <2>3, <4>3
        <5> HIDE DEF new
        <5>3. QED
          BY <4>3, <5>1, <5>2
      <4>4. QED
        BY <4>2, <4>3
    <3>4. <<k, t>> \in latencies' <=> <<k, t>> \in latencies \/ (k = lines[i].key /\ t = latency)
      BY <2>1
    <3>5. QED
      BY <1>0, <3>2, <3>3, <3>4
  <2>9. QED
    BY <2>4, <2>5, <2>6, <2>7, <2>8 DEF TraceInv
<1>8. QED
  BY <1>6, <1>7

\* The slowest flit of a phase that had one.
LEMMA MaxLatencyOf ==
  ASSUME NEW S \in SUBSET (1 .. MaxLatency), S # {}
  PROVE  Max(S) \in 0 .. MaxLatency
<1> DEFINE T == {MaxLatency - x : x \in S}
<1>1. MaxLatency \in Nat
  BY TraceAssumption
<1>2. T \in SUBSET Nat /\ T # {}
  <2>1. \A x \in 1 .. MaxLatency : MaxLatency - x \in Nat
    BY <1>1
  <2>2. QED
    BY <2>1
<1>3. PICK y \in T : \A z \in T : y <= z
  <2> HIDE DEF T
  <2>1. QED
    BY <1>2, LeastElement
<1>4. PICK x \in S : y = MaxLatency - x
  OBVIOUS
<1>5. \A z \in S : x >= z
  <2>1. SUFFICES ASSUME NEW z \in S PROVE x >= z
    OBVIOUS
  <2>2. MaxLatency - x <= MaxLatency - z
    BY <1>3, <1>4
  <2>3. QED
    BY <1>1, <2>2
<1>6. Max(S) \in S
  BY <1>5 DEF Max
<1>7. Max(S) \in 1 .. MaxLatency
  BY <1>6
<1>8. QED
  <2> HIDE DEF T
  <2>1. QED
    BY <1>1, <1>7

\* gem5 is exiting: the statistics are read.
LEMMA ReadStatsKeeps ==
  ASSUME TraceInv, ReadStats
  PROVE  TraceInv'
<1>0. /\ TypeOK /\ TraceWritten /\ TraceRead /\ FlitsAccounted /\ LatenciesAreArrivals
      /\ status = "exiting" /\ status' = "complete" /\ lines' = lines /\ request' = request
      /\ unwritten' = unwritten /\ maxPackets' = maxPackets /\ line' = line /\ reading' = reading
      /\ packets' = packets /\ flitsInjected' = flitsInjected /\ flitsReceived' = flitsReceived
      /\ endSimulation' = endSimulation /\ flying' = flying /\ arrived' = arrived /\ latencies' = latencies
  BY DEF TraceInv, ReadStats
<1>1. Entries' = Entries /\ EntryFlits' = EntryFlits /\ MaxPackets' = MaxPackets /\ LineFlits' = LineFlits
  BY <1>0, SameRequest, SameLines
<1>2. result' \in SUBSET (Keys \X (0 .. MaxLatency))
  <2>1. ASSUME NEW k \in {r[1] : r \in latencies} PROVE k \in Keys /\ PhaseLatency(k) \in 0 .. MaxLatency
    <3> DEFINE S == {r[2] : r \in {s \in latencies : s[1] = k}}
    <3>1. latencies \subseteq Keys \X (1 .. MaxLatency)
      BY <1>0 DEF TypeOK
    <3>2. PICK r \in latencies : r[1] = k
      OBVIOUS
    <3>3. S \in SUBSET (1 .. MaxLatency) /\ S # {}
      BY <3>1, <3>2
    <3>4. Max(S) \in 0 .. MaxLatency
      <4> HIDE DEF S
      <4>1. QED
        BY <3>3, MaxLatencyOf
    <3>5. QED
      BY <3>1, <3>2, <3>4 DEF PhaseLatency
  <2>2. QED
    BY <2>1 DEF ReadStats
<1>3. TypeOK'
  BY <1>0, <1>1, <1>2 DEF TypeOK
<1>4. TraceWritten' /\ TraceRead'
  BY <1>0, <1>1 DEF TraceWritten, TraceRead
<1>5. FlitsAccounted' /\ LatenciesAreArrivals'
  BY <1>0, SameArrivals DEF FlitsAccounted
<1>6. QED
  BY <1>3, <1>4, <1>5 DEF TraceInv

\* The invariant of a network simulation.
THEOREM TraceInvariant == Spec => []TraceInv
<1>1. Init => TraceInv
  BY TraceInitially
<1>2. TraceInv /\ [Next]_vars => TraceInv'
  <2>1. SUFFICES ASSUME TraceInv, [Next]_vars PROVE TraceInv'
    OBVIOUS
  <2>2. ASSUME NEW e \in unwritten, WriteLine(e) PROVE TraceInv'
    BY <2>1, <2>2, WriteLineKeeps
  <2>3. ASSUME NEW i \in DOMAIN lines, NEW latency \in 1 .. MaxLatency, Receive(i, latency)
        PROVE  TraceInv'
    BY <2>1, <2>3, ReceiveKeeps
  <2>4. CASE UNCHANGED vars
    BY <2>1, <2>4, SameRequest, SameLines, SameArrivals
       DEF vars, TraceInv, TypeOK, TraceWritten, TraceRead, FlitsAccounted
  <2>5. CASE Over
    BY <2>4, <2>5 DEF Over
  <2>6. QED
    BY <2>1, <2>2, <2>3, <2>4, <2>5, StartKeeps, WakeupKeeps, ReadStatsKeeps DEF Next, Step
<1>3. QED
  BY <1>1, <1>2, PTL DEF Spec

\* A network simulation only ends when its whole trace has been injected and
\* every flit has arrived, for every list of matrices and every interleaving
\* of arrivals, whatever end_simulation was before it was set.
THEOREM TracesArriveWhole == Spec => []WholeTraceArrives
<1>1. ASSUME TraceInv PROVE WholeTraceArrives
  <2>1. SUFFICES ASSUME status \in {"exiting", "complete"}
                 PROVE  flitsReceived = FlitsRequested /\ \A i \in DOMAIN lines : flying[i] = 0
    BY DEF WholeTraceArrives
  <2>2. TypeOK /\ TraceWritten /\ TraceRead /\ FlitsAccounted
    BY <1>1 DEF TraceInv
  <2>3. /\ flitsReceived = flitsInjected /\ packets = Len(lines)
        /\ flitsReceived + SumFunctionOnSet(flying, DOMAIN lines) = flitsInjected
    BY <2>1, <2>2 DEF FlitsAccounted
  <2>4. flitsInjected = SumFunctionOnSet(LineFlits, DOMAIN lines)
    BY <2>2, <2>3, TraceSums DEF TraceRead
  <2>5. SumFunctionOnSet(LineFlits, DOMAIN lines) = FlitsRequested
    <3>1. SumFunctionOnSet(EntryFlits, unwritten) = 0
      BY <2>1, <2>2, SumEmpty DEF TraceWritten
    <3>2. SumFunctionOnSet(LineFlits, DOMAIN lines) \in Nat
      BY <2>2, LinesCarryFlits
    <3>3. QED
      BY <2>2, <3>1, <3>2, TraceSums DEF TraceWritten
  <2>6. IsFiniteSet(DOMAIN lines) /\ \A i \in DOMAIN lines : flying[i] \in Nat
    BY <2>2, TraceSums DEF TypeOK
  <2>7. /\ SumFunctionOnSet(flying, DOMAIN lines) \in Nat
        /\ \A i \in DOMAIN lines : flying[i] <= SumFunctionOnSet(flying, DOMAIN lines)
    BY <2>6, SumNat
  <2>8. SumFunctionOnSet(flying, DOMAIN lines) = 0
    BY <2>2, <2>3, <2>7 DEF TypeOK
  <2>9. ASSUME NEW i \in DOMAIN lines PROVE flying[i] = 0
    BY <2>6, <2>7, <2>8
  <2>10. QED
    BY <2>3, <2>4, <2>5, <2>9
<1>2. QED
  BY <1>1, TraceInvariant, PTL

\* What _extract_garnet_stats finds in stats.txt for a phase with traffic is
\* the latency of the phase's slowest flit.
LEMMA StatsHaveThePhase ==
  ASSUME TraceInv, ReadStats, NEW i \in Senders, Registered(request[i].key)
  PROVE  {r[2] : r \in {s \in result' : s[1] = request[i].key}} = {Max(FlitLatencies(request[i].key))}
<1> DEFINE k == request[i].key
           L == {r[2] : r \in {s \in latencies : s[1] = k}}
           F == FlitLatencies(k)
<1>0. TypeOK /\ TraceWritten /\ TraceRead /\ FlitsAccounted /\ LatenciesAreArrivals /\ status = "exiting"
  BY DEF TraceInv, ReadStats
<1>1. PICK e \in Entries : e[1] = i
  BY DEF Senders
<1>2. i \in DOMAIN request /\ k \in Keys
  <2>1. i \in DOMAIN request
    BY <1>1 DEF Entries
  <2>2. QED
    BY <1>0, <2>1, RequestEntry
<1>3. PICK j \in DOMAIN lines : lines[j].key = k
  <2>1. e \in Entries \ unwritten
    BY <1>0 DEF TraceWritten
  <2>2. QED
    BY <1>0, <1>1, <2>1 DEF TraceWritten
<1> HIDE DEF k
<1>4. arrived[j] # {}
  <2>1. flitsReceived = flitsInjected /\ packets = Len(lines)
        /\ flitsReceived + SumFunctionOnSet(flying, DOMAIN lines) = flitsInjected
    BY <1>0 DEF FlitsAccounted
  <2>2. IsFiniteSet(DOMAIN lines) /\ \A x \in DOMAIN lines : flying[x] \in Nat
    BY <1>0, TraceSums DEF TypeOK
  <2>3. flying[j] <= SumFunctionOnSet(flying, DOMAIN lines) /\ SumFunctionOnSet(flying, DOMAIN lines) \in Nat
    BY <2>2, SumNat
  <2>4. flying[j] = 0
    BY <1>0, <2>1, <2>2, <2>3 DEF TypeOK
  <2>5. lines[j].flits \in 1 .. MaxFlits /\ j <= Len(lines)
    BY <1>0, TraceSums
  <2>6. flying[j] < lines[j].flits /\ j <= packets
    BY <2>1, <2>4, <2>5
  <2>7. QED
    BY <1>0, <2>6 DEF FlitsAccounted
<1>5. latencies \subseteq Keys \X (1 .. MaxLatency)
      /\ arrived \in [DOMAIN lines -> SUBSET (Chiplet \X (1 .. MaxLatency))]
  BY <1>0 DEF TypeOK
<1>6. \A t \in 1 .. MaxLatency :
        <<k, t>> \in latencies
          <=> \E x \in DOMAIN lines : lines[x].key = k /\ \E a \in arrived[x] : a[2] = t
  BY <1>0, <1>2, Zenon DEF LatenciesAreArrivals
<1>7. L = F
  <2>1. ASSUME NEW t \in L PROVE t \in F
    <3>1. PICK r \in latencies : r[1] = k /\ r[2] = t
      OBVIOUS
    <3>2. r = <<k, t>> /\ t \in 1 .. MaxLatency
      BY <1>5, <3>1
    <3>3. PICK x \in DOMAIN lines : lines[x].key = k /\ \E a \in arrived[x] : a[2] = t
      BY <1>6, <3>2
    <3>4. QED
      BY <3>3 DEF FlitLatencies
  <2>2. ASSUME NEW t \in F PROVE t \in L
    <3>1. PICK x \in DOMAIN lines : lines[x].key = k /\ \E a \in arrived[x] : a[2] = t
      BY DEF FlitLatencies
    <3>2. t \in 1 .. MaxLatency
      BY <1>5, <3>1
    <3>3. <<k, t>> \in latencies
      BY <1>6, <3>1, <3>2
    <3>4. QED
      BY <3>3
  <2>3. QED
    BY <2>1, <2>2
<1>8. k \in {r[1] : r \in latencies}
  <2>1. PICK a \in arrived[j] : TRUE
    BY <1>4
  <2>2. a[2] \in 1 .. MaxLatency
    BY <1>5
  <2>3. <<k, a[2]>> \in latencies
    BY <1>3, <1>6, <2>2
  <2>4. QED
    BY <2>3
<1>9. PhaseLatency(k) = Max(F)
  BY <1>7 DEF PhaseLatency
<1> HIDE DEF L, F
<1>10. result' = {<<x, PhaseLatency(x)>> : x \in {y \in {r[1] : r \in latencies} : Registered(y)}}
  BY DEF ReadStats
<1>11. Registered(k)
  BY DEF k
<1>12. {r[2] : r \in {s \in result' : s[1] = k}} = {PhaseLatency(k)}
  <2>1. <<k, PhaseLatency(k)>> \in result'
    BY <1>8, <1>10, <1>11
  <2>2. \A s \in result' : s[1] = k => s[2] = PhaseLatency(k)
    BY <1>10
  <2>3. QED
    BY <2>1, <2>2
<1>13. QED
  BY <1>9, <1>12 DEF k, F

\* As long as gem5 has a statistic for every phase, every phase that was given
\* traffic is reported, with the latency of its slowest flit.
THEOREM PhasesAreReported ==
  ASSUME \A k \in Keys : Registered(k)
  PROVE  Spec => []EveryPhaseReported
<1>1. Init => EveryPhaseReported
  BY DEF Init, EveryPhaseReported
<1>2. TraceInv /\ TraceInv' /\ EveryPhaseReported /\ [Next]_vars => EveryPhaseReported'
  <2>1. SUFFICES ASSUME TraceInv, TraceInv', EveryPhaseReported, [Next]_vars, status' = "complete",
                        NEW i \in Senders'
                 PROVE  {r[2] : r \in {s \in result' : s[1] = request'[i].key}}
                          = {Max(FlitLatencies(request[i].key)')}
    BY DEF EveryPhaseReported
  <2>2. request' = request
    BY <2>1 DEF Next, Step, WriteLine, Start, Wakeup, Receive, ReadStats, Over, vars
  <2>3. Senders' = Senders
    BY <2>2, SameRequest DEF Senders
  <2>4. CASE Start
    <3>1. lines' = <<>> /\ unwritten' = {}
      BY <2>1, <2>4 DEF Start, TraceInv, TraceWritten
    <3>2. PICK e \in Entries' : e[1] = i
      BY <2>1 DEF Senders
    <3>3. PICK j \in DOMAIN lines' : TRUE
      BY <2>1, <3>1, <3>2 DEF TraceInv, TraceWritten
    <3>4. QED
      BY <3>1, <3>3
  <2>5. CASE ReadStats
    <3>1. i \in Senders /\ Registered(request[i].key)
      <4>1. PICK e \in Entries : e[1] = i
        BY <2>1, <2>3 DEF Senders
      <4>2. i \in DOMAIN request
        BY <4>1 DEF Entries
      <4>3. request[i].key \in Keys
        BY <2>1, <4>2, RequestEntry DEF TraceInv
      <4>4. QED
        BY <2>1, <2>3, <4>3
    <3>2. FlitLatencies(request[i].key)' = FlitLatencies(request[i].key)
      BY <2>5 DEF ReadStats, FlitLatencies
    <3>3. QED
      BY <2>1, <2>2, <2>5, <3>1, <3>2, StatsHaveThePhase
  <2>6. CASE UNCHANGED vars
    <3>1. FlitLatencies(request[i].key)' = FlitLatencies(request[i].key)
      BY <2>6 DEF vars, FlitLatencies
    <3>2. status = "complete" /\ result' = result
      BY <2>1, <2>6 DEF vars
    <3>3. QED
      BY <2>1, <2>2, <2>3, <3>1, <3>2 DEF EveryPhaseReported
  <2>7. CASE Over
    BY <2>6, <2>7 DEF Over
  <2>8. ASSUME (\E e \in unwritten : WriteLine(e)) \/ Wakeup
                 \/ \E j \in DOMAIN lines, latency \in 1 .. MaxLatency : Receive(j, latency)
        PROVE  FALSE
    BY <2>1, <2>8 DEF WriteLine, Wakeup, Receive
  <2>9. QED
    BY <2>1, <2>4, <2>5, <2>6, <2>7, <2>8 DEF Next, Step
<1>3. QED
  BY <1>1, <1>2, TraceInvariant, PTL DEF Spec

\* On the 100 chiplets that the interface numbers of the trace are made for,
\* every flit reaches the chiplet the traffic matrix was filled for.
THEOREM FlitsFindTheirChiplet ==
  ASSUME NumChiplets = 100
  PROVE  Spec => []FlitsReachTheirChiplet
<1>1. Init => FlitsReachTheirChiplet
  BY DEF Init, FlitsReachTheirChiplet
<1>2. TraceInv /\ TraceInv' /\ FlitsReachTheirChiplet /\ [Next]_vars => FlitsReachTheirChiplet'
  <2>1. SUFFICES ASSUME TraceInv, TraceInv', FlitsReachTheirChiplet, [Next]_vars
                 PROVE  FlitsReachTheirChiplet'
    OBVIOUS
  <2>2. ASSUME NEW e \in unwritten, WriteLine(e) PROVE FlitsReachTheirChiplet'
    <3>1. status' = "preparing"
      BY <2>2 DEF WriteLine
    <3>2. packets' = 0
      BY <2>1, <3>1 DEF TraceInv, TraceWritten
    <3>3. \A i \in DOMAIN lines' : i > 0
      <4>1. lines' \in Seq(TraceLine')
        BY <2>1 DEF TraceInv, TypeOK
      <4>2. Len(lines') \in Nat /\ DOMAIN lines' = 1 .. Len(lines')
        BY <4>1, LenProperties
      <4> QED BY <4>2
    <3>4. \A i \in DOMAIN lines' : arrived'[i] = {}
      BY <2>1, <3>2, <3>3 DEF TraceInv, TraceRead
    <3>5. QED
      BY <3>1, <3>4 DEF FlitsReachTheirChiplet
  <2>3. ASSUME NEW i \in DOMAIN lines, NEW latency \in 1 .. MaxLatency, Receive(i, latency)
        PROVE  FlitsReachTheirChiplet'
    <3>1. lines[i].router \in 0 .. 99 /\ lines[i].dest = lines[i].router + 100
      <4>1. lines[i] \in TraceLine
        BY <2>1, LenProperties, SMTT(40) DEF TraceInv, TypeOK
      <4>2. QED
        BY <2>1, <4>1 DEF TraceLine, Chiplet, TraceInv, TraceRead, DestInterface
    <3>2. TargetInterface(i) = lines[i].router + 100
      BY <3>1 DEF TargetInterface, Interfaces
    <3>3. TargetInterface(i) >= NumChiplets /\ TargetInterface(i) % NumChiplets = lines[i].router
      BY <3>1, <3>2
    <3>4. /\ status' # "crashed" /\ lines' = lines
          /\ arrived' = [arrived EXCEPT ![i] = @ \cup {<<lines[i].router, latency>>}]
      BY <2>3, <3>3 DEF Receive
    <3>5. arrived \in [DOMAIN lines -> SUBSET (Chiplet \X (1 .. MaxLatency))]
      BY <2>1 DEF TraceInv, TypeOK
    <3>6. QED
      BY <2>1, <3>4, <3>5 DEF FlitsReachTheirChiplet
  <2>4. CASE Start \/ Wakeup \/ ReadStats \/ UNCHANGED vars
    BY <2>1, <2>4 DEF FlitsReachTheirChiplet, Start, Wakeup, ReadStats, vars
  <2>5. CASE Over
    BY <2>4, <2>5 DEF Over
  <2>6. QED
    BY <2>1, <2>2, <2>3, <2>4, <2>5 DEF Next, Step
<1>3. QED
  BY <1>1, <1>2, TraceInvariant, PTL DEF Spec

-----------------------------------------------------------------------------
(* Traffic *)

\* What a traffic dictionary holds for a pair
AmountFor(t, p) == IF p \in DOMAIN t THEN t[p] ELSE 0

\* The layers on a chiplet that the loop has visited
Visited(c) == {l \in phase.layers \ todo : c \in DOMAIN mapping[l]}

\* What a pair gets for one visited layer of an activation phase, times WholeLayer
OneShare(s) == mapping[phase.layer][s] * TotalPackets(phase.layer)

\* The weights of a layer on a chiplet, in bits times WholeLayer
WeightBits(c) == [l \in Layers |-> metrics[l].num_weights * mapping[l][c] * bits_per_weight[c]]

Io(c) == CHOOSE i : i \in ClosestIo(c)

TrafficTypeOK ==
    /\ phase.layers \in SUBSET Layers
    /\ phase.kind = "activation" => phase.layer \in Layers
    /\ phase.kind \in {"activation", "weights"}
    /\ mapping \in Mappings
    /\ metrics \in [Layers -> [output_activation : Outputs, num_weights : Weights]]
    /\ todo \in SUBSET phase.layers
    /\ \A p \in DOMAIN traffic : traffic[p] \in Nat

ActivationsSoFar ==
    phase.kind = "activation" =>
      \A s \in DOMAIN mapping[phase.layer] : \A c \in DOMAIN bits_per_weight \ {s} :
        LET n    == Cardinality(Visited(c))
            sent == AmountFor(traffic, <<s, c>>)
        IN  /\ OneShare(s) * n - WholeLayer * n <= WholeLayer * sent
            /\ WholeLayer * sent <= OneShare(s) * n + WholeLayer * n
            /\ sent >= n

WeightsSoFar ==
    phase.kind = "weights" =>
      /\ \A p \in DOMAIN traffic :
           \E c \in DOMAIN bits_per_weight : p \in ClosestIo(c) \X {c}
      /\ \A c \in DOMAIN bits_per_weight : Reachable(c) # {} =>
           LET share == SumFunctionOnSet(WeightBits(c), Visited(c))
               slack == WholeLayer * (bits_per_packet + bits_per_weight[c]) * Cardinality(Visited(c))
               sent  == WholeLayer * bits_per_packet * AmountFor(traffic, <<Io(c), c>>)
           IN  share - slack <= sent /\ sent <= share + slack

TrafficInv == TrafficTypeOK /\ ActivationsSoFar /\ WeightsSoFar

\* Merging adds up the amounts of every pair.
LEMMA MergeAdds ==
  ASSUME NEW t, NEW u, \A p \in DOMAIN t : t[p] \in Nat, \A p \in DOMAIN u : u[p] \in Nat
  PROVE  /\ DOMAIN Merge(t, u) = DOMAIN t \cup DOMAIN u
         /\ \A p \in DOMAIN Merge(t, u) : Merge(t, u)[p] \in Nat
         /\ \A p : AmountFor(Merge(t, u), p) = AmountFor(t, p) + AmountFor(u, p)
<1>1. DOMAIN Merge(t, u) = DOMAIN t \cup DOMAIN u
  BY DEF Merge
<1>2. \A p \in DOMAIN t \cup DOMAIN u : Merge(t, u)[p] = AmountFor(t, p) + AmountFor(u, p)
  BY DEF Merge, AmountFor
<1>3. \A p : AmountFor(t, p) \in Nat /\ AmountFor(u, p) \in Nat
  BY DEF AmountFor
<1>4. \A p : p \notin DOMAIN t \cup DOMAIN u => AmountFor(t, p) = 0 /\ AmountFor(u, p) = 0
  BY DEF AmountFor
<1>5. \A p : p \notin DOMAIN t \cup DOMAIN u => AmountFor(Merge(t, u), p) = 0
  BY <1>1 DEF AmountFor
<1>6. \A p : p \in DOMAIN t \cup DOMAIN u => AmountFor(Merge(t, u), p) = Merge(t, u)[p]
  BY <1>1 DEF AmountFor
<1>7. \A p : AmountFor(Merge(t, u), p) = AmountFor(t, p) + AmountFor(u, p)
  <2>1. TAKE p
  <2>2. CASE p \in DOMAIN t \cup DOMAIN u
    BY <1>2, <1>6, <2>2
  <2>3. CASE p \notin DOMAIN t \cup DOMAIN u
    BY <1>4, <1>5, <2>3
  <2> QED BY <2>2, <2>3
<1>8. \A p \in DOMAIN t \cup DOMAIN u : Merge(t, u)[p] \in Nat
  BY <1>2, <1>3
<1> QED BY <1>1, <1>7, <1>8

\* A chiplet's part of a total is its share to within one, rounded down.
LEMMA SharesBounds ==
  ASSUME NEW total \in Nat, NEW portions, NEW c \in DOMAIN portions,
         portions[c] \in 1 .. WholeLayer, NEW part \in Shares(total, portions)
  PROVE  /\ part[c] \in Nat
         /\ WholeLayer * part[c] <= total * portions[c]
         /\ total * portions[c] <= WholeLayer * part[c] + WholeLayer
<1> DEFINE m == total * portions[c]
           q == m \div WholeLayer
<1>1. part[c] \in ScaledTotal(total, portions[c])
  BY DEF Shares
<1>2. m \in Nat /\ WholeLayer \in Nat \ {0}
  BY TrafficAssumption
<1>3. part[c] = q \/ (q > 0 /\ m % WholeLayer = 0 /\ part[c] = q - 1)
  BY <1>1 DEF ScaledTotal
<1> HIDE DEF m
<1>4. q \in Nat /\ WholeLayer * q <= m /\ m < WholeLayer * q + WholeLayer
      /\ (m % WholeLayer = 0 => m = WholeLayer * q)
  BY <1>2
<1> HIDE DEF q
<1>5. CASE part[c] = q
  BY <1>2, <1>4, <1>5 DEF m
<1>6. CASE q > 0 /\ m % WholeLayer = 0 /\ part[c] = q - 1
  <2>1. WholeLayer * (q - 1) = WholeLayer * q - WholeLayer
    BY <1>2, <1>4
  <2> DEFINE x == WholeLayer * q
  <2>2. x \in Nat /\ m = x
    BY <1>2, <1>4, <1>6
  <2> HIDE DEF x
  <2>3. x - WholeLayer <= m /\ m <= (x - WholeLayer) + WholeLayer
    BY <1>2, <2>2
  <2> QED BY <1>4, <1>6, <2>1, <2>3 DEF x, m
<1> QED BY <1>3, <1>5, <1>6

\* The first of the closest I/O chiplets is the only one chosen.
LEMMA OneClosestIo ==
  ASSUME NEW c \in DOMAIN bits_per_weight, Reachable(c) # {}
  PROVE  ClosestIo(c) = {Io(c)}
<1> DEFINE length(i) == PathLength[<<io_chiplet_ids[i], c>>]
           L == {length(i) : i \in Reachable(c)}
           First(j) == \A k \in Reachable(c) : length(j) < length(k) \/ (length(j) = length(k) /\ j <= k)
<1>1. \A i \in Reachable(c) : i \in Nat /\ length(i) \in Nat
  BY TrafficAssumption DEF Reachable
<1>2. PICK m \in L : \A n \in L : m <= n
  <2>1. L \in SUBSET Nat /\ L # {}
    BY <1>1
  <2> HIDE DEF L
  <2> QED BY <2>1, LeastElement
<1> DEFINE J == {j \in Reachable(c) : length(j) = m}
<1>3. PICK j \in J : \A k \in J : j <= k
  <2>1. J \in SUBSET Nat /\ J # {}
    BY <1>1, <1>2
  <2> HIDE DEF J
  <2> QED BY <2>1, LeastElement
<1>4. First(j)
  <2>1. SUFFICES ASSUME NEW k \in Reachable(c)
                 PROVE  length(j) < length(k) \/ (length(j) = length(k) /\ j <= k)
    OBVIOUS
  <2>2. length(j) = m /\ length(k) \in Nat /\ m \in Nat /\ m <= length(k)
    BY <1>1, <1>2, <1>3
  <2>3. length(k) = m => j <= k
    BY <1>3
  <2> HIDE DEF length
  <2> QED BY <2>2, <2>3
<1>5. \A k \in Reachable(c) : First(k) => k = j
  <2>1. SUFFICES ASSUME NEW k \in Reachable(c), First(k) PROVE k = j
    OBVIOUS
  <2>2. j \in Reachable(c)
    BY <1>3
  <2>3. length(k) < length(j) \/ (length(k) = length(j) /\ k <= j)
    BY <2>1, <2>2
  <2>4. length(j) < length(k) \/ (length(k) = length(j) /\ j <= k)
    BY <1>4
  <2>5. j \in Nat /\ k \in Nat /\ length(j) \in Nat /\ length(k) \in Nat
    BY <1>1, <2>2
  <2> HIDE DEF length
  <2> QED BY <2>3, <2>4, <2>5
<1> DEFINE K == {k \in Reachable(c) : First(k)}
<1>6. ClosestIo(c) = {io_chiplet_ids[i] : i \in K}
  BY DEF ClosestIo
<1>7. K = {j}
  <2> HIDE DEF First
  <2> QED BY <1>3, <1>4, <1>5
<1>8. ClosestIo(c) = {io_chiplet_ids[j]}
  <2> HIDE DEF K
  <2> QED BY <1>6, <1>7
<1> QED BY <1>8 DEF Io

\* Visiting a layer adds it to the visited layers of its chiplets.
LEMMA VisitedGrows ==
  ASSUME TrafficTypeOK, NEW l \in todo, todo' = todo \ {l}, UNCHANGED <<phase, mapping>>, NEW c
  PROVE  /\ IsFiniteSet(Visited(c))
         /\ l \notin Visited(c)
         /\ Cardinality(Visited(c)) \in Nat
         /\ c \in DOMAIN mapping[l] => /\ Visited(c)' = Visited(c) \cup {l}
                                       /\ Cardinality(Visited(c)') = Cardinality(Visited(c)) + 1
         /\ c \notin DOMAIN mapping[l] => Visited(c)' = Visited(c)
<1>1. Visited(c) \in SUBSET Layers
  BY DEF TrafficTypeOK, Visited
<1>2. IsFiniteSet(Visited(c))
  BY <1>1, TrafficAssumption, FS_Subset
<1>3. l \notin Visited(c)
  BY DEF Visited
<1>4. c \in DOMAIN mapping[l] => Visited(c)' = Visited(c) \cup {l}
  BY DEF Visited, TrafficTypeOK
<1>5. c \notin DOMAIN mapping[l] => Visited(c)' = Visited(c)
  BY DEF Visited, TrafficTypeOK
<1>6. Cardinality(Visited(c)) \in Nat /\ Cardinality(Visited(c) \cup {l}) = Cardinality(Visited(c)) + 1
  BY <1>2, <1>3, FS_AddElement, FS_CardinalityType
<1> QED BY <1>2, <1>3, <1>4, <1>5, <1>6

\* Metrics are natural numbers.
LEMMA MetricsTyped ==
  ASSUME TrafficTypeOK, NEW l \in Layers
  PROVE  metrics[l].num_weights \in Nat /\ metrics[l].output_activation \in Nat
<1>1. metrics[l] \in [output_activation : Outputs, num_weights : Weights]
  BY DEF TrafficTypeOK
<1>2. metrics[l].num_weights \in Weights /\ metrics[l].output_activation \in Outputs
  BY <1>1
<1> QED BY <1>2, TrafficAssumption

\* The packets of a phase are a natural number.
LEMMA TotalPacketsNat ==
  ASSUME TrafficTypeOK, phase.layer \in Layers
  PROVE  TotalPackets(phase.layer) \in Nat
<1>1. metrics[phase.layer].output_activation \in Nat
  BY MetricsTyped
<1>2. metrics[phase.layer].output_activation * bits_per_activation \in Nat
  BY <1>1, TrafficAssumption
<1> DEFINE m == metrics[phase.layer].output_activation * bits_per_activation
<1> HIDE DEF m
<1>3. m \div bits_per_packet \in Int
  BY <1>2, TrafficAssumption DEF m
<1> QED BY <1>3 DEF TotalPackets, AtLeastOne, m

\* No traffic has been planned.
LEMMA TrafficInitially == ASSUME TrafficInit PROVE TrafficInv
<1>1. phase \in Phases /\ todo = phase.layers
  BY DEF TrafficInit
<1>2. TrafficTypeOK
  <2>1. phase.layers \in SUBSET Layers /\ (phase.kind = "activation" => phase.layer \in Layers)
        /\ phase.kind \in {"activation", "weights"}
    BY <1>1 DEF Phases
  <2> QED BY <1>1, <2>1 DEF TrafficTypeOK, TrafficInit
<1>3. DOMAIN traffic = {}
  BY DEF TrafficInit
<1>4. \A c : Visited(c) = {}
  BY <1>1 DEF Visited
<1>5. \A c : Cardinality(Visited(c)) = 0
  BY <1>4, FS_EmptySet
<1>6. \A p : AmountFor(traffic, p) = 0
  BY <1>3 DEF AmountFor
<1>7. ActivationsSoFar
  <2>1. SUFFICES ASSUME phase.kind = "activation", NEW s \in DOMAIN mapping[phase.layer]
                 PROVE  OneShare(s) * 0 - WholeLayer * 0 <= WholeLayer * 0 /\ WholeLayer * 0 <= OneShare(s) * 0 + WholeLayer * 0
    BY <1>5, <1>6 DEF ActivationsSoFar
  <2>2. mapping[phase.layer][s] \in Nat
    <3>1. mapping \in Mappings /\ phase.layer \in Layers
      BY <1>2, <2>1 DEF TrafficTypeOK
    <3>2. mapping[phase.layer][s] \in 1 .. WholeLayer
      BY <2>1, <3>1, TrafficAssumption, Zenon
    <3> QED BY <3>2
  <2>3. OneShare(s) \in Int
    BY <1>2, <2>1, <2>2, TotalPacketsNat DEF OneShare, TrafficTypeOK
  <2>4. \A x, y \in Int : x * 0 - y * 0 <= y * 0 /\ y * 0 <= x * 0 + y * 0
    OBVIOUS
  <2>5. WholeLayer \in Int
    BY TrafficAssumption
  <2> HIDE DEF OneShare
  <2> QED BY <2>3, <2>4, <2>5
<1>8. WeightsSoFar
  <2>1. SUFFICES ASSUME NEW c \in DOMAIN bits_per_weight
                 PROVE  /\ SumFunctionOnSet(WeightBits(c), {}) - WholeLayer * (bits_per_packet + bits_per_weight[c]) * 0
                             <= WholeLayer * bits_per_packet * 0
                        /\ WholeLayer * bits_per_packet * 0 <=
                             SumFunctionOnSet(WeightBits(c), {}) + WholeLayer * (bits_per_packet + bits_per_weight[c]) * 0
    BY <1>3, <1>4, <1>5, <1>6 DEF WeightsSoFar
  <2>2. WholeLayer \in Nat /\ bits_per_packet \in Nat /\ bits_per_weight[c] \in Nat
    BY TrafficAssumption
  <2> DEFINE k == WholeLayer * (bits_per_packet + bits_per_weight[c])
             e == WholeLayer * bits_per_packet
  <2>3. k \in Int /\ e \in Int
    BY <2>2
  <2> HIDE DEF k, e
  <2>4. 0 - k * 0 <= e * 0 /\ e * 0 <= 0 + k * 0
    BY <2>3
  <2> QED BY <2>4, SumEmpty DEF k, e
<1> QED BY <1>2, <1>7, <1>8 DEF TrafficInv

\* One more layer at about the share of a chiplet keeps what it got close to
\* its share of them all.
LEMMA OneMoreShare ==
  ASSUME NEW share \in Int, NEW slack \in Int, NEW n \in Nat, NEW sent \in Int, NEW more \in Int,
         share * n - slack * n <= sent, sent <= share * n + slack * n,
         share - slack <= more, more <= share + slack
  PROVE  /\ share * (n + 1) - slack * (n + 1) <= sent + more
         /\ sent + more <= share * (n + 1) + slack * (n + 1)
<1>1. share * (n + 1) = share * n + share /\ slack * (n + 1) = slack * n + slack
  OBVIOUS
<1> DEFINE p == share * n
           q == slack * n
<1>2. p \in Int /\ q \in Int /\ p - q <= sent /\ sent <= p + q
  OBVIOUS
<1> HIDE DEF p, q
<1>3. (p + share) - (q + slack) <= sent + more /\ sent + more <= (p + share) + (q + slack)
  BY <1>2
<1> QED BY <1>1, <1>3 DEF p, q

\* The activations for one more chiplet are planned.
LEMMA SendToKeeps ==
  ASSUME TrafficInv, NEW l \in todo, SendTo(l)
  PROVE  TrafficInv'
<1> DEFINE senders == mapping[phase.layer]
           pairs == {p \in (DOMAIN senders) \X (DOMAIN mapping[l]) : p[1] # p[2]}
           T == TotalPackets(phase.layer)
<1>1. TrafficTypeOK /\ phase.kind = "activation" /\ phase.layer \in Layers
  BY DEF TrafficInv, TrafficTypeOK, SendTo
<1>2. PICK share \in Shares(T, senders) :
        traffic' = Merge(traffic, [p \in pairs |-> Amount(share[p[1]])])
  BY DEF SendTo
<1> DEFINE added == [p \in pairs |-> Amount(share[p[1]])]
<1>3. todo' = todo \ {l} /\ UNCHANGED <<phase, mapping, metrics>>
  BY DEF SendTo
<1>4. T \in Nat
  BY <1>1, TotalPacketsNat
<1>5. \A s \in DOMAIN senders : senders[s] \in 1 .. WholeLayer
  BY <1>1, TrafficAssumption DEF TrafficTypeOK
<1>6. ASSUME NEW s \in DOMAIN senders
      PROVE  /\ Amount(share[s]) \in Nat /\ Amount(share[s]) >= 1
             /\ OneShare(s) \in Nat
             /\ OneShare(s) - WholeLayer <= WholeLayer * Amount(share[s])
             /\ WholeLayer * Amount(share[s]) <= OneShare(s) + WholeLayer
  <2> HIDE DEF T, senders
  <2>1. /\ share[s] \in Nat
        /\ WholeLayer * share[s] <= T * senders[s]
        /\ T * senders[s] <= WholeLayer * share[s] + WholeLayer
    BY <1>2, <1>4, <1>5, SharesBounds
  <2>2. OneShare(s) = T * senders[s] /\ T * senders[s] \in Nat
    <3>1. senders[s] \in Nat
      BY <1>5
    <3>2. OneShare(s) = senders[s] * T
      BY DEF OneShare, T, senders
    <3>3. senders[s] * T = T * senders[s] /\ T * senders[s] \in Nat
      BY <1>4, <3>1
    <3> QED BY <3>2, <3>3
  <2> DEFINE a == Amount(share[s])
             Ws == WholeLayer * share[s]
             Wa == WholeLayer * a
  <2>3. WholeLayer \in Nat \ {0}
    BY TrafficAssumption
  <2>4. a \in Nat /\ a >= 1 /\ (a = share[s] \/ (share[s] = 0 /\ a = 1))
    BY <2>1 DEF Amount, AtLeastOne
  <2> HIDE DEF a
  <2>5. Ws \in Nat /\ Wa \in Nat /\ (Wa = Ws \/ (Ws = 0 /\ Wa = WholeLayer))
    BY <2>1, <2>3, <2>4
  <2> HIDE DEF Ws, Wa
  <2>6. OneShare(s) \in Nat /\ Ws <= OneShare(s) /\ OneShare(s) <= Ws + WholeLayer
    BY <2>1, <2>2 DEF Ws
  <2>7. OneShare(s) - WholeLayer <= Wa /\ Wa <= OneShare(s) + WholeLayer
    BY <2>3, <2>5, <2>6
  <2> QED BY <2>4, <2>6, <2>7 DEF a, Wa
<1>7. \A p \in DOMAIN added : added[p] \in Nat
  BY <1>6
<1>8. \A p \in DOMAIN traffic : traffic[p] \in Nat
  BY <1>1 DEF TrafficTypeOK
<1>9. traffic' = Merge(traffic, added)
  BY <1>2
<1>10. /\ \A p \in DOMAIN traffic' : traffic'[p] \in Nat
       /\ \A p : AmountFor(traffic', p) = AmountFor(traffic, p) + AmountFor(added, p)
  <2> HIDE DEF added
  <2> QED BY <1>7, <1>8, <1>9, MergeAdds
<1>11. TrafficTypeOK'
  BY <1>1, <1>3, <1>10 DEF TrafficTypeOK
<1>12. ActivationsSoFar'
  <2>1. SUFFICES ASSUME NEW s \in DOMAIN senders, NEW c \in DOMAIN bits_per_weight \ {s}
                 PROVE  LET n    == Cardinality(Visited(c)')
                            sent == AmountFor(traffic', <<s, c>>)
                        IN  /\ OneShare(s) * n - WholeLayer * n <= WholeLayer * sent
                            /\ WholeLayer * sent <= OneShare(s) * n + WholeLayer * n
                            /\ sent >= n
    <3>1. \A s : OneShare(s)' = OneShare(s)
      BY <1>3 DEF OneShare, TotalPackets
    <3>2. mapping[phase.layer]' = mapping[phase.layer]
      BY <1>3
    <3> QED BY <3>1, <3>2, ZenonT(40) DEF ActivationsSoFar, AmountFor
  <2> DEFINE n == Cardinality(Visited(c))
             sent == AmountFor(traffic, <<s, c>>)
  <2>2. n \in Nat /\ sent \in Nat
    BY <1>1, <1>3, <1>8, VisitedGrows DEF AmountFor
  <2>3. /\ OneShare(s) * n - WholeLayer * n <= WholeLayer * sent
        /\ WholeLayer * sent <= OneShare(s) * n + WholeLayer * n
        /\ sent >= n
    BY <1>1 DEF TrafficInv, ActivationsSoFar
  <2>4. CASE c \in DOMAIN mapping[l]
    <3> DEFINE a == Amount(share[s])
    <3>1. Cardinality(Visited(c)') = n + 1
      BY <1>1, <1>3, <2>4, VisitedGrows
    <3>2. <<s, c>> \in pairs
      BY <2>1, <2>4
    <3>3. AmountFor(added, <<s, c>>) = a
      BY <3>2 DEF AmountFor
    <3>4. AmountFor(traffic', <<s, c>>) = sent + a
      BY <1>10, <3>3
    <3>5. a \in Nat /\ a >= 1 /\ OneShare(s) \in Int
          /\ OneShare(s) - WholeLayer <= WholeLayer * a /\ WholeLayer * a <= OneShare(s) + WholeLayer
      BY <1>6
    <3> HIDE DEF n, sent, a
    <3>8. WholeLayer \in Nat
      BY TrafficAssumption
    <3>6. /\ OneShare(s) * (n + 1) - WholeLayer * (n + 1) <= WholeLayer * sent + WholeLayer * a
          /\ WholeLayer * sent + WholeLayer * a <= OneShare(s) * (n + 1) + WholeLayer * (n + 1)
      <4>1. WholeLayer * sent \in Int /\ WholeLayer * a \in Int
        BY <2>2, <3>5, <3>8
      <4> QED BY <2>2, <2>3, <3>5, <3>8, <4>1, OneMoreShare
    <3>7. WholeLayer * (sent + a) = WholeLayer * sent + WholeLayer * a /\ sent + a >= n + 1
      BY <2>2, <2>3, <3>5, <3>8
    <3> QED BY <3>1, <3>4, <3>6, <3>7
  <2>5. CASE c \notin DOMAIN mapping[l]
    <3>1. Visited(c)' = Visited(c)
      BY <1>1, <1>3, <2>5, VisitedGrows
    <3>2. <<s, c>> \notin pairs
      BY <2>5
    <3>3. AmountFor(added, <<s, c>>) = 0
      BY <3>2 DEF AmountFor
    <3>4. AmountFor(traffic', <<s, c>>) = sent
      BY <1>10, <2>2, <3>3
    <3> QED BY <2>3, <3>1, <3>4
  <2> QED BY <2>4, <2>5
<1>13. WeightsSoFar'
  BY <1>1, <1>3 DEF WeightsSoFar
<1> QED BY <1>11, <1>12, <1>13 DEF TrafficInv

\* The packets of a number of weights
LEMMA WeightPackets ==
  ASSUME NEW w \in Nat, NEW t \in Nat, NEW b \in Nat, NEW B \in Nat \ {0}, NEW W \in Nat \ {0},
         W * w <= t, t <= W * w + W
  PROVE  LET sent == W * B * AtLeastOne((w * b) \div B)
         IN  /\ AtLeastOne((w * b) \div B) \in Nat
             /\ t * b - W * (B + b) <= sent
             /\ sent <= t * b + W * (B + b)
             /\ w = 0 => t * b - W * (B + b) <= 0
<1> DEFINE m == w * b
           q == m \div B
           a == AtLeastOne(q)
           tb == t * b
           Bq == B * q
           Ba == B * a
           Wm == W * m
           Wb == W * b
           WB == W * B
           WBq == W * Bq
           WBa == W * Ba
<1>1. m \in Nat /\ tb \in Nat /\ Wb \in Nat /\ WB \in Nat
  OBVIOUS
<1>2. Wm \in Nat /\ Wm <= tb /\ tb <= Wm + Wb
  <2> DEFINE Ww == W * w
  <2>1. Ww \in Nat /\ Ww <= t /\ t <= Ww + W
    OBVIOUS
  <2>2. Ww * b = Wm
    OBVIOUS
  <2> HIDE DEF Ww, Wm
  <2>3. \A x, y \in Nat : x <= y => x * b <= y * b
    OBVIOUS
  <2>4. Ww * b <= t * b /\ t * b <= (Ww + W) * b /\ Ww * b \in Nat
    BY <2>1, <2>3
  <2>5. (Ww + W) * b = Ww * b + Wb
    BY <2>1
  <2> QED BY <2>2, <2>4, <2>5
<1> HIDE DEF m, tb
<1>3. q \in Nat /\ Bq <= m /\ m < Bq + B
  BY <1>1
<1>4. a \in Nat /\ (a = q \/ (q = 0 /\ a = 1))
  BY <1>3 DEF AtLeastOne
<1> HIDE DEF q, a
<1>5. Ba = Bq \/ (Bq = 0 /\ Ba = B)
  BY <1>3, <1>4
<1>6. Ba \in Nat /\ Bq \in Nat
  BY <1>3, <1>4
<1>7. W * B * a = WBa
  BY <1>4
<1> HIDE DEF Ba, Bq
<1>8. WBq <= Wm /\ Wm <= WBq + WB /\ WBq \in Nat
  <2>1. \A x, y \in Nat : x <= y => W * x <= W * y
    OBVIOUS
  <2>2. W * Bq <= W * m /\ W * m <= W * (Bq + B)
    BY <1>1, <1>3, <1>6, <2>1
  <2>3. W * (Bq + B) = WBq + WB /\ WBq \in Nat
    BY <1>6
  <2> QED BY <2>2, <2>3
<1>9. WBa \in Nat /\ (WBa = WBq \/ (WBq = 0 /\ WBa = WB))
  BY <1>5, <1>6
<1>10. W * (B + b) = WB + Wb
  OBVIOUS
<1>11. w = 0 => Wm = 0
  BY DEF m
<1> HIDE DEF Wm, Wb, WB, WBq, WBa
<1>12. tb - (WB + Wb) <= WBa /\ WBa <= tb + (WB + Wb)
  BY <1>1, <1>2, <1>8, <1>9
<1>13. w = 0 => tb - (WB + Wb) <= 0
  BY <1>1, <1>2, <1>11
<1>14. AtLeastOne((w * b) \div B) = a /\ t * b = tb
  BY DEF a, q, m, tb
<1> QED BY <1>4, <1>7, <1>10, <1>12, <1>13, <1>14

\* The weights of one more chiplet are planned.
LEMMA LoadWeightsKeeps ==
  ASSUME TrafficInv, NEW l \in todo, LoadWeights(l)
  PROVE  TrafficInv'
<1> DEFINE onto == mapping[l]
           total == metrics[l].num_weights
<1>1. TrafficTypeOK /\ phase.kind = "weights" /\ l \in Layers
  BY DEF TrafficInv, TrafficTypeOK, LoadWeights
<1>2. PICK weights \in Shares(total, onto) :
        LET loaded == {c \in DOMAIN onto : weights[c] > 0}
            pairs  == UNION {ClosestIo(c) \X {c} : c \in loaded}
        IN traffic' = Merge(traffic,
              [p \in pairs |->
                 AtLeastOne((weights[p[2]] * bits_per_weight[p[2]]) \div bits_per_packet)])
  BY DEF LoadWeights
<1> DEFINE loaded == {c \in DOMAIN onto : weights[c] > 0}
           pairs == UNION {ClosestIo(c) \X {c} : c \in loaded}
           needed(c) == AtLeastOne((weights[c] * bits_per_weight[c]) \div bits_per_packet)
           added == [p \in pairs |-> needed(p[2])]
<1>3. todo' = todo \ {l} /\ UNCHANGED <<phase, mapping, metrics>>
  BY DEF LoadWeights
<1>4. total \in Nat /\ bits_per_packet \in Nat \ {0} /\ WholeLayer \in Nat \ {0}
  BY <1>1, TrafficAssumption DEF TrafficTypeOK
<1>5. DOMAIN onto \subseteq DOMAIN bits_per_weight /\ \A c \in DOMAIN onto : onto[c] \in 1 .. WholeLayer
  BY <1>1, TrafficAssumption DEF TrafficTypeOK
<1>6. \A c \in DOMAIN bits_per_weight : bits_per_weight[c] \in Nat
  BY TrafficAssumption
<1>7. ASSUME NEW c \in DOMAIN onto
      PROVE  /\ weights[c] \in Nat
             /\ total * onto[c] \in Nat
             /\ needed(c) \in Nat
             /\ total * onto[c] * bits_per_weight[c] - WholeLayer * (bits_per_packet + bits_per_weight[c])
                  <= WholeLayer * bits_per_packet * needed(c)
             /\ WholeLayer * bits_per_packet * needed(c)
                  <= total * onto[c] * bits_per_weight[c] + WholeLayer * (bits_per_packet + bits_per_weight[c])
             /\ weights[c] = 0 => total * onto[c] * bits_per_weight[c]
                                    - WholeLayer * (bits_per_packet + bits_per_weight[c]) <= 0
  <2>1. bits_per_weight[c] \in Nat /\ onto[c] \in 1 .. WholeLayer
    BY <1>5, <1>6
  <2>2. total * onto[c] \in Nat
    BY <1>4, <2>1
  <2>3. /\ weights[c] \in Nat
        /\ WholeLayer * weights[c] <= total * onto[c]
        /\ total * onto[c] <= WholeLayer * weights[c] + WholeLayer
    <3> HIDE DEF onto, total
    <3> QED BY <1>2, <1>4, <2>1, SharesBounds
  <2> DEFINE t == total * onto[c]
             w == weights[c]
             b == bits_per_weight[c]
  <2>4. w \in Nat /\ t \in Nat /\ b \in Nat /\ WholeLayer * w <= t /\ t <= WholeLayer * w + WholeLayer
    BY <2>1, <2>2, <2>3
  <2> HIDE DEF t, w, b
  <2>5. LET sent == WholeLayer * bits_per_packet * AtLeastOne((w * b) \div bits_per_packet)
        IN  /\ AtLeastOne((w * b) \div bits_per_packet) \in Nat
            /\ t * b - WholeLayer * (bits_per_packet + b) <= sent
            /\ sent <= t * b + WholeLayer * (bits_per_packet + b)
            /\ w = 0 => t * b - WholeLayer * (bits_per_packet + b) <= 0
    BY <1>4, <2>4, WeightPackets, ZenonT(40)
  <2> QED BY <2>4, <2>5 DEF t, w, b
<1>8. \A p \in pairs : p[2] \in loaded /\ p \in ClosestIo(p[2]) \X {p[2]}
  OBVIOUS
<1>9. \A p \in DOMAIN added : added[p] \in Nat
  <2> HIDE DEF needed, pairs
  <2> QED BY <1>7, <1>8
<1>10. \A p \in DOMAIN traffic : traffic[p] \in Nat
  BY <1>1 DEF TrafficTypeOK
<1>11. traffic' = Merge(traffic, added)
  BY <1>2
<1>12. /\ DOMAIN traffic' = DOMAIN traffic \cup pairs
       /\ \A p \in DOMAIN traffic' : traffic'[p] \in Nat
       /\ \A p : AmountFor(traffic', p) = AmountFor(traffic, p) + AmountFor(added, p)
  <2>1. DOMAIN added = pairs
    OBVIOUS
  <2> HIDE DEF added
  <2> QED BY <1>9, <1>10, <1>11, <2>1, MergeAdds
<1>13. TrafficTypeOK'
  BY <1>1, <1>3, <1>12 DEF TrafficTypeOK
<1>14. \A p \in DOMAIN traffic' :
         \E c \in DOMAIN bits_per_weight : p \in ClosestIo(c) \X {c}
  <2>1. \A p \in DOMAIN traffic :
          \E c \in DOMAIN bits_per_weight : p \in ClosestIo(c) \X {c}
    BY <1>1 DEF TrafficInv, WeightsSoFar
  <2>2. loaded \subseteq DOMAIN bits_per_weight
    BY <1>5
  <2> HIDE DEF pairs, loaded
  <2> QED BY <1>8, <1>12, <2>1, <2>2
<1>15. ASSUME NEW c \in DOMAIN bits_per_weight, Reachable(c) # {}
       PROVE  LET share == SumFunctionOnSet(WeightBits(c), Visited(c)')
                  slack == WholeLayer * (bits_per_packet + bits_per_weight[c]) * Cardinality(Visited(c)')
                  sent  == WholeLayer * bits_per_packet * AmountFor(traffic', <<Io(c), c>>)
              IN  share - slack <= sent /\ sent <= share + slack
  <2> DEFINE S == SumFunctionOnSet(WeightBits(c), Visited(c))
             k == WholeLayer * (bits_per_packet + bits_per_weight[c])
             n == Cardinality(Visited(c))
             a == AmountFor(traffic, <<Io(c), c>>)
             more == AmountFor(added, <<Io(c), c>>)
             e == WholeLayer * bits_per_packet
  <2>1. S - k * n <= e * a /\ e * a <= S + k * n
    BY <1>1, <1>15 DEF TrafficInv, WeightsSoFar
  <2>2. AmountFor(traffic', <<Io(c), c>>) = a + more
    BY <1>12
  <2>3. k \in Nat /\ e \in Nat
    BY <1>4, <1>6
  <2>4. a \in Nat /\ more \in Nat
    BY <1>9, <1>10 DEF AmountFor
  <2>5. n \in Nat /\ IsFiniteSet(Visited(c)) /\ l \notin Visited(c)
    BY <1>1, <1>3, VisitedGrows
  <2>6. \A x \in Visited(c) : WeightBits(c)[x] \in Int
    <3>1. SUFFICES ASSUME NEW x \in Visited(c) PROVE WeightBits(c)[x] \in Int
      OBVIOUS
    <3>2. x \in Layers /\ c \in DOMAIN mapping[x]
      BY <1>1 DEF Visited, TrafficTypeOK
    <3>3. mapping[x][c] \in Int
      BY <1>1, <3>2, TrafficAssumption DEF TrafficTypeOK
    <3>4. metrics[x].num_weights \in Int
      BY <1>1, <3>2, MetricsTyped
    <3>5. WeightBits(c)[x] = metrics[x].num_weights * mapping[x][c] * bits_per_weight[c]
      BY <3>2 DEF WeightBits
    <3> QED BY <1>6, <3>3, <3>4, <3>5
  <2>7. S \in Int
    <3> DEFINE f == WeightBits(c)
               V == Visited(c)
    <3>1. IsFiniteSet(V) /\ \A x \in V : f[x] \in Int
      BY <2>5, <2>6
    <3> HIDE DEF f, V
    <3>2. SumFunctionOnSet(f, V) \in Int
      BY <3>1, SumInt
    <3> QED BY <3>2 DEF f, V
  <2>8. ClosestIo(c) = {Io(c)}
    BY <1>15, OneClosestIo
  <2>9. <<Io(c), c>> \in pairs <=> c \in loaded
    <3>1. ASSUME c \in loaded PROVE <<Io(c), c>> \in pairs
      <4>1. <<Io(c), c>> \in ClosestIo(c) \X {c}
        BY <2>8
      <4> HIDE DEF loaded
      <4> QED BY <3>1, <4>1
    <3>2. ASSUME <<Io(c), c>> \in pairs PROVE c \in loaded
      <4>1. <<Io(c), c>>[2] \in loaded
        BY <1>8, <3>2
      <4> HIDE DEF loaded
      <4> QED BY <4>1
    <3> QED BY <3>1, <3>2
  <2>10. c \in loaded => more = needed(c)
    <3> HIDE DEF pairs, loaded, needed
    <3> QED BY <2>9 DEF AmountFor
  <2>11. c \notin loaded => more = 0
    <3> HIDE DEF pairs, loaded, needed
    <3> QED BY <2>9 DEF AmountFor
  <2>12. CASE c \in DOMAIN mapping[l]
    <3> DEFINE x == total * onto[c] * bits_per_weight[c]
    <3>1. x - k <= e * more /\ e * more <= x + k /\ x \in Int
      <4>1. /\ x - k <= e * needed(c)
            /\ e * needed(c) <= x + k
            /\ weights[c] = 0 => x - k <= 0
            /\ weights[c] \in Nat
        BY <1>7, <2>12
      <4>2. x \in Int /\ x >= 0
        <5>1. total * onto[c] \in Nat /\ bits_per_weight[c] \in Nat
          BY <1>6, <1>7, <2>12
        <5> HIDE DEF total, onto
        <5>2. \A i, j \in Nat : i * j \in Nat
          OBVIOUS
        <5>3. x \in Nat
          BY <5>1, <5>2
        <5> QED BY <5>3
      <4>3. CASE c \in loaded
        <5>1. more = needed(c)
          BY <2>10, <4>3
        <5> HIDE DEF x, k, e, needed, more
        <5> QED BY <4>1, <4>2, <5>1
      <4>4. CASE c \notin loaded
        <5>1. weights[c] = 0 /\ more = 0
          BY <2>11, <2>12, <4>1, <4>4
        <5>2. x - k <= 0
          BY <4>1, <5>1
        <5> HIDE DEF x, k, e, needed, more
        <5>3. e * more = 0
          BY <2>3, <5>1
        <5> QED BY <2>3, <4>2, <5>2, <5>3
      <4> QED BY <4>3, <4>4
    <3>2. Visited(c)' = Visited(c) \cup {l} /\ Cardinality(Visited(c)') = n + 1
      BY <1>1, <1>3, <2>12, VisitedGrows
    <3>3. WeightBits(c)[l] = x
      BY <1>1 DEF WeightBits
    <3>4. SumFunctionOnSet(WeightBits(c), Visited(c)') = x + S
      <4> DEFINE f == WeightBits(c)
                 V == Visited(c)
      <4>1. IsFiniteSet(V) /\ (\A y \in V : f[y] \in Int) /\ l \notin V /\ f[l] \in Int
        BY <2>5, <2>6, <3>1, <3>3
      <4> HIDE DEF f, V
      <4>2. SumFunctionOnSet(f, V \cup {l}) = f[l] + SumFunctionOnSet(f, V)
        BY <4>1, SumAdd
      <4> QED BY <3>2, <3>3, <4>2 DEF f, V
    <3> HIDE DEF S, k, n, a, more, e, x
    <3>5. k * (n + 1) = k * n + k /\ e * (a + more) = e * a + e * more
      BY <2>3, <2>4, <2>5
    <3>6. k * n \in Int /\ e * a \in Int /\ e * more \in Int
      BY <2>3, <2>4, <2>5
    <3>7. (x + S) - (k * n + k) <= e * a + e * more /\ e * a + e * more <= (x + S) + (k * n + k)
      <4> DEFINE kn == k * n
                 ea == e * a
                 em == e * more
      <4>1. kn \in Int /\ ea \in Int /\ em \in Int
        BY <3>6
      <4>2. S - kn <= ea /\ ea <= S + kn /\ x - k <= em /\ em <= x + k /\ x \in Int /\ S \in Int /\ k \in Int
        BY <2>1, <2>3, <2>7, <3>1
      <4> HIDE DEF kn, ea, em
      <4>3. (x + S) - (kn + k) <= ea + em /\ ea + em <= (x + S) + (kn + k)
        BY <4>1, <4>2
      <4> QED BY <4>3 DEF kn, ea, em
    <3>8. (x + S) - k * (n + 1) <= e * (a + more) /\ e * (a + more) <= (x + S) + k * (n + 1)
      BY <3>5, <3>7
    <3> QED BY <2>2, <3>2, <3>4, <3>8 DEF k, e
  <2>13. CASE c \notin DOMAIN mapping[l]
    <3>1. Visited(c)' = Visited(c)
      BY <1>1, <1>3, <2>13, VisitedGrows
    <3>2. more = 0
      BY <2>11, <2>13
    <3>3. a + more = a
      BY <2>4, <3>2
    <3> QED BY <2>1, <2>2, <3>1, <3>3
  <2> QED BY <2>12, <2>13
<1>16. WeightsSoFar'
  <2>1. \A c : WeightBits(c)' = WeightBits(c)
    BY <1>3 DEF WeightBits
  <2>2. \A c : /\ Io(c)' = Io(c)
               /\ ClosestIo(c)' = ClosestIo(c)
               /\ Reachable(c)' = Reachable(c)
    BY DEF Io, ClosestIo, Reachable
  <2> QED BY <1>14, <1>15, <2>1, <2>2 DEF WeightsSoFar, AmountFor
<1>17. ActivationsSoFar'
  BY <1>1, <1>3 DEF ActivationsSoFar
<1> QED BY <1>13, <1>16, <1>17 DEF TrafficInv

\* While the traffic of a phase is built up, every pair of chiplets has what
\* the layers visited so far call for.
THEOREM TrafficInvariant == TrafficSpec => []TrafficInv
<1>1. TrafficInit => TrafficInv
  BY TrafficInitially
<1>2. TrafficInv /\ [TrafficNext]_trafficVars => TrafficInv'
  <2>1. SUFFICES ASSUME TrafficInv, [TrafficNext]_trafficVars PROVE TrafficInv'
    OBVIOUS
  <2>2. ASSUME NEW l \in todo, SendTo(l) PROVE TrafficInv'
    BY <2>1, <2>2, SendToKeeps
  <2>3. ASSUME NEW l \in todo, LoadWeights(l) PROVE TrafficInv'
    BY <2>1, <2>3, LoadWeightsKeeps
  <2>4. CASE UNCHANGED trafficVars
    <3>1. UNCHANGED <<phase, mapping, metrics, todo, traffic>>
      BY <2>4 DEF trafficVars
    <3>2. TrafficTypeOK'
      BY <2>1, <3>1 DEF TrafficInv, TrafficTypeOK
    <3>3. \A c : Visited(c)' = Visited(c) /\ WeightBits(c)' = WeightBits(c) /\ OneShare(c)' = OneShare(c)
      BY <3>1 DEF Visited, WeightBits, OneShare, TotalPackets
    <3>4. \A c : /\ Io(c)' = Io(c)
                 /\ ClosestIo(c)' = ClosestIo(c)
                 /\ Reachable(c)' = Reachable(c)
      BY DEF Io, ClosestIo, Reachable
    <3>5. \A p : AmountFor(traffic, p)' = AmountFor(traffic, p)
      BY <3>1 DEF AmountFor
    <3>6. ActivationsSoFar'
      BY <2>1, <3>1, <3>3, <3>5, ZenonT(40) DEF TrafficInv, ActivationsSoFar
    <3>7. WeightsSoFar'
      BY <2>1, <3>1, <3>3, <3>4, <3>5 DEF TrafficInv, WeightsSoFar
    <3> QED BY <3>2, <3>6, <3>7 DEF TrafficInv
  <2> QED BY <2>1, <2>2, <2>3, <2>4 DEF TrafficNext, Done
<1> QED BY <1>1, <1>2, PTL DEF TrafficSpec

\* Every activation phase carries the output of its layer to every chiplet of
\* every receiving layer, for all layers, mappings and packet sizes.
THEOREM ActivationsAreSent == TrafficSpec => []ActivationsArriveInFull
<1>1. TrafficInv => ActivationsArriveInFull
  <2>1. SUFFICES ASSUME TrafficInv, phase.kind = "activation", todo = {},
                        NEW s \in DOMAIN mapping[phase.layer], NEW c \in DOMAIN bits_per_weight \ {s}
                 PROVE  LET share == mapping[phase.layer][s] * TotalPackets(phase.layer) * Cardinality(Hosts(c))
                            slack == WholeLayer * Cardinality(Hosts(c))
                            sent  == Packets({<<s, c>>})
                        IN  /\ share - slack <= WholeLayer * sent /\ WholeLayer * sent <= share + slack
                            /\ sent >= Cardinality(Hosts(c))
    BY DEF ActivationsArriveInFull
  <2>2. Visited(c) = Hosts(c)
    BY <2>1 DEF Visited, Hosts
  <2>3. Packets({<<s, c>>}) = AmountFor(traffic, <<s, c>>)
    <3>1. CASE <<s, c>> \in DOMAIN traffic
      <4>1. {<<s, c>>} \cap DOMAIN traffic = {<<s, c>>}
        BY <3>1
      <4>2. traffic[<<s, c>>] \in Int
        BY <2>1, <3>1 DEF TrafficInv, TrafficTypeOK
      <4> QED BY <3>1, <4>1, <4>2, SumOfOne DEF Packets, AmountFor
    <3>2. CASE <<s, c>> \notin DOMAIN traffic
      <4>1. {<<s, c>>} \cap DOMAIN traffic = {}
        BY <3>2
      <4> QED BY <3>2, <4>1, SumEmpty DEF Packets, AmountFor
    <3> QED BY <3>1, <3>2
  <2> QED BY <2>1, <2>2, <2>3 DEF TrafficInv, ActivationsSoFar, OneShare
<1> QED BY <1>1, TrafficInvariant, PTL

\* Every weight loading phase carries the weights of all its layers, for all
\* layers, mappings and packet sizes, when every compute chiplet has a path from
\* an I/O chiplet.
THEOREM WeightsAreSent ==
  ASSUME \A c \in DOMAIN bits_per_weight : Reachable(c) # {}
  PROVE  TrafficSpec => []WeightsArriveInFull
<1>1. TrafficInv => WeightsArriveInFull
  <2>1. SUFFICES ASSUME TrafficInv, phase.kind = "weights", todo = {}, NEW c \in DOMAIN bits_per_weight
                 PROVE  LET share == SumFunction([l \in Hosts(c) |->
                                       metrics[l].num_weights * mapping[l][c] * bits_per_weight[c]])
                            slack == WholeLayer * (bits_per_packet + bits_per_weight[c]) * Cardinality(Hosts(c))
                            sent  == WholeLayer * bits_per_packet * Packets({p \in DOMAIN traffic : p[2] = c})
                        IN  share - slack <= sent /\ sent <= share + slack
    BY DEF WeightsArriveInFull
  <2> DEFINE f == [l \in Hosts(c) |-> metrics[l].num_weights * mapping[l][c] * bits_per_weight[c]]
             S == {p \in DOMAIN traffic : p[2] = c}
             pair == <<Io(c), c>>
  <2>2. Visited(c) = Hosts(c) /\ Hosts(c) \in SUBSET Layers
    BY <2>1 DEF Visited, Hosts, TrafficInv, TrafficTypeOK
  <2>3. IsFiniteSet(Hosts(c))
    BY <2>2, TrafficAssumption, FS_Subset
  <2>4. ClosestIo(c) = {Io(c)}
    BY OneClosestIo
  <2>5. S \cap DOMAIN traffic = IF pair \in DOMAIN traffic THEN {pair} ELSE {}
    <3>1. \A p \in DOMAIN traffic : \E d \in DOMAIN bits_per_weight : p \in ClosestIo(d) \X {d}
      BY <2>1 DEF TrafficInv, WeightsSoFar
    <3>2. \A p \in S : p = pair
      BY <2>4, <3>1
    <3>3. pair[2] = c
      OBVIOUS
    <3> HIDE DEF pair
    <3> QED BY <3>2, <3>3
  <2>6. Packets(S) = AmountFor(traffic, pair)
    <3> HIDE DEF pair, S
    <3>1. CASE pair \in DOMAIN traffic
      <4>1. traffic[pair] \in Int
        BY <2>1, <3>1 DEF TrafficInv, TrafficTypeOK
      <4>2. S \cap DOMAIN traffic = {pair}
        BY <2>5, <3>1
      <4> QED BY <3>1, <4>1, <4>2, SumOfOne DEF Packets, AmountFor
    <3>2. CASE pair \notin DOMAIN traffic
      <4>1. S \cap DOMAIN traffic = {}
        BY <2>5, <3>2
      <4> QED BY <3>2, <4>1, SumEmpty DEF Packets, AmountFor
    <3> QED BY <3>1, <3>2
  <2>7. \A l \in Hosts(c) : f[l] \in Int /\ f[l] = WeightBits(c)[l]
    <3>1. SUFFICES ASSUME NEW l \in Hosts(c)
                   PROVE  /\ metrics[l].num_weights * mapping[l][c] * bits_per_weight[c] \in Int
                          /\ f[l] = WeightBits(c)[l]
      OBVIOUS
    <3>2. l \in Layers /\ c \in DOMAIN mapping[l]
      BY <2>2 DEF Hosts
    <3>3. mapping[l][c] \in Int /\ bits_per_weight[c] \in Int
      BY <2>1, <3>2, TrafficAssumption DEF TrafficInv, TrafficTypeOK
    <3>4. metrics[l].num_weights \in Int
      BY <2>1, <3>2, MetricsTyped DEF TrafficInv
    <3>5. metrics[l].num_weights * mapping[l][c] * bits_per_weight[c] \in Int
      BY <3>3, <3>4
    <3>6. f[l] = WeightBits(c)[l]
      BY <3>2 DEF WeightBits
    <3> QED BY <3>5, <3>6
  <2>8. SumFunction(f) = SumFunctionOnSet(WeightBits(c), Visited(c))
    <3> DEFINE g == WeightBits(c)
    <3>1. DOMAIN f = Hosts(c)
      OBVIOUS
    <3> HIDE DEF f, g
    <3>2. SumFunctionOnSet(f, Hosts(c)) = SumFunctionOnSet(g, Hosts(c))
      BY <2>3, <2>7, SumAgree DEF g
    <3>3. SumFunction(f) = SumFunctionOnSet(f, DOMAIN f)
      BY DEF SumFunction, SumFunctionOnSet, FoldFunction
    <3> QED BY <2>2, <3>1, <3>2, <3>3 DEF g
  <2> HIDE DEF f, S
  <2>9. LET share == SumFunction(f)
            slack == WholeLayer * (bits_per_packet + bits_per_weight[c]) * Cardinality(Hosts(c))
            sent  == WholeLayer * bits_per_packet * Packets(S)
        IN  share - slack <= sent /\ sent <= share + slack
    BY <2>1, <2>2, <2>6, <2>8 DEF TrafficInv, WeightsSoFar
  <2> QED BY <2>9 DEF f, S
<1> QED BY <1>1, TrafficInvariant, PTL
=============================================================================
