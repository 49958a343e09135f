-------------------------- MODULE LayerPartitioner --------------------------
(***************************************************************************)
(* Splitting the output channels of a layer over the chiplets it is mapped *)
(* to: src/src/mapping/layer_partitioner.py.  Conv, self-attention and     *)
(* fully connected layers are all split along output_channels, so the      *)
(* layer type plays no part.  A chunk is its number of output channels.    *)
(*                                                                         *)
(* Shares are whole multiples of 1/Whole of the layer.  A layer that       *)
(* leaves some weights unallocated (ModelMapper's Slack) has shares that   *)
(* add up to less than Whole, and may have none at all.                    *)
(***************************************************************************)
EXTENDS Integers, Sequences, Functions

CONSTANTS
  Whole,         \* 100 per cent
  MaxChannels,   \* bound: output_channels of the layer
  MaxChunks      \* bound: chiplets the layer is mapped to

ASSUME PartitionAssumption ==
  Whole \in Nat \ {0} /\ MaxChannels \in Nat \ {0} /\ MaxChunks \in Nat

VARIABLES
  channels,   \* output_channels of the layer
  shares,     \* percentage of each chiplet it is mapped to
  chunks,     \* output_channels of each chunk
  excess,     \* channels still to be taken away: -remaining_difference
  others,     \* chunks they may still be taken from
  stage

partitionVars == <<channels, shares, chunks, excess, others, stage>>

\* The mappings generate_mapping can return for a layer.
LayerMappings ==
  {s \in UNION {[1..n -> 1..Whole] : n \in 0..MaxChunks} : SumFunction(s) <= Whole}

PartitionInit ==
  /\ channels \in 1..MaxChannels
  /\ shares \in LayerMappings
  /\ chunks = <<>> /\ excess = 0 /\ others = {}
  /\ stage = "scale"

OneOrMore(n) == IF n < 1 THEN 1 ELSE n

\* Python's round(a / b): half goes to the even neighbour.
Round(a, b) ==
  LET down == a \div b
      rest == 2 * (a % b)
  IN  IF rest < b \/ (rest = b /\ down % 2 = 0) THEN down ELSE down + 1

\* Mutant: the layer is split evenly, whatever the shares.
SplitEvenly == [k \in DOMAIN shares |-> OneOrMore(Round(channels, Len(shares)))]

\* The chunks before adjustment.
Scaled == [k \in DOMAIN shares |-> OneOrMore(Round(channels * shares[k], Whole))]

ScaleChunks ==
  /\ stage = "scale"
  /\ chunks' = Scaled
  /\ stage' = "adjust"
  /\ UNCHANGED <<channels, shares, excess, others>>

Difference == channels - SumFunction(chunks)

KeepChunks ==
  /\ stage = "adjust"
  /\ Difference = 0
  /\ stage' = "done"
  /\ UNCHANGED <<channels, shares, chunks, excess, others>>

FirstSmallest ==
  CHOOSE k \in DOMAIN chunks : \A j \in DOMAIN chunks :
    chunks[k] < chunks[j] \/ (chunks[k] = chunks[j] /\ k <= j)

\* The largest of some chunks, the first if there are several.
IsLargest(k, K) ==
  \A j \in K : chunks[k] > chunks[j] \/ (chunks[k] = chunks[j] /\ k <= j)

\* _handle_too_few_case
IncreaseSmallest ==
  /\ stage = "adjust"
  /\ Difference > 0
  /\ chunks' = IF chunks = <<>> THEN chunks
               ELSE [chunks EXCEPT ![FirstSmallest] = @ + Difference]
  /\ stage' = "done"
  /\ UNCHANGED <<channels, shares, excess, others>>

\* _handle_too_many_case
ReduceLargest(k) ==
  LET left == OneOrMore(chunks[k] + Difference)
  IN  /\ stage = "adjust"
      /\ Difference < 0
      /\ IsLargest(k, DOMAIN chunks)
      /\ chunks' = [chunks EXCEPT ![k] = left]
      /\ excess' = (left - chunks[k]) - Difference
      /\ others' = DOMAIN chunks \ {k}
      /\ stage' = "distribute"
      /\ UNCHANGED <<channels, shares>>

\* Mutant: what the largest chunk cannot give up is forgotten.
ForgetExcess(k) == 0

\* can_reduce: one channel stays.
CanReduce(k) == IF chunks[k] - 1 < excess THEN chunks[k] - 1 ELSE excess

\* One turn of the loop of _distribute_remaining_difference
ReduceNext(k) ==
  /\ stage = "distribute" /\ excess > 0
  /\ IsLargest(k, others)
  /\ chunks' = [chunks EXCEPT ![k] = @ - CanReduce(k)]
  /\ excess' = excess - CanReduce(k)
  /\ others' = others \ {k}
  /\ UNCHANGED <<channels, shares, stage>>

EndReduction ==
  /\ stage = "distribute" /\ (excess = 0 \/ others = {})
  /\ stage' = "done"
  /\ UNCHANGED <<channels, shares, chunks, excess, others>>

\* partition_layer has returned.
Returned == stage = "done" /\ UNCHANGED partitionVars

PartitionNext ==
  \/ ScaleChunks \/ KeepChunks \/ IncreaseSmallest
  \/ \E k \in DOMAIN chunks : ReduceLargest(k)
  \/ \E k \in others : ReduceNext(k)
  \/ EndReduction \/ Returned

PartitionSpec == PartitionInit /\ [][PartitionNext]_partitionVars

----------------------------------------------------------------------------
\* The chunks of a layer with at least as many channels as chunks make up the
\* layer exactly, and none of them is empty.
ChunksMakeUpTheLayer ==
  stage = "done" /\ Len(shares) \in 1..channels =>
    SumFunction(chunks) = channels /\ \A k \in DOMAIN chunks : chunks[k] >= 1

\* Adjustment moves no chunk far: when the whole layer was mapped, a chunk
\* differs from its exact share by less than one channel per chunk.
ChunksStayCloseToShares ==
  stage = "done" /\ Len(shares) \in 1..channels /\ SumFunction(shares) = Whole =>
    \A k \in DOMAIN chunks :
      LET off == chunks[k] * Whole - channels * shares[k]
      IN  off < Len(shares) * Whole /\ -off < Len(shares) * Whole

\* The final verification never finds a sum that differs from the original.
VerificationNeverWarns == stage = "done" => SumFunction(chunks) = channels
=============================================================================
