---------------------------- MODULE ModelMapper ----------------------------
(***************************************************************************)
(* Placing a model's layers on chiplets: src/src/mapping/model_mapper.py.  *)
(*                                                                         *)
(* Percentages are whole multiples of 1/Whole of a layer.  The code        *)
(* computes them in floating point; here they are exact wherever a layer's *)
(* requirement divides Whole.                                              *)
(***************************************************************************)
EXTENDS System, SequencesExt

CONSTANTS
  Distance,         \* Distance[c][d]: links on a shortest path
  Metric,           \* the preferred node metric of each chiplet
  Allowed,          \* preference["allowed_chiplet_ids"], {} when absent
  PreferredStart,   \* preference["preferred_start_chiplet_id"], 0 when absent
  Whole             \* 100 per cent

ASSUME MapperAssumption ==
  /\ Distance \in [Chiplets -> [Chiplets -> Int]] /\ Metric \in [Chiplets -> Int]
  /\ Allowed \subseteq Chiplets /\ Whole \in Nat \ {0}
  /\ \A c \in Chiplets : Chiplet[c].type = "IMC" => Chiplet[c].rows > 0 /\ Chiplet[c].cols > 0

\* Weights a layer may leave unallocated and still count as mapped.
Slack == 10

\* Mutant: requirements are rounded down.
FloorDiv(a, b) == a \div b

CeilDiv(a, b) == (a + b - 1) \div b

\* A layer: its type, and rows x cols of the weight matrix (filter size by
\* output channels, in by out features, or inner by output dimension).
CrossbarsRequired(layer) == layer.rows * layer.cols

\* _calculate_layer_requirements: units that chiplet c needs for all of layer.
LayerUnits(layer, c) ==
  LET r  == IF layer.type = "self_attention" THEN layer.cols ELSE layer.rows
      ch == Chiplet[c]
  IN  IF layer.type \notin {"conv", "fc", "self_attention"} THEN 0
      ELSE IF ch.type = "CMOS" THEN r * layer.cols
      ELSE CeilDiv(layer.cols * ch.cells, ch.cols) * CeilDiv(r, ch.rows)

----------------------------------------------------------------------------
\* An empty list of allowed chiplets restricts nothing.
Permitted == IF Allowed = {} THEN Chiplets ELSE Allowed

\* Mutant: allowed_chiplet_ids is ignored.
CandidatesAnywhere(cap) == {c \in Chiplets : cap[c] > 0 /\ ~IsIOChiplet(c)}

\* Chiplets a layer may go to when cap units remain.
Candidates(cap) == {c \in Permitted : cap[c] > 0 /\ ~IsIOChiplet(c)}

UnitSize(c) == IF Chiplet[c].type = "CMOS" THEN 1 ELSE MemoryOf(c, 1)

\* Lexicographic comparison of sort keys (tuples of integers of one length).
KeyLess(k, l) ==
  \E i \in DOMAIN k : k[i] < l[i] /\ \A j \in 1..(i - 1) : k[j] = l[j]

\* Most available memory first, then the better metric, then the lower id.
StartingChiplet(cap) ==
  LET Key(c) == <<-(cap[c] * UnitSize(c)), -Metric[c], c>>
  IN  IF PreferredStart \in Candidates(cap) THEN PreferredStart
      ELSE CHOOSE c \in Candidates(cap) :
             \A d \in Candidates(cap) \ {c} : KeyLess(Key(c), Key(d))

\* The last of S by distance from start, then available memory, then metric.
Farthest(start, cap, S) ==
  LET Key(c) == <<Distance[start][c], -(cap[c] * UnitSize(c)), -Metric[c], c>>
  IN  CHOOSE c \in S : \A d \in S \ {c} : KeyLess(Key(d), Key(c))

\* The chiplet that holds most of the previous layer (the first such).
LargestShare(action) ==
  CHOOSE c \in Chiplets : \A d \in Chiplets \ {c} : KeyLess(<<-action[c], c>>, <<-action[d], d>>)

\* Mutant: a partial allocation does not lower the percentage that remains.
AllocateTwice(layer, acc, c) ==
  LET full   == LayerUnits(layer, c)
      needed == CeilDiv(acc.resources * full, CrossbarsRequired(layer))
  IN  IF acc.resources <= 0 \/ acc.cap[c] <= 0 \/ full <= 0 THEN acc
      ELSE IF acc.cap[c] >= needed
        THEN [acc EXCEPT !.cap[c] = @ - needed, !.resources = 0, !.action[c] = acc.percentage]
        ELSE [acc EXCEPT !.cap[c] = 0, !.action[c] = (acc.cap[c] * Whole) \div full,
                         !.resources = @ - CeilDiv(acc.cap[c] * CrossbarsRequired(layer), full)]

\* One turn of the allocation loop: give chiplet c what it can take.
AllocateOn(layer, acc, c) ==
  LET required == CrossbarsRequired(layer)
      full     == LayerUnits(layer, c)
      avail    == acc.cap[c]
      needed   == CeilDiv(acc.resources * full, required)
      share    == (avail * Whole) \div full
  IN  IF acc.resources <= 0 \/ avail <= 0 \/ full <= 0 THEN acc
      ELSE IF avail >= needed
        THEN [cap |-> [acc.cap EXCEPT ![c] = avail - needed],
              resources |-> 0, percentage |-> 0,
              action |-> [acc.action EXCEPT ![c] = @ + acc.percentage]]
        ELSE [cap |-> [acc.cap EXCEPT ![c] = 0],
              resources |-> acc.resources - CeilDiv(avail * required, full),
              percentage |-> acc.percentage - share,
              action |-> [acc.action EXCEPT ![c] = @ + share]]

\* Before the first turn
Unplaced(layer, cap) ==
  [cap |-> cap, resources |-> CrossbarsRequired(layer),
   percentage |-> Whole, action |-> [c \in Chiplets |-> 0]]

\* The candidates have their turns by distance: each after all that are nearer.
Allocate(layer, cap, start) ==
  MapThenFoldSet(LAMBDA c, acc : AllocateOn(layer, acc, c), Unplaced(layer, cap),
                 LAMBDA c : c, LAMBDA S : Farthest(start, cap, S), Candidates(cap))

----------------------------------------------------------------------------
\* The result of mapping a layer or a model.
Failed(outcome, cap) == [outcome |-> outcome, cap |-> cap, actions |-> <<>>]

\* _nearest_neighbor_mapper_v3, after the layers whose actions are given.
\* max() of an empty previous mapping raises: the outcome is then fatal.
MapLayer(layer, cap, actions) ==
  LET first == actions = <<>>
      start == IF first THEN StartingChiplet(cap) ELSE LargestShare(Last(actions))
      got   == Allocate(layer, cap, start)
  IN  IF first /\ Candidates(cap) = {} THEN Failed("postponed", cap)
      ELSE IF ~first /\ \A c \in Chiplets : Last(actions)[c] = 0
        THEN Failed("fatal", cap)
      ELSE IF got.resources - Slack > 0 THEN Failed("postponed", got.cap)
      ELSE [outcome |-> "mapped", cap |-> got.cap, actions |-> Append(actions, got.action)]

\* generate_mapping works on a copy in which I/O chiplets offer nothing.
WithoutIO(cap) == [c \in Chiplets |-> IF IsIOChiplet(c) THEN 0 ELSE cap[c]]

MapAllLayers(cap, layers) ==
  FoldLeft(LAMBDA acc, layer : IF acc.outcome = "mapped"
                                 THEN MapLayer(layer, acc.cap, acc.actions) ELSE acc,
           [outcome |-> "mapped", cap |-> WithoutIO(cap), actions |-> <<>>], layers)
=============================================================================
