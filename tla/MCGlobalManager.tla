-------------------------- MODULE MCGlobalManager --------------------------
(***************************************************************************)
(* GlobalManager with the nearest-neighbour mapper of ModelMapper, on      *)
(* small arrays and workloads.                                             *)
(***************************************************************************)
EXTENDS GlobalManager, ModelMapper

CONSTANT ModelLayers   \* the layers of each workload entry

\* generate_mapping with the deterministic mapper has one result; the results
\* are tabulated, as TLC would otherwise compute them again in every state.
Mapped == {<<a, m, MapAllLayers(a, ModelLayers[m])>> : a \in Capacities, m \in Models}
MapWithNearestNeighbour(a, m) == {t[3] : t \in {u \in Mapped : u[1] = a /\ u[2] = m}}

WeightsOf(layers) == FoldLeft(LAMBDA n, layer : n + CrossbarsRequired(layer), 0, layers)
LayerWeights == [m \in Models |-> WeightsOf(ModelLayers[m])]

Fc(r, c) == [type |-> "fc", rows |-> r, cols |-> c]
AllModels == Models
SameMetric == [c \in Chiplets |-> 0]
Line == [c \in Chiplets |-> [d \in Chiplets |-> IF c < d THEN d - c ELSE c - d]]

IMC(n) == [type |-> "IMC", units |-> n, rows |-> 8, cols |-> 8, cells |-> 2]
CMOS(n) == [type |-> "CMOS", units |-> n, rows |-> 0, cols |-> 0, cells |-> 1]
IO == [type |-> "IO", units |-> 0, rows |-> 0, cols |-> 0, cells |-> 1]

\* Three crossbars of 32 weights and 6 CMOS weights.  The second model needs
\* all crossbars, so it waits while younger, smaller ones slip past until it blocks
\* them.  The last has three tiny layers: next to the second model one of them
\* ends up on no chiplet, and mapping the one after it raises.
MixedArray == <<IMC(2), IMC(1), CMOS(6)>>
FiveModels == <<<<Fc(8, 8)>>, <<Fc(2, 12), Fc(1, 4)>>, <<Fc(8, 4)>>, <<Fc(8, 4)>>,
                <<Fc(1, 2), Fc(1, 2), Fc(1, 2)>>>>
FiveTimes == <<0, 0, 0, 1, 1>>

\* Three crossbars and an I/O chiplet.
CrossbarArray == <<IMC(2), IMC(1), IO>>

\* CMOS only: the second model is looked at while the first one holds units.
CmosArray == <<CMOS(24), CMOS(12)>>
CmosModels == <<<<Fc(4, 6)>>, <<Fc(4, 6)>>>>
CmosTimes == <<0, 0>>

\* A Conv1D layer as ModelProcessor describes it.
Conv1d(r, c) == [type |-> "conv1d", rows |-> r, cols |-> c]
Conv1dModels == <<<<Fc(8, 4)>>, <<Conv1d(8, 4)>>>>
=============================================================================
