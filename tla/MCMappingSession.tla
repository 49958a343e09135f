-------------------------- MODULE MCMappingSession --------------------------
(***************************************************************************)
(* Sessions on an array of crossbar, CMOS and I/O chiplets in a line, one  *)
(* compute chiplet of which the preferences leave out.                     *)
(***************************************************************************)
EXTENDS MappingSession

IMC(n) == [type |-> "IMC", units |-> n, rows |-> 8, cols |-> 8, cells |-> 2]
CMOS(n) == [type |-> "CMOS", units |-> n, rows |-> 0, cols |-> 0, cells |-> 1]
IO == [type |-> "IO", units |-> 0, rows |-> 0, cols |-> 0, cells |-> 1]

MixedLine == <<IMC(3), IO, CMOS(20), IMC(2), IMC(1)>>
NotTheLast == Chiplets \ {5}
Line == [c \in Chiplets |-> [d \in Chiplets |-> IF c < d THEN d - c ELSE c - d]]
SameMetric == [c \in Chiplets |-> 0]

FewLayers ==
  {[type |-> "fc", rows |-> 8, cols |-> 8], [type |-> "conv", rows |-> 12, cols |-> 5],
   [type |-> "self_attention", rows |-> 4, cols |-> 6], [type |-> "fc", rows |-> 2, cols |-> 4]}
=============================================================================
