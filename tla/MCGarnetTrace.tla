---------------------------- MODULE MCGarnetTrace ----------------------------
(* Requests for GarnetTrace: chiplet numbers and keys are those of real runs. *)
EXTENDS GarnetTrace

\* one or two active phases of different keys
OneOrTwo == {<<[key |-> k, traffic |-> m]>> : k \in Keys, m \in Matrix}
              \cup {<<[key |-> k, traffic |-> m], [key |-> l, traffic |-> n]>> :
                      k \in {x \in Keys : x[1] = 0}, l \in {x \in Keys : x[1] # 0}, m, n \in Matrix}

\* traffic both ways between two chiplets
Corners  == {<<0, 99>>, <<99, 0>>}
Neighbours == {<<0, 1>>, <<1, 0>>}

\* a model's first phase, and a phase at the limits of the statistics
InLimits == {<<0, 0, 1>>, <<19, 19, 499>>}

\* the twenty-first model of workload_1rate_25us_25-25.csv
PastLimits == {<<0, 0, 1>>, <<20, 0, 1>>}
=============================================================================
