----------------------- MODULE MCWorkloadManagerList -----------------------
(***************************************************************************)
(* A workload file whose rows are neither sorted by time nor by index.     *)
(***************************************************************************)
EXTENDS WorkloadManagerList

UnsortedRows ==
  <<[idx |-> 7, time |-> 1], [idx |-> 3, time |-> 0], [idx |-> 5, time |-> 1],
    [idx |-> 2, time |-> 0], [idx |-> 4, time |-> 2]>>
=============================================================================
