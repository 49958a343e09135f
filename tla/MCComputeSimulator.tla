------------------------- MODULE MCComputeSimulator -------------------------
(* Chiplet types and chunks for ComputeSimulator. *)
EXTENDS ComputeSimulator, TLC

\* Two chunks of 10 and 10.25 MACs that print alike, and one of 7 MACs.
SomeChunks ==
    {[yaml |-> "one", description |-> "fc", macs |-> 40, percentage |-> 33333],
     [yaml |-> "two", description |-> "fc", macs |-> 41, percentage |-> 33331],
     [yaml |-> "two", description |-> "fc", macs |-> 28, percentage |-> 25000]}

KindOf == ("CMOS_A" :> "CMOS") @@ ("CMOS_B" :> "CMOS") @@ ("IMC_A" :> "IMC") @@ ("IO" :> "IO")
=============================================================================
