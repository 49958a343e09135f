---------------------- MODULE MCCommunicationSimulator ----------------------
(* Requests for CommunicationSimulator. *)
EXTENDS CommunicationSimulator, TLC

CONSTANTS p1, p2

\* two phases in two stages of completion, and one of them with all their traffic
TwoStages == {(p1 :> 1) @@ (p2 :> 2), (p1 :> 2) @@ (p2 :> 1), (p1 :> 3)}
=============================================================================
