-------------------------- MODULE MCPhaseExecution --------------------------
(***************************************************************************)
(* PhaseExecution with a simulator that answers, and with one that may     *)
(* leave phases out or fail.                                               *)
(***************************************************************************)
EXTENDS PhaseExecution

\* The latencies a simulator reports.  (A phase it reports zero for stays not
\* simulated, like one an unreliable simulator leaves out.)
SomeLatencies == [reliable \in BOOLEAN |-> IF reliable THEN {1, 5} ELSE {3}]

\* Compute times that are no multiple of the time step.  The first model's second
\* layer takes no time; the second model's takes so much longer than its first
\* that a later input catches up with the one before it.
UnevenLatency == [m \in Models |-> [l \in Layers |-> IF l = 0 THEN 3 ELSE (m - 1) * 11]]

\* The second model's activations stay on one chiplet; the second layers have
\* no weights of their own to move.
SomeSilent == {<<2, Activation(l)>> : l \in Layers} \cup (Models \X {Weight(1)})

\* The simulator works in all configurations, and is unreliable in the one in
\* which the most happens at once.
AllModes == {x \in ModeSpace : x.reliable \/ (x.pipelined /\ x.just_in_time /\ ~x.stationary)}
ReliableModes == {x \in AllModes : x.reliable}
=============================================================================
