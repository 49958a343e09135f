--------------------------- MODULE GarnetDelivery ---------------------------
(***************************************************************************)
(* What CHIPSIM relies on when it replays a trace in gem5: every flit goes *)
(* from its source into the network and from there, once, to the interface *)
(* its trace line names, and the run is only called complete when nothing  *)
(* is left on the way. Garnet implements this with links, VCs and credits. *)
(***************************************************************************)
CONSTANTS
    Flit,           \* the flits of all trace lines
    Interface       \* the network interfaces

VARIABLES
    dest,           \* the interface each flit is addressed to
    place,          \* where each flit is
    outcome

AtSource  == <<"source">>
InNetwork == <<"network">>
Left      == <<"left out">>               \* not part of the trace being replayed

Init == /\ dest \in [Flit -> Interface]
        /\ place \in [Flit -> {AtSource, Left}]
        /\ outcome = "running"

\* In one step a flit stays, enters the network, or is delivered.
Moves(f) ==
    \/ place'[f] = place[f]
    \/ place[f] = AtSource /\ place'[f] = InNetwork
    \/ place[f] = InNetwork /\ place'[f] = dest[f]

Arrived == \A f \in Flit : place[f] \in {Left, dest[f]}

\* The last arrival ends the run; an interface may give up before.
Next == /\ outcome = "running"
        /\ \A f \in Flit : Moves(f)
        /\ \/ outcome' = "complete" /\ Arrived'
           \/ outcome' = "running" /\ ~Arrived'
           \/ outcome' = "panicked"
        /\ UNCHANGED dest

Spec == Init /\ [][Next]_<<dest, place, outcome>>
=============================================================================
