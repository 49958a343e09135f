--------------------------- MODULE GarnetTopology ---------------------------
(***************************************************************************)
(* The network a CHIPSIM run gives to gem5: one router per chiplet, two    *)
(* network interfaces per router (the "CPU" that sends and the "directory" *)
(* that receives) and a pair of links for every 1 of the adjacency matrix. *)
(* The routing tables follow from the link weights: configs/topologies/    *)
(* AnyNET_XY.py sets the weights, mem/ruby/network/Topology.cc finds the   *)
(* shortest paths, garnet/RoutingUnit.cc looks the tables up.              *)
(***************************************************************************)
EXTENDS Integers, FiniteSetsExt

CONSTANTS
    NumRouters,     \* --num-cpus = --num-dirs = number of chiplets
    NumCols,        \* columns of the grid the routers are numbered along
    Connections     \* the directed router pairs of myTopology.yaml

ASSUME TopologyAssumption ==
    /\ NumRouters \in Nat \ {0}
    /\ NumCols \in Nat \ {0}
    /\ Connections \subseteq (0 .. NumRouters - 1) \X (0 .. NumRouters - 1)

Routers == 0 .. NumRouters - 1
NIs     == 0 .. 2 * NumRouters - 1

RouterNode(r) == <<"Router", r>>
NINode(n)     == <<"NI", n>>

\* Interface n hangs off router n % NumRouters, so a chiplet's sender and
\* receiver share a router.
RouterOf(n) == n % NumRouters

(***************************************************************************)
(* Unidirectional channels, each a flit link with a credit link back.      *)
(***************************************************************************)
InjectChannel(n) == <<NINode(n), RouterNode(RouterOf(n))>>
EjectChannel(n)  == <<RouterNode(RouterOf(n)), NINode(n)>>
LinkChannel(l)   == <<RouterNode(l[1]), RouterNode(l[2])>>

Channels == {InjectChannel(n) : n \in NIs} \cup {EjectChannel(n) : n \in NIs}
                \cup {LinkChannel(l) : l \in Connections}

Up(c)   == c[1]
Down(c) == c[2]

Row(r) == r \div NumCols
Col(r) == r % NumCols

\* Mutant: rows and columns weigh the same.
LinkWeightEqual(i, j) == 1

\* AnyNET_XY: links along a column weigh 2, all others 1.
LinkWeight(i, j) == IF Row(i) # Row(j) /\ Col(i) = Col(j) THEN 2 ELSE 1

\* The matrix Topology::createLinks starts from. No path is as long as Infinite.
Infinite == 2 * NumRouters
Direct(i, j) == CASE i = j -> 0
                  [] i # j /\ <<i, j>> \in Connections -> LinkWeight(i, j)
                  [] OTHER -> Infinite

\* Topology::extend_shortest_path repeats this relaxation, shortening what a
\* detour shortens, until nothing changes.
Relax(dist) ==
    [p \in Routers \X Routers |->
       Min({dist[p]} \cup {dist[<<p[1], via>>] + dist[<<via, p[2]>>] : via \in Routers})]

Relaxed[k \in 0 .. NumRouters] ==
    IF k = 0 THEN [p \in Routers \X Routers |-> Direct(p[1], p[2])]
    ELSE LET dist == Relaxed[k - 1]
         IN  IF Relax(dist) = dist THEN dist ELSE Relax(dist)

Distance == Relaxed[NumRouters]

\* A flit without a way to its destination ends the simulation with "No Route
\* exists from this Router"; the networks here have a way from every router.
ASSUME ConnectedAssumption == \A p \in Routers \X Routers : Distance[p] < Infinite

\* Topology::link_is_shortest_path_to_node
OnShortestPath(i, j, dest) ==
    LinkWeight(i, j) + Distance[<<j, dest>>] = Distance[<<i, dest>>]

CandidatesOfSender(r, dest) ==
    LET onPath == {j \in Routers : /\ <<r, j>> \in Connections
                                   /\ OnShortestPath(r, j, RouterOf(dest))}
    IN  IF RouterOf(dest) = r THEN {EjectChannel(RouterOf(dest))}
                              ELSE {LinkChannel(<<r, j>>) : j \in onPath}

\* RoutingUnit::lookupRoutingTable: of the links on a shortest path to the
\* destination, those of least weight; one of them is picked at random. At
\* the destination's router only the interface's own link qualifies.
Candidates(r, dest) ==
    LET onPath == {j \in Routers : /\ <<r, j>> \in Connections
                                   /\ OnShortestPath(r, j, RouterOf(dest))}
        best   == {j \in onPath : \A k \in onPath : LinkWeight(r, j) <= LinkWeight(r, k)}
    IN  IF RouterOf(dest) = r THEN {EjectChannel(dest)}
                              ELSE {LinkChannel(<<r, j>>) : j \in best}
=============================================================================
