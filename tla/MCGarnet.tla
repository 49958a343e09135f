------------------------------ MODULE MCGarnet ------------------------------
(***************************************************************************)
(* Small networks for Garnet: square meshes as the shipped 10x10 one, and  *)
(* a cycle through all routers of a 4x4 grid as the shipped Floret file.   *)
(***************************************************************************)
EXTENDS Garnet, Sequences

CONSTANT Side       \* routers per row and column

GridRouters == 0 .. Side * Side - 1

Mesh == {l \in GridRouters \X GridRouters :
           \/ l[1] \div Side = l[2] \div Side /\ l[1] - l[2] \in {-1, 1}
           \/ l[1] % Side = l[2] % Side /\ l[1] - l[2] \in {-Side, Side}}

\* a closed path over the 4x4 grid
Cycle == <<0, 1, 2, 3, 7, 6, 5, 9, 10, 11, 15, 14, 13, 12, 8, 4>>
Ring == UNION {{<<Cycle[i], Cycle[(i % 16) + 1]>>, <<Cycle[(i % 16) + 1], Cycle[i]>>} : i \in 1 .. 16}

\* Sends of chiplet s to chiplet d: from sender s to receiver d.
Line(s, d, k) == [src |-> s, dest |-> Side * Side + d, flits |-> k]

\* A trace of these lines; a line without flits is as good as none.
TraceOf(lines) == [i \in 1 .. MaxRecords |->
                     IF i <= Len(lines) THEN lines[i] ELSE Line(0, 1, 0)]

\* the four chiplets of a corner, and all their ways to send two lines at once
Corner == <<0, 1, Side, Side + 1>>
CornerLines == {Line(Corner[i], Corner[j], MaxFlits) : i \in 1 .. 4, j \in 1 .. 4} \ 
               {Line(Corner[i], Corner[i], MaxFlits) : i \in 1 .. 4}
TwoLines == {TraceOf(<<a, b>>) : a, b \in CornerLines}

\* all chiplets send at once, each to the one d further on ...
Shifted == {TraceOf([i \in 1 .. Side * Side |-> Line(i - 1, (i - 1 + d) % (Side * Side), k)]) :
              d \in 1 .. Side * Side - 1, k \in 1 .. MaxFlits}

\* ... or one flit each to the chiplet in the middle
HotSpot == LET middle == (Side * Side) \div 2
           IN  {TraceOf([i \in 1 .. Side * Side |->
                           Line(i - 1, middle, IF i - 1 = middle THEN 0 ELSE 1)])}

\* the chiplets of the corner send across it, one of them two flits
Across == {TraceOf([i \in 1 .. 4 |-> Line(Corner[i], Corner[5 - i], IF i = 1 THEN 2 ELSE 1)])}

MeshTraces == TwoLines \cup Shifted \cup HotSpot \cup Across

\* all chiplets send two hops along the cycle
TwoHops == {[i \in 1 .. 16 |-> Line(Cycle[i], Cycle[((i + 1) % 16) + 1], 1)]}
=============================================================================
