------------------------- MODULE MCTrafficCalculator -------------------------
(* Three layers on three compute chiplets of two widths and two I/O chiplets. *)
EXTENDS TrafficCalculator, TLC

\* All of a layer; thirds; a half and a quarter of it, and what is left to map;
\* less than one per cent next to two uneven parts
MCShares == {(1 :> 300), (2 :> 100) @@ (3 :> 200), (1 :> 150) @@ (2 :> 75),
             (1 :> 1) @@ (2 :> 149) @@ (3 :> 150)}
MCMappings == [Layers -> MCShares]
MCBitsPerWeight == (1 :> 4) @@ (2 :> 8) @@ (3 :> 8)
MCIoChiplets == <<4, 5>>
\* Chiplet 2 is as far from either I/O chiplet, chiplet 1 cut off from chiplet 4.
MCPathLength ==
    (<<4, 1>> :> -1) @@ (<<4, 2>> :> 2) @@ (<<4, 3>> :> 3) @@
    (<<5, 1>> :> 1) @@ (<<5, 2>> :> 2) @@ (<<5, 3>> :> 1)
=============================================================================
