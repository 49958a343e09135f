------------------------------- MODULE System -------------------------------
(***************************************************************************)
(* The chiplet array and its capacity accounting: src/src/core/system.py   *)
(* and src/src/core/chiplet.py.                                            *)
(*                                                                         *)
(* Capacity is counted in units: crossbars on an IMC chiplet, single       *)
(* weights on a CMOS chiplet; an I/O chiplet has none.                     *)
(***************************************************************************)
EXTENDS Integers, FiniteSetsExt

CONSTANTS
  NumChiplets,
  Chiplet,   \* specification of each chiplet, from chiplet_params.py
  MaxUnits   \* bound: no chiplet has more capacity units

Chiplets == 1..NumChiplets

\* A chiplet: its units of capacity and, for IMC, the rows and columns of a
\* crossbar and the cells a weight takes (bits_per_weight / bits_per_cell).
ChipletSpec ==
  [type : {"IMC", "CMOS", "IO"}, units : 0..MaxUnits,
   rows : Nat, cols : Nat, cells : Nat \ {0}]

ASSUME SystemAssumption ==
  /\ NumChiplets \in Nat
  /\ MaxUnits \in Nat
  /\ Chiplet \in [Chiplets -> ChipletSpec]

VARIABLE available_units   \* units not held by any active model

\* What any chiplet's availability may legitimately be.
Capacities ==
  {a \in [Chiplets -> 0..MaxUnits] : \A c \in Chiplets : a[c] <= Chiplet[c].units}

IsIOChiplet(c) == Chiplet[c].type = "IO"

SystemInit == available_units = [c \in Chiplets |-> Chiplet[c].units]

----------------------------------------------------------------------------
\* Weights n units of chiplet c can hold (memory_per_crossbar each on IMC).
MemoryOf(c, n) ==
  IF Chiplet[c].type = "CMOS" THEN n
  ELSE (n * Chiplet[c].rows * Chiplet[c].cols) \div Chiplet[c].cells

GetTotalMemory(c) == MemoryOf(c, Chiplet[c].units)

\* A CMOS chiplet reports its whole memory, whatever is allocated on it.
GetAvailableMemory(c) ==
  IF Chiplet[c].type = "CMOS" THEN Chiplet[c].units
  ELSE MemoryOf(c, available_units[c])

\* A model that needs weights passes the two checks of run_simulation.
CanModelEverFit(weights) == weights <= MapThenSumSet(GetTotalMemory, Chiplets)

CanModelFitNow(weights) == weights <= MapThenSumSet(GetAvailableMemory, Chiplets)

\* set_available_capacity_units: out-of-range values are clamped silently.
Clamp(c, n) ==
  IF n < 0 THEN 0 ELSE IF n > Chiplet[c].units THEN Chiplet[c].units ELSE n

UpdateCapacityAvailability(remaining) ==
  available_units' = [c \in Chiplets |-> Clamp(c, remaining[c])]
=============================================================================
