------------------------ MODULE GlobalManagerProofs ------------------------
(***************************************************************************)
(* Invariants of the simulation loop, proved for every workload, array,    *)
(* threshold and mapping function that meets MappingAssumption, and of the *)
(* nearest-neighbour mapper, proved for every array, distance and metric;  *)
(* the last theorem shows that the mapper meets that assumption.           *)
(***************************************************************************)
EXTENDS GlobalManager, MappingSession, SumTheorems, SequenceTheorems

----------------------------------------------------------------------------
(* Sums.  SumsTo is defined by running totals, so that changing one number *)
(* shifts the totals from that number on.                                  *)

\* The running totals of natural numbers never decrease.
LEMMA TotalsGrow ==
  ASSUME NEW N \in Nat, NEW p \in [0..N -> Nat], NEW f \in [1..N -> Nat],
         \A n \in 1..N : p[n] = p[n - 1] + f[n],
         NEW i \in 0..N, NEW j \in 0..N, i <= j
  PROVE  p[i] <= p[j]
<1> DEFINE T == {n \in 0..N : i <= n /\ p[n] < p[i]}
<1> SUFFICES ASSUME p[j] < p[i] PROVE FALSE
  OBVIOUS
<1>0. T # {}
  OBVIOUS
<1>1. PICK x \in T : \A y \in T : x <= y
  <2>1. T \in SUBSET Nat
    OBVIOUS
  <2> HIDE DEF T
  <2>2. QED
    BY <1>0, <2>1, LeastElement
<1>2. x \in 1..N /\ x - 1 \in 0..N /\ i <= x - 1
  OBVIOUS
<1>3. p[x - 1] >= p[i]
  BY <1>1, <1>2
<1>4. QED
  BY <1>2, <1>3

\* A number that was zero becomes k: the sum grows by k.
LEMMA SumAfterGrant ==
  ASSUME NumModels \in Nat,
         NEW f \in [Models -> Nat], NEW s \in Nat, SumsTo(f, s),
         NEW m \in Models, f[m] = 0, NEW k \in Nat,
         NEW g \in [Models -> Nat],
         g = [f EXCEPT ![m] = k]
  PROVE  SumsTo(g, s + k)
<1>1. PICK p \in [0..NumModels -> 0..s] :
        /\ p[0] = 0 /\ p[NumModels] = s
        /\ \A n \in Models : p[n] = p[n - 1] + f[n]
  BY DEF SumsTo
<1> DEFINE q == [n \in 0..NumModels |-> IF n < m THEN p[n] ELSE p[n] + k]
<1>2. q \in [0..NumModels -> 0..(s + k)]
  BY SMTT(40) DEF Models
<1>3. q[0] = 0 /\ q[NumModels] = s + k
  BY <1>1 DEF Models
<1>4. ASSUME NEW n \in Models PROVE q[n] = q[n - 1] + g[n]
  <2>1. n \in 0..NumModels /\ n - 1 \in 0..NumModels /\ p[n] = p[n - 1] + f[n]
    BY <1>1 DEF Models
  <2>2. CASE n < m
    BY <2>1, <2>2 DEF Models
  <2>3. CASE n = m
    BY <2>1, <2>3 DEF Models
  <2>4. CASE n > m
    BY <2>1, <2>4 DEF Models
  <2>5. QED
    BY <2>2, <2>3, <2>4 DEF Models
<1>5. QED
  BY <1>2, <1>3, <1>4 DEF SumsTo

\* A number becomes zero: it is at most the sum, and the sum shrinks by it.
LEMMA SumAfterRelease ==
  ASSUME NumModels \in Nat,
         NEW f \in [Models -> Nat], NEW s \in Nat, SumsTo(f, s),
         NEW m \in Models,
         NEW g \in [Models -> Nat],
         g = [f EXCEPT ![m] = 0]
  PROVE  f[m] <= s /\ SumsTo(g, s - f[m])
<1>1. PICK p \in [0..NumModels -> 0..s] :
        /\ p[0] = 0 /\ p[NumModels] = s
        /\ \A n \in Models : p[n] = p[n - 1] + f[n]
  BY DEF SumsTo
<1> DEFINE k == f[m]
           q == [n \in 0..NumModels |-> IF n < m THEN p[n] ELSE p[n] - k]
<1>2. \A i, j \in 0..NumModels : i <= j => p[i] <= p[j]
  <2>1. p \in [0..NumModels -> Nat]
    OBVIOUS
  <2>2. QED
    BY <1>1, <2>1, TotalsGrow DEF Models
<1>3. m - 1 \in 0..NumModels /\ m \in 0..NumModels /\ p[m] = p[m - 1] + k
  BY <1>1 DEF Models
<1>4. k \in Nat /\ k <= s
  BY <1>3 DEF Models
<1>5. ASSUME NEW n \in 0..NumModels PROVE q[n] \in 0..(s - k)
  <2>1. CASE n < m
    <3>1. p[n] <= p[m - 1]
      BY <1>2, <1>3, <2>1 DEF Models
    <3>2. QED
      BY <1>3, <1>4, <2>1, <3>1
  <2>2. CASE n >= m
    <3>1. p[m] <= p[n]
      BY <1>2, <1>3, <2>2 DEF Models
    <3>2. QED
      BY <1>3, <1>4, <2>2, <3>1 DEF Models
  <2>3. QED
    BY <2>1, <2>2 DEF Models
<1>6. q \in [0..NumModels -> 0..(s - k)]
  BY <1>5
<1>7. q[0] = 0 /\ q[NumModels] = s - k
  BY <1>1 DEF Models
<1>8. ASSUME NEW n \in Models PROVE q[n] = q[n - 1] + g[n]
  <2>1. n \in 0..NumModels /\ n - 1 \in 0..NumModels /\ p[n] = p[n - 1] + f[n]
    BY <1>1 DEF Models
  <2>2. CASE n < m
    BY <2>1, <2>2 DEF Models
  <2>3. CASE n = m
    BY <2>1, <2>3 DEF Models
  <2>4. CASE n > m
    BY <2>1, <2>4 DEF Models
  <2>5. QED
    BY <2>2, <2>3, <2>4 DEF Models
<1>9. QED
  BY <1>4, <1>6, <1>7, <1>8 DEF SumsTo

\* Zeros add up to zero, and to nothing else.
LEMMA SumOfZeros ==
  ASSUME NumModels \in Nat, NEW s \in Nat
  PROVE  SumsTo([m \in Models |-> 0], s) <=> s = 0
<1> DEFINE z == [m \in Models |-> 0]
<1>1. ASSUME SumsTo(z, s) PROVE s = 0
  <2>1. PICK p \in [0..NumModels -> 0..s] :
          /\ p[0] = 0 /\ p[NumModels] = s
          /\ \A n \in Models : p[n] = p[n - 1] + z[n]
    BY <1>1 DEF SumsTo
  <2> DEFINE T == {n \in 0..NumModels : p[n] # 0}
  <2> SUFFICES ASSUME T # {} PROVE FALSE
    BY <2>1
  <2>2. PICK x \in T : \A y \in T : x <= y
    <3>1. T \in SUBSET Nat
      OBVIOUS
    <3> HIDE DEF T
    <3>2. QED
      BY <3>1, LeastElement
  <2>3. x \in Models /\ x - 1 \in 0..NumModels
    BY <2>1 DEF Models
  <2>4. p[x - 1] = 0
    BY <2>2, <2>3
  <2>5. QED
    BY <2>1, <2>3, <2>4
<1>2. SumsTo(z, 0)
  <2> DEFINE p == [n \in 0..NumModels |-> 0]
  <2>1. p \in [0..NumModels -> 0..0] /\ p[0] = 0 /\ p[NumModels] = 0
    OBVIOUS
  <2>2. \A n \in Models : p[n] = p[n - 1] + z[n]
    BY DEF Models
  <2>3. QED
    BY <2>1, <2>2 DEF SumsTo
<1>3. QED
  BY <1>1, <1>2

----------------------------------------------------------------------------
(* Capacity arithmetic. *)

\* Clamping lands within the chiplet's units, and leaves such values alone.
LEMMA ClampRange ==
  ASSUME NEW c \in Chiplets, NEW n \in Int
  PROVE  /\ Clamp(c, n) \in 0..MaxUnits
         /\ Clamp(c, n) <= Chiplet[c].units
         /\ n \in 0..Chiplet[c].units => Clamp(c, n) = n
BY SystemAssumption DEF Clamp, ChipletSpec

\* Whatever is stored through update_capacity_availability is a capacity.
LEMMA UpdateIsCapacity ==
  ASSUME NEW remaining \in [Chiplets -> Int], UpdateCapacityAvailability(remaining)
  PROVE  available_units' \in Capacities
<1>1. \A c \in Chiplets : remaining[c] \in Int
  OBVIOUS
<1>2. \A c \in Chiplets : /\ Clamp(c, remaining[c]) \in 0..MaxUnits
                         /\ Clamp(c, remaining[c]) <= Chiplet[c].units
  BY <1>1, ClampRange
<1>3. available_units' = [c \in Chiplets |-> Clamp(c, remaining[c])]
  BY DEF UpdateCapacityAvailability
<1>4. QED
  BY <1>2, <1>3 DEF Capacities

\* What a mapping takes is a capacity, and nothing is clamped when it commits.
LEMMA MappingTakes ==
  ASSUME available_units \in Capacities, NEW m \in Models,
         NEW r \in GenerateMapping(available_units, m), r.outcome = "mapped"
  PROVE  /\ r.cap \in Capacities
         /\ \A c \in Chiplets : r.cap[c] <= available_units[c]
         /\ [c \in Chiplets |-> available_units[c] - r.cap[c]] \in Capacities
         /\ UpdateCapacityAvailability(r.cap) => available_units' = r.cap
<1>1. r.cap \in Capacities /\ \A c \in Chiplets : r.cap[c] <= available_units[c]
  BY MappingAssumption
<1>2. [c \in Chiplets |-> available_units[c] - r.cap[c]] \in Capacities
  <2>1. ASSUME NEW c \in Chiplets
        PROVE  /\ available_units[c] - r.cap[c] \in 0..MaxUnits
               /\ available_units[c] - r.cap[c] <= Chiplet[c].units
    BY <1>1, SystemAssumption DEF Capacities, ChipletSpec
  <2>2. QED
    BY <2>1 DEF Capacities
<1>3. UpdateCapacityAvailability(r.cap) => available_units' = r.cap
  <2>1. \A c \in Chiplets : r.cap[c] \in 0..Chiplet[c].units
    BY <1>1, SystemAssumption DEF Capacities, ChipletSpec
  <2>2. \A c \in Chiplets : Clamp(c, r.cap[c]) = r.cap[c]
    BY <2>1, ClampRange
  <2>3. r.cap = [c \in Chiplets |-> r.cap[c]]
    BY <1>1 DEF Capacities
  <2>4. QED
    BY <2>2, <2>3 DEF UpdateCapacityAvailability
<1>4. QED
  BY <1>1, <1>2, <1>3

----------------------------------------------------------------------------
(* Type correctness. *)

\* The initial state is well typed.
LEMMA InitTypeOK == Init => TypeOK
<1> SUFFICES ASSUME Init PROVE TypeOK
  OBVIOUS
<1>1. available_units \in Capacities
  BY SystemAssumption DEF Init, SystemInit, Capacities, ChipletSpec
<1>2. Nothing \in Capacities
  BY SystemAssumption DEF Nothing, Capacities, ChipletSpec
<1>3. QED
  BY <1>1, <1>2, AgeAssumption
  DEF Init, TypeOK, WorkloadInit, WorkloadTypeOK, Stages

\* Every step of run_simulation keeps the types, given the mapper's contract.
LEMMA NextTypeOK == TypeOK /\ [Next]_vars => TypeOK'
<1> SUFFICES ASSUME TypeOK, [Next]_vars PROVE TypeOK'
  OBVIOUS
<1> USE DEF TypeOK, WorkloadTypeOK, Stages, managerVars, workloadVars
<1>1. CASE Collect
  BY <1>1, AgeAssumption DEF Collect, GetModelsToInject, Due
<1>2. CASE Finish
  BY <1>2 DEF Finish
<1>3. ASSUME NEW m \in Models, AbortSimulation(m) PROVE TypeOK'
  BY <1>3 DEF AbortSimulation
<1>4. ASSUME NEW m \in Models, PostponeModel(m) PROVE TypeOK'
  BY <1>4, AgeAssumption DEF PostponeModel, IncrementFailureAge, AgeAfterFailure
<1>5. ASSUME NEW m \in Models, InjectModel(m) PROVE TypeOK'
  <2>1. PICK r \in GenerateMapping(available_units, m) :
          /\ r.outcome = "mapped"
          /\ UpdateCapacityAvailability(r.cap)
          /\ used_capacity' = [used_capacity EXCEPT ![m] =
                                 [c \in Chiplets |-> available_units[c] - r.cap[c]]]
    BY <1>5 DEF InjectModel, UsedCapacity
  <2>2. available_units' \in Capacities /\ used_capacity' \in [Models -> Capacities]
    BY <2>1, MappingTakes
  <2>3. QED
    BY <1>5, <2>2, AgeAssumption DEF InjectModel, MarkModelInjected
<1>6. CASE EndInjection
  BY <1>6 DEF EndInjection
<1>7. ASSUME NEW done \in SUBSET active_models, SimulateCommunication(done) PROVE TypeOK'
  BY <1>7 DEF SimulateCommunication
<1>8. ASSUME NEW m \in Models, RetireModel(m) PROVE TypeOK'
  <2>1. [c \in Chiplets |-> available_units[c] + used_capacity[m][c]] \in [Chiplets -> Int]
    BY SystemAssumption DEF Capacities
  <2>2. available_units' \in Capacities
    BY <1>8, <2>1, UpdateIsCapacity DEF RetireModel, CapacityAfterRetiring
  <2>3. QED
    BY <1>8, <2>2 DEF RetireModel
<1>9. CASE AdvanceTime
  BY <1>9, ModelAssumption DEF AdvanceTime
<1>10. CASE UNCHANGED vars
  BY <1>10 DEF vars
<1>11. CASE Terminated
  BY <1>10, <1>11 DEF Terminated
<1>12. QED
  BY <1>1, <1>2, <1>3, <1>4, <1>5, <1>6, <1>7, <1>8, <1>9, <1>10, <1>11 DEF Next

\* The loop keeps its bookkeeping within the declared types; in particular
\* every chiplet's availability stays between zero and its capacity.
THEOREM TypeCorrect == Spec => []TypeOK
BY InitTypeOK, NextTypeOK, PTL DEF Spec

----------------------------------------------------------------------------
(* One life cycle per entry. *)

\* Nothing has been injected, activated or retired yet.
LEMMA InitLifeCycle == Init => OneLifeCycle
BY DEF Init, WorkloadInit, OneLifeCycle

\* Every step keeps the queue and the two dictionaries in step.
LEMMA NextLifeCycle == TypeOK /\ OneLifeCycle /\ [Next]_vars => OneLifeCycle'
<1> SUFFICES ASSUME TypeOK, OneLifeCycle, [Next]_vars PROVE OneLifeCycle'
  OBVIOUS
<1> USE DEF OneLifeCycle, managerVars, workloadVars
<1>1. CASE Collect
  BY <1>1 DEF Collect, GetModelsToInject, Due
<1>2. CASE Finish
  BY <1>2 DEF Finish
<1>3. ASSUME NEW m \in Models, AbortSimulation(m) PROVE OneLifeCycle'
  BY <1>3 DEF AbortSimulation
<1>4. ASSUME NEW m \in Models, PostponeModel(m) PROVE OneLifeCycle'
  BY <1>4 DEF PostponeModel, IncrementFailureAge
<1>5. ASSUME NEW m \in Models, InjectModel(m) PROVE OneLifeCycle'
  BY <1>5 DEF InjectModel, Visit, MarkModelInjected
<1>6. CASE EndInjection
  BY <1>6 DEF EndInjection
<1>7. ASSUME NEW done \in SUBSET active_models, SimulateCommunication(done)
      PROVE  OneLifeCycle'
  BY <1>7 DEF SimulateCommunication
<1>8. ASSUME NEW m \in Models, RetireModel(m) PROVE OneLifeCycle'
  BY <1>8 DEF RetireModel
<1>9. CASE AdvanceTime
  BY <1>9 DEF AdvanceTime
<1>10. CASE UNCHANGED vars
  BY <1>10 DEF vars
<1>11. CASE Terminated
  BY <1>10, <1>11 DEF Terminated
<1>12. QED
  BY <1>1, <1>2, <1>3, <1>4, <1>5, <1>6, <1>7, <1>8, <1>9, <1>10, <1>11 DEF Next

\* No entry is injected twice or retired while it waits: ready list,
\* injected set and the two model dictionaries partition the entries.
THEOREM LifeCycleCorrect == Spec => []OneLifeCycle
<1>1. Init => TypeOK /\ OneLifeCycle
  BY InitTypeOK, InitLifeCycle
<1>2. TypeOK /\ OneLifeCycle /\ [Next]_vars => (TypeOK /\ OneLifeCycle)'
  BY NextTypeOK, NextLifeCycle
<1>3. QED
  BY <1>1, <1>2, PTL DEF Spec

----------------------------------------------------------------------------
(* Conservation of capacity. *)

\* On each chiplet, what is missing and what each model holds are naturals.
LEMMA HoldingsType ==
  ASSUME TypeOK, NEW c \in Chiplets
  PROVE  /\ Chiplet[c].units \in Nat
         /\ available_units[c] \in Nat
         /\ available_units[c] <= Chiplet[c].units
         /\ Chiplet[c].units - available_units[c] \in Nat
         /\ \A m \in Models : used_capacity[m][c] \in Nat
         /\ Holdings(c) \in [Models -> Nat]
<1>1. Chiplet[c].units \in Nat
  BY SystemAssumption DEF ChipletSpec
<1>2. available_units[c] \in Nat /\ available_units[c] <= Chiplet[c].units
  BY SystemAssumption DEF TypeOK, Capacities
<1>3. \A m \in Models : used_capacity[m][c] \in Nat
  BY SystemAssumption DEF TypeOK, Capacities
<1>4. QED
  BY <1>1, <1>2, <1>3 DEF Holdings

\* Nobody holds units of the whole, free array.
LEMMA InitConserved == Init => CapacityConserved
<1> SUFFICES ASSUME Init, NEW c \in Chiplets
             PROVE  SumsTo(Holdings(c), Chiplet[c].units - available_units[c])
  BY DEF CapacityConserved
<1>1. Chiplet[c].units - available_units[c] = 0
  BY SystemAssumption DEF Init, SystemInit, ChipletSpec
<1>2. Holdings(c) = [m \in Models |-> 0]
  BY DEF Init, Holdings
<1>3. QED
  BY <1>1, <1>2, SumOfZeros, WorkloadAssumption

\* An injection moves units from the chiplets to the new model.
LEMMA InjectConserves ==
  ASSUME TypeOK, OneLifeCycle, CapacityConserved, NEW m \in Models, InjectModel(m)
  PROVE  CapacityConserved'
<1>1. PICK r \in GenerateMapping(available_units, m) :
        /\ r.outcome = "mapped"
        /\ UpdateCapacityAvailability(r.cap)
        /\ used_capacity' = [used_capacity EXCEPT ![m] =
                               [c \in Chiplets |-> available_units[c] - r.cap[c]]]
  BY DEF InjectModel, UsedCapacity
<1>2. /\ r.cap \in Capacities
      /\ \A c \in Chiplets : r.cap[c] <= available_units[c]
      /\ available_units' = r.cap
  BY <1>1, MappingTakes DEF TypeOK
<1>3. m \notin active_models /\ active_models' = active_models \cup {m}
  BY DEF InjectModel, Visit, OneLifeCycle
<1> SUFFICES ASSUME NEW c \in Chiplets
             PROVE  SumsTo(Holdings(c)', Chiplet[c].units - available_units[c]')
  BY DEF CapacityConserved
<1> DEFINE f == Holdings(c)
           s == Chiplet[c].units - available_units[c]
           k == available_units[c] - r.cap[c]
           g == [f EXCEPT ![m] = k]
<1>4. f \in [Models -> Nat] /\ s \in Nat /\ f[m] = 0
  BY <1>3, HoldingsType DEF Holdings
<1>5. k \in Nat /\ s + k = Chiplet[c].units - available_units[c]'
  BY <1>2, HoldingsType, SystemAssumption DEF Capacities
<1>6. SumsTo(f, s)
  BY DEF CapacityConserved
<1>7. Holdings(c)' = g
  <2>1. \A n \in Models : used_capacity'[n][c] = IF n = m THEN k ELSE used_capacity[n][c]
    BY <1>1 DEF TypeOK
  <2>2. QED
    BY <1>3, <2>1 DEF Holdings
<1>8. g \in [Models -> Nat]
  BY <1>4, <1>5
<1> HIDE DEF f, s, k, g
<1>9. SumsTo(g, s + k)
  BY <1>4, <1>5, <1>6, <1>8, SumAfterGrant, WorkloadAssumption DEF g
<1>10. QED
  BY <1>5, <1>7, <1>9

\* A retirement gives back what the model holds, and that is never clamped.
LEMMA RetireConserves ==
  ASSUME TypeOK, OneLifeCycle, CapacityConserved, NEW m \in Models, RetireModel(m)
  PROVE  CapacityConserved'
<1>1. /\ m \in active_models
      /\ active_models' = active_models \ {m}
      /\ used_capacity' = used_capacity
  BY DEF RetireModel, OneLifeCycle
<1> SUFFICES ASSUME NEW c \in Chiplets
             PROVE  SumsTo(Holdings(c)', Chiplet[c].units - available_units[c]')
  BY DEF CapacityConserved
<1> DEFINE f == Holdings(c)
           s == Chiplet[c].units - available_units[c]
           g == [f EXCEPT ![m] = 0]
<1>2. f \in [Models -> Nat] /\ s \in Nat /\ f[m] = used_capacity[m][c]
  BY <1>1, HoldingsType DEF Holdings
<1>3. SumsTo(f, s)
  BY DEF CapacityConserved
<1>4. Holdings(c)' = g
  BY <1>1 DEF Holdings
<1>5. g \in [Models -> Nat]
  BY <1>2
<1>6. f[m] <= s /\ SumsTo(g, s - f[m])
  <2> HIDE DEF f, s, g
  <2>1. QED
    BY <1>2, <1>3, <1>5, SumAfterRelease, WorkloadAssumption DEF g
<1>7. available_units[c]' = available_units[c] + used_capacity[m][c]
  <2>1. available_units[c]' = Clamp(c, available_units[c] + used_capacity[m][c])
    BY DEF RetireModel, CapacityAfterRetiring, UpdateCapacityAvailability
  <2>2. available_units[c] + used_capacity[m][c] \in 0..Chiplet[c].units
    BY <1>2, <1>6, HoldingsType
  <2>3. QED
    BY <2>1, <2>2, ClampRange
<1>8. s - f[m] = Chiplet[c].units - available_units[c]'
  BY <1>2, <1>7, HoldingsType
<1>9. QED
  BY <1>4, <1>6, <1>8

\* Only injection and retirement touch the accounting, and both balance it.
LEMMA NextConserved ==
  TypeOK /\ OneLifeCycle /\ CapacityConserved /\ [Next]_vars => CapacityConserved'
<1> SUFFICES ASSUME TypeOK, OneLifeCycle, CapacityConserved, [Next]_vars
             PROVE  CapacityConserved'
  OBVIOUS
<1>1. ASSUME NEW m \in Models, InjectModel(m) PROVE CapacityConserved'
  BY <1>1, InjectConserves
<1>2. ASSUME NEW m \in Models, RetireModel(m) PROVE CapacityConserved'
  BY <1>2, RetireConserves
<1>3. CASE UNCHANGED <<available_units, active_models, used_capacity>>
  BY <1>3 DEF CapacityConserved, Holdings
<1>4. \/ \E m \in Models : InjectModel(m) \/ RetireModel(m)
      \/ UNCHANGED <<available_units, active_models, used_capacity>>
  BY DEF Next, vars, managerVars, Collect, Finish, AbortSimulation, PostponeModel,
         EndInjection, SimulateCommunication, AdvanceTime, Terminated
<1>5. QED
  BY <1>1, <1>2, <1>3, <1>4

\* Every unit that is not available is held by exactly one active model.
THEOREM ConservationCorrect == Spec => []CapacityConserved
<1> DEFINE IInv == TypeOK /\ OneLifeCycle /\ CapacityConserved
<1>1. Init => IInv
  BY InitTypeOK, InitLifeCycle, InitConserved
<1>2. IInv /\ [Next]_vars => IInv'
  BY NextTypeOK, NextLifeCycle, NextConserved
<1>3. QED
  BY <1>1, <1>2, PTL DEF Spec

----------------------------------------------------------------------------
(* What holds when the loop ends. *)

\* The loop is left only when nothing remains to inject and nothing is active.
NothingLeft == stage = "done" => ~MoreToDo

\* Once the loop has ended nothing waits and nothing is active.
LEMMA NextNothingLeft == NothingLeft /\ [Next]_vars => NothingLeft'
<1> SUFFICES ASSUME NothingLeft, [Next]_vars PROVE NothingLeft'
  OBVIOUS
<1>1. CASE Finish
  BY <1>1 DEF Finish, NothingLeft, MoreToDo, GetRemainingCount, workloadVars
<1>2. CASE UNCHANGED vars
  BY <1>2 DEF vars, managerVars, workloadVars, NothingLeft, MoreToDo, GetRemainingCount
<1>3. CASE Terminated
  BY <1>2, <1>3 DEF Terminated
<1>4. CASE stage' # "done"
  BY <1>4 DEF NothingLeft
<1>5. Finish \/ UNCHANGED vars \/ Terminated \/ stage' # "done"
  BY DEF Next, Collect, AbortSimulation, PostponeModel, InjectModel, Visit,
         EndInjection, SimulateCommunication, RetireModel, AdvanceTime
<1>6. QED
  BY <1>1, <1>2, <1>3, <1>4, <1>5

\* With nothing waiting or active, all models are retired and all units free.
LEMMA FinishIsClean ==
  TypeOK /\ OneLifeCycle /\ CapacityConserved /\ NothingLeft => CleanFinish
<1> SUFFICES ASSUME TypeOK, OneLifeCycle, CapacityConserved, NothingLeft, stage = "done"
             PROVE  /\ retired_models = Models
                    /\ available_units = [c \in Chiplets |-> Chiplet[c].units]
  BY DEF CleanFinish
<1>1. active_models = {} /\ ~(NumModels - Cardinality(injected_models) > 0)
  BY DEF NothingLeft, MoreToDo, GetRemainingCount
<1>2. IsFiniteSet(Models) /\ Cardinality(Models) = NumModels
  BY WorkloadAssumption, FS_Interval DEF Models
<1>3. injected_models = Models
  <2>1. injected_models \subseteq Models
    BY DEF TypeOK, WorkloadTypeOK
  <2>2. /\ IsFiniteSet(injected_models)
        /\ Cardinality(injected_models) <= Cardinality(Models)
        /\ Cardinality(injected_models) = Cardinality(Models) => injected_models = Models
    BY <1>2, <2>1, FS_Subset
  <2>3. Cardinality(injected_models) \in Nat
    BY <2>2, FS_CardinalityType
  <2>4. QED
    BY <1>1, <1>2, <2>2, <2>3, WorkloadAssumption
<1>4. ASSUME NEW c \in Chiplets PROVE available_units[c] = Chiplet[c].units
  <2>1. Holdings(c) = [m \in Models |-> 0]
    BY <1>1 DEF Holdings
  <2>2. SumsTo([m \in Models |-> 0], Chiplet[c].units - available_units[c])
    BY <2>1 DEF CapacityConserved
  <2>3. Chiplet[c].units - available_units[c] = 0
    BY <2>2, HoldingsType, SumOfZeros, WorkloadAssumption
  <2>4. QED
    BY <2>3, HoldingsType
<1>5. available_units = [c \in Chiplets |-> available_units[c]]
  BY DEF TypeOK, Capacities
<1>6. QED
  BY <1>1, <1>3, <1>4, <1>5 DEF OneLifeCycle

\* run_simulation returns only after retiring every entry, with the whole
\* array free.
THEOREM FinishCorrect == Spec => []CleanFinish
<1> DEFINE IInv == TypeOK /\ OneLifeCycle /\ CapacityConserved /\ NothingLeft
<1>1. Init => IInv
  BY InitTypeOK, InitLifeCycle, InitConserved DEF Init, NothingLeft
<1>2. IInv /\ [Next]_vars => IInv'
  BY NextTypeOK, NextLifeCycle, NextConserved, NextNothingLeft
<1>3. IInv => CleanFinish
  BY FinishIsClean
<1>4. QED
  BY <1>1, <1>2, <1>3, PTL DEF Spec

----------------------------------------------------------------------------
(* Blocking. *)

\* While models remain to be looked at in a pass, each one already passed
\* over is below the blocking threshold.
PassedOverNotBlocking ==
  stage = "inject" /\ pending # {} =>
    \A m \in ready_models \ pending : failure_age[m] < BlockingAgeThreshold

\* A model the injection loop has passed over in this pass is not blocking.
LEMMA NextPassedOver ==
  TypeOK /\ OneLifeCycle /\ PassedOverNotBlocking /\ [Next]_vars => PassedOverNotBlocking'
<1> SUFFICES ASSUME TypeOK, OneLifeCycle, PassedOverNotBlocking, [Next]_vars,
                    stage' = "inject", pending' # {},
                    NEW k \in ready_models' \ pending'
             PROVE  failure_age'[k] < BlockingAgeThreshold
  BY DEF PassedOverNotBlocking
<1> USE DEF PassedOverNotBlocking, managerVars, workloadVars
<1>1. CASE Collect
  BY <1>1 DEF Collect
<1>2. ASSUME NEW m \in Models, PostponeModel(m)
      PROVE  failure_age'[k] < BlockingAgeThreshold
  <2>1. m \in ready_models /\ pending' = pending \ {m}
    BY <1>2 DEF PostponeModel, Visit, OneLifeCycle
  <2>2. failure_age' = [failure_age EXCEPT ![m] = AgeAfterFailure(m)]
    BY <1>2, <2>1 DEF PostponeModel, IncrementFailureAge
  <2>3. ~(failure_age'[m] >= BlockingAgeThreshold)
    BY <1>2, <2>1 DEF PostponeModel, IsModelBlocking
  <2>4. failure_age'[m] \in Int
    BY <2>2, AgeAssumption DEF TypeOK, WorkloadTypeOK, AgeAfterFailure
  <2>5. CASE k = m
    BY <2>3, <2>4, <2>5, AgeAssumption
  <2>6. CASE k # m
    BY <1>2, <2>1, <2>2, <2>6 DEF PostponeModel, Visit, IncrementFailureAge, TypeOK, WorkloadTypeOK
  <2>7. QED
    BY <2>5, <2>6
<1>3. ASSUME NEW m \in Models, InjectModel(m)
      PROVE  failure_age'[k] < BlockingAgeThreshold
  <2>1. k # m /\ k \in ready_models \ pending
    BY <1>3 DEF InjectModel, MarkModelInjected
  <2>2. QED
    BY <1>3, <2>1 DEF InjectModel, MarkModelInjected, Visit, TypeOK, WorkloadTypeOK
<1>4. CASE UNCHANGED vars
  BY <1>4 DEF vars
<1>5. Collect \/ UNCHANGED vars \/ \E m \in Models : PostponeModel(m) \/ InjectModel(m)
  BY DEF Next, Finish, AbortSimulation, EndInjection, SimulateCommunication,
         RetireModel, AdvanceTime, Terminated
<1>6. QED
  BY <1>1, <1>2, <1>3, <1>4, <1>5

\* An injection never overtakes an older model that has become blocking.
THEOREM BlockingCorrect == Spec => NoOvertakingABlockedModel
<1> DEFINE IInv == TypeOK /\ OneLifeCycle /\ PassedOverNotBlocking
           Overtake == \A m, k \in Models :
                         /\ m \in ready_models
                         /\ m < k
                         /\ k \notin injected_models /\ k \in injected_models'
                         => failure_age[m] < BlockingAgeThreshold
<1>1. Init => IInv
  BY InitTypeOK, InitLifeCycle DEF Init, PassedOverNotBlocking
<1>2. IInv /\ [Next]_vars => IInv'
  BY NextTypeOK, NextLifeCycle, NextPassedOver
<1>3. IInv /\ [Next]_vars => [Overtake]_vars
  <2> SUFFICES ASSUME IInv, [Next]_vars, NEW m \in Models, NEW k \in Models,
                      m \in ready_models, m < k,
                      k \notin injected_models, k \in injected_models'
               PROVE  failure_age[m] < BlockingAgeThreshold
    OBVIOUS
  <2>1. InjectModel(k)
    <3>1. PICK n \in Models : InjectModel(n)
      BY DEF Next, vars, managerVars, workloadVars, Collect, GetModelsToInject, Finish,
             AbortSimulation, PostponeModel, IncrementFailureAge, EndInjection,
             SimulateCommunication, RetireModel, AdvanceTime, Terminated
    <3>2. n = k
      BY <3>1 DEF InjectModel, MarkModelInjected
    <3>3. QED
      BY <3>1, <3>2
  <2>2. (stage = "inject" /\ k \in pending /\ k <= m) \/ m \notin pending
    BY <2>1 DEF InjectModel, Visit
  <2>3. m \in ready_models \ pending /\ pending # {} /\ stage = "inject"
    BY <2>1, <2>2 DEF InjectModel, Visit, Models
  <2>4. QED
    BY <2>3 DEF PassedOverNotBlocking
<1>4. QED
  BY <1>1, <1>2, <1>3, PTL DEF Spec, NoOvertakingABlockedModel

----------------------------------------------------------------------------
(* Sort keys. *)

\* Sort keys of n integers for the elements of S, no two the same
SortKeys(key, S, n) ==
  /\ \A x \in S : DOMAIN key[x] = 1..n
  /\ \A x \in S : \A i \in 1..n : key[x][i] \in Int
  /\ \A x, y \in S : x # y => \E i \in 1..n : key[x][i] # key[y][i]

\* Of two different keys one is less.
LEMMA KeysCompare ==
  ASSUME NEW n \in Nat, NEW S, NEW key, SortKeys(key, S, n), NEW x \in S, NEW y \in S, x # y
  PROVE  KeyLess(key[x], key[y]) \/ KeyLess(key[y], key[x])
<1> DEFINE D == {i \in 1..n : key[x][i] # key[y][i]}
<1>1. D \in SUBSET Nat /\ D # {}
  BY DEF SortKeys
<1>2. PICK i \in D : \A j \in D : i <= j
  <2> HIDE DEF D
  <2> QED BY <1>1, LeastElement
<1>3. \A j \in 1..(i - 1) : key[x][j] = key[y][j]
  <2>1. \A j \in 1..(i - 1) : j \in 1..n /\ ~(i <= j)
    OBVIOUS
  <2> QED BY <1>2, <2>1
<1>4. i \in DOMAIN key[x] /\ i \in DOMAIN key[y] /\ key[x][i] \in Int /\ key[y][i] \in Int
  BY DEF SortKeys
<1>5. key[x][i] < key[y][i] \/ key[y][i] < key[x][i]
  BY <1>4
<1> QED BY <1>3, <1>4, <1>5 DEF KeyLess

\* The order of sort keys is transitive.
LEMMA KeyLessTransitive ==
  ASSUME NEW n \in Nat, NEW S, NEW key, SortKeys(key, S, n), NEW x \in S, NEW y \in S, NEW z \in S,
         KeyLess(key[x], key[y]), KeyLess(key[y], key[z])
  PROVE  KeyLess(key[x], key[z])
<1> DEFINE a == key[x]
           b == key[y]
           c == key[z]
<1>1. DOMAIN a = 1..n /\ DOMAIN b = 1..n
  BY DEF SortKeys
<1>2. \A i \in 1..n : a[i] \in Int /\ b[i] \in Int /\ c[i] \in Int
  BY DEF SortKeys
<1>3. PICK i \in 1..n : a[i] < b[i] /\ \A j \in 1..(i - 1) : a[j] = b[j]
  BY <1>1 DEF KeyLess
<1>4. PICK k \in 1..n : b[k] < c[k] /\ \A j \in 1..(k - 1) : b[j] = c[j]
  BY <1>1 DEF KeyLess
<1> HIDE DEF a, b, c
<1> SUFFICES \E m \in 1..n : a[m] < c[m] /\ \A j \in 1..(m - 1) : a[j] = c[j]
  BY <1>1 DEF KeyLess, a, c
<1>5. CASE i < k
  <2>1. a[i] < c[i]
    BY <1>2, <1>3, <1>4, <1>5
  <2>2. \A j \in 1..(i - 1) : a[j] = c[j]
    BY <1>3, <1>4, <1>5
  <2> QED BY <2>1, <2>2
<1>6. CASE k <= i
  <2>1. a[k] <= b[k]
    BY <1>2, <1>3, <1>6
  <2>2. a[k] < c[k]
    BY <1>2, <1>4, <2>1
  <2>3. \A j \in 1..(k - 1) : a[j] = c[j]
    BY <1>3, <1>4, <1>6
  <2> QED BY <2>2, <2>3
<1> QED BY <1>5, <1>6

\* A finite set has a first and a last element by such a key.
LEMMA FirstByKey ==
  ASSUME NEW n \in Nat, NEW S, IsFiniteSet(S), S # {}, NEW key, SortKeys(key, S, n)
  PROVE  \E x \in S : \A y \in S \ {x} : KeyLess(key[x], key[y])
<1> DEFINE IsFirst(x, T) == \A y \in T \ {x} : KeyLess(key[x], key[y])
           P == {T \in SUBSET S : T = {} \/ \E x \in T : IsFirst(x, T)}
<1>1. ASSUME NEW T \in P, NEW x \in S \ T PROVE T \cup {x} \in P
  <2>1. CASE T = {}
    <3>1. IsFirst(x, T \cup {x})
      BY <2>1
    <3> HIDE DEF IsFirst
    <3> QED BY <3>1
  <2>2. CASE T # {}
    <3>1. PICK c \in T : IsFirst(c, T)
      BY <2>2
    <3>2. c \in S /\ c # x
      OBVIOUS
    <3>3. CASE KeyLess(key[c], key[x])
      <4>1. IsFirst(c, T \cup {x})
        BY <3>1, <3>3
      <4> HIDE DEF IsFirst
      <4> QED BY <4>1
    <3>4. CASE KeyLess(key[x], key[c])
      <4>1. ASSUME NEW y \in (T \cup {x}) \ {x} PROVE KeyLess(key[x], key[y])
        <5>1. CASE y = c
          BY <3>4, <5>1
        <5>2. CASE y # c
          <6>1. KeyLess(key[c], key[y]) /\ y \in S
            BY <3>1, <5>2
          <6> QED BY <3>2, <3>4, <6>1, KeyLessTransitive
        <5> QED BY <5>1, <5>2
      <4>2. IsFirst(x, T \cup {x})
        BY <4>1
      <4> HIDE DEF IsFirst
      <4> QED BY <4>2
    <3> QED BY <3>2, <3>3, <3>4, KeysCompare
  <2> QED BY <2>1, <2>2
<1>2. {} \in P /\ P \in SUBSET SUBSET S
  OBVIOUS
<1>3. S \in P
  <2> HIDE DEF P
  <2> QED BY <1>1, <1>2, SubsetInduction
<1> QED BY <1>3

\* A finite set has a last element by such a key.
LEMMA LastByKey ==
  ASSUME NEW n \in Nat, NEW S, IsFiniteSet(S), S # {}, NEW key, SortKeys(key, S, n)
  PROVE  \E x \in S : \A y \in S \ {x} : KeyLess(key[y], key[x])
<1> DEFINE neg == [x \in S |-> [i \in 1..n |-> -key[x][i]]]
<1>1. SortKeys(neg, S, n)
  BY SMTT(40) DEF SortKeys
<1>2. ASSUME NEW x \in S, NEW y \in S, KeyLess(neg[x], neg[y]) PROVE KeyLess(key[y], key[x])
  <2>0. \A j \in 1..n : neg[x][j] = -key[x][j] /\ neg[y][j] = -key[y][j]
    OBVIOUS
  <2>1. PICK i \in 1..n : -key[x][i] < -key[y][i] /\ \A j \in 1..(i - 1) : -key[x][j] = -key[y][j]
    <3>1. DOMAIN neg[x] = 1..n
      OBVIOUS
    <3> HIDE DEF neg
    <3>2. PICK i \in 1..n : neg[x][i] < neg[y][i] /\ \A j \in 1..(i - 1) : neg[x][j] = neg[y][j]
      BY <1>2, <3>1 DEF KeyLess
    <3>3. \A j \in 1..(i - 1) : j \in 1..n
      OBVIOUS
    <3> QED BY <2>0, <3>2, <3>3
  <2>2. \A j \in 1..n : key[x][j] \in Int /\ key[y][j] \in Int
    BY DEF SortKeys
  <2>3. key[y][i] < key[x][i]
    BY <2>1, <2>2
  <2>4. \A j \in 1..(i - 1) : key[y][j] = key[x][j]
    BY <2>1, <2>2
  <2> QED BY <2>3, <2>4 DEF KeyLess, SortKeys
<1> HIDE DEF neg
<1>3. PICK x \in S : \A y \in S \ {x} : KeyLess(neg[x], neg[y])
  BY <1>1, FirstByKey
<1> QED BY <1>2, <1>3

----------------------------------------------------------------------------
(* What the mapper chooses. *)

\* The memory of a chiplet's units is a number.
LEMMA UnitSizeInt == ASSUME NEW c \in Chiplets PROVE UnitSize(c) \in Int
<1>1. /\ Chiplet[c].rows \in Nat /\ Chiplet[c].cols \in Nat
      /\ Chiplet[c].cells \in Nat \ {0}
  BY SystemAssumption DEF ChipletSpec
<1> DEFINE m == 1 * Chiplet[c].rows * Chiplet[c].cols
<1>2. m \in Nat
  BY <1>1
<1> HIDE DEF m
<1>3. m \div Chiplet[c].cells \in Int
  BY <1>1, <1>2
<1> QED BY <1>3 DEF UnitSize, MemoryOf, m

\* There are finitely many chiplets.
LEMMA FiniteChiplets ==
  /\ IsFiniteSet(Chiplets) /\ Cardinality(Chiplets) = NumChiplets /\ Chiplets \in SUBSET Int
  /\ \A S \in SUBSET Chiplets : IsFiniteSet(S)
<1>1. IsFiniteSet(Chiplets) /\ Cardinality(Chiplets) = NumChiplets
  <2>1. Cardinality(1..NumChiplets) = IF 1 > NumChiplets THEN 0 ELSE NumChiplets - 1 + 1
    BY SystemAssumption, FS_Interval
  <2>2. IsFiniteSet(1..NumChiplets)
    BY SystemAssumption, FS_Interval
  <2> QED BY <2>1, <2>2, SystemAssumption DEF Chiplets
<1>2. \A S \in SUBSET Chiplets : IsFiniteSet(S)
  BY <1>1, FS_Subset
<1> QED BY <1>1, <1>2, SystemAssumption DEF Chiplets

\* Farthest picks one of the chiplets it is given.
LEMMA FarthestIsOne ==
  ASSUME NEW start \in Chiplets, NEW cap \in [Chiplets -> Nat], NEW S \in SUBSET Chiplets, S # {}
  PROVE  Farthest(start, cap, S) \in S
<1> DEFINE key == [c \in S |-> <<Distance[start][c], -(cap[c] * UnitSize(c)), -Metric[c], c>>]
<1>1. SortKeys(key, S, 4)
  <2>1. \A c \in S : key[c] = <<Distance[start][c], -(cap[c] * UnitSize(c)), -Metric[c], c>>
    OBVIOUS
  <2>2. \A c \in S : /\ Distance[start][c] \in Int /\ -(cap[c] * UnitSize(c)) \in Int
                     /\ -Metric[c] \in Int /\ c \in Int
    BY MapperAssumption, UnitSizeInt, FiniteChiplets
  <2>3. \A c \in S : DOMAIN key[c] = 1..4
    BY <2>1
  <2> HIDE DEF key
  <2>4. \A c \in S : \A i \in 1..4 : key[c][i] \in Int
    <3>1. SUFFICES ASSUME NEW c \in S, NEW i \in 1..4 PROVE key[c][i] \in Int
      OBVIOUS
    <3>2. i = 1 \/ i = 2 \/ i = 3 \/ i = 4
      OBVIOUS
    <3> QED BY <2>1, <2>2, <3>2
  <2>5. \A c \in S : key[c][4] = c
    BY <2>1
  <2> QED BY <2>3, <2>4, <2>5 DEF SortKeys
<1>2. \E x \in S : \A y \in S \ {x} : KeyLess(key[y], key[x])
  <2> HIDE DEF key
  <2> QED BY <1>1, LastByKey, FiniteChiplets
<1> QED BY <1>2 DEF Farthest

\* The starting chiplet is a candidate.
LEMMA StartingChipletIsOne ==
  ASSUME NEW cap \in [Chiplets -> Nat], Candidates(cap) # {}
  PROVE  StartingChiplet(cap) \in Chiplets
<1> DEFINE S == Candidates(cap)
           key == [c \in S |-> <<-(cap[c] * UnitSize(c)), -Metric[c], c>>]
<1>0. S \in SUBSET Chiplets /\ S # {}
  BY MapperAssumption DEF Candidates, Permitted
<1> HIDE DEF S
<1>1. SortKeys(key, S, 3)
  <2>1. \A c \in S : key[c] = <<-(cap[c] * UnitSize(c)), -Metric[c], c>>
    OBVIOUS
  <2>2. \A c \in S : -(cap[c] * UnitSize(c)) \in Int /\ -Metric[c] \in Int /\ c \in Int
    <3>1. \A c \in S : UnitSize(c) \in Int /\ c \in Int /\ c \in Chiplets
      BY <1>0, UnitSizeInt, FiniteChiplets
    <3> QED BY <3>1, MapperAssumption
  <2>3. \A c \in S : DOMAIN key[c] = 1..3
    BY <2>1
  <2> HIDE DEF key
  <2>4. \A c \in S : \A i \in 1..3 : key[c][i] \in Int
    <3>1. SUFFICES ASSUME NEW c \in S, NEW i \in 1..3 PROVE key[c][i] \in Int
      OBVIOUS
    <3>2. i = 1 \/ i = 2 \/ i = 3
      OBVIOUS
    <3> QED BY <2>1, <2>2, <3>2
  <2>5. \A c \in S : key[c][3] = c
    BY <2>1
  <2> QED BY <2>3, <2>4, <2>5 DEF SortKeys
<1>2. \E x \in S : \A y \in S \ {x} : KeyLess(key[x], key[y])
  <2> HIDE DEF key
  <2> QED BY <1>0, <1>1, FirstByKey, FiniteChiplets
<1>3. StartingChiplet(cap) \in S
  BY <1>2 DEF StartingChiplet, S
<1> QED BY <1>0, <1>3

\* The chiplet with the largest share is a chiplet.
LEMMA LargestShareIsOne ==
  ASSUME NEW action \in [Chiplets -> Nat], Chiplets # {}
  PROVE  LargestShare(action) \in Chiplets
<1> DEFINE key == [c \in Chiplets |-> <<-action[c], c>>]
<1>1. SortKeys(key, Chiplets, 2)
  <2>1. \A c \in Chiplets : key[c] = <<-action[c], c>>
    OBVIOUS
  <2>2. \A c \in Chiplets : -action[c] \in Int /\ c \in Int
    BY FiniteChiplets
  <2>3. \A c \in Chiplets : DOMAIN key[c] = 1..2
    BY <2>1
  <2> HIDE DEF key
  <2>4. \A c \in Chiplets : \A i \in 1..2 : key[c][i] \in Int
    <3>1. SUFFICES ASSUME NEW c \in Chiplets, NEW i \in 1..2 PROVE key[c][i] \in Int
      OBVIOUS
    <3>2. i = 1 \/ i = 2
      OBVIOUS
    <3> QED BY <2>1, <2>2, <3>2
  <2>5. \A c \in Chiplets : key[c][2] = c
    BY <2>1
  <2> QED BY <2>3, <2>4, <2>5 DEF SortKeys
<1>2. \E x \in Chiplets : \A y \in Chiplets \ {x} : KeyLess(key[x], key[y])
  <2> HIDE DEF key
  <2> QED BY <1>1, FirstByKey, FiniteChiplets
<1> QED BY <1>2 DEF LargestShare

----------------------------------------------------------------------------
(* One turn of the allocation loop. *)

\* Rounding up is enough, and by less than one too much.
LEMMA CeilDivBounds ==
  ASSUME NEW a \in Nat, NEW b \in Nat \ {0}
  PROVE  /\ CeilDiv(a, b) \in Nat
         /\ a <= CeilDiv(a, b) * b
         /\ CeilDiv(a, b) * b < a + b
<1> DEFINE m == a + b - 1
           q == m \div b
<1>1. m \in Nat
  OBVIOUS
<1> HIDE DEF m
<1>2. q \in Nat /\ b * q <= m /\ m < b * q + b
  BY <1>1
<1>3. q = CeilDiv(a, b)
  BY DEF CeilDiv, m
<1> HIDE DEF q
<1>4. b * q = q * b /\ q * b \in Int
  BY <1>2
<1> DEFINE qb == q * b
<1> HIDE DEF qb
<1>5. qb \in Int /\ qb <= m /\ m < qb + b
  BY <1>2, <1>4 DEF qb
<1>6. a <= qb /\ qb < a + b
  BY <1>5 DEF m
<1> QED BY <1>2, <1>3, <1>6 DEF qb

\* A layer needs a number of units, and that number divides Whole.
LEMMA LayerUnitsNat ==
  ASSUME NEW layer \in LayerKinds, NEW c \in Chiplets, ~IsIOChiplet(c)
  PROVE  /\ LayerUnits(layer, c) \in Nat
         /\ LayerUnits(layer, c) > 0 => Whole % LayerUnits(layer, c) = 0
<1>1. layer.rows \in Nat /\ layer.cols \in Nat
  BY SessionAssumption
<1>2. /\ Chiplet[c].type \in {"IMC", "CMOS"}
      /\ Chiplet[c].rows \in Nat /\ Chiplet[c].cols \in Nat /\ Chiplet[c].cells \in Nat
  BY SystemAssumption DEF ChipletSpec, IsIOChiplet
<1>3. Chiplet[c].type = "IMC" => Chiplet[c].rows \in Nat \ {0} /\ Chiplet[c].cols \in Nat \ {0}
  BY <1>2, MapperAssumption
<1> DEFINE r == IF layer.type = "self_attention" THEN layer.cols ELSE layer.rows
           m == layer.cols * Chiplet[c].cells
<1>4. r \in Nat /\ m \in Nat /\ r * layer.cols \in Nat
  BY <1>1, <1>2
<1> HIDE DEF r, m
<1>5. Chiplet[c].type = "IMC" =>
        CeilDiv(m, Chiplet[c].cols) \in Nat /\ CeilDiv(r, Chiplet[c].rows) \in Nat
  BY <1>3, <1>4, CeilDivBounds
<1>6. Chiplet[c].type = "IMC" => CeilDiv(m, Chiplet[c].cols) * CeilDiv(r, Chiplet[c].rows) \in Nat
  BY <1>5
<1>7. LayerUnits(layer, c) \in {0, r * layer.cols, CeilDiv(m, Chiplet[c].cols) * CeilDiv(r, Chiplet[c].rows)}
  BY DEF LayerUnits, r, m
<1>8. LayerUnits(layer, c) \in Nat
  <2>1. CASE Chiplet[c].type = "IMC"
    BY <1>4, <1>6, <1>7, <2>1
  <2>2. CASE Chiplet[c].type = "CMOS"
    <3>1. LayerUnits(layer, c) \in {0, r * layer.cols}
      BY <2>2 DEF LayerUnits, r
    <3> QED BY <1>4, <3>1
  <2> QED BY <1>2, <2>1, <2>2
<1> QED BY <1>8, SessionAssumption

\* A chiplet that cannot take the rest of a layer takes an exact share, and
\* what remains of the layer loses less than one weight to rounding.
LEMMA PartialTurn ==
  ASSUME NEW W \in Nat \ {0}, NEW R \in Nat \ {0}, NEW f \in Nat \ {0}, W % f = 0,
         NEW r \in Nat, NEW p \in Nat, NEW a \in Nat \ {0}, NEW n \in Nat,
         r * W <= p * R, p * R <= (r + n) * W, a < CeilDiv(r * f, R)
  PROVE  LET s == (a * W) \div f
             d == CeilDiv(a * R, f)
         IN  /\ s \in Nat \ {0} /\ s <= p
             /\ d \in Nat /\ d <= r
             /\ (r - d) * W <= (p - s) * R
             /\ (p - s) * R <= ((r - d) + (n + 1)) * W
<1> DEFINE k == W \div f
           s == (a * W) \div f
           d == CeilDiv(a * R, f)
           q == CeilDiv(r * f, R)
           x == r * f
           y == a * R
<1>1. k \in Nat /\ W = k * f
  OBVIOUS
<1>2. k # 0
  BY <1>1
<1>3. s = a * k
  <2>1. a * W = (a * k) * f /\ a * k \in Nat
    BY <1>1
  <2> DEFINE ak == a * k
  <2> HIDE DEF ak
  <2>2. (ak * f) \div f = ak
    BY <2>1 DEF ak
  <2> QED BY <2>1, <2>2 DEF ak
<1>4. s \in Nat \ {0}
  BY <1>1, <1>2, <1>3
<1>5. x \in Nat /\ y \in Nat
  OBVIOUS
<1>6. q \in Nat /\ q * R < x + R /\ a <= q - 1
  BY <1>5, CeilDivBounds
<1> HIDE DEF k, s, q
<1>7. y < x
  <2>1. a * R <= (q - 1) * R
    <3>1. \A i, j \in Int : i <= j => i * R <= j * R
      OBVIOUS
    <3> QED BY <1>6, <3>1
  <2>2. (q - 1) * R = q * R - R /\ q * R \in Int
    BY <1>6
  <2> HIDE DEF x
  <2> QED BY <1>5, <1>6, <2>1, <2>2
<1>8. d \in Nat /\ y <= d * f /\ d * f < y + f
  BY <1>5, CeilDivBounds
<1> HIDE DEF d
<1>9. d <= r
  <2>1. SUFFICES ASSUME r + 1 <= d PROVE FALSE
    BY <1>8
  <2>2. (r + 1) * f <= d * f
    <3>1. \A i, j \in Int : i <= j => i * f <= j * f
      OBVIOUS
    <3> QED BY <1>8, <2>1, <3>1
  <2>3. (r + 1) * f = x + f /\ d * f \in Int
    BY <1>8
  <2> HIDE DEF x, y
  <2> QED BY <1>5, <1>7, <1>8, <2>2, <2>3
<1> DEFINE sR == s * R
           dW == d * W
           rW == r * W
           pR == p * R
           nW == n * W
<1>10. sR \in Int /\ dW \in Int /\ rW \in Int /\ pR \in Int /\ nW \in Int
  BY <1>4, <1>8
<1>11. sR = k * y /\ rW = k * x
  BY <1>1, <1>3
<1>12. dW = k * (d * f) /\ W = k * f
  BY <1>1, <1>8
<1>13. \A i, j \in Int : i <= j => k * i <= k * j
  BY <1>1
<1>14. \A i, j \in Int : i < j => k * i < k * j
  BY <1>1, <1>2
<1>15. sR < rW
  BY <1>5, <1>7, <1>11, <1>14
<1>16. sR <= dW
  BY <1>5, <1>8, <1>11, <1>12, <1>13
<1>17. dW < sR + W
  <2>1. k * (d * f) < k * (y + f)
    BY <1>5, <1>8, <1>14
  <2>2. k * (y + f) = k * y + k * f
    BY <1>1, <1>5
  <2> QED BY <1>11, <1>12, <2>1, <2>2
<1>18. rW <= pR /\ pR <= rW + nW
  <2>1. (r + n) * W = r * W + n * W
    OBVIOUS
  <2> QED BY <2>1
<1>19. s <= p
  <2>1. SUFFICES ASSUME p < s PROVE FALSE
    BY <1>4
  <2>2. pR <= sR
    <3>1. \A i, j \in Int : i <= j => i * R <= j * R
      OBVIOUS
    <3> QED BY <1>4, <2>1, <3>1
  <2> HIDE DEF sR, rW, pR
  <2> QED BY <1>10, <1>15, <1>18, <2>2
<1>20. /\ (r - d) * W = rW - dW
       /\ (p - s) * R = pR - sR
       /\ ((r - d) + (n + 1)) * W = rW - dW + nW + W
  BY <1>4, <1>8
<1> HIDE DEF sR, dW, rW, pR, nW
<1>21. rW - dW <= pR - sR /\ pR - sR <= rW - dW + nW + W
  BY <1>10, <1>16, <1>17, <1>18
<1>22. (r - d) * W <= (p - s) * R /\ (p - s) * R <= ((r - d) + (n + 1)) * W
  BY <1>20, <1>21
<1>23. s \in Nat \ {0} /\ s <= p /\ d \in Nat /\ d <= r
  BY <1>4, <1>8, <1>9, <1>19
<1> QED BY <1>22, <1>23 DEF s, d

\* Chiplets that have given units to the layer
Taken(cap, acc) == {c \in Chiplets : acc.cap[c] < cap[c]}

\* The accounts of the allocation loop for a layer that found cap units left:
\* what may be allocated, and to whom; every unit paid for with a share; a
\* chiplet used up unless the layer is complete; and what remains of the layer,
\* in per cent, behind what remains in weights by at most one for each chiplet.
Accounts(layer, cap) ==
  {acc \in [cap : [Chiplets -> Nat], resources : Nat, percentage : Nat, action : [Chiplets -> Nat]] :
     /\ \A c \in Chiplets : acc.cap[c] <= cap[c]
     /\ \A c \in Chiplets \ Candidates(cap) : acc.cap[c] = cap[c]
     /\ \A c \in Chiplets : acc.action[c] > 0 <=> acc.cap[c] < cap[c]
     /\ acc.resources > 0 => \A c \in Taken(cap, acc) : acc.cap[c] = 0
     /\ SumFunctionOnSet(acc.action, Chiplets) = Whole - acc.percentage
     /\ acc.resources * Whole <= acc.percentage * CrossbarsRequired(layer)
     /\ acc.percentage * CrossbarsRequired(layer)
          <= (acc.resources + Cardinality(Taken(cap, acc))) * Whole}

\* A layer has a number of weights.
LEMMA CrossbarsNat == ASSUME NEW layer \in LayerKinds PROVE CrossbarsRequired(layer) \in Nat
<1>1. layer.rows \in Nat /\ layer.cols \in Nat
  BY SessionAssumption
<1> QED BY <1>1 DEF CrossbarsRequired

\* At most all chiplets have given units.
LEMMA TakenFinite ==
  ASSUME NEW cap, NEW acc
  PROVE  /\ IsFiniteSet(Taken(cap, acc)) /\ Cardinality(Taken(cap, acc)) \in Nat
         /\ Cardinality(Taken(cap, acc)) <= NumChiplets
<1>1. Taken(cap, acc) \in SUBSET Chiplets
  BY DEF Taken
<1> QED BY <1>1, FiniteChiplets, FS_Subset, FS_CardinalityType

\* Before the first turn nothing has been given.
LEMMA UnplacedAccounts ==
  ASSUME NEW layer \in LayerKinds, NEW cap \in [Chiplets -> Nat]
  PROVE  Unplaced(layer, cap) \in Accounts(layer, cap)
<1> DEFINE u == Unplaced(layer, cap)
           R == CrossbarsRequired(layer)
           zero == [c \in Chiplets |-> 0]
<1>1. u = [cap |-> cap, resources |-> R, percentage |-> Whole, action |-> zero]
  BY DEF Unplaced
<1>2. R \in Nat /\ Whole \in Nat
  BY CrossbarsNat, MapperAssumption
<1>3. u.cap = cap /\ u.resources = R /\ u.percentage = Whole /\ u.action = zero
  BY <1>1
<1>4. \A c \in Chiplets : zero[c] = 0
  OBVIOUS
<1>5. SumFunctionOnSet(zero, Chiplets) = 0 * Cardinality(Chiplets)
  <2>1. IsFiniteSet(Chiplets)
    BY FiniteChiplets
  <2> HIDE DEF zero
  <2> QED BY <1>4, <2>1, SumConstant
<1>6. SumFunctionOnSet(zero, Chiplets) = Whole - Whole
  BY <1>2, <1>5, SystemAssumption, FiniteChiplets
<1>7. Taken(cap, u) = {}
  BY <1>3 DEF Taken
<1>8. Cardinality(Taken(cap, u)) = 0
  BY <1>7, FS_EmptySet
<1>9. u \in [cap : [Chiplets -> Nat], resources : Nat, percentage : Nat, action : [Chiplets -> Nat]]
  BY <1>1, <1>2
<1> HIDE DEF u, R, zero
<1>10. R * Whole <= Whole * R /\ Whole * R <= (R + 0) * Whole
  BY <1>2
<1>11. \A c \in Chiplets : u.cap[c] <= cap[c] /\ u.cap[c] = cap[c] /\ (u.action[c] > 0 <=> u.cap[c] < cap[c])
  BY <1>3, <1>4
<1> QED BY <1>3, <1>6, <1>7, <1>8, <1>9, <1>10, <1>11 DEF Accounts, R, u

\* A turn of the allocation loop keeps the accounts.
LEMMA AllocateOnKeeps ==
  ASSUME NEW layer \in LayerKinds, NEW cap \in [Chiplets -> Nat],
         NEW c \in Candidates(cap), NEW acc \in Accounts(layer, cap)
  PROVE  AllocateOn(layer, acc, c) \in Accounts(layer, cap)
<1> DEFINE R == CrossbarsRequired(layer)
           f == LayerUnits(layer, c)
           r == acc.resources
           p == acc.percentage
           a == acc.cap[c]
           n == Cardinality(Taken(cap, acc))
           needed == CeilDiv(r * f, R)
           s == (a * Whole) \div f
           d == CeilDiv(a * R, f)
           new == AllocateOn(layer, acc, c)
<1>1. c \in Chiplets /\ ~IsIOChiplet(c)
  BY MapperAssumption DEF Candidates, Permitted
<1>2. R \in Nat /\ Whole \in Nat \ {0} /\ f \in Nat /\ (f > 0 => Whole % f = 0)
  BY <1>1, CrossbarsNat, LayerUnitsNat, MapperAssumption
<1>3. /\ acc.cap \in [Chiplets -> Nat] /\ acc.action \in [Chiplets -> Nat]
      /\ r \in Nat /\ p \in Nat /\ a \in Nat
  BY <1>1 DEF Accounts
<1>4. /\ \A x \in Chiplets : acc.cap[x] <= cap[x]
      /\ \A x \in Chiplets \ Candidates(cap) : acc.cap[x] = cap[x]
  BY DEF Accounts
<1>5. \A x \in Chiplets : acc.action[x] > 0 <=> acc.cap[x] < cap[x]
  BY DEF Accounts
<1>6. r > 0 => \A x \in Taken(cap, acc) : acc.cap[x] = 0
  BY DEF Accounts
<1>7. SumFunctionOnSet(acc.action, Chiplets) = Whole - p
  BY DEF Accounts
<1>8. r * Whole <= p * R /\ p * R <= (r + n) * Whole
  BY DEF Accounts
<1>9. n \in Nat /\ IsFiniteSet(Taken(cap, acc))
  BY TakenFinite
<1>10. CASE r <= 0 \/ a <= 0 \/ f <= 0
  BY <1>10 DEF AllocateOn
<1>11. CASE ~(r <= 0 \/ a <= 0 \/ f <= 0)
  <2>1. r \in Nat \ {0} /\ a \in Nat \ {0} /\ f \in Nat \ {0}
    BY <1>2, <1>3, <1>11
  <2>2. p * R > 0
    <3>1. r * Whole \in Nat /\ r * Whole # 0
      BY <1>2, <2>1
    <3>2. p * R \in Int
      BY <1>2, <1>3
    <3> HIDE DEF r, p, R
    <3> QED BY <1>8, <3>1, <3>2
  <2>3. R \in Nat \ {0} /\ p \in Nat \ {0}
    BY <1>2, <1>3, <2>2
  \* a record of new numbers for chiplet c is in the accounts
  <2>4. ASSUME NEW left \in Nat, left < a, NEW more \in Nat \ {0},
               NEW r2 \in Nat, NEW p2 \in Nat, p2 = p - more,
               r2 > 0 => left = 0,
               r2 * Whole <= p2 * R,
               p2 * R <= (r2 + Cardinality(Taken(cap, acc) \cup {c})) * Whole,
               NEW t, t = [cap |-> [acc.cap EXCEPT ![c] = left], resources |-> r2, percentage |-> p2,
                           action |-> [acc.action EXCEPT ![c] = @ + more]]
        PROVE  t \in Accounts(layer, cap)
    <3> DEFINE cap2 == [acc.cap EXCEPT ![c] = left]
               act2 == [acc.action EXCEPT ![c] = @ + more]
    <3>1. t.cap = cap2 /\ t.resources = r2 /\ t.percentage = p2 /\ t.action = act2
      BY <2>4
    <3>2. cap2 \in [Chiplets -> Nat] /\ act2 \in [Chiplets -> Nat]
      BY <1>1, <1>3, <2>4
    <3>3. /\ cap2[c] = left /\ \A x \in Chiplets \ {c} : cap2[x] = acc.cap[x]
          /\ act2[c] = acc.action[c] + more /\ \A x \in Chiplets \ {c} : act2[x] = acc.action[x]
      BY <1>1, <1>3
    <3>4. acc.cap[c] <= cap[c] /\ cap[c] \in Nat /\ acc.action[c] \in Nat /\ left < cap[c]
      BY <1>1, <1>3, <1>4, <2>4
    <3>5. t \in [cap : [Chiplets -> Nat], resources : Nat, percentage : Nat, action : [Chiplets -> Nat]]
      BY <2>4, <3>2
    <3> HIDE DEF cap2, act2
    <3>6. \A x \in Chiplets : cap2[x] <= cap[x]
      BY <1>4, <3>3, <3>4
    <3>7. \A x \in Chiplets \ Candidates(cap) : cap2[x] = cap[x]
      BY <1>4, <3>3
    <3>8. \A x \in Chiplets : act2[x] > 0 <=> cap2[x] < cap[x]
      BY <1>5, <2>4, <3>3, <3>4
    <3>9. Taken(cap, t) = Taken(cap, acc) \cup {c}
      BY <1>1, <3>1, <3>3, <3>4 DEF Taken
    <3>10. r2 > 0 => \A x \in Taken(cap, t) : cap2[x] = 0
      <4>1. SUFFICES ASSUME r2 > 0, NEW x \in Taken(cap, t) PROVE cap2[x] = 0
        OBVIOUS
      <4>2. CASE x = c
        BY <2>4, <3>3, <4>1, <4>2
      <4>3. CASE x # c
        <5>1. x \in Taken(cap, acc) /\ x \in Chiplets
          BY <3>9, <4>1, <4>3 DEF Taken
        <5> QED BY <1>6, <2>1, <3>3, <4>3, <5>1
      <4> QED BY <4>2, <4>3
    <3>11. SumFunctionOnSet(act2, Chiplets) = Whole - p2
      <4> DEFINE g == acc.action
      <4>1. \A x \in Chiplets : g[x] \in Int
        BY <1>3
      <4>2. act2[c] \in Int /\ \A x \in Chiplets \ {c} : act2[x] = g[x]
        BY <2>4, <3>3, <3>4
      <4>3. SumFunctionOnSet(act2, Chiplets) = SumFunctionOnSet(g, Chiplets) - g[c] + act2[c]
        <5>1. IsFiniteSet(Chiplets) /\ c \in Chiplets
          BY <1>1, FiniteChiplets
        <5> HIDE DEF g
        <5> QED BY <4>1, <4>2, <5>1, SumReplace
      <4> QED BY <1>2, <1>3, <1>7, <2>4, <3>3, <3>4, <4>3
    <3> QED BY <2>4, <3>1, <3>5, <3>6, <3>7, <3>8, <3>9, <3>10, <3>11 DEF Accounts
  <2>5. CASE a >= needed
    <3>1. new = [cap |-> [acc.cap EXCEPT ![c] = a - needed], resources |-> 0, percentage |-> 0,
                 action |-> [acc.action EXCEPT ![c] = @ + p]]
      BY <1>11, <2>5 DEF AllocateOn
    <3>2. needed \in Nat \ {0}
      <4>1. r * f \in Nat /\ r * f # 0
        BY <2>1
      <4>2. needed \in Nat /\ r * f <= needed * R
        BY <2>3, <4>1, CeilDivBounds
      <4>3. needed # 0
        BY <1>2, <4>1, <4>2
      <4> QED BY <4>2, <4>3
    <3>3. Cardinality(Taken(cap, acc) \cup {c}) \in Nat
      BY <1>9, FS_AddElement, FS_CardinalityType
    <3> DEFINE m == Cardinality(Taken(cap, acc) \cup {c})
    <3>4. 0 * Whole <= 0 * R /\ 0 * R <= (0 + m) * Whole
      BY <1>2, <3>3
    <3>5. a - needed \in Nat /\ a - needed < a /\ 0 = p - p
      BY <1>3, <2>5, <3>2
    <3> HIDE DEF needed, a, p, R, r, new, m
    <3> QED BY <2>3, <2>4, <3>1, <3>4, <3>5 DEF new, m
  <2>6. CASE ~(a >= needed)
    <3>1. new = [cap |-> [acc.cap EXCEPT ![c] = 0], resources |-> r - d, percentage |-> p - s,
                 action |-> [acc.action EXCEPT ![c] = @ + s]]
      BY <1>11, <2>6 DEF AllocateOn
    <3>2. a < needed
      <4>1. needed \in Nat
        <5>1. r * f \in Nat
          BY <2>1
        <5> QED BY <2>3, <5>1, CeilDivBounds
      <4> QED BY <1>3, <2>6, <4>1
    <3>3. /\ s \in Nat \ {0} /\ s <= p
          /\ d \in Nat /\ d <= r
          /\ (r - d) * Whole <= (p - s) * R
          /\ (p - s) * R <= ((r - d) + (n + 1)) * Whole
      <4>1. /\ Whole \in Nat \ {0} /\ R \in Nat \ {0} /\ f \in Nat \ {0} /\ Whole % f = 0
            /\ r \in Nat /\ p \in Nat /\ a \in Nat \ {0} /\ n \in Nat
        BY <1>2, <1>3, <1>9, <2>1, <2>3
      <4>2. r * Whole <= p * R /\ p * R <= (r + n) * Whole /\ a < CeilDiv(r * f, R)
        BY <1>8, <3>2
      <4> HIDE DEF r, p, a, R, f, n
      <4> QED BY <4>1, <4>2, PartialTurn
    <3>4. Cardinality(Taken(cap, acc) \cup {c}) = n + 1
      <4>1. c \notin Taken(cap, acc)
        BY <1>6, <2>1
      <4> QED BY <1>9, <4>1, FS_AddElement
    <3>5. r - d \in Nat /\ p - s \in Nat /\ 0 < a
      BY <1>3, <2>1, <3>3
    <3> HIDE DEF needed, a, p, R, r, new, s, d, n
    <3> QED BY <2>4, <3>1, <3>3, <3>4, <3>5 DEF new
  <2> QED BY <2>5, <2>6
<1> QED BY <1>10, <1>11

----------------------------------------------------------------------------
(* The allocation loop. *)

\* g holds the accounts after the turns of the candidates in each set of SS.
Turns(g, layer, cap, start, SS) ==
  g = [s \in SS |-> IF s = {} THEN Unplaced(layer, cap)
                    ELSE AllocateOn(layer, g[s \ {Farthest(start, cap, s)}], Farthest(start, cap, s))]

\* The allocation loop, as turns of the candidates.
LEMMA AllocateUnfolds ==
  ASSUME NEW layer, NEW cap, NEW start
  PROVE  Allocate(layer, cap, start)
           = (CHOOSE g : Turns(g, layer, cap, start, SUBSET Candidates(cap)))[Candidates(cap)]
BY DEF Allocate, MapThenFoldSet, Turns

\* Whatever the layer, the capacity and the starting chiplet, the loop ends
\* with sound accounts.
LEMMA AllocateKeeps ==
  ASSUME NEW layer \in LayerKinds, NEW cap \in [Chiplets -> Nat], NEW start \in Chiplets
  PROVE  Allocate(layer, cap, start) \in Accounts(layer, cap)
<1> DEFINE S == Candidates(cap)
           A == Accounts(layer, cap)
           base == Unplaced(layer, cap)
           pick == [s \in SUBSET S |-> Farthest(start, cap, s)]
           step == [t \in S \X A |-> AllocateOn(layer, t[2], t[1])]
           g == CHOOSE h : Turns(h, layer, cap, start, SUBSET S)
<1>1. S \in SUBSET Chiplets
  BY MapperAssumption DEF Candidates, Permitted
<1>2. IsFiniteSet(S)
  BY <1>1, FiniteChiplets
<1>3. \A s \in SUBSET S : pick[s] = Farthest(start, cap, s)
  OBVIOUS
<1>4. \A s \in SUBSET S : s # {} => pick[s] \in s
  BY <1>1, FarthestIsOne
<1>5. base \in A
  BY UnplacedAccounts
<1>6. \A x \in S, acc \in A : step[<<x, acc>>] = AllocateOn(layer, acc, x)
  OBVIOUS
<1>7. \A x \in S, acc \in A : AllocateOn(layer, acc, x) \in A
  BY AllocateOnKeeps
<1> HIDE DEF S, A, base, pick, step
<1>8. PICK h : Folds(h, base, step, pick, S)
  BY <1>2, <1>4, FoldExists
<1>9. \A s \in SUBSET S : h[s] = IF s = {} THEN base ELSE step[<<pick[s], h[s \ {pick[s]}]>>]
  BY <1>8 DEF Folds
<1>10. \A s \in SUBSET S : h[s] \in A
  <2>1. h[{}] \in A
    BY <1>5, <1>9
  <2>2. \A s \in SUBSET S : s # {} => pick[s] \in s /\ (h[s \ {pick[s]}] \in A => h[s] \in A)
    <3>1. SUFFICES ASSUME NEW s \in SUBSET S, s # {}, h[s \ {pick[s]}] \in A PROVE h[s] \in A
      BY <1>4
    <3>2. pick[s] \in S
      BY <1>4, <3>1
    <3>3. h[s] = step[<<pick[s], h[s \ {pick[s]}]>>]
      BY <1>9, <3>1
    <3>4. step[<<pick[s], h[s \ {pick[s]}]>>] = AllocateOn(layer, h[s \ {pick[s]}], pick[s])
      BY <1>6, <3>1, <3>2
    <3>5. AllocateOn(layer, h[s \ {pick[s]}], pick[s]) \in A
      BY <1>7, <3>1, <3>2
    <3> QED BY <3>3, <3>4, <3>5
  <2> QED BY <1>2, <2>1, <2>2, FoldKeeps
<1>11. \A s \in SUBSET S : h[s] = IF s = {} THEN base ELSE AllocateOn(layer, h[s \ {pick[s]}], pick[s])
  <2>1. ASSUME NEW s \in SUBSET S, s # {} PROVE h[s] = AllocateOn(layer, h[s \ {pick[s]}], pick[s])
    <3>1. pick[s] \in S /\ h[s \ {pick[s]}] \in A
      BY <1>4, <1>10, <2>1
    <3> QED BY <1>6, <1>9, <2>1, <3>1
  <2> QED BY <1>9, <2>1
<1>12. Turns(h, layer, cap, start, SUBSET S)
  <2>1. h = [s \in SUBSET S |-> h[s]]
    BY <1>8 DEF Folds
  <2>2. \A s \in SUBSET S :
          h[s] = IF s = {} THEN Unplaced(layer, cap)
                 ELSE AllocateOn(layer, h[s \ {Farthest(start, cap, s)}], Farthest(start, cap, s))
    BY <1>3, <1>11 DEF base
  <2> QED BY <2>1, <2>2 DEF Turns
<1>13. Turns(g, layer, cap, start, SUBSET S)
  BY <1>12
<1> HIDE DEF g
<1>14. \A s \in SUBSET S : g[s] = IF s = {} THEN base ELSE AllocateOn(layer, g[s \ {pick[s]}], pick[s])
  BY <1>3, <1>13 DEF Turns, base
<1>15. \A s \in SUBSET S : g[s] \in A
  <2>1. g[{}] \in A
    BY <1>5, <1>14
  <2>2. \A s \in SUBSET S : s # {} => pick[s] \in s /\ (g[s \ {pick[s]}] \in A => g[s] \in A)
    BY <1>4, <1>7, <1>14, ZenonT(40)
  <2> QED BY <1>2, <2>1, <2>2, FoldKeeps
<1>16. Allocate(layer, cap, start) = g[S]
  BY AllocateUnfolds DEF g, S
<1> QED BY <1>15, <1>16 DEF A

----------------------------------------------------------------------------
(* Mapping a model. *)

\* The invariant of a session: the two properties, which a step preserves only
\* together with the shape of what has been mapped so far.
SessionInv ==
  /\ available_units \in Capacities
  /\ NothingOverbooked
  /\ actions \in Seq([Chiplets -> Nat])
  /\ layers \in Seq(LayerKinds)
  /\ Len(actions) = Len(layers)
  /\ LayersPlacedOnce

\* A layer that the capacity or the previous layer rules out leaves everything
\* as it was; any other ends with sound accounts.
LEMMA MapLayerAccounts ==
  ASSUME NEW layer \in LayerKinds, NEW cap \in [Chiplets -> Nat], NEW acts \in Seq([Chiplets -> Nat])
  PROVE  LET got == MapLayer(layer, cap, acts)
         IN  \/ got = Failed("postponed", cap) \/ got = Failed("fatal", cap)
             \/ \E acc \in Accounts(layer, cap) :
                  \/ got = Failed("postponed", acc.cap)
                  \/ /\ acc.resources <= Slack
                     /\ got = [outcome |-> "mapped", cap |-> acc.cap, actions |-> Append(acts, acc.action)]
<1> DEFINE got == MapLayer(layer, cap, acts)
           first == acts = <<>>
           start == IF first THEN StartingChiplet(cap) ELSE LargestShare(Last(acts))
           acc == Allocate(layer, cap, start)
<1>1. CASE (first /\ Candidates(cap) = {}) \/ (~first /\ \A c \in Chiplets : Last(acts)[c] = 0)
  BY <1>1 DEF MapLayer
<1>2. CASE ~((first /\ Candidates(cap) = {}) \/ (~first /\ \A c \in Chiplets : Last(acts)[c] = 0))
  <2>1. start \in Chiplets
    <3>1. CASE first
      BY <1>2, <3>1, StartingChipletIsOne
    <3>2. CASE ~first
      <4>1. Chiplets # {}
        BY <1>2, <3>2
      <4>2. Last(acts) \in [Chiplets -> Nat]
        BY <3>2 DEF Last
      <4> QED BY <3>2, <4>1, <4>2, LargestShareIsOne
    <3> QED BY <3>1, <3>2
  <2> HIDE DEF start
  <2>2. acc \in Accounts(layer, cap)
    BY <2>1, AllocateKeeps
  <2>3. got = IF acc.resources - Slack > 0 THEN Failed("postponed", acc.cap)
              ELSE [outcome |-> "mapped", cap |-> acc.cap, actions |-> Append(acts, acc.action)]
    BY <1>2 DEF MapLayer, start
  <2> HIDE DEF acc, got
  <2>4. acc.resources \in Nat
    BY <2>2 DEF Accounts
  <2>5. got = Failed("postponed", acc.cap)
        \/ (acc.resources <= Slack
            /\ got = [outcome |-> "mapped", cap |-> acc.cap, actions |-> Append(acts, acc.action)])
    BY <2>3, <2>4 DEF Slack
  <2> QED BY <2>2, <2>5 DEF got
<1> QED BY <1>1, <1>2

\* A capacity with sound accounts books no chiplet twice.
LEMMA AccountsOverbookNothing ==
  ASSUME SessionInv, NEW layer \in LayerKinds, NEW acc \in Accounts(layer, temp)
  PROVE  /\ acc.cap \in Capacities
         /\ \A c \in Chiplets : acc.cap[c] <= available_units[c]
         /\ \A c \in Chiplets \ Permitted : ~IsIOChiplet(c) => acc.cap[c] = available_units[c]
<1>1. temp \in [Chiplets -> 0..MaxUnits] /\ \A c \in Chiplets : temp[c] <= Chiplet[c].units
  BY DEF SessionInv, NothingOverbooked, Capacities
<1>2. acc.cap \in [Chiplets -> Nat] /\ \A c \in Chiplets : acc.cap[c] <= temp[c]
  BY DEF Accounts
<1>3. \A c \in Chiplets : Chiplet[c].units \in Nat
  BY SystemAssumption DEF ChipletSpec
<1>4. \A c \in Chiplets : available_units[c] \in Nat /\ temp[c] <= available_units[c]
  BY SystemAssumption DEF SessionInv, NothingOverbooked, Capacities
<1>5. \A c \in Chiplets : temp[c] \in Nat /\ acc.cap[c] \in Nat
  BY <1>1, <1>2
<1>6. \A c \in Chiplets : acc.cap[c] \in 0..MaxUnits /\ acc.cap[c] <= Chiplet[c].units
  BY <1>1, <1>2, <1>3, <1>5, SystemAssumption
<1>7. acc.cap \in Capacities
  BY <1>2, <1>6 DEF Capacities
<1>8. \A c \in Chiplets : acc.cap[c] <= available_units[c]
  BY <1>2, <1>4, <1>5
<1>9. \A c \in Chiplets \ Permitted : acc.cap[c] = temp[c]
  BY DEF Accounts, Candidates
<1>10. \A c \in Chiplets \ Permitted : ~IsIOChiplet(c) => temp[c] = available_units[c]
  BY DEF SessionInv, NothingOverbooked
<1> QED BY <1>7, <1>8, <1>9, <1>10

\* A layer with sound accounts that leaves at most the Slack is placed once.
LEMMA AccountsPlaceOnce ==
  ASSUME NEW layer \in LayerKinds, NEW cap, NEW acc \in Accounts(layer, cap), acc.resources <= Slack
  PROVE  LET missing == Whole - ShareTotal(acc.action)
         IN  /\ missing >= 0
             /\ missing * CrossbarsRequired(layer) <= (Slack + NumChiplets) * Whole
<1> DEFINE n == Cardinality(Taken(cap, acc))
           p == acc.percentage
           r == acc.resources
<1>1. p \in Nat /\ r \in Nat /\ ShareTotal(acc.action) = Whole - p
  BY DEF Accounts, ShareTotal
<1>2. p * CrossbarsRequired(layer) <= (r + n) * Whole
  BY DEF Accounts
<1>3. n \in Nat /\ n <= NumChiplets /\ NumChiplets \in Nat /\ Whole \in Nat
  BY TakenFinite, SystemAssumption, MapperAssumption
<1>4. p * CrossbarsRequired(layer) \in Nat
  BY <1>1, CrossbarsNat
<1> HIDE DEF n, p, r
<1>5. \A i, j \in Int : i <= j => i * Whole <= j * Whole
  BY <1>3
<1>6. r + n <= Slack + NumChiplets /\ r + n \in Int /\ Slack + NumChiplets \in Int
  BY <1>1, <1>3 DEF Slack, r
<1>7. (r + n) * Whole <= (Slack + NumChiplets) * Whole
  BY <1>5, <1>6
<1>8. (r + n) * Whole \in Int /\ (Slack + NumChiplets) * Whole \in Int
  BY <1>3, <1>6
<1> DEFINE x == p * CrossbarsRequired(layer)
           y == (r + n) * Whole
           z == (Slack + NumChiplets) * Whole
<1> HIDE DEF x, y, z
<1>9. x <= z
  <2>1. x \in Int /\ y \in Int /\ z \in Int /\ x <= y /\ y <= z
    BY <1>2, <1>4, <1>7, <1>8 DEF x, y, z
  <2> QED BY <2>1
<1>10. Whole - (Whole - p) = p
  BY <1>1, <1>3
<1> QED BY <1>1, <1>9, <1>10 DEF x, z

\* Mapping one more layer keeps the invariant.
LEMMA MapNextLayerKeeps ==
  ASSUME SessionInv, NEW layer \in LayerKinds, MapNextLayer(layer)
  PROVE  /\ SessionInv'
         /\ outcome' = "mapped" =>
              \A c \in Chiplets : (Last(actions')[c] > 0) <=> (temp'[c] < temp[c])
<1> DEFINE got == MapLayer(layer, temp, actions)
<1>1. /\ outcome' = got.outcome /\ temp' = got.cap
      /\ actions' = (IF got.outcome = "mapped" THEN got.actions ELSE <<>>)
      /\ layers' = (IF got.outcome = "mapped" THEN Append(layers, layer) ELSE <<>>)
      /\ available_units' = available_units
  BY DEF MapNextLayer
<1>2. \/ got.outcome # "mapped" /\ got.cap = temp
      \/ \E acc \in Accounts(layer, temp) :
           /\ got.cap = acc.cap
           /\ got.outcome = "mapped" =>
                acc.resources <= Slack /\ got.actions = Append(actions, acc.action)
  <2>1. temp \in [Chiplets -> Nat] /\ actions \in Seq([Chiplets -> Nat])
    BY SystemAssumption DEF SessionInv, NothingOverbooked, Capacities
  <2>2. \/ got = Failed("postponed", temp) \/ got = Failed("fatal", temp)
        \/ \E acc \in Accounts(layer, temp) :
             \/ got = Failed("postponed", acc.cap)
             \/ /\ acc.resources <= Slack
                /\ got = [outcome |-> "mapped", cap |-> acc.cap, actions |-> Append(actions, acc.action)]
    BY <2>1, MapLayerAccounts
  <2> HIDE DEF got
  <2> QED BY <2>2 DEF Failed
<1> HIDE DEF got
<1>3. actions \in Seq([Chiplets -> Nat]) /\ layers \in Seq(LayerKinds) /\ Len(actions) = Len(layers)
  BY DEF SessionInv
<1>4. NothingOverbooked'
  <2>1. CASE got.cap = temp
    BY <1>1, <2>1 DEF SessionInv, NothingOverbooked, Capacities
  <2>2. CASE \E acc \in Accounts(layer, temp) : got.cap = acc.cap
    <3>1. PICK acc \in Accounts(layer, temp) : got.cap = acc.cap
      BY <2>2
    <3>2. /\ temp' \in Capacities
          /\ \A c \in Chiplets : temp'[c] <= available_units'[c]
          /\ \A c \in Chiplets \ Permitted : ~IsIOChiplet(c) => temp'[c] = available_units'[c]
      BY <1>1, <3>1, AccountsOverbookNothing
    <3> QED BY <3>2 DEF NothingOverbooked, Capacities
  <2> QED BY <1>2, <2>1, <2>2
<1>5. available_units' \in Capacities
  BY <1>1 DEF SessionInv
<1>6. CASE got.outcome # "mapped"
  <2>1. actions' = <<>> /\ layers' = <<>> /\ outcome' # "mapped"
    BY <1>1, <1>6
  <2>2. actions' \in Seq([Chiplets -> Nat]) /\ layers' \in Seq(LayerKinds) /\ Len(actions') = Len(layers')
    BY <2>1
  <2>3. LayersPlacedOnce'
    BY <2>1 DEF LayersPlacedOnce
  <2> QED BY <1>4, <1>5, <2>1, <2>2, <2>3 DEF SessionInv
<1>7. CASE got.outcome = "mapped"
  <2>1. PICK acc \in Accounts(layer, temp) :
          got.cap = acc.cap /\ acc.resources <= Slack /\ got.actions = Append(actions, acc.action)
    BY <1>2, <1>7
  <2>2. actions' = Append(actions, acc.action) /\ layers' = Append(layers, layer) /\ temp' = acc.cap
    BY <1>1, <1>7, <2>1
  <2>3. acc.action \in [Chiplets -> Nat]
    BY DEF Accounts
  <2> DEFINE k == Len(actions)
  <2>4. /\ actions' \in Seq([Chiplets -> Nat]) /\ Len(actions') = k + 1
        /\ actions'[k + 1] = acc.action /\ \A i \in 1..k : actions'[i] = actions[i]
    BY <1>3, <2>2, <2>3, AppendProperties
  <2>5. /\ layers' \in Seq(LayerKinds) /\ Len(layers') = k + 1
        /\ layers'[k + 1] = layer /\ \A i \in 1..k : layers'[i] = layers[i]
    BY <1>3, <2>2, AppendProperties
  <2>6. k \in Nat /\ DOMAIN actions = 1..k /\ DOMAIN actions' = 1..(k + 1)
    BY <1>3, <2>4, LenProperties
  <2> DEFINE Placed(action, l) ==
               LET missing == Whole - ShareTotal(action)
               IN  /\ missing >= 0
                   /\ missing * CrossbarsRequired(l) <= (Slack + NumChiplets) * Whole
  <2>7. Placed(acc.action, layer)
    BY <2>1, AccountsPlaceOnce
  <2>8. \A i \in 1..k : Placed(actions[i], layers[i])
    BY <2>6 DEF SessionInv, LayersPlacedOnce
  <2>9. LayersPlacedOnce'
    <3>1. SUFFICES \A i \in 1..(k + 1) : Placed(actions'[i], layers'[i])
      BY <2>6 DEF LayersPlacedOnce, ShareTotal
    <3> HIDE DEF Placed
    <3>2. SUFFICES ASSUME NEW i \in 1..(k + 1) PROVE Placed(actions'[i], layers'[i])
      OBVIOUS
    <3>3. i \in 1..k \/ i = k + 1
      BY <2>6
    <3>4. CASE i \in 1..k
      BY <2>4, <2>5, <2>8, <3>4
    <3>5. CASE i = k + 1
      BY <2>4, <2>5, <2>7, <3>5
    <3> QED BY <3>3, <3>4, <3>5
  <2>10. Last(actions') = acc.action
    BY <2>4 DEF Last
  <2>11. \A c \in Chiplets : acc.action[c] > 0 <=> acc.cap[c] < temp[c]
    BY DEF Accounts
  <2>12. \A c \in Chiplets : (Last(actions')[c] > 0) <=> (temp'[c] < temp[c])
    BY <2>2, <2>10, <2>11
  <2>13. Len(actions') = Len(layers')
    BY <2>4, <2>5
  <2> QED BY <1>4, <1>5, <2>4, <2>5, <2>9, <2>12, <2>13 DEF SessionInv
<1> QED BY <1>6, <1>7

\* generate_mapping keeps its books for every array, network, preference and
\* sequence of layers: capacities, shares and layers stay in step.
THEOREM SessionInvariant == SessionSpec => []SessionInv
<1>1. SessionInit => SessionInv
  <2>1. SUFFICES ASSUME SessionInit PROVE SessionInv
    OBVIOUS
  <2>2. available_units \in Capacities /\ temp = WithoutIO(available_units) /\ actions = <<>> /\ layers = <<>>
    BY <2>1 DEF SessionInit
  <2>3. available_units \in [Chiplets -> 0..MaxUnits] /\ \A c \in Chiplets : available_units[c] <= Chiplet[c].units
    BY <2>2 DEF Capacities
  <2>4. \A c \in Chiplets : temp[c] = IF IsIOChiplet(c) THEN 0 ELSE available_units[c]
    BY <2>2 DEF WithoutIO
  <2>5. \A c \in Chiplets : temp[c] \in 0..MaxUnits /\ temp[c] <= available_units[c] /\ temp[c] <= Chiplet[c].units
    <3>1. \A c \in Chiplets : Chiplet[c].units \in Nat /\ available_units[c] \in 0..MaxUnits
      BY <2>3, SystemAssumption DEF ChipletSpec
    <3> QED BY <2>3, <2>4, <3>1, SystemAssumption
  <2>6. temp \in Capacities
    <3>1. temp \in [Chiplets -> 0..MaxUnits]
      BY <2>2, <2>5 DEF WithoutIO
    <3> QED BY <2>5, <3>1 DEF Capacities
  <2>7. NothingOverbooked
    BY <2>4, <2>5, <2>6 DEF NothingOverbooked
  <2>8. actions \in Seq([Chiplets -> Nat]) /\ layers \in Seq(LayerKinds) /\ Len(actions) = Len(layers)
    BY <2>2
  <2>9. LayersPlacedOnce
    BY <2>2 DEF LayersPlacedOnce
  <2> QED BY <2>2, <2>7, <2>8, <2>9 DEF SessionInv
<1>2. SessionInv /\ [SessionNext]_sessionVars => SessionInv'
  <2>1. SUFFICES ASSUME SessionInv, [SessionNext]_sessionVars PROVE SessionInv'
    OBVIOUS
  <2>2. ASSUME NEW layer \in LayerKinds, MapNextLayer(layer) PROVE SessionInv'
    BY <2>1, <2>2, MapNextLayerKeeps
  <2>3. CASE UNCHANGED sessionVars
    <3>1. UNCHANGED <<available_units, temp, actions, layers>>
      BY <2>3 DEF sessionVars
    <3>2. available_units' \in Capacities /\ NothingOverbooked'
      BY <2>1, <3>1 DEF SessionInv, NothingOverbooked, Capacities
    <3>3. LayersPlacedOnce'
      BY <2>1, <3>1 DEF SessionInv, LayersPlacedOnce, ShareTotal
    <3> QED BY <2>1, <3>1, <3>2, <3>3 DEF SessionInv
  <2> QED BY <2>1, <2>2, <2>3 DEF SessionNext, SessionOver
<1> QED BY <1>1, <1>2, PTL DEF SessionSpec

\* No session takes more units from a chiplet than are available, or any from
\* one that must not be used.
THEOREM NoChipletOverbooked == SessionSpec => []NothingOverbooked
<1>1. SessionInv => NothingOverbooked
  BY DEF SessionInv
<1> QED BY <1>1, SessionInvariant, PTL

\* Every mapped layer is placed once, up to the Slack and the rounding.
THEOREM LayersArePlacedOnce == SessionSpec => []LayersPlacedOnce
<1>1. SessionInv => LayersPlacedOnce
  BY DEF SessionInv
<1> QED BY <1>1, SessionInvariant, PTL

\* Units and shares go together: no chiplet gives units for nothing, and none
\* holds a share it has no units for.
THEOREM SharesAreBacked == SessionSpec => SharesArePaidFor
<1>1. SessionInv /\ [SessionNext]_sessionVars =>
        [outcome' = "mapped" =>
           \A c \in Chiplets : (Last(actions')[c] > 0) <=> (temp'[c] < temp[c])]_sessionVars
  <2>1. SUFFICES ASSUME SessionInv, SessionNext, ~(UNCHANGED sessionVars), outcome' = "mapped"
                 PROVE  \A c \in Chiplets : (Last(actions')[c] > 0) <=> (temp'[c] < temp[c])
    OBVIOUS
  <2>2. PICK layer \in LayerKinds : MapNextLayer(layer)
    BY <2>1 DEF SessionNext, SessionOver
  <2> QED BY <2>1, <2>2, MapNextLayerKeeps
<1> QED BY <1>1, SessionInvariant, PTL DEF SessionSpec, SharesArePaidFor

----------------------------------------------------------------------------
(* generate_mapping as a function of the capacity and the layers. *)

\* What generate_mapping may return when cap units are left
Results(cap) ==
  {r \in [outcome : {"mapped", "postponed", "fatal"}, cap : [Chiplets -> Nat],
          actions : Seq([Chiplets -> Nat])] : \A c \in Chiplets : r.cap[c] <= cap[c]}

MapNext(r, layer) == IF r.outcome = "mapped" THEN MapLayer(layer, r.cap, r.actions) ELSE r

\* Mapping one more layer keeps to the contract.
LEMMA MapNextKeeps ==
  ASSUME NEW cap \in [Chiplets -> Nat], NEW r \in Results(cap), NEW layer \in LayerKinds
  PROVE  MapNext(r, layer) \in Results(cap)
<1> DEFINE got == MapLayer(layer, r.cap, r.actions)
<1>1. /\ r.cap \in [Chiplets -> Nat] /\ r.actions \in Seq([Chiplets -> Nat])
      /\ \A c \in Chiplets : r.cap[c] <= cap[c]
  BY DEF Results
<1>2. \/ got = Failed("postponed", r.cap) \/ got = Failed("fatal", r.cap)
      \/ \E acc \in Accounts(layer, r.cap) :
           \/ got = Failed("postponed", acc.cap)
           \/ /\ acc.resources <= Slack
              /\ got = [outcome |-> "mapped", cap |-> acc.cap, actions |-> Append(r.actions, acc.action)]
  BY <1>1, MapLayerAccounts
<1>3. <<>> \in Seq([Chiplets -> Nat])
  OBVIOUS
<1>4. ASSUME NEW o \in {"postponed", "fatal"}, NEW left \in [Chiplets -> Nat],
             \A c \in Chiplets : left[c] <= cap[c]
      PROVE  Failed(o, left) \in Results(cap)
  BY <1>3, <1>4 DEF Failed, Results
<1>5. ASSUME NEW acc \in Accounts(layer, r.cap)
      PROVE  /\ acc.cap \in [Chiplets -> Nat] /\ acc.action \in [Chiplets -> Nat]
             /\ \A c \in Chiplets : acc.cap[c] <= cap[c]
  <2>1. /\ acc.cap \in [Chiplets -> Nat] /\ acc.action \in [Chiplets -> Nat]
        /\ \A c \in Chiplets : acc.cap[c] <= r.cap[c]
    BY <1>5 DEF Accounts
  <2> QED BY <1>1, <2>1
<1>6. ASSUME NEW acc \in Accounts(layer, r.cap)
      PROVE  [outcome |-> "mapped", cap |-> acc.cap, actions |-> Append(r.actions, acc.action)] \in Results(cap)
  <2>1. Append(r.actions, acc.action) \in Seq([Chiplets -> Nat])
    BY <1>1, <1>5, AppendProperties
  <2> QED BY <1>5, <2>1 DEF Results
<1> HIDE DEF got
<1>7. got \in Results(cap)
  <2>1. CASE got = Failed("postponed", r.cap) \/ got = Failed("fatal", r.cap)
    BY <1>1, <1>4, <2>1
  <2>2. ASSUME NEW acc \in Accounts(layer, r.cap), got = Failed("postponed", acc.cap)
        PROVE  got \in Results(cap)
    BY <1>4, <1>5, <2>2
  <2>3. ASSUME NEW acc \in Accounts(layer, r.cap),
               got = [outcome |-> "mapped", cap |-> acc.cap, actions |-> Append(r.actions, acc.action)]
        PROVE  got \in Results(cap)
    BY <1>6, <2>3
  <2> QED BY <1>2, <2>1, <2>2, <2>3
<1> QED BY <1>7 DEF MapNext, got

\* g holds the results after the layers with the numbers in each set of SS.
Rounds(g, base, model, SS) ==
  g = [s \in SS |-> IF s = {} THEN base ELSE MapNext(g[s \ {Max(s)}], model[Max(s)])]

\* generate_mapping, as rounds over the layers.
LEMMA MapAllLayersUnfolds ==
  ASSUME NEW cap, NEW model
  PROVE  LET base == [outcome |-> "mapped", cap |-> WithoutIO(cap), actions |-> <<>>]
         IN  MapAllLayers(cap, model) = (CHOOSE g : Rounds(g, base, model, SUBSET DOMAIN model))[DOMAIN model]
BY DEF MapAllLayers, FoldLeft, MapThenFoldSet, Rounds, MapNext

\* A nonempty set of the first numbers has a maximum.
LEMMA MaxOfNumbers ==
  ASSUME NEW n \in Nat, NEW s \in SUBSET (1..n), s # {}
  PROVE  Max(s) \in s
<1> DEFINE T == {n - x : x \in s}
<1>0. \A x \in s : x \in 1..n
  OBVIOUS
<1>1. T \in SUBSET Nat /\ T # {}
  <2>1. \A x \in s : n - x \in Nat
    <3>1. \A x \in 1..n : n - x \in Nat
      OBVIOUS
    <3> QED BY <1>0, <3>1
  <2>2. T \in SUBSET Nat
    BY <2>1
  <2>3. PICK x \in s : TRUE
    OBVIOUS
  <2>4. n - x \in T
    OBVIOUS
  <2> QED BY <2>2, <2>4
<1>2. PICK t \in T : \A u \in T : t <= u
  <2> HIDE DEF T
  <2> QED BY <1>1, LeastElement
<1>3. PICK x \in s : t = n - x
  OBVIOUS
<1>4. \A y \in s : x >= y
  <2>1. SUFFICES ASSUME NEW y \in s PROVE x >= y
    OBVIOUS
  <2>2. n - x <= n - y
    BY <1>2, <1>3
  <2>3. x \in 1..n /\ y \in 1..n
    BY <1>0
  <2> QED BY <2>2, <2>3
<1> QED BY <1>4 DEF Max

\* The nearest-neighbour mapper keeps the contract on which every theorem about
\* the simulation loop rests: it returns one of the three outcomes, takes units
\* away and never invents any, whatever the array, its capacity and the model.
THEOREM MapperKeepsContract ==
  ASSUME NEW a \in Capacities, NEW model \in Seq(LayerKinds)
  PROVE  LET r == MapAllLayers(a, model)
         IN  /\ r.outcome \in {"mapped", "postponed", "fatal"}
             /\ r.cap \in Capacities
             /\ \A c \in Chiplets : r.cap[c] <= a[c]
<1> DEFINE base == [outcome |-> "mapped", cap |-> WithoutIO(a), actions |-> <<>>]
           S == DOMAIN model
           A == Results(a)
           pick == [s \in SUBSET S |-> Max(s)]
           step == [t \in S \X A |-> MapNext(t[2], model[t[1]])]
           g == CHOOSE h : Rounds(h, base, model, SUBSET S)
<1>1. /\ a \in [Chiplets -> Nat] /\ a \in [Chiplets -> 0..MaxUnits]
      /\ \A c \in Chiplets : a[c] <= Chiplet[c].units
  BY SystemAssumption DEF Capacities
<1>2. base \in A
  <2>1. WithoutIO(a) \in [Chiplets -> Nat] /\ \A c \in Chiplets : WithoutIO(a)[c] <= a[c]
    BY <1>1 DEF WithoutIO
  <2>2. <<>> \in Seq([Chiplets -> Nat])
    OBVIOUS
  <2> QED BY <2>1, <2>2 DEF Results
<1>3. S = 1..Len(model) /\ Len(model) \in Nat
  BY LenProperties
<1>4. \A i \in S : model[i] \in LayerKinds
  BY ElementOfSeq, <1>3
<1>5. IsFiniteSet(S)
  BY <1>3, FS_Interval
<1>6. \A s \in SUBSET S : pick[s] = Max(s)
  OBVIOUS
<1>7. \A s \in SUBSET S : s # {} => pick[s] \in s
  BY <1>3, MaxOfNumbers
<1>8. \A i \in S, r \in A : step[<<i, r>>] = MapNext(r, model[i])
  OBVIOUS
<1>9. \A i \in S, r \in A : MapNext(r, model[i]) \in A
  BY <1>1, <1>4, MapNextKeeps
<1> HIDE DEF S, A, base, pick, step
<1>10. PICK h : Folds(h, base, step, pick, S)
  BY <1>5, <1>7, FoldExists
<1>11. \A s \in SUBSET S : h[s] = IF s = {} THEN base ELSE step[<<pick[s], h[s \ {pick[s]}]>>]
  BY <1>10 DEF Folds
<1>12. \A s \in SUBSET S : h[s] \in A
  <2>1. h[{}] \in A
    BY <1>2, <1>11
  <2>2. \A s \in SUBSET S : s # {} => pick[s] \in s /\ (h[s \ {pick[s]}] \in A => h[s] \in A)
    <3>1. SUFFICES ASSUME NEW s \in SUBSET S, s # {}, h[s \ {pick[s]}] \in A PROVE h[s] \in A
      BY <1>7
    <3>2. pick[s] \in S
      BY <1>7, <3>1
    <3>3. h[s] = step[<<pick[s], h[s \ {pick[s]}]>>]
      BY <1>11, <3>1
    <3>4. step[<<pick[s], h[s \ {pick[s]}]>>] = MapNext(h[s \ {pick[s]}], model[pick[s]])
      BY <1>8, <3>1, <3>2
    <3>5. MapNext(h[s \ {pick[s]}], model[pick[s]]) \in A
      BY <1>9, <3>1, <3>2
    <3> QED BY <3>3, <3>4, <3>5
  <2> QED BY <1>5, <2>1, <2>2, FoldKeeps
<1>13. \A s \in SUBSET S : h[s] = IF s = {} THEN base ELSE MapNext(h[s \ {pick[s]}], model[pick[s]])
  <2>1. ASSUME NEW s \in SUBSET S, s # {} PROVE h[s] = MapNext(h[s \ {pick[s]}], model[pick[s]])
    <3>1. pick[s] \in S /\ h[s \ {pick[s]}] \in A
      BY <1>7, <1>12, <2>1
    <3> QED BY <1>8, <1>11, <2>1, <3>1
  <2> QED BY <1>11, <2>1
<1>14. Rounds(h, base, model, SUBSET S)
  <2>1. h = [s \in SUBSET S |-> h[s]]
    BY <1>10 DEF Folds
  <2>2. \A s \in SUBSET S : h[s] = IF s = {} THEN base ELSE MapNext(h[s \ {Max(s)}], model[Max(s)])
    BY <1>6, <1>13
  <2> QED BY <2>1, <2>2 DEF Rounds
<1>15. Rounds(g, base, model, SUBSET S)
  BY <1>14
<1> HIDE DEF g
<1>16. \A s \in SUBSET S : g[s] = IF s = {} THEN base ELSE MapNext(g[s \ {pick[s]}], model[pick[s]])
  BY <1>6, <1>15 DEF Rounds
<1>17. \A s \in SUBSET S : g[s] \in A
  <2>1. g[{}] \in A
    BY <1>2, <1>16
  <2>2. \A s \in SUBSET S : s # {} => pick[s] \in s /\ (g[s \ {pick[s]}] \in A => g[s] \in A)
    <3>1. SUFFICES ASSUME NEW s \in SUBSET S, s # {}, g[s \ {pick[s]}] \in A PROVE g[s] \in A
      BY <1>7
    <3>2. pick[s] \in S
      BY <1>7, <3>1
    <3> QED BY <1>7, <1>9, <1>16, <3>1, <3>2
  <2> QED BY <1>5, <2>1, <2>2, FoldKeeps
<1>18. MapAllLayers(a, model) = g[S]
  BY MapAllLayersUnfolds DEF g, base, S
<1> DEFINE r == MapAllLayers(a, model)
<1>19. r \in Results(a)
  BY <1>17, <1>18 DEF A
<1> HIDE DEF r
<1>20. /\ r.outcome \in {"mapped", "postponed", "fatal"} /\ r.cap \in [Chiplets -> Nat]
       /\ \A c \in Chiplets : r.cap[c] <= a[c]
  BY <1>19 DEF Results
<1>21. \A c \in Chiplets : r.cap[c] \in 0..MaxUnits /\ r.cap[c] <= Chiplet[c].units
  <2>1. \A c \in Chiplets : Chiplet[c].units \in Nat /\ a[c] \in 0..MaxUnits /\ r.cap[c] \in Nat
    BY <1>1, <1>20, SystemAssumption DEF ChipletSpec
  <2> QED BY <1>1, <1>20, <2>1, SystemAssumption
<1>22. r.cap \in Capacities
  BY <1>20, <1>21 DEF Capacities
<1> QED BY <1>20, <1>22 DEF r
=============================================================================
