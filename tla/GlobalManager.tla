--------------------------- MODULE GlobalManager ---------------------------
(***************************************************************************)
(* The simulation loop: GlobalManager.run_simulation in                    *)
(* src/src/sim/global_manager.py, with the admission queue                 *)
(* (WorkloadManager) and the capacity accounting (System) it drives.       *)
(*                                                                         *)
(* Each pass of the loop goes through the stages                           *)
(*   collect -> inject -> communicate -> retire -> collect ...             *)
(* Mapping is a parameter with a contract, so that what is proved here     *)
(* holds for every mapping function; what goes on inside an active model   *)
(* is abstracted to the moment its last phase completes (module            *)
(* PhaseExecution models it).                                              *)
(***************************************************************************)
EXTENDS WorkloadManager, System

CONSTANTS
  KnownModels,             \* entries whose network is in model_definitions
  ModelWeights,            \* get_model_memory_requirement of each entry
  GenerateMapping(_, _),   \* possible results of generate_mapping
  TimeStep,                \* time_step_us
  Horizon                  \* bound: global_time_us saturates here

\* mapped: placed, leaving cap.  postponed: INSUFFICIENT_MEMORY or
\* NO_AVAILABLE_CHIPLETS.  fatal: any other reason, or an exception.
Outcomes == {"mapped", "postponed", "fatal"}

ASSUME ModelAssumption ==
  /\ KnownModels \subseteq Models
  /\ ModelWeights \in [Models -> Nat]
  /\ TimeStep \in Nat \ {0}
  /\ Horizon \in Nat
  /\ \A m \in Models : InjectTime[m] <= Horizon

\* The mapper's contract: it takes units away and never invents any.
ASSUME MappingAssumption ==
  \A a \in Capacities, m \in Models : \A r \in GenerateMapping(a, m) :
    /\ r.outcome \in Outcomes
    /\ r.outcome = "mapped" => /\ r.cap \in Capacities
                               /\ \A c \in Chiplets : r.cap[c] <= a[c]

VARIABLES
  stage,            \* where run_simulation is in its loop
  global_time,      \* global_time_us
  pending,          \* models_to_inject not yet looked at in this pass
  active_models,    \* keys of active_mapped_models
  retired_models,   \* keys of retired_mapped_models
  finished,         \* active models that is_complete accepts in this pass
  used_capacity     \* used_capacity of each mapped model

managerVars == <<stage, global_time, pending, active_models, retired_models,
                 finished, used_capacity>>
vars == <<workloadVars, available_units, managerVars>>

Stages == {"collect", "inject", "communicate", "retire", "done", "exit"}
Nothing == [c \in Chiplets |-> 0]

TypeOK ==
  /\ WorkloadTypeOK
  /\ available_units \in Capacities
  /\ stage \in Stages
  /\ global_time \in Nat
  /\ pending \in SUBSET Models
  /\ active_models \in SUBSET Models
  /\ retired_models \in SUBSET Models
  /\ finished \in SUBSET Models
  /\ used_capacity \in [Models -> Capacities]

\* run_simulation exits at once on an empty workload.
Init ==
  /\ WorkloadInit
  /\ SystemInit
  /\ stage = IF GetRemainingCount = 0 THEN "exit" ELSE "collect"
  /\ global_time = 0
  /\ pending = {}
  /\ active_models = {}
  /\ retired_models = {}
  /\ finished = {}
  /\ used_capacity = [m \in Models |-> Nothing]

----------------------------------------------------------------------------
\* Mutant: the loop ends once everything has been injected.
MoreToInject == GetRemainingCount > 0

\* The loop condition: while get_remaining_count() > 0 or active_mapped_models.
MoreToDo == GetRemainingCount > 0 \/ active_models # {}

Collect ==
  /\ stage = "collect"
  /\ MoreToDo
  /\ GetModelsToInject(global_time)
  /\ pending' = ready_models'
  /\ stage' = "inject"
  /\ UNCHANGED <<available_units, global_time, active_models, retired_models,
                 finished, used_capacity>>

Finish ==
  /\ stage = "collect"
  /\ ~MoreToDo
  /\ stage' = "done"
  /\ UNCHANGED <<workloadVars, available_units, global_time, pending,
                 active_models, retired_models, finished, used_capacity>>

\* The injection loop looks at the pending models oldest first.
Visit(m) == stage = "inject" /\ m \in pending /\ \A k \in pending : m <= k

\* The network is known and not too large for the whole system.
Admissible(m) == m \in KnownModels /\ CanModelEverFit(ModelWeights[m])

\* sys.exit, or an exception that escapes generate_mapping.
AbortSimulation(m) ==
  /\ Visit(m)
  /\ \/ ~Admissible(m)
     \/ /\ CanModelFitNow(ModelWeights[m])
        /\ \E r \in GenerateMapping(available_units, m) : r.outcome = "fatal"
  /\ stage' = "exit"
  /\ UNCHANGED <<workloadVars, available_units, global_time, pending,
                 active_models, retired_models, finished, used_capacity>>

\* The pre-check or the mapping fails for lack of room: the model ages, and
\* once it blocks, the pass looks at no younger model.
PostponeModel(m) ==
  /\ Visit(m)
  /\ Admissible(m)
  /\ \/ ~CanModelFitNow(ModelWeights[m])
     \/ \E r \in GenerateMapping(available_units, m) : r.outcome = "postponed"
  /\ IncrementFailureAge(m)
  /\ pending' = IF IsModelBlocking(m, failure_age') THEN {} ELSE pending \ {m}
  /\ UNCHANGED <<available_units, stage, global_time, active_models,
                 retired_models, finished, used_capacity>>

\* Mutant: the operands of the difference are swapped.
UsedCapacitySwapped(before, after) == [c \in Chiplets |-> after[c] - before[c]]

\* What generate_mapping reports as used_capacity.
UsedCapacity(before, after) == [c \in Chiplets |-> before[c] - after[c]]

\* generate_mapping commits the remaining capacity; the model becomes active.
InjectModel(m) ==
  /\ Visit(m)
  /\ Admissible(m)
  /\ CanModelFitNow(ModelWeights[m])
  /\ \E r \in GenerateMapping(available_units, m) :
       /\ r.outcome = "mapped"
       /\ UpdateCapacityAvailability(r.cap)
       /\ used_capacity' = [used_capacity EXCEPT ![m] = UsedCapacity(available_units, r.cap)]
  /\ MarkModelInjected(m)
  /\ active_models' = active_models \cup {m}
  /\ pending' = pending \ {m}
  /\ UNCHANGED <<stage, global_time, retired_models, finished>>

EndInjection ==
  /\ stage = "inject"
  /\ pending = {}
  /\ stage' = "communicate"
  /\ UNCHANGED <<workloadVars, available_units, global_time, pending,
                 active_models, retired_models, finished, used_capacity>>

\* simulate_communication and calculate_phase_timing: done are the active
\* models whose completion time has then been reached.
SimulateCommunication(done) ==
  /\ stage = "communicate"
  /\ finished' = done
  /\ stage' = "retire"
  /\ UNCHANGED <<workloadVars, available_units, global_time, pending,
                 active_models, retired_models, used_capacity>>

\* Mutant: retirement frees nothing.
NothingFreed(m) == available_units

\* new_available_capacity
CapacityAfterRetiring(m) == [c \in Chiplets |-> available_units[c] + used_capacity[m][c]]

\* A complete model gives its units back.
RetireModel(m) ==
  /\ stage = "retire"
  /\ m \in finished
  /\ finished' = finished \ {m}
  /\ retired_models' = retired_models \cup {m}
  /\ active_models' = active_models \ {m}
  /\ UpdateCapacityAvailability(CapacityAfterRetiring(m))
  /\ UNCHANGED <<workloadVars, stage, global_time, pending, used_capacity>>

AdvanceTime ==
  /\ stage = "retire"
  /\ finished = {}
  /\ global_time' = IF global_time < Horizon THEN global_time + TimeStep ELSE global_time
  /\ stage' = "collect"
  /\ UNCHANGED <<workloadVars, available_units, pending, active_models,
                 retired_models, finished, used_capacity>>

\* run_simulation has returned, or the process has exited.
Terminated == stage \in {"done", "exit"} /\ UNCHANGED vars

Next ==
  \/ Collect
  \/ Finish
  \/ \E m \in Models : AbortSimulation(m)
  \/ \E m \in Models : PostponeModel(m)
  \/ \E m \in Models : InjectModel(m)
  \/ EndInjection
  \/ \E done \in SUBSET active_models : SimulateCommunication(done)
  \/ \E m \in Models : RetireModel(m)
  \/ AdvanceTime
  \/ Terminated

Spec == Init /\ [][Next]_vars

\* The loop never stops by itself, and an active model's phases complete
\* after finitely many passes.
Fairness ==
  /\ WF_vars(Next)
  /\ \A m \in Models :
       SF_vars(\E done \in SUBSET active_models : m \in done /\ SimulateCommunication(done))

FairSpec == Spec /\ Fairness

----------------------------------------------------------------------------
\* The numbers f[1], ..., f[NumModels] add up to s: p holds the running totals.
SumsTo(f, s) ==
  \E p \in [0..NumModels -> 0..s] :
    /\ p[0] = 0
    /\ p[NumModels] = s
    /\ \A n \in Models : p[n] = p[n - 1] + f[n]

\* Units of chiplet c that each model holds.
Holdings(c) == [m \in Models |-> IF m \in active_models THEN used_capacity[m][c] ELSE 0]

\* The units missing from a chiplet are exactly those the active models hold:
\* commits (generate_mapping) and releases (retirement) lose none, free none
\* twice and never run into the silent clamp of set_available_capacity_units.
CapacityConserved ==
  \A c \in Chiplets : SumsTo(Holdings(c), Chiplet[c].units - available_units[c])

\* An entry is waiting, active or retired, never two of these: the queue's
\* injected_models and the manager's two dictionaries stay in step, and a
\* model still to be looked at in this pass is still waiting.
OneLifeCycle ==
  /\ injected_models = active_models \cup retired_models
  /\ active_models \cap retired_models = {}
  /\ ready_models \cap injected_models = {}
  /\ pending \subseteq ready_models
  /\ finished \subseteq active_models

\* When run_simulation returns every entry has been retired and the whole
\* array is free again.
CleanFinish ==
  stage = "done" => /\ retired_models = Models
                    /\ available_units = [c \in Chiplets |-> Chiplet[c].units]

\* No model is injected past an older one that waits and has failed
\* blocking_age_threshold times: from then on the older one goes first.
NoOvertakingABlockedModel ==
  [][\A m, k \in Models :
       /\ m \in ready_models
       /\ m < k
       /\ k \notin injected_models /\ k \in injected_models'
       => failure_age[m] < BlockingAgeThreshold]_vars

\* No model waits for ever: the loop ends, in time with every entry retired
\* (CleanFinish) or by giving up, provided each model can be mapped on the
\* empty system.
EveryModelRetires == <>(stage \in {"done", "exit"})

\* The "fit now" pre-check lets a model through only if the array has that
\* much memory available, counted in capacity units on every chiplet type.
FitNowCountsAvailableCapacity ==
  \A m \in pending :
    CanModelFitNow(ModelWeights[m]) =>
      ModelWeights[m] <= MapThenSumSet(LAMBDA c : MemoryOf(c, available_units[c]), Chiplets)
=============================================================================
