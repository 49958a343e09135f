--------------------------- MODULE PhaseExecution ---------------------------
(***************************************************************************)
(* What happens to the models that are active on the array: the phase      *)
(* schedule of a MappedModel (src/src/core/mapped_model.py), the weight    *)
(* loading phases WeightLoadingScheduler adds to it, and the part of each  *)
(* pass of run_simulation in which CommunicationOrchestrator simulates the *)
(* active communication phases and completion times are recalculated:      *)
(*   inject -> collect -> timing -> retire -> advance -> inject ...        *)
(*                                                                         *)
(* Every model has the same numbers of layers and inputs.  Traffic is      *)
(* abstracted to whether a phase has any (scaling keeps at least one       *)
(* packet of each flow, so this never changes), and the network simulator  *)
(* to the latencies it may report.  Times are integers; -1 is "not set".   *)
(***************************************************************************)
EXTENDS Integers, FiniteSets, FiniteSetsExt

CONSTANTS
  NumModels, NumLayers, NumInputs,
  Modes,                  \* the configurations explored, one per behaviour
  ComputeLatency,         \* latency of each layer of each model
  Silent,                 \* pairs <<model, phase>> without traffic
  Latencies,              \* what a simulator that is (not) reliable may report for a phase
  TimeStep,               \* time_step_us
  LastInjection,          \* bound: latest injection time
  Horizon                 \* bound: the clock stops here

Models == 1..NumModels
Layers == 0..(NumLayers - 1)
Inputs == 0..(NumInputs - 1)

\* communication_method, weight_stationary and weight_loading_strategy; and
\* whether the network simulator has a latency for every phase it is given.
ModeSpace ==
  [pipelined : BOOLEAN, stationary : BOOLEAN, just_in_time : BOOLEAN, reliable : BOOLEAN]

ASSUME PhaseAssumption ==
  /\ NumModels \in Nat /\ NumLayers \in Nat \ {0} /\ NumInputs \in Nat \ {0}
  /\ Modes \subseteq ModeSpace
  /\ ComputeLatency \in [Models -> [Layers -> Nat]]
  /\ Latencies \in [BOOLEAN -> SUBSET Nat] /\ 0 \notin Latencies[TRUE]
  /\ TimeStep \in Nat \ {0} /\ LastInjection \in Nat /\ Horizon \in Nat

VARIABLES
  mode,              \* the configuration, fixed for the whole simulation
  stage,             \* where run_simulation is in its loop
  now,               \* global_time_us
  todo,              \* <<model, input>> pairs get_active_phases has still to visit
  collected,         \* <<model, input, phase>>: active communication phases
  active, retired,   \* keys of active_mapped_models and retired_mapped_models
  inst,              \* phase_instances of each model and input
  weights_loaded,
  input_start,       \* input_start_time_us
  input_completion,  \* input_completion_time_us
  model_completion,  \* model_completion_time_us
  layer_time         \* layer_start_time_us and layer_completion_time_us

vars == <<mode, stage, now, todo, collected, active, retired, inst, weights_loaded,
          input_start, input_completion, model_completion, layer_time>>
modelVars == <<inst, weights_loaded, input_start, input_completion, model_completion,
               layer_time>>

----------------------------------------------------------------------------
\* The phase schedule.
Compute(l) == <<"compute", l>>
Activation(l) == <<"activation", l>>
Weight(l) == <<"weight", l>>

\* generate_schedule: one phase for all layers, or one per layer.
WeightPhase(l) == Weight(IF mode.just_in_time THEN l ELSE 0)

\* The last layer has no activation communication.
Phases ==
  {Compute(l) : l \in Layers} \cup {Activation(l) : l \in Layers \ {NumLayers - 1}}
    \cup {WeightPhase(l) : l \in Layers}

IsCompute(p) == p[1] = "compute"
IsWeight(p) == p[1] = "weight"

\* layers_to_load of a weight phase, layer_idx of the others.
LayersOf(p) == IF IsWeight(p) THEN {l \in Layers : WeightPhase(l) = p} ELSE {p[2]}

\* Mutant: compute phases do not wait for weights.
DependenciesWithoutWeights(p) ==
  LET before == {Activation(k) : k \in {p[2] - 1} \cap Layers}
  IN  IF IsCompute(p) THEN before
      ELSE IF IsWeight(p) THEN IF mode.just_in_time THEN before ELSE {}
      ELSE {Compute(p[2])}

\* Mutant: just-in-time weights do not wait for the previous layer.
DependenciesWithoutJit(p) ==
  LET before == {Activation(k) : k \in {p[2] - 1} \cap Layers}
  IN  IF IsCompute(p) THEN before \cup {WeightPhase(p[2])}
      ELSE IF IsWeight(p) THEN {} ELSE {Compute(p[2])}

\* A layer computes after the activations of the layer before it and after
\* its weights; just in time, its weights move after those activations too.
Dependencies(p) ==
  LET before == {Activation(k) : k \in {p[2] - 1} \cap Layers}
  IN  CASE IsCompute(p) -> before \cup {WeightPhase(p[2])}
        [] IsWeight(p)  -> IF mode.just_in_time THEN before ELSE {}
        [] OTHER        -> {Compute(p[2])}

\* Stationary weights are loaded for the first input only: the later inputs
\* have no instance of a weight phase.
Exists(i, p) == IsWeight(p) /\ mode.stationary => i = 0
Existing(i) == {p \in Phases : Exists(i, p)}

HasTraffic(m, p) == ~IsCompute(p) /\ <<m, p>> \notin Silent

----------------------------------------------------------------------------
Complete(m, i, p) == inst[m][i][p].state = "COMPLETE"

\* Mutant: the previous input is not looked at.
DependenciesMetAlone(m, i, p) ==
  \A d \in Dependencies(p) : Exists(i, d) => Complete(m, i, d)

\* _dependencies_met.  Its CONFIGURATION ERROR needs a compute phase that does
\* not depend on its weight phase, which Dependencies rules out.
DependenciesMet(m, i, p) ==
  /\ \A d \in Dependencies(p) : Exists(i, d) => Complete(m, i, d)
  /\ mode.pipelined /\ i > 0 /\ Exists(i - 1, p) => Complete(m, i - 1, p)

\* The phases _find_current_phase chooses from; OnePhaseAtATime says there is
\* never a second one, so the order it looks at them in does not matter.
CurrentPhases(m, i) == {p \in Existing(i) : ~Complete(m, i, p) /\ DependenciesMet(m, i, p)}

\* Mutant: a phase starts when it is looked at.
StartNow(begin, m, i, p) == now

\* _calculate_phase_start_time for an input that starts at begin.
StartTime(begin, m, i, p) ==
  Max({begin} \cup {inst[m][i][d].completion : d \in {e \in Dependencies(p) : Exists(i, e)}}
        \cup {inst[m][k][p].completion :
                k \in {j \in Inputs : mode.pipelined /\ j = i - 1 /\ Exists(j, p)}})

NewInstance(m, p) ==
  [state |-> "NOT_STARTED", start |-> -1, completion |-> -1,
   latency |-> IF IsCompute(p) THEN ComputeLatency[m][p[2]] ELSE 0]

Init ==
  /\ mode \in Modes
  /\ stage = "inject" /\ now = 0 /\ todo = {} /\ collected = {}
  /\ active = {} /\ retired = {}
  /\ inst = [m \in Models |-> [i \in Inputs |-> [p \in Phases |-> NewInstance(m, p)]]]
  /\ weights_loaded = [m \in Models |-> [l \in Layers |-> FALSE]]
  /\ input_start = [m \in Models |-> [i \in Inputs |-> -1]]
  /\ input_completion = [m \in Models |-> [i \in Inputs |-> -1]]
  /\ model_completion = [m \in Models |-> -1]
  /\ layer_time =
       [m \in Models |-> [i \in Inputs |-> [l \in Layers |-> [start |-> -1, completion |-> -1]]]]

----------------------------------------------------------------------------
Waiting == Models \ (active \cup retired)

\* A new MappedModel: its first input starts at once.  When models arrive is
\* the workload's business (module GlobalManager).
InjectModel(m) ==
  /\ stage = "inject" /\ m \in Waiting
  /\ active' = active \cup {m}
  /\ input_start' = [input_start EXCEPT ![m][0] = now]
  /\ UNCHANGED <<mode, stage, now, todo, collected, retired, inst, weights_loaded,
                 input_completion, model_completion, layer_time>>

EndInjection ==
  /\ stage = "inject" /\ active \cup Waiting # {}
  /\ Waiting # {} => now + TimeStep <= LastInjection
  /\ stage' = "collect" /\ todo' = active \X Inputs /\ collected' = {}
  /\ UNCHANGED <<mode, now, active, retired, modelVars>>

Finish ==
  /\ stage = "inject" /\ active \cup Waiting = {}
  /\ stage' = "done"
  /\ UNCHANGED <<mode, now, todo, collected, active, retired, modelVars>>

\* get_active_phases visits the inputs in order; each sees what the ones
\* before it have just changed.
Visit(m, i) ==
  /\ stage = "collect" /\ <<m, i>> \in todo
  /\ \A j \in todo : m < j[1] \/ (m = j[1] /\ i <= j[2])
  /\ todo' = todo \ {<<m, i>>}
  /\ UNCHANGED <<mode, stage, now, active, retired, input_start, input_completion,
                 model_completion, layer_time>>

Started(m, i) == input_start[m][i] # -1 /\ now >= input_start[m][i]
Current(m, i, p) == Visit(m, i) /\ Started(m, i) /\ p \in CurrentPhases(m, i)
Elapsed(m, i, p) == now - inst[m][i][p].start

\* The instance of p changes to x.
SetInstance(m, i, p, x) == inst' = [inst EXCEPT ![m][i][p] = x]

MarkLoaded(m, p) ==
  weights_loaded' = [weights_loaded EXCEPT ![m] =
    [l \in Layers |-> weights_loaded[m][l] \/ (IsWeight(p) /\ l \in LayersOf(p))]]

IdleInput(m, i) ==
  /\ Visit(m, i)
  /\ ~Started(m, i) \/ CurrentPhases(m, i) = {}
  /\ UNCHANGED <<inst, weights_loaded, collected>>

StartPhase(m, i, p) ==
  /\ Current(m, i, p) /\ inst[m][i][p].state = "NOT_STARTED"
  /\ IsCompute(p) \/ HasTraffic(m, p)
  /\ SetInstance(m, i, p, [inst[m][i][p] EXCEPT
       !.state = "RUNNING", !.start = StartTime(input_start[m][i], m, i, p)])
  /\ collected' = IF IsCompute(p) THEN collected ELSE collected \cup {<<m, i, p>>}
  /\ UNCHANGED weights_loaded

\* A communication phase without traffic is over at once, with latency -1.
CompleteSilentPhase(m, i, p) ==
  /\ Current(m, i, p) /\ inst[m][i][p].state = "NOT_STARTED"
  /\ ~IsCompute(p) /\ ~HasTraffic(m, p)
  /\ LET s == StartTime(input_start[m][i], m, i, p)
     IN  SetInstance(m, i, p,
           [state |-> "COMPLETE", start |-> s, completion |-> s, latency |-> -1])
  /\ MarkLoaded(m, p)
  /\ UNCHANGED collected

\* Mutant: a phase is over when it would end before the next pass.
UnfinishedNextPass(m, i, p) ==
  \/ Elapsed(m, i, p) + TimeStep < inst[m][i][p].latency
  \/ ~IsCompute(p) /\ inst[m][i][p].latency = 0

\* A communication phase with latency 0 has not been simulated yet.
Unfinished(m, i, p) ==
  \/ Elapsed(m, i, p) < inst[m][i][p].latency
  \/ ~IsCompute(p) /\ inst[m][i][p].latency = 0

KeepRunning(m, i, p) ==
  /\ Current(m, i, p) /\ inst[m][i][p].state = "RUNNING"
  /\ Unfinished(m, i, p)
  /\ collected' = IF IsCompute(p) THEN collected ELSE collected \cup {<<m, i, p>>}
  /\ UNCHANGED <<inst, weights_loaded>>

CompletePhase(m, i, p) ==
  /\ Current(m, i, p) /\ inst[m][i][p].state = "RUNNING"
  /\ ~Unfinished(m, i, p)
  /\ SetInstance(m, i, p, [inst[m][i][p] EXCEPT
       !.state = "COMPLETE", !.completion = inst[m][i][p].start + inst[m][i][p].latency])
  /\ MarkLoaded(m, p)
  /\ UNCHANGED collected

----------------------------------------------------------------------------
\* Simulation is skipped unless some phase has not been simulated yet.
NeedsInitialSimulation == \E c \in collected : inst[c[1]][c[2]][c[3]].latency = 0

SkipSimulation ==
  /\ stage = "collect" /\ todo = {}
  /\ ~NeedsInitialSimulation
  /\ stage' = "timing"
  /\ UNCHANGED <<mode, now, todo, collected, active, retired, modelVars>>

\* Mutant: the time is taken off instead of added, and counted from zero.
LatencyMinusClock(x, result) == IF x.latency = 0 THEN result ELSE result - now

\* update_phase_latency: a first result is the latency; a later one is what
\* is left, on top of the time already spent.
UpdatedLatency(x, result) == IF x.latency = 0 THEN result ELSE (now - x.start) + result

Updated(results) ==
  [m \in Models |-> [i \in Inputs |-> [p \in Phases |->
     IF <<m, i, p>> \in DOMAIN results
     THEN [inst[m][i][p] EXCEPT !.latency = UpdatedLatency(inst[m][i][p], results[<<m, i, p>>])]
     ELSE inst[m][i][p]]]]

Known(times) == {t \in times : t >= 0}

\* sync_phase_metrics_to_layers: the recorded start only moves down and the
\* recorded completion only up.
SyncedLayer(instances, m, i, l) ==
  LET mine == {p \in Existing(i) : l \in LayersOf(p)}
      starts == Known({layer_time[m][i][l].start} \cup {instances[p].start : p \in mine})
      ends == {layer_time[m][i][l].completion} \cup {instances[p].completion : p \in mine}
  IN  [start |-> IF starts = {} THEN -1 ELSE Min(starts), completion |-> Max(ends)]

SyncPhaseMetrics(instances) ==
  layer_time' = [m \in Models |-> IF m \notin active THEN layer_time[m] ELSE
    [i \in Inputs |-> [l \in Layers |-> SyncedLayer(instances[m][i], m, i, l)]]]

\* all_phase_latencies_us for some phases: a simulator that is not reliable may
\* leave out any of them, and all.
SimulatorResults(phases) ==
  UNION {[some -> Latencies[mode.reliable]] :
           some \in IF mode.reliable THEN {phases} ELSE SUBSET phases}

SimulateCommunication(results) ==
  /\ stage = "collect" /\ todo = {}
  /\ NeedsInitialSimulation
  /\ DOMAIN results # {}
  /\ inst' = Updated(results)
  /\ SyncPhaseMetrics(inst')
  /\ stage' = "timing"
  /\ UNCHANGED <<mode, now, todo, collected, active, retired, weights_loaded, input_start,
                 input_completion, model_completion>>

\* No latencies: _update_simulation_results raises RuntimeError.
SimulationFails(results) ==
  /\ stage = "collect" /\ todo = {}
  /\ NeedsInitialSimulation
  /\ DOMAIN results = {}
  /\ stage' = "error"
  /\ UNCHANGED <<mode, now, todo, collected, active, retired, modelVars>>

----------------------------------------------------------------------------
\* calculate_phase_timing.  It changes no phase's state, so the inputs can be
\* treated at once; an input whose phases are all complete has started.
AllComplete(m, i) == \A p \in Existing(i) : Complete(m, i, p)

InputEnd(m, i) ==
  IF input_completion[m][i] = -1 /\ input_start[m][i] # -1 /\ AllComplete(m, i)
  THEN Max({inst[m][i][p].completion : p \in Existing(i)})
  ELSE input_completion[m][i]

\* The phases of a layer that the next input's start waits for.
LayerPhases(l) == {Compute(l), Activation(l)} \cap Phases

\* When the first complete layer of an input ended.
FirstLayerEnd(m, i) ==
  LET over == {l \in Layers : \A p \in LayerPhases(l) : Complete(m, i, p)}
  IN  IF over = {} THEN -1
      ELSE Max({inst[m][i][p].completion : p \in LayerPhases(Min(over))})

\* Mutant: the completion read is the one of the previous call.
InputBeginStale(m, i) ==
  IF i = 0 \/ input_start[m][i] # -1 THEN input_start[m][i]
  ELSE IF mode.pipelined THEN FirstLayerEnd(m, i - 1) ELSE input_completion[m][i - 1]

\* Mutant: an input waits for itself.
InputBeginOwn(m, i) ==
  IF i = 0 \/ input_start[m][i] # -1 THEN input_start[m][i] ELSE InputEnd(m, i)

\* Pipelined, an input follows the first layer of the one before it;
\* otherwise it follows the whole input.
InputBegin(m, i) ==
  IF i = 0 \/ input_start[m][i] # -1 THEN input_start[m][i]
  ELSE IF mode.pipelined THEN FirstLayerEnd(m, i - 1) ELSE InputEnd(m, i - 1)

\* Start and completion are filled in once, and only while they are unset.
TimedInstance(m, i, p) ==
  LET x == inst[m][i][p]
      s == IF x.start < 0 THEN StartTime(InputBegin(m, i), m, i, p) ELSE x.start
  IN  IF InputBegin(m, i) # -1 /\ p \in CurrentPhases(m, i)
      THEN [x EXCEPT !.start = s,
                     !.completion = IF x.latency > 0 /\ @ < 0 THEN s + x.latency ELSE @]
      ELSE x

\* Mutant: one complete input is enough.
ModelEndAny(m) ==
  IF \E i \in Inputs : InputEnd(m, i) # -1
  THEN Max({InputEnd(m, i) : i \in Inputs}) ELSE model_completion[m]

ModelEnd(m) ==
  IF \A i \in Inputs : InputEnd(m, i) # -1
  THEN Max({InputEnd(m, i) : i \in Inputs}) ELSE model_completion[m]

\* calculate_phase_timing of every active model.
CalculatePhaseTiming ==
  /\ inst' = [m \in Models |-> IF m \notin active THEN inst[m] ELSE
       [i \in Inputs |-> [p \in Phases |-> TimedInstance(m, i, p)]]]
  /\ input_start' = [m \in Models |-> IF m \notin active THEN input_start[m] ELSE
       [i \in Inputs |-> InputBegin(m, i)]]
  /\ input_completion' = [m \in Models |-> IF m \notin active THEN input_completion[m] ELSE
       [i \in Inputs |-> InputEnd(m, i)]]
  /\ model_completion' = [m \in Models |-> IF m \notin active THEN model_completion[m] ELSE
       ModelEnd(m)]

\* "Recalculating completion times..."
RecalculateTiming ==
  /\ stage = "timing"
  /\ CalculatePhaseTiming
  /\ stage' = "retire"
  /\ UNCHANGED <<mode, now, todo, collected, active, retired, weights_loaded, layer_time>>

\* The retirement loop recalculates once more; is_complete compares with the clock.
RetireModels ==
  /\ stage = "retire"
  /\ CalculatePhaseTiming
  /\ LET over == {m \in active : model_completion'[m] # -1 /\ now >= model_completion'[m]}
     IN  active' = active \ over /\ retired' = retired \cup over
  /\ stage' = "advance"
  /\ UNCHANGED <<mode, now, todo, collected, weights_loaded, layer_time>>

AdvanceTime ==
  /\ stage = "advance" /\ now + TimeStep <= Horizon
  /\ now' = now + TimeStep
  /\ stage' = "inject"
  /\ UNCHANGED <<mode, todo, collected, active, retired, modelVars>>

\* run_simulation has returned or raised, or the clock has reached its bound.
Stopped ==
  /\ stage \in {"done", "error"} \/ (stage = "advance" /\ now + TimeStep > Horizon)
  /\ UNCHANGED vars

Next ==
  \/ \E m \in Models : InjectModel(m)
  \/ EndInjection
  \/ Finish
  \/ \E m \in Models, i \in Inputs : IdleInput(m, i)
  \/ \E m \in Models, i \in Inputs, p \in Phases :
       \/ StartPhase(m, i, p)
       \/ CompleteSilentPhase(m, i, p)
       \/ KeepRunning(m, i, p)
       \/ CompletePhase(m, i, p)
  \/ SkipSimulation
  \/ \E results \in SimulatorResults(collected) :
       SimulateCommunication(results) \/ SimulationFails(results)
  \/ RecalculateTiming
  \/ RetireModels
  \/ AdvanceTime
  \/ Stopped

Spec == Init /\ [][Next]_vars

\* The loop runs until it returns or raises.
FairSpec == Spec /\ WF_vars(Next)

----------------------------------------------------------------------------
Times == Nat \cup {-1}

\* Every variable has its type.
TypeOK ==
  /\ mode \in Modes
  /\ stage \in {"inject", "collect", "timing", "retire", "advance", "done", "error"}
  /\ now \in Nat
  /\ todo \subseteq active \X Inputs
  /\ collected \subseteq active \X Inputs \X Phases
  /\ active \subseteq Models /\ retired \subseteq Models
  /\ inst \in [Models -> [Inputs -> [Phases ->
       [state : {"NOT_STARTED", "RUNNING", "COMPLETE"},
        start : Times, completion : Times, latency : Times]]]]
  /\ weights_loaded \in [Models -> [Layers -> BOOLEAN]]
  /\ input_start \in [Models -> [Inputs -> Times]]
  /\ input_completion \in [Models -> [Inputs -> Times]]
  /\ model_completion \in [Models -> Times]
  /\ layer_time \in [Models -> [Inputs -> [Layers -> [start : Times, completion : Times]]]]

\* _find_current_phase never has a choice: the schedule of every input is a
\* chain, whatever the weight loading strategy and however inputs overlap.
OnePhaseAtATime ==
  \A m \in active, i \in Inputs : Cardinality(CurrentPhases(m, i)) <= 1

\* A layer computes only once its weights are on the array: the weight phase
\* it relies on (the first input's when weights are stationary, its own
\* otherwise) ended before the layer started, and is recorded as loaded.
WeightsBeforeCompute ==
  \A m \in Models, i \in Inputs, l \in Layers :
    inst[m][i][Compute(l)].start >= 0 =>
      LET w == inst[m][IF mode.stationary THEN 0 ELSE i][WeightPhase(l)]
      IN  /\ w.state = "COMPLETE"
          /\ w.completion <= inst[m][i][Compute(l)].start
          /\ weights_loaded[m][l]

\* A phase that has a start time starts after its input and after everything
\* it depends on has ended, although latencies change while phases run; one
\* that is over ended its latency later, and never in the future.
DataflowOrder ==
  \A m \in Models, i \in Inputs : \A p \in Existing(i) :
    LET x == inst[m][i][p]
    IN  /\ x.start >= 0 =>
             /\ 0 <= input_start[m][i] /\ input_start[m][i] <= x.start
             /\ \A d \in Dependencies(p) : Exists(i, d) =>
                  Complete(m, i, d) /\ inst[m][i][d].completion <= x.start
        /\ x.state = "COMPLETE" =>
             /\ x.completion = x.start + (IF x.latency = -1 THEN 0 ELSE x.latency)
             /\ x.completion <= now

\* Inputs go through the array in order: a phase of a later input starts only
\* after the same phase of an earlier one has ended and, unless execution is
\* pipelined, after the whole earlier input has.
InputsInOrder ==
  \A m \in Models, i, k \in Inputs : i < k =>
    \A p \in Existing(k) : inst[m][k][p].start >= 0 =>
      \A q \in Existing(i) : (q = p \/ ~mode.pipelined) =>
        Complete(m, i, q) /\ inst[m][i][q].completion <= inst[m][k][p].start

\* A model leaves the array only with every phase of every input over, its
\* completion time being the last of theirs and not in the future.
RetiredWhenOver ==
  \A m \in retired :
    /\ \A i \in Inputs : \A p \in Existing(i) : Complete(m, i, p)
    /\ model_completion[m] <= now
    /\ model_completion[m] =
         Max(UNION {{inst[m][i][p].completion : p \in Existing(i)} : i \in Inputs})

\* Once known, the start of a phase, of an input and the end of an input never
\* change, although get_active_phases recomputes a phase's start.
TimesStayPut ==
  [][\A m \in Models, i \in Inputs :
       /\ \A p \in Phases :
            inst[m][i][p].start >= 0 => inst'[m][i][p].start = inst[m][i][p].start
       /\ input_start[m][i] >= 0 => input_start'[m][i] = input_start[m][i]
       /\ input_completion[m][i] >= 0 => input_completion'[m][i] = input_completion[m][i]]_vars

\* The second recalculation of a pass, in the retirement loop, finds nothing
\* left to update.
SecondTimingChangesNothing ==
  [][stage = "retire" =>
       UNCHANGED <<inst, input_start, input_completion, model_completion>>]_vars

\* Every model is retired in the end when the network simulator reports a
\* positive latency for every phase it is given.
AllModelsRetire == mode.reliable => <>(stage = "done" /\ retired = Models)

\* After the recalculation the completion time of a running phase agrees with
\* its latency, however often the latency has been updated.
CompletionFollowsLatency ==
  stage = "retire" =>
    \A m \in active, i \in Inputs : \A p \in Existing(i) :
      LET x == inst[m][i][p]
      IN  x.state = "RUNNING" /\ x.latency > 0 => x.completion = x.start + x.latency

\* The layer timing of a retired model is the earliest start and the latest
\* completion across all phases of the layer.
LayerTimingSpansPhases ==
  \A m \in retired, i \in Inputs, l \in Layers :
    LET mine == {p \in Existing(i) : l \in LayersOf(p)}
    IN  /\ layer_time[m][i][l].start = Min({inst[m][i][p].start : p \in mine})
        /\ layer_time[m][i][l].completion = Max({inst[m][i][p].completion : p \in mine})
=============================================================================
