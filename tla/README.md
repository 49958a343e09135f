# CHIPSIM in TLA+

CHIPSIM simulates neural networks that share an array of chiplets. Models arrive
from a workload file, are placed on chiplets as room allows, run through phases of
computation and communication, and leave. This directory models the part of the
program that decides *what happens and when*: admission, capacity accounting,
mapping, phase execution and timing; the network that carries the traffic, which is
gem5's Garnet with CHIPSIM's trace reader and phase statistics; and the caches and
files that outlive a simulation. Paths below are relative to the repository's `src/`
tree, so `sim/global_manager.py` is `src/sim/global_manager.py` there, and `garnet/`
is `integrations/gem5/src/mem/ruby/network/garnet/`.

The simulator is one thread. What makes it hard to test is the number of ways in
which models, inputs and phases overlap in simulated time, the state carried from
pass to pass of the main loop, and network answers that change the latency of phases
that are already running. Inside gem5 it is event-driven hardware: interfaces,
routers and links that run only when somebody schedules them and agree on buffers
through credits that are always a cycle or more old. Around it are processes that
may be killed while they write.

## The system

| Part | State | Operations | Talks to |
|---|---|---|---|
| Simulation loop, `sim/global_manager.py` | active and retired models, global time | `run_simulation`: collect, inject, communicate, recalculate, retire, advance | everything below |
| Workload queue, `managers/workload_manager.py` | sorted workload, ready list with failure ages, injected set | `get_models_to_inject`, `increment_failure_age`, `is_model_blocking`, `mark_model_injected`, `get_remaining_count` | called by the loop |
| Array, `core/system.py`, `core/chiplet.py` | available capacity units per chiplet | fit checks, read and update of availability | mapper (commit), loop (release) |
| Mapper, `mapping/model_mapper.py` | none between calls; a temporary copy of the capacity | `generate_mapping`, nearest-neighbour and random mapper | array, model processor |
| Model processor, `core/model_processor.py` | none | metrics of each layer | mapper, fit checks |
| Partitioner, `mapping/layer_partitioner.py` | none | `partition_layer` | mapped model, compute simulation |
| Mapped model, `core/mapped_model.py`, `core/comm_types.py` | phases, their instances per input, loaded weights, times | `get_active_phases`, `update_phase_latency`, `calculate_phase_timing`, `sync_phase_metrics_to_layers`, `is_complete` | orchestrator, loop |
| Weight scheduler, `sim/scheduling/weight_scheduler.py` | none | weight phases and their dependencies | mapped model |
| Orchestrator, `sim/communication_orchestrator.py` | call counter | `simulate_communication` | mapped models, network simulator |
| Communication simulator, `sim/communication_simulator.py` | result cache | look up, write the trace, run gem5, read the statistics, store | cache manager, gem5 |
| Trace replay, `garnet/GarnetNetwork.cc` | next line, counters, phase latencies | `wakeup`, `increment_trace_flits_received`, `add_phase_latency`, `collateStats` | interfaces, the communication simulator through files |
| Garnet network, `garnet/` | flits, virtual channels, credits, scheduled wakeups | wakeup of interface, router, link | each other through buffers |
| Topology and routing, `AnyNET_XY.py`, `Topology.cc`, `RoutingUnit.cc` | routing tables | link weights, shortest paths, lookup | routers |
| Cache, `managers/cache_manager.py` | dictionary, pickle file, temporary file | load, look up, store | both simulators |
| Compute simulation, `sim/compute_simulation/` | result cache | latency and energy of a chunk | loop |
| Traffic calculator, `core/traffic_calculator.py` | none | traffic of a phase | mapped model, array |
| Statistics, `utils/stats_collector.py` | buffer, file | add, dump, load | orchestrator, loop, power analysis |
| Temporal filter, `post/temporal_filter.py` | none | warm-up and cool-down filtering | post-processing |
| Runner, configuration, post-processing | none that outlives a call | set-up, metrics, plots | – |

What makes each part correct, and where it is hard:

* **Loop, queue and array.** Capacity is taken by a mapping and given back by a
  retirement many passes later. Out-of-range values are clamped silently, so a leak
  or a double release would only show as wrong results. A model that cannot be
  placed is retried in each pass while younger ones may slip past it; an age
  threshold has to stop that. The loop ends when two independently kept counts agree.
* **Mapper and partitioner.** Ceilings, percentages and a tolerance of ten weights
  over chiplets of different kinds; a failed attempt must leave no trace; chunks must
  add up to the layer.
* **Phase execution.** Several inputs of several models are in different phases.
  Start times come from completion times of other phases, some of which are revised
  while they run; everything is computed by functions that are called more than
  once per pass and fill in what is still missing.
* **Communication simulator and its cache.** May report nothing for a phase, zero, or
  fail. An answer from the cache must fit the question: its phases, its traffic, the
  parameters of this run. Runs are killed and disks fill up; the cache file must stay
  loadable and lose nothing it held.
* **Garnet.** A flit or a credit that arrives when its consumer is not scheduled is
  never looked at again. The sender's idea of a buffer and the buffer itself must not
  drift apart. With one virtual channel per link, deadlock is prevented by the order of
  turns alone, and that by two link weights.
* **Trace replay.** Three counters and a flag nobody initialises decide when a run is
  over; ending early drops latencies, ending late hangs. Statistics exist for a fixed
  number of networks, inputs and phases.
* **Traffic and statistics.** Truncation and a minimum of one packet over many chunks;
  writes that fail halfway and are tried again.

`PROJECT.json` lists these hazards at their lines.

## Modules

| Module | Models | Used by |
|---|---|---|
| `WorkloadManager` | the queue, with the ready list as a set; `QueueSpec` is what it promises | `GlobalManager`, and `WorkloadManagerList` as its abstraction |
| `WorkloadManagerList` | the queue as the list it is, and the walk of the caller over it | – |
| `WorkloadManagerListProofs` | theorems about `WorkloadManagerList` | – |
| `System` | chiplets, capacity units, fit checks, clamping | `GlobalManager`, `ModelMapper` |
| `ModelMapper` | `generate_mapping` with `_nearest_neighbor_mapper_v3`, as operators | `MappingSession`, `MCGlobalManager` |
| `MappingSession` | one call of `generate_mapping`, one layer per step | – |
| `GlobalManager` | `run_simulation`, composed of `WorkloadManager` and `System`; the mapper is a parameter with a contract | – |
| `GlobalManagerProofs` | theorems about `GlobalManager` and `MappingSession`, and that the mapper of the one keeps the contract the other assumes | – |
| `PhaseExecution` | phases of the active models, from injection to retirement | – |
| `PhaseExecutionProofs` | theorems about `PhaseExecution` | – |
| `LayerPartitioner` | `partition_layer` | – |
| `TrafficCalculator` | activation and weight traffic of a phase, and the choice of an I/O chiplet | – |
| `GarnetTopology` | routers, channels, link weights, shortest paths, routing tables | `Garnet` |
| `GarnetDelivery` | what a network promises: every flit arrives once, at its interface, and then the replay is complete | `Garnet` as its abstraction |
| `Garnet` | interfaces, routers, links, credits and wakeups, cycle by cycle | – |
| `GarnetProofs` | theorems about `Garnet` and its routes | – |
| `GarnetTrace` | from traffic matrices over trace and statistics back to latencies | – |
| `DataflowProofs` | theorems about `LayerPartitioner`, `TrafficCalculator` and `GarnetTrace`: what is split, sent and measured | – |
| `SumTheorems` | lemmas about sums and folds over finite sets, and induction | the proof modules |
| `DurableStore` | what a result cache promises across crashes | `CacheManager` as its abstraction |
| `CacheManager` | dictionary, file and temporary file | the next two |
| `CommunicationSimulator` | `simulate_communication` with its cache | – |
| `CommunicationSimulatorProofs` | theorems about `CommunicationSimulator` and its cache | – |
| `ComputeSimulator` | `simulate_compute` with its cache | – |
| `StatsCollector` | buffer and file of DSENT statistics, up to the power analysis | – |
| `StatsCollectorProofs` | theorems about `StatsCollector` | – |
| `MC...` | small instances of the module they are named after | TLC |

### GlobalManager

One action per thing a pass does. `Collect` is `get_models_to_inject`, `Visit` the
`for` loop over its result. For each model the code either exits (`AbortSimulation`:
unknown network, too large for the system, a mapping failure other than lack of
room, or an exception in the mapper), postpones it (`PostponeModel`: age it and stop
the walk if it now blocks) or injects it (`InjectModel`: commit the remaining
capacity, record the difference as used, mark it injected). `SimulateCommunication`
stands for communication and timing; which models are then complete is left open
here, as `PhaseExecution` models it. `RetireModel` moves a model and releases its
units through the clamping setter. `Horizon` and `MaxAge` bound the clock and
failure ages by saturation: past the last injection time, and past the blocking
threshold, the code behaves the same for every larger value.

### PhaseExecution

The configuration (`pipelined`, `stationary`, `just_in_time`) is chosen once. A phase
is a kind and a layer; `Dependencies` is what `_build_default_phase_schedule` and
`WeightLoadingScheduler` set up together. `get_active_phases` changes the phase each
input is in and is one step per input (`IdleInput`, `StartPhase`,
`CompleteSilentPhase`, `KeepRunning`, `CompletePhase`), as an input sees what the
inputs before it have just changed. `SimulateCommunication`, `SkipSimulation` and
`SimulationFails` are the orchestrator. `RecalculateTiming` and `RetireModels` are the
two calls of `calculate_phase_timing` in a pass. Traffic is reduced to whether a
phase has any, which scaling never changes because each flow keeps at least one
packet. `SimulatorResults` is what the communication simulator, which `GarnetTrace` models
from the inside, may answer here: a reliable one has a latency for each of the given phases, an unreliable one for some of
them or for none. Which of the two a behaviour has is fixed with its configuration, and
the constant `Latencies` says which latencies either may report: a reliable one never
reports zero, which the network cannot (a flit takes at least one cycle).

Left out because they are unreachable: the CONFIGURATION ERROR of
`_dependencies_met` (`Dependencies` contains the weight phase of every compute phase),
the branch that skips loaded weights (with stationary weights only the first input has
weight phases, and each is marked loaded when it completes), and the completion of a
running phase that turns out to have no traffic. The execution order is left out as
there is never more than one phase to choose (`OnePhaseAtATime`).

### ModelMapper and MappingSession

Percentages are exact multiples of `1/Whole`; the code uses floating point, so an
error in the last place that tips a ceiling is outside the model. `Whole` is chosen
divisible by every layer requirement that occurs. A preference applies to the whole
run, where the code has one per model; an empty list of allowed chiplets restricts
nothing (`Permitted`). The random mapper is not modelled. `AllocateOn`
is one turn of the allocation loop; `Allocate` folds it over the candidates in the order of
distance, available memory and metric, and `MapAllLayers` folds the layers.

### LayerPartitioner

`ScaleChunks` is the loop over the chiplets; then the sum is right (`KeepChunks`), too small
(`IncreaseSmallest`) or too large (`ReduceLargest`), and in the last case `ReduceNext` is one
turn of `_distribute_remaining_difference`, which goes on until nothing is left to take away
or nobody to take it from (`EndReduction`). That loop sorts the chunks once, largest first;
the model picks the largest of those that have not had their turn, which is the same because
a turn changes only the chunk it is about.

### GarnetTopology, Garnet and GarnetDelivery

Garnet as a trace run of CHIPSIM uses it. Trace records go to virtual network 0, a
control network, whose virtual channels hold one flit; CHIPSIM sets no number of
virtual channels and gets the default of one. Packets are single flits
(`HEAD_TAIL_`), and everything runs on one clock, so network bridges and clock domains
do nothing. `at` says for every flit where it is: waiting in its source interface, in
the queue before a link, on the link, in the buffer behind it, or received. `outVc` and
`credits` are the sender's `OutVcState`, `outport` the receiver's `VirtualChannel`,
`creditQueue` and `creditLink` the way back. `due` and `next` are the consumers
scheduled for this cycle and the next, and `Tick` moves on when this cycle's are done.

One action is the whole `wakeup` of an interface, a router or a link, in the order of
its calls: arrivals, routing, credits, switch allocation, crossbar, rescheduling.
gem5's event queue runs the wakeups of one cycle in an order of its own. What a wakeup hands on
carries a later cycle, so the order should not matter; the model runs endpoints before
links and otherwise picks one fixed order, except for the traces in `Unordered`, which
are replayed in every order. `BusyCount` is `vc_busy_counter` with its panic.
`GarnetTopology` computes routes as `Topology.cc` does, with the weights of
`AnyNET_XY.py`: `Relax` improves every distance by a detour over one router, and `Relaxed`
repeats it until nothing changes. A flit without a route ends gem5 with a fatal error;
`ConnectedAssumption` says that there is always one. A second credit for the same port
would wake only its output unit (`RouterReschedules` does not distinguish this); with one
credit per virtual channel there is never a second, which `LinkEndsAgree` checks.
`XYOrder` looks at every move of a flit from the channel it came by to the channel it
leaves by, so also at flits that pass a router in the wakeup they arrive in.

### GarnetTrace

One call of the network simulator, end to end. `WriteLine` writes a line of the trace for
the next positive entry of the matrices, `Start` counts flits, builds the command line and
runs gem5 or, without a line, returns zeros; `Wakeup` is one call of the trace reader, `Receive` a flit reaching an interface
with statistics and exit test, `ReadStats` what is written to `stats.txt` and read
back. The network in between is what `GarnetDelivery` promises and `Garnet` is shown to
keep: every flit arrives once, in any order, after any latency. `end_simulation` is not
initialised by the constructor and starts with either value.

### CacheManager, CommunicationSimulator and ComputeSimulator

`StoreResult`, `Dumped` and `Replaced` are the three moments of `save_cache`: the first
byte of the temporary file, the last one, the rename. Between them the process may be
killed or the write fail. A power cut that loses what the operating system has not
written yet is not modelled: the code does not call `fsync`. A key is modelled by the
values it hashes, as they are printed: the analytical key has its MACs as whole numbers and
its percentage with two digits, so chunks that differ by less share an entry, and
`CacheIsTransparent` asks for the chunk's own result to within one MAC. A traffic matrix is the
traffic of one pair of chiplets, which is enough for matrices to differ and sums to be
equal. The two simulators extend `CacheManager` with their own keys and answers.

### TrafficCalculator and StatsCollector

`SendTo` and `LoadWeights` add the traffic of one layer of a phase to what its earlier
layers caused. Shares are multiples of `1/WholeLayer`, from the smallest to the whole layer,
as the mapper makes shares of any fraction (`available_units * 100 / units_needed_full`,
`mapping/model_mapper.py:446`), those below one percent included. `ScaledTotal` is
`int(total * (percentage / 100.0))`; where the exact product is a whole number, the
floating-point one may fall just below it, so both results are possible, except for a whole
layer, whose factor is exactly 1. In
`StatsCollector` a failing dump leaves any number of whole pickles in the file and
perhaps one that is cut short, which the reader takes for the end or for an error.

## Runs

| Run | Instance | Shows |
|---|---|---|
| `global_manager` | five models on crossbars and CMOS memory, threshold 2 | capacity conserved, one life cycle per entry, a clean end, no overtaking of a blocked model, the loop ends; on the way mapping may raise and the program give up |
| `phase_execution` | two models, two layers, two inputs, all eight configurations, latencies 1 and 5 at a time step of 2; in the busiest configuration also a simulator that omits phases or fails | dataflow order, weights before compute, inputs in order, stable times, and with a reliable simulator everyone retires |
| `workload_list` | five rows, unsorted, with ties | the list implements the set-level queue and is walked in order |
| `mapping_session` | every capacity of a mixed five-chiplet array, three layers of four kinds | nothing overbooked, no layer placed twice, shares match units |
| `layer_partitioner` | up to nine channels, four chunks, shares in twelfths | chunks add up and stay near their shares |
| `traffic_calculator` | three layers in all combinations of four mappings, shares in 300ths: the whole layer, thirds, quarters and a third of a percent, which leave totals around zero and one packet | weights and activations arrive in full |
| `garnet_mesh` | 3x3 mesh: two lines of two flits between any chiplets of a corner; all nine sending at once to every distance and to a hot spot; crossing traffic in every order of wakeups | the ends of links agree, no wakeup is lost, XY order, exactly-once delivery, every replay completes |
| `garnet_trace` | 100 chiplets, one or two phases, a key at the limits of the statistics | the whole trace arrives, at the right chiplets, every phase is reported with its slowest flit, every run ends |
| `communication_cache` | three requests over two phases, kills and failures anywhere | the file is always whole and never behind memory, changes entry by entry, cached answers have the phases asked about |
| `communication_cache_traffic` | same | **violation**: phases that swap traffic share an entry |
| `compute_cache` | three chunks, two of which print alike, on four chiplet types; parameters edited between simulations | **violation**: results of the old parameters are used |
| `stats_collector` | four simulations, three failing writes | nothing is forgotten, order is kept |

Why these bounds. Blocking needs three models: one that holds the array, one that
waits, and a younger one that fits; `global_manager` has five, so that some arrive
after the blocking has begun and one can make the mapper raise. The other reasons to
give up (an unknown network, one too large for the array) need no state and do not
occur in this instance. Overlap of phases needs two models for contention, two
inputs for pipelining and two layers for activations; a third of each adds length,
not a new neighbour, since dependencies reach one layer and one input back. Latencies
are shorter and longer than the time step and no multiple of it, and one layer computes
in no time, so phases end within, at and after a pass; another is slow enough for a
later input to catch up with the one before it, which needs a long phase because a
phase takes at least two passes (one to start, one to be found over). `LastInjection` lets the second model arrive with or after the first; `Horizon` is
never reached with a reliable simulator, and with an unreliable one leaves room for
both models to retire after several bad answers.
Shares of 300ths include thirds, whose products are not whole, quarters, whose products are,
and one that makes less than a packet of everything.
Nine channels over four chunks give every combination of rounding up, rounding down,
half to even and the minimum of one. Mapping starts from every capacity, which covers
any history of earlier models.

A 3x3 mesh has routers with two, three and four neighbours, paths that turn, and cycles
of turns that only the weights rule out; with nine senders and one virtual channel per
link every link is contended. Two flits per line make a sender wait for the credit of
its own first one. `Threshold` is lower than gem5's default, so that the deadlock
counter would trip sooner. Two matrices with two flows give traces of none to four
lines, and latencies of 1 and 2 make the last flit to arrive the slowest or not. Three
requests suffice for a request that hits, one with the same key and other traffic, and
one with the same traffic and other phases. Four statistics and three failures let a
failure follow a failure with something new in the buffer.

Fairness. The loop keeps running (`WF_vars(Next)`): nothing blocks in it. In
`GlobalManager` every active model is also eventually found complete, as a strong
fairness condition on `SimulateCommunication`; `AllModelsRetire` in `PhaseExecution`
is what justifies it, for a simulator that reports positive latencies. `Garnet` and
`GarnetTrace` have weak fairness on their steps: gem5 takes events from its queue until
the exit event, and in `GarnetTrace` the network keeps delivering, which is what
`TraceCompletes` of `Garnet` shows.

### Findings

Two runs expect a violation: a disagreement between the code and what one of its documents
or comments says, quoted in `PROJECT.json`.

* `communication_cache_traffic`: the key is made of the sum of the matrices
  (`sim/communication_simulator.py:196`), so phases that swap traffic share an entry.
* `compute_cache`: the key looks for the chiplet's parameters where nobody puts them
  (`sim/compute_simulation/compute_simulator.py:85`). With parameters that never change the
  same property holds.

The modules show more of them. Each of these configurations makes TLC produce a
counterexample, with the tool called as for a run (`tlc -config GarnetRing.cfg MCGarnet`);
none of them breaks an ordering or accounting property of the simulator. The first four are
hazards of `PROJECT.json` that no passing run can cover, because the code does not avoid
them.

| Configuration | Module | What it refutes |
|---|---|---|
| `GlobalManagerConv1d.cfg` | `MCGlobalManager` | `EveryModelRetires`: a Conv1D layer, which `core/model_processor.py:6` lists among the layer types, needs 0 units of every chiplet (`mapping/model_mapper.py:230`); its model passes the fit check and is postponed for ever |
| `PhaseExecutionLayerTiming.cfg` | `MCPhaseExecution` | `LayerTimingSpansPhases`: phases after the last network simulation are missing from the layer timing (`sim/communication_orchestrator.py:457`), against `core/mapped_model.py:104`, "earliest start, latest completion across all phases for a layer" |
| `GarnetTraceLimits.cfg` | `MCGarnetTrace` | `EveryPhaseReported`: statistics end at 20 networks, 20 inputs, 500 phases (`garnet/GarnetNetwork.cc:753`), below a comment that says "all possible combinations"; a phase beyond is simulated again in every pass |
| `GarnetTrace8x8.cfg` | `MCGarnetTrace` | `FlitsReachTheirChiplet`: receivers are written as chiplet + 100 (`sim/communication_simulator.py:496`), which is right for 100 chiplets only; the repository's `README.md:144` offers "custom size mesh topologies" |
| `GarnetRing.cfg` | `MCGarnet` | `TraceCompletes`: on a cycle through the grid, as in the shipped Floret topology, the weights of `AnyNET_XY.py` do not prevent deadlock |
| `GlobalManagerFitNow.cfg` | `MCGlobalManager` | `FitNowCountsAvailableCapacity`: a CMOS chiplet reports its whole memory as available (`core/chiplet.py:71`), against `docs/advanced-features.md:113` |
| `PhaseExecutionCompletion.cfg` | `MCPhaseExecution` | `CompletionFollowsLatency`: the completion time of a running phase is not revised with its latency (`core/mapped_model.py:813`), against the comment at `sim/global_manager.py:734` |
| `LayerPartitionerVerification.cfg` | `LayerPartitioner` | `VerificationNeverWarns`: with more chunks than channels the sum is off, which `mapping/layer_partitioner.py:92` says "should not happen" |

## Proofs

TLC checks the instances above. The following holds for every value of the constants
that meets the assumptions named with it; TLC evaluates those assumptions in the runs.
Every invariant is proved in the same way: it is strengthened to an inductive one, which
the initial state meets and each action keeps, one lemma per action. Every invariant and
every action property a passing run checks, and every refinement, is stated by a theorem.

Sums, folds and the recursive function of the shortest paths need induction over data.
`SumTheorems` gets it without an operator parameter: `LeastElement` is the well-foundedness
of the natural numbers, and `NumberInduction` and `SubsetInduction` follow, each stated about
a *set* of good cases. A fold of the library is a function chosen to meet a recursive
equation; `FoldExists` shows that there is one, by induction over the size of the set, and
`FoldKeeps` that what every turn keeps holds of the result. Facts about sums follow: what
removing, adding or changing an element does, that the order does not matter, bounds.

### GlobalManagerProofs

For every workload, array and threshold, and for every mapper that keeps the contract
`MappingAssumption` (an outcome it knows; a mapped result is a capacity and no chiplet
gains units): `TypeCorrect` (availability stays between zero and the chiplet's units),
`LifeCycleCorrect` (`OneLifeCycle`), `ConservationCorrect` (`CapacityConserved`),
`FinishCorrect` (`CleanFinish`), `BlockingCorrect` (`NoOvertakingABlockedModel`).
Further assumptions: `WorkloadAssumption` (finitely many entries sorted by time),
`AgeAssumption` (the age bound is not below the threshold), `SystemAssumption`,
`ModelAssumption`.

`OneLifeCycle` is inductive together with the type invariant and what the stages say
about `pending` and `finished`. For conservation, the sum over the active models is
written with a sequence of running totals (`SumsTo`) instead of recursion; the lemmas show
how the totals change when one model's holding is added or removed, and that a holding is
at most the sum, so that the clamp never acts. At the end of the loop the remaining count
is zero, so by cardinality every entry is injected and, none being active, retired; the
sum over no active models is zero, so every unit is free. For blocking, the strengthening
is that a model already passed over in this pass is not blocking: the walk would have
stopped at it.

For every array, network, preference and sequence of layers of `LayerKinds`,
`NoChipletOverbooked` (`NothingOverbooked`), `LayersArePlacedOnce` (`LayersPlacedOnce`) and
`SharesAreBacked` (`SharesArePaidFor`) hold of a mapping session. Assumptions:
`MapperAssumption`, and `SessionAssumption`, by which `Whole` is divisible by what a layer
may need, so that shares are exact. `Accounts` is what one turn of the allocation loop
keeps: units only shrink and only on candidates, a chiplet has a share exactly if it gave
units, a chiplet that gave units is used up unless the layer is complete, and the
percentage that remains is never less than the weights that remain and ahead of them by at
most one weight for each chiplet used. The last is where the ceilings are: every partial
allocation rounds the weights down by less than one and never the percentage.
`AllocateKeeps` carries it over the fold, `SessionInv` over the layers.

`MapperKeepsContract` joins the two halves: for every capacity and every sequence of layers
`MapAllLayers` returns a known outcome and, when it maps, a capacity in which no chiplet has
gained units. That is `MappingAssumption`, so the theorems about the loop hold of the
mapper the program uses and not only of some mapper.

### WorkloadManagerListProofs

For every workload file with unique indices (`RowsAssumption`), every threshold and every
outcome of the mapping attempts: `HandedInWorkloadOrderCorrect`,
`BlockingEndsTheWalkCorrect`, and `QueueImplemented`, the refinement that lets
`GlobalManager` treat the list as a set.

`Sorted` defines a stable sort by counting: the n-th entry is the one with n - 1 others
before it. `SortedIsOrder` shows that this is a sort. An entry has more others before it
than any entry that precedes it has, so the count is injective into an interval of the
same size, hence onto. The invariant on the list is that it is in *workload order*, which
is stronger than sorted by time. Appending keeps it because entries become ready in the
order of their times: whatever is appended was not ready in an earlier call, so it is
later than everything that was (`Taken`). For the refinement, `Seen` says what the queue
sees of the list, and since the queue is asked only at the times of entries, the current
time is replaced by the last such time that has passed.

### PhaseExecutionProofs

For any number of models, layers and inputs, all configurations, any time step and
compute latencies, and any answers of the network simulator, zeros, omissions and failures
included (`PhaseAssumption`): `TypeCorrect`, `OnePhaseAtATimeCorrect`,
`DataflowOrderCorrect`, `InputsInOrderCorrect`, `WeightsBeforeComputeCorrect`,
`RetiredWhenOverCorrect`, and the action properties `TimesStayPutCorrect` and
`SecondTimingCorrect` (`SecondTimingChangesNothing`).

The argument is that what is over never changes, and that a phase gets a start time only
when all it waits for is over. `Moves` says what a step may do to an instance, an input
and a model in these terms. Every action makes such moves (`VisitedMove`, `TimingMoves`
and the step lemmas), and `MovesKeep` shows once that they keep the invariant. The
invariant says of every start time that it is the largest of the ends behind it (`Top`,
`Behind`), so that computing it again gives the same value. `EarlierLayers` and
`EarlierInputs` carry dependencies, which reach one layer and one input back, over any
distance; they are what the weights of a later input rest on, as with stationary weights
only the first input loads them. They are shown by taking the least layer or input at
which they would fail. `Settled` says at the retirement stage that recalculating changes
nothing, which `SecondTimingCorrect` needs and the first call of the pass establishes.

### GarnetProofs

For every topology (`TopologyAssumption`), set of traces (`GarnetAssumption`), deadlock
threshold and order of wakeups: `LinkEndsAgreeCorrect`, `NoLostWakeupCorrect`, and
`DeliveryImplemented`, the refinement of `GarnetDelivery`. None of these uses the link
weights: routes need not be shortest or free of cycles, only lead to no interface but the
flit's own. Nor do they use `ConnectedAssumption`.

The two halves of `LinkEndsAgree` need each other: a link has one token, which is the
sender's credit, a flit on its way or in the buffer, or a credit on its way back
(`OneTokenPerVc`), and the state of the virtual channel follows the buffer
(`VcFollowsBuffer`). `OnItsWay` adds that only flits in the trace move, only routers buffer
them, and the channel to an interface is entered only by its flits. `NoLostWakeup` is
inductive given these. A router's step is the long case: what arrives, what is credited
and what wins the switch meet on the same channels in one wakeup.

`XYOrderCorrect` is about the weights. It assumes `IsMesh`: the routers fill a grid, and
exactly the neighbours are linked; on the ring of `GarnetRing.cfg` this is false, and so is
what follows from it. `DistanceOnMesh` shows that the relaxation ends with columns apart plus
twice rows apart, on a grid of any size: no path is shorter, as a link covers at most its
weight of that sum, and round by round it has found all pairs that are one hop further
apart. Hence a link along a column is on a shortest path only within the column of the
destination (`EntersItsColumn`), and from there no link along a row is (`StaysInColumn`).
`RoutesXY` says of every flit that came along a column that it is in the column of its
destination, and of every buffered flit that its output port is one the table offers; and
`NoTurnIntoARow` that a router's step never sends such a flit along a row, whether it was
buffered before or arrives in that wakeup.

### CommunicationSimulatorProofs

For every set of requests (`CommunicationAssumption`) and every sequence of stores,
failed saves, kills and restarts: `FileIsWholeCorrect`, `MemoryIsOnDiskCorrect`,
`CachedAnswersFitCorrect`, and `DurableStoreImplemented`, the refinement of
`DurableStore`. The strengthening is `SaveUnderWay`: while a result is stored, memory is
one entry ahead of the file and the temporary file holds what memory holds. For the
answers, every stored result, in memory and on disk, reports only phases of its key, and
a hit requires that it reports all.

### StatsCollectorProofs

For any number of network simulations, failing writes and any threshold
(`StatsAssumption`): `NothingIsForgottenCorrect` and `PowerSeesEverySimulationCorrect`.
A failed dump leaves part of the buffer in the file and all of it in the buffer, so
entries repeat. What survives repetition is `Ordered`: in the file followed by the buffer,
every entry comes after a copy of each entry before it. `Counted` is the stronger form
before any failure.

### DataflowProofs

*Partitioner* (`PartitionAssumption`): `LayersArePartitioned` (`ChunksMakeUpTheLayer`) and
`ChunksFollowShares` (`ChunksStayCloseToShares`), for any number of channels and chunks.
`PartitionInv` says of the reduction (`Reducing`) that channels, chunks and excess balance,
that each chunk is between one and what scaling gave it, and that a chunk that has had its
turn is down to one while there is an excess. So if there is a channel for every chunk,
the chunks run out only when the excess does. How far a chunk moves follows from how far
rounding can be off in total.

*Trace* (`TraceAssumption`): `TracesArriveWhole` (`WholeTraceArrives`) for every list of
matrices and all interleavings; `PhasesAreReported` (`EveryPhaseReported`) where every phase
has a statistic; `FlitsFindTheirChiplet` (`FlitsReachTheirChiplet`) on 100 chiplets. The
last two conditions are what `GarnetTraceLimits.cfg` and `GarnetTrace8x8.cfg` show to be
necessary. `TraceInv` relates the counters to the trace: the lines written are those of the
entries gone from `unwritten`, in as many flits (`TraceWritten`); the reader has injected
exactly the lines before the one it holds and stops only at the end (`TraceRead`), because
a line has at least one flit and there are thus never fewer flits than lines; injected flits
are those received and those under way (`FlitsAccounted`); and the latencies recorded are
those of arrived flits (`LatenciesAreArrivals`).

*Traffic* (`TrafficAssumption`): `ActivationsAreSent` (`ActivationsArriveInFull`), and
`WeightsAreSent` (`WeightsArriveInFull`) if every chiplet has a path from an I/O chiplet; the
code sends nothing to one that has none. Both hold for every `WholeLayer`, so for shares of
any fraction, and for either result of the rounding. `TrafficInv` is the two properties for the layers
visited so far, in whatever order they are visited; `MergeAdds` is what makes a step keep it.

### Only model-checked

* All liveness (`EveryModelRetires`, `AllModelsRetire`, `TraceCompletes`,
  `SimulationCompletes`): it needs fairness and `ENABLED`, which the prover does not handle.
  That a mesh does not deadlock is therefore checked on 3x3; what it rests on, `XYOrder`, is
  proved for all sizes.
* That a property fails is shown by a counterexample, in the two runs that expect one and in
  the configurations above.
* That `GlobalManager` may leave open when models finish: `PhaseExecution` decides it, and
  the two are not composed.

## What is left

Queue, array, mapper, partitioner, loop, phases, scheduler, orchestrator, traffic, network,
trace, caches and statistics are modelled, and their safety is proved. What could follow:

1. A composition in which `PhaseExecution` decides when the models of `GlobalManager`
   finish, and the refinement from it to `GlobalManager`.
2. Percentages as floating-point numbers in the mapper, where `SessionAssumption` now keeps
   them exact.
3. Freedom from deadlock of a mesh as a ranking argument over `RoutesXY`, once a prover for
   liveness is at hand.

## Not modelled

* The rest of gem5: processors, caches, memories, devices, instruction sets and their
  decoders, more than a million lines that are part of the repository and that a
  network-only simulation neither builds into its system nor runs. Of Garnet itself:
  protocol messages, several virtual networks, network bridges, clock domains, fault
  models, power models.
* DSENT and CIMLoop, and the arithmetic of the analytical compute model: numbers that no
  decision reads, except as latencies, which are parameters.
* The random mapper: `GlobalManager` always selects `nearest_neighbor_v3` (`sim/global_manager.py:181`).
* Configuration, set-up and file handling of the runner; model definition files; metrics,
  plots and thermal output, which summarise finished results; the temporal filter, which
  compares two times per retired model; the performance monitor, which logs.
* Energies and histories recorded with phases, which no decision reads.
* A failure of the compute simulation ends the process and is not an action of
  `GlobalManager` or `PhaseExecution`.
