------------------------ MODULE PhaseExecutionProofs ------------------------
(***************************************************************************)
(* The phase schedule of the active models, proved for every number of     *)
(* models, layers and inputs, every configuration, every time step and     *)
(* every latency the network simulator may report or leave out.            *)
(*                                                                         *)
(* The proof rests on one observation: whatever a step does to a phase     *)
(* instance that is not over, it leaves those that are over alone, and a   *)
(* phase only gets a start time once everything it waits for is over.  So  *)
(* the start time, once computed, is computed from values that no longer   *)
(* change.  Move(m, i, p) and its companions say what a step may do to one *)
(* instance, input or model; every action makes such moves, and such moves *)
(* keep the invariant.                                                     *)
(***************************************************************************)
EXTENDS PhaseExecution, FiniteSetTheorems, WellFoundedInduction, TLAPS

----------------------------------------------------------------------------
(* The inductive invariant. *)

\* x is the largest element of S.
Top(x, S) == x \in S /\ \A y \in S : y <= x

\* The ends of all that a phase of an input waits for, besides the input's start.
Behind(m, i, p) ==
  {inst[m][i][d].completion : d \in {e \in Dependencies(p) : Exists(i, e)}}
    \cup {inst[m][k][p].completion :
            k \in {j \in Inputs : mode.pipelined /\ j = i - 1 /\ Exists(j, p)}}

Ends(m, i) == {inst[m][i][p].completion : p \in Existing(i)}

\* A phase with a start time has all it waits for behind it, and the start is
\* the one _calculate_phase_start_time would compute again.
StartOK(m, i, p) ==
  inst[m][i][p].start >= 0 =>
    /\ Exists(i, p)
    /\ inst[m][i][p].start <= now
    /\ input_start[m][i] >= 0
    /\ DependenciesMet(m, i, p)
    /\ Top(inst[m][i][p].start, {input_start[m][i]} \cup Behind(m, i, p))

StateOK(m, i, p) ==
  /\ inst[m][i][p].state # "NOT_STARTED" => inst[m][i][p].start >= 0
  /\ inst[m][i][p].state # "COMPLETE" => inst[m][i][p].latency >= 0
  /\ inst[m][i][p].state = "COMPLETE" =>
       /\ inst[m][i][p].completion = inst[m][i][p].start
            + (IF inst[m][i][p].latency = -1 THEN 0 ELSE inst[m][i][p].latency)
       /\ inst[m][i][p].completion <= now
       /\ IsWeight(p) => \A l \in LayersOf(p) : weights_loaded[m][l]

InstancesOK ==
  \A m \in Models, i \in Inputs, p \in Phases : StartOK(m, i, p) /\ StateOK(m, i, p)

\* A phase starts after all phases of earlier layers of its input.
EarlierLayers ==
  \A m \in Models, i \in Inputs, p \in Phases : inst[m][i][p].start >= 0 =>
    \A q \in Existing(i) : q[2] < p[2] => Complete(m, i, q)

\* Pipelined, a phase starts after the same phase of every earlier input.
EarlierInputs ==
  \A m \in Models, i, k \in Inputs, p \in Phases :
    mode.pipelined /\ i < k /\ inst[m][k][p].start >= 0 =>
      Complete(m, i, p) /\ inst[m][i][p].completion <= inst[m][k][p].start

\* Not pipelined, an input starts after every earlier input; the end of an input
\* is the last end of its phases.
InputOK(m, i) ==
  /\ input_start[m][i] <= now
  /\ ~mode.pipelined /\ input_start[m][i] >= 0 =>
       \A k \in Inputs : k < i =>
         \A q \in Existing(k) : Complete(m, k, q) /\ inst[m][k][q].completion <= input_start[m][i]
  /\ input_completion[m][i] >= 0 => AllComplete(m, i) /\ Top(input_completion[m][i], Ends(m, i))

InputsOK == \A m \in Models, i \in Inputs : InputOK(m, i)

\* The end of a model is the last end of its inputs.
ModelOK(m) ==
  /\ model_completion[m] >= 0 =>
       /\ \A i \in Inputs : input_completion[m][i] >= 0
       /\ Top(model_completion[m], {input_completion[m][i] : i \in Inputs})
  /\ m \in retired => model_completion[m] >= 0 /\ model_completion[m] <= now
  /\ m \in Waiting => \A i \in Inputs : input_start[m][i] = -1

ModelsOK == \A m \in Models : ModelOK(m)

\* The lists of a pass: what has been collected is running and not visited again.
PassOK ==
  /\ active \cap retired = {}
  /\ stage # "collect" => todo = {}
  /\ \A c \in collected :
       /\ inst[c[1]][c[2]][c[3]].state = "RUNNING"
       /\ <<c[1], c[2]>> \notin todo

\* Recalculating would change nothing.
Settled ==
  \A m \in active :
    /\ ModelEnd(m) = model_completion[m]
    /\ \A i \in Inputs :
         /\ InputBegin(m, i) = input_start[m][i]
         /\ InputEnd(m, i) = input_completion[m][i]
         /\ \A p \in Phases : TimedInstance(m, i, p) = inst[m][i][p]

IInv ==
  /\ TypeOK
  /\ InstancesOK
  /\ EarlierLayers
  /\ EarlierInputs
  /\ InputsOK
  /\ ModelsOK
  /\ PassOK
  /\ stage = "retire" => Settled

----------------------------------------------------------------------------
(* The largest element of a set. *)

\* A nonempty set of natural numbers has a least element.
LEMMA LeastNatural ==
  ASSUME NEW T \in SUBSET Nat, T # {}
  PROVE  \E x \in T : \A y \in T : x <= y
<1>1. PICK x \in T : \A y \in T : ~(<<y, x>> \in OpToRel(<, Nat))
  BY NatLessThanWellFounded, WFMin, Zenon
<1>2. \A y \in T : ~(y < x)
  BY <1>1 DEF OpToRel
<1>3. QED
  BY <1>2

\* A nonempty set of integers with an upper bound has a largest element, and
\* Max finds it.
LEMMA MaxIsTop ==
  ASSUME NEW T \in SUBSET Int, T # {}, NEW b \in Int, \A t \in T : t <= b
  PROVE  Top(Max(T), T)
<1> DEFINE D == {b - t : t \in T}
<1>1. PICK d \in D : \A e \in D : d <= e
  <2>0. \A t \in T : b - t \in Nat
    OBVIOUS
  <2>1. D \in SUBSET Nat /\ D # {}
    BY <2>0
  <2> HIDE DEF D
  <2>2. QED
    BY <2>1, LeastNatural
<1>2. PICK x \in T : d = b - x
  OBVIOUS
<1>3. \A y \in T : x >= y
  <2> TAKE y \in T
  <2>1. d <= b - y
    BY <1>1
  <2>2. QED
    BY <1>2, <2>1
<1>4. QED
  BY <1>2, <1>3 DEF Max, Top

\* A set of integers has one largest element.
LEMMA TopIsMax ==
  ASSUME NEW T \in SUBSET Int, NEW x, Top(x, T)
  PROVE  Max(T) = x
<1>1. x \in T /\ \A y \in T : x >= y
  BY DEF Top
<1>2. Max(T) \in T /\ \A y \in T : Max(T) >= y
  BY <1>1 DEF Max
<1>3. x \in Int /\ Max(T) \in Int /\ x >= Max(T) /\ Max(T) >= x
  BY <1>1, <1>2
<1>4. QED
  BY <1>3

----------------------------------------------------------------------------
(* The phase schedule. *)

\* The phases are a compute phase, an activation phase and a weight phase of the
\* layers; a weight phase is the one of the layer it is numbered with.
LEMMA PhaseKinds ==
  ASSUME NEW p \in Phases
  PROVE  /\ p[2] \in Layers
         /\ \/ p = Compute(p[2]) /\ IsCompute(p) /\ ~IsWeight(p)
            \/ /\ p = Activation(p[2]) /\ ~IsCompute(p) /\ ~IsWeight(p)
               /\ p[2] # NumLayers - 1
            \/ p = WeightPhase(p[2]) /\ ~IsCompute(p) /\ IsWeight(p)
BY PhaseAssumption
DEF Phases, Compute, Activation, Weight, WeightPhase, Layers, IsCompute, IsWeight

\* What each kind of phase depends on.
LEMMA DependenciesOf ==
  /\ \A l \in Layers : Dependencies(Compute(l)) =
       {Activation(k) : k \in {l - 1} \cap Layers} \cup {WeightPhase(l)}
  /\ \A l \in Layers : Dependencies(Activation(l)) = {Compute(l)}
  /\ \A l \in Layers : Dependencies(WeightPhase(l)) =
       IF mode.just_in_time THEN {Activation(k) : k \in {l - 1} \cap Layers} ELSE {}
<1> SUFFICES ASSUME NEW l \in Layers
             PROVE  /\ Dependencies(Compute(l)) =
                         {Activation(k) : k \in {l - 1} \cap Layers} \cup {WeightPhase(l)}
                    /\ Dependencies(Activation(l)) = {Compute(l)}
                    /\ Dependencies(WeightPhase(l)) =
                         IF mode.just_in_time
                         THEN {Activation(k) : k \in {l - 1} \cap Layers} ELSE {}
  OBVIOUS
<1>1. IsCompute(Compute(l)) /\ ~IsWeight(Compute(l)) /\ Compute(l)[2] = l
  BY DEF Compute, IsCompute, IsWeight
<1>2. ~IsCompute(Activation(l)) /\ ~IsWeight(Activation(l)) /\ Activation(l)[2] = l
  BY DEF Activation, IsCompute, IsWeight
<1>3. /\ ~IsCompute(WeightPhase(l)) /\ IsWeight(WeightPhase(l))
      /\ mode.just_in_time => WeightPhase(l)[2] = l
  BY DEF Weight, WeightPhase, IsCompute, IsWeight
<1>4. Dependencies(Compute(l)) =
        {Activation(k) : k \in {l - 1} \cap Layers} \cup {WeightPhase(l)}
  BY <1>1 DEF Dependencies
<1>5. Dependencies(Activation(l)) = {Compute(l)}
  BY <1>2 DEF Dependencies
<1>6. Dependencies(WeightPhase(l)) =
        IF mode.just_in_time THEN {Activation(k) : k \in {l - 1} \cap Layers} ELSE {}
  BY <1>3 DEF Dependencies
<1>7. QED
  BY <1>4, <1>5, <1>6

\* A phase depends on phases of the schedule.
LEMMA DependenciesArePhases ==
  ASSUME NEW p \in Phases
  PROVE  Dependencies(p) \subseteq Phases
<1>0. p[2] \in Layers
  BY PhaseKinds
<1>1. \A l \in Layers : /\ Compute(l) \in Phases
                        /\ WeightPhase(l) \in Phases
                        /\ \A k \in {l - 1} \cap Layers : Activation(k) \in Phases
  BY PhaseAssumption DEF Phases, Layers
<1>2. CASE p = Compute(p[2])
  BY <1>0, <1>1, <1>2, DependenciesOf
<1>3. CASE p = Activation(p[2])
  BY <1>0, <1>1, <1>3, DependenciesOf
<1>4. CASE p = WeightPhase(p[2])
  BY <1>0, <1>1, <1>4, DependenciesOf
<1>5. QED
  BY <1>2, <1>3, <1>4, PhaseKinds

\* The schedule does not change during a simulation.
LEMMA ScheduleFixed ==
  ASSUME mode' = mode
  PROVE  /\ Phases' = Phases
         /\ \A l : WeightPhase(l)' = WeightPhase(l)
         /\ \A p : Dependencies(p)' = Dependencies(p) /\ LayersOf(p)' = LayersOf(p)
         /\ \A i, p : Exists(i, p)' <=> Exists(i, p)
         /\ \A i : Existing(i)' = Existing(i)
BY DEF Phases, WeightPhase, Dependencies, LayersOf, Exists, Existing

----------------------------------------------------------------------------
(* What a step may do. *)

Instance == [state : {"NOT_STARTED", "RUNNING", "COMPLETE"},
             start : Times, completion : Times, latency : Times]

\* A phase instance stays as it is or, if it is not over and all it waits for is,
\* gets a start unless it has one, and goes on.
Move(m, i, p) ==
  \/ inst'[m][i][p] = inst[m][i][p]
  \/ /\ Exists(i, p) /\ ~Complete(m, i, p) /\ DependenciesMet(m, i, p)
     /\ input_start'[m][i] >= 0
     /\ inst'[m][i][p].start = IF inst[m][i][p].start >= 0 THEN inst[m][i][p].start
                               ELSE StartTime(input_start'[m][i], m, i, p)
     /\ inst'[m][i][p].state # "COMPLETE" => inst'[m][i][p].latency >= 0
     /\ inst'[m][i][p].state = "COMPLETE" =>
          /\ inst'[m][i][p].completion = inst'[m][i][p].start
               + (IF inst'[m][i][p].latency = -1 THEN 0 ELSE inst'[m][i][p].latency)
          /\ inst'[m][i][p].completion <= now
          /\ IsWeight(p) => \A l \in LayersOf(p) : weights_loaded'[m][l]

\* The start and the end of an input are set once: the start, unless execution is
\* pipelined, when the input before it is over, the end when all phases are.
InputMove(m, i) ==
  /\ \/ input_start'[m][i] = input_start[m][i]
     \/ /\ input_start[m][i] = -1 /\ input_start'[m][i] <= now
        /\ ~mode.pipelined /\ i > 0 /\ input_start'[m][i] >= 0 =>
             \A q \in Existing(i - 1) :
               /\ Complete(m, i - 1, q)
               /\ inst[m][i - 1][q].completion <= input_start'[m][i]
  /\ \/ input_completion'[m][i] = input_completion[m][i]
     \/ input_completion[m][i] = -1 /\ AllComplete(m, i) /\ Top(input_completion'[m][i], Ends(m, i))

ModelMove(m) ==
  /\ \/ model_completion'[m] = model_completion[m]
     \/ /\ \A i \in Inputs : input_completion'[m][i] >= 0
        /\ Top(model_completion'[m], {input_completion'[m][i] : i \in Inputs})
  /\ m \in retired' \ retired => model_completion'[m] >= 0 /\ model_completion'[m] <= now
  /\ m \in Waiting' => m \in Waiting /\ input_start'[m] = input_start[m]

Moves ==
  /\ mode' = mode /\ now <= now'
  /\ \A m \in Models, l \in Layers : weights_loaded[m][l] => weights_loaded'[m][l]
  /\ \A m \in Models, i \in Inputs, p \in Phases : Move(m, i, p)
  /\ \A m \in Models, i \in Inputs : InputMove(m, i)
  /\ \A m \in Models : ModelMove(m)

\* The types of one instance.
LEMMA InstanceType ==
  ASSUME TypeOK, NEW m \in Models, NEW i \in Inputs, NEW p \in Phases
  PROVE  /\ inst[m][i][p] \in Instance
         /\ inst[m][i][p].state \in {"NOT_STARTED", "RUNNING", "COMPLETE"}
         /\ inst[m][i][p].start \in Times
         /\ inst[m][i][p].completion \in Times
         /\ inst[m][i][p].latency \in Times
<1>1. inst[m][i][p] \in Instance
  BY DEF TypeOK, Instance
<1>2. QED
  BY <1>1 DEF Instance

\* A phase that is over has a start and an end, both in the past.
LEMMA CompleteTimes ==
  ASSUME TypeOK, InstancesOK, NEW m \in Models, NEW i \in Inputs, NEW p \in Phases,
         Complete(m, i, p)
  PROVE  /\ inst[m][i][p].start \in Nat /\ inst[m][i][p].completion \in Nat
         /\ inst[m][i][p].start <= inst[m][i][p].completion
         /\ inst[m][i][p].completion <= now
         /\ Exists(i, p) /\ DependenciesMet(m, i, p) /\ input_start[m][i] \in Nat
<1>1. StartOK(m, i, p) /\ StateOK(m, i, p)
  BY DEF InstancesOK
<1>2. inst[m][i][p].start >= 0
  BY <1>1 DEF StateOK, Complete
<1>3. Exists(i, p) /\ DependenciesMet(m, i, p) /\ input_start[m][i] >= 0
  BY <1>1, <1>2 DEF StartOK
<1>4. input_start[m][i] \in Times
  BY DEF TypeOK
<1>5. /\ inst[m][i][p].completion = inst[m][i][p].start
            + (IF inst[m][i][p].latency = -1 THEN 0 ELSE inst[m][i][p].latency)
      /\ inst[m][i][p].completion <= now
  BY <1>1 DEF StateOK, Complete
<1>6. QED
  BY <1>2, <1>3, <1>4, <1>5, InstanceType DEF Times

\* All that a phase waits for ended in the past, if it may start.
LEMMA BehindIsPast ==
  ASSUME TypeOK, InstancesOK, NEW m \in Models, NEW i \in Inputs, NEW p \in Phases,
         DependenciesMet(m, i, p)
  PROVE  Behind(m, i, p) \subseteq Nat /\ \A t \in Behind(m, i, p) : t <= now
<1> SUFFICES ASSUME NEW t \in Behind(m, i, p) PROVE t \in Nat /\ t <= now
  OBVIOUS
<1>1. CASE \E d \in Dependencies(p) : Exists(i, d) /\ t = inst[m][i][d].completion
  <2>1. PICK d \in Dependencies(p) : Exists(i, d) /\ t = inst[m][i][d].completion
    BY <1>1
  <2>2. d \in Phases /\ Complete(m, i, d)
    BY <2>1, DependenciesArePhases DEF DependenciesMet
  <2>3. QED
    BY <2>1, <2>2, CompleteTimes
<1>2. CASE /\ mode.pipelined /\ i - 1 \in Inputs /\ Exists(i - 1, p)
           /\ t = inst[m][i - 1][p].completion
  <2>1. Complete(m, i - 1, p)
    BY <1>2 DEF DependenciesMet, Inputs
  <2>2. QED
    BY <1>2, <2>1, CompleteTimes
<1>3. QED
  BY <1>1, <1>2 DEF Behind

\* _calculate_phase_start_time gives the latest of what a phase waits for.
LEMMA StartIsTop ==
  ASSUME TypeOK, InstancesOK, NEW m \in Models, NEW i \in Inputs, NEW p \in Phases,
         DependenciesMet(m, i, p), NEW begin \in Times, begin <= now
  PROVE  /\ Top(StartTime(begin, m, i, p), {begin} \cup Behind(m, i, p))
         /\ StartTime(begin, m, i, p) \in Times
         /\ begin <= StartTime(begin, m, i, p) /\ StartTime(begin, m, i, p) <= now
<1> DEFINE T == {begin} \cup Behind(m, i, p)
<1>1. StartTime(begin, m, i, p) = Max(T)
  <2>1. T = {begin}
          \cup {inst[m][i][d].completion : d \in {e \in Dependencies(p) : Exists(i, e)}}
          \cup {inst[m][k][p].completion :
                  k \in {j \in Inputs : mode.pipelined /\ j = i - 1 /\ Exists(j, p)}}
    BY DEF Behind
  <2>2. QED
    BY <2>1 DEF StartTime
<1>2. T \subseteq Int /\ T # {} /\ now \in Int /\ \A t \in T : t \in Times /\ t <= now
  BY BehindIsPast DEF TypeOK, Times
<1> HIDE DEF T
<1>3. Top(Max(T), T)
  BY <1>2, MaxIsTop
<1>4. begin \in T /\ T = {begin} \cup Behind(m, i, p)
  BY DEF T
<1>5. QED
  BY <1>1, <1>2, <1>3, <1>4 DEF Top

\* What a phase that may start waits for does not change any more.
LEMMA BehindIsFixed ==
  ASSUME Moves, NEW m \in Models, NEW i \in Inputs, NEW p \in Phases, DependenciesMet(m, i, p)
  PROVE  Behind(m, i, p)' = Behind(m, i, p) /\ DependenciesMet(m, i, p)'
<1>1. mode' = mode
  BY DEF Moves
<1>2. ASSUME NEW k \in Inputs, NEW q \in Phases, Complete(m, k, q)
      PROVE  inst'[m][k][q] = inst[m][k][q] /\ Complete(m, k, q)'
  <2>1. Move(m, k, q)
    BY DEF Moves
  <2>2. QED
    BY <1>2, <2>1 DEF Move, Complete
<1>3. \A d \in Dependencies(p) : Exists(i, d) => d \in Phases /\ Complete(m, i, d)
  BY DependenciesArePhases DEF DependenciesMet
<1>4. \A j \in Inputs : mode.pipelined /\ j = i - 1 /\ Exists(j, p) => Complete(m, j, p)
  BY DEF DependenciesMet, Inputs
<1>5. /\ Dependencies(p)' = Dependencies(p)
      /\ \A j, q : Exists(j, q)' <=> Exists(j, q)
  BY <1>1, ScheduleFixed
<1>6. {e \in Dependencies(p) : Exists(i, e)}' = {e \in Dependencies(p) : Exists(i, e)}
  BY <1>5
<1>7. {j \in Inputs : mode.pipelined /\ j = i - 1 /\ Exists(j, p)}'
        = {j \in Inputs : mode.pipelined /\ j = i - 1 /\ Exists(j, p)}
  BY <1>1, <1>5
<1>8. Behind(m, i, p)' = Behind(m, i, p)
  BY <1>2, <1>3, <1>4, <1>6, <1>7 DEF Behind
<1>9. DependenciesMet(m, i, p)'
  <2>1. \A d \in Dependencies(p) : Exists(i, d) => Complete(m, i, d)'
    BY <1>2, <1>3
  <2>2. mode.pipelined /\ i > 0 /\ Exists(i - 1, p) => i - 1 \in Inputs
    BY PhaseAssumption DEF Inputs
  <2>3. mode.pipelined /\ i > 0 /\ Exists(i - 1, p) => Complete(m, i - 1, p)'
    BY <1>2, <1>4, <2>2
  <2>4. QED
    BY <1>1, <1>5, <2>1, <2>3 DEF DependenciesMet
<1>10. QED
  BY <1>8, <1>9

----------------------------------------------------------------------------
(* Such moves keep the invariant. *)

\* The first compute phase is a phase of every input.
LEMMA FirstPhase == \A i \in Inputs : Compute(0) \in Existing(i)
BY PhaseAssumption DEF Existing, Exists, Phases, Layers, Compute, IsWeight

\* What is over stays as it is.
LEMMA CompleteStays ==
  ASSUME Moves, NEW m \in Models, NEW i \in Inputs, NEW p \in Phases, Complete(m, i, p)
  PROVE  inst'[m][i][p] = inst[m][i][p] /\ Complete(m, i, p)'
<1>1. Move(m, i, p)
  BY DEF Moves
<1>2. QED
  BY <1>1 DEF Move, Complete

\* The start of an input, once set, stays, and lies in the past.
LEMMA InputStartStays ==
  ASSUME TypeOK, InputsOK, Moves, NEW m \in Models, NEW i \in Inputs
  PROVE  /\ input_start[m][i] >= 0 => input_start'[m][i] = input_start[m][i]
         /\ input_start'[m][i] <= now
<1>1. InputMove(m, i) /\ InputOK(m, i)
  BY DEF Moves, InputsOK
<1>2. QED
  BY <1>1 DEF InputMove, InputOK

\* The instances.
LEMMA KeepInstances ==
  ASSUME TypeOK, TypeOK', InstancesOK, InputsOK, Moves
  PROVE  InstancesOK'
<1>0. mode' = mode /\ now <= now' /\ now \in Nat /\ now' \in Nat
  BY DEF Moves, TypeOK
<1>1. Phases' = Phases
  BY <1>0, ScheduleFixed
<1> SUFFICES ASSUME NEW m \in Models, NEW i \in Inputs, NEW p \in Phases
             PROVE  StartOK(m, i, p)' /\ StateOK(m, i, p)'
  BY <1>1 DEF InstancesOK
<1>2. StartOK(m, i, p) /\ StateOK(m, i, p) /\ Move(m, i, p)
  BY DEF InstancesOK, Moves
<1>3. /\ Exists(i, p)' <=> Exists(i, p)
      /\ LayersOf(p)' = LayersOf(p)
  BY <1>0, ScheduleFixed
<1>4. \A l \in LayersOf(p) : weights_loaded[m][l] => weights_loaded'[m][l]
  BY PhaseKinds DEF Moves, LayersOf
<1>5. input_start'[m][i] \in Times /\ input_start'[m][i] <= now
  BY InputStartStays DEF TypeOK
<1>6. CASE inst'[m][i][p] = inst[m][i][p]
  <2>1. ASSUME inst[m][i][p].start >= 0 PROVE StartOK(m, i, p)'
    <3>1. /\ Exists(i, p) /\ inst[m][i][p].start <= now /\ input_start[m][i] >= 0
          /\ DependenciesMet(m, i, p)
          /\ Top(inst[m][i][p].start, {input_start[m][i]} \cup Behind(m, i, p))
      BY <1>2, <2>1 DEF StartOK
    <3>2. input_start'[m][i] = input_start[m][i]
      BY <3>1, InputStartStays
    <3>3. Behind(m, i, p)' = Behind(m, i, p) /\ DependenciesMet(m, i, p)'
      BY <3>1, BehindIsFixed
    <3>4. inst[m][i][p].start <= now'
      BY <1>0, <3>1, InstanceType DEF Times
    <3>5. QED
      BY <1>3, <1>6, <3>1, <3>2, <3>3, <3>4 DEF StartOK, Top
  <2>2. StateOK(m, i, p)'
    <3>1. inst[m][i][p].completion <= now => inst[m][i][p].completion <= now'
      BY <1>0, InstanceType DEF Times
    <3>2. QED
      BY <1>2, <1>3, <1>4, <1>6, <3>1 DEF StateOK
  <2>3. QED
    BY <1>6, <2>1, <2>2 DEF StartOK
<1>7. CASE inst'[m][i][p] # inst[m][i][p]
  <2>1. /\ Exists(i, p) /\ DependenciesMet(m, i, p)
        /\ input_start'[m][i] >= 0
        /\ inst'[m][i][p].start = IF inst[m][i][p].start >= 0 THEN inst[m][i][p].start
                                  ELSE StartTime(input_start'[m][i], m, i, p)
        /\ inst'[m][i][p].state # "COMPLETE" => inst'[m][i][p].latency >= 0
        /\ inst'[m][i][p].state = "COMPLETE" =>
             /\ inst'[m][i][p].completion = inst'[m][i][p].start
                  + (IF inst'[m][i][p].latency = -1 THEN 0 ELSE inst'[m][i][p].latency)
             /\ inst'[m][i][p].completion <= now
             /\ IsWeight(p) => \A l \in LayersOf(p) : weights_loaded'[m][l]
    BY <1>2, <1>7 DEF Move
  <2>2. Behind(m, i, p)' = Behind(m, i, p) /\ DependenciesMet(m, i, p)'
    BY <2>1, BehindIsFixed
  <2>3. /\ Top(inst'[m][i][p].start, {input_start'[m][i]} \cup Behind(m, i, p))
        /\ inst'[m][i][p].start <= now /\ inst'[m][i][p].start \in Nat
    <3>1. CASE inst[m][i][p].start >= 0
      <4>1. /\ inst[m][i][p].start <= now /\ input_start[m][i] >= 0
            /\ Top(inst[m][i][p].start, {input_start[m][i]} \cup Behind(m, i, p))
        BY <1>2, <3>1 DEF StartOK
      <4>2. input_start'[m][i] = input_start[m][i]
        BY <4>1, InputStartStays
      <4>3. inst[m][i][p].start \in Nat
        BY <3>1, InstanceType DEF Times
      <4>4. QED
        BY <2>1, <3>1, <4>1, <4>2, <4>3
    <3>2. CASE ~(inst[m][i][p].start >= 0)
      <4>1. /\ Top(StartTime(input_start'[m][i], m, i, p), {input_start'[m][i]} \cup Behind(m, i, p))
            /\ StartTime(input_start'[m][i], m, i, p) \in Times
            /\ input_start'[m][i] <= StartTime(input_start'[m][i], m, i, p)
            /\ StartTime(input_start'[m][i], m, i, p) <= now
        BY <1>5, <2>1, StartIsTop
      <4>2. inst'[m][i][p].start = StartTime(input_start'[m][i], m, i, p)
        BY <2>1, <3>2
      <4>3. QED
        BY <1>5, <2>1, <4>1, <4>2 DEF Times
    <3>3. QED
      BY <3>1, <3>2
  <2>4. StartOK(m, i, p)'
    BY <1>0, <1>3, <2>1, <2>2, <2>3 DEF StartOK, Top
  <2>5. StateOK(m, i, p)'
    <3>1. inst'[m][i][p] \in Instance
      BY <1>1 DEF TypeOK, Instance
    <3>2. inst'[m][i][p].completion <= now => inst'[m][i][p].completion <= now'
      BY <1>0, <3>1 DEF Instance, Times
    <3>3. QED
      BY <1>3, <2>1, <2>3, <3>2 DEF StateOK
  <2>6. QED
    BY <2>4, <2>5
<1>8. QED
  BY <1>6, <1>7

\* When a phase may start, all phases of earlier layers are over.
LEMMA LayersBehind ==
  ASSUME TypeOK, InstancesOK, EarlierLayers,
         NEW m \in Models, NEW i \in Inputs, NEW p \in Phases, NEW q \in Existing(i),
         DependenciesMet(m, i, p), q[2] < p[2]
  PROVE  Complete(m, i, q)
<1>1. /\ q \in Phases /\ Exists(i, q) /\ p[2] \in Layers /\ q[2] \in Layers
      /\ \A l \in Layers : l \in Nat
  BY PhaseKinds DEF Existing, Layers
<1>2. ASSUME NEW d \in Phases, Complete(m, i, d), q[2] < d[2] PROVE Complete(m, i, q)
  BY <1>2, CompleteTimes DEF EarlierLayers
<1>3. \A d \in Dependencies(p) : Exists(i, d) => d \in Phases /\ Complete(m, i, d)
  BY DependenciesArePhases DEF DependenciesMet
<1>4. \A l \in Layers : Exists(i, Compute(l)) /\ Exists(i, Activation(l))
  BY DEF Exists, Compute, Activation, IsWeight
<1>5. CASE p = Activation(p[2])
  <2>1. Compute(p[2]) \in Phases /\ Complete(m, i, Compute(p[2]))
    BY <1>1, <1>3, <1>4, <1>5, DependenciesOf
  <2>2. QED
    BY <1>2, <2>1 DEF Compute
<1>6. CASE p = Compute(p[2]) \/ p = WeightPhase(p[2])
  <2> DEFINE k == p[2] - 1
  <2>1. k \in Layers /\ k \in {p[2] - 1} \cap Layers
    BY <1>1, PhaseAssumption DEF Layers
  <2>2. Activation(k) \in Dependencies(p)
    <3>1. CASE p = Compute(p[2])
      BY <1>1, <2>1, <3>1, DependenciesOf
    <3>2. CASE p = WeightPhase(p[2]) /\ mode.just_in_time
      BY <1>1, <2>1, <3>2, DependenciesOf
    <3>3. CASE p = WeightPhase(p[2]) /\ ~mode.just_in_time
      <4>1. p[2] = 0
        BY <3>3 DEF WeightPhase, Weight
      <4>2. QED
        BY <1>1, <4>1
    <3>4. QED
      BY <1>6, <3>1, <3>2, <3>3
  <2>3. Activation(k) \in Phases /\ Complete(m, i, Activation(k))
    BY <1>3, <1>4, <2>1, <2>2
  <2>4. CASE q[2] < k
    BY <1>2, <2>3, <2>4 DEF Activation
  <2>5. CASE q[2] = k
    <3>1. Compute(k) \in Phases /\ Complete(m, i, Compute(k))
      <4>1. DependenciesMet(m, i, Activation(k))
        BY <2>3, CompleteTimes
      <4>2. QED
        BY <1>4, <2>1, <2>3, <4>1, DependenciesOf, DependenciesArePhases DEF DependenciesMet
    <3>2. Exists(i, WeightPhase(k)) => Complete(m, i, WeightPhase(k))
      <4>1. DependenciesMet(m, i, Compute(k))
        BY <3>1, CompleteTimes
      <4>2. QED
        BY <2>1, <4>1, DependenciesOf DEF DependenciesMet
    <3>3. q \in {Compute(k), Activation(k), WeightPhase(k)}
      BY <1>1, <2>5, PhaseKinds
    <3>4. QED
      BY <1>1, <2>3, <3>1, <3>2, <3>3
  <2>6. QED
    BY <1>1, <2>4, <2>5 DEF Layers
<1>7. QED
  BY <1>5, <1>6, PhaseKinds

\* The layers of an input stay in order.
LEMMA KeepLayers ==
  ASSUME TypeOK, TypeOK', InstancesOK, EarlierLayers, Moves
  PROVE  EarlierLayers'
<1>0. Phases' = Phases /\ \A i : Existing(i)' = Existing(i)
  BY ScheduleFixed DEF Moves
<1> SUFFICES ASSUME NEW m \in Models, NEW i \in Inputs, NEW p \in Phases,
                    inst'[m][i][p].start >= 0,
                    NEW q \in Existing(i), q[2] < p[2]
             PROVE  Complete(m, i, q)'
  BY <1>0 DEF EarlierLayers
<1>1. q \in Phases /\ Move(m, i, p)
  BY DEF Existing, Moves
<1>2. Complete(m, i, q)
  <2>1. CASE inst[m][i][p].start >= 0
    BY <2>1 DEF EarlierLayers
  <2>2. CASE ~(inst[m][i][p].start >= 0)
    <3>1. DependenciesMet(m, i, p)
      BY <1>1, <2>2 DEF Move
    <3>2. QED
      BY <3>1, LayersBehind
  <2>3. QED
    BY <2>1, <2>2
<1>3. QED
  BY <1>1, <1>2, CompleteStays

\* Pipelined, when a phase may start it is over for all earlier inputs, and the
\* last of them ended latest.
LEMMA InputsBehind ==
  ASSUME TypeOK, InstancesOK, EarlierInputs,
         NEW m \in Models, NEW i \in Inputs, NEW k \in Inputs, NEW p \in Phases,
         mode.pipelined, i < k, Exists(k, p), DependenciesMet(m, k, p)
  PROVE  /\ Complete(m, i, p)
         /\ \E t \in Behind(m, k, p) : inst[m][i][p].completion <= t
<1>0. k - 1 \in Inputs /\ i \in Nat /\ k \in Nat
  BY PhaseAssumption DEF Inputs
<1>1. Exists(k - 1, p)
  BY <1>0 DEF Exists
<1>2. Complete(m, k - 1, p) /\ inst[m][k - 1][p].completion \in Behind(m, k, p)
  BY <1>0, <1>1 DEF DependenciesMet, Behind
<1>3. /\ inst[m][k - 1][p].start \in Nat /\ inst[m][k - 1][p].completion \in Nat
      /\ inst[m][k - 1][p].start <= inst[m][k - 1][p].completion
  BY <1>0, <1>2, CompleteTimes
<1>4. CASE i = k - 1
  BY <1>2, <1>3, <1>4
<1>5. CASE i < k - 1
  <2>1. Complete(m, i, p) /\ inst[m][i][p].completion <= inst[m][k - 1][p].start
    BY <1>0, <1>3, <1>5 DEF EarlierInputs
  <2>2. inst[m][i][p].completion \in Nat
    BY <2>1, CompleteTimes
  <2>3. QED
    BY <1>2, <1>3, <2>1, <2>2
<1>6. QED
  BY <1>0, <1>4, <1>5

\* Pipelined inputs stay in order.
LEMMA KeepInputs ==
  ASSUME TypeOK, TypeOK', InstancesOK, InstancesOK', EarlierInputs, InputsOK, Moves
  PROVE  EarlierInputs'
<1>0. mode' = mode /\ Phases' = Phases
  BY ScheduleFixed DEF Moves
<1> SUFFICES ASSUME NEW m \in Models, NEW i \in Inputs, NEW k \in Inputs, NEW p \in Phases,
                    mode.pipelined, i < k, inst'[m][k][p].start >= 0
             PROVE  Complete(m, i, p)' /\ inst'[m][i][p].completion <= inst'[m][k][p].start
  BY <1>0 DEF EarlierInputs
<1>1. Move(m, k, p)
  BY DEF Moves
<1>2. Complete(m, i, p) /\ inst[m][i][p].completion <= inst'[m][k][p].start
  <2>1. CASE inst[m][k][p].start >= 0
    <3>1. inst'[m][k][p].start = inst[m][k][p].start
      BY <1>1, <2>1 DEF Move
    <3>2. QED
      BY <2>1, <3>1 DEF EarlierInputs
  <2>2. CASE ~(inst[m][k][p].start >= 0)
    <3>1. Exists(k, p) /\ DependenciesMet(m, k, p)
      BY <1>1, <2>2 DEF Move
    <3>2. Complete(m, i, p)
      BY <3>1, InputsBehind
    <3>3. PICK t \in Behind(m, k, p) : inst[m][i][p].completion <= t
      BY <3>1, InputsBehind
    <3>4. Top(inst'[m][k][p].start, {input_start'[m][k]} \cup Behind(m, k, p)')
      BY <1>0 DEF InstancesOK, StartOK, Top
    <3>5. Behind(m, k, p)' = Behind(m, k, p)
      BY <3>1, BehindIsFixed
    <3>6. t \in Nat /\ t <= inst'[m][k][p].start
      BY <3>1, <3>4, <3>5, BehindIsPast DEF Top
    <3>7. inst'[m][k][p] \in Instance
      BY <1>0 DEF TypeOK, Instance
    <3>8. QED
      BY <3>2, <3>3, <3>6, <3>7, InstanceType DEF Instance, Times
  <2>3. QED
    BY <2>1, <2>2
<1>3. QED
  BY <1>2, CompleteStays

\* The inputs.
LEMMA KeepInputTimes ==
  ASSUME TypeOK, TypeOK', InstancesOK, InputsOK, Moves
  PROVE  InputsOK'
<1>0. /\ mode' = mode /\ now <= now' /\ now \in Nat /\ now' \in Nat
      /\ \A i : Existing(i)' = Existing(i)
      /\ \A i : Existing(i) \subseteq Phases
  BY ScheduleFixed DEF Moves, TypeOK, Existing
<1> SUFFICES ASSUME NEW m \in Models, NEW i \in Inputs PROVE InputOK(m, i)'
  BY DEF InputsOK
<1>1. InputOK(m, i) /\ InputMove(m, i)
  BY DEF InputsOK, Moves
<1>2. \A k \in Inputs, q \in Phases : Complete(m, k, q) =>
        inst'[m][k][q] = inst[m][k][q] /\ Complete(m, k, q)'
  BY CompleteStays
<1>3. input_start'[m][i] \in Times /\ input_start'[m][i] <= now'
  BY <1>0, InputStartStays DEF TypeOK, Times
<1>4. ASSUME ~mode.pipelined, input_start'[m][i] >= 0,
             NEW k \in Inputs, k < i, NEW q \in Existing(k)
      PROVE  Complete(m, k, q) /\ inst[m][k][q].completion <= input_start'[m][i]
  <2>1. CASE input_start'[m][i] = input_start[m][i]
    BY <1>1, <1>4, <2>1 DEF InputOK
  <2>2. CASE input_start'[m][i] # input_start[m][i]
    <3>0. i - 1 \in Inputs /\ i \in Nat /\ k \in Nat /\ i > 0
      BY <1>4, PhaseAssumption DEF Inputs
    <3>1. \A r \in Existing(i - 1) : /\ Complete(m, i - 1, r)
                                     /\ inst[m][i - 1][r].completion <= input_start'[m][i]
      BY <1>1, <1>4, <2>2, <3>0 DEF InputMove
    <3>2. CASE k = i - 1
      BY <1>4, <3>1, <3>2
    <3>3. CASE k < i - 1
      <4> DEFINE r == Compute(0)
      <4>1. r \in Existing(i - 1) /\ r \in Phases
        BY <1>0, <3>0, FirstPhase
      <4>2. /\ inst[m][i - 1][r].start \in Nat /\ inst[m][i - 1][r].completion \in Nat
            /\ inst[m][i - 1][r].start <= inst[m][i - 1][r].completion
            /\ input_start[m][i - 1] \in Nat
            /\ inst[m][i - 1][r].completion <= input_start'[m][i]
        BY <3>0, <3>1, <4>1, CompleteTimes
      <4>3. input_start[m][i - 1] <= inst[m][i - 1][r].start
        <5>1. StartOK(m, i - 1, r)
          BY <3>0, <4>1 DEF InstancesOK
        <5>2. QED
          BY <4>2, <5>1 DEF StartOK, Top
      <4>4. InputOK(m, i - 1)
        BY <3>0 DEF InputsOK
      <4>5. Complete(m, k, q) /\ inst[m][k][q].completion <= input_start[m][i - 1]
        BY <1>4, <3>3, <4>2, <4>4 DEF InputOK
      <4>6. inst[m][k][q].completion \in Nat
        BY <1>0, <4>5, CompleteTimes
      <4> HIDE DEF r
      <4>7. QED
        BY <1>3, <4>2, <4>3, <4>5, <4>6 DEF Times
    <3>4. QED
      BY <1>4, <3>0, <3>2, <3>3
  <2>3. QED
    BY <2>1, <2>2
<1>5. ASSUME input_completion'[m][i] >= 0
      PROVE  AllComplete(m, i)' /\ Top(input_completion'[m][i], Ends(m, i)')
  <2>1. AllComplete(m, i) /\ Top(input_completion'[m][i], Ends(m, i))
    BY <1>1, <1>5 DEF InputOK, InputMove
  <2>2. \A p \in Existing(i) : inst'[m][i][p] = inst[m][i][p] /\ Complete(m, i, p)'
    BY <1>0, <1>2, <2>1 DEF AllComplete
  <2>3. Ends(m, i)' = Ends(m, i)
    BY <1>0, <2>2 DEF Ends
  <2>4. AllComplete(m, i)'
    BY <1>0, <2>2 DEF AllComplete
  <2>5. QED
    BY <2>1, <2>3, <2>4
<1>6. QED
  BY <1>0, <1>2, <1>3, <1>4, <1>5 DEF InputOK, Top

\* The models.
LEMMA KeepModels ==
  ASSUME TypeOK, TypeOK', InputsOK, ModelsOK, Moves
  PROVE  ModelsOK'
<1> SUFFICES ASSUME NEW m \in Models PROVE ModelOK(m)'
  BY DEF ModelsOK
<1>0. now <= now' /\ now \in Nat /\ now' \in Nat
      /\ model_completion[m] \in Times /\ model_completion'[m] \in Times
  BY DEF Moves, TypeOK
<1>1. ModelOK(m) /\ ModelMove(m) /\ \A i \in Inputs : InputMove(m, i)
  BY DEF ModelsOK, Moves
<1>2. ASSUME model_completion'[m] >= 0, model_completion'[m] = model_completion[m]
      PROVE  /\ \A i \in Inputs : input_completion'[m][i] >= 0
             /\ Top(model_completion'[m], {input_completion'[m][i] : i \in Inputs})
  <2>1. /\ \A i \in Inputs : input_completion[m][i] >= 0
        /\ Top(model_completion[m], {input_completion[m][i] : i \in Inputs})
    BY <1>1, <1>2 DEF ModelOK
  <2>2. \A i \in Inputs : input_completion'[m][i] = input_completion[m][i]
    BY <1>1, <2>1 DEF InputMove
  <2>3. {input_completion'[m][i] : i \in Inputs} = {input_completion[m][i] : i \in Inputs}
    BY <2>2
  <2>4. QED
    BY <1>2, <2>1, <2>2, <2>3
<1>3. ASSUME model_completion'[m] >= 0
      PROVE  /\ \A i \in Inputs : input_completion'[m][i] >= 0
             /\ Top(model_completion'[m], {input_completion'[m][i] : i \in Inputs})
  BY <1>1, <1>2, <1>3 DEF ModelMove
<1>4. model_completion[m] >= 0 => model_completion'[m] = model_completion[m]
  <2> SUFFICES ASSUME model_completion[m] >= 0, model_completion'[m] # model_completion[m]
               PROVE  FALSE
    OBVIOUS
  <2>1. /\ \A i \in Inputs : input_completion[m][i] >= 0
        /\ Top(model_completion[m], {input_completion[m][i] : i \in Inputs})
    BY <1>1 DEF ModelOK
  <2>2. \A i \in Inputs : input_completion'[m][i] = input_completion[m][i]
    BY <1>1, <2>1 DEF InputMove
  <2>3. {input_completion'[m][i] : i \in Inputs} = {input_completion[m][i] : i \in Inputs}
    BY <2>2
  <2>4. Top(model_completion'[m], {input_completion'[m][i] : i \in Inputs})
    BY <1>1 DEF ModelMove
  <2>5. model_completion'[m] <= model_completion[m] /\ model_completion[m] <= model_completion'[m]
    BY <2>1, <2>3, <2>4 DEF Top
  <2>6. QED
    BY <1>0, <2>5 DEF Times
<1>5. m \in retired' => model_completion'[m] >= 0 /\ model_completion'[m] <= now'
  <2>1. CASE m \in retired
    BY <1>0, <1>1, <1>4, <2>1 DEF ModelOK, Times
  <2>2. CASE m \in retired' \ retired
    BY <1>0, <1>1, <2>2 DEF ModelMove, Times
  <2>3. QED
    BY <2>1, <2>2
<1>6. m \in Waiting' => \A i \in Inputs : input_start'[m][i] = -1
  BY <1>1 DEF ModelOK, ModelMove
<1>7. QED
  BY <1>3, <1>5, <1>6 DEF ModelOK

\* Moves keep the invariant, given the rest of it.
LEMMA MovesKeep ==
  ASSUME IInv, Moves, TypeOK', PassOK', stage' = "retire" => Settled'
  PROVE  IInv'
<1>1. TypeOK /\ InstancesOK /\ EarlierLayers /\ EarlierInputs /\ InputsOK /\ ModelsOK
  BY DEF IInv
<1>2. InstancesOK'
  BY <1>1, KeepInstances
<1>3. EarlierLayers'
  BY <1>1, KeepLayers
<1>4. EarlierInputs'
  BY <1>1, <1>2, KeepInputs
<1>5. InputsOK' /\ ModelsOK'
  BY <1>1, KeepInputTimes, KeepModels
<1>6. QED
  BY <1>2, <1>3, <1>4, <1>5 DEF IInv

----------------------------------------------------------------------------
(* Every action makes such moves. *)

\* Nothing has started.
LEMMA InitIInv == Init => IInv
<1> SUFFICES ASSUME Init PROVE IInv
  OBVIOUS
<1>1. ASSUME NEW m \in Models, NEW i \in Inputs, NEW p \in Phases
      PROVE  /\ inst[m][i][p] = NewInstance(m, p)
             /\ inst[m][i][p] \in Instance
             /\ inst[m][i][p].start = -1 /\ inst[m][i][p].state = "NOT_STARTED"
             /\ inst[m][i][p].latency >= 0
  <2>1. inst[m][i][p] = NewInstance(m, p)
    BY DEF Init
  <2>2. (IF IsCompute(p) THEN ComputeLatency[m][p[2]] ELSE 0) \in Nat
    BY PhaseAssumption, PhaseKinds
  <2>3. QED
    BY <2>1, <2>2 DEF NewInstance, Instance, Times
<1>2. TypeOK
  <2>1. inst \in [Models -> [Inputs -> [Phases -> Instance]]]
    BY <1>1 DEF Init
  <2>2. QED
    BY <2>1 DEF Init, TypeOK, Instance, Times
<1>3. InstancesOK /\ EarlierLayers /\ EarlierInputs
  BY <1>1 DEF InstancesOK, StartOK, StateOK, EarlierLayers, EarlierInputs
<1>4. InputsOK /\ ModelsOK /\ PassOK
  BY DEF Init, InputsOK, InputOK, ModelsOK, ModelOK, PassOK, Waiting
<1>5. QED
  BY <1>2, <1>3, <1>4 DEF Init, IInv

\* A step that changes no instance and no time makes no move.
LEMMA QuietMoves ==
  ASSUME TypeOK, UNCHANGED <<mode, retired, modelVars>>, now <= now', Waiting' \subseteq Waiting
  PROVE  Moves
BY DEF modelVars, Moves, Move, InputMove, ModelMove

\* What recalculating would change depends on the state only.
LEMMA SettledStays ==
  ASSUME Settled, UNCHANGED vars
  PROVE  Settled'
<1>0. /\ mode' = mode /\ inst' = inst /\ input_start' = input_start /\ active' = active
      /\ input_completion' = input_completion /\ model_completion' = model_completion
  BY DEF vars
<1>1. /\ Phases' = Phases
      /\ \A p : Dependencies(p)' = Dependencies(p)
      /\ \A i, p : Exists(i, p)' <=> Exists(i, p)
      /\ \A i : Existing(i)' = Existing(i)
  BY <1>0, ScheduleFixed
<1>2. /\ \A m, i, p : Complete(m, i, p)' <=> Complete(m, i, p)
  BY <1>0 DEF Complete
<1>3. \A m, i, p : DependenciesMet(m, i, p)' <=> DependenciesMet(m, i, p)
  BY <1>0, <1>1, <1>2 DEF DependenciesMet
<1>4. \A m, i : CurrentPhases(m, i)' = CurrentPhases(m, i)
  BY <1>1, <1>2, <1>3 DEF CurrentPhases
<1>6. \A m, i : InputEnd(m, i)' = InputEnd(m, i)
  BY <1>0, <1>1, <1>2 DEF InputEnd, AllComplete
<1>7. \A l : LayerPhases(l)' = LayerPhases(l)
  BY <1>1 DEF LayerPhases
<1>8. \A m, i : FirstLayerEnd(m, i)' = FirstLayerEnd(m, i)
  BY <1>0, <1>2, <1>7 DEF FirstLayerEnd
<1>9. \A m, i : InputBegin(m, i)' = InputBegin(m, i)
  BY <1>0, <1>6, <1>8 DEF InputBegin
<1>10. \A m : ModelEnd(m)' = ModelEnd(m)
  BY <1>0, <1>6 DEF ModelEnd
<1>11. \A m, i, p : TimedInstance(m, i, p)' = TimedInstance(m, i, p)
  <2> SUFFICES ASSUME NEW m, NEW i, NEW p PROVE TimedInstance(m, i, p)' = TimedInstance(m, i, p)
    OBVIOUS
  <2>1. InputBegin(m, i)' = InputBegin(m, i)
    BY <1>9
  <2>2. {e \in Dependencies(p) : Exists(i, e)}' = {e \in Dependencies(p) : Exists(i, e)}
    BY <1>1
  <2>3. {j \in Inputs : mode.pipelined /\ j = i - 1 /\ Exists(j, p)}'
          = {j \in Inputs : mode.pipelined /\ j = i - 1 /\ Exists(j, p)}
    BY <1>0, <1>1
  <2>4. StartTime(InputBegin(m, i), m, i, p)' = StartTime(InputBegin(m, i), m, i, p)
    BY <1>0, <2>1, <2>2, <2>3, Zenon DEF StartTime
  <2>5. p \in CurrentPhases(m, i)' <=> p \in CurrentPhases(m, i)
    BY <1>4
  <2>6. QED
    BY <1>0, <2>1, <2>4, <2>5, Zenon DEF TimedInstance
<1>12. QED
  BY <1>0, <1>1, <1>6, <1>9, <1>10, <1>11 DEF Settled

\* The stages of a pass that touch no model.
LEMMA QuietStep ==
  ASSUME IInv,
         \/ EndInjection \/ Finish \/ SkipSimulation \/ AdvanceTime \/ Stopped
         \/ \E results : SimulationFails(results)
         \/ UNCHANGED vars
  PROVE  Moves /\ IInv'
<1>1. TypeOK /\ PassOK /\ now \in Nat /\ TimeStep \in Nat
  BY PhaseAssumption DEF IInv, TypeOK
<1>2. UNCHANGED <<mode, active, retired, modelVars>>
  BY DEF EndInjection, Finish, SkipSimulation, AdvanceTime, Stopped, SimulationFails, vars, modelVars
<1>3. Phases' = Phases /\ Waiting' = Waiting
  BY <1>2, ScheduleFixed DEF Waiting
<1>4. now' \in Nat /\ now <= now'
  BY <1>1 DEF EndInjection, Finish, SkipSimulation, AdvanceTime, Stopped, SimulationFails, vars
<1>5. /\ todo' \subseteq active \X Inputs
      /\ collected' \subseteq active \X Inputs \X Phases
      /\ stage' \in {"inject", "collect", "timing", "retire", "advance", "done", "error"}
  BY <1>1 DEF EndInjection, Finish, SkipSimulation, AdvanceTime, Stopped, SimulationFails, vars, TypeOK
<1>6. TypeOK'
  BY <1>1, <1>2, <1>3, <1>4, <1>5 DEF TypeOK, modelVars
<1>7. PassOK'
  <2>1. \/ todo' = todo /\ collected' = collected /\ (stage' # "collect" => todo = {})
        \/ stage' = "collect" /\ collected' = {}
    BY <1>1
    DEF EndInjection, Finish, SkipSimulation, AdvanceTime, Stopped, SimulationFails, vars, PassOK
  <2>2. QED
    BY <1>1, <1>2, <2>1 DEF PassOK, modelVars
<1>8. stage' = "retire" => Settled'
  <2> SUFFICES ASSUME stage' = "retire" PROVE Settled'
    OBVIOUS
  <2>1. UNCHANGED vars
    BY DEF EndInjection, Finish, SkipSimulation, AdvanceTime, Stopped, SimulationFails
  <2>2. Settled
    BY <2>1 DEF IInv, vars
  <2>3. QED
    BY <2>1, <2>2, SettledStays
<1>9. Moves
  BY <1>1, <1>2, <1>3, <1>4, QuietMoves
<1>10. QED
  BY <1>6, <1>7, <1>8, <1>9, MovesKeep

\* A new model gets the start of its first input.
LEMMA InjectStep ==
  ASSUME IInv, NEW n \in Models, InjectModel(n)
  PROVE  Moves /\ IInv'
<1>1. TypeOK /\ PassOK /\ ModelsOK /\ now \in Nat /\ 0 \in Inputs
  BY PhaseAssumption DEF IInv, TypeOK, Inputs
<1>2. /\ stage = "inject" /\ n \in Waiting /\ active' = active \cup {n}
      /\ input_start' = [input_start EXCEPT ![n][0] = now]
      /\ UNCHANGED <<mode, stage, now, todo, collected, retired, inst, weights_loaded,
                     input_completion, model_completion, layer_time>>
  BY DEF InjectModel
<1>3. Phases' = Phases
  BY <1>2, ScheduleFixed
<1>4. TypeOK'
  <2>1. input_start' \in [Models -> [Inputs -> Times]]
    BY <1>1, <1>2 DEF TypeOK, Times
  <2>2. QED
    BY <1>1, <1>2, <1>3, <2>1 DEF TypeOK
<1>5. PassOK'
  BY <1>1, <1>2 DEF PassOK, Waiting
<1>6. \A m \in Models, i \in Inputs : input_start'[m][i] =
        IF m = n /\ i = 0 THEN now ELSE input_start[m][i]
  BY <1>1, <1>2 DEF TypeOK
<1>7. input_start[n][0] = -1
  BY <1>1, <1>2 DEF ModelsOK, ModelOK
<1>8. \A m \in Models, i \in Inputs : InputMove(m, i)
  BY <1>1, <1>2, <1>6, <1>7 DEF InputMove
<1>9. \A m \in Models : ModelMove(m)
  <2> TAKE m \in Models
  <2>1. m \in Waiting' => m \in Waiting /\ m # n
    BY <1>2 DEF Waiting
  <2>2. m # n => input_start'[m] = input_start[m]
    BY <1>1, <1>2 DEF TypeOK
  <2>3. QED
    BY <1>2, <2>1, <2>2 DEF ModelMove
<1>10. Moves
  BY <1>1, <1>2, <1>8, <1>9 DEF Moves, Move
<1>11. QED
  BY <1>2, <1>4, <1>5, <1>10, MovesKeep

\* get_active_phases computes a start again, and gets the same.
LEMMA StartAgain ==
  ASSUME TypeOK, InstancesOK, InputsOK, NEW m \in Models, NEW i \in Inputs, NEW p \in Phases,
         inst[m][i][p].start >= 0
  PROVE  StartTime(input_start[m][i], m, i, p) = inst[m][i][p].start
<1>1. /\ DependenciesMet(m, i, p)
      /\ Top(inst[m][i][p].start, {input_start[m][i]} \cup Behind(m, i, p))
  BY DEF InstancesOK, StartOK
<1>2. input_start[m][i] \in Times /\ input_start[m][i] <= now
  BY DEF TypeOK, InputsOK, InputOK
<1>3. /\ Top(StartTime(input_start[m][i], m, i, p), {input_start[m][i]} \cup Behind(m, i, p))
      /\ StartTime(input_start[m][i], m, i, p) \in Times
  BY <1>1, <1>2, StartIsTop
<1>4. inst[m][i][p].start \in Times
  BY InstanceType
<1>5. QED
  BY <1>1, <1>3, <1>4 DEF Top, Times

\* What the phase found for a visited input may become: begun, or over.
LEMMA VisitedMove ==
  ASSUME IInv, NEW m \in Models, NEW i \in Inputs, NEW p \in Phases,
         StartPhase(m, i, p) \/ CompleteSilentPhase(m, i, p) \/ CompletePhase(m, i, p)
  PROVE  /\ Move(m, i, p)
         /\ inst' \in [Models -> [Inputs -> [Phases -> Instance]]]
         /\ weights_loaded' \in [Models -> [Layers -> BOOLEAN]]
         /\ \A n \in Models, l \in Layers : weights_loaded[n][l] => weights_loaded'[n][l]
         /\ \A n \in Models, k \in Inputs, q \in Phases :
              <<n, k, q>> # <<m, i, p>> => inst'[n][k][q] = inst[n][k][q]
         /\ \/ collected' = collected
            \/ collected' = collected \cup {<<m, i, p>>} /\ inst'[m][i][p].state = "RUNNING"
<1>1. TypeOK /\ InstancesOK /\ InputsOK
  BY DEF IInv
<1> DEFINE x == inst[m][i][p]
           s == StartTime(input_start[m][i], m, i, p)
<1>2. /\ Exists(i, p) /\ ~Complete(m, i, p) /\ DependenciesMet(m, i, p)
      /\ input_start[m][i] \in Nat /\ input_start'[m][i] = input_start[m][i]
      /\ input_start[m][i] <= now
  <2>1. Current(m, i, p)
    BY DEF StartPhase, CompleteSilentPhase, CompletePhase
  <2>2. input_start[m][i] \in Times
    BY <1>1 DEF TypeOK
  <2>3. QED
    BY <2>1, <2>2 DEF Current, Visit, Started, CurrentPhases, Existing, Times
<1>3. /\ inst \in [Models -> [Inputs -> [Phases -> Instance]]]
      /\ weights_loaded \in [Models -> [Layers -> BOOLEAN]]
  BY <1>1 DEF TypeOK, Instance
<1>4. x \in Instance /\ StateOK(m, i, p) /\ now \in Nat
  BY <1>1, <1>3 DEF InstancesOK, TypeOK
<1>5. s \in Times /\ 0 <= s /\ s <= now
  <2>1. input_start[m][i] \in Times
    BY <1>2 DEF Times
  <2>2. s \in Times /\ input_start[m][i] <= s /\ s <= now
    BY <1>1, <1>2, <2>1, StartIsTop
  <2> HIDE DEF s
  <2>3. QED
    BY <1>2, <2>2 DEF Times
<1>6. x.start >= 0 => s = x.start
  BY <1>1, StartAgain
<1> HIDE DEF s
<1>7. ASSUME NEW y \in Instance, inst' = [inst EXCEPT ![m][i][p] = y]
      PROVE  /\ inst' \in [Models -> [Inputs -> [Phases -> Instance]]]
             /\ inst'[m][i][p] = y
             /\ \A n \in Models, k \in Inputs, q \in Phases :
                  <<n, k, q>> # <<m, i, p>> => inst'[n][k][q] = inst[n][k][q]
  BY <1>3, <1>7
<1>8. ASSUME MarkLoaded(m, p)
      PROVE  /\ weights_loaded' \in [Models -> [Layers -> BOOLEAN]]
             /\ \A n \in Models, l \in Layers : weights_loaded[n][l] => weights_loaded'[n][l]
             /\ IsWeight(p) => \A l \in LayersOf(p) : weights_loaded'[m][l]
  <2>1. weights_loaded' = [weights_loaded EXCEPT ![m] =
          [l \in Layers |-> weights_loaded[m][l] \/ (IsWeight(p) /\ l \in LayersOf(p))]]
    BY <1>8 DEF MarkLoaded
  <2>2. [l \in Layers |-> weights_loaded[m][l] \/ (IsWeight(p) /\ l \in LayersOf(p))]
          \in [Layers -> BOOLEAN]
    OBVIOUS
  <2>3. weights_loaded'[m] =
          [l \in Layers |-> weights_loaded[m][l] \/ (IsWeight(p) /\ l \in LayersOf(p))]
    BY <1>3, <2>1
  <2>4. \A n \in Models : n # m => weights_loaded'[n] = weights_loaded[n]
    BY <1>3, <2>1
  <2>5. weights_loaded' \in [Models -> [Layers -> BOOLEAN]]
    BY <1>3, <2>1, <2>2
  <2>6. \A n \in Models, l \in Layers : weights_loaded[n][l] => weights_loaded'[n][l]
    BY <2>3, <2>4
  <2>7. IsWeight(p) => \A l \in LayersOf(p) : weights_loaded'[m][l]
    BY <2>3 DEF LayersOf
  <2>8. QED
    BY <2>5, <2>6, <2>7
<1>9. CASE StartPhase(m, i, p)
  <2> DEFINE y == [x EXCEPT !.state = "RUNNING", !.start = s]
  <2>1. inst' = [inst EXCEPT ![m][i][p] = y] /\ weights_loaded' = weights_loaded
        /\ x.state = "NOT_STARTED"
        /\ collected' = IF IsCompute(p) THEN collected ELSE collected \cup {<<m, i, p>>}
    BY <1>9 DEF StartPhase, SetInstance, s
  <2>2. /\ y \in Instance /\ y.state = "RUNNING" /\ y.start = s /\ y.latency = x.latency
    BY <1>4, <1>5 DEF Instance
  <2>3. x.latency >= 0
    BY <1>4, <2>1 DEF StateOK
  <2>4. inst'[m][i][p] = y
    BY <1>7, <2>1, <2>2
  <2> HIDE DEF y
  <2>5. Move(m, i, p)
    BY <1>2, <1>6, <2>2, <2>3, <2>4 DEF Move, s
  <2>6. QED
    BY <1>3, <1>7, <2>1, <2>2, <2>4, <2>5
<1>10. CASE CompleteSilentPhase(m, i, p)
  <2> DEFINE y == [state |-> "COMPLETE", start |-> s, completion |-> s, latency |-> -1]
  <2>1. inst' = [inst EXCEPT ![m][i][p] = y] /\ MarkLoaded(m, p) /\ collected' = collected
    BY <1>10 DEF CompleteSilentPhase, SetInstance, s
  <2>2. /\ y \in Instance /\ y.state = "COMPLETE" /\ y.start = s /\ y.completion = s
        /\ y.latency = -1
    BY <1>5 DEF Instance, Times
  <2>3. inst'[m][i][p] = y
    BY <1>7, <2>1, <2>2
  <2> HIDE DEF y
  <2>4. Move(m, i, p)
    BY <1>2, <1>5, <1>6, <1>8, <2>1, <2>2, <2>3 DEF Move, s, Times
  <2>5. QED
    BY <1>3, <1>7, <1>8, <2>1, <2>2, <2>4
<1>11. CASE CompletePhase(m, i, p)
  <2> DEFINE y == [x EXCEPT !.state = "COMPLETE", !.completion = x.start + x.latency]
  <2>1. inst' = [inst EXCEPT ![m][i][p] = y] /\ MarkLoaded(m, p) /\ collected' = collected
        /\ x.state = "RUNNING" /\ ~Unfinished(m, i, p)
    BY <1>11 DEF CompletePhase, SetInstance
  <2>2. x.latency >= 0 /\ x.start >= 0
    BY <1>4, <2>1 DEF StateOK
  <2>3. x.start + x.latency <= now /\ x.start + x.latency \in Nat
    BY <1>4, <2>1, <2>2 DEF Unfinished, Elapsed, Instance, Times
  <2>4. /\ y \in Instance /\ y.state = "COMPLETE" /\ y.start = x.start /\ y.latency = x.latency
        /\ y.completion = x.start + x.latency
    BY <1>4, <2>3 DEF Instance, Times
  <2>5. inst'[m][i][p] = y
    BY <1>7, <2>1, <2>4
  <2> HIDE DEF y
  <2>6. Move(m, i, p)
    <3>1. y.completion = y.start + (IF y.latency = -1 THEN 0 ELSE y.latency)
      BY <2>2, <2>4
    <3>2. QED
      BY <1>2, <1>8, <2>1, <2>2, <2>3, <2>4, <2>5, <3>1 DEF Move
  <2>7. QED
    BY <1>3, <1>7, <1>8, <2>1, <2>4, <2>6
<1>12. QED
  BY <1>9, <1>10, <1>11

\* A visit of get_active_phases keeps the invariant.
LEMMA VisitStep ==
  ASSUME IInv, NEW m \in Models, NEW i \in Inputs,
         \/ IdleInput(m, i)
         \/ \E p \in Phases : \/ StartPhase(m, i, p) \/ CompleteSilentPhase(m, i, p)
                              \/ KeepRunning(m, i, p) \/ CompletePhase(m, i, p)
  PROVE  Moves /\ IInv'
<1>1. TypeOK /\ PassOK /\ now \in Nat
  BY DEF IInv, TypeOK
<1>2. /\ stage = "collect" /\ <<m, i>> \in todo /\ todo' = todo \ {<<m, i>>}
      /\ UNCHANGED <<mode, stage, now, active, retired, input_start, input_completion,
                     model_completion, layer_time>>
  BY DEF IdleInput, StartPhase, CompleteSilentPhase, KeepRunning, CompletePhase, Current, Visit
<1>3. m \in active /\ Phases' = Phases /\ Waiting' = Waiting
  BY <1>1, <1>2, ScheduleFixed DEF TypeOK, Waiting
<1>4. ASSUME /\ \A n \in Models, k \in Inputs, q \in Phases : Move(n, k, q)
             /\ inst' \in [Models -> [Inputs -> [Phases -> Instance]]]
             /\ weights_loaded' \in [Models -> [Layers -> BOOLEAN]]
             /\ \A n \in Models, l \in Layers : weights_loaded[n][l] => weights_loaded'[n][l]
             /\ collected' \subseteq active \X Inputs \X Phases
             /\ \A c \in collected' : /\ inst'[c[1]][c[2]][c[3]].state = "RUNNING"
                                      /\ <<c[1], c[2]>> \notin todo'
      PROVE  Moves /\ IInv'
  <2>1. TypeOK'
    BY <1>1, <1>2, <1>3, <1>4 DEF TypeOK, Instance
  <2>2. PassOK'
    BY <1>1, <1>2, <1>4 DEF PassOK
  <2>3. Moves
    BY <1>1, <1>2, <1>3, <1>4 DEF Moves, InputMove, ModelMove
  <2>4. QED
    BY <1>2, <2>1, <2>2, <2>3, MovesKeep
<1>5. /\ inst \in [Models -> [Inputs -> [Phases -> Instance]]]
      /\ weights_loaded \in [Models -> [Layers -> BOOLEAN]]
      /\ collected \subseteq active \X Inputs \X Phases
      /\ active \subseteq Models
  BY <1>1 DEF TypeOK, Instance
<1>6. \A c \in collected : /\ c[1] \in Models /\ c[2] \in Inputs /\ c[3] \in Phases
                           /\ inst[c[1]][c[2]][c[3]].state = "RUNNING"
                           /\ <<c[1], c[2]>> \notin todo /\ <<c[1], c[2]>> # <<m, i>>
  BY <1>1, <1>2, <1>5 DEF PassOK
<1>7. CASE IdleInput(m, i)
  <2>1. UNCHANGED <<inst, weights_loaded, collected>>
    BY <1>7 DEF IdleInput
  <2>2. QED
    BY <1>2, <1>4, <1>5, <1>6, <2>1 DEF Move
<1>8. ASSUME NEW p \in Phases, KeepRunning(m, i, p) PROVE Moves /\ IInv'
  <2>1. /\ UNCHANGED <<inst, weights_loaded>> /\ inst[m][i][p].state = "RUNNING"
        /\ collected' \subseteq collected \cup {<<m, i, p>>}
    BY <1>8 DEF KeepRunning
  <2>2. \A c \in collected' : /\ inst'[c[1]][c[2]][c[3]].state = "RUNNING"
                              /\ <<c[1], c[2]>> \notin todo'
    <3> TAKE c \in collected'
    <3>1. CASE c \in collected
      BY <1>2, <1>6, <2>1, <3>1
    <3>2. CASE c = <<m, i, p>>
      BY <1>2, <2>1, <3>2
    <3>3. QED
      BY <2>1, <3>1, <3>2
  <2>3. QED
    BY <1>3, <1>4, <1>5, <2>1, <2>2 DEF Move
<1>9. ASSUME NEW p \in Phases,
             StartPhase(m, i, p) \/ CompleteSilentPhase(m, i, p) \/ CompletePhase(m, i, p)
      PROVE  Moves /\ IInv'
  <2>1. /\ Move(m, i, p)
        /\ inst' \in [Models -> [Inputs -> [Phases -> Instance]]]
        /\ weights_loaded' \in [Models -> [Layers -> BOOLEAN]]
        /\ \A n \in Models, l \in Layers : weights_loaded[n][l] => weights_loaded'[n][l]
        /\ \A n \in Models, k \in Inputs, q \in Phases :
             <<n, k, q>> # <<m, i, p>> => inst'[n][k][q] = inst[n][k][q]
        /\ \/ collected' = collected
           \/ collected' = collected \cup {<<m, i, p>>} /\ inst'[m][i][p].state = "RUNNING"
    BY <1>9, VisitedMove
  <2>2. \A n \in Models, k \in Inputs, q \in Phases : Move(n, k, q)
    BY <2>1 DEF Move
  <2>3. \A c \in collected' : /\ inst'[c[1]][c[2]][c[3]].state = "RUNNING"
                              /\ <<c[1], c[2]>> \notin todo'
    <3> TAKE c \in collected'
    <3>1. CASE c \in collected
      <4>1. <<c[1], c[2], c[3]>> # <<m, i, p>>
        BY <1>6, <3>1
      <4>2. QED
        BY <1>2, <1>6, <2>1, <3>1, <4>1
    <3>2. CASE c = <<m, i, p>> /\ inst'[m][i][p].state = "RUNNING"
      BY <1>2, <3>2
    <3>3. QED
      BY <2>1, <3>1, <3>2
  <2>4. collected' \subseteq active \X Inputs \X Phases
    BY <1>3, <1>5, <2>1
  <2>5. QED
    BY <1>4, <2>1, <2>2, <2>3, <2>4
<1>10. QED
  BY <1>7, <1>8, <1>9

\* The times sync_phase_metrics_to_layers copies are times.
LEMMA SyncedType ==
  ASSUME TypeOK, NEW m \in Models, NEW i \in Inputs, NEW l \in Layers,
         NEW f \in [Phases -> Instance]
  PROVE  SyncedLayer(f, m, i, l) \in [start : Times, completion : Times]
<1> DEFINE mine == {p \in Existing(i) : l \in LayersOf(p)}
           starts == Known({layer_time[m][i][l].start} \cup {f[p].start : p \in mine})
           ends == {layer_time[m][i][l].completion} \cup {f[p].completion : p \in mine}
<1>1. /\ layer_time[m][i][l].start \in Times /\ layer_time[m][i][l].completion \in Times
      /\ \A p \in Phases : f[p].start \in Times /\ f[p].completion \in Times
      /\ mine \subseteq Phases
  <2>1. layer_time[m][i][l] \in [start : Times, completion : Times]
    BY DEF TypeOK
  <2>2. \A p \in Phases : f[p] \in Instance
    OBVIOUS
  <2>3. QED
    BY <2>1, <2>2 DEF Instance, Existing
<1>2. (IF starts = {} THEN -1 ELSE Min(starts)) \in Times
  <2>1. starts \in SUBSET Nat
    BY <1>1 DEF Known, Times
  <2> HIDE DEF starts
  <2>2. starts # {} => Min(starts) \in starts
    BY <2>1, LeastNatural DEF Min
  <2>3. QED
    BY <2>1, <2>2 DEF Times
<1>3. Max(ends) \in Times
  <2>1. mine \subseteq {Compute(l), Activation(l), WeightPhase(l)}
    <3> SUFFICES ASSUME NEW p \in mine PROVE p \in {Compute(l), Activation(l), WeightPhase(l)}
      OBVIOUS
    <3>1. p \in Phases /\ l \in LayersOf(p)
      BY <1>1
    <3>2. CASE IsWeight(p)
      BY <3>1, <3>2 DEF LayersOf
    <3>3. CASE ~IsWeight(p)
      <4>1. p[2] = l
        BY <3>1, <3>3 DEF LayersOf
      <4>2. QED
        BY <3>1, <3>3, <4>1, PhaseKinds
    <3>4. QED
      BY <3>2, <3>3
  <2> DEFINE End(p) == IF p \in mine THEN f[p].completion ELSE -1
  <2>2. /\ End(Compute(l)) \in Times /\ End(Activation(l)) \in Times
        /\ End(WeightPhase(l)) \in Times
        /\ \A t \in ends : t = layer_time[m][i][l].completion \/ t = End(Compute(l))
                             \/ t = End(Activation(l)) \/ t = End(WeightPhase(l))
    BY <1>1, <2>1 DEF Times
  <2>3. ends # {} /\ ends \in SUBSET Times
    BY <1>1
  <2> HIDE DEF ends, End
  <2>4. ASSUME NEW a \in Times, NEW b \in Times, NEW c \in Times, NEW d \in Times
        PROVE  \E bound \in Int : a <= bound /\ b <= bound /\ c <= bound /\ d <= bound
    <3> USE DEF Times
    <3> WITNESS a + b + c + d + 4 \in Int
    <3> QED
      OBVIOUS
  <2>5. \E b \in Int : \A t \in ends : t <= b
    <3>1. PICK bound \in Int : /\ layer_time[m][i][l].completion <= bound
                               /\ End(Compute(l)) <= bound /\ End(Activation(l)) <= bound
                               /\ End(WeightPhase(l)) <= bound
      BY <1>1, <2>2, <2>4
    <3>2. QED
      BY <2>2, <3>1
  <2>6. ends \in SUBSET Int
    BY <2>3 DEF Times
  <2>7. Top(Max(ends), ends)
    BY <2>3, <2>5, <2>6, MaxIsTop
  <2>8. QED
    BY <2>3, <2>7 DEF Top
<1>4. SyncedLayer(f, m, i, l) = [start |-> IF starts = {} THEN -1 ELSE Min(starts),
                                 completion |-> Max(ends)]
  BY DEF SyncedLayer
<1> HIDE DEF starts, ends
<1>5. QED
  BY <1>2, <1>3, <1>4

\* Results only change the latency of phases that run.
LEMMA SimulateStep ==
  ASSUME IInv, NEW results \in SimulatorResults(collected), SimulateCommunication(results)
  PROVE  Moves /\ IInv'
<1>1. TypeOK /\ PassOK /\ InstancesOK /\ now \in Nat
  BY DEF IInv, TypeOK
<1>2. /\ stage = "collect" /\ todo = {} /\ stage' = "timing"
      /\ inst' = Updated(results) /\ SyncPhaseMetrics(inst')
      /\ UNCHANGED <<mode, now, todo, collected, active, retired, weights_loaded, input_start,
                     input_completion, model_completion>>
  BY DEF SimulateCommunication
<1>3. DOMAIN results \subseteq collected /\ \A c \in DOMAIN results : results[c] \in Nat
  <2>1. PICK some \in SUBSET collected : results \in [some -> Latencies[mode.reliable]]
    BY DEF SimulatorResults
  <2>2. mode.reliable \in BOOLEAN
    BY <1>1, PhaseAssumption DEF TypeOK, ModeSpace
  <2>3. Latencies[mode.reliable] \subseteq Nat
    BY <2>2, PhaseAssumption
  <2>4. QED
    BY <2>1, <2>3
<1>4. ASSUME NEW m \in Models, NEW i \in Inputs, NEW p \in Phases
      PROVE  /\ inst'[m][i][p] \in Instance /\ inst'[m][i][p].state = inst[m][i][p].state
             /\ Move(m, i, p)
  <2>1. inst[m][i][p] \in Instance
    BY <1>1, InstanceType
  <2>2. CASE <<m, i, p>> \notin DOMAIN results
    <3>1. inst'[m][i][p] = inst[m][i][p]
      BY <1>2, <2>2 DEF Updated
    <3>2. QED
      BY <2>1, <3>1 DEF Move
  <2>3. CASE <<m, i, p>> \in DOMAIN results
    <3> DEFINE n == UpdatedLatency(inst[m][i][p], results[<<m, i, p>>])
               y == [inst[m][i][p] EXCEPT !.latency = n]
    <3>1. inst'[m][i][p] = y
      BY <1>2, <2>3 DEF Updated
    <3>2. inst[m][i][p].state = "RUNNING"
      <4>1. <<m, i, p>> \in collected
        BY <1>3, <2>3
      <4>2. QED
        BY <1>1, <4>1 DEF PassOK
    <3>3. StartOK(m, i, p) /\ StateOK(m, i, p)
      BY <1>1 DEF InstancesOK
    <3>4. /\ inst[m][i][p].start >= 0 /\ inst[m][i][p].latency >= 0
          /\ inst[m][i][p].start <= now
          /\ Exists(i, p) /\ DependenciesMet(m, i, p) /\ input_start[m][i] >= 0
      BY <3>2, <3>3 DEF StartOK, StateOK
    <3>5. n \in Nat
      <4>1. results[<<m, i, p>>] \in Nat
        BY <1>3, <2>3
      <4>2. inst[m][i][p].start \in Int
        BY <2>1 DEF Instance, Times
      <4>3. QED
        BY <1>1, <3>4, <4>1, <4>2 DEF UpdatedLatency
    <3> HIDE DEF n
    <3>6. /\ y \in Instance /\ y.state = "RUNNING" /\ y.latency = n
          /\ y.start = inst[m][i][p].start
      BY <2>1, <3>2, <3>5 DEF Instance, Times
    <3> HIDE DEF y
    <3>7. Move(m, i, p)
      BY <1>2, <3>1, <3>2, <3>4, <3>5, <3>6 DEF Move, Complete
    <3>8. QED
      BY <3>1, <3>2, <3>6, <3>7
  <2>4. QED
    BY <2>2, <2>3
<1>5. Phases' = Phases /\ Waiting' = Waiting
  BY <1>2, ScheduleFixed DEF Waiting
<1>6. inst' \in [Models -> [Inputs -> [Phases -> Instance]]]
  <2>1. inst' = [m \in Models |-> [i \in Inputs |-> [p \in Phases |-> inst'[m][i][p]]]]
    BY <1>2 DEF Updated
  <2>2. QED
    BY <1>4, <2>1
<1>7. layer_time' \in [Models -> [Inputs -> [Layers -> [start : Times, completion : Times]]]]
  <2>1. layer_time \in [Models -> [Inputs -> [Layers -> [start : Times, completion : Times]]]]
    BY <1>1 DEF TypeOK
  <2>2. \A m \in Models, i \in Inputs, l \in Layers :
          SyncedLayer(inst'[m][i], m, i, l) \in [start : Times, completion : Times]
    BY <1>1, <1>6, SyncedType
  <2>3. layer_time' = [m \in Models |-> IF m \notin active THEN layer_time[m] ELSE
          [i \in Inputs |-> [l \in Layers |-> SyncedLayer(inst'[m][i], m, i, l)]]]
    BY <1>2 DEF SyncPhaseMetrics
  <2>4. QED
    BY <2>1, <2>2, <2>3
<1>8. TypeOK'
  BY <1>1, <1>2, <1>5, <1>6, <1>7 DEF TypeOK, Instance
<1>9. PassOK'
  <2>1. \A c \in collected : c[1] \in Models /\ c[2] \in Inputs /\ c[3] \in Phases
    BY <1>1 DEF TypeOK
  <2>2. QED
    BY <1>1, <1>2, <1>4, <2>1, SMTT(40) DEF PassOK
<1>10. Moves
  BY <1>1, <1>2, <1>4, <1>5 DEF Moves, InputMove, ModelMove
<1>11. QED
  BY <1>2, <1>8, <1>9, <1>10, MovesKeep

----------------------------------------------------------------------------
(* calculate_phase_timing. *)

\* The last end of a set of phases that are over.
LEMMA LastEnd ==
  ASSUME TypeOK, InstancesOK, NEW m \in Models, NEW i \in Inputs, NEW S \in SUBSET Phases,
         S # {}, \A p \in S : Complete(m, i, p)
  PROVE  /\ Top(Max({inst[m][i][p].completion : p \in S}), {inst[m][i][p].completion : p \in S})
         /\ Max({inst[m][i][p].completion : p \in S}) \in Nat
         /\ Max({inst[m][i][p].completion : p \in S}) <= now
<1> DEFINE T == {inst[m][i][p].completion : p \in S}
<1>1. T \in SUBSET Nat /\ T # {} /\ now \in Int /\ \A t \in T : t <= now
  BY CompleteTimes DEF TypeOK
<1> HIDE DEF T
<1>2. T \in SUBSET Int
  BY <1>1
<1>3. Top(Max(T), T)
  BY <1>1, <1>2, MaxIsTop
<1>4. QED
  BY <1>1, <1>3 DEF T, Top

\* The end of an input is set when all its phases are over, and to the last end.
LEMMA InputEndOK ==
  ASSUME IInv, NEW m \in Models, NEW i \in Inputs
  PROVE  /\ InputEnd(m, i) \in Times /\ InputEnd(m, i) <= now
         /\ AllComplete(m, i) <=> InputEnd(m, i) >= 0
         /\ input_completion[m][i] # -1 => InputEnd(m, i) = input_completion[m][i]
         /\ InputEnd(m, i) >= 0 => Top(InputEnd(m, i), Ends(m, i))
<1>1. TypeOK /\ InstancesOK /\ InputOK(m, i) /\ now \in Nat /\ input_completion[m][i] \in Times
  BY DEF IInv, InputsOK, TypeOK
<1>2. Existing(i) \in SUBSET Phases /\ Compute(0) \in Existing(i)
  BY FirstPhase DEF Existing
<1>3. ASSUME AllComplete(m, i)
      PROVE  /\ input_start[m][i] # -1 /\ Top(Max(Ends(m, i)), Ends(m, i))
             /\ Max(Ends(m, i)) \in Nat /\ Max(Ends(m, i)) <= now
  <2>1. \A p \in Existing(i) : Complete(m, i, p)
    BY <1>3 DEF AllComplete
  <2>2. input_start[m][i] \in Nat
    BY <1>1, <1>2, <2>1, CompleteTimes
  <2>3. QED
    BY <1>1, <1>2, <2>1, <2>2, LastEnd DEF Ends
<1>4. CASE input_completion[m][i] = -1 /\ AllComplete(m, i)
  <2>1. InputEnd(m, i) = Max(Ends(m, i))
    BY <1>3, <1>4 DEF InputEnd, Ends
  <2>2. QED
    BY <1>3, <1>4, <2>1 DEF Times
<1>5. CASE input_completion[m][i] = -1 /\ ~AllComplete(m, i)
  <2>1. InputEnd(m, i) = -1
    BY <1>5 DEF InputEnd
  <2>2. QED
    BY <1>1, <1>5, <2>1 DEF Times
<1>6. CASE input_completion[m][i] # -1
  <2>1. InputEnd(m, i) = input_completion[m][i]
    BY <1>6 DEF InputEnd
  <2>2. /\ input_completion[m][i] \in Nat
        /\ AllComplete(m, i) /\ Top(input_completion[m][i], Ends(m, i))
    BY <1>1, <1>6 DEF InputOK, Times
  <2>3. Top(Max(Ends(m, i)), Ends(m, i)) /\ Max(Ends(m, i)) \in Nat /\ Max(Ends(m, i)) <= now
    BY <1>3, <2>2
  <2>4. input_completion[m][i] <= now
    BY <1>1, <2>2, <2>3 DEF Top
  <2>5. QED
    BY <1>6, <2>1, <2>2, <2>4 DEF Times
<1>7. QED
  BY <1>4, <1>5, <1>6

\* The first complete layer of an input ended in the past.
LEMMA FirstLayerEndOK ==
  ASSUME IInv, NEW m \in Models, NEW i \in Inputs
  PROVE  FirstLayerEnd(m, i) \in Times /\ FirstLayerEnd(m, i) <= now
<1> DEFINE over == {l \in Layers : \A p \in LayerPhases(l) : Complete(m, i, p)}
<1>1. TypeOK /\ InstancesOK /\ now \in Nat
  BY DEF IInv, TypeOK
<1>2. CASE over = {}
  BY <1>1, <1>2 DEF FirstLayerEnd, Times
<1>3. CASE over # {}
  <2>1. over \in SUBSET Nat
    BY DEF Layers
  <2>2. Min(over) \in over
    <3> HIDE DEF over
    <3>1. QED
      BY <1>3, <2>1, LeastNatural DEF Min
  <2>3. /\ Min(over) \in Layers
        /\ \A p \in LayerPhases(Min(over)) : Complete(m, i, p)
    BY <2>2
  <2>4. FirstLayerEnd(m, i) = Max({inst[m][i][p].completion : p \in LayerPhases(Min(over))})
    BY <1>3 DEF FirstLayerEnd
  <2> HIDE DEF over
  <2>5. LayerPhases(Min(over)) \in SUBSET Phases /\ Compute(Min(over)) \in LayerPhases(Min(over))
    BY <2>3 DEF LayerPhases, Phases
  <2>6. QED
    BY <1>1, <2>3, <2>4, <2>5, LastEnd DEF Times
<1>4. QED
  BY <1>2, <1>3

\* The start of an input is set once, to a time in the past and, unless execution
\* is pipelined, behind the input before it.
LEMMA InputBeginOK ==
  ASSUME IInv, NEW m \in Models, NEW i \in Inputs
  PROVE  /\ InputBegin(m, i) \in Times /\ InputBegin(m, i) <= now
         /\ input_start[m][i] # -1 => InputBegin(m, i) = input_start[m][i]
         /\ i = 0 => InputBegin(m, i) = input_start[m][i]
         /\ ~mode.pipelined /\ input_start[m][i] = -1 /\ i > 0 /\ InputBegin(m, i) >= 0 =>
              \A q \in Existing(i - 1) : /\ Complete(m, i - 1, q)
                                         /\ inst[m][i - 1][q].completion <= InputBegin(m, i)
<1>1. /\ input_start[m][i] \in Times /\ input_start[m][i] <= now
      /\ i \in Nat
  <2>1. TypeOK /\ InputOK(m, i)
    BY DEF IInv, InputsOK
  <2>2. input_start[m][i] \in Times
    BY <2>1 DEF TypeOK
  <2>3. input_start[m][i] <= now
    BY <2>1 DEF InputOK
  <2>4. i \in Nat
    BY DEF Inputs
  <2>5. QED
    BY <2>2, <2>3, <2>4
<1>2. CASE i = 0 \/ input_start[m][i] # -1
  BY <1>1, <1>2 DEF InputBegin
<1>3. CASE ~(i = 0 \/ input_start[m][i] # -1)
  <2>0. i - 1 \in Inputs
    BY <1>1, <1>3, PhaseAssumption, SMTT(40) DEF Inputs
  <2>1. CASE mode.pipelined
    BY <1>3, <2>0, <2>1, FirstLayerEndOK DEF InputBegin
  <2>2. CASE ~mode.pipelined
    <3>1. InputBegin(m, i) = InputEnd(m, i - 1)
      BY <1>3, <2>2 DEF InputBegin
    <3>2. InputEnd(m, i - 1) \in Times /\ InputEnd(m, i - 1) <= now
      BY <2>0, InputEndOK
    <3>3. ASSUME InputEnd(m, i - 1) >= 0, NEW q \in Existing(i - 1)
          PROVE  Complete(m, i - 1, q) /\ inst[m][i - 1][q].completion <= InputEnd(m, i - 1)
      <4>1. AllComplete(m, i - 1) /\ Top(InputEnd(m, i - 1), Ends(m, i - 1))
        BY <2>0, <3>3, InputEndOK
      <4>2. QED
        BY <3>3, <4>1 DEF AllComplete, Top, Ends
    <3>4. QED
      BY <1>3, <3>1, <3>2, <3>3
  <2>3. QED
    BY <2>1, <2>2
<1>4. QED
  BY <1>2, <1>3

\* The end of a model is set when all inputs are over, and to the last end.
LEMMA ModelEndOK ==
  ASSUME IInv, NEW m \in Models
  PROVE  /\ ModelEnd(m) \in Times
         /\ ModelEnd(m) >= 0 => \A i \in Inputs : InputEnd(m, i) >= 0
         /\ ModelEnd(m) # model_completion[m] =>
              /\ \A i \in Inputs : InputEnd(m, i) >= 0
              /\ Top(ModelEnd(m), {InputEnd(m, i) : i \in Inputs})
<1>1. /\ ModelOK(m) /\ model_completion[m] \in Times /\ now \in Int
      /\ \A i \in Inputs : input_completion[m][i] \in Times
  BY DEF IInv, ModelsOK, TypeOK
<1>2. \A i \in Inputs : /\ InputEnd(m, i) \in Times /\ InputEnd(m, i) <= now
                        /\ input_completion[m][i] # -1 => InputEnd(m, i) = input_completion[m][i]
  BY InputEndOK
<1>3. CASE \A i \in Inputs : InputEnd(m, i) # -1
  <2> DEFINE T == {InputEnd(m, i) : i \in Inputs}
  <2>1. ModelEnd(m) = Max(T)
    BY <1>3 DEF ModelEnd
  <2>2. T \in SUBSET Int /\ T # {} /\ (\A t \in T : t <= now) /\ T \subseteq Times
    <3>1. 0 \in Inputs
      BY PhaseAssumption DEF Inputs
    <3>2. T \subseteq Times /\ T # {} /\ \A t \in T : t <= now
      BY <1>2, <3>1
    <3>3. Times \subseteq Int
      BY DEF Times
    <3>4. QED
      BY <3>2, <3>3
  <2>3. \A i \in Inputs : InputEnd(m, i) >= 0
    BY <1>2, <1>3 DEF Times
  <2> HIDE DEF T
  <2>4. Top(Max(T), T)
    BY <1>1, <2>2, MaxIsTop
  <2>5. QED
    BY <2>1, <2>2, <2>3, <2>4 DEF Top, T
<1>4. CASE ~\A i \in Inputs : InputEnd(m, i) # -1
  <2>1. ModelEnd(m) = model_completion[m]
    BY <1>4 DEF ModelEnd
  <2>2. model_completion[m] >= 0 => \A i \in Inputs : InputEnd(m, i) >= 0
    BY <1>1, <1>2 DEF ModelOK, Times
  <2>3. QED
    BY <1>1, <2>1, <2>2
<1>5. QED
  BY <1>3, <1>4

\* Recalculating gives starts and ends to the current phases of started inputs.
LEMMA TimedInstanceOK ==
  ASSUME IInv, NEW m \in Models, NEW i \in Inputs, NEW p \in Phases
  PROVE  LET x == inst[m][i][p]
             y == TimedInstance(m, i, p)
         IN  /\ y \in Instance /\ y.state = x.state /\ y.latency = x.latency
             /\ \/ y = x /\ ~(InputBegin(m, i) # -1 /\ p \in CurrentPhases(m, i))
                \/ /\ InputBegin(m, i) >= 0 /\ p \in CurrentPhases(m, i)
                   /\ y.start = IF x.start >= 0 THEN x.start
                                ELSE StartTime(InputBegin(m, i), m, i, p)
                   /\ y.start >= 0
                   /\ y.latency > 0 => y.completion >= 0
<1> DEFINE x == inst[m][i][p]
           y == TimedInstance(m, i, p)
           s == IF x.start < 0 THEN StartTime(InputBegin(m, i), m, i, p) ELSE x.start
           e == IF x.latency > 0 /\ x.completion < 0 THEN s + x.latency ELSE x.completion
<1>1. TypeOK /\ InstancesOK /\ x \in Instance
  BY InstanceType DEF IInv
<1>2. CASE ~(InputBegin(m, i) # -1 /\ p \in CurrentPhases(m, i))
  <2>1. y = x
    BY <1>2 DEF TimedInstance
  <2>2. QED
    BY <1>1, <1>2, <2>1
<1>3. CASE InputBegin(m, i) # -1 /\ p \in CurrentPhases(m, i)
  <2>1. y = [x EXCEPT !.start = s, !.completion = e]
    BY <1>3 DEF TimedInstance
  <2>2. InputBegin(m, i) \in Times /\ InputBegin(m, i) <= now /\ InputBegin(m, i) \in Nat
    BY <1>3, InputBeginOK DEF Times
  <2>3. DependenciesMet(m, i, p)
    BY <1>3 DEF CurrentPhases
  <2>4. x.start \in Times /\ x.completion \in Times /\ x.latency \in Times
    BY <1>1 DEF Instance
  <2>5. s \in Nat
    <3>1. /\ StartTime(InputBegin(m, i), m, i, p) \in Times
          /\ InputBegin(m, i) <= StartTime(InputBegin(m, i), m, i, p)
      BY <1>1, <2>2, <2>3, StartIsTop
    <3>2. QED
      BY <2>2, <2>4, <3>1 DEF Times
  <2>6. s = IF x.start >= 0 THEN x.start ELSE StartTime(InputBegin(m, i), m, i, p)
    BY <2>4 DEF Times
  <2> HIDE DEF s
  <2>7. e \in Times /\ (x.latency > 0 => e >= 0)
    BY <2>4, <2>5 DEF Times
  <2> HIDE DEF e
  <2>8. /\ y \in Instance /\ y.state = x.state /\ y.latency = x.latency
        /\ y.start = s /\ y.completion = e
    BY <1>1, <2>1, <2>5, <2>7 DEF Instance, Times
  <2> HIDE DEF y
  <2>9. QED
    BY <1>3, <2>2, <2>5, <2>6, <2>7, <2>8 DEF y
<1>4. QED
  BY <1>2, <1>3

\* calculate_phase_timing makes moves only, and changes no state of a phase.
LEMMA TimingMoves ==
  ASSUME IInv, CalculatePhaseTiming
  PROVE  /\ inst' \in [Models -> [Inputs -> [Phases -> Instance]]]
         /\ input_start' \in [Models -> [Inputs -> Times]]
         /\ input_completion' \in [Models -> [Inputs -> Times]]
         /\ model_completion' \in [Models -> Times]
         /\ \A m \in Models, i \in Inputs, p \in Phases :
              /\ inst'[m][i][p].state = inst[m][i][p].state
              /\ Move(m, i, p)
         /\ \A m \in Models, i \in Inputs : InputMove(m, i)
         /\ \A m \in Models : m \notin active => input_start'[m] = input_start[m]
         /\ \A m \in Models :
              \/ model_completion'[m] = model_completion[m]
              \/ /\ \A i \in Inputs : input_completion'[m][i] >= 0
                 /\ Top(model_completion'[m], {input_completion'[m][i] : i \in Inputs})
         /\ \A m \in active : model_completion'[m] >= 0 => \A i \in Inputs : AllComplete(m, i)
<1>1. /\ TypeOK /\ InstancesOK /\ active \subseteq Models
      /\ inst \in [Models -> [Inputs -> [Phases -> Instance]]]
      /\ input_start \in [Models -> [Inputs -> Times]]
      /\ input_completion \in [Models -> [Inputs -> Times]]
      /\ model_completion \in [Models -> Times]
  BY DEF IInv, TypeOK, Instance
<1>2. /\ inst' = [m \in Models |-> IF m \notin active THEN inst[m] ELSE
           [i \in Inputs |-> [p \in Phases |-> TimedInstance(m, i, p)]]]
      /\ input_start' = [m \in Models |-> IF m \notin active THEN input_start[m] ELSE
           [i \in Inputs |-> InputBegin(m, i)]]
      /\ input_completion' = [m \in Models |-> IF m \notin active THEN input_completion[m] ELSE
           [i \in Inputs |-> InputEnd(m, i)]]
      /\ model_completion' = [m \in Models |-> IF m \notin active THEN model_completion[m] ELSE
           ModelEnd(m)]
  BY DEF CalculatePhaseTiming
<1>3. /\ inst' \in [Models -> [Inputs -> [Phases -> Instance]]]
      /\ input_start' \in [Models -> [Inputs -> Times]]
      /\ input_completion' \in [Models -> [Inputs -> Times]]
      /\ model_completion' \in [Models -> Times]
  <2>1. \A m \in Models, i \in Inputs, p \in Phases : TimedInstance(m, i, p) \in Instance
    BY TimedInstanceOK
  <2>2. inst' \in [Models -> [Inputs -> [Phases -> Instance]]]
    BY <1>1, <1>2, <2>1
  <2>3. input_start' \in [Models -> [Inputs -> Times]]
    BY <1>1, <1>2, InputBeginOK
  <2>4. input_completion' \in [Models -> [Inputs -> Times]]
    BY <1>1, <1>2, InputEndOK
  <2>5. model_completion' \in [Models -> Times]
    BY <1>1, <1>2, ModelEndOK
  <2>6. QED
    BY <2>2, <2>3, <2>4, <2>5
<1>4. ASSUME NEW m \in Models, NEW i \in Inputs, NEW p \in Phases
      PROVE  inst'[m][i][p].state = inst[m][i][p].state /\ Move(m, i, p)
  <2>1. CASE m \notin active
    BY <1>2, <2>1 DEF Move
  <2>2. CASE m \in active
    <3> DEFINE x == inst[m][i][p]
               y == TimedInstance(m, i, p)
    <3>1. inst'[m][i][p] = y /\ input_start'[m][i] = InputBegin(m, i)
      BY <1>2, <2>2
    <3>2. /\ y.state = x.state /\ y.latency = x.latency
          /\ \/ y = x
             \/ /\ InputBegin(m, i) >= 0 /\ p \in CurrentPhases(m, i)
                /\ y.start = IF x.start >= 0 THEN x.start
                             ELSE StartTime(InputBegin(m, i), m, i, p)
      BY TimedInstanceOK
    <3>3. x.state # "COMPLETE" => x.latency >= 0
      BY <1>1 DEF InstancesOK, StateOK
    <3> HIDE DEF y
    <3>4. Move(m, i, p)
      BY <3>1, <3>2, <3>3 DEF Move, CurrentPhases, Existing, Complete
    <3>5. QED
      BY <3>1, <3>2, <3>4
  <2>3. QED
    BY <2>1, <2>2
<1>5. ASSUME NEW m \in Models, NEW i \in Inputs PROVE InputMove(m, i)
  <2>1. CASE m \notin active
    BY <1>2, <2>1 DEF InputMove
  <2>2. CASE m \in active
    <3>1. input_start'[m][i] = InputBegin(m, i) /\ input_completion'[m][i] = InputEnd(m, i)
      BY <1>2, <2>2
    <3>2. input_start[m][i] \in Times /\ input_completion[m][i] \in Times
      BY <1>1
    <3>3. \/ input_start'[m][i] = input_start[m][i]
          \/ /\ input_start[m][i] = -1 /\ input_start'[m][i] <= now
             /\ ~mode.pipelined /\ i > 0 /\ input_start'[m][i] >= 0 =>
                  \A q \in Existing(i - 1) :
                    /\ Complete(m, i - 1, q)
                    /\ inst[m][i - 1][q].completion <= input_start'[m][i]
      BY <3>1, InputBeginOK
    <3>4. \/ input_completion'[m][i] = input_completion[m][i]
          \/ /\ input_completion[m][i] = -1 /\ AllComplete(m, i)
             /\ Top(input_completion'[m][i], Ends(m, i))
      <4>1. InputEnd(m, i) \in Times
        BY InputEndOK
      <4>2. InputEnd(m, i) = -1 => input_completion[m][i] = -1
        BY InputEndOK
      <4>3. InputEnd(m, i) # -1 => AllComplete(m, i) /\ Top(InputEnd(m, i), Ends(m, i))
        BY <4>1, InputEndOK DEF Times
      <4>4. input_completion[m][i] # -1 => InputEnd(m, i) = input_completion[m][i]
        BY InputEndOK
      <4>5. QED
        BY <3>1, <4>2, <4>3, <4>4
    <3>5. QED
      BY <3>3, <3>4 DEF InputMove
  <2>3. QED
    BY <2>1, <2>2
<1>6. ASSUME NEW m \in Models
      PROVE  /\ \/ model_completion'[m] = model_completion[m]
                \/ /\ \A i \in Inputs : input_completion'[m][i] >= 0
                   /\ Top(model_completion'[m], {input_completion'[m][i] : i \in Inputs})
             /\ m \in active /\ model_completion'[m] >= 0 => \A i \in Inputs : AllComplete(m, i)
             /\ m \notin active => input_start'[m] = input_start[m]
  <2>1. CASE m \notin active
    BY <1>2, <2>1
  <2>2. CASE m \in active
    <3>1. model_completion'[m] = ModelEnd(m)
      BY <1>2, <2>2
    <3>2. \A i \in Inputs : input_completion'[m][i] = InputEnd(m, i)
      BY <1>2, <2>2
    <3>3. {input_completion'[m][i] : i \in Inputs} = {InputEnd(m, i) : i \in Inputs}
      BY <3>2
    <3>4. ModelEnd(m) >= 0 => \A i \in Inputs : AllComplete(m, i)
      BY InputEndOK, ModelEndOK
    <3>5. QED
      BY <2>2, <3>1, <3>2, <3>3, <3>4, ModelEndOK
  <2>3. QED
    BY <2>1, <2>2
<1>7. QED
  BY <1>1, <1>3, <1>4, <1>5, <1>6

\* Recalculating a second time changes nothing: states are as before, so the same
\* phases are current, the same inputs and layers are over, with the same ends.
LEMMA TimingSettles ==
  ASSUME IInv, CalculatePhaseTiming, mode' = mode, active' = active
  PROVE  Settled'
<1> SUFFICES ASSUME NEW m \in active
             PROVE  /\ ModelEnd(m)' = model_completion'[m]
                    /\ \A i \in Inputs :
                         /\ InputBegin(m, i)' = input_start'[m][i]
                         /\ InputEnd(m, i)' = input_completion'[m][i]
                         /\ \A p \in Phases : TimedInstance(m, i, p)' = inst'[m][i][p]
  <2>1. Phases' = Phases
    BY ScheduleFixed
  <2>2. QED
    BY <2>1 DEF Settled
<1>1. /\ TypeOK /\ InstancesOK /\ m \in Models
      /\ \A i \in Inputs : Existing(i) \subseteq Phases
  BY DEF IInv, TypeOK, Existing
<1>2. /\ \A i \in Inputs, p \in Phases : inst'[m][i][p] = TimedInstance(m, i, p)
      /\ \A i \in Inputs : /\ input_start'[m][i] = InputBegin(m, i)
                           /\ input_completion'[m][i] = InputEnd(m, i)
      /\ model_completion'[m] = ModelEnd(m)
  BY <1>1 DEF CalculatePhaseTiming
<1>3. /\ Phases' = Phases
      /\ \A p : Dependencies(p)' = Dependencies(p)
      /\ \A i, p : Exists(i, p)' <=> Exists(i, p)
      /\ \A i : Existing(i)' = Existing(i)
  BY ScheduleFixed
<1>4. \A i \in Inputs, p \in Phases : Complete(m, i, p)' <=> Complete(m, i, p)
  BY <1>1, TimingMoves DEF Complete
<1>5. \A i \in Inputs, p \in Phases : Complete(m, i, p) => inst'[m][i][p] = inst[m][i][p]
  <2>1. \A i \in Inputs, p \in Phases : Move(m, i, p)
    BY <1>1, TimingMoves
  <2>2. QED
    BY <2>1 DEF Move
<1>6. \A i \in Inputs, p \in Phases : DependenciesMet(m, i, p)' <=> DependenciesMet(m, i, p)
  <2> SUFFICES ASSUME NEW i \in Inputs, NEW p \in Phases
               PROVE  DependenciesMet(m, i, p)' <=> DependenciesMet(m, i, p)
    OBVIOUS
  <2>1. Dependencies(p) \subseteq Phases
    BY DependenciesArePhases
  <2>2. i > 0 => i - 1 \in Inputs
    BY PhaseAssumption DEF Inputs
  <2>3. QED
    BY <1>3, <1>4, <2>1, <2>2 DEF DependenciesMet
<1>7. \A i \in Inputs : CurrentPhases(m, i)' = CurrentPhases(m, i)
  BY <1>1, <1>3, <1>4, <1>6 DEF CurrentPhases
<1>8. \A i \in Inputs : AllComplete(m, i)' <=> AllComplete(m, i)
  BY <1>1, <1>3, <1>4 DEF AllComplete
<1>9. \A i \in Inputs : InputEnd(m, i)' = input_completion'[m][i]
  <2> TAKE i \in Inputs
  <2>1. CASE InputEnd(m, i) = -1
    <3>1. ~AllComplete(m, i)
      BY <1>1, <2>1, InputEndOK
    <3>2. QED
      BY <1>8, <3>1 DEF InputEnd
  <2>2. CASE InputEnd(m, i) # -1
    <3>1. input_completion'[m][i] # -1
      BY <1>2, <2>2
    <3>2. QED
      BY <3>1 DEF InputEnd
  <2>3. QED
    BY <2>1, <2>2
<1>10. \A i \in Inputs : FirstLayerEnd(m, i)' = FirstLayerEnd(m, i)
  <2> TAKE i \in Inputs
  <2> DEFINE Of(l) == {Compute(l), Activation(l)} \cap Phases
             over == {l \in Layers : \A p \in Of(l) : Complete(m, i, p)}
             ends == {inst[m][i][p].completion : p \in Of(Min(over))}
  <2>1. FirstLayerEnd(m, i) = (IF over = {} THEN -1 ELSE Max(ends))
    BY DEF FirstLayerEnd, LayerPhases
  <2>2. FirstLayerEnd(m, i)' = (IF over' = {} THEN -1 ELSE Max(ends'))
    BY DEF FirstLayerEnd, LayerPhases
  <2>3. over' = over
    BY <1>3, <1>4
  <2>4. over # {} => Min(over) \in over
    <3>1. over \in SUBSET Nat
      BY DEF Layers
    <3> HIDE DEF over
    <3>2. QED
      BY <3>1, LeastNatural DEF Min
  <2>5. over # {} => \A p \in Of(Min(over)) : inst'[m][i][p] = inst[m][i][p]
    BY <1>5, <2>4
  <2>6. ends' = {inst'[m][i][p].completion : p \in Of(Min(over))}
    BY <1>3, <2>3
  <2>7. over # {} => ends' = ends
    <3> HIDE DEF over, Of
    <3>1. over # {} => {inst'[m][i][p].completion : p \in Of(Min(over))} = ends
      BY <2>5
    <3> HIDE DEF ends
    <3>2. QED
      BY <2>6, <3>1
  <2> HIDE DEF over, ends
  <2>8. QED
    BY <2>1, <2>2, <2>3, <2>7
<1>11. \A i \in Inputs : InputBegin(m, i)' = input_start'[m][i]
  <2> TAKE i \in Inputs
  <2>1. CASE i = 0 \/ input_start'[m][i] # -1
    BY <2>1 DEF InputBegin
  <2>2. CASE ~(i = 0 \/ input_start'[m][i] # -1)
    <3>1. InputBegin(m, i) = -1 /\ input_start[m][i] = -1 /\ i # 0
      BY <1>1, <1>2, <2>2, InputBeginOK
    <3>2. i - 1 \in Inputs
      BY <3>1, PhaseAssumption DEF Inputs
    <3>3. (IF mode.pipelined THEN FirstLayerEnd(m, i - 1) ELSE InputEnd(m, i - 1)) = -1
      BY <3>1 DEF InputBegin
    <3>4. FirstLayerEnd(m, i - 1)' = FirstLayerEnd(m, i - 1)
          /\ InputEnd(m, i - 1)' = InputEnd(m, i - 1)
      BY <1>2, <1>9, <1>10, <3>2
    <3>5. InputBegin(m, i)' =
            IF mode.pipelined THEN FirstLayerEnd(m, i - 1)' ELSE InputEnd(m, i - 1)'
      BY <2>2 DEF InputBegin
    <3>6. QED
      BY <2>2, <3>3, <3>4, <3>5
  <2>3. QED
    BY <2>1, <2>2
<1>12. ModelEnd(m)' = model_completion'[m]
  <2>1. \A i \in Inputs : InputEnd(m, i)' = InputEnd(m, i)
    BY <1>2, <1>9
  <2>2. {InputEnd(m, i) : i \in Inputs}' = {InputEnd(m, i) : i \in Inputs}
    BY <2>1
  <2>3. CASE \A i \in Inputs : InputEnd(m, i) # -1
    <3>1. ModelEnd(m)' = Max({InputEnd(m, i) : i \in Inputs}')
      BY <2>1, <2>3 DEF ModelEnd
    <3>2. ModelEnd(m) = Max({InputEnd(m, i) : i \in Inputs})
      BY <2>3 DEF ModelEnd
    <3>3. QED
      BY <1>2, <2>2, <3>1, <3>2
  <2>4. CASE ~\A i \in Inputs : InputEnd(m, i) # -1
    BY <2>1, <2>4 DEF ModelEnd
  <2>5. QED
    BY <2>3, <2>4
<1>13. ASSUME NEW i \in Inputs, NEW p \in Phases PROVE TimedInstance(m, i, p)' = inst'[m][i][p]
  <2> DEFINE y == inst'[m][i][p]
  <2>1. y = TimedInstance(m, i, p)
    BY <1>2
  <2>2. InputBegin(m, i)' = InputBegin(m, i) /\ CurrentPhases(m, i)' = CurrentPhases(m, i)
    BY <1>2, <1>7, <1>11
  <2>3. CASE ~(InputBegin(m, i) # -1 /\ p \in CurrentPhases(m, i))
    BY <2>2, <2>3 DEF TimedInstance
  <2>4. CASE InputBegin(m, i) # -1 /\ p \in CurrentPhases(m, i)
    <3>1. /\ TimedInstance(m, i, p) \in Instance
          /\ TimedInstance(m, i, p).start >= 0
          /\ TimedInstance(m, i, p).latency > 0 => TimedInstance(m, i, p).completion >= 0
      BY <1>1, <2>4, TimedInstanceOK
    <3>2. y \in Instance /\ y.start >= 0 /\ (y.latency > 0 => y.completion >= 0)
      BY <2>1, <3>1
    <3>3. ~(y.start < 0) /\ ~(y.latency > 0 /\ y.completion < 0)
      BY <3>2 DEF Instance, Times
    <3>4. TimedInstance(m, i, p)' =
            [y EXCEPT !.start = IF y.start < 0 THEN StartTime(InputBegin(m, i), m, i, p)'
                                ELSE y.start,
                      !.completion = IF y.latency > 0 /\ @ < 0
                        THEN (IF y.start < 0 THEN StartTime(InputBegin(m, i), m, i, p)'
                              ELSE y.start) + y.latency ELSE @]
      BY <2>2, <2>4, Zenon DEF TimedInstance
    <3> HIDE DEF y
    <3>5. TimedInstance(m, i, p)' = [y EXCEPT !.start = y.start, !.completion = y.completion]
      BY <3>3, <3>4
    <3>6. [y EXCEPT !.start = y.start, !.completion = y.completion] = y
      BY <3>2 DEF Instance
    <3>7. QED
      BY <3>5, <3>6 DEF y
  <2>5. QED
    BY <2>3, <2>4
<1>14. QED
  BY <1>9, <1>11, <1>12, <1>13

\* The two recalculations of a pass make such moves; a model that retires has
\* no phase running.
LEMMA TimingStep ==
  ASSUME IInv, RecalculateTiming \/ RetireModels
  PROVE  Moves /\ IInv'
<1>1. TypeOK /\ PassOK /\ InstancesOK /\ now \in Nat
  BY DEF IInv, TypeOK
<1>2. /\ CalculatePhaseTiming /\ stage \in {"timing", "retire"}
      /\ UNCHANGED <<mode, now, todo, collected, weights_loaded, layer_time>>
      /\ todo = {} /\ Phases' = Phases
  <2>1. /\ CalculatePhaseTiming /\ stage \in {"timing", "retire"}
        /\ UNCHANGED <<mode, now, todo, collected, weights_loaded, layer_time>>
    BY DEF RecalculateTiming, RetireModels
  <2>2. QED
    BY <1>1, <2>1, ScheduleFixed DEF PassOK
<1>3. /\ active' \subseteq active /\ active \cup retired = active' \cup retired'
      /\ active' \cap retired' = {} /\ retired' \subseteq Models /\ active \subseteq Models
      /\ stage' \in {"retire", "advance"} /\ (stage' = "retire" => active' = active)
      /\ \A m \in retired' \ retired : /\ m \in active /\ model_completion'[m] # -1
                                       /\ model_completion'[m] <= now
  <2>1. active \subseteq Models /\ retired \subseteq Models /\ active \cap retired = {}
    BY <1>1 DEF TypeOK, PassOK
  <2>2. CASE RecalculateTiming
    BY <2>1, <2>2 DEF RecalculateTiming
  <2>3. CASE RetireModels
    <3> DEFINE over == {m \in active : model_completion'[m] # -1 /\ now >= model_completion'[m]}
    <3>1. active' = active \ over /\ retired' = retired \cup over /\ stage' = "advance"
      BY <2>3 DEF RetireModels
    <3>2. \A m \in over : model_completion'[m] \in Int
      BY <1>2, <2>1, TimingMoves DEF Times
    <3>3. QED
      BY <1>1, <2>1, <3>1, <3>2
  <2>4. QED
    BY <2>2, <2>3
<1>4. \A c \in collected : /\ c \in active' \X Inputs \X Phases
                           /\ inst'[c[1]][c[2]][c[3]].state = "RUNNING"
                           /\ <<c[1], c[2]>> \notin todo'
  <2> TAKE c \in collected
  <2>1. /\ c = <<c[1], c[2], c[3]>> /\ c[1] \in active /\ c[2] \in Inputs /\ c[3] \in Phases
        /\ inst[c[1]][c[2]][c[3]].state = "RUNNING" /\ c[1] \in Models
    <3>1. c \in active \X Inputs \X Phases
      BY <1>1 DEF TypeOK
    <3>2. inst[c[1]][c[2]][c[3]].state = "RUNNING"
      BY <1>1 DEF PassOK
    <3>3. QED
      BY <1>3, <3>1, <3>2
  <2>2. inst'[c[1]][c[2]][c[3]].state = "RUNNING"
    BY <1>2, <2>1, TimingMoves
  <2>3. c[3] \in Existing(c[2]) /\ ~AllComplete(c[1], c[2])
    <3>1. StartOK(c[1], c[2], c[3]) /\ StateOK(c[1], c[2], c[3])
      BY <1>1, <2>1 DEF InstancesOK
    <3>2. Exists(c[2], c[3])
      BY <2>1, <3>1 DEF StartOK, StateOK
    <3>3. QED
      BY <2>1, <3>2 DEF Existing, AllComplete, Complete
  <2>4. ~(model_completion'[c[1]] >= 0)
    BY <1>2, <2>1, <2>3, TimingMoves
  <2>5. model_completion'[c[1]] \in Times
    BY <1>2, <2>1, TimingMoves
  <2>6. c[1] \in active'
    <3>1. c[1] \notin retired
      BY <1>1, <2>1 DEF PassOK
    <3>2. model_completion'[c[1]] = -1
      BY <2>4, <2>5 DEF Times
    <3>3. QED
      BY <1>3, <2>1, <3>1, <3>2
  <2>7. QED
    BY <1>2, <2>1, <2>2, <2>6
<1>5. TypeOK'
  BY <1>1, <1>2, <1>3, <1>4, TimingMoves DEF TypeOK, Instance
<1>6. PassOK'
  BY <1>2, <1>3, <1>4 DEF PassOK
<1>7. stage' = "retire" => Settled'
  BY <1>2, <1>3, TimingSettles
<1>8. \A m \in Models : ModelMove(m)
  <2> TAKE m \in Models
  <2>1. \/ model_completion'[m] = model_completion[m]
        \/ /\ \A i \in Inputs : input_completion'[m][i] >= 0
           /\ Top(model_completion'[m], {input_completion'[m][i] : i \in Inputs})
    BY <1>2, TimingMoves
  <2>2. m \in retired' \ retired => model_completion'[m] >= 0 /\ model_completion'[m] <= now
    <3>1. model_completion'[m] \in Times
      BY <1>2, TimingMoves
    <3>2. QED
      BY <1>3, <3>1 DEF Times
  <2>3. m \in Waiting' => m \in Waiting /\ input_start'[m] = input_start[m]
    BY <1>2, <1>3, TimingMoves DEF Waiting
  <2>4. QED
    BY <2>1, <2>2, <2>3 DEF ModelMove
<1>9. Moves
  BY <1>1, <1>2, <1>8, TimingMoves DEF Moves
<1>10. QED
  BY <1>5, <1>6, <1>7, <1>9, MovesKeep

\* Every step of the simulation makes such moves and keeps the invariant.
LEMMA NextIInv == IInv /\ [Next]_vars => Moves /\ IInv'
<1> SUFFICES ASSUME IInv, [Next]_vars PROVE Moves /\ IInv'
  OBVIOUS
<1>1. CASE \E m \in Models : InjectModel(m)
  BY <1>1, InjectStep
<1>2. CASE \/ EndInjection \/ Finish \/ SkipSimulation \/ AdvanceTime \/ Stopped
           \/ UNCHANGED vars
  BY <1>2, QuietStep
<1>3. CASE \E m \in Models, i \in Inputs : IdleInput(m, i)
  BY <1>3, VisitStep
<1>4. CASE \E m \in Models, i \in Inputs, p \in Phases :
             \/ StartPhase(m, i, p) \/ CompleteSilentPhase(m, i, p)
             \/ KeepRunning(m, i, p) \/ CompletePhase(m, i, p)
  BY <1>4, VisitStep
<1>5. CASE \E results \in SimulatorResults(collected) :
             SimulateCommunication(results) \/ SimulationFails(results)
  BY <1>5, SimulateStep, QuietStep
<1>6. CASE RecalculateTiming \/ RetireModels
  BY <1>6, TimingStep
<1>7. QED
  BY <1>1, <1>2, <1>3, <1>4, <1>5, <1>6 DEF Next

----------------------------------------------------------------------------
(* Theorems. *)

\* The invariant holds in every reachable state.
LEMMA PhaseInvariant == Spec => []IInv
<1>1. QED
  BY InitIInv, NextIInv, PTL DEF Spec

\* Every variable keeps its type; in particular no latency, start or completion
\* time of a phase ever becomes negative by adding elapsed time to a result.
THEOREM TypeCorrect == Spec => []TypeOK
<1>1. IInv => TypeOK
  BY DEF IInv
<1>2. QED
  BY <1>1, PhaseInvariant, PTL

\* _find_current_phase never has a choice, for any number of layers: of two
\* phases that may run, one would be a phase of an earlier layer, or in the same
\* layer one that the other depends on.
THEOREM OnePhaseAtATimeCorrect == Spec => []OnePhaseAtATime
<1>1. ASSUME IInv PROVE OnePhaseAtATime
  <2> SUFFICES ASSUME NEW m \in active, NEW i \in Inputs
               PROVE  Cardinality(CurrentPhases(m, i)) <= 1
    BY DEF OnePhaseAtATime
  <2>0. TypeOK /\ InstancesOK /\ EarlierLayers /\ m \in Models
    BY <1>1 DEF IInv, TypeOK
  <2>1. ASSUME NEW p \in CurrentPhases(m, i), NEW q \in CurrentPhases(m, i) PROVE p = q
    <3>1. /\ p \in Phases /\ ~Complete(m, i, p) /\ DependenciesMet(m, i, p) /\ p \in Existing(i)
          /\ q \in Phases /\ ~Complete(m, i, q) /\ DependenciesMet(m, i, q) /\ q \in Existing(i)
      BY DEF CurrentPhases, Existing
    <3>2. ~(p[2] < q[2]) /\ ~(q[2] < p[2])
      BY <2>0, <3>1, LayersBehind
    <3>3. p[2] \in Layers /\ q[2] = p[2]
      BY <3>1, <3>2, PhaseKinds DEF Layers
    <3> DEFINE l == p[2]
    <3>4. \A d \in Phases : DependenciesMet(m, i, d) =>
            \A e \in Dependencies(d) : Exists(i, e) => Complete(m, i, e)
      BY DEF DependenciesMet
    <3>5. /\ WeightPhase(l) \in Dependencies(Compute(l))
          /\ Compute(l) \in Dependencies(Activation(l))
      BY <3>3, DependenciesOf
    <3>6. Complete(m, i, Compute(l)) /\ Compute(l) \in Phases => DependenciesMet(m, i, Compute(l))
      BY <2>0, CompleteTimes
    <3>7. Exists(i, Compute(l)) /\ Compute(l) \in Phases
      BY <3>3 DEF Exists, Compute, IsWeight, Phases
    <3>8. /\ p \in {Compute(l), Activation(l), WeightPhase(l)}
          /\ q \in {Compute(l), Activation(l), WeightPhase(l)}
      BY <3>1, <3>3, PhaseKinds
    <3>9. Exists(i, p) /\ Exists(i, q)
      BY <3>1 DEF Existing
    <3> HIDE DEF l
    <3>10. QED
      BY <3>1, <3>4, <3>5, <3>6, <3>7, <3>8, <3>9
  <2>2. CASE CurrentPhases(m, i) = {}
    BY <2>2, FS_EmptySet
  <2>3. CASE CurrentPhases(m, i) # {}
    <3>0. PICK p : p \in CurrentPhases(m, i)
      BY <2>3
    <3>1. CurrentPhases(m, i) = {p}
      BY <2>1, <3>0
    <3>2. Cardinality(CurrentPhases(m, i)) = 1
      BY <3>1, FS_Singleton
    <3>3. QED
      BY <3>2
  <2>4. QED
    BY <2>2, <2>3
<1>2. QED
  BY <1>1, PhaseInvariant, PTL

\* A phase starts after its input and after all it depends on, and ends its
\* latency later, whatever latencies are reported and reported again.
THEOREM DataflowOrderCorrect == Spec => []DataflowOrder
<1>1. ASSUME IInv PROVE DataflowOrder
  <2> SUFFICES ASSUME NEW m \in Models, NEW i \in Inputs, NEW p \in Existing(i)
               PROVE  LET x == inst[m][i][p]
                      IN  /\ x.start >= 0 =>
                               /\ 0 <= input_start[m][i] /\ input_start[m][i] <= x.start
                               /\ \A d \in Dependencies(p) : Exists(i, d) =>
                                    Complete(m, i, d) /\ inst[m][i][d].completion <= x.start
                          /\ x.state = "COMPLETE" =>
                               /\ x.completion = x.start + (IF x.latency = -1 THEN 0 ELSE x.latency)
                               /\ x.completion <= now
    BY DEF DataflowOrder
  <2>1. TypeOK /\ InstancesOK /\ p \in Phases
    BY <1>1 DEF IInv, Existing
  <2>2. StartOK(m, i, p) /\ StateOK(m, i, p)
    BY <2>1 DEF InstancesOK
  <2>3. ASSUME inst[m][i][p].start >= 0
        PROVE  /\ 0 <= input_start[m][i] /\ input_start[m][i] <= inst[m][i][p].start
               /\ \A d \in Dependencies(p) : Exists(i, d) =>
                    Complete(m, i, d) /\ inst[m][i][d].completion <= inst[m][i][p].start
    <3>1. /\ input_start[m][i] >= 0 /\ DependenciesMet(m, i, p)
          /\ Top(inst[m][i][p].start, {input_start[m][i]} \cup Behind(m, i, p))
      BY <2>2, <2>3 DEF StartOK
    <3>2. input_start[m][i] \in Times
      BY <2>1 DEF TypeOK
    <3>3. \A d \in Dependencies(p) : Exists(i, d) =>
            Complete(m, i, d) /\ inst[m][i][d].completion \in Behind(m, i, p)
      BY <3>1 DEF DependenciesMet, Behind
    <3>4. QED
      BY <3>1, <3>2, <3>3 DEF Top, Times
  <2>4. QED
    BY <2>2, <2>3 DEF StateOK
<1>2. QED
  BY <1>1, PhaseInvariant, PTL

\* What the invariant says of the order of inputs.
LEMMA InputsFollow == IInv => InputsInOrder
<1> SUFFICES ASSUME IInv, NEW m \in Models, NEW i \in Inputs, NEW k \in Inputs, i < k,
                    NEW p \in Existing(k), inst[m][k][p].start >= 0,
                    NEW q \in Existing(i), q = p \/ ~mode.pipelined
             PROVE  Complete(m, i, q) /\ inst[m][i][q].completion <= inst[m][k][p].start
  BY DEF InputsInOrder
<1>1. TypeOK /\ InstancesOK /\ EarlierInputs /\ InputsOK /\ p \in Phases /\ q \in Phases
  BY DEF IInv, Existing
<1>2. CASE mode.pipelined
  BY <1>1, <1>2 DEF EarlierInputs
<1>3. CASE ~mode.pipelined
  <2>1. /\ input_start[m][k] >= 0
        /\ Top(inst[m][k][p].start, {input_start[m][k]} \cup Behind(m, k, p))
    BY <1>1 DEF InstancesOK, StartOK
  <2>2. input_start[m][k] <= inst[m][k][p].start
    BY <2>1 DEF Top
  <2>3. Complete(m, i, q) /\ inst[m][i][q].completion <= input_start[m][k]
    BY <1>1, <1>3, <2>1 DEF InputsOK, InputOK
  <2>4. inst[m][i][q].completion \in Int /\ inst[m][k][p].start \in Int
    BY <1>1, InstanceType DEF Times
  <2>5. input_start[m][k] \in Int
    BY <1>1 DEF TypeOK, Times
  <2>6. QED
    BY <2>2, <2>3, <2>4, <2>5
<1>4. QED
  BY <1>2, <1>3

\* Inputs go through the array in order: phase by phase when execution is
\* pipelined, one whole input after the other when it is not.
THEOREM InputsInOrderCorrect == Spec => []InputsInOrder
<1>1. QED
  BY InputsFollow, PhaseInvariant, PTL

\* No layer computes before its weights are there.  With stationary weights the
\* later inputs have no weight phase to wait for; they are safe because the same
\* layer of the first input, which did wait, was over before.
THEOREM WeightsBeforeComputeCorrect == Spec => []WeightsBeforeCompute
<1>1. ASSUME IInv, NEW m \in Models, NEW i \in Inputs, NEW l \in Layers,
             inst[m][i][Compute(l)].start >= 0, mode.stationary => i = 0
      PROVE  /\ inst[m][i][WeightPhase(l)].state = "COMPLETE"
             /\ inst[m][i][WeightPhase(l)].completion <= inst[m][i][Compute(l)].start
             /\ weights_loaded[m][l]
  <2>1. InstancesOK /\ Compute(l) \in Phases /\ WeightPhase(l) \in Phases
    BY <1>1 DEF IInv, Phases
  <2>2. Exists(i, WeightPhase(l)) /\ IsWeight(WeightPhase(l))
    BY <1>1 DEF Exists, IsWeight, WeightPhase, Weight
  <2>3. WeightPhase(l) \in Dependencies(Compute(l))
    BY DependenciesOf
  <2>4. /\ DependenciesMet(m, i, Compute(l))
        /\ Top(inst[m][i][Compute(l)].start, {input_start[m][i]} \cup Behind(m, i, Compute(l)))
    BY <1>1, <2>1 DEF InstancesOK, StartOK
  <2>5. Complete(m, i, WeightPhase(l))
    BY <2>2, <2>3, <2>4 DEF DependenciesMet
  <2>6. inst[m][i][WeightPhase(l)].completion \in Behind(m, i, Compute(l))
    BY <2>2, <2>3 DEF Behind
  <2>7. l \in LayersOf(WeightPhase(l))
    BY <2>2 DEF LayersOf
  <2>8. weights_loaded[m][l]
    BY <2>1, <2>2, <2>5, <2>7 DEF InstancesOK, StateOK, Complete
  <2>9. QED
    BY <2>4, <2>5, <2>6, <2>8 DEF Top, Complete
<1>2. ASSUME IInv, NEW m \in Models, NEW i \in Inputs, NEW l \in Layers,
             inst[m][i][Compute(l)].start >= 0, mode.stationary, i # 0
      PROVE  /\ inst[m][0][WeightPhase(l)].state = "COMPLETE"
             /\ inst[m][0][WeightPhase(l)].completion <= inst[m][i][Compute(l)].start
             /\ weights_loaded[m][l]
  <2>1. /\ TypeOK /\ InstancesOK /\ Compute(l) \in Phases /\ WeightPhase(l) \in Phases
        /\ 0 \in Inputs /\ 0 < i
    BY <1>2, PhaseAssumption DEF IInv, Phases, Inputs
  <2>2. Compute(l) \in Existing(0) /\ Compute(l) \in Existing(i)
    BY <2>1 DEF Existing, Exists, IsWeight, Compute
  <2>3. Complete(m, 0, Compute(l)) /\ inst[m][0][Compute(l)].completion <= inst[m][i][Compute(l)].start
    BY <1>2, <2>1, <2>2, InputsFollow DEF InputsInOrder
  <2>4. /\ inst[m][0][Compute(l)].start \in Nat /\ inst[m][0][Compute(l)].completion \in Nat
        /\ inst[m][0][Compute(l)].start <= inst[m][0][Compute(l)].completion
    BY <2>1, <2>3, CompleteTimes
  <2>5. /\ inst[m][0][WeightPhase(l)].state = "COMPLETE"
        /\ inst[m][0][WeightPhase(l)].completion <= inst[m][0][Compute(l)].start
        /\ weights_loaded[m][l]
    BY <1>1, <1>2, <2>1, <2>4
  <2>6. inst[m][0][WeightPhase(l)].completion \in Int /\ inst[m][i][Compute(l)].start \in Int
    BY <2>1, InstanceType DEF Times
  <2>7. QED
    BY <2>3, <2>4, <2>5, <2>6
<1>3. IInv => WeightsBeforeCompute
  BY <1>1, <1>2 DEF WeightsBeforeCompute
<1>4. QED
  BY <1>3, PhaseInvariant, PTL

\* A model is retired only with every phase of every input over, and its
\* completion time is the last of theirs.
THEOREM RetiredWhenOverCorrect == Spec => []RetiredWhenOver
<1>1. ASSUME IInv PROVE RetiredWhenOver
  <2> SUFFICES ASSUME NEW m \in retired
               PROVE  /\ \A i \in Inputs : \A p \in Existing(i) : Complete(m, i, p)
                      /\ model_completion[m] <= now
                      /\ model_completion[m] = Max(UNION {Ends(m, i) : i \in Inputs})
    BY DEF RetiredWhenOver, Ends
  <2>1. TypeOK /\ InputsOK /\ ModelsOK /\ m \in Models
    BY <1>1 DEF IInv, TypeOK
  <2>2. /\ model_completion[m] <= now
        /\ \A i \in Inputs : input_completion[m][i] >= 0
        /\ Top(model_completion[m], {input_completion[m][i] : i \in Inputs})
    BY <2>1 DEF ModelsOK, ModelOK
  <2>3. \A i \in Inputs : AllComplete(m, i) /\ Top(input_completion[m][i], Ends(m, i))
    BY <2>1, <2>2 DEF InputsOK, InputOK
  <2>4. \A i \in Inputs : Ends(m, i) \subseteq Int
    BY <2>1, InstanceType DEF Ends, Existing, Times
  <2>5. \A i \in Inputs : input_completion[m][i] \in Int
    BY <2>1 DEF TypeOK, Times
  <2> DEFINE All == UNION {Ends(m, i) : i \in Inputs}
  <2>6. All \in SUBSET Int
    BY <2>4
  <2>7. Top(model_completion[m], All)
    <3>1. PICK i \in Inputs : model_completion[m] = input_completion[m][i]
      BY <2>2 DEF Top
    <3>2. model_completion[m] \in All
      BY <2>3, <3>1 DEF Top
    <3>3. ASSUME NEW t \in All PROVE t <= model_completion[m]
      <4>1. PICK k \in Inputs : t \in Ends(m, k)
        OBVIOUS
      <4>2. t <= input_completion[m][k] /\ t \in Int
        BY <2>3, <2>4, <4>1 DEF Top
      <4>3. input_completion[m][k] <= model_completion[m]
        BY <2>2 DEF Top
      <4>4. QED
        BY <2>5, <3>1, <4>2, <4>3
    <3>4. QED
      BY <3>2, <3>3 DEF Top
  <2>8. Max(All) = model_completion[m]
    <3> HIDE DEF All
    <3>1. QED
      BY <2>6, <2>7, TopIsMax
  <2>9. QED
    BY <2>2, <2>3, <2>8 DEF AllComplete
<1>2. QED
  BY <1>1, PhaseInvariant, PTL

\* Once known, the start of a phase and the start and end of an input stay,
\* although get_active_phases computes the start of a phase again.
THEOREM TimesStayPutCorrect == Spec => TimesStayPut
<1>1. ASSUME IInv, [Next]_vars, NEW m \in Models, NEW i \in Inputs
      PROVE  /\ \A p \in Phases :
                  inst[m][i][p].start >= 0 => inst'[m][i][p].start = inst[m][i][p].start
             /\ input_start[m][i] >= 0 => input_start'[m][i] = input_start[m][i]
             /\ input_completion[m][i] >= 0 => input_completion'[m][i] = input_completion[m][i]
  <2>1. Moves
    BY <1>1, NextIInv
  <2>2. \A p \in Phases : Move(m, i, p)
    BY <2>1 DEF Moves
  <2>3. InputMove(m, i)
    BY <2>1 DEF Moves
  <2>4. \A p \in Phases :
          inst[m][i][p].start >= 0 => inst'[m][i][p].start = inst[m][i][p].start
    BY <2>2 DEF Move
  <2>5. /\ input_start[m][i] >= 0 => input_start'[m][i] = input_start[m][i]
        /\ input_completion[m][i] >= 0 => input_completion'[m][i] = input_completion[m][i]
    BY <2>3 DEF InputMove
  <2>6. QED
    BY <2>4, <2>5
<1>2. IInv /\ [Next]_vars =>
        [\A m \in Models, i \in Inputs :
           /\ \A p \in Phases :
                inst[m][i][p].start >= 0 => inst'[m][i][p].start = inst[m][i][p].start
           /\ input_start[m][i] >= 0 => input_start'[m][i] = input_start[m][i]
           /\ input_completion[m][i] >= 0 => input_completion'[m][i] = input_completion[m][i]]_vars
  BY <1>1
<1>3. QED
  BY <1>2, PhaseInvariant, PTL DEF Spec, TimesStayPut

\* The recalculation of the retirement loop repeats the one before it: it finds
\* nothing to change, whatever that one has just filled in.
THEOREM SecondTimingCorrect == Spec => SecondTimingChangesNothing
<1>1. ASSUME IInv, [Next]_vars, stage = "retire"
      PROVE  UNCHANGED <<inst, input_start, input_completion, model_completion>>
  <2>1. CASE UNCHANGED vars
    BY <2>1 DEF vars
  <2>2. CASE RetireModels
    <3>1. CalculatePhaseTiming /\ Settled /\ TypeOK
      BY <1>1, <2>2 DEF RetireModels, IInv
    <3>2. inst' = inst
      <4>1. inst \in [Models -> [Inputs -> [Phases -> Instance]]]
        BY <3>1 DEF TypeOK, Instance
      <4>2. \A m \in active, i \in Inputs, p \in Phases : TimedInstance(m, i, p) = inst[m][i][p]
        BY <3>1 DEF Settled
      <4>3. \A m \in active :
              [i \in Inputs |-> [p \in Phases |-> TimedInstance(m, i, p)]] =
              [i \in Inputs |-> [p \in Phases |-> inst[m][i][p]]]
        BY <4>2
      <4>4. \A m \in Models : inst[m] = [i \in Inputs |-> [p \in Phases |-> inst[m][i][p]]]
        BY <4>1
      <4>5. inst' = [m \in Models |-> IF m \notin active THEN inst[m] ELSE
              [i \in Inputs |-> [p \in Phases |-> TimedInstance(m, i, p)]]]
        BY <3>1 DEF CalculatePhaseTiming
      <4>6. inst' = [m \in Models |-> inst[m]]
        BY <4>3, <4>4, <4>5
      <4>7. QED
        BY <4>1, <4>6
    <3>3. input_start' = input_start
      <4>1. input_start \in [Models -> [Inputs -> Times]]
        BY <3>1 DEF TypeOK
      <4>2. \A m \in active, i \in Inputs : InputBegin(m, i) = input_start[m][i]
        BY <3>1 DEF Settled
      <4>3. QED
        BY <3>1, <4>1, <4>2 DEF CalculatePhaseTiming
    <3>4. input_completion' = input_completion
      <4>1. input_completion \in [Models -> [Inputs -> Times]]
        BY <3>1 DEF TypeOK
      <4>2. \A m \in active, i \in Inputs : InputEnd(m, i) = input_completion[m][i]
        BY <3>1 DEF Settled
      <4>3. QED
        BY <3>1, <4>1, <4>2 DEF CalculatePhaseTiming
    <3>5. model_completion' = model_completion
      <4>1. model_completion \in [Models -> Times]
        BY <3>1 DEF TypeOK
      <4>2. \A m \in active : ModelEnd(m) = model_completion[m]
        BY <3>1 DEF Settled
      <4>3. QED
        BY <3>1, <4>1, <4>2 DEF CalculatePhaseTiming
    <3>6. QED
      BY <3>2, <3>3, <3>4, <3>5
  <2>3. Next => RetireModels \/ UNCHANGED vars
    BY <1>1 DEF Next, InjectModel, EndInjection, Finish, IdleInput, StartPhase, KeepRunning,
      CompleteSilentPhase, CompletePhase, Current, Visit, SkipSimulation, SimulateCommunication,
      SimulationFails, RecalculateTiming, AdvanceTime, Stopped
  <2>4. QED
    BY <1>1, <2>1, <2>2, <2>3
<1>2. IInv /\ [Next]_vars =>
        [stage = "retire" =>
           UNCHANGED <<inst, input_start, input_completion, model_completion>>]_vars
  BY <1>1
<1>3. QED
  BY <1>2, PhaseInvariant, PTL DEF Spec, SecondTimingChangesNothing
=============================================================================
