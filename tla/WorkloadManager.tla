-------------------------- MODULE WorkloadManager --------------------------
(***************************************************************************)
(* The admission queue of CHIPSIM: src/src/managers/workload_manager.py.   *)
(*                                                                         *)
(* A workload entry is named by its position after load_workload's stable  *)
(* sort by injection time (the README requires net_idx to be unique, so    *)
(* position and net_idx identify the same entry).  The list ready_models   *)
(* is kept here as a set: entries enter it in workload order and the list  *)
(* is re-sorted, stably, by the same key, so walking the list is walking   *)
(* the set by increasing position.  WorkloadManagerList keeps the real     *)
(* list and is checked to implement this module.                           *)
(***************************************************************************)
EXTENDS Integers, FiniteSets

CONSTANTS
  NumModels,             \* number of entries of the workload file
  InjectTime,            \* inject_time_us of each entry, in workload order
  BlockingAgeThreshold,  \* blocking_age_threshold
  MaxAge                 \* bound: failure_age saturates here

Models == 1..NumModels

ASSUME WorkloadAssumption ==
  /\ NumModels \in Nat
  /\ InjectTime \in [Models -> Nat]
  /\ \A i, j \in Models : i <= j => InjectTime[i] <= InjectTime[j]

ASSUME AgeAssumption ==
  /\ BlockingAgeThreshold \in Nat
  /\ MaxAge \in Nat
  /\ BlockingAgeThreshold <= MaxAge

VARIABLES
  ready_models,     \* entries whose time has come and that are not injected
  injected_models,  \* entries injected so far
  failure_age       \* failed mapping attempts of each ready entry

workloadVars == <<ready_models, injected_models, failure_age>>

WorkloadTypeOK ==
  /\ ready_models \in SUBSET Models
  /\ injected_models \in SUBSET Models
  /\ failure_age \in [Models -> 0..MaxAge]

WorkloadInit ==
  /\ ready_models = {}
  /\ injected_models = {}
  /\ failure_age = [m \in Models |-> 0]

----------------------------------------------------------------------------
\* Mutant: injected entries are not skipped.
DueAgain(t) == {m \in Models \ ready_models : InjectTime[m] <= t}

\* Entries that update_ready_models(t) finds due and not yet dealt with.
Due(t) == {m \in Models \ (injected_models \cup ready_models) : InjectTime[m] <= t}

\* get_models_to_inject(t): the ready set after this call is also what it returns.
GetModelsToInject(t) ==
  /\ ready_models' = ready_models \cup Due(t)
  /\ failure_age' = [m \in Models |-> IF m \in Due(t) THEN 0 ELSE failure_age[m]]
  /\ UNCHANGED injected_models

\* The age a failed attempt leaves the entry with.
AgeAfterFailure(m) == IF failure_age[m] < MaxAge THEN failure_age[m] + 1 ELSE MaxAge

IncrementFailureAge(m) ==
  /\ failure_age' = IF m \in ready_models
                      THEN [failure_age EXCEPT ![m] = AgeAfterFailure(m)]
                      ELSE failure_age
  /\ UNCHANGED <<ready_models, injected_models>>

\* Mutant: the threshold itself does not block yet.
IsModelBlockingLate(m, ages) == m \in ready_models /\ ages[m] > BlockingAgeThreshold

\* is_model_blocking, asked with the ages that ages holds.
IsModelBlocking(m, ages) == m \in ready_models /\ ages[m] >= BlockingAgeThreshold

MarkModelInjected(m) ==
  /\ injected_models' = injected_models \cup {m}
  /\ ready_models' = ready_models \ {m}
  /\ failure_age' = [failure_age EXCEPT ![m] = 0]

GetRemainingCount == NumModels - Cardinality(injected_models)

----------------------------------------------------------------------------
\* A call at any time finds what a call at the latest of these moments finds.
Moments == {0} \cup {InjectTime[m] : m \in Models}

\* What the queue promises a caller that asks for models and then reports, of
\* models that are ready, which were injected and which could not be mapped.
QueueNext ==
  \/ \E t \in Moments : GetModelsToInject(t)
  \/ \E m \in ready_models : IncrementFailureAge(m) \/ MarkModelInjected(m)

QueueSpec == WorkloadInit /\ [][QueueNext]_workloadVars
=============================================================================
