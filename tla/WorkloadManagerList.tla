------------------------ MODULE WorkloadManagerList ------------------------
(***************************************************************************)
(* The admission queue as src/src/managers/workload_manager.py stores it:  *)
(* the workload sorted when it is loaded, ready_models a list of entries   *)
(* that is searched, appended to, filtered and re-sorted, and the set of   *)
(* injected indices.  The caller is the injection loop of run_simulation,  *)
(* which walks the list it was handed.                                     *)
(***************************************************************************)
EXTENDS Integers, FiniteSets, SequencesExt

CONSTANTS
  Rows,                  \* rows of the CSV file: [idx |-> net_idx, time |-> inject_time_us]
  BlockingAgeThreshold,  \* blocking_age_threshold
  MaxAge,                \* bound: failure_age saturates here
  LastTime               \* bound: the clock stops here

ASSUME RowsAssumption ==
  /\ Rows \in Seq([idx : Int, time : Nat])
  /\ \A j, k \in DOMAIN Rows : Rows[j].idx = Rows[k].idx => j = k
  /\ BlockingAgeThreshold \in Nat /\ MaxAge \in Nat /\ LastTime \in Nat

VARIABLES ready_models, injected_models, now, handed

vars == <<ready_models, injected_models, now, handed>>

\* Mutant: entries with equal keys change places.
SortedUnstably(K, keys) ==
  LET Before(j, k) == keys[j] < keys[k] \/ (keys[j] = keys[k] /\ j > k)
  IN  [n \in 1..Cardinality(K) |->
         CHOOSE k \in K : Cardinality({j \in K : Before(j, k)}) = n - 1]

\* The positions K of a list by increasing key, equal keys in list order: the
\* n-th of them is the one with n - 1 others before it.
Sorted(K, keys) ==
  LET Before(j, k) == keys[j] < keys[k] \/ (keys[j] = keys[k] /\ j < k)
  IN  [n \in 1..Cardinality(K) |->
         CHOOSE k \in K : Cardinality({j \in K : Before(j, k)}) = n - 1]

\* The entries at the given positions of a list.
At(s, positions) == [n \in DOMAIN positions |-> s[positions[n]]]

\* list.sort(key = ...): a stable sort of s, the keys of whose members are given.
StableSort(s, keys) == At(s, Sorted(DOMAIN s, keys))

\* A loop or comprehension over s that keeps the entries at the positions K.
Keep(s, K) == At(s, Sorted(K, [k \in K |-> k]))

\* load_workload
Workload == StableSort(Rows, [k \in DOMAIN Rows |-> Rows[k].time])

Ready(idx) == \E k \in DOMAIN ready_models : ready_models[k].idx = idx

\* A workload entry as it enters the ready list.
Fresh(row) == [idx |-> row.idx, ready_time |-> row.time, failure_age |-> 0]

\* Mutant: entries that are still ready are appended once more.
AppendDueAgain(t) ==
  LET due == Keep(Workload, {w \in DOMAIN Workload : Workload[w].time <= t})
  IN  ready_models \o [k \in DOMAIN due |-> Fresh(due[k])]

\* update_ready_models: append the entries that are due, in workload order.
UpdateReadyModels(t) ==
  LET due == Keep(Workload, {w \in DOMAIN Workload :
                               /\ Workload[w].idx \notin injected_models
                               /\ ~Ready(Workload[w].idx)
                               /\ Workload[w].time <= t})
  IN  ready_models \o [k \in DOMAIN due |-> Fresh(due[k])]

Init ==
  /\ ready_models = <<>>
  /\ injected_models = {}
  /\ now = 0
  /\ handed = <<>>

\* get_models_to_inject: update, sort oldest first, hand the indices out.
GetModelsToInject ==
  /\ handed = <<>>
  /\ LET updated == UpdateReadyModels(now)
     IN  ready_models' = StableSort(updated, [k \in DOMAIN updated |-> updated[k].ready_time])
  /\ handed' = [k \in DOMAIN ready_models' |-> ready_models'[k].idx]
  /\ UNCHANGED <<injected_models, now>>

\* Where a search for an index stops: the first entry that has it, 0 if none.
Find(entries, idx) == SelectInSeq(entries, LAMBDA entry : entry.idx = idx)

\* increment_failure_age
Aged(idx) ==
  LET first == Find(ready_models, idx)
  IN  IF first = 0 THEN ready_models
      ELSE [ready_models EXCEPT ![first].failure_age = IF @ < MaxAge THEN @ + 1 ELSE MaxAge]

\* is_model_blocking, asked of the list entries.
IsModelBlocking(idx, entries) ==
  LET first == Find(entries, idx)
  IN  first # 0 /\ entries[first].failure_age >= BlockingAgeThreshold

\* Mutant: blocking is asked before the failure is counted.
ModelFailsStale ==
  /\ handed # <<>>
  /\ ready_models' = Aged(Head(handed))
  /\ handed' = IF IsModelBlocking(Head(handed), ready_models) THEN <<>> ELSE Tail(handed)
  /\ UNCHANGED <<injected_models, now>>

\* The caller could not map the next model; a blocking one ends its loop.
ModelFails ==
  /\ handed # <<>>
  /\ ready_models' = Aged(Head(handed))
  /\ handed' = IF IsModelBlocking(Head(handed), ready_models') THEN <<>> ELSE Tail(handed)
  /\ UNCHANGED <<injected_models, now>>

\* The caller mapped it: mark_model_injected.
MarkModelInjected ==
  /\ handed # <<>>
  /\ injected_models' = injected_models \cup {Head(handed)}
  /\ ready_models' = Keep(ready_models,
                          {k \in DOMAIN ready_models : ready_models[k].idx # Head(handed)})
  /\ handed' = Tail(handed)
  /\ UNCHANGED now

Tick ==
  /\ handed = <<>>
  /\ now' = IF now < LastTime THEN now + 1 ELSE now
  /\ UNCHANGED <<ready_models, injected_models, handed>>

Next == GetModelsToInject \/ ModelFails \/ MarkModelInjected \/ Tick

Spec == Init /\ [][Next]_vars

----------------------------------------------------------------------------
\* Position of an index in the sorted workload, the name WorkloadManager uses.
Position(idx) == CHOOSE k \in DOMAIN Workload : Workload[k].idx = idx

ReadyPositions == {Position(ready_models[k].idx) : k \in DOMAIN ready_models}

AgeOf(k) ==
  LET at == Find(ready_models, Workload[k].idx)
  IN  IF at = 0 THEN 0 ELSE ready_models[at].failure_age

Queue == INSTANCE WorkloadManager WITH
  NumModels <- Len(Rows),
  InjectTime <- [k \in DOMAIN Workload |-> Workload[k].time],
  ready_models <- ReadyPositions,
  injected_models <- {Position(idx) : idx \in injected_models},
  failure_age <- [k \in DOMAIN Workload |-> AgeOf(k)]

\* The list does what the set-level queue of WorkloadManager promises.
ImplementsQueue == Queue!QueueSpec

\* The caller always meets the waiting models in the order of the sorted
\* workload, ties in file order, however entries were appended, filtered out
\* and re-sorted; and whatever it still has to look at is still ready.
HandedInWorkloadOrder ==
  /\ \A j, k \in DOMAIN handed : j < k => Position(handed[j]) < Position(handed[k])
  /\ \A k \in DOMAIN handed : Ready(handed[k]) /\ handed[k] \notin injected_models

\* A model past the blocking threshold is the last one looked at: everything
\* handed out behind it waits for the next call.
BlockingEndsTheWalk ==
  \A j \in DOMAIN handed, k \in DOMAIN ready_models :
    /\ IsModelBlocking(ready_models[k].idx, ready_models)
    /\ Position(ready_models[k].idx) < Position(handed[j])
    => \E i \in 1..j : handed[i] = ready_models[k].idx
=============================================================================
