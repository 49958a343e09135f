----------------------- MODULE CommunicationSimulator -----------------------
(***************************************************************************)
(* CommunicationSimulator.simulate_communication around gem5: the cache    *)
(* key, the lookup with its test for missing phases, the simulation, and   *)
(* the store. A traffic matrix is abstracted to the traffic between one    *)
(* pair of chiplets, so that matrices add up as numbers do.                *)
(***************************************************************************)
EXTENDS CacheManager

CONSTANTS
    Phases,             \* (network_idx, input_idx, phase_id)
    MaxTraffic,         \* bound: packets of a phase, scaled by what is left of it
    Requests            \* the lists of matrices that simulations ask about

\* The matrices of the active phases; an empty list is answered at once.
ASSUME CommunicationAssumption ==
    /\ MaxTraffic \in Nat
    /\ Requests \subseteq UNION {[P -> 1 .. MaxTraffic] : P \in (SUBSET Phases) \ {{}}}

VARIABLES
    enabled,            \* enable_cache of this simulation
    pending,            \* the request that gem5 is simulating or save_cache storing: {} or {r}
    answer              \* the last answer: {} or {[to, result, cached]}, where
                        \* result says which request was simulated and the phases reported

vars == <<cacheVars, enabled, pending, answer>>

\* The sum of the matrices and the sorted list of phases; the parameters of
\* the network are the same throughout.
CacheKey(request) ==
    [traffic |-> FoldSet(LAMBDA p, sum : request[p] + sum, 0, DOMAIN request),
     phases  |-> DOMAIN request]

\* Mutant: a stored result is used whatever it reports.
AnyHit(request) == CacheKey(request) \in DOMAIN cache

\* A result that misses a phase of the request is simulated again.
Hit(request) == /\ CacheKey(request) \in DOMAIN cache
                /\ DOMAIN request \subseteq cache[CacheKey(request)].phases

Init ==
    /\ CacheInit
    /\ enabled = FALSE
    /\ pending = {}
    /\ answer = {}

Start ==
    /\ \E clear \in BOOLEAN : LoadCache(clear)
    /\ enabled' \in BOOLEAN
    /\ UNCHANGED <<pending, answer>>

UseCached(request) ==
    /\ process = "up" /\ pending = {}
    /\ enabled /\ Hit(request)
    /\ answer' = {[to |-> request, result |-> cache[CacheKey(request)], cached |-> TRUE]}
    /\ UNCHANGED <<cacheVars, enabled, pending>>

RunGarnet(request) ==
    /\ process = "up" /\ pending = {}
    /\ ~(enabled /\ Hit(request))
    /\ pending' = {request}
    /\ answer' = {}
    /\ UNCHANGED <<cacheVars, enabled>>

Answered(request, result) == {[to |-> request, result |-> result, cached |-> FALSE]}

\* gem5 reports some of the phases (GarnetTrace: those within its limits).
GarnetReports(request, reported) ==
    LET result == [for |-> request, phases |-> reported]
    IN  /\ process = "up" /\ pending = {request}
        /\ \/ /\ enabled
              /\ StoreResult(CacheKey(request), result)
              /\ UNCHANGED <<pending, answer>>
           \/ /\ ~enabled
              /\ answer' = Answered(request, result)
              /\ pending' = {}
              /\ UNCHANGED cacheVars
        /\ UNCHANGED enabled

WriteTemporary == Dumped /\ UNCHANGED <<enabled, pending, answer>>

FinishStore ==
    /\ Replaced
    /\ \E request \in pending : answer' = Answered(request, cache[CacheKey(request)])
    /\ pending' = {}
    /\ UNCHANGED enabled

\* A failed save, a failed gem5 run (no result at all) or a result without
\* any latency ends the simulation with an error, and it may end anyway.
Stop ==
    /\ SaveFails \/ Ends
    /\ pending' = {} /\ answer' = {}
    /\ UNCHANGED enabled

Next ==
    \/ Start
    \/ \E request \in Requests : UseCached(request) \/ RunGarnet(request)
    \/ \E request \in pending : \E reported \in SUBSET DOMAIN request :
          GarnetReports(request, reported)
    \/ WriteTemporary
    \/ FinishStore
    \/ Stop

Spec == Init /\ [][Next]_vars

-----------------------------------------------------------------------------
(* Properties *)

\* An answer from the cache has a latency for every phase that was asked about
\* (one without would be offered again for ever) and for no other: latencies are
\* applied to every phase the answer names, one that has moved on included.
CachedAnswersFit ==
    \A a \in answer : a.cached => a.result.phases = DOMAIN a.to

\* "Only caches identical traffic patterns": an answer from the cache was
\* simulated for the very matrices that are asked about.
CachedTrafficIsIdentical == \A a \in answer : a.result.for = a.to
=============================================================================
