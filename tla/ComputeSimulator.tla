-------------------------- MODULE ComputeSimulator --------------------------
(***************************************************************************)
(* ComputeSimulator.simulate_compute: one chunk of a layer on one chiplet, *)
(* answered from the cache or by the backend of the chiplet's kind         *)
(* (CIMLoop for IMC, the analytical model for CMOS). The parameters of a   *)
(* chiplet type are those of chiplet_params.py when a simulation starts.   *)
(***************************************************************************)
EXTENDS CacheManager

CONSTANTS
    Types,              \* chiplet types
    Kind,               \* compute_type of each: IMC, CMOS or IO
    Chunks,             \* partitioned layers: [yaml, description, macs, percentage],
                        \* macs in 1/MacUnit and percentage in 1/PercentUnit
    Params              \* macs_per_second and energy_per_mac of a type

VARIABLES
    params,             \* parameters of every type in the current simulation
    job,                \* the chunk being simulated or stored: {} or {<<chunk, type>>}
    answer              \* the last answer: {} or {[chunk, type, result]}

vars == <<cacheVars, params, job, answer>>

\* A share of a layer has a fraction of its MACs and of its percentage. Units
\* fine enough to tell what is printed from what is computed with:
MacUnit     == 4
PercentUnit == 1000

\* Formatting with a fixed number of digits: to the nearest, a tie to the even one
Printed(x, unit) ==
    LET q == x \div unit
        r == x % unit
    IN  IF 2 * r < unit \/ (2 * r = unit /\ q % 2 = 0) THEN q ELSE q + 1

\* _compute_cache_key_for_analytical prints the MACs as whole numbers and the
\* percentage with two digits; for CIMLoop the key is the normalised YAML. The
\* chiplet's parameters are looked up in the chunk, where nobody puts them: they
\* are always None.
CacheKey(chunk, type) ==
    IF Kind[type] = "CMOS"
    THEN <<"analytical", type, chunk.description,
           Printed(chunk.macs, MacUnit), Printed(100 * chunk.percentage, PercentUnit)>>
    ELSE <<"cimloop", type, chunk.yaml>>

\* The analytical model uses the MACs and the parameters of the type, CIMLoop
\* the YAML and the type.
Simulated(chunk, type) ==
    IF Kind[type] = "CMOS" THEN [macs |-> chunk.macs, params |-> params[type]]
                           ELSE [yaml |-> chunk.yaml, type |-> type]

Init ==
    /\ CacheInit
    /\ params \in [Types -> Params]
    /\ job = {}
    /\ answer = {}

\* chiplet_params.py may have been edited since the last simulation.
Start ==
    /\ \E clear \in BOOLEAN : LoadCache(clear)
    /\ params' \in [Types -> Params]
    /\ UNCHANGED <<job, answer>>

UseCached(chunk, type) ==
    /\ process = "up" /\ Kind[type] # "IO"
    /\ CacheKey(chunk, type) \in DOMAIN cache
    /\ answer' = {[chunk |-> chunk, type |-> type, result |-> cache[CacheKey(chunk, type)]]}
    /\ UNCHANGED <<cacheVars, params, job>>

RunBackend(chunk, type) ==
    /\ process = "up" /\ Kind[type] # "IO"
    /\ CacheKey(chunk, type) \notin DOMAIN cache
    /\ StoreResult(CacheKey(chunk, type), Simulated(chunk, type))
    /\ job' = {<<chunk, type>>}
    /\ answer' = {}
    /\ UNCHANGED params

WriteTemporary == Dumped /\ UNCHANGED <<params, job, answer>>

FinishStore ==
    /\ Replaced
    /\ answer' = {[chunk |-> j[1], type |-> j[2], result |-> cache[CacheKey(j[1], j[2])]] : j \in job}
    /\ job' = {}
    /\ UNCHANGED params

\* Errors (an IO chiplet, a missing parameter, CIMLoop unreachable, a failed
\* save) and the end of the simulation
Stop ==
    /\ SaveFails \/ Ends
    /\ job' = {} /\ answer' = {}
    /\ UNCHANGED params

Next ==
    \/ Start
    \/ \E chunk \in Chunks, type \in Types : UseCached(chunk, type) \/ RunBackend(chunk, type)
    \/ WriteTemporary
    \/ FinishStore
    \/ Stop

Spec == Init /\ [][Next]_vars

-----------------------------------------------------------------------------
(* Properties *)

\* Using the cache changes no result: every answer is what the backend would
\* compute for this chunk on this type with the parameters of this simulation,
\* to within the one MAC that printing makes of no account. The key is meant
\* "to avoid collisions across CMOS configs".
CacheIsTransparent ==
    \A a \in answer :
      LET fresh == Simulated(a.chunk, a.type)
      IN  IF Kind[a.type] = "CMOS"
          THEN /\ a.result.params = fresh.params
               /\ a.result.macs - fresh.macs \in -MacUnit .. MacUnit
          ELSE a.result = fresh
=============================================================================
