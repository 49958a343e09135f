-------------------- MODULE CommunicationSimulatorProofs --------------------
(***************************************************************************)
(* The result cache of the communication simulator, proved for every set   *)
(* of requests and every sequence of stores, failed saves, kills and       *)
(* restarts: the file is whole, memory and file agree while a simulation   *)
(* goes on, the file is a DurableStore, and answers from it fit.           *)
(***************************************************************************)
EXTENDS CommunicationSimulator, TLAPS

-----------------------------------------------------------------------------
(* The inductive invariant. *)

\* While store_result is under way, memory is one entry ahead of the file, and
\* the temporary file holds what memory holds, whole once it has been dumped.
SaveUnderWay ==
    process \in {"dumping", "replacing"} =>
        /\ tmp = {[whole |-> process = "replacing", entries |-> cache]}
        /\ \E key, result : cache = With(EntriesOf(file), key, result)

CacheInv ==
    /\ process \in {"down", "up", "dumping", "replacing"}
    /\ FileIsWhole
    /\ MemoryIsOnDisk
    /\ SaveUnderWay

\* Stored results report only phases of the request they are stored for.
Fitting(entries) ==
    \A key \in DOMAIN entries : entries[key].phases \subseteq key.phases

FitInv ==
    /\ Fitting(cache)
    /\ Fitting(EntriesOf(file))
    /\ CachedAnswersFit

-----------------------------------------------------------------------------
(* Files and dictionaries. *)

\* A file that is there is the one that is read.
LEMMA EntriesOfOne ==
    ASSUME NEW x
    PROVE  EntriesOf({x}) = x.entries
BY DEF EntriesOf

\* os.replace makes the cache file what memory holds.
LEMMA ReplacedFile ==
    ASSUME CacheInv, Replaced
    PROVE  EntriesOf(file') = cache
<1> DEFINE x == [whole |-> TRUE, entries |-> cache]
<1>1. file' = {x}
  BY DEF Replaced, CacheInv, SaveUnderWay
<1>2. x.entries = cache
  OBVIOUS
<1> HIDE DEF x
<1>3. QED
  BY <1>1, <1>2, EntriesOfOne

\* The empty dictionary has no entry.
LEMMA EmptyFits == Fitting(Empty)
BY DEF Fitting, Empty

\* A fitting result may be stored.
LEMMA WithFits ==
    ASSUME NEW key, NEW result, NEW d, Fitting(d), result.phases \subseteq key.phases
    PROVE  Fitting(With(d, key, result))
<1> DEFINE e == With(d, key, result)
<1>1. ASSUME NEW k \in DOMAIN e PROVE e[k].phases \subseteq k.phases
  <2>1. CASE k = key
    BY <2>1 DEF With
  <2>2. CASE k # key
    <3>1. k \in DOMAIN d /\ e[k] = d[k]
      BY <2>2 DEF With
    <3>2. QED
      BY <3>1 DEF Fitting
  <2>3. QED
    BY <2>1, <2>2
<1>2. QED
  BY <1>1 DEF Fitting

-----------------------------------------------------------------------------
(* The cache across stores, failures and restarts. *)

\* It holds when no simulation has run yet.
LEMMA CacheInvInit == Init => CacheInv
BY DEF Init, CacheInit, CacheInv, FileIsWhole, MemoryIsOnDisk, SaveUnderWay

\* Every step of the simulator keeps it, those that fail or stop included.
LEMMA CacheInvStep == CacheInv /\ [Next]_vars => CacheInv'
<1> SUFFICES ASSUME CacheInv, [Next]_vars PROVE CacheInv'
  OBVIOUS
<1> USE DEF CacheInv, FileIsWhole, MemoryIsOnDisk, SaveUnderWay
<1>1. CASE UNCHANGED cacheVars
  BY <1>1 DEF cacheVars
<1>2. ASSUME NEW clear \in BOOLEAN, LoadCache(clear) PROVE CacheInv'
  <2>1. process' = "up" /\ (\A f \in file' : f.whole)
    BY <1>2 DEF LoadCache
  <2>2. cache' = EntriesOf(file')
    BY <1>2 DEF LoadCache, Loaded, EntriesOf
  <2>3. QED
    BY <2>1, <2>2
<1>3. ASSUME NEW key, NEW result, StoreResult(key, result) PROVE CacheInv'
  BY <1>3 DEF StoreResult
<1>4. CASE Dumped
  <2>1. tmp = {[whole |-> FALSE, entries |-> cache]}
    BY <1>4 DEF Dumped
  <2>2. tmp' = {[whole |-> TRUE, entries |-> cache]}
    BY <1>4, <2>1 DEF Dumped
  <2>3. QED
    BY <1>4, <2>2 DEF Dumped
<1>5. CASE Replaced
  <2>1. file' = {[whole |-> TRUE, entries |-> cache]}
    BY <1>5 DEF Replaced
  <2>2. EntriesOf(file') = cache
    BY <1>5, ReplacedFile
  <2>3. QED
    BY <1>5, <2>1, <2>2 DEF Replaced
<1>6. CASE SaveFails \/ Ends
  BY <1>6 DEF SaveFails, Ends
<1>7. QED
  BY <1>1, <1>2, <1>3, <1>4, <1>5, <1>6
  DEF Next, vars, Start, UseCached, RunGarnet, GarnetReports, WriteTemporary,
      FinishStore, Stop

\* The invariant of the cache holds in every reachable state.
LEMMA CacheInvariant == Spec => []CacheInv
<1>1. QED
  BY CacheInvInit, CacheInvStep, PTL DEF Spec

\* Whatever fails or is killed while results are stored, the cache file is a
\* complete pickle that the next simulation can load (_load_cache raises on
\* anything else).
THEOREM FileIsWholeCorrect == Spec => []FileIsWhole
<1>1. CacheInv => FileIsWhole
  BY DEF CacheInv
<1>2. QED
  BY <1>1, CacheInvariant, PTL

\* A simulation that goes on after store_result works with what is on disk.
THEOREM MemoryIsOnDiskCorrect == Spec => []MemoryIsOnDisk
<1>1. CacheInv => MemoryIsOnDisk
  BY DEF CacheInv
<1>2. QED
  BY <1>1, CacheInvariant, PTL

\* CacheManager's memory image, temporary file and rename implement a store
\* that changes by one whole entry at a time or is cleared on request.
THEOREM DurableStoreImplemented == Spec => ImplementsDurableStore
<1>1. Init => EntriesOf(file) = Store!Empty
  BY DEF Init, CacheInit, EntriesOf, Empty, Store!Empty
<1>2. CacheInv /\ [Next]_vars => [Store!Put \/ Store!Clear]_(EntriesOf(file))
  <2> SUFFICES ASSUME CacheInv, [Next]_vars,
                      EntriesOf(file)' # EntriesOf(file)
               PROVE  Store!Put \/ Store!Clear
    OBVIOUS
  <2>1. file' # file
    OBVIOUS
  <2>2. CASE \E clear \in BOOLEAN : LoadCache(clear)
    BY <2>1, <2>2 DEF LoadCache, EntriesOf, Empty, Store!Clear, Store!Empty
  <2>3. CASE Replaced
    <3>1. EntriesOf(file)' = cache
      BY <2>3, ReplacedFile
    <3>2. PICK key, result : cache = With(EntriesOf(file), key, result)
      BY <2>3 DEF Replaced, CacheInv, SaveUnderWay
    <3> DEFINE e == EntriesOf(file)
               n == With(e, key, result)
    <3>3. /\ key \in DOMAIN n /\ DOMAIN n = DOMAIN e \cup {key}
          /\ \A x \in DOMAIN e \ {key} : n[x] = e[x]
      <4> HIDE DEF e
      <4>1. QED
        BY DEF With
    <3>4. EntriesOf(file)' = n
      BY <3>1, <3>2
    <3> HIDE DEF n
    <3>5. Store!Put
      BY <3>3, <3>4, Zenon DEF Store!Put
    <3>6. QED
      BY <3>5
  <2>4. QED
    BY <2>1, <2>2, <2>3
    DEF Next, vars, cacheVars, Start, UseCached, RunGarnet, GarnetReports, StoreResult,
        WriteTemporary, Dumped, FinishStore, Stop, SaveFails, Ends
<1>3. QED
  BY <1>1, <1>2, CacheInvariant, PTL DEF Spec, ImplementsDurableStore, Store!Spec

-----------------------------------------------------------------------------
(* Answers from the cache. *)

\* An empty cache fits.
LEMMA FitInvInit == Init => FitInv
BY EmptyFits DEF Init, CacheInit, FitInv, CachedAnswersFit, EntriesOf

\* Only what gem5 reported of a request is stored under its key.
LEMMA FitInvStep == CacheInv /\ FitInv /\ [Next]_vars => FitInv'
<1> SUFFICES ASSUME CacheInv, FitInv, [Next]_vars PROVE FitInv'
  OBVIOUS
<1> USE DEF FitInv, CachedAnswersFit
<1>1. CASE Start
  BY <1>1, EmptyFits DEF Start, LoadCache, Loaded, EntriesOf
<1>2. ASSUME NEW request \in Requests, UseCached(request) PROVE FitInv'
  <2>1. DOMAIN request = cache[CacheKey(request)].phases
    BY <1>2 DEF UseCached, Hit, Fitting, CacheKey
  <2>2. QED
    BY <1>2, <2>1 DEF UseCached, cacheVars
<1>3. ASSUME NEW request \in Requests, RunGarnet(request) PROVE FitInv'
  BY <1>3 DEF RunGarnet, cacheVars
<1>4. ASSUME NEW request \in pending, NEW reported \in SUBSET DOMAIN request,
             GarnetReports(request, reported)
      PROVE  FitInv'
  <2> DEFINE result == [for |-> request, phases |-> reported]
  <2>1. result.phases \subseteq CacheKey(request).phases
    BY DEF CacheKey
  <2>2. CASE enabled /\ StoreResult(CacheKey(request), result) /\ UNCHANGED answer
    <3> HIDE DEF result
    <3>1. Fitting(cache')
      BY <2>1, <2>2, WithFits DEF StoreResult
    <3>2. QED
      BY <2>2, <3>1 DEF StoreResult
  <2>3. CASE answer' = Answered(request, result) /\ UNCHANGED cacheVars
    BY <2>3 DEF Answered, cacheVars
  <2>4. QED
    BY <1>4, <2>2, <2>3 DEF GarnetReports
<1>5. CASE WriteTemporary
  BY <1>5 DEF WriteTemporary, Dumped
<1>6. CASE FinishStore
  <2>1. EntriesOf(file') = cache
    BY <1>6, ReplacedFile DEF FinishStore
  <2>2. QED
    BY <1>6, <2>1 DEF FinishStore, Replaced, Answered
<1>7. CASE Stop
  BY <1>7, EmptyFits DEF Stop, SaveFails, Ends
<1>8. CASE UNCHANGED vars
  BY <1>8 DEF vars, cacheVars
<1>9. QED
  BY <1>1, <1>2, <1>3, <1>4, <1>5, <1>6, <1>7, <1>8 DEF Next

\* An answer from the cache has a latency for exactly the phases asked about,
\* whatever gem5 left out when the result was stored and however often the
\* cache was saved, lost or loaded in between.
THEOREM CachedAnswersFitCorrect == Spec => []CachedAnswersFit
<1>1. FitInv => CachedAnswersFit
  BY DEF FitInv
<1>2. QED
  BY <1>1, FitInvInit, FitInvStep, CacheInvariant, PTL DEF Spec
=============================================================================
