---------------------------- MODULE CacheManager ----------------------------
(***************************************************************************)
(* The result cache of the compute and the communication simulator: a      *)
(* dictionary in memory that is pickled to a temporary file and renamed    *)
(* over the cache file after every stored result. A simulation may be      *)
(* killed anywhere; the next one (of the batch, or of the next day) loads  *)
(* whatever file it finds.                                                 *)
(***************************************************************************)
EXTENDS Integers, FiniteSetsExt

VARIABLES
    cache,      \* self.cache
    file,       \* the cache file: {} or {[whole, entries]}
    tmp,        \* cache_file.tmp, likewise
    process     \* down, up, dumping (pickle.dump) or replacing (os.replace)

cacheVars == <<cache, file, tmp, process>>

Empty == <<>>
EntriesOf(f) == IF f = {} THEN Empty ELSE (CHOOSE x \in f : TRUE).entries

\* self.cache[key] = result
With(entries, key, result) ==
    [k \in DOMAIN entries \cup {key} |-> IF k = key THEN result ELSE entries[k]]

CacheInit ==
    /\ cache = Empty
    /\ file = {} /\ tmp = {}
    /\ process = "down"

\* Mutant: the file is ignored.
LoadNothing == Empty

\* What _load_cache returns without clear_cache. A file that cannot be parsed
\* ends the simulation with an error.
Loaded == EntriesOf(file)

LoadCache(clear) ==
    /\ process = "down"
    /\ clear \/ \A f \in file : f.whole
    /\ cache' = IF clear THEN Empty ELSE Loaded
    /\ file' = IF clear THEN {} ELSE file
    /\ process' = "up"
    /\ UNCHANGED tmp

\* Mutant: the cache file itself is written.
StoreInPlace(key, result) ==
    /\ process = "up"
    /\ cache' = With(cache, key, result)
    /\ file' = {[whole |-> FALSE, entries |-> cache']}
    /\ tmp' = file'
    /\ process' = "dumping"

\* store_result, up to the first byte of the temporary file
StoreResult(key, result) ==
    /\ process = "up"
    /\ cache' = With(cache, key, result)
    /\ tmp' = {[whole |-> FALSE, entries |-> cache']}
    /\ process' = "dumping"
    /\ UNCHANGED file

Dumped ==
    /\ process = "dumping"
    /\ tmp' = {[f EXCEPT !.whole = TRUE] : f \in tmp}
    /\ process' = "replacing"
    /\ UNCHANGED <<cache, file>>

Replaced ==
    /\ process = "replacing"
    /\ file' = tmp
    /\ tmp' = {}
    /\ process' = "up"
    /\ UNCHANGED cache

\* Mutant: the simulation goes on after a failed save.
SaveFailsQuietly ==
    /\ process \in {"dumping", "replacing"}
    /\ tmp' = {}
    /\ process' = "up"
    /\ UNCHANGED <<cache, file>>

\* save_cache removes the temporary file if it can and raises; nobody catches
\* the error before the simulation has ended.
SaveFails ==
    /\ process \in {"dumping", "replacing"}
    /\ tmp' \in {{}, tmp}
    /\ process' = "down"
    /\ cache' = Empty
    /\ UNCHANGED file

\* The simulation ends, by itself or killed.
Ends ==
    /\ process # "down"
    /\ process' = "down"
    /\ cache' = Empty
    /\ UNCHANGED <<file, tmp>>

-----------------------------------------------------------------------------
(* Properties *)

\* The cache file is always a complete pickle: no crash and no failed write
\* leaves one that the next simulation cannot load.
FileIsWhole == \A f \in file : f.whole

\* A simulation that goes on after storing a result works with what is on
\* disk: memory and file never drift apart.
MemoryIsOnDisk == process = "up" => cache = EntriesOf(file)

Store == INSTANCE DurableStore WITH entries <- EntriesOf(file)

\* The file changes by one whole entry at a time or is cleared, whatever the
\* interleaving of stores, failures and restarts.
ImplementsDurableStore == Store!Spec
=============================================================================
