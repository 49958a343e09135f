--------------------------- MODULE StatsCollector ---------------------------
(***************************************************************************)
(* The DSENT statistics of a simulation: every network simulation adds one *)
(* entry, the collector appends its buffer to a file of pickles, and       *)
(* PowerComputer reads the file back when the simulation is over. Writing  *)
(* may fail anywhere; the collector reports that and goes on.              *)
(***************************************************************************)
EXTENDS Naturals, Sequences, SequencesExt

CONSTANTS
    MaxEntries,         \* bound: network simulations
    MaxFailures,        \* bound: writes that fail
    dump_threshold      \* entries to buffer before a dump

ASSUME StatsAssumption ==
    MaxEntries \in Nat /\ MaxFailures \in Nat /\ dump_threshold \in Nat

VARIABLES
    added,              \* entries given to add_stats, numbered from 1
    stats_buffer,
    file,               \* the pickles in the file; 0 is one cut short
    failures,
    status,             \* simulating, over (final dump done) or analysed
    dsent_stats         \* what PowerComputer has loaded

vars == <<added, stats_buffer, file, failures, status, dsent_stats>>

Torn == 0

Init ==
    /\ added = 0
    /\ stats_buffer = <<>>
    /\ file = <<>>
    /\ failures = 0
    /\ status = "simulating"
    /\ dsent_stats = <<>>

State(buffer, written, failed) == [buffer |-> buffer, file |-> written, failures |-> failed]

\* A failed dump leaves some of the entries in the file, the next one perhaps
\* cut short, and all of them in the buffer.
FailedDumps(s) ==
    {State(s.buffer, s.file \o SubSeq(s.buffer, 1, n), s.failures + 1) : n \in 0 .. Len(s.buffer)}
    \cup {State(s.buffer, s.file \o SubSeq(s.buffer, 1, n) \o <<Torn>>, s.failures + 1) :
             n \in 0 .. Len(s.buffer) - 1}

\* Mutant: the buffer is cleared even if writing failed.
DumpStatsClearing(s) ==
    {State(<<>>, r.file, r.failures) : r \in
       {State(<<>>, s.file \o s.buffer, s.failures)} \cup
       (IF s.buffer # <<>> /\ s.failures < MaxFailures THEN FailedDumps(s) ELSE {})}

\* Mutant: the buffer is not cleared after writing.
DumpStatsKeeping(s) ==
    {State(s.buffer, s.file \o s.buffer, s.failures)} \cup
    (IF s.buffer # <<>> /\ s.failures < MaxFailures THEN FailedDumps(s) ELSE {})

\* dump_stats: the outcomes of writing the buffer
DumpStats(s) ==
    {State(<<>>, s.file \o s.buffer, s.failures)} \cup
    (IF s.buffer # <<>> /\ s.failures < MaxFailures THEN FailedDumps(s) ELSE {})

\* add_stats: append, and dump at the threshold
AddStats(s, entry) ==
    LET appended == [s EXCEPT !.buffer = Append(@, entry)]
    IN  IF Len(appended.buffer) >= dump_threshold THEN DumpStats(appended) ELSE {appended}

Becomes(s) == stats_buffer' = s.buffer /\ file' = s.file /\ failures' = s.failures

Current == State(stats_buffer, file, failures)

\* The orchestrator dumps once more after add_stats.
NetworkSimulated ==
    /\ status = "simulating" /\ added < MaxEntries
    /\ added' = added + 1
    /\ \E s \in AddStats(Current, added') : \E t \in DumpStats(s) : Becomes(t)
    /\ UNCHANGED <<status, dsent_stats>>

\* The dump at the end of simulate()
SimulationEnds ==
    /\ status = "simulating"
    /\ \E s \in DumpStats(Current) : Becomes(s)
    /\ status' = "over"
    /\ UNCHANGED <<added, dsent_stats>>

UpToTorn == SelectInSeq(file, LAMBDA e : e = Torn)

\* _load_dsent_stats stops at the end of the file (EOFError). A pickle that was
\* cut short looks like the end or is an error, which leaves no entry at all.
LoadDsentStats ==
    /\ status = "over"
    /\ IF UpToTorn = 0 THEN dsent_stats' = file
                       ELSE dsent_stats' \in {<<>>, SubSeq(file, 1, UpToTorn - 1)}
    /\ status' = "analysed"
    /\ UNCHANGED <<added, stats_buffer, file, failures>>

Done == status = "analysed" /\ UNCHANGED vars

Next == NetworkSimulated \/ SimulationEnds \/ LoadDsentStats \/ Done

Spec == Init /\ [][Next]_vars

-----------------------------------------------------------------------------
(* Properties *)

\* No failed write loses an entry: it is in the file, whole, or still in the
\* buffer for the next dump ("Clear the buffer after successful dump").
NothingIsForgotten ==
    \A entry \in 1 .. added : entry \in ToSet(file) \cup ToSet(stats_buffer)

FirstPlace(entry) == SelectInSeq(dsent_stats, LAMBDA e : e = entry)

\* What the power analysis sees: without a failure every network simulation
\* exactly once and in order; with failures that cut nothing short still in
\* order, every entry once the final dump has worked, some of them repeated.
PowerSeesEverySimulation ==
    status = "analysed" =>
      /\ failures = 0 => dsent_stats = [i \in 1 .. added |-> i]
      /\ Torn \notin ToSet(file) /\ stats_buffer = <<>> =>
            \A i, j \in 1 .. added : /\ FirstPlace(i) > 0
                                     /\ i < j => FirstPlace(i) < FirstPlace(j)
=============================================================================
