----------------------------- MODULE GarnetTrace -----------------------------
(***************************************************************************)
(* One network simulation end to end: CommunicationSimulator writes the    *)
(* traffic matrices of the active phases as a trace, gem5's trace reader   *)
(* hands the lines to the interfaces, the interfaces count what arrives    *)
(* and record a latency per phase, the last arrival ends the run, and      *)
(* CommunicationSimulator reads the latencies back from stats.txt.         *)
(*                                                                         *)
(* The network in between is taken as GarnetDelivery promises it: every    *)
(* flit arrives once, in any order and after any latency, at the interface *)
(* its line names.                                                         *)
(***************************************************************************)
EXTENDS Integers, Sequences, FiniteSetsExt, Functions

CONSTANTS
    NumChiplets,        \* --num-cpus = --num-dirs
    Flows,              \* pairs of chiplets that send and receive
    Keys,               \* (network_idx, input_idx, phase_id) of active phases
    MaxFlits,           \* bound: largest entry of a traffic matrix
    MaxLatency,         \* bound: largest latency of a flit
    Requests            \* the lists of traffic matrices to simulate

Chiplet == 0 .. NumChiplets - 1
Matrix  == [Flows -> 0 .. MaxFlits]

ASSUME TraceAssumption ==
    /\ NumChiplets \in Nat \ {0} /\ MaxFlits \in Nat /\ MaxLatency \in Nat
    /\ Flows \subseteq Chiplet \X Chiplet
    /\ Keys \subseteq Nat \X Nat \X Nat
    /\ Requests \subseteq Seq([key : Keys, traffic : Matrix])

VARIABLES
    request,            \* traffic_matrices, the argument of simulate_communication
    unwritten,          \* entries of the matrices that are not in the trace yet
    lines,              \* the lines of the trace file
    maxPackets,         \* --network-trace-max-packets
    line,               \* trace_next_packet: a line number, 0 while not valid
    reading,            \* GarnetNetwork::wakeup is running
    packets,            \* trace_num_packets_injected
    flitsInjected,      \* trace_num_flits_injected
    flitsReceived,      \* trace_num_flits_received
    endSimulation,
    flying,             \* per line, its flits in interfaces and network
    arrived,            \* per line, where its flits arrived and after how long
    latencies,          \* m_packet_phase_latencies: pairs <<key, latency>>
    status,
    result              \* all_phase_latencies as read back: pairs <<key, latency>>

vars == <<request, unwritten, lines, maxPackets, line, reading, packets, flitsInjected,
          flitsReceived, endSimulation, flying, arrived, latencies, status, result>>

-----------------------------------------------------------------------------
(* CommunicationSimulator: the trace file and the command line *)

\* Mutant: chiplets are numbered from one.
DestInterfaceFromOne(d) == d + 101

\* Receivers are the interfaces from 100 on, whatever NumChiplets is.
DestInterface(d) == d + 100

\* The positive entries of the matrices, one trace line each
Entries == {e \in (DOMAIN request) \X Flows : request[e[1]].traffic[e[2]] > 0}

LineOf(e) ==
    LET m == request[e[1]]
    IN  [src |-> e[2][1], dest |-> DestInterface(e[2][2]),
         flits |-> m.traffic[e[2]], key |-> m.key, router |-> e[2][2]]

\* The loops go through the list of matrices, and through a matrix row by row.
Before(d, e) ==
    \/ d[1] < e[1]
    \/ d[1] = e[1] /\ d[2][1] < e[2][1]
    \/ d[1] = e[1] /\ d[2][1] = e[2][1] /\ d[2][2] <= e[2][2]

FlitsRequested == SumFunction([e \in Entries |-> request[e[1]].traffic[e[2]]])

\* Mutant: matrices are counted instead of flits.
MaxPacketsOfMatrices == Len(request) - 1

\* total_packets - 1, with total_packets counting flits
MaxPackets == FlitsRequested - 1

-----------------------------------------------------------------------------
(* GarnetNetwork's constructor leaves end_simulation uninitialised. *)
Init ==
    /\ request \in Requests
    /\ unwritten = Entries
    /\ lines = <<>>
    /\ maxPackets = -1
    /\ line = 0
    /\ reading = TRUE
    /\ packets = 0 /\ flitsInjected = 0 /\ flitsReceived = 0
    /\ endSimulation \in BOOLEAN
    /\ flying = <<>>
    /\ arrived = <<>>
    /\ latencies = {}
    /\ status = "preparing"
    /\ result = {}

\* _prepare_garnet_traffic_files, one line
WriteLine(e) ==
    /\ status = "preparing"
    /\ e \in unwritten /\ \A d \in unwritten : Before(e, d)
    /\ lines' = Append(lines, LineOf(e))
    /\ unwritten' = unwritten \ {e}
    /\ flying' = Append(flying, 0)
    /\ arrived' = Append(arrived, {})
    /\ UNCHANGED <<request, maxPackets, line, reading, packets, flitsInjected, flitsReceived,
                   endSimulation, latencies, status, result>>

\* Without a line gem5 is not started and all phases are reported as zero.
Start ==
    /\ status = "preparing" /\ unwritten = {}
    /\ maxPackets' = MaxPackets
    /\ status' = IF lines = <<>> THEN "complete" ELSE "running"
    /\ result' = IF lines = <<>> THEN {<<request[i].key, 0>> : i \in DOMAIN request} ELSE {}
    /\ UNCHANGED <<request, unwritten, lines, line, reading, packets, flitsInjected,
                   flitsReceived, endSimulation, flying, arrived, latencies>>

(***************************************************************************)
(* GarnetNetwork::wakeup calls itself for the next line as long as that    *)
(* line is for the current cycle, and CommunicationSimulator writes every  *)
(* line for cycle 1: no other event comes in between. One step here is one *)
(* call. A line to an unknown interface goes to interface 0 instead.          *)
(***************************************************************************)
Interfaces == 0 .. 2 * NumChiplets - 1

ReadsOn(injected) == maxPackets < 0 \/ injected <= maxPackets

AtEnd == line + 1 \notin DOMAIN lines

Wakeup ==
    LET injected == packets + (IF line = 0 THEN 0 ELSE 1)
    IN  /\ status = "running" /\ reading
        /\ packets' = injected
        /\ flitsInjected' = flitsInjected + (IF line = 0 THEN 0 ELSE lines[line].flits)
        /\ flying' = [i \in DOMAIN lines |-> IF i = line THEN lines[i].flits ELSE flying[i]]
        /\ line' = IF AtEnd THEN line ELSE line + 1
        /\ endSimulation' = (endSimulation \/ AtEnd)
        /\ reading' = (~AtEnd /\ ReadsOn(injected))
        /\ UNCHANGED <<request, unwritten, lines, maxPackets, flitsReceived, arrived, latencies, status, result>>

TargetInterface(i) == IF lines[i].dest \in Interfaces THEN lines[i].dest ELSE 0

\* Mutant: the end of the trace is not looked at.
FinishedByCount(received) ==
    maxPackets >= 0 /\ packets > maxPackets /\ received = flitsInjected

\* increment_trace_flits_received
Finished(received) ==
    \/ endSimulation /\ received = flitsInjected
    \/ maxPackets >= 0 /\ packets > maxPackets /\ received = flitsInjected

\* Mutant: the flit that ends the run is not recorded.
RecordedBeforeExit(key, latency, exits) ==
    latencies \cup (IF exits THEN {} ELSE {<<key, latency>>})

\* incrementStats and add_phase_latency; exitSimLoop only schedules the exit,
\* so the flit that ends the run is recorded too.
Recorded(key, latency, exits) == latencies \cup {<<key, latency>>}

\* A flit of line i reaches a receiver. Senders have no buffer for the virtual
\* network of the trace: a flit for one of them brings gem5 down.
Receive(i, latency) ==
    LET ni == TargetInterface(i)
        accepted == ni >= NumChiplets
        received == flitsReceived + (IF accepted THEN 1 ELSE 0)
    IN  /\ status = "running" /\ ~reading
        /\ flying[i] > 0
        /\ flying' = [flying EXCEPT ![i] = @ - 1]
        /\ flitsReceived' = received
        /\ status' = CASE ~accepted -> "crashed"
                       [] accepted /\ Finished(received) -> "exiting"
                       [] OTHER -> "running"
        /\ latencies' = IF accepted THEN Recorded(lines[i].key, latency, Finished(received))
                                    ELSE latencies
        /\ arrived' = IF accepted THEN [arrived EXCEPT ![i] = @ \cup {<<ni % NumChiplets, latency>>}]
                                  ELSE arrived
        /\ UNCHANGED <<request, unwritten, lines, maxPackets, line, reading, packets,
                       flitsInjected, endSimulation, result>>

-----------------------------------------------------------------------------
(* Statistics *)

MAX_NETWORKS == 20
MAX_INPUTS   == 20
MAX_PHASES   == 500

Registered(key) == key[1] < MAX_NETWORKS /\ key[2] < MAX_INPUTS /\ key[3] < MAX_PHASES

\* The value of the statistic for one phase: the largest latency of its flits
PhaseLatency(key) == Max({r[2] : r \in {s \in latencies : s[1] = key}})

\* collateStats writes the registered phases, _extract_garnet_stats reads
\* them back from stats.txt.
ReadStats ==
    /\ status = "exiting"
    /\ status' = "complete"
    /\ result' = {<<key, PhaseLatency(key)>> :
                    key \in {k \in {r[1] : r \in latencies} : Registered(k)}}
    /\ UNCHANGED <<request, unwritten, lines, maxPackets, line, reading, packets, flitsInjected,
                   flitsReceived, endSimulation, flying, arrived, latencies>>

\* The simulation has ended, or gem5 has no event left.
Over == /\ \/ status \in {"complete", "crashed"}
           \/ status = "running" /\ ~reading /\ \A i \in DOMAIN lines : flying[i] = 0
        /\ UNCHANGED vars

Step == \/ \E e \in unwritten : WriteLine(e)
        \/ Start
        \/ Wakeup
        \/ \E i \in DOMAIN lines, latency \in 1 .. MaxLatency : Receive(i, latency)
        \/ ReadStats
Next == Step \/ Over

\* gem5 runs until its exit event, and its network keeps delivering (Garnet).
Spec == Init /\ [][Next]_vars /\ WF_vars(Step)

-----------------------------------------------------------------------------
(* Properties *)

TraceLine == [src : Chiplet, dest : Int, flits : 1 .. MaxFlits, key : Keys, router : Chiplet]

TypeOK ==
    /\ request \in Seq([key : Keys, traffic : Matrix]) /\ unwritten \subseteq Entries
    /\ lines \in Seq(TraceLine)
    /\ line \in 0 .. Len(lines) /\ packets \in 0 .. Len(lines)
    /\ maxPackets \in Int /\ flitsInjected \in Nat /\ flitsReceived \in Nat
    /\ reading \in BOOLEAN /\ endSimulation \in BOOLEAN
    /\ flying \in [DOMAIN lines -> 0 .. MaxFlits]
    /\ arrived \in [DOMAIN lines -> SUBSET (Chiplet \X (1 .. MaxLatency))]
    /\ latencies \subseteq Keys \X (1 .. MaxLatency)
    /\ result \subseteq Keys \X (0 .. MaxLatency)
    /\ status \in {"preparing", "running", "exiting", "complete", "crashed"}

\* The run only ends when the whole trace has been injected and every flit has
\* arrived: --network-trace-max-packets never cuts the trace short, and neither
\* does the exit test with an end_simulation nobody initialised.
WholeTraceArrives ==
    status \in {"exiting", "complete"} =>
       /\ flitsReceived = FlitsRequested
       /\ \A i \in DOMAIN lines : flying[i] = 0

Senders == {e[1] : e \in Entries}
FlitLatencies(key) ==
    UNION {{a[2] : a \in arrived[i]} : i \in {j \in DOMAIN lines : lines[j].key = key}}

\* Every phase that was given traffic is reported, with the latency of its
\* slowest flit; "all_phase_latencies_us" is what phases wait for, and one that
\* is missing is simulated again and again.
EveryPhaseReported ==
    status = "complete" =>
       \A i \in Senders :
          {r[2] : r \in {s \in result : s[1] = request[i].key}} = {Max(FlitLatencies(request[i].key))}

\* A flit arrives at the router its trace line names (o_router), the chiplet
\* the traffic matrix was filled for.
FlitsReachTheirChiplet ==
    /\ status # "crashed"
    /\ \A i \in DOMAIN lines : \A a \in arrived[i] : a[1] = lines[i].router

\* Every simulation ends and is read back.
SimulationCompletes == <>(status = "complete")
=============================================================================
