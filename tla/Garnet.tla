------------------------------- MODULE Garnet -------------------------------
(***************************************************************************)
(* Garnet as CHIPSIM runs it: trace-driven, one virtual network, one       *)
(* virtual channel (VC) of one buffer per link, table routing. Interfaces, *)
(* routers and links are consumers that gem5 wakes in the cycle they were  *)
(* scheduled for, and only then: whatever is left in a queue without a     *)
(* wakeup stays there.                                                     *)
(*                                                                         *)
(* A flit is a packet of its own (HEAD_TAIL) and moves, hop by hop,        *)
(*    waiting -> queue -> link -> buffer -> queue -> ... -> received       *)
(* where queue is the sender's output queue of a channel, link the link's  *)
(* buffer and buffer the input VC of the router at its end. A credit       *)
(* travels back over the same channel when the flit leaves the buffer.     *)
(***************************************************************************)
EXTENDS GarnetTopology

CONSTANTS
    MaxRecords,         \* lines of a trace
    MaxFlits,           \* flits of a line
    Traces,             \* the traces to replay: [1..MaxRecords -> Record]
    Threshold,          \* --garnet-deadlock-threshold
    Unordered           \* the traces replayed with the wakeups of a cycle in every order

Record == [src : NIs, dest : NIs, flits : 0 .. MaxFlits]

ASSUME GarnetAssumption ==
    /\ MaxRecords \in Nat /\ MaxFlits \in Nat /\ Threshold \in Nat
    /\ Traces \subseteq [1 .. MaxRecords -> Record]
    /\ Unordered \subseteq Traces

Flits == (1 .. MaxRecords) \X (1 .. MaxFlits)

VARIABLES
    trace,          \* the trace being replayed
    at,             \* where a flit is: <<stage, channel>>
    outport,        \* the output channel granted to an input VC, NoPort if idle
    outVc,          \* the sender's view of the VC at the end of a channel
    credits,        \* OutVcState::m_credit_count
    creditQueue,    \* credits the receiver has queued for the credit link
    creditLink,     \* credits on the credit link
    busy,           \* NetworkInterface::vc_busy_counter
    due,            \* consumers to wake in this cycle
    next,           \* consumers scheduled for the next cycle
    status          \* running, complete (exitSimLoop) or panicked

vars == <<trace, at, outport, outVc, credits, creditQueue, creditLink,
          busy, due, next, status>>

NoPort == <<>>
Nowhere == <<>>
Stages == {"queue", "link", "buffer"}
Places == ({"absent", "waiting"} \X {Nowhere}) \cup ((Stages \cup {"received"}) \X Channels)

FlitLink(c)      == <<"FlitLink", c>>
CreditLinkOf(c)  == <<"CreditLink", c>>
Endpoints == {NINode(n) : n \in NIs} \cup {RouterNode(r) : r \in Routers}
Links     == {FlitLink(c) : c \in Channels} \cup {CreditLinkOf(c) : c \in Channels}
Consumers == Endpoints \cup Links

InTrace(f) == f[2] <= trace[f[1]].flits
SourceOf(f) == trace[f[1]].src
DestOf(f)   == trace[f[1]].dest

TypeOK ==
    /\ trace \in Traces
    /\ at \in [Flits -> Places]
    /\ outport \in [Channels -> Channels \cup {NoPort}]
    /\ outVc \in [Channels -> {"IDLE", "ACTIVE"}]
    /\ credits \in [Channels -> Int]
    /\ creditQueue \in [Channels -> Nat]
    /\ creditLink \in [Channels -> Nat]
    /\ busy \in [NIs -> Nat]
    /\ due \subseteq Consumers
    /\ next \subseteq Consumers
    /\ status \in {"running", "complete", "panicked"}

\* The reader has handed every line to its interface and woken it.
Init ==
    /\ trace \in Traces
    /\ at = [f \in Flits |-> <<IF InTrace(f) THEN "waiting" ELSE "absent", Nowhere>>]
    /\ outport = [c \in Channels |-> NoPort]
    /\ outVc = [c \in Channels |-> "IDLE"]
    /\ credits = [c \in Channels |-> 1]
    /\ creditQueue = [c \in Channels |-> 0]
    /\ creditLink = [c \in Channels |-> 0]
    /\ busy = [n \in NIs |-> 0]
    /\ due = {NINode(SourceOf(f)) : f \in {g \in Flits : InTrace(g)}}
    /\ next = {}
    /\ status = "running"

-----------------------------------------------------------------------------
(***************************************************************************)
(* Wakeups of one cycle. What a wakeup hands on is stamped with a later    *)
(* cycle, so their order does not matter except that a flit put on a link  *)
(* may not be consumed in the same cycle: endpoints go before links.       *)
(***************************************************************************)
Ready == LET endpoints == due \cap Endpoints
         IN  IF endpoints # {} THEN endpoints ELSE due

First == CHOOSE x \in Ready : TRUE

Wake(x) == /\ status = "running"
           /\ x \in Ready
           /\ trace \in Unordered \/ x = First
           /\ due' = due \ {x}

In(stage, c) == {f \in Flits : at[f] = <<stage, c>>}

-----------------------------------------------------------------------------
(* Network interface *)

Waiting(n) == {f \in Flits : at[f][1] = "waiting" /\ SourceOf(f) = n}

\* transferTraceRecordsToInjectionQueue: the flits of the records take turns.
Before(f, g) == f[2] < g[2] \/ (f[2] = g[2] /\ f[1] <= g[1])
FrontFlit(n) == CHOOSE f \in Waiting(n) : \A g \in Waiting(n) : Before(f, g)

\* calculateVC, with the only VC of the channel
FreeVc(c) == outVc[c] = "IDLE"

Injected(n) == IF Waiting(n) # {} /\ FreeVc(InjectChannel(n))
               THEN {FrontFlit(n)} ELSE {}

BusyCount(n) == CASE Waiting(n) = {} -> busy[n]
                  [] Waiting(n) # {} /\ FreeVc(InjectChannel(n)) -> 0
                  [] OTHER -> busy[n] + 1

\* Mutant: waiting flits do not keep the interface scheduled.
NIReschedulesForCredits(n, injected) == creditLink[InjectChannel(n)] > 1

\* checkReschedule
NIReschedules(n, injected) ==
    \/ Waiting(n) # injected
    \/ creditLink[InjectChannel(n)] > 1

\* Mutant: the replay ends one flit early.
AllReceivedButOne(received) ==
    \E g \in Flits : \A f \in Flits \ {g} :
       InTrace(f) => at[f][1] = "received" \/ f \in received

\* increment_trace_flits_received
AllReceived(received) ==
    \A f \in Flits : InTrace(f) => at[f][1] = "received" \/ f \in received

\* One wakeup injects at most one flit, takes at most one flit off the link
\* and at most one credit. An injected flit goes to the output queue at once:
\* a VC that is idle has its credit. The receiver's protocol buffer stays
\* empty in a trace run, so a received flit is never stalled.
NetworkInterfaceWakeup(n) ==
    LET out == InjectChannel(n)
        in  == EjectChannel(n)
        injected == Injected(n)
        credited == creditLink[out] > 0
    IN  /\ Wake(NINode(n))
        /\ \E received \in SUBSET In("link", in) :
             /\ \/ received = {} /\ In("link", in) = {}
                \/ \E f \in Flits : received = {f}
             /\ at' = [f \in Flits |->
                         CASE f \in injected -> <<"queue", out>>
                           [] f \in received -> <<"received", in>>
                           [] OTHER -> at[f]]
             /\ creditQueue' = [creditQueue EXCEPT ![in] = @ + (IF received = {} THEN 0 ELSE 1)]
             /\ status' = CASE BusyCount(n) > Threshold -> "panicked"
                            [] received # {} /\ AllReceived(received) -> "complete"
                            [] OTHER -> status
             /\ next' = next
                  \cup {FlitLink(out) : f \in injected}
                  \cup (IF creditQueue'[in] > 0 THEN {CreditLinkOf(in)} ELSE {})
                  \cup (IF NIReschedules(n, injected) \/ In("link", in) # received
                        THEN {NINode(n)} ELSE {})
        /\ outVc' = [outVc EXCEPT ![out] =
                        CASE credited -> "IDLE"
                          [] ~credited /\ injected # {} -> "ACTIVE"
                          [] OTHER -> @]
        /\ credits' = [credits EXCEPT ![out] =
                        @ - (IF injected = {} THEN 0 ELSE 1) + (IF credited THEN 1 ELSE 0)]
        /\ creditLink' = [creditLink EXCEPT ![out] = @ - (IF credited THEN 1 ELSE 0)]
        /\ busy' = [busy EXCEPT ![n] = BusyCount(n)]
        /\ UNCHANGED <<trace, outport>>

-----------------------------------------------------------------------------
(* Router *)

InChannels(r)  == {c \in Channels : Down(c) = RouterNode(r)}
OutChannels(r) == {c \in Channels : Up(c) = RouterNode(r)}

\* InputUnit::wakeup, the flits taken off the input links: one per link
Arrivals(r) == {a \in SUBSET {f \in Flits : at[f][1] = "link" /\ at[f][2] \in InChannels(r)} :
                  \A c \in InChannels(r) : In("link", c) # {} =>
                     \E f \in In("link", c) : a \cap In("link", c) = {f}}

Routes(r, arrived) == {route \in [arrived -> OutChannels(r)] :
                         \A f \in arrived : route[f] \in Candidates(r, DestOf(f))}

\* Mutant: credits are never taken off their links.
CreditsIgnored(r) == {}

\* OutputUnit::wakeup, the channels a credit has come back on
Credited(r) == {c \in OutChannels(r) : creditLink[c] > 0}

\* SwitchAllocator::send_allowed: the output VC is free, or becomes free now
SendAllowed(r, c) == FreeVc(c) \/ c \in Credited(r)

\* SwitchAllocator::arbitrate_inports: an input has one VC, so all that may go ask
Requests(r, port) == {f \in DOMAIN port : SendAllowed(r, port[f])}

\* Mutant: all inputs that ask for an output channel get it.
WinnersTogether(requests, port) == {requests}

\* arbitrate_outports: one winner for every output port that is requested
Winners(requests, port) ==
    {w \in SUBSET requests :
       /\ \A f \in requests : \E g \in w : port[f] = port[g]
       /\ \A f, g \in w : port[f] = port[g] => f = g}

Buffered(r) == {f \in Flits : at[f][1] = "buffer" /\ at[f][2] \in InChannels(r)}

\* vc_allocate takes the output VC of a winner, a returned credit frees it.
OutVcAfter(r, used) ==
    [c \in Channels |-> CASE c \in used -> "ACTIVE"
                         [] c \in Credited(r) \ used -> "IDLE"
                         [] OTHER -> outVc[c]]

\* CrossbarSwitch::wakeup puts the winners into the queues of their outputs.
Traversed(winners, arrived, port) ==
    [f \in Flits |-> CASE f \in winners -> <<"queue", port[f]>>
                      [] f \in arrived \ winners -> <<"buffer", at[f][2]>>
                      [] OTHER -> at[f]]

\* check_for_wakeup, and the units that have more on their links. A second
\* credit would wake its output unit alone (OutputUnit::wakeup), of which this
\* makes a wakeup of the router; one credit per channel (LinkEndsAgree) rules it out.
RouterReschedules(r, arrived, kept) ==
    \/ kept # {}
    \/ \E c \in Credited(r) : creditLink[c] > 1
    \/ \E c \in InChannels(r) : ~(In("link", c) \subseteq arrived)

\* The output of every flit in the router: just computed, or kept by its VC.
PortOf(r, arrived, route) ==
    [f \in arrived \cup Buffered(r) |->
       IF f \in arrived THEN route[f] ELSE outport[at[f][2]]]

\* What the units of the router do to flits, VCs and credits.
Forward(r, arrived, port, winners) ==
    LET left == {at[f][2] : f \in winners}
        used == {port[f] : f \in winners}
        kept == (arrived \cup Buffered(r)) \ winners
    IN  /\ at' = Traversed(winners, arrived, port)
        /\ outport' = [c \in Channels |->
                         CASE c \in left -> NoPort
                           [] \E f \in arrived \ winners : at[f][2] = c ->
                                port[CHOOSE f \in arrived \ winners : at[f][2] = c]
                           [] OTHER -> outport[c]]
        /\ outVc' = OutVcAfter(r, used)
        /\ credits' = [c \in Channels |->
                         credits[c] + (IF c \in Credited(r) THEN 1 ELSE 0)
                                    - (IF c \in used THEN 1 ELSE 0)]
        /\ creditLink' = [c \in Channels |->
                            creditLink[c] - (IF c \in Credited(r) THEN 1 ELSE 0)]
        /\ creditQueue' = [c \in Channels |->
                             creditQueue[c] + (IF c \in left THEN 1 ELSE 0)]
        /\ next' = next \cup {FlitLink(c) : c \in used}
                        \cup {CreditLinkOf(c) : c \in left}
                        \cup (IF RouterReschedules(r, arrived, kept) THEN {RouterNode(r)} ELSE {})

\* The wakeups of input units, output units, switch allocator and crossbar.
RouterWakeup(r) ==
    /\ Wake(RouterNode(r))
    /\ \E arrived \in Arrivals(r) : \E route \in Routes(r, arrived) :
         LET port == PortOf(r, arrived, route)
         IN  \E winners \in Winners(Requests(r, port), port) :
               Forward(r, arrived, port, winners)
    /\ UNCHANGED <<trace, busy, status>>

-----------------------------------------------------------------------------
(* Links: NetworkLink::wakeup for flits, and for credits (CreditLink) *)

FlitLinkWakeup(c) ==
    /\ Wake(FlitLink(c))
    /\ \/ /\ In("queue", c) = {}
          /\ UNCHANGED <<at, next>>
       \/ \E f \in In("queue", c) :
            /\ at' = [at EXCEPT ![f] = <<"link", c>>]
            /\ next' = next \cup {Down(c)}
                            \cup (IF In("queue", c) = {f} THEN {} ELSE {FlitLink(c)})
    /\ UNCHANGED <<trace, outport, outVc, credits, creditQueue, creditLink, busy, status>>

CreditLinkWakeup(c) ==
    LET moved == IF creditQueue[c] > 0 THEN 1 ELSE 0
    IN  /\ Wake(CreditLinkOf(c))
        /\ creditQueue' = [creditQueue EXCEPT ![c] = @ - moved]
        /\ creditLink' = [creditLink EXCEPT ![c] = @ + moved]
        /\ next' = next \cup (IF creditQueue[c] > 0 THEN {Up(c)} ELSE {})
                        \cup (IF creditQueue[c] > 1 THEN {CreditLinkOf(c)} ELSE {})
        /\ UNCHANGED <<trace, at, outport, outVc, credits, busy, status>>

\* The event queue moves to the next cycle something is scheduled in.
Tick ==
    /\ status = "running"
    /\ due = {} /\ next # {}
    /\ due' = next
    /\ next' = {}
    /\ UNCHANGED <<trace, at, outport, outVc, credits, creditQueue, creditLink, busy, status>>

Ended == status # "running" /\ UNCHANGED vars

Step ==
    \/ \E n \in NIs : NetworkInterfaceWakeup(n)
    \/ \E r \in Routers : RouterWakeup(r)
    \/ \E c \in Channels : FlitLinkWakeup(c) \/ CreditLinkWakeup(c)
    \/ Tick

Next == Step \/ Ended

\* gem5 keeps taking events off its queue until the exit event.
Spec == Init /\ [][Next]_vars /\ WF_vars(Step)

-----------------------------------------------------------------------------
(* Properties *)

Holders(c) == {f \in Flits : at[f][1] \in Stages /\ at[f][2] = c}

\* A VC that the sender holds ACTIVE is accounted for exactly once: by the flit
\* on its way to it, the flit in it, or the credit on its way back; and the
\* credit count says the same. This is what the assertions of OutVcState
\* (credits within bounds) and of InputUnit (an arriving flit finds its VC
\* idle) need.
OneToken(c) ==
    \/ /\ outVc[c] = "IDLE" /\ credits[c] = 1
       /\ Holders(c) = {} /\ creditQueue[c] + creditLink[c] = 0
    \/ /\ outVc[c] = "ACTIVE" /\ credits[c] = 0
       /\ \/ Holders(c) = {} /\ creditQueue[c] + creditLink[c] = 1
          \/ /\ \E f \in Flits : Holders(c) = {f}
             /\ creditQueue[c] + creditLink[c] = 0

OneTokenPerVc == \A c \in Channels : OneToken(c)

\* The receiver's VC is ACTIVE, with a granted output, exactly while a flit is
\* buffered in it.
VcFollowsBuffer ==
    \A c \in Channels : outport[c] = NoPort <=> In("buffer", c) = {}

\* The two ends of every link agree: what the sender believes about the buffer
\* (OutVcState) and what is in it (VirtualChannel) never drift apart, although
\* flits, credits and free signals are under way between them.
LinkEndsAgree == OneTokenPerVc /\ VcFollowsBuffer

Scheduled == due \cup next

\* Who has to act on a flit, or on the credits of a channel, is scheduled.
FlitAwaited(f) ==
    CASE at[f][1] = "waiting"  -> NINode(SourceOf(f)) \in Scheduled
      [] at[f][1] = "queue"    -> FlitLink(at[f][2]) \in Scheduled
      [] at[f][1] \in {"link", "buffer"} -> Down(at[f][2]) \in Scheduled
      [] OTHER -> TRUE
CreditsAwaited(c) ==
    /\ creditQueue[c] > 0 => CreditLinkOf(c) \in Scheduled
    /\ creditLink[c] > 0 => Up(c) \in Scheduled

\* No wakeup is lost: whoever has something to do (flits to inject, to forward
\* or to take off a link, credits to pass on) is scheduled. A consumer nobody
\* schedules never runs again, and its flits never leave.
NoLostWakeup ==
    status = "running" => /\ \A f \in Flits : FlitAwaited(f)
                          /\ \A c \in Channels : CreditsAwaited(c)

IsLink(c)     == Up(c)[1] = "Router" /\ Down(c)[1] = "Router"
AlongRow(c)   == IsLink(c) /\ Row(Up(c)[2]) = Row(Down(c)[2])
AlongColumn(c) == IsLink(c) /\ ~AlongRow(c)

TurnsIntoARow(f) ==
    at[f][1] \in Stages /\ AlongColumn(at[f][2]) /\ AlongRow(at[f][2]')

\* XY order: a flit that came along a column never turns into a row, whether it
\* waits in the router or passes in the wakeup it arrives in. The link weights
\* are chosen for this ("to enforce XY-style ordering"), and the freedom from
\* deadlock of a mesh with one VC rests on it.
XYOrder == [][\A f \in Flits : ~TurnsIntoARow(f)]_vars

Place(f) == CASE at[f][1] = "absent"   -> <<"left out">>
              [] at[f][1] = "waiting"  -> <<"source">>
              [] at[f][1] = "received" -> Down(at[f][2])
              [] OTHER -> <<"network">>

Delivery == INSTANCE GarnetDelivery WITH
    Flit <- Flits, Interface <- {NINode(n) : n \in NIs},
    dest <- [f \in Flits |-> NINode(DestOf(f))],
    place <- [f \in Flits |-> Place(f)], outcome <- status

\* The network delivers every flit once, to the interface its line names, and
\* exitSimLoop is only reached when nothing is under way.
ImplementsDelivery == Delivery!Spec

\* Every replay ends with exitSimLoop: no flit waits for ever for a VC, and no
\* interface gives up with "Possible network deadlock".
TraceCompletes == <>(status = "complete")
=============================================================================
