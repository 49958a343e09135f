-------------------------- MODULE TrafficCalculator --------------------------
(***************************************************************************)
(* The traffic of one phase, in packets between chiplets: the outputs of a *)
(* layer to the chiplets of its receiving layers, or the weights of one or *)
(* several layers from the I/O chiplets. The loop over layers is the state *)
(* machine; one step is one layer.                                         *)
(***************************************************************************)
EXTENDS Integers, Sequences, FiniteSets, Functions

CONSTANTS
    Layers,                 \* layer indices 0 .. n-1
    WholeLayer,             \* 100 per cent: shares of a layer are multiples of 1/WholeLayer
    Mappings,               \* mappings to check: [Layers -> shares], the share of a
                            \* layer that each of its chiplets has
    Outputs, Weights,       \* output activations and weights a layer may have
    bits_per_activation, bits_per_packet,
    bits_per_weight,        \* of every compute chiplet
    io_chiplet_ids,         \* list of I/O chiplets
    PathLength              \* get_path_length_between_chiplets, from <<io, chiplet>>

ASSUME TrafficAssumption ==
    /\ IsFiniteSet(Layers) /\ WholeLayer \in Nat \ {0}
    /\ Outputs \subseteq Nat /\ Weights \subseteq Nat
    /\ bits_per_activation \in Nat \ {0} /\ bits_per_packet \in Nat \ {0}
    /\ \A c \in DOMAIN bits_per_weight : bits_per_weight[c] \in Nat \ {0}
    /\ \A m \in Mappings : \A l \in Layers :
          /\ DOMAIN m[l] \subseteq DOMAIN bits_per_weight
          /\ \A c \in DOMAIN m[l] : m[l][c] \in 1 .. WholeLayer
    /\ DOMAIN io_chiplet_ids \subseteq Nat
    /\ \A i \in DOMAIN io_chiplet_ids : \A c \in DOMAIN bits_per_weight :
          PathLength[<<io_chiplet_ids[i], c>>] \in Nat \cup {-1}

VARIABLES
    phase,          \* [kind, layer, layers]: the layer sending, the layers
                    \* receiving or to load
    mapping,
    metrics,        \* output_activation and num_weights of every layer
    todo,           \* layers the loop has still to visit
    traffic         \* packets by <<source, destination>>

trafficVars == <<phase, mapping, metrics, todo, traffic>>

Phases ==
    {[kind |-> "activation", layer |-> l, layers |-> r] :
        l \in Layers, r \in (SUBSET Layers) \ {{}}}
    \cup {[kind |-> "weights", layer |-> -1, layers |-> r] : r \in (SUBSET Layers) \ {{}}}

\* Data flows to later layers, so the last layer sends nothing.
TrafficInit ==
    /\ phase \in {p \in Phases : \A l \in p.layers : l > p.layer}
    /\ mapping \in Mappings
    /\ metrics \in [Layers -> [output_activation : Outputs, num_weights : Weights]]
    /\ todo = phase.layers
    /\ traffic = <<>>

\* int(total * (percentage / 100.0)). The percentage, a quotient of the mapper or
\* what such quotients leave of 100, is rounded, and so are its hundredth and the
\* product. That tells only where the product is a whole number, which the float
\* may fall just short of: any other product is at least 1/WholeLayer away from
\* one. A layer on a single chiplet has exactly 100 per cent.
ScaledTotal(total, share) ==
    LET exact == (total * share) \div WholeLayer
    IN  IF (total * share) % WholeLayer = 0 /\ share # WholeLayer /\ exact > 0
        THEN {exact, exact - 1} ELSE {exact}

\* The parts of a total that the chiplets with these shares may get
Shares(total, portions) ==
    LET chiplets == DOMAIN portions
    IN  {part \in [chiplets -> UNION {ScaledTotal(total, portions[c]) : c \in chiplets}] :
           \A c \in chiplets : part[c] \in ScaledTotal(total, portions[c])}

AtLeastOne(n) == IF n < 1 THEN 1 ELSE n

\* Mutant: later traffic replaces earlier traffic.
MergeLast(t, u) == [p \in DOMAIN t \cup DOMAIN u |-> IF p \in DOMAIN u THEN u[p] ELSE t[p]]

\* Traffic to a destination already in the dictionary is added up.
Merge(t, u) ==
    LET amount(m, p) == IF p \in DOMAIN m THEN m[p] ELSE 0
    IN  [p \in DOMAIN t \cup DOMAIN u |-> amount(t, p) + amount(u, p)]

TotalPackets(l) ==
    AtLeastOne((metrics[l].output_activation * bits_per_activation) \div bits_per_packet)

\* Mutant: a share that rounds to nothing is not sent.
AmountUnbounded(packets) == packets

\* A share that rounds to nothing is still one packet.
Amount(packets) == AtLeastOne(packets)

\* calculate_activation_traffic for one receiving layer: every chiplet of the
\* layer sends its share of the output to every other chiplet of the receiver.
SendTo(l) ==
    LET senders == mapping[phase.layer]
        pairs   == {p \in (DOMAIN senders) \X (DOMAIN mapping[l]) : p[1] # p[2]}
    IN  /\ phase.kind = "activation" /\ l \in todo
        /\ \E share \in Shares(TotalPackets(phase.layer), senders) :
             traffic' = Merge(traffic, [p \in pairs |-> Amount(share[p[1]])])
        /\ todo' = todo \ {l}
        /\ UNCHANGED <<phase, mapping, metrics>>

Reachable(chiplet) == {i \in DOMAIN io_chiplet_ids : PathLength[<<io_chiplet_ids[i], chiplet>>] # -1}

\* System.get_io_chiplet_for_compute: the first of the closest, if any
ClosestIo(chiplet) ==
    LET length(i) == PathLength[<<io_chiplet_ids[i], chiplet>>]
    IN  {io_chiplet_ids[i] : i \in {j \in Reachable(chiplet) :
           \A k \in Reachable(chiplet) : length(j) < length(k) \/ (length(j) = length(k) /\ j <= k)}}

\* _calculate_single_layer_weight_traffic, merged into the traffic of the phase.
\* A chiplet whose share has no whole weight is left out.
LoadWeights(l) ==
    LET shares == mapping[l]
        total  == metrics[l].num_weights
    IN  /\ phase.kind = "weights" /\ l \in todo
        /\ \E weights \in Shares(total, shares) :
             LET loaded == {c \in DOMAIN shares : weights[c] > 0}
                 pairs  == UNION {ClosestIo(c) \X {c} : c \in loaded}
             IN traffic' = Merge(traffic,
                   [p \in pairs |->
                      AtLeastOne((weights[p[2]] * bits_per_weight[p[2]]) \div bits_per_packet)])
        /\ todo' = todo \ {l}
        /\ UNCHANGED <<phase, mapping, metrics>>

Done == todo = {} /\ UNCHANGED trafficVars

TrafficNext == (\E l \in todo : SendTo(l) \/ LoadWeights(l)) \/ Done

TrafficSpec == TrafficInit /\ [][TrafficNext]_trafficVars

-----------------------------------------------------------------------------
(* Properties *)

Hosts(c) == {l \in phase.layers : c \in DOMAIN mapping[l]}
Packets(S) == SumFunctionOnSet(traffic, S \cap DOMAIN traffic)

\* A weight loading phase carries the weights of all its layers: what a chiplet
\* receives, from all I/O chiplets together, differs from its share by at most
\* one weight and one packet for each layer. Rounding is not compounded and no
\* layer's traffic replaces another's.
WeightsArriveInFull ==
    phase.kind = "weights" /\ todo = {} =>
      \A c \in DOMAIN bits_per_weight :
        LET share == SumFunction([l \in Hosts(c) |->
                                    metrics[l].num_weights * mapping[l][c] * bits_per_weight[c]])
            slack == WholeLayer * (bits_per_packet + bits_per_weight[c]) * Cardinality(Hosts(c))
            sent  == WholeLayer * bits_per_packet * Packets({p \in DOMAIN traffic : p[2] = c})
        IN  share - slack <= sent /\ sent <= share + slack

\* An activation phase sends the share of every chiplet of the layer once for
\* each receiving layer on every other chiplet, to within a packet, and always
\* at least one packet: a pair without any would start computing on nothing.
ActivationsArriveInFull ==
    phase.kind = "activation" /\ todo = {} =>
      \A s \in DOMAIN mapping[phase.layer] : \A c \in DOMAIN bits_per_weight \ {s} :
        LET share == mapping[phase.layer][s] * TotalPackets(phase.layer) * Cardinality(Hosts(c))
            slack == WholeLayer * Cardinality(Hosts(c))
            sent  == Packets({<<s, c>>})
        IN  /\ share - slack <= WholeLayer * sent /\ WholeLayer * sent <= share + slack
            /\ sent >= Cardinality(Hosts(c))
=============================================================================
