---------------------------- MODULE GarnetProofs ----------------------------
(***************************************************************************)
(* Flow control of the network, proved for every topology, routing table,  *)
(* trace and order of wakeups: both ends of a link agree on its virtual    *)
(* channel, no wakeup is lost, and flits are delivered as GarnetDelivery   *)
(* says. None of that depends on the link weights: routes may be any that  *)
(* end at the interface a flit is for. What the weights are for, XY order, *)
(* is proved at the end, for meshes of every size.                         *)
(***************************************************************************)
EXTENDS Garnet, SumTheorems

-----------------------------------------------------------------------------
(* The inductive invariant. *)

\* A flit for another interface never enters the channel to this one.
MayEnter(f, c) == \A n \in NIs : c = EjectChannel(n) => n = DestOf(f)

\* Where a flit can be: it takes part if its line has that many flits, only
\* routers buffer, and the way to an interface is only taken to the right one.
OnItsWay ==
    \A f \in Flits :
      /\ at[f][1] = "absent" <=> ~InTrace(f)
      /\ at[f][1] \in {"queue", "link"} => MayEnter(f, at[f][2])
      /\ at[f][1] = "buffer" => /\ \E r \in Routers : Down(at[f][2]) = RouterNode(r)
                                /\ MayEnter(f, outport[at[f][2]])
      /\ at[f][1] = "received" => at[f][2] = EjectChannel(DestOf(f))

IInv ==
    /\ TypeOK
    /\ OneTokenPerVc
    /\ VcFollowsBuffer
    /\ OnItsWay
    /\ NoLostWakeup

-----------------------------------------------------------------------------
(* The topology. *)

\* An interface hangs off one of the routers.
LEMMA RouterOfRange ==
    ASSUME NEW n \in NIs
    PROVE  RouterOf(n) \in Routers
BY TopologyAssumption DEF RouterOf, NIs, Routers

\* The channel to and from an interface, and their ends.
LEMMA InterfaceChannels ==
    ASSUME NEW n \in NIs
    PROVE  /\ InjectChannel(n) \in Channels
           /\ EjectChannel(n) \in Channels
           /\ Up(InjectChannel(n)) = NINode(n)
           /\ Down(EjectChannel(n)) = NINode(n)
           /\ InjectChannel(n) # EjectChannel(n)
BY DEF InjectChannel, EjectChannel, Channels, Up, Down, NINode, RouterNode

\* Channels end in endpoints, and an interface has one channel either way.
LEMMA ChannelEnds ==
    ASSUME NEW c \in Channels
    PROVE  /\ Up(c) \in Endpoints
           /\ Down(c) \in Endpoints
           /\ \A n \in NIs : Up(c) = NINode(n) => c = InjectChannel(n)
           /\ \A n \in NIs : Down(c) = NINode(n) => c = EjectChannel(n)
           /\ c # NoPort
<1>1. CASE \E n \in NIs : c = InjectChannel(n)
  BY <1>1, RouterOfRange
  DEF InjectChannel, EjectChannel, Up, Down, NINode, RouterNode, Endpoints, NoPort
<1>2. CASE \E n \in NIs : c = EjectChannel(n)
  BY <1>2, RouterOfRange
  DEF InjectChannel, EjectChannel, Up, Down, NINode, RouterNode, Endpoints, NoPort
<1>3. CASE \E l \in Connections : c = LinkChannel(l)
  BY <1>3, TopologyAssumption
  DEF LinkChannel, Up, Down, NINode, RouterNode, Endpoints, NoPort, Routers
<1>4. QED
  BY <1>1, <1>2, <1>3 DEF Channels

\* Consumers of different kinds are different.
LEMMA ConsumersDiffer ==
    /\ \A n \in NIs, r \in Routers : NINode(n) # RouterNode(r)
    /\ \A n, k \in NIs : NINode(n) = NINode(k) => n = k
    /\ \A x \in Endpoints, c \in Channels : x # FlitLink(c) /\ x # CreditLinkOf(c)
    /\ \A c, d \in Channels : FlitLink(c) # CreditLinkOf(d)
    /\ \A c, d \in Channels : FlitLink(c) = FlitLink(d) => c = d
    /\ \A c, d \in Channels : CreditLinkOf(c) = CreditLinkOf(d) => c = d
BY DEF NINode, RouterNode, FlitLink, CreditLinkOf, Endpoints

\* The routing table of a router leads to no interface but the flit's own.
LEMMA CandidatesMayEnter ==
    ASSUME NEW r \in Routers, NEW f \in Flits, NEW c \in Candidates(r, DestOf(f))
    PROVE  MayEnter(f, c)
<1> SUFFICES ASSUME NEW n \in NIs, c = EjectChannel(n) PROVE n = DestOf(f)
  BY DEF MayEnter
<1>1. CASE RouterOf(DestOf(f)) = r
  <2>1. c = EjectChannel(DestOf(f))
    BY <1>1 DEF Candidates
  <2>2. QED
    BY <2>1 DEF EjectChannel, NINode
<1>2. CASE RouterOf(DestOf(f)) # r
  <2>1. PICK j \in Routers : c = LinkChannel(<<r, j>>)
    BY <1>2 DEF Candidates
  <2>2. QED
    BY <2>1 DEF LinkChannel, EjectChannel, NINode, RouterNode
<1>3. QED
  BY <1>1, <1>2

\* A place is a stage and a channel.
LEMMA PlaceOf ==
    ASSUME TypeOK, NEW f \in Flits
    PROVE  /\ at[f] = <<at[f][1], at[f][2]>>
           /\ at[f][1] \in {"absent", "waiting", "queue", "link", "buffer", "received"}
           /\ at[f][1] \in {"queue", "link", "buffer", "received"} => at[f][2] \in Channels
BY DEF TypeOK, Places, Stages

\* An interface with waiting flits has one to inject next: the records take
\* turns, so it is the first record among those with the lowest flit number.
LEMMA FrontFlitWaits ==
    ASSUME NEW n \in NIs, Waiting(n) # {}
    PROVE  FrontFlit(n) \in Waiting(n)
<1> DEFINE W == Waiting(n)
           T == {f[2] : f \in W}
<1>1. \A f \in W : f \in Flits /\ f[1] \in Nat /\ f[2] \in Nat
  BY GarnetAssumption DEF Waiting, Flits
<1>2. PICK x \in T : \A y \in T : x <= y
  <2>1. T \in SUBSET Nat /\ T # {}
    BY <1>1
  <2> HIDE DEF T
  <2>2. QED
    BY <2>1, LeastElement
<1> DEFINE U == {f[1] : f \in {g \in W : g[2] = x}}
<1>3. PICK u \in U : \A y \in U : u <= y
  <2>1. U \in SUBSET Nat /\ U # {}
    BY <1>1
  <2> HIDE DEF U
  <2>2. QED
    BY <2>1, LeastElement
<1>4. PICK f \in W : f[2] = x /\ f[1] = u
  OBVIOUS
<1>5. \A g \in W : Before(f, g)
  BY <1>1, <1>2, <1>3, <1>4 DEF Before
<1>6. QED
  BY <1>4, <1>5 DEF FrontFlit

-----------------------------------------------------------------------------
(* The steps. *)

\* Nothing is under way when the trace is handed to the interfaces.
LEMMA InitIInv == Init => IInv
<1> SUFFICES ASSUME Init PROVE IInv
  OBVIOUS
<1>1. trace \in [1 .. MaxRecords -> Record]
  BY GarnetAssumption DEF Init
<1>2. ASSUME NEW f \in Flits PROVE SourceOf(f) \in NIs
  BY <1>1 DEF Flits, SourceOf, Record
<1>3. ASSUME NEW f \in Flits
      PROVE  /\ at[f] = <<IF InTrace(f) THEN "waiting" ELSE "absent", Nowhere>>
             /\ at[f][1] = IF InTrace(f) THEN "waiting" ELSE "absent"
  BY DEF Init
<1>4. TypeOK
  <2>1. at \in [Flits -> Places]
    BY DEF Init, Places
  <2>2. due \subseteq Consumers
    BY <1>2 DEF Init, Consumers, Endpoints
  <2>3. QED
    BY <2>1, <2>2 DEF Init, TypeOK
<1>5. OneTokenPerVc
  <2>1. \A c \in Channels : Holders(c) = {}
    BY <1>3 DEF Holders, Stages
  <2>2. QED
    BY <2>1 DEF Init, OneTokenPerVc, OneToken
<1>6. VcFollowsBuffer
  BY <1>3 DEF Init, VcFollowsBuffer, In
<1>7. OnItsWay
  BY <1>3 DEF OnItsWay
<1>8. NoLostWakeup
  BY <1>3 DEF Init, NoLostWakeup, FlitAwaited, CreditsAwaited, Scheduled
<1>9. QED
  BY <1>4, <1>5, <1>6, <1>7, <1>8 DEF IInv

\* A wakeup of an interface: injecting takes the idle VC of its channel, a
\* received flit leaves a credit behind, a credit frees the VC, and whatever is
\* left to do keeps the interface or a link scheduled.
LEMMA InterfaceStep ==
    ASSUME IInv, NEW n \in NIs, NetworkInterfaceWakeup(n)
    PROVE  IInv'
<1> DEFINE out == InjectChannel(n)
           in == EjectChannel(n)
           injected == Injected(n)
           credited == creditLink[out] > 0
<1>1. PICK received \in SUBSET In("link", in) :
        /\ (received = {} /\ In("link", in) = {}) \/ \E f \in Flits : received = {f}
        /\ at' = [f \in Flits |-> CASE f \in injected -> <<"queue", out>>
                                    [] f \in received -> <<"received", in>>
                                    [] OTHER -> at[f]]
        /\ creditQueue' = [creditQueue EXCEPT ![in] = @ + (IF received = {} THEN 0 ELSE 1)]
        /\ status' = CASE BusyCount(n) > Threshold -> "panicked"
                       [] received # {} /\ AllReceived(received) -> "complete"
                       [] OTHER -> status
        /\ next' = next
             \cup {FlitLink(out) : f \in injected}
             \cup (IF creditQueue'[in] > 0 THEN {CreditLinkOf(in)} ELSE {})
             \cup (IF NIReschedules(n, injected) \/ In("link", in) # received
                   THEN {NINode(n)} ELSE {})
  BY DEF NetworkInterfaceWakeup
<1>2. /\ outVc' = [outVc EXCEPT ![out] = CASE credited -> "IDLE"
                                           [] ~credited /\ injected # {} -> "ACTIVE"
                                           [] OTHER -> @]
      /\ credits' = [credits EXCEPT ![out] =
                       @ - (IF injected = {} THEN 0 ELSE 1) + (IF credited THEN 1 ELSE 0)]
      /\ creditLink' = [creditLink EXCEPT ![out] = @ - (IF credited THEN 1 ELSE 0)]
      /\ busy' = [busy EXCEPT ![n] = BusyCount(n)]
      /\ due' = due \ {NINode(n)}
      /\ trace' = trace /\ outport' = outport /\ status = "running"
  BY DEF NetworkInterfaceWakeup, Wake
<1>3. out \in Channels /\ in \in Channels /\ out # in
  BY InterfaceChannels
<1>4. injected = {} \/ \E f \in Waiting(n) : injected = {f} /\ FreeVc(out)
  BY FrontFlitWaits DEF Injected
<1>5. \A f \in injected : f \in Flits /\ at[f][1] = "waiting" /\ SourceOf(f) = n
  BY <1>4 DEF Waiting
<1>6. \A f \in received : f \in Flits /\ at[f] = <<"link", in>>
  BY DEF In
<1>7. TypeOK /\ OneTokenPerVc /\ VcFollowsBuffer /\ OnItsWay /\ NoLostWakeup
  BY DEF IInv
<1> HIDE DEF injected, out, in
<1>8. TypeOK'
  <2>1. at' \in [Flits -> Places]
    <3>1. \A f \in Flits : at[f] \in Places
      BY <1>7 DEF TypeOK
    <3>2. <<"queue", out>> \in Places /\ <<"received", in>> \in Places
      BY <1>3 DEF Places, Stages
    <3>3. QED
      BY <1>1, <3>1, <3>2
  <2>2. BusyCount(n) \in Nat
    BY <1>7 DEF BusyCount, TypeOK
  <2>3. next' \subseteq Consumers /\ due' \subseteq Consumers
    BY <1>1, <1>2, <1>3, <1>7 DEF TypeOK, Consumers, Endpoints, Links
  <2>4. QED
    BY <1>1, <1>2, <1>3, <1>7, <2>1, <2>2, <2>3 DEF TypeOK
<1>9. ASSUME NEW f \in Flits
       PROVE  /\ f \in injected => at'[f][1] = "queue" /\ at'[f][2] = out /\ at[f][1] = "waiting"
              /\ f \in received => /\ at'[f][1] = "received" /\ at'[f][2] = in
                                   /\ at[f] = <<"link", in>> /\ f \notin injected
              /\ f \notin injected \cup received => at'[f] = at[f]
  BY <1>1, <1>5, <1>6
<1>10. ASSUME NEW c \in Channels
      PROVE  Holders(c)' = IF c = out THEN Holders(c) \cup injected
                           ELSE IF c = in THEN Holders(c) \ received ELSE Holders(c)
  <2>1. injected \subseteq Flits /\ received \subseteq Flits
    BY <1>5, <1>6
  <2>2. ASSUME NEW f \in Flits
        PROVE  f \in Holders(c)' <=>
                 f \in (IF c = out THEN Holders(c) \cup injected
                        ELSE IF c = in THEN Holders(c) \ received ELSE Holders(c))
    BY <1>3, <1>9 DEF Holders, Stages
  <2>3. Holders(c)' \subseteq Flits /\ Holders(c) \subseteq Flits
    BY DEF Holders
  <2>4. QED
    BY <2>1, <2>2, <2>3
<1>11. ASSUME NEW c \in Channels PROVE OneToken(c)'
  <2> USE <1>1, <1>2, <1>3 DEF OneToken
  <2>0. OneToken(c)
    BY <1>7 DEF OneTokenPerVc
  <2>1. CASE c # out /\ c # in
    BY <1>10, <2>0, <2>1
  <2>2. CASE c = out /\ credited
    <3>1. creditLink[c] = 1 /\ creditQueue[c] = 0 /\ outVc[c] = "ACTIVE" /\ Holders(c) = {}
      BY <1>7, <2>0, <2>2 DEF TypeOK
    <3>2. injected = {}
      BY <1>4, <2>2, <3>1 DEF FreeVc
    <3>3. QED
      BY <1>7, <1>10, <2>0, <2>2, <3>1, <3>2 DEF TypeOK
  <2>3. CASE c = out /\ ~credited /\ injected # {}
    <3>1. outVc[c] = "IDLE"
      BY <1>4, <2>3 DEF FreeVc
    <3>2. \E f \in Flits : injected = {f}
      BY <1>4, <1>5, <2>3
    <3>3. /\ credits[c] = 1 /\ creditQueue[c] + creditLink[c] = 0 /\ Holders(c) = {}
      BY <2>0, <3>1
    <3>4. Holders(c)' = injected
      BY <1>10, <2>3, <3>3
    <3>5. outVc'[c] = "ACTIVE" /\ credits'[c] = 0 /\ creditQueue'[c] + creditLink'[c] = 0
      BY <1>7, <2>3, <3>3 DEF TypeOK
    <3>6. QED
      BY <3>2, <3>4, <3>5
  <2>4. CASE c = out /\ ~credited /\ injected = {}
    BY <1>7, <1>10, <2>0, <2>4 DEF TypeOK
  <2>5. CASE c = in /\ received = {}
    BY <1>7, <1>10, <2>0, <2>5 DEF TypeOK
  <2>6. CASE c = in /\ received # {}
    <3>1. PICK f \in Flits : received = {f}
      BY <2>6
    <3>2. f \in Holders(c)
      BY <1>6, <2>6, <3>1 DEF Holders, Stages
    <3>3. QED
      BY <1>7, <1>10, <2>0, <2>6, <3>1, <3>2 DEF TypeOK
  <2>7. QED
    BY <2>1, <2>2, <2>3, <2>4, <2>5, <2>6
<1>12. VcFollowsBuffer'
  <2>1. \A c \in Channels : In("buffer", c)' = In("buffer", c)
    BY <1>1, <1>5, <1>6, SMTT(40) DEF In
  <2>2. QED
    BY <1>2, <1>7, <2>1 DEF VcFollowsBuffer
<1>13. OnItsWay'
  <2>1. \A f \in Flits : DestOf(f)' = DestOf(f) /\ InTrace(f)' = InTrace(f)
    BY <1>2 DEF DestOf, InTrace
  <2>2. ASSUME NEW f \in injected PROVE MayEnter(f, out)'
    BY DEF MayEnter, out, InjectChannel, EjectChannel, NINode, RouterNode
  <2>3. ASSUME NEW f \in received PROVE in = EjectChannel(DestOf(f))
    BY <1>6, <1>7 DEF OnItsWay, MayEnter, in
  <2>4. QED
    BY <1>2, <1>5, <1>6, <1>7, <1>9, <2>1, <2>2, <2>3 DEF OnItsWay, MayEnter
<1>14. NoLostWakeup'
  <2> SUFFICES ASSUME status' = "running"
               PROVE  /\ \A f \in Flits : FlitAwaited(f)'
                      /\ \A c \in Channels : CreditsAwaited(c)'
    BY DEF NoLostWakeup
  <2>1. \A x \in Scheduled : x # NINode(n) => x \in Scheduled'
    BY <1>1, <1>2 DEF Scheduled
  <2>2. ASSUME NEW f \in Flits PROVE FlitAwaited(f)'
    <3> USE DEF FlitAwaited
    <3>1. FlitAwaited(f) /\ SourceOf(f)' = SourceOf(f)
      BY <1>2, <1>7 DEF NoLostWakeup, SourceOf
    <3>2. CASE f \in injected
      <4>1. FlitLink(out) \in Scheduled'
        BY <1>1, <3>2 DEF Scheduled
      <4>2. QED
        BY <1>1, <3>2, <4>1
    <3>3. CASE f \in received
      BY <1>5, <1>6, <1>9, <3>3
    <3>4. CASE f \notin injected \cup received
      <4>0. at'[f] = at[f]
        BY <1>9, <3>4
      <4>1. CASE at[f][1] = "waiting" /\ SourceOf(f) = n
        <5>1. Waiting(n) # injected
          BY <3>4, <4>1 DEF Waiting
        <5>2. NINode(n) \in Scheduled'
          BY <1>1, <5>1 DEF NIReschedules, Scheduled
        <5>3. QED
          BY <3>1, <4>0, <4>1, <5>2
      <4>2. CASE at[f][1] = "waiting" /\ SourceOf(f) # n
        BY <2>1, <3>1, <4>0, <4>2 DEF NINode
      <4>3. CASE at[f][1] = "queue"
        BY <2>1, <3>1, <4>0, <4>3 DEF NINode, FlitLink
      <4>4. CASE at[f][1] \in {"link", "buffer"} /\ Down(at[f][2]) = NINode(n)
        <5>1. at[f][2] = in
          BY <1>7, <4>4, PlaceOf, ChannelEnds DEF in
        <5>2. at[f][1] = "link"
          BY <1>7, <4>4, ConsumersDiffer DEF OnItsWay
        <5>3. f \in In("link", in)
          BY <1>7, <5>1, <5>2, PlaceOf DEF In
        <5>4. NINode(n) \in Scheduled'
          BY <1>1, <3>4, <5>3 DEF Scheduled
        <5>5. QED
          BY <3>1, <4>0, <4>4, <5>4
      <4>5. CASE at[f][1] \in {"link", "buffer"} /\ Down(at[f][2]) # NINode(n)
        BY <2>1, <3>1, <4>0, <4>5
      <4>6. CASE at[f][1] \notin {"waiting", "queue", "link", "buffer"}
        BY <4>0, <4>6
      <4>7. QED
        BY <4>1, <4>2, <4>3, <4>4, <4>5, <4>6
    <3>5. QED
      BY <3>2, <3>3, <3>4
  <2>3. ASSUME NEW c \in Channels PROVE CreditsAwaited(c)'
    <3>1. CreditsAwaited(c)
      BY <1>2, <1>7 DEF NoLostWakeup
    <3>2. ASSUME creditQueue'[c] > 0 PROVE CreditLinkOf(c) \in Scheduled'
      <4>1. CASE c = in
        BY <1>1, <3>2, <4>1 DEF Scheduled
      <4>2. CASE c # in
        BY <1>1, <1>7, <2>1, <3>1, <3>2, <4>2
        DEF CreditsAwaited, TypeOK, NINode, CreditLinkOf
      <4>3. QED
        BY <4>1, <4>2
    <3>3. ASSUME creditLink'[c] > 0 PROVE Up(c) \in Scheduled'
      <4>1. CASE c = out
        <5>1. creditLink[out] > 1
          BY <1>2, <1>7, <3>3, <4>1 DEF TypeOK
        <5>2. NINode(n) \in Scheduled'
          BY <1>1, <5>1 DEF NIReschedules, Scheduled, out
        <5>3. QED
          BY <4>1, <5>2, InterfaceChannels DEF out
      <4>2. CASE c # out
        <5>1. Up(c) # NINode(n)
          BY <4>2, ChannelEnds DEF out
        <5>2. creditLink[c] > 0
          BY <1>2, <1>7, <3>3, <4>2 DEF TypeOK
        <5>3. QED
          BY <2>1, <3>1, <5>1, <5>2 DEF CreditsAwaited
      <4>3. QED
        BY <4>1, <4>2
    <3>4. QED
      BY <3>2, <3>3 DEF CreditsAwaited
  <2>4. QED
    BY <2>2, <2>3
<1>15. QED
  BY <1>8, <1>11, <1>12, <1>13, <1>14 DEF IInv, OneTokenPerVc

\* A channel with a flit on it has no other flit and no credit on it, and its
\* sender knows.
LEMMA HolderIsAlone ==
    ASSUME IInv, NEW c \in Channels, NEW f \in Holders(c)
    PROVE  /\ Holders(c) = {f} /\ outVc[c] = "ACTIVE" /\ credits[c] = 0
           /\ creditQueue[c] = 0 /\ creditLink[c] = 0
<1>1. OneToken(c) /\ creditQueue[c] \in Nat /\ creditLink[c] \in Nat
  BY DEF IInv, OneTokenPerVc, TypeOK
<1>2. QED
  BY <1>1 DEF OneToken

\* A channel whose VC is free, or is being freed, has no flit on it.
LEMMA FreeIsEmpty ==
    ASSUME IInv, NEW c \in Channels, FreeVc(c) \/ creditLink[c] > 0
    PROVE  /\ Holders(c) = {} /\ creditQueue[c] = 0
           /\ creditLink[c] > 0 => creditLink[c] = 1 /\ credits[c] = 0
           /\ creditLink[c] = 0 => credits[c] = 1
<1>1. OneToken(c) /\ creditQueue[c] \in Nat /\ creditLink[c] \in Nat
  BY DEF IInv, OneTokenPerVc, TypeOK
<1>2. QED
  BY <1>1 DEF OneToken, FreeVc

\* A wakeup of a router: a winner takes the VC of its output, alone, and leaves
\* a credit behind; what loses waits in its own VC.
LEMMA RouterStep ==
    ASSUME IInv, NEW r \in Routers, RouterWakeup(r)
    PROVE  IInv'
<1>0. PICK arrived \in Arrivals(r) : \E route \in Routes(r, arrived) :
        \E winners \in Winners(Requests(r, PortOf(r, arrived, route)), PortOf(r, arrived, route)) :
           Forward(r, arrived, PortOf(r, arrived, route), winners)
  BY DEF RouterWakeup
<1>1. PICK route \in Routes(r, arrived) :
        \E winners \in Winners(Requests(r, PortOf(r, arrived, route)), PortOf(r, arrived, route)) :
           Forward(r, arrived, PortOf(r, arrived, route), winners)
  BY <1>0
<1> DEFINE port == PortOf(r, arrived, route)
<1>2. PICK winners \in Winners(Requests(r, port), port) : Forward(r, arrived, port, winners)
  BY <1>1
<1> DEFINE here == arrived \cup Buffered(r)
           left == {at[f][2] : f \in winners}
           used == {port[f] : f \in winners}
<1>3. TypeOK /\ OneTokenPerVc /\ VcFollowsBuffer /\ OnItsWay /\ NoLostWakeup
  BY DEF IInv
<1>4. /\ due' = due \ {RouterNode(r)} /\ status = "running"
      /\ trace' = trace /\ busy' = busy /\ status' = status
  BY DEF RouterWakeup, Wake
<1>5. ASSUME NEW f \in here
      PROVE  /\ f \in Flits /\ at[f][2] \in Channels /\ Down(at[f][2]) = RouterNode(r)
             /\ f \in Holders(at[f][2])
             /\ f \in arrived => at[f][1] = "link"
             /\ f \notin arrived => at[f][1] = "buffer"
  BY DEF Arrivals, Buffered, InChannels, Holders, Stages
<1>6. ASSUME NEW f \in here PROVE port[f] \in Channels /\ MayEnter(f, port[f])
  <2>1. CASE f \in arrived
    <3>1. port[f] = route[f] /\ route[f] \in OutChannels(r) /\ route[f] \in Candidates(r, DestOf(f))
      BY <2>1 DEF PortOf, Routes
    <3>2. QED
      BY <1>5, <3>1, CandidatesMayEnter DEF OutChannels
  <2>2. CASE f \notin arrived
    <3>1. port[f] = outport[at[f][2]]
      BY <2>2 DEF PortOf
    <3>2. f \in In("buffer", at[f][2])
      BY <1>3, <1>5, <2>2, PlaceOf DEF In
    <3>3. QED
      BY <1>3, <1>5, <2>2, <3>1, <3>2 DEF VcFollowsBuffer, OnItsWay, TypeOK
  <2>3. QED
    BY <2>1, <2>2
<1>7. /\ winners \subseteq here
      /\ \A f \in winners : FreeVc(port[f]) \/ port[f] \in Credited(r)
      /\ \A f, g \in winners : port[f] = port[g] => f = g
  BY DEF Winners, Requests, SendAllowed, PortOf
<1>8. ASSUME NEW c \in used
      PROVE  /\ c \in Channels /\ c \notin left /\ Holders(c) = {}
             /\ \E f \in winners : port[f] = c /\ f \in Flits
  BY <1>5, <1>6, <1>7, FreeIsEmpty DEF Credited
<1>9. ASSUME NEW c \in left
      PROVE  /\ c \in Channels /\ Down(c) = RouterNode(r)
             /\ \E f \in winners : at[f][2] = c /\ Holders(c) = {f}
  BY <1>5, <1>7, HolderIsAlone
<1>10. /\ at' = Traversed(winners, arrived, port)
       /\ outport' = [c \in Channels |->
                         CASE c \in left -> NoPort
                           [] \E f \in arrived \ winners : at[f][2] = c ->
                                port[CHOOSE f \in arrived \ winners : at[f][2] = c]
                           [] OTHER -> outport[c]]
       /\ outVc' = OutVcAfter(r, used)
       /\ credits' = [c \in Channels |->
                         credits[c] + (IF c \in Credited(r) THEN 1 ELSE 0)
                                    - (IF c \in used THEN 1 ELSE 0)]
       /\ creditLink' = [c \in Channels |->
                            creditLink[c] - (IF c \in Credited(r) THEN 1 ELSE 0)]
       /\ creditQueue' = [c \in Channels |->
                             creditQueue[c] + (IF c \in left THEN 1 ELSE 0)]
       /\ next' = next \cup {FlitLink(c) : c \in used}
                       \cup {CreditLinkOf(c) : c \in left}
                       \cup (IF RouterReschedules(r, arrived, here \ winners)
                             THEN {RouterNode(r)} ELSE {})
  BY <1>2 DEF Forward
<1> HIDE DEF port, here, left, used
<1>11. ASSUME NEW f \in Flits
       PROVE  /\ f \in winners => at'[f] = <<"queue", port[f]>>
              /\ f \in arrived \ winners => at'[f] = <<"buffer", at[f][2]>>
              /\ f \notin arrived \cup winners => at'[f] = at[f]
  BY <1>10 DEF Traversed
<1>12. ASSUME NEW c \in Channels
       PROVE  Holders(c)' = IF c \in used THEN {f \in winners : port[f] = c}
                            ELSE IF c \in left THEN {} ELSE Holders(c)
  <2>1. ASSUME NEW f \in Flits
        PROVE  f \in Holders(c)' <=>
                 \/ f \in winners /\ port[f] = c
                 \/ f \notin winners /\ f \in Holders(c)
    <3>1. CASE f \in winners
      BY <1>11, <3>1 DEF Holders, Stages
    <3>2. CASE f \in arrived \ winners
      <4>1. at'[f][1] = "buffer" /\ at'[f][2] = at[f][2]
        BY <1>11, <3>2
      <4>2. f \in Holders(at[f][2])
        BY <1>5, <3>2 DEF here
      <4>3. QED
        BY <3>2, <4>1, <4>2 DEF Holders, Stages
    <3>3. CASE f \notin arrived \cup winners
      BY <1>11, <3>3 DEF Holders
    <3>4. QED
      BY <3>1, <3>2, <3>3
  <2>2. Holders(c)' \subseteq Flits /\ Holders(c) \subseteq Flits /\ winners \subseteq Flits
    BY <1>5, <1>7 DEF Holders
  <2>3. CASE c \in used
    BY <1>8, <2>1, <2>2, <2>3
  <2>4. CASE c \notin used
    <3>1. \A f \in winners : port[f] # c
      BY <2>4 DEF used
    <3>2. CASE c \in left
      BY <1>9, <2>1, <2>2, <2>4, <3>1, <3>2
    <3>3. CASE c \notin left
      <4>1. \A f \in winners : f \notin Holders(c)
        BY <3>3 DEF left, Holders
      <4>2. QED
        BY <2>1, <2>2, <2>4, <3>1, <3>3, <4>1
    <3>4. QED
      BY <3>2, <3>3
  <2>5. QED
    BY <2>3, <2>4
<1>13. TypeOK'
  <2>1. at' \in [Flits -> Places]
    <3>1. ASSUME NEW f \in Flits PROVE at'[f] \in Places
      <4>1. CASE f \in winners
        <5>1. port[f] \in Channels /\ at'[f] = <<"queue", port[f]>>
          BY <1>6, <1>7, <1>11, <4>1
        <5>2. QED
          BY <5>1 DEF Places, Stages
      <4>2. CASE f \in arrived \ winners
        <5>1. at[f][2] \in Channels /\ at'[f] = <<"buffer", at[f][2]>>
          BY <1>5, <1>11, <4>2 DEF here
        <5>2. QED
          BY <5>1 DEF Places, Stages
      <4>3. CASE f \notin arrived \cup winners
        BY <1>3, <1>11, <4>3 DEF TypeOK
      <4>4. QED
        BY <4>1, <4>2, <4>3
    <3>2. at' = [f \in Flits |-> at'[f]]
      BY <1>10 DEF Traversed
    <3>3. QED
      BY <3>1, <3>2
  <2>2. outport' \in [Channels -> Channels \cup {NoPort}]
    <3>1. \A c \in Channels : (\E f \in arrived \ winners : at[f][2] = c) =>
             port[CHOOSE f \in arrived \ winners : at[f][2] = c] \in Channels
      BY <1>6 DEF here
    <3>2. QED
      BY <1>3, <1>10, <3>1 DEF TypeOK
  <2>3. outVc' \in [Channels -> {"IDLE", "ACTIVE"}]
    BY <1>3, <1>10 DEF OutVcAfter, TypeOK
  <2>4. /\ credits' \in [Channels -> Int] /\ creditQueue' \in [Channels -> Nat]
        /\ creditLink' \in [Channels -> Nat]
    BY <1>3, <1>10 DEF TypeOK, Credited
  <2>5. next' \subseteq Consumers /\ due' \subseteq Consumers
    BY <1>3, <1>4, <1>8, <1>9, <1>10 DEF TypeOK, Consumers, Endpoints, Links
  <2>6. QED
    BY <1>3, <1>4, <2>1, <2>2, <2>3, <2>4, <2>5 DEF TypeOK
<1>14. ASSUME NEW c \in Channels PROVE OneToken(c)'
  <2>0. OneToken(c) /\ creditQueue[c] \in Nat /\ creditLink[c] \in Nat /\ credits[c] \in Int
    BY <1>3 DEF OneTokenPerVc, TypeOK
  <2>1. c \in Credited(r) => creditLink[c] > 0
    BY DEF Credited
  <2>2. CASE c \in used
    <3>1. PICK f \in winners : port[f] = c /\ f \in Flits
      BY <1>8, <2>2
    <3>2. Holders(c)' = {f}
      BY <1>7, <1>12, <2>2, <3>1
    <3>3. CASE FreeVc(c)
      <4>1. /\ creditLink[c] = 0 /\ creditQueue[c] = 0 /\ credits[c] = 1 /\ c \notin Credited(r)
        BY <2>0, <2>1, <3>3 DEF OneToken, FreeVc
      <4>2. /\ outVc'[c] = "ACTIVE" /\ credits'[c] = 0
            /\ creditLink'[c] = 0 /\ creditQueue'[c] = 0
        BY <1>8, <1>10, <2>2, <4>1 DEF OutVcAfter
      <4>3. QED
        BY <3>1, <3>2, <4>2 DEF OneToken
    <3>4. CASE c \in Credited(r)
      <4>1. /\ creditLink[c] = 1 /\ creditQueue[c] = 0 /\ credits[c] = 0
        BY <2>0, <2>1, <3>4 DEF OneToken
      <4>2. /\ outVc'[c] = "ACTIVE" /\ credits'[c] = 0
            /\ creditLink'[c] = 0 /\ creditQueue'[c] = 0
        BY <1>8, <1>10, <2>2, <3>4, <4>1 DEF OutVcAfter
      <4>3. QED
        BY <3>1, <3>2, <4>2 DEF OneToken
    <3>5. QED
      BY <1>7, <3>1, <3>3, <3>4
  <2>3. CASE c \in left
    <3>1. PICK f \in winners : at[f][2] = c /\ Holders(c) = {f}
      BY <1>9, <2>3
    <3>2. c \notin used
      BY <1>8, <2>3
    <3>3. /\ outVc[c] = "ACTIVE" /\ credits[c] = 0 /\ creditQueue[c] = 0 /\ creditLink[c] = 0
      BY <3>1, HolderIsAlone
    <3>4. /\ outVc'[c] = "ACTIVE" /\ credits'[c] = 0
          /\ creditLink'[c] = 0 /\ creditQueue'[c] = 1
      BY <1>10, <2>1, <2>3, <3>2, <3>3 DEF OutVcAfter
    <3>5. Holders(c)' = {}
      BY <1>12, <2>3, <3>2
    <3>6. QED
      BY <3>4, <3>5 DEF OneToken
  <2>4. CASE c \notin used \cup left /\ c \in Credited(r)
    <3>1. /\ creditLink[c] = 1 /\ creditQueue[c] = 0 /\ credits[c] = 0 /\ Holders(c) = {}
      BY <2>0, <2>1, <2>4 DEF OneToken
    <3>2. /\ outVc'[c] = "IDLE" /\ credits'[c] = 1
          /\ creditLink'[c] = 0 /\ creditQueue'[c] = 0
      BY <1>10, <2>4, <3>1 DEF OutVcAfter
    <3>3. Holders(c)' = {}
      BY <1>12, <2>4, <3>1
    <3>4. QED
      BY <3>2, <3>3 DEF OneToken
  <2>5. CASE c \notin used \cup left /\ c \notin Credited(r)
    <3>1. /\ outVc'[c] = outVc[c] /\ credits'[c] = credits[c]
          /\ creditLink'[c] = creditLink[c] /\ creditQueue'[c] = creditQueue[c]
      BY <1>10, <2>0, <2>5 DEF OutVcAfter
    <3>2. Holders(c)' = Holders(c)
      BY <1>12, <2>5
    <3>3. QED
      BY <2>0, <3>1, <3>2 DEF OneToken
  <2>6. QED
    BY <2>2, <2>3, <2>4, <2>5
<1>15. ASSUME NEW f \in arrived \ winners
       PROVE  /\ at[f][2] \notin left
              /\ outport'[at[f][2]] = port[f] /\ port[f] \in Channels
  <2>1. Holders(at[f][2]) = {f} /\ at[f][2] \in Channels
    BY <1>5, HolderIsAlone DEF here
  <2>2. at[f][2] \notin left
    BY <1>9, <2>1
  <2>3. \A g \in arrived \ winners : at[g][2] = at[f][2] => g = f
    BY <1>5, <2>1 DEF here
  <2>4. (CHOOSE g \in arrived \ winners : at[g][2] = at[f][2]) = f
    BY <2>3
  <2>5. QED
    BY <1>6, <1>10, <2>1, <2>2, <2>4 DEF here
<1>16. ASSUME NEW f \in Flits, at[f][1] = "buffer", f \notin winners
       PROVE  outport'[at[f][2]] = outport[at[f][2]] /\ at'[f] = at[f] /\ at[f][2] \notin left
  <2>1. at[f][2] \in Channels /\ f \in Holders(at[f][2])
    BY <1>3, <1>16, PlaceOf DEF Holders, Stages
  <2>2. Holders(at[f][2]) = {f}
    BY <2>1, HolderIsAlone
  <2>3. at[f][2] \notin left
    BY <1>9, <1>16, <2>2
  <2>4. f \notin arrived
    BY <1>5, <1>16 DEF here
  <2>5. \A g \in arrived \ winners : at[g][2] # at[f][2]
    BY <1>5, <2>2, <2>4 DEF here
  <2>6. QED
    BY <1>10, <1>11, <1>16, <2>1, <2>3, <2>4, <2>5
<1>17. VcFollowsBuffer'
  <2> SUFFICES ASSUME NEW c \in Channels
               PROVE  outport'[c] = NoPort <=> In("buffer", c)' = {}
    BY DEF VcFollowsBuffer
  <2>1. CASE c \in left
    <3>1. outport'[c] = NoPort
      <4>1. ~\E f \in arrived \ winners : at[f][2] = c
        BY <1>15, <2>1
      <4>2. QED
        BY <1>10, <2>1, <4>1
    <3>2. Holders(c)' = {}
      BY <1>8, <1>12, <2>1
    <3>3. In("buffer", c)' = {}
      <4>1. \A f \in Flits : at'[f] = <<"buffer", c>> => f \in Holders(c)'
        BY DEF Holders, Stages
      <4>2. QED
        BY <3>2, <4>1 DEF In
    <3>4. QED
      BY <3>1, <3>3
  <2>2. CASE \E f \in arrived \ winners : at[f][2] = c
    <3>1. PICK f \in arrived \ winners : at[f][2] = c
      BY <2>2
    <3>2. outport'[c] # NoPort
      BY <1>15, <3>1, ChannelEnds
    <3>3. f \in Flits /\ at'[f] = <<"buffer", c>>
      BY <1>5, <1>11, <3>1 DEF here
    <3>4. QED
      BY <3>2, <3>3 DEF In
  <2>3. CASE c \notin left /\ ~\E f \in arrived \ winners : at[f][2] = c
    <3>1. outport'[c] = outport[c]
      BY <1>10, <2>3
    <3>2. ASSUME NEW f \in Flits PROVE at'[f] = <<"buffer", c>> <=> at[f] = <<"buffer", c>>
      <4>1. CASE f \in winners
        BY <1>11, <2>3, <4>1 DEF left
      <4>2. CASE f \in arrived \ winners
        BY <1>11, <2>3, <4>2
      <4>3. CASE f \notin arrived \cup winners
        BY <1>11, <4>3
      <4>4. QED
        BY <4>1, <4>2, <4>3
    <3>3. In("buffer", c)' = In("buffer", c)
      BY <3>2 DEF In
    <3>4. QED
      BY <1>3, <3>1, <3>3 DEF VcFollowsBuffer
  <2>4. QED
    BY <2>1, <2>2, <2>3
<1>18. OnItsWay'
  <2>1. \A f \in Flits : /\ InTrace(f)' = InTrace(f) /\ DestOf(f)' = DestOf(f)
                         /\ \A c : MayEnter(f, c)' = MayEnter(f, c)
    BY <1>4 DEF InTrace, DestOf, MayEnter
  <2> SUFFICES ASSUME NEW f \in Flits
               PROVE  /\ at'[f][1] = "absent" <=> ~InTrace(f)
                      /\ at'[f][1] \in {"queue", "link"} => MayEnter(f, at'[f][2])
                      /\ at'[f][1] = "buffer" => /\ \E q \in Routers : Down(at'[f][2]) = RouterNode(q)
                                                 /\ MayEnter(f, outport'[at'[f][2]])
                      /\ at'[f][1] = "received" => at'[f][2] = EjectChannel(DestOf(f))
    BY <2>1 DEF OnItsWay, MayEnter, DestOf
  <2>2. CASE f \in winners
    BY <1>3, <1>5, <1>6, <1>7, <1>11, <2>2 DEF OnItsWay
  <2>3. CASE f \in arrived \ winners
    BY <1>3, <1>5, <1>6, <1>11, <1>15, <2>3 DEF OnItsWay, here
  <2>4. CASE f \notin arrived \cup winners
    BY <1>3, <1>11, <1>16, <2>4 DEF OnItsWay
  <2>5. QED
    BY <2>2, <2>3, <2>4
<1>19. NoLostWakeup'
  <2> SUFFICES /\ \A f \in Flits : FlitAwaited(f)'
               /\ \A c \in Channels : CreditsAwaited(c)'
    BY DEF NoLostWakeup
  <2>1. \A x \in Scheduled : x # RouterNode(r) => x \in Scheduled'
    BY <1>4, <1>10 DEF Scheduled
  <2>2. RouterReschedules(r, arrived, here \ winners) => RouterNode(r) \in Scheduled'
    BY <1>10 DEF Scheduled
  <2>3. ASSUME NEW f \in Flits PROVE FlitAwaited(f)'
    <3>1. FlitAwaited(f) /\ SourceOf(f)' = SourceOf(f)
      BY <1>3, <1>4 DEF NoLostWakeup, SourceOf
    <3>2. CASE f \in winners
      <4>1. FlitLink(port[f]) \in Scheduled'
        BY <1>10, <3>2 DEF Scheduled, used
      <4>2. QED
        BY <1>11, <3>2, <4>1 DEF FlitAwaited
    <3>3. CASE f \in here \ winners
      <4>1. RouterNode(r) \in Scheduled'
        BY <2>2, <3>3 DEF RouterReschedules
      <4>2. at'[f][1] = "buffer" /\ at'[f][2] = at[f][2]
        BY <1>5, <1>11, <3>3
      <4>3. QED
        BY <1>5, <3>3, <4>1, <4>2 DEF FlitAwaited
    <3>4. CASE f \notin here
      <4>0. at'[f] = at[f]
        BY <1>7, <1>11, <3>4 DEF here
      <4>1. CASE at[f][1] \in {"link", "buffer"} /\ Down(at[f][2]) = RouterNode(r)
        <5>1. at[f][2] \in InChannels(r)
          BY <1>3, <4>1, PlaceOf DEF InChannels
        <5>2. at[f][1] = "link"
          BY <3>4, <4>1, <5>1 DEF Buffered, here
        <5>3. f \in In("link", at[f][2]) /\ f \notin arrived
          BY <1>3, <3>4, <5>2, PlaceOf DEF In, here
        <5>4. RouterNode(r) \in Scheduled'
          BY <2>2, <5>1, <5>3 DEF RouterReschedules
        <5>5. QED
          BY <4>0, <4>1, <5>4 DEF FlitAwaited
      <4>2. CASE at[f][1] \in {"link", "buffer"} /\ Down(at[f][2]) # RouterNode(r)
        BY <2>1, <3>1, <4>0, <4>2 DEF FlitAwaited
      <4>3. CASE at[f][1] = "waiting"
        BY <2>1, <3>1, <4>0, <4>3 DEF FlitAwaited, NINode, RouterNode
      <4>4. CASE at[f][1] = "queue"
        BY <2>1, <3>1, <4>0, <4>4 DEF FlitAwaited, FlitLink, RouterNode
      <4>5. CASE at[f][1] \notin {"waiting", "queue", "link", "buffer"}
        BY <4>0, <4>5 DEF FlitAwaited
      <4>6. QED
        BY <4>1, <4>2, <4>3, <4>4, <4>5
    <3>5. QED
      BY <1>7, <3>2, <3>3, <3>4
  <2>4. ASSUME NEW c \in Channels PROVE CreditsAwaited(c)'
    <3>0. CreditsAwaited(c) /\ creditQueue[c] \in Nat /\ creditLink[c] \in Nat
      BY <1>3, <1>4 DEF NoLostWakeup, TypeOK
    <3>1. ASSUME creditQueue'[c] > 0 PROVE CreditLinkOf(c) \in Scheduled'
      <4>1. CASE c \in left
        BY <1>10, <4>1 DEF Scheduled
      <4>2. CASE c \notin left
        BY <1>10, <2>1, <3>0, <3>1, <4>2 DEF CreditsAwaited, CreditLinkOf, RouterNode
      <4>3. QED
        BY <4>1, <4>2
    <3>2. ASSUME creditLink'[c] > 0 PROVE Up(c) \in Scheduled'
      <4>1. CASE c \in Credited(r)
        <5>1. creditLink[c] > 1
          BY <1>10, <3>0, <3>2, <4>1
        <5>2. RouterNode(r) \in Scheduled'
          BY <2>2, <4>1, <5>1 DEF RouterReschedules
        <5>3. QED
          BY <4>1, <5>2 DEF Credited, OutChannels
      <4>2. CASE c \notin Credited(r)
        <5>1. creditLink[c] > 0
          BY <1>10, <3>0, <3>2, <4>2
        <5>2. Up(c) # RouterNode(r)
          BY <4>2, <5>1 DEF Credited, OutChannels
        <5>3. QED
          BY <2>1, <3>0, <5>1, <5>2 DEF CreditsAwaited
      <4>3. QED
        BY <4>1, <4>2
    <3>3. QED
      BY <3>1, <3>2 DEF CreditsAwaited
  <2>5. QED
    BY <2>3, <2>4
<1>20. QED
  BY <1>13, <1>14, <1>17, <1>18, <1>19 DEF IInv, OneTokenPerVc

\* A wakeup of a flit link moves a flit, and with it the duty to act, on.
LEMMA FlitLinkStep ==
    ASSUME IInv, NEW c \in Channels, FlitLinkWakeup(c)
    PROVE  IInv'
<1>1. TypeOK /\ OneTokenPerVc /\ VcFollowsBuffer /\ OnItsWay /\ NoLostWakeup
  BY DEF IInv
<1>2. /\ due' = due \ {FlitLink(c)} /\ status = "running"
      /\ trace' = trace /\ outport' = outport /\ outVc' = outVc /\ credits' = credits
      /\ creditQueue' = creditQueue /\ creditLink' = creditLink /\ busy' = busy
      /\ status' = status
  BY DEF FlitLinkWakeup, Wake
<1>3. \A f \in Flits : /\ InTrace(f)' = InTrace(f) /\ DestOf(f)' = DestOf(f)
                       /\ SourceOf(f)' = SourceOf(f)
                       /\ \A d : MayEnter(f, d)' = MayEnter(f, d)
  BY <1>2 DEF InTrace, DestOf, SourceOf, MayEnter
<1>4. CASE In("queue", c) = {} /\ at' = at /\ next' = next
  <2>1. \A d \in Channels : Holders(d)' = Holders(d) /\ In("buffer", d)' = In("buffer", d)
    BY <1>4 DEF Holders, In
  <2>2. TypeOK' /\ OneTokenPerVc' /\ VcFollowsBuffer' /\ OnItsWay'
    BY <1>1, <1>2, <1>3, <1>4, <2>1
    DEF TypeOK, OneTokenPerVc, OneToken, VcFollowsBuffer, OnItsWay
  <2>3. \A x \in Scheduled : x # FlitLink(c) => x \in Scheduled'
    BY <1>2, <1>4 DEF Scheduled
  <2>4. ASSUME NEW f \in Flits PROVE FlitAwaited(f)'
    <3>1. at[f][1] = "queue" => at[f][2] # c
      BY <1>1, <1>4, PlaceOf DEF In
    <3>2. at[f][1] \in {"link", "buffer"} => Down(at[f][2]) # FlitLink(c)
      BY <1>1, PlaceOf, ChannelEnds, ConsumersDiffer
    <3>3. QED
      BY <1>1, <1>2, <1>3, <1>4, <2>3, <3>1, <3>2
      DEF FlitAwaited, NoLostWakeup, NINode, FlitLink
  <2>5. ASSUME NEW d \in Channels PROVE CreditsAwaited(d)'
    BY <1>1, <1>2, <2>3, ChannelEnds, ConsumersDiffer DEF CreditsAwaited, NoLostWakeup
  <2>6. QED
    BY <2>2, <2>4, <2>5 DEF IInv, NoLostWakeup
<1>5. ASSUME NEW g \in In("queue", c),
             at' = [at EXCEPT ![g] = <<"link", c>>],
             next' = next \cup {Down(c)} \cup (IF In("queue", c) = {g} THEN {} ELSE {FlitLink(c)})
      PROVE  IInv'
  <2>1. g \in Flits /\ at[g] = <<"queue", c>> /\ g \in Holders(c)
    BY DEF In, Holders, Stages
  <2>2. /\ at'[g] = <<"link", c>>
        /\ \A f \in Flits \ {g} : at'[f] = at[f]
    BY <1>1, <1>5, <2>1 DEF TypeOK
  <2>3. \A d \in Channels : Holders(d)' = Holders(d) /\ In("buffer", d)' = In("buffer", d)
    BY <2>1, <2>2 DEF Holders, In, Stages
  <2>4. TypeOK'
    <3>1. <<"link", c>> \in Places
      BY DEF Places, Stages
    <3>2. next' \subseteq Consumers /\ due' \subseteq Consumers
      BY <1>1, <1>2, <1>5, ChannelEnds DEF TypeOK, Consumers, Links
    <3>3. QED
      BY <1>1, <1>2, <1>5, <3>1, <3>2 DEF TypeOK
  <2>5. OneTokenPerVc' /\ VcFollowsBuffer'
    BY <1>1, <1>2, <2>3 DEF OneTokenPerVc, OneToken, VcFollowsBuffer
  <2>6. OnItsWay'
    BY <1>1, <1>2, <1>3, <2>1, <2>2 DEF OnItsWay
  <2>7. \A x \in Scheduled : x # FlitLink(c) => x \in Scheduled'
    BY <1>2, <1>5 DEF Scheduled
  <2>8. ASSUME NEW f \in Flits PROVE FlitAwaited(f)'
    <3>1. CASE f = g
      BY <1>5, <2>2, <3>1 DEF FlitAwaited, Scheduled
    <3>2. CASE f # g
      <4>1. at[f][1] = "queue" => at[f][2] # c
        BY <1>1, <2>1, <3>2, PlaceOf, HolderIsAlone DEF Holders, Stages
      <4>2. at[f][1] \in {"link", "buffer"} => Down(at[f][2]) # FlitLink(c)
        BY <1>1, PlaceOf, ChannelEnds, ConsumersDiffer
      <4>3. QED
        BY <1>1, <1>2, <1>3, <2>2, <2>7, <3>2, <4>1, <4>2
        DEF FlitAwaited, NoLostWakeup, NINode, FlitLink
    <3>3. QED
      BY <3>1, <3>2
  <2>9. ASSUME NEW d \in Channels PROVE CreditsAwaited(d)'
    BY <1>1, <1>2, <2>7, ChannelEnds, ConsumersDiffer DEF CreditsAwaited, NoLostWakeup
  <2>10. QED
    BY <2>4, <2>5, <2>6, <2>8, <2>9 DEF IInv, NoLostWakeup
<1>6. QED
  BY <1>4, <1>5 DEF FlitLinkWakeup

\* A wakeup of a credit link moves a credit, and with it the duty to act, back.
LEMMA CreditLinkStep ==
    ASSUME IInv, NEW c \in Channels, CreditLinkWakeup(c)
    PROVE  IInv'
<1> DEFINE moved == IF creditQueue[c] > 0 THEN 1 ELSE 0
<1>1. TypeOK /\ OneTokenPerVc /\ VcFollowsBuffer /\ OnItsWay /\ NoLostWakeup
  BY DEF IInv
<1>2. /\ due' = due \ {CreditLinkOf(c)} /\ status = "running"
      /\ trace' = trace /\ at' = at /\ outport' = outport /\ outVc' = outVc
      /\ credits' = credits /\ busy' = busy /\ status' = status
      /\ creditQueue' = [creditQueue EXCEPT ![c] = @ - moved]
      /\ creditLink' = [creditLink EXCEPT ![c] = @ + moved]
      /\ next' = next \cup (IF creditQueue[c] > 0 THEN {Up(c)} ELSE {})
                      \cup (IF creditQueue[c] > 1 THEN {CreditLinkOf(c)} ELSE {})
  BY DEF CreditLinkWakeup, Wake
<1>3. \A d \in Channels : Holders(d)' = Holders(d) /\ In("buffer", d)' = In("buffer", d)
  BY <1>2 DEF Holders, In
<1>4. TypeOK'
  <2>1. next' \subseteq Consumers /\ due' \subseteq Consumers
    BY <1>1, <1>2, ChannelEnds DEF TypeOK, Consumers, Links
  <2>2. creditQueue' \in [Channels -> Nat] /\ creditLink' \in [Channels -> Nat]
    BY <1>1, <1>2 DEF TypeOK
  <2>3. QED
    BY <1>1, <1>2, <2>1, <2>2 DEF TypeOK
<1>5. OneTokenPerVc'
  <2>1. ASSUME NEW d \in Channels
        PROVE  creditQueue'[d] + creditLink'[d] = creditQueue[d] + creditLink[d]
    BY <1>1, <1>2 DEF TypeOK
  <2>2. QED
    BY <1>1, <1>2, <1>3, <2>1 DEF OneTokenPerVc, OneToken
<1>6. VcFollowsBuffer' /\ OnItsWay'
  BY <1>1, <1>2, <1>3
  DEF VcFollowsBuffer, OnItsWay, InTrace, DestOf, MayEnter
<1>7. \A x \in Scheduled : x # CreditLinkOf(c) => x \in Scheduled'
  BY <1>2 DEF Scheduled
<1>8. ASSUME NEW f \in Flits PROVE FlitAwaited(f)'
  <2>1. at[f][1] \in {"link", "buffer"} => Down(at[f][2]) # CreditLinkOf(c)
    BY <1>1, PlaceOf, ChannelEnds, ConsumersDiffer
  <2>2. QED
    BY <1>1, <1>2, <1>7, <2>1
    DEF FlitAwaited, NoLostWakeup, SourceOf, NINode, FlitLink, CreditLinkOf
<1>9. ASSUME NEW d \in Channels PROVE CreditsAwaited(d)'
  <2>1. CreditsAwaited(d) /\ Up(d) # CreditLinkOf(c)
    BY <1>1, <1>2, ChannelEnds, ConsumersDiffer DEF NoLostWakeup
  <2>2. CASE d # c
    BY <1>1, <1>2, <1>7, <2>1, <2>2, ConsumersDiffer DEF CreditsAwaited, TypeOK
  <2>3. CASE d = c
    <3>1. creditQueue[c] \in Nat /\ creditLink[c] \in Nat
      BY <1>1 DEF TypeOK
    <3>2. creditQueue'[c] = creditQueue[c] - moved /\ creditLink'[c] = creditLink[c] + moved
      BY <1>1, <1>2 DEF TypeOK
    <3>3. creditQueue'[c] > 0 => CreditLinkOf(c) \in Scheduled'
      BY <1>2, <3>1, <3>2 DEF Scheduled
    <3>4. creditLink'[c] > 0 => Up(c) \in Scheduled'
      BY <1>2, <1>7, <2>1, <2>3, <3>1, <3>2 DEF Scheduled, CreditsAwaited
    <3>5. QED
      BY <2>3, <3>3, <3>4 DEF CreditsAwaited
  <2>4. QED
    BY <2>2, <2>3
<1>10. QED
  BY <1>4, <1>5, <1>6, <1>8, <1>9 DEF IInv, NoLostWakeup

\* The next cycle wakes exactly the consumers scheduled for it, and nothing
\* happens once the run has ended.
LEMMA QuietStep ==
    ASSUME IInv, Tick \/ Ended \/ UNCHANGED vars
    PROVE  IInv'
<1>1. TypeOK /\ OneTokenPerVc /\ VcFollowsBuffer /\ OnItsWay /\ NoLostWakeup
  BY DEF IInv
<1>2. /\ trace' = trace /\ at' = at /\ outport' = outport /\ outVc' = outVc
      /\ credits' = credits /\ creditQueue' = creditQueue /\ creditLink' = creditLink
      /\ busy' = busy /\ status' = status
      /\ Scheduled' = Scheduled /\ due' \subseteq Scheduled /\ next' \subseteq Scheduled
  BY DEF Tick, Ended, vars, Scheduled
<1>3. TypeOK' /\ VcFollowsBuffer'
  BY <1>1, <1>2 DEF TypeOK, VcFollowsBuffer, In, Scheduled
<1>4. OneTokenPerVc'
  BY <1>1, <1>2 DEF OneTokenPerVc, OneToken, Holders
<1>5. OnItsWay'
  BY <1>1, <1>2 DEF OnItsWay, InTrace, DestOf, MayEnter
<1>6. NoLostWakeup'
  BY <1>1, <1>2 DEF NoLostWakeup, FlitAwaited, CreditsAwaited, SourceOf
<1>7. QED
  BY <1>3, <1>4, <1>5, <1>6 DEF IInv

\* Every step of the network keeps the invariant.
LEMMA NextIInv == IInv /\ [Next]_vars => IInv'
<1>1. QED
  BY InterfaceStep, RouterStep, FlitLinkStep, CreditLinkStep, QuietStep DEF Next, Step

-----------------------------------------------------------------------------
(* Theorems. *)

\* The invariant holds in every reachable state.
LEMMA GarnetInvariant == Spec => []IInv
<1>1. QED
  BY InitIInv, NextIInv, PTL DEF Spec

\* Credit-based flow control is sound on every topology: OutVcState of the
\* sender and VirtualChannel of the receiver agree whatever the order of
\* wakeups, so no assertion on credit counts or busy VCs can fail.
THEOREM LinkEndsAgreeCorrect == Spec => []LinkEndsAgree
<1>1. IInv => LinkEndsAgree
  BY DEF IInv, LinkEndsAgree
<1>2. QED
  BY <1>1, GarnetInvariant, PTL

\* checkReschedule, check_for_wakeup and the links' own rescheduling together
\* leave nobody asleep who still has flits or credits to handle.
THEOREM NoLostWakeupCorrect == Spec => []NoLostWakeup
<1>1. IInv => NoLostWakeup
  BY DEF IInv
<1>2. QED
  BY <1>1, GarnetInvariant, PTL

-----------------------------------------------------------------------------
(* The network implements GarnetDelivery. *)

\* What a delivery sees of a flit is what matters of its place in the network.
PlacesSeen ==
    \A f \in Flits :
      /\ DestOf(f) \in NIs
      /\ at[f][1] = "absent" <=> Place(f) = <<"left out">>
      /\ at[f][1] = "received" <=> Place(f) = NINode(DestOf(f))
      /\ at[f][1] = "waiting" <=> Place(f) = <<"source">>
      /\ at[f][1] \in Stages <=> Place(f) = <<"network">>

NothingUnderWay == \A f \in Flits : at[f][1] \in {"absent", "received"}

\* A place of the network, seen from outside it, is a place of a delivery.
LEMMA PlaceSeen == IInv => PlacesSeen
<1> SUFFICES ASSUME IInv, NEW f \in Flits
             PROVE  /\ DestOf(f) \in NIs
                    /\ at[f][1] = "absent" <=> Place(f) = <<"left out">>
                    /\ at[f][1] = "received" <=> Place(f) = NINode(DestOf(f))
                    /\ at[f][1] = "waiting" <=> Place(f) = <<"source">>
                    /\ at[f][1] \in Stages <=> Place(f) = <<"network">>
  BY DEF PlacesSeen
<1>1. TypeOK /\ OnItsWay
  BY DEF IInv
<1>2. DestOf(f) \in NIs
  BY <1>1, GarnetAssumption DEF TypeOK, DestOf, Flits, Record
<1>3. at[f][1] \in {"absent", "waiting", "queue", "link", "buffer", "received"}
  BY <1>1, PlaceOf
<1>4. at[f][1] = "received" => Down(at[f][2]) = NINode(DestOf(f))
  BY <1>1, <1>2, InterfaceChannels DEF OnItsWay
<1>5. /\ <<"left out">> # <<"source">> /\ <<"left out">> # <<"network">>
      /\ <<"source">> # <<"network">>
      /\ NINode(DestOf(f)) \notin {<<"left out">>, <<"source">>, <<"network">>}
  BY DEF NINode
<1>6. QED
  BY <1>2, <1>3, <1>4, <1>5 DEF Place, Stages

\* All flits of the trace have arrived when all that take part are received.
LEMMA ArrivedSeen == IInv => (Delivery!Arrived <=> NothingUnderWay)
<1> SUFFICES ASSUME IInv PROVE Delivery!Arrived <=> NothingUnderWay
  OBVIOUS
<1>1. Delivery!Arrived <=>
        \A f \in Flits : [g \in Flits |-> Place(g)][f]
                           \in {<<"left out">>, [g \in Flits |-> NINode(DestOf(g))][f]}
  BY DEF Delivery!Arrived, Delivery!Left
<1>2. QED
  BY <1>1, PlaceSeen DEF PlacesSeen, NothingUnderWay

\* Handing the trace to the interfaces starts a delivery.
LEMMA DeliveryInit == Init => Delivery!Init
<1> SUFFICES ASSUME Init PROVE Delivery!Init
  OBVIOUS
<1>1. IInv
  BY InitIInv
<1>2. \A f \in Flits : DestOf(f) \in NIs
  BY <1>1, PlaceSeen DEF PlacesSeen
<1>3. \A f \in Flits : at[f][1] \in {"absent", "waiting"}
  BY DEF Init
<1>4. \A f \in Flits : Place(f) \in {<<"source">>, <<"left out">>}
  BY <1>1, <1>3, PlaceSeen DEF PlacesSeen
<1>5. [f \in Flits |-> NINode(DestOf(f))] \in [Flits -> {NINode(n) : n \in NIs}]
  BY <1>2
<1>6. [f \in Flits |-> Place(f)] \in [Flits -> {<<"source">>, <<"left out">>}]
  BY <1>4
<1>7. status = "running"
  BY DEF Init
<1>8. QED
  BY <1>5, <1>6, <1>7 DEF Delivery!Init, Delivery!AtSource, Delivery!Left

\* Outside the interfaces nothing of a delivery changes.
LEMMA NetworkIsQuiet ==
    ASSUME trace' = trace, status' = status, IInv, IInv',
           \A f \in Flits : \/ at'[f] = at[f]
                            \/ at[f][1] \in Stages /\ at'[f][1] \in Stages
    PROVE  UNCHANGED <<[f \in Flits |-> NINode(DestOf(f))], [f \in Flits |-> Place(f)], status>>
<1>1. \A f \in Flits : DestOf(f)' = DestOf(f)
  BY DEF DestOf
<1>2. ASSUME NEW f \in Flits PROVE Place(f)' = Place(f)
  <2>1. CASE at'[f] = at[f]
    BY <2>1 DEF Place
  <2>2. CASE at[f][1] \in Stages /\ at'[f][1] \in Stages
    BY <2>2 DEF Place, Stages
  <2>3. QED
    BY <2>1, <2>2
<1>3. QED
  BY <1>1, <1>2

\* An interface takes flits into the network and out of it, and calls the run
\* complete with the last of them.
LEMMA InterfaceDelivers ==
    ASSUME IInv, IInv', NEW n \in NIs, NetworkInterfaceWakeup(n)
    PROVE  Delivery!Next \/ UNCHANGED <<[f \in Flits |-> NINode(DestOf(f))],
                                        [f \in Flits |-> Place(f)], status>>
<1> DEFINE out == InjectChannel(n)
           in == EjectChannel(n)
           injected == Injected(n)
           places == [f \in Flits |-> Place(f)]
           dests == [f \in Flits |-> NINode(DestOf(f))]
<1>0. PlacesSeen' /\ (Delivery!Arrived' <=> NothingUnderWay')
  <2>1. PlacesSeen'
    BY PlaceSeen, PTL
  <2>2. Delivery!Arrived' <=> NothingUnderWay'
    BY ArrivedSeen, PTL
  <2>3. QED
    BY <2>1, <2>2
<1>1. PICK received \in SUBSET In("link", in) :
        /\ received = {} \/ \E f \in Flits : received = {f}
        /\ at' = [f \in Flits |-> CASE f \in injected -> <<"queue", out>>
                                    [] f \in received -> <<"received", in>>
                                    [] OTHER -> at[f]]
        /\ status' = CASE BusyCount(n) > Threshold -> "panicked"
                       [] received # {} /\ AllReceived(received) -> "complete"
                       [] OTHER -> status
  BY DEF NetworkInterfaceWakeup
<1>2. trace' = trace /\ status = "running"
  BY DEF NetworkInterfaceWakeup, Wake
<1>3. \A f \in injected : f \in Flits /\ at[f][1] = "waiting"
  BY FrontFlitWaits DEF Injected, Waiting
<1>4. \A f \in received : f \in Flits /\ at[f][1] = "link"
  BY DEF In
<1>5. ASSUME NEW f \in Flits
      PROVE  /\ f \in injected => at'[f][1] = "queue"
             /\ f \in received => at'[f][1] = "received"
             /\ f \notin injected \cup received => at'[f] = at[f]
  BY <1>1, <1>3, <1>4
<1> HIDE DEF injected, in, out
<1>6. ASSUME NEW f \in Flits
      PROVE  /\ DestOf(f)' = DestOf(f)
             /\ InTrace(f)' = InTrace(f)
             /\ f \in injected => Place(f) = <<"source">> /\ Place(f)' = <<"network">>
             /\ f \in received => Place(f) = <<"network">> /\ Place(f)' = NINode(DestOf(f))
             /\ f \notin injected \cup received => Place(f)' = Place(f)
  <2>1. DestOf(f)' = DestOf(f) /\ InTrace(f)' = InTrace(f)
    BY <1>2 DEF DestOf, InTrace
  <2>2. f \in injected => Place(f) = <<"source">> /\ Place(f)' = <<"network">>
    BY <1>3, <1>5 DEF Place
  <2>3. f \in received => Place(f) = <<"network">>
    BY <1>4 DEF Place
  <2>4. f \in received => Place(f)' = NINode(DestOf(f))
    <3>1. at'[f][1] = "received" <=> Place(f)' = NINode(DestOf(f)')
      BY <1>0 DEF PlacesSeen
    <3>2. QED
      BY <1>5, <2>1, <3>1
  <2>5. f \notin injected \cup received => Place(f)' = Place(f)
    BY <1>5 DEF Place
  <2>6. QED
    BY <2>1, <2>2, <2>3, <2>4, <2>5
<1>7. dests' = dests
  BY <1>6
<1>8. ASSUME NEW f \in Flits PROVE Delivery!Moves(f)
  <2>1. /\ places[f] = Place(f) /\ places'[f] = Place(f)' /\ dests[f] = NINode(DestOf(f))
    OBVIOUS
  <2>2. \/ places'[f] = places[f]
        \/ places[f] = <<"source">> /\ places'[f] = <<"network">>
        \/ places[f] = <<"network">> /\ places'[f] = dests[f]
    BY <1>6, <2>1
  <2>3. QED
    BY <2>2 DEF Delivery!Moves, Delivery!AtSource, Delivery!InNetwork
<1>9. \A f \in Flits : at[f][1] = "absent" <=> ~InTrace(f)
  BY DEF IInv, OnItsWay
<1>10. status' = "complete" => Delivery!Arrived'
  <2> SUFFICES ASSUME status' = "complete" PROVE Delivery!Arrived'
    OBVIOUS
  <2>1. AllReceived(received)
    BY <1>1, <1>2
  <2>2. ASSUME NEW f \in Flits PROVE at'[f][1] \in {"absent", "received"}
    <3>1. CASE ~InTrace(f)
      BY <1>3, <1>4, <1>5, <1>9, <3>1
    <3>2. CASE InTrace(f)
      BY <1>3, <1>5, <2>1, <3>2 DEF AllReceived
    <3>3. QED
      BY <3>1, <3>2
  <2>3. QED
    BY <1>0, <2>2 DEF NothingUnderWay
<1>11. status' = "running" /\ (injected # {} \/ received # {}) => ~Delivery!Arrived'
  <2> SUFFICES ASSUME status' = "running", injected # {} \/ received # {}
               PROVE  \E f \in Flits : at'[f][1] \notin {"absent", "received"}
    BY <1>0 DEF NothingUnderWay
  <2>1. CASE injected # {}
    BY <1>3, <1>5, <2>1
  <2>2. CASE received # {} /\ injected = {}
    <3>1. ~AllReceived(received)
      BY <1>1, <1>2, <2>2
    <3>2. PICK f \in Flits : InTrace(f) /\ at[f][1] # "received" /\ f \notin received
      BY <3>1 DEF AllReceived
    <3>3. at'[f] = at[f] /\ at[f][1] # "absent"
      BY <1>5, <1>9, <2>2, <3>2
    <3>4. QED
      BY <3>2, <3>3
  <2>3. QED
    BY <2>1, <2>2
<1>12. status' \in {"running", "complete", "panicked"}
  BY DEF IInv, TypeOK
<1>13. CASE status' = "running" /\ injected = {} /\ received = {}
  <2>1. places' = places
    BY <1>6, <1>13
  <2>2. QED
    BY <1>2, <1>7, <1>13, <2>1
<1>14. CASE ~(status' = "running" /\ injected = {} /\ received = {})
  BY <1>2, <1>7, <1>8, <1>10, <1>11, <1>12, <1>14 DEF Delivery!Next
<1>15. QED
  BY <1>13, <1>14

\* Every step of the network is a step of the delivery, or none.
LEMMA DeliveryStep ==
    ASSUME IInv, [Next]_vars
    PROVE  Delivery!Next \/ UNCHANGED <<[f \in Flits |-> NINode(DestOf(f))],
                                        [f \in Flits |-> Place(f)], status>>
<1>1. IInv'
  BY NextIInv
<1>2. CASE \E n \in NIs : NetworkInterfaceWakeup(n)
  BY <1>1, <1>2, InterfaceDelivers
<1>3. ASSUME NEW r \in Routers, RouterWakeup(r)
      PROVE  UNCHANGED <<[f \in Flits |-> NINode(DestOf(f))], [f \in Flits |-> Place(f)], status>>
  <2>1. PICK arrived \in Arrivals(r) : \E route \in Routes(r, arrived) :
          \E winners \in Winners(Requests(r, PortOf(r, arrived, route)),
                                 PortOf(r, arrived, route)) :
             Forward(r, arrived, PortOf(r, arrived, route), winners)
    BY <1>3 DEF RouterWakeup
  <2>2. PICK route \in Routes(r, arrived) :
          \E winners \in Winners(Requests(r, PortOf(r, arrived, route)),
                                 PortOf(r, arrived, route)) :
             Forward(r, arrived, PortOf(r, arrived, route), winners)
    BY <2>1
  <2> DEFINE port == PortOf(r, arrived, route)
  <2>3. PICK winners \in Winners(Requests(r, port), port) : Forward(r, arrived, port, winners)
    BY <2>2
  <2>4. winners \subseteq arrived \cup Buffered(r)
    BY DEF Winners, Requests, PortOf
  <2>5. \A f \in arrived \cup Buffered(r) : f \in Flits /\ at[f][1] \in Stages
    BY DEF Arrivals, Buffered, Stages
  <2>6. at' = Traversed(winners, arrived, port)
    BY <2>3 DEF Forward
  <2> HIDE DEF port
  <2>7. \A f \in Flits : \/ at'[f] = at[f]
                         \/ at[f][1] \in Stages /\ at'[f][1] \in Stages
    BY <2>4, <2>5, <2>6 DEF Traversed, Stages
  <2>8. trace' = trace /\ status' = status
    BY <1>3 DEF RouterWakeup
  <2>9. QED
    BY <1>1, <2>7, <2>8, NetworkIsQuiet
<1>4. ASSUME NEW c \in Channels, FlitLinkWakeup(c)
      PROVE  UNCHANGED <<[f \in Flits |-> NINode(DestOf(f))], [f \in Flits |-> Place(f)], status>>
  <2>1. at \in [Flits -> Places]
    BY DEF IInv, TypeOK
  <2>2. \A f \in Flits : \/ at'[f] = at[f]
                         \/ at[f][1] \in Stages /\ at'[f][1] \in Stages
    BY <1>4, <2>1 DEF FlitLinkWakeup, In, Stages
  <2>3. trace' = trace /\ status' = status
    BY <1>4 DEF FlitLinkWakeup
  <2>4. QED
    BY <1>1, <2>2, <2>3, NetworkIsQuiet
<1>5. CASE (\E c \in Channels : CreditLinkWakeup(c)) \/ Tick \/ Ended \/ UNCHANGED vars
  <2>1. at' = at /\ trace' = trace /\ status' = status
    BY <1>5 DEF CreditLinkWakeup, Tick, Ended, vars
  <2>2. QED
    BY <1>1, <2>1, NetworkIsQuiet
<1>6. QED
  BY <1>2, <1>3, <1>4, <1>5 DEF Next, Step

\* The network implements the abstract delivery: every flit enters it once,
\* leaves it once and only at the interface its trace line names, and
\* exitSimLoop is called exactly with the arrival of the last one.
THEOREM DeliveryImplemented == Spec => ImplementsDelivery
<1>1. Init => Delivery!Init
  BY DeliveryInit
<1>2. IInv /\ [Next]_vars =>
        [Delivery!Next]_<<[f \in Flits |-> NINode(DestOf(f))], [f \in Flits |-> Place(f)], status>>
  BY DeliveryStep
<1>3. QED
  BY <1>1, <1>2, GarnetInvariant, PTL DEF Spec, ImplementsDelivery, Delivery!Spec

-----------------------------------------------------------------------------
(* Distances on a mesh. *)

Apart(a, b) == IF a < b THEN b - a ELSE a - b

Hops(i, j) == Apart(Row(i), Row(j)) + Apart(Col(i), Col(j))

\* The routers fill a grid and every two that are next to each other are linked.
IsMesh ==
    /\ \E rows \in 1 .. NumRouters : NumRouters = rows * NumCols
    /\ Connections = {l \in Routers \X Routers : Hops(l[1], l[2]) = 1}

\* The weight of a way along the row and then along the column
XYWeight(i, j) == Apart(Col(i), Col(j)) + 2 * Apart(Row(i), Row(j))

\* Division with a remainder.
LEMMA Division ==
    ASSUME NEW n \in Nat, NEW k \in Nat \ {0}
    PROVE  \E q \in Nat, m \in 0 .. k - 1 : n \div k = q /\ n % k = m /\ n = k * q + m
<1> DEFINE q == n \div k
           m == n % k
<1>1. q \in Nat /\ m \in 0 .. k - 1 /\ n = k * q + m
  OBVIOUS
<1>2. n \div k = q /\ n % k = m
  OBVIOUS
<1> HIDE DEF q, m
<1> QED BY <1>1, <1>2

\* There is one quotient and one remainder.
LEMMA DivisionUnique ==
    ASSUME NEW k \in Nat \ {0}, NEW q \in Nat, NEW r \in 0 .. k - 1,
           NEW p \in Nat, NEW s \in 0 .. k - 1, k * q + r = k * p + s
    PROVE  q = p /\ r = s
<1>1. k * (q - p) = s - r
  OBVIOUS
<1>2. q - p < 1 /\ q - p > -1
  <2>1. CASE q - p >= 1
    <3>1. \A d \in Int : d >= 1 => k * d >= k
      OBVIOUS
    <3> QED BY <1>1, <2>1, <3>1
  <2>2. CASE q - p <= -1
    <3>1. \A d \in Int : d <= -1 => k * d <= -k
      OBVIOUS
    <3> QED BY <1>1, <2>2, <3>1
  <2> QED BY <2>1, <2>2
<1>3. q = p
  BY <1>2
<1> QED BY <1>3
\* The routers are numbered row by row.
OnGrid(rows) ==
    /\ \A r \in Routers : Row(r) \in 0 .. rows - 1 /\ Col(r) \in 0 .. NumCols - 1
    /\ \A i, j \in Routers : Row(i) = Row(j) /\ Col(i) = Col(j) => i = j
    /\ \A y \in 0 .. rows - 1, x \in 0 .. NumCols - 1 : \E r \in Routers : Row(r) = y /\ Col(r) = x

\* The routers of a mesh fill the grid, one at each crossing.
LEMMA RoutersFillTheGrid ==
    ASSUME NEW rows \in Nat, NumRouters = rows * NumCols
    PROVE  OnGrid(rows)
<1> DEFINE C == NumCols
<1>1. C \in Nat \ {0} /\ NumRouters = C * rows
  BY TopologyAssumption
<1> HIDE DEF C
<1>2. ASSUME NEW r \in Routers
      PROVE  \E q \in Nat, m \in 0 .. C - 1 : Row(r) = q /\ Col(r) = m /\ r = C * q + m /\ r < C * rows
  <2>1. r \in Nat /\ r < C * rows
    BY <1>1, TopologyAssumption DEF Routers
  <2>2. PICK q \in Nat, m \in 0 .. C - 1 : r \div C = q /\ r % C = m /\ r = C * q + m
    BY <1>1, <2>1, Division
  <2>3. Row(r) = q /\ Col(r) = m
    BY <2>2 DEF Row, Col, C
  <2> QED BY <2>1, <2>2, <2>3
<1>3. ASSUME NEW r \in Routers PROVE Row(r) \in 0 .. rows - 1 /\ Col(r) \in 0 .. C - 1
  <2>1. PICK q \in Nat, m \in 0 .. C - 1 : Row(r) = q /\ Col(r) = m /\ r = C * q + m /\ r < C * rows
    BY <1>2
  <2>2. q < rows
    <3>1. \A a, b \in Nat : a >= b => C * a >= C * b
      BY <1>1
    <3>2. q >= rows => C * q >= C * rows
      BY <3>1
    <3>3. C * q < C * rows
      BY <1>1, <2>1
    <3>4. C * q \in Int /\ C * rows \in Int
      BY <1>1
    <3> QED BY <3>2, <3>3, <3>4
  <2> QED BY <2>1, <2>2
<1>4. ASSUME NEW i \in Routers, NEW j \in Routers, Row(i) = Row(j), Col(i) = Col(j) PROVE i = j
  <2>1. PICK q \in Nat, m \in 0 .. C - 1 : Row(i) = q /\ Col(i) = m /\ i = C * q + m /\ i < C * rows
    BY <1>2
  <2>2. PICK p \in Nat, n \in 0 .. C - 1 : Row(j) = p /\ Col(j) = n /\ j = C * p + n /\ j < C * rows
    BY <1>2
  <2> QED BY <1>4, <2>1, <2>2
<1>5. ASSUME NEW y \in 0 .. rows - 1, NEW x \in 0 .. C - 1
      PROVE  \E r \in Routers : Row(r) = y /\ Col(r) = x
  <2> DEFINE r == C * y + x
  <2>1. r \in Nat
    BY <1>1
  <2>2. r < C * rows
    <3>1. \A d \in Nat : C * (y + 1 + d) >= C * y + C
      BY <1>1
    <3>2. rows - y - 1 \in Nat /\ y + 1 + (rows - y - 1) = rows
      OBVIOUS
    <3>3. C * rows >= C * y + C
      BY <3>1, <3>2
    <3> QED BY <1>1, <3>3
  <2>3. r \in Routers
    BY <1>1, <2>1, <2>2 DEF Routers
  <2>4. PICK q \in Nat, m \in 0 .. C - 1 : Row(r) = q /\ Col(r) = m /\ r = C * q + m /\ r < C * rows
    BY <1>2, <2>3
  <2>5. C * q + m = C * y + x
    BY <2>4
  <2>6. q = y /\ m = x
    BY <1>1, <2>5, DivisionUnique
  <2> HIDE DEF r
  <2> QED BY <2>3, <2>4, <2>6
<1> QED BY <1>3, <1>4, <1>5 DEF OnGrid, C
\* Weights and hops are those of a metric.
LEMMA WeightsAdd ==
    ASSUME NEW rows \in Nat, OnGrid(rows), NEW i \in Routers, NEW j \in Routers, NEW k \in Routers
    PROVE  /\ XYWeight(i, j) \in Nat /\ Hops(i, j) \in Nat
           /\ XYWeight(i, j) <= XYWeight(i, k) + XYWeight(k, j)
           /\ Hops(i, j) = 0 => i = j
           /\ XYWeight(i, i) = 0
<1>1. /\ Row(i) \in Int /\ Row(j) \in Int /\ Row(k) \in Int
      /\ Col(i) \in Int /\ Col(j) \in Int /\ Col(k) \in Int
  BY TopologyAssumption DEF OnGrid
<1>2. Row(i) = Row(j) /\ Col(i) = Col(j) => i = j
  BY DEF OnGrid
<1>3. XYWeight(i, j) \in Nat /\ Hops(i, j) \in Nat
  BY <1>1 DEF XYWeight, Hops, Apart
<1>4. XYWeight(i, j) <= XYWeight(i, k) + XYWeight(k, j)
  BY <1>1 DEF XYWeight, Apart
<1>5. Hops(i, j) = 0 => i = j
  <2>1. Hops(i, j) = 0 => Row(i) = Row(j) /\ Col(i) = Col(j)
    BY <1>1 DEF Hops, Apart
  <2> QED BY <1>2, <2>1
<1>6. XYWeight(i, i) = 0
  BY <1>1 DEF XYWeight, Apart
<1> QED BY <1>3, <1>4, <1>5, <1>6

\* The last link of a way along the row and then along the column
LEMMA LastHop ==
    ASSUME NEW rows \in Nat, OnGrid(rows), NEW i \in Routers, NEW j \in Routers, i # j
    PROVE  \E k \in Routers : /\ Hops(i, k) = Hops(i, j) - 1 /\ Hops(k, j) = 1
                              /\ XYWeight(i, k) + XYWeight(k, j) = XYWeight(i, j)
<1>1. NumCols \in Nat
  BY TopologyAssumption
<1>2. /\ Row(i) \in 0 .. rows - 1 /\ Row(j) \in 0 .. rows - 1
      /\ Col(i) \in 0 .. NumCols - 1 /\ Col(j) \in 0 .. NumCols - 1
  BY DEF OnGrid
<1>3. Row(i) # Row(j) \/ Col(i) # Col(j)
  BY DEF OnGrid
<1>4. ASSUME NEW y \in 0 .. rows - 1, NEW x \in 0 .. NumCols - 1
      PROVE  \E k \in Routers : Row(k) = y /\ Col(k) = x
  BY DEF OnGrid
<1>5. CASE Row(i) < Row(j)
  <2>1. PICK k \in Routers : Row(k) = Row(j) - 1 /\ Col(k) = Col(j)
    BY <1>1, <1>2, <1>4, <1>5
  <2> QED BY <1>1, <1>2, <1>5, <2>1 DEF Hops, XYWeight, Apart
<1>6. CASE Row(i) > Row(j)
  <2>1. PICK k \in Routers : Row(k) = Row(j) + 1 /\ Col(k) = Col(j)
    BY <1>1, <1>2, <1>4, <1>6
  <2> QED BY <1>1, <1>2, <1>6, <2>1 DEF Hops, XYWeight, Apart
<1>7. CASE Row(i) = Row(j) /\ Col(i) < Col(j)
  <2>1. PICK k \in Routers : Row(k) = Row(j) /\ Col(k) = Col(j) - 1
    BY <1>1, <1>2, <1>4, <1>7
  <2> QED BY <1>1, <1>2, <1>7, <2>1 DEF Hops, XYWeight, Apart
<1>8. CASE Row(i) = Row(j) /\ Col(i) > Col(j)
  <2>1. PICK k \in Routers : Row(k) = Row(j) /\ Col(k) = Col(j) + 1
    BY <1>1, <1>2, <1>4, <1>8
  <2> QED BY <1>1, <1>2, <1>8, <2>1 DEF Hops, XYWeight, Apart
<1> QED BY <1>1, <1>2, <1>3, <1>5, <1>6, <1>7, <1>8

\* No way is longer than the number of routers.
LEMMA HopsBounded ==
    ASSUME NEW rows \in Nat, NumRouters = rows * NumCols, OnGrid(rows),
           NEW i \in Routers, NEW j \in Routers
    PROVE  Hops(i, j) <= NumRouters /\ XYWeight(i, j) <= Infinite
<1>1. NumCols \in Nat
  BY TopologyAssumption
<1>2. /\ Row(i) \in 0 .. rows - 1 /\ Row(j) \in 0 .. rows - 1
      /\ Col(i) \in 0 .. NumCols - 1 /\ Col(j) \in 0 .. NumCols - 1
  BY DEF OnGrid
<1>3. rows * NumCols >= rows + NumCols - 1
  <2>1. \A a, b \in Nat : (a + 1) * (b + 1) >= a + 1 + b
    OBVIOUS
  <2>2. rows - 1 \in Nat /\ NumCols - 1 \in Nat /\ (rows - 1) + 1 = rows /\ (NumCols - 1) + 1 = NumCols
    BY <1>1, <1>2
  <2>3. ((rows - 1) + 1) * ((NumCols - 1) + 1) >= (rows - 1) + 1 + (NumCols - 1)
    BY <2>1, <2>2
  <2>4. (rows - 1) + 1 + (NumCols - 1) = rows + NumCols - 1
    BY <1>1
  <2> QED BY <2>2, <2>3, <2>4
<1>4. NumRouters >= rows + NumCols - 1 /\ NumRouters \in Nat
  BY <1>3, TopologyAssumption
<1>5. Hops(i, j) <= rows + NumCols - 1
  BY <1>1, <1>2 DEF Hops, Apart
<1>6. XYWeight(i, j) <= 2 * (rows + NumCols - 1)
  BY <1>1, <1>2 DEF XYWeight, Apart
<1>7. Hops(i, j) \in Int /\ XYWeight(i, j) \in Int
  BY <1>1, <1>2 DEF XYWeight, Hops, Apart
<1> QED BY <1>1, <1>4, <1>5, <1>6, <1>7 DEF Infinite
\* A link of the mesh weighs what it should, and what is no link too much.
LEMMA DirectWeight ==
    ASSUME IsMesh, NEW rows \in Nat, NumRouters = rows * NumCols, OnGrid(rows),
           NEW i \in Routers, NEW j \in Routers
    PROVE  /\ Direct(i, j) \in Nat /\ XYWeight(i, j) <= Direct(i, j)
           /\ Hops(i, j) <= 1 => Direct(i, j) = XYWeight(i, j)
           /\ Hops(i, j) = 1 => LinkWeight(i, j) = XYWeight(i, j)
<1>1. <<i, j>> \in Connections <=> Hops(i, j) = 1
  BY DEF IsMesh
<1>2. Row(i) \in Int /\ Row(j) \in Int /\ Col(i) \in Int /\ Col(j) \in Int
  BY TopologyAssumption DEF OnGrid
<1>3. Hops(i, j) = 1 => LinkWeight(i, j) = XYWeight(i, j)
  BY <1>2 DEF LinkWeight, XYWeight, Hops, Apart
<1>4. /\ XYWeight(i, j) \in Nat /\ Hops(i, j) \in Nat /\ XYWeight(i, i) = 0
      /\ Hops(i, j) = 0 => i = j
  BY WeightsAdd
<1>5. XYWeight(i, j) <= Infinite /\ Infinite \in Nat
  BY HopsBounded, TopologyAssumption DEF Infinite
<1>6. CASE i = j
  <2>1. Direct(i, j) = 0
    BY <1>6 DEF Direct
  <2>2. XYWeight(i, j) = 0
    BY <1>4, <1>6
  <2> QED BY <1>3, <2>1, <2>2
<1>7. CASE i # j /\ Hops(i, j) = 1
  <2>1. Direct(i, j) = LinkWeight(i, j)
    BY <1>1, <1>7 DEF Direct
  <2> QED BY <1>3, <1>4, <1>7, <2>1
<1>8. CASE i # j /\ Hops(i, j) # 1
  <2>1. Direct(i, j) = Infinite
    BY <1>1, <1>8 DEF Direct
  <2> QED BY <1>4, <1>5, <1>8, <2>1
<1> QED BY <1>6, <1>7, <1>8

\* No distance is too short, and those of up to n hops are right.
Between(dist, n) ==
    /\ dist \in [Routers \X Routers -> Nat]
    /\ \A i, j \in Routers : /\ XYWeight(i, j) <= dist[<<i, j>>]
                             /\ Hops(i, j) <= n => dist[<<i, j>>] = XYWeight(i, j)

\* A round of relaxation keeps what is not too short and gets a hop further.
LEMMA RelaxGetsFurther ==
    ASSUME NEW rows \in Nat, OnGrid(rows), NEW n \in Nat \ {0}, NEW dist, Between(dist, n)
    PROVE  Between(Relax(dist), n + 1)
<1> DEFINE Pairs == Routers \X Routers
           Lengths(p) == {dist[p]} \cup {dist[<<p[1], via>>] + dist[<<via, p[2]>>] : via \in Routers}
<1>1. \A i, j \in Routers : dist[<<i, j>>] \in Nat
  BY DEF Between
<1>2. Relax(dist) = [p \in Pairs |-> Min(Lengths(p))]
  BY DEF Relax
<1>3. ASSUME NEW i \in Routers, NEW j \in Routers
      PROVE  /\ Relax(dist)[<<i, j>>] \in Lengths(<<i, j>>)
             /\ \A y \in Lengths(<<i, j>>) : Relax(dist)[<<i, j>>] <= y
             /\ Relax(dist)[<<i, j>>] \in Nat
  <2> DEFINE L == Lengths(<<i, j>>)
  <2>1. L = {dist[<<i, j>>]} \cup {dist[<<i, via>>] + dist[<<via, j>>] : via \in Routers}
    OBVIOUS
  <2>2. Relax(dist)[<<i, j>>] = Min(L)
    BY <1>2
  <2> HIDE DEF Lengths, L
  <2>3. L \in SUBSET Nat /\ L # {}
    <3>1. ASSUME NEW y \in L PROVE y \in Nat
      <4>1. CASE y = dist[<<i, j>>]
        BY <1>1, <4>1
      <4>2. CASE \E via \in Routers : y = dist[<<i, via>>] + dist[<<via, j>>]
        <5>1. PICK via \in Routers : y = dist[<<i, via>>] + dist[<<via, j>>]
          BY <4>2
        <5>2. dist[<<i, via>>] \in Nat /\ dist[<<via, j>>] \in Nat
          BY <1>1
        <5> QED BY <5>1, <5>2
      <4> QED BY <2>1, <4>1, <4>2
    <3>2. dist[<<i, j>>] \in L
      BY <2>1
    <3> QED BY <3>1, <3>2
  <2>4. PICK x \in L : \A y \in L : x <= y
    BY <2>3, LeastElement
  <2>5. Min(L) \in L /\ \A y \in L : Min(L) <= y
    BY <2>4 DEF Min
  <2> QED BY <2>2, <2>3, <2>5 DEF L
<1>4. Relax(dist) \in [Pairs -> Nat]
  <2>1. \A p \in Pairs : Min(Lengths(p)) \in Nat
    <3>1. SUFFICES ASSUME NEW i \in Routers, NEW j \in Routers PROVE Min(Lengths(<<i, j>>)) \in Nat
      OBVIOUS
    <3>2. Relax(dist)[<<i, j>>] = Min(Lengths(<<i, j>>))
      BY <1>2
    <3> QED BY <1>3, <3>2
  <2> QED BY <1>2, <2>1
<1>5. ASSUME NEW i \in Routers, NEW j \in Routers
      PROVE  XYWeight(i, j) <= Relax(dist)[<<i, j>>]
  <2>1. XYWeight(i, j) \in Nat
    BY WeightsAdd
  <2>2. CASE Relax(dist)[<<i, j>>] = dist[<<i, j>>]
    BY <2>2 DEF Between
  <2>3. CASE \E via \in Routers : Relax(dist)[<<i, j>>] = dist[<<i, via>>] + dist[<<via, j>>]
    <3>1. PICK via \in Routers : Relax(dist)[<<i, j>>] = dist[<<i, via>>] + dist[<<via, j>>]
      BY <2>3
    <3>2. /\ XYWeight(i, via) <= dist[<<i, via>>] /\ XYWeight(via, j) <= dist[<<via, j>>]
          /\ dist[<<i, via>>] \in Nat /\ dist[<<via, j>>] \in Nat
      BY <1>1 DEF Between
    <3>3. /\ XYWeight(i, j) <= XYWeight(i, via) + XYWeight(via, j)
          /\ XYWeight(i, via) \in Nat /\ XYWeight(via, j) \in Nat
      BY WeightsAdd
    <3> QED BY <2>1, <3>1, <3>2, <3>3
  <2>4. Relax(dist)[<<i, j>>] \in Lengths(<<i, j>>)
    BY <1>3
  <2> QED BY <2>2, <2>3, <2>4
<1>6. ASSUME NEW i \in Routers, NEW j \in Routers, Hops(i, j) <= n + 1
      PROVE  Relax(dist)[<<i, j>>] = XYWeight(i, j)
  <2>1. /\ XYWeight(i, j) \in Nat /\ Hops(i, j) \in Nat /\ Relax(dist)[<<i, j>>] \in Nat
        /\ XYWeight(i, j) <= Relax(dist)[<<i, j>>]
    BY <1>3, <1>5, WeightsAdd
  <2>2. \E y \in Lengths(<<i, j>>) : y = XYWeight(i, j)
    <3>1. CASE Hops(i, j) <= n
      <4>1. dist[<<i, j>>] = XYWeight(i, j)
        BY <3>1 DEF Between
      <4> QED BY <4>1
    <3>2. CASE Hops(i, j) = n + 1
      <4>1. i # j
        <5>1. Row(i) \in Int /\ Col(i) \in Int
          BY TopologyAssumption DEF OnGrid
        <5>2. Hops(i, i) = 0
          BY <5>1 DEF Hops, Apart
        <5> QED BY <3>2, <5>2
      <4>2. PICK k \in Routers : /\ Hops(i, k) = Hops(i, j) - 1 /\ Hops(k, j) = 1
                                 /\ XYWeight(i, k) + XYWeight(k, j) = XYWeight(i, j)
        BY <4>1, LastHop
      <4>3. Hops(i, k) <= n /\ Hops(k, j) <= n
        BY <3>2, <4>2
      <4>4. dist[<<i, k>>] = XYWeight(i, k) /\ dist[<<k, j>>] = XYWeight(k, j)
        BY <4>3 DEF Between
      <4>5. dist[<<i, k>>] + dist[<<k, j>>] \in Lengths(<<i, j>>)
        OBVIOUS
      <4> QED BY <4>2, <4>4, <4>5
    <3> QED BY <1>6, <2>1, <3>1, <3>2
  <2>3. \A y \in Lengths(<<i, j>>) : Relax(dist)[<<i, j>>] <= y
    BY <1>3
  <2> HIDE DEF Lengths
  <2>4. Relax(dist)[<<i, j>>] <= XYWeight(i, j)
    BY <2>2, <2>3
  <2> QED BY <2>1, <2>4
<1> QED BY <1>4, <1>5, <1>6 DEF Between
\* The rounds of relaxation.
LEMMA RelaxedUnfolds ==
    /\ Relaxed[0] = [p \in Routers \X Routers |-> Direct(p[1], p[2])]
    /\ \A k \in 1 .. NumRouters : Relaxed[k] = Relax(Relaxed[k - 1])
<1> DEFINE base == [p \in Routers \X Routers |-> Direct(p[1], p[2])]
           After(dist) == IF Relax(dist) = dist THEN dist ELSE Relax(dist)
           Good(g, n) == g = [k \in 0 .. n |-> IF k = 0 THEN base ELSE After(g[k - 1])]
           N == {n \in Nat : \E g : Good(g, n)}
<1>1. \A dist : After(dist) = Relax(dist)
  OBVIOUS
<1>2. Relaxed = CHOOSE g : Good(g, NumRouters)
  BY DEF Relaxed
<1> HIDE DEF base, After
<1>3. 0 \in N
  <2>1. Good([k \in 0 .. 0 |-> base], 0)
    OBVIOUS
  <2> QED BY <2>1
<1>4. ASSUME NEW n \in N PROVE n + 1 \in N
  <2>1. n \in Nat
    OBVIOUS
  <2>2. PICK g : Good(g, n)
    OBVIOUS
  <2> DEFINE h == [k \in 0 .. n + 1 |-> IF k = 0 THEN base ELSE After(g[k - 1])]
  <2>3. ASSUME NEW k \in 1 .. n + 1 PROVE h[k - 1] = g[k - 1]
    <3>1. k - 1 \in 0 .. n /\ k - 1 \in 0 .. n + 1
      BY <2>1
    <3>2. g[k - 1] = IF k - 1 = 0 THEN base ELSE After(g[k - 1 - 1])
      BY <2>2, <3>1
    <3> QED BY <3>1, <3>2
  <2>4. Good(h, n + 1)
    <3>1. h = [k \in 0 .. n + 1 |-> h[k]]
      OBVIOUS
    <3>2. ASSUME NEW k \in 0 .. n + 1 PROVE h[k] = IF k = 0 THEN base ELSE After(h[k - 1])
      <4>1. h[k] = IF k = 0 THEN base ELSE After(g[k - 1])
        OBVIOUS
      <4>2. k # 0 => k \in 1 .. n + 1
        BY <2>1
      <4> HIDE DEF h
      <4> QED BY <2>3, <4>1, <4>2
    <3> HIDE DEF h
    <3> QED BY <3>1, <3>2
  <2> HIDE DEF h, Good
  <2> QED BY <2>1, <2>4
<1>5. N = Nat
  <2>1. N \in SUBSET Nat
    OBVIOUS
  <2> HIDE DEF N
  <2> QED BY <1>3, <1>4, <2>1, NumberInduction
<1>6. NumRouters \in N
  BY <1>5, TopologyAssumption
<1>7. Good(Relaxed, NumRouters)
  <2>1. \E g : Good(g, NumRouters)
    BY <1>6
  <2> HIDE DEF Good
  <2> QED BY <1>2, <2>1
<1>8. \A k \in 0 .. NumRouters : Relaxed[k] = IF k = 0 THEN base ELSE After(Relaxed[k - 1])
  BY <1>7
<1>9. 0 \in 0 .. NumRouters /\ \A k \in 1 .. NumRouters : k \in 0 .. NumRouters /\ k # 0
  BY TopologyAssumption
<1>10. Relaxed[0] = base
  BY <1>8, <1>9
<1>11. \A k \in 1 .. NumRouters : Relaxed[k] = Relax(Relaxed[k - 1])
  BY <1>1, <1>8, <1>9
<1> QED BY <1>10, <1>11 DEF base

\* On a mesh the routing tables go by the weight of the XY way.
LEMMA DistanceOnMesh ==
    ASSUME IsMesh, NEW i \in Routers, NEW j \in Routers
    PROVE  Distance[<<i, j>>] = XYWeight(i, j)
<1>1. PICK rows \in Nat : NumRouters = rows * NumCols
  BY DEF IsMesh
<1>2. OnGrid(rows)
  BY <1>1, RoutersFillTheGrid
<1>3. NumRouters \in Nat
  BY TopologyAssumption
<1> DEFINE T == {n \in Nat : n <= NumRouters => Between(Relaxed[n], n + 1)}
<1>4. 0 \in T
  <2>1. \A a, b \in Routers : Relaxed[0][<<a, b>>] = Direct(a, b)
    BY RelaxedUnfolds
  <2>2. \A a, b \in Routers : /\ Direct(a, b) \in Nat /\ XYWeight(a, b) <= Direct(a, b)
                              /\ Hops(a, b) <= 1 => Direct(a, b) = XYWeight(a, b)
    BY <1>1, <1>2, DirectWeight
  <2>3. Relaxed[0] \in [Routers \X Routers -> Nat]
    BY <2>2, RelaxedUnfolds
  <2>4. Between(Relaxed[0], 1)
    BY <2>1, <2>2, <2>3 DEF Between
  <2>5. Between(Relaxed[0], 0 + 1)
    BY <2>4
  <2> QED BY <2>5
<1>5. ASSUME NEW n \in T PROVE n + 1 \in T
  <2>1. n \in Nat
    OBVIOUS
  <2>2. SUFFICES ASSUME n + 1 <= NumRouters PROVE Between(Relaxed[n + 1], n + 1 + 1)
    BY <2>1
  <2>3. Between(Relaxed[n], n + 1)
    BY <1>3, <2>1, <2>2
  <2>4. Relaxed[n + 1] = Relax(Relaxed[n])
    <3>1. n + 1 \in 1 .. NumRouters /\ n + 1 - 1 = n
      BY <1>3, <2>1, <2>2
    <3> QED BY <3>1, RelaxedUnfolds
  <2>5. n + 1 \in Nat \ {0}
    BY <2>1
  <2> QED BY <1>2, <2>3, <2>4, <2>5, RelaxGetsFurther
<1>6. T = Nat
  <2>1. T \in SUBSET Nat
    OBVIOUS
  <2> HIDE DEF T
  <2> QED BY <1>4, <1>5, <2>1, NumberInduction
<1>7. Between(Distance, NumRouters + 1)
  BY <1>3, <1>6 DEF Distance
<1>8. Hops(i, j) <= NumRouters /\ Hops(i, j) \in Nat
  BY <1>1, <1>2, HopsBounded, WeightsAdd
<1>9. Hops(i, j) <= NumRouters + 1
  BY <1>3, <1>8
<1> QED BY <1>7, <1>9 DEF Between
-----------------------------------------------------------------------------
(* Routes on a mesh. *)

\* What a router's table may answer for an interface of another router
LEMMA CandidateLinks ==
    ASSUME IsMesh, NEW r \in Routers, NEW dest \in NIs, RouterOf(dest) # r,
           NEW c \in Candidates(r, dest)
    PROVE  LET d == RouterOf(dest)
           IN  \E j \in Routers :
                 /\ c = LinkChannel(<<r, j>>) /\ Hops(r, j) = 1
                 /\ XYWeight(r, j) + XYWeight(j, d) = XYWeight(r, d)
                 /\ \A k \in Routers : 
                      Hops(r, k) = 1 /\ XYWeight(r, k) + XYWeight(k, d) = XYWeight(r, d)
                        => XYWeight(r, j) <= XYWeight(r, k)
<1> DEFINE d == RouterOf(dest)
           onPath == {j \in Routers : <<r, j>> \in Connections /\ OnShortestPath(r, j, d)}
           best == {j \in onPath : \A k \in onPath : LinkWeight(r, j) <= LinkWeight(r, k)}
<1>1. PICK j \in best : c = LinkChannel(<<r, j>>)
  BY DEF Candidates
<1>2. d \in Routers
  BY RouterOfRange
<1>3. PICK rows \in Nat : NumRouters = rows * NumCols
  BY DEF IsMesh
<1>4. OnGrid(rows)
  BY <1>3, RoutersFillTheGrid
<1> HIDE DEF d
<1>5. ASSUME NEW k \in Routers
      PROVE  /\ <<r, k>> \in Connections <=> Hops(r, k) = 1
             /\ Hops(r, k) = 1 => LinkWeight(r, k) = XYWeight(r, k)
             /\ OnShortestPath(r, k, d) <=> LinkWeight(r, k) + XYWeight(k, d) = XYWeight(r, d)
  <2>1. <<r, k>> \in Connections <=> Hops(r, k) = 1
    BY DEF IsMesh
  <2>2. Hops(r, k) = 1 => LinkWeight(r, k) = XYWeight(r, k)
    BY <1>3, <1>4, DirectWeight
  <2>3. Distance[<<k, d>>] = XYWeight(k, d) /\ Distance[<<r, d>>] = XYWeight(r, d)
    BY <1>2, DistanceOnMesh
  <2>4. OnShortestPath(r, k, d) <=> LinkWeight(r, k) + XYWeight(k, d) = XYWeight(r, d)
    BY <2>3 DEF OnShortestPath
  <2> QED BY <2>1, <2>2, <2>4
<1>6. j \in Routers /\ <<r, j>> \in Connections /\ OnShortestPath(r, j, d)
  OBVIOUS
<1>7. Hops(r, j) = 1 /\ LinkWeight(r, j) = XYWeight(r, j)
  BY <1>5, <1>6
<1>8. XYWeight(r, j) + XYWeight(j, d) = XYWeight(r, d)
  BY <1>5, <1>6, <1>7
<1>9. ASSUME NEW k \in Routers, Hops(r, k) = 1, XYWeight(r, k) + XYWeight(k, d) = XYWeight(r, d)
      PROVE  XYWeight(r, j) <= XYWeight(r, k)
  <2>1. LinkWeight(r, k) = XYWeight(r, k) /\ <<r, k>> \in Connections
    BY <1>5, <1>9
  <2>2. OnShortestPath(r, k, d)
    BY <1>5, <1>9, <2>1
  <2>3. k \in onPath
    BY <2>1, <2>2
  <2>4. LinkWeight(r, j) <= LinkWeight(r, k)
    BY <2>3
  <2> QED BY <1>7, <2>1, <2>4
<1> HIDE DEF onPath, best
<1> QED BY <1>1, <1>6, <1>7, <1>8, <1>9 DEF d

\* In the column of its destination a flit never turns into a row.
LEMMA StaysInColumn ==
    ASSUME IsMesh, NEW r \in Routers, NEW dest \in NIs, NEW c \in Candidates(r, dest),
           Col(r) = Col(RouterOf(dest))
    PROVE  ~AlongRow(c)
<1>1. CASE RouterOf(dest) = r
  <2>1. c = EjectChannel(dest)
    BY <1>1 DEF Candidates
  <2> QED BY <2>1 DEF EjectChannel, AlongRow, IsLink, Down, NINode
<1>2. CASE RouterOf(dest) # r
  <2> DEFINE d == RouterOf(dest)
  <2>1. PICK j \in Routers : /\ c = LinkChannel(<<r, j>>) /\ Hops(r, j) = 1
                             /\ XYWeight(r, j) + XYWeight(j, d) = XYWeight(r, d)
    BY <1>2, CandidateLinks
  <2>2. PICK rows \in Nat : NumRouters = rows * NumCols
    BY DEF IsMesh
  <2>3. OnGrid(rows)
    BY <2>2, RoutersFillTheGrid
  <2>4. d \in Routers
    BY RouterOfRange
  <2>5. Col(r) = Col(d)
    OBVIOUS
  <2> HIDE DEF d
  <2>6. /\ Row(r) \in Int /\ Row(j) \in Int /\ Row(d) \in Int
        /\ Col(r) \in Int /\ Col(j) \in Int /\ Col(d) \in Int
    BY <2>3, <2>4, TopologyAssumption DEF OnGrid
  <2>7. Row(r) # Row(j)
    BY <2>1, <2>5, <2>6 DEF XYWeight, Hops, Apart
  <2>8. Up(c) = RouterNode(r) /\ Down(c) = RouterNode(j)
    BY <2>1 DEF LinkChannel, Up, Down
  <2> QED BY <2>7, <2>8 DEF AlongRow, RouterNode
<1> QED BY <1>1, <1>2

\* A flit only enters the column of its destination.
LEMMA EntersItsColumn ==
    ASSUME IsMesh, NEW r \in Routers, NEW dest \in NIs, NEW c \in Candidates(r, dest), AlongColumn(c)
    PROVE  Col(Down(c)[2]) = Col(RouterOf(dest))
<1>1. RouterOf(dest) # r
  <2>1. SUFFICES ASSUME RouterOf(dest) = r PROVE FALSE
    OBVIOUS
  <2>2. c = EjectChannel(dest)
    BY <2>1 DEF Candidates
  <2> QED BY <2>2 DEF EjectChannel, AlongColumn, IsLink, Down, NINode
<1> DEFINE d == RouterOf(dest)
<1>2. PICK j \in Routers :
        /\ c = LinkChannel(<<r, j>>) /\ Hops(r, j) = 1
        /\ XYWeight(r, j) + XYWeight(j, d) = XYWeight(r, d)
        /\ \A k \in Routers : 
             Hops(r, k) = 1 /\ XYWeight(r, k) + XYWeight(k, d) = XYWeight(r, d)
               => XYWeight(r, j) <= XYWeight(r, k)
  BY <1>1, CandidateLinks
<1>3. PICK rows \in Nat : NumRouters = rows * NumCols
  BY DEF IsMesh
<1>4. OnGrid(rows)
  BY <1>3, RoutersFillTheGrid
<1>5. d \in Routers
  BY RouterOfRange
<1> HIDE DEF d
<1>6. NumCols \in Nat
  BY TopologyAssumption
<1>7. /\ Row(r) \in 0 .. rows - 1 /\ Row(j) \in 0 .. rows - 1 /\ Row(d) \in 0 .. rows - 1
      /\ Col(r) \in 0 .. NumCols - 1 /\ Col(j) \in 0 .. NumCols - 1 /\ Col(d) \in 0 .. NumCols - 1
  BY <1>4, <1>5 DEF OnGrid
<1>8. Up(c) = RouterNode(r) /\ Down(c) = RouterNode(j)
  BY <1>2 DEF LinkChannel, Up, Down
<1>9. Row(r) # Row(j)
  BY <1>8 DEF AlongColumn, AlongRow, RouterNode
<1>10. Col(r) = Col(j) /\ XYWeight(r, j) = 2
  BY <1>2, <1>6, <1>7, <1>9 DEF XYWeight, Hops, Apart
<1>11. Col(r) = Col(d)
  <2>1. SUFFICES ASSUME Col(r) # Col(d) PROVE FALSE
    OBVIOUS
  <2> DEFINE x == IF Col(r) < Col(d) THEN Col(r) + 1 ELSE Col(r) - 1
  <2>2. x \in 0 .. NumCols - 1
    BY <1>6, <1>7, <2>1
  <2>3. PICK k \in Routers : Row(k) = Row(r) /\ Col(k) = x
    BY <1>4, <1>7, <2>2 DEF OnGrid
  <2>4. /\ Hops(r, k) = 1 /\ XYWeight(r, k) = 1
        /\ XYWeight(r, k) + XYWeight(k, d) = XYWeight(r, d)
    BY <1>6, <1>7, <2>1, <2>3 DEF XYWeight, Hops, Apart
  <2>5. XYWeight(r, j) <= XYWeight(r, k)
    BY <1>2, <2>4
  <2> QED BY <1>10, <2>4, <2>5
<1>12. Down(c)[2] = j
  BY <1>8 DEF RouterNode
<1> QED BY <1>10, <1>11, <1>12 DEF d

\* Where a flit for interface d can be, and which output its VC can be granted
RoutedTo(d, place, port) ==
    /\ place[1] \in Stages /\ AlongColumn(place[2]) => Col(Down(place[2])[2]) = Col(RouterOf(d))
    /\ place[1] = "buffer" =>
         \A r \in Routers : Down(place[2]) = RouterNode(r) => port \in Candidates(r, d)

\* All flits keep to the routing tables, and to the columns of their destinations.
RoutesXY == \A f \in Flits : RoutedTo(DestOf(f), at[f], outport[at[f][2]])

\* A flit is for one of the interfaces.
LEMMA DestIsInterface ==
    ASSUME TypeOK, NEW f \in Flits PROVE DestOf(f) \in NIs
<1>1. trace \in [1 .. MaxRecords -> Record] /\ f[1] \in 1 .. MaxRecords
  BY GarnetAssumption DEF TypeOK, Flits
<1>2. trace[f[1]] \in Record
  BY <1>1
<1> QED BY <1>2 DEF DestOf, Record

\* A flit with a channel of its interface, or with none, keeps to the order.
LEMMA OffTheColumns ==
    /\ \A n \in NIs : ~AlongColumn(InjectChannel(n))
    /\ "waiting" \notin Stages /\ "absent" \notin Stages /\ "received" \notin Stages
BY DEF AlongColumn, IsLink, InjectChannel, Up, NINode, Stages

\* No flit has been routed yet.
LEMMA InitRoutesXY == Init => RoutesXY
<1> SUFFICES ASSUME Init, NEW f \in Flits PROVE RoutedTo(DestOf(f), at[f], outport[at[f][2]])
  BY DEF RoutesXY
<1>1. at[f] = <<"waiting", Nowhere>> \/ at[f] = <<"absent", Nowhere>>
  BY DEF Init
<1> QED BY <1>1, OffTheColumns DEF RoutedTo

\* An interface injects into its own channel, which is in no column.
LEMMA InterfaceRoutesXY ==
    ASSUME RoutesXY, NEW n \in NIs, NetworkInterfaceWakeup(n)
    PROVE  RoutesXY'
<1>1. trace' = trace /\ outport' = outport
  BY DEF NetworkInterfaceWakeup
<1>2. \A f \in Flits : at'[f] = <<"queue", InjectChannel(n)>> \/ at'[f] = <<"received", EjectChannel(n)>>
                         \/ at'[f] = at[f]
  BY DEF NetworkInterfaceWakeup
<1> SUFFICES ASSUME NEW f \in Flits PROVE RoutedTo(DestOf(f), at'[f], outport[at'[f][2]])
  BY <1>1 DEF RoutesXY, DestOf
<1>3. CASE at'[f] = at[f]
  BY <1>3 DEF RoutesXY
<1>4. CASE at'[f] = <<"queue", InjectChannel(n)>>
  BY <1>4, OffTheColumns DEF RoutedTo
<1>5. CASE at'[f] = <<"received", EjectChannel(n)>>
  BY <1>5, OffTheColumns DEF RoutedTo
<1> QED BY <1>2, <1>3, <1>4, <1>5

\* A flit link keeps a flit on its channel.
LEMMA LinkRoutesXY ==
    ASSUME RoutesXY, NEW c \in Channels, FlitLinkWakeup(c)
    PROVE  RoutesXY'
<1>1. trace' = trace /\ outport' = outport
  BY DEF FlitLinkWakeup
<1>2. \A f \in Flits : at'[f] = at[f] \/ (at[f] = <<"queue", c>> /\ at'[f] = <<"link", c>>)
  <2>1. CASE at' = at
    BY <2>1
  <2>2. CASE \E g \in In("queue", c) : at' = [at EXCEPT ![g] = <<"link", c>>]
    BY <2>2 DEF In
  <2> QED BY <2>1, <2>2 DEF FlitLinkWakeup
<1> SUFFICES ASSUME NEW f \in Flits PROVE RoutedTo(DestOf(f), at'[f], outport[at'[f][2]])
  BY <1>1 DEF RoutesXY, DestOf
<1>3. RoutedTo(DestOf(f), at[f], outport[at[f][2]])
  BY DEF RoutesXY
<1>4. CASE at[f] = <<"queue", c>> /\ at'[f] = <<"link", c>>
  BY <1>3, <1>4 DEF RoutedTo, Stages
<1> QED BY <1>2, <1>3, <1>4

\* What a step of router r may do to the channel of a flit for interface d
Moved(r, d, from, to) == to = from \/ (Down(from) = RouterNode(r) /\ to \in Candidates(r, d))

\* A router sends a flit where the table says, now or when its turn comes.
LEMMA RouterRoutesXY ==
    ASSUME IsMesh, IInv, RoutesXY, NEW r \in Routers, RouterWakeup(r)
    PROVE  RoutesXY' /\ \A f \in Flits : Moved(r, DestOf(f), at[f][2], at'[f][2])
<1>1. PICK arrived \in Arrivals(r) : \E route \in Routes(r, arrived) :
        \E winners \in Winners(Requests(r, PortOf(r, arrived, route)), PortOf(r, arrived, route)) :
           Forward(r, arrived, PortOf(r, arrived, route), winners)
  BY DEF RouterWakeup
<1>2. PICK route \in Routes(r, arrived) :
        \E winners \in Winners(Requests(r, PortOf(r, arrived, route)), PortOf(r, arrived, route)) :
           Forward(r, arrived, PortOf(r, arrived, route), winners)
  BY <1>1
<1> DEFINE port == PortOf(r, arrived, route)
           here == arrived \cup Buffered(r)
<1>3. PICK winners \in Winners(Requests(r, port), port) : Forward(r, arrived, port, winners)
  BY <1>2
<1> DEFINE left == {at[f][2] : f \in winners}
<1>4. TypeOK /\ trace' = trace
  BY DEF IInv, RouterWakeup
<1>5. ASSUME NEW f \in here
      PROVE  /\ f \in Flits /\ at[f][2] \in Channels /\ Down(at[f][2]) = RouterNode(r)
             /\ Holders(at[f][2]) = {f}
             /\ f \notin arrived => at[f][1] = "buffer"
  <2>1. /\ f \in Flits /\ at[f][2] \in Channels /\ Down(at[f][2]) = RouterNode(r)
        /\ f \in Holders(at[f][2])
        /\ f \notin arrived => at[f][1] = "buffer"
    BY DEF Arrivals, Buffered, InChannels, Holders, Stages
  <2> QED BY <2>1, HolderIsAlone
<1>6. ASSUME NEW f \in here PROVE port[f] \in Candidates(r, DestOf(f))
  <2>1. CASE f \in arrived
    BY <2>1 DEF PortOf, Routes
  <2>2. CASE f \notin arrived
    <3>1. port[f] = outport[at[f][2]]
      BY <2>2 DEF PortOf
    <3>2. RoutedTo(DestOf(f), at[f], outport[at[f][2]])
      BY <1>5 DEF RoutesXY
    <3> QED BY <1>5, <2>2, <3>1, <3>2 DEF RoutedTo
  <2> QED BY <2>1, <2>2
<1>7. winners \subseteq here
  BY DEF Winners, Requests, PortOf
<1>8. at' = Traversed(winners, arrived, port)
  BY <1>3 DEF Forward
<1>9. outport' = [c \in Channels |->
                    CASE c \in left -> NoPort
                      [] \E f \in arrived \ winners : at[f][2] = c ->
                           port[CHOOSE f \in arrived \ winners : at[f][2] = c]
                      [] OTHER -> outport[c]]
  BY <1>3 DEF Forward
<1> HIDE DEF port, here, left
<1>10. ASSUME NEW f \in Flits
       PROVE  /\ f \in winners => at'[f] = <<"queue", port[f]>>
              /\ f \in arrived \ winners => at'[f] = <<"buffer", at[f][2]>>
              /\ f \notin arrived \cup winners => at'[f] = at[f]
  BY <1>8 DEF Traversed
<1> SUFFICES ASSUME NEW f \in Flits
             PROVE  /\ RoutedTo(DestOf(f), at'[f], outport'[at'[f][2]])
                    /\ Moved(r, DestOf(f), at[f][2], at'[f][2])
  BY <1>4 DEF RoutesXY, DestOf
<1>11. DestOf(f) \in NIs /\ RoutedTo(DestOf(f), at[f], outport[at[f][2]])
  BY <1>4, DestIsInterface DEF RoutesXY
<1>12. CASE f \in winners
  <2>1. at'[f] = <<"queue", port[f]>> /\ port[f] \in Candidates(r, DestOf(f))
    BY <1>6, <1>7, <1>10, <1>12
  <2>2. AlongColumn(port[f]) => Col(Down(port[f])[2]) = Col(RouterOf(DestOf(f)))
    BY <1>11, <2>1, EntersItsColumn
  <2>3. Down(at[f][2]) = RouterNode(r)
    BY <1>5, <1>7, <1>12
  <2> QED BY <2>1, <2>2, <2>3 DEF RoutedTo, Moved
<1>13. CASE f \in arrived \ winners
  <2>1. at'[f] = <<"buffer", at[f][2]>> /\ f \in here
    BY <1>10, <1>13 DEF here
  <2>2. Holders(at[f][2]) = {f} /\ at[f][2] \in Channels /\ Down(at[f][2]) = RouterNode(r)
    BY <1>5, <2>1
  <2>3. \A g \in here : at[g][2] = at[f][2] => g = f
    BY <1>5, <2>2
  <2>4. at[f][2] \notin left
    BY <1>7, <1>13, <2>3 DEF left
  <2>5. (CHOOSE g \in arrived \ winners : at[g][2] = at[f][2]) = f
    BY <1>13, <2>3 DEF here
  <2>6. outport'[at[f][2]] = port[f]
    BY <1>9, <1>13, <2>2, <2>4, <2>5
  <2>7. port[f] \in Candidates(r, DestOf(f))
    BY <1>6, <2>1
  <2>8. \A q \in Routers : Down(at[f][2]) = RouterNode(q) => q = r
    BY <2>2 DEF RouterNode
  <2>9. at[f][1] \in Stages
    BY <2>2 DEF Holders
  <2>10. AlongColumn(at[f][2]) => Col(Down(at[f][2])[2]) = Col(RouterOf(DestOf(f)))
    BY <1>11, <2>9 DEF RoutedTo
  <2> QED BY <2>1, <2>6, <2>7, <2>8, <2>10 DEF RoutedTo, Moved
<1>14. CASE f \notin arrived \cup winners
  <2>1. at'[f] = at[f]
    BY <1>10, <1>14
  <2>2. CASE at[f][1] # "buffer"
    BY <1>11, <2>1, <2>2 DEF RoutedTo, Moved
  <2>3. CASE at[f][1] = "buffer"
    <3>1. at[f][2] \in Channels /\ f \in Holders(at[f][2])
      BY <1>4, <2>3, PlaceOf DEF Holders, Stages
    <3>2. Holders(at[f][2]) = {f}
      BY <3>1, HolderIsAlone
    <3>3. \A g \in here : at[g][2] = at[f][2] => g = f
      BY <1>5, <3>2
    <3>4. at[f][2] \notin left /\ ~\E g \in arrived \ winners : at[g][2] = at[f][2]
      BY <1>7, <1>14, <3>3 DEF left, here
    <3>5. outport'[at[f][2]] = outport[at[f][2]]
      BY <1>9, <3>1, <3>4
    <3> QED BY <1>11, <2>1, <3>5 DEF Moved
  <2> QED BY <2>2, <2>3
<1> QED BY <1>12, <1>13, <1>14

\* Only a router takes a flit from one link to another, and not into a row.
LEMMA NoTurnIntoARow ==
    ASSUME IsMesh, IInv, RoutesXY, [Next]_vars, NEW f \in Flits, at[f][1] \in Stages,
           AlongColumn(at[f][2])
    PROVE  ~AlongRow(at'[f][2])
<1>1. CASE at'[f][2] = at[f][2]
  BY <1>1 DEF AlongColumn
<1>2. ASSUME NEW n \in NIs, NetworkInterfaceWakeup(n) PROVE ~AlongRow(at'[f][2])
  <2>1. \/ at'[f] = <<"queue", InjectChannel(n)>> \/ at'[f] = <<"received", EjectChannel(n)>>
        \/ at'[f] = at[f]
    BY <1>2 DEF NetworkInterfaceWakeup
  <2> QED BY <1>1, <2>1 DEF AlongRow, IsLink, InjectChannel, EjectChannel, Up, Down, NINode
<1>3. ASSUME NEW r \in Routers, RouterWakeup(r) PROVE ~AlongRow(at'[f][2])
  <2>1. Moved(r, DestOf(f), at[f][2], at'[f][2])
    BY <1>3, RouterRoutesXY
  <2>2. CASE Down(at[f][2]) = RouterNode(r) /\ at'[f][2] \in Candidates(r, DestOf(f))
    <3>1. DestOf(f) \in NIs /\ RoutedTo(DestOf(f), at[f], outport[at[f][2]])
      BY DestIsInterface DEF RoutesXY, IInv
    <3>2. Col(r) = Col(RouterOf(DestOf(f)))
      BY <2>2, <3>1 DEF RoutedTo, RouterNode
    <3> QED BY <2>2, <3>1, <3>2, StaysInColumn
  <2> QED BY <1>1, <2>1, <2>2 DEF Moved
<1>4. ASSUME NEW c \in Channels, FlitLinkWakeup(c) PROVE at'[f][2] = at[f][2]
  <2>1. CASE at' = at
    BY <2>1
  <2>2. CASE \E g \in In("queue", c) : at' = [at EXCEPT ![g] = <<"link", c>>]
    <3>1. PICK g \in In("queue", c) : at' = [at EXCEPT ![g] = <<"link", c>>]
      BY <2>2
    <3>2. at[g] = <<"queue", c>>
      BY <3>1 DEF In
    <3>3. at'[f] = IF f = g THEN <<"link", c>> ELSE at[f]
      BY <3>1 DEF IInv, TypeOK
    <3> QED BY <3>2, <3>3
  <2> QED BY <1>4, <2>1, <2>2 DEF FlitLinkWakeup
<1>5. CASE \/ \E c \in Channels : CreditLinkWakeup(c)
           \/ Tick \/ Ended \/ UNCHANGED vars
  BY <1>1, <1>5 DEF CreditLinkWakeup, Tick, Ended, vars
<1> QED BY <1>1, <1>2, <1>3, <1>4, <1>5 DEF Next, Step

\* On a mesh no flit turns from a column into a row, however many routers it
\* has, whatever the trace and the order of the wakeups: the link weights of
\* AnyNET_XY make table routing an XY routing, with one VC and without the
\* turns a deadlock of a mesh needs.
THEOREM XYOrderCorrect ==
    ASSUME IsMesh PROVE Spec => XYOrder
<1>1. Init => RoutesXY
  BY InitRoutesXY
<1>2. IInv /\ RoutesXY /\ [Next]_vars => RoutesXY'
  <2>1. SUFFICES ASSUME IInv, RoutesXY, [Next]_vars PROVE RoutesXY'
    OBVIOUS
  <2>2. CASE \E n \in NIs : NetworkInterfaceWakeup(n)
    BY <2>1, <2>2, InterfaceRoutesXY
  <2>3. CASE \E r \in Routers : RouterWakeup(r)
    BY <2>1, <2>3, RouterRoutesXY
  <2>4. CASE \E c \in Channels : FlitLinkWakeup(c)
    BY <2>1, <2>4, LinkRoutesXY
  <2>5. CASE \/ \E c \in Channels : CreditLinkWakeup(c)
             \/ Tick \/ Ended \/ UNCHANGED vars
    <3>1. trace' = trace /\ at' = at /\ outport' = outport
      BY <2>5 DEF CreditLinkWakeup, Tick, Ended, vars
    <3> QED BY <2>1, <3>1 DEF RoutesXY, DestOf
  <2> QED BY <2>1, <2>2, <2>3, <2>4, <2>5 DEF Next, Step
<1>3. IInv /\ RoutesXY /\ [Next]_vars => [\A f \in Flits : ~TurnsIntoARow(f)]_vars
  BY NoTurnIntoARow DEF TurnsIntoARow
<1> QED BY <1>1, <1>2, <1>3, GarnetInvariant, PTL DEF Spec, XYOrder
=============================================================================
