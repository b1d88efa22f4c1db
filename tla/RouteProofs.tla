---------------------------- MODULE RouteProofs ----------------------------
(***************************************************************************)
(* Theorems about module FlowRoutes, for any sets of flows and ports.      *)
(***************************************************************************)
EXTENDS FlowRoutes, TLAPS

\* The types hold in every reachable state.
THEOREM RouteTypes == Spec => []TypeOK
<1>1. Init => TypeOK
  BY DEF Init, TypeOK
<1>2. TypeOK /\ [Next]_vars => TypeOK'
  <2> USE DEF TypeOK, Observes
  <2>1. ASSUME TypeOK, NEW f \in Flows, NEW p \in Ports, Quarantined(f, p)
        PROVE  TypeOK'
    BY <2>1 DEF Quarantined
  <2>2. ASSUME TypeOK, NEW f \in Flows, NEW p \in Ports, Accepted(f, p)
        PROVE  TypeOK'
    BY <2>2 DEF Accepted
  <2>3. ASSUME TypeOK, NEW f \in Flows, NEW p \in Ports, Collision(f, p)
        PROVE  TypeOK'
    <3>1. {f} \cup ({flow_of[p]} \ {NoFlow}) \subseteq Flows
      BY <2>3
    <3> QED
      BY <2>3, <3>1 DEF Collision
  <2>4. ASSUME TypeOK, NEW f \in Flows, Timeout(f)
        PROVE  TypeOK'
    BY <2>4 DEF Timeout
  <2>5. ASSUME TypeOK, UNCHANGED vars PROVE TypeOK'
    BY <2>5 DEF vars, routeVars
  <2> QED
    BY <2>1, <2>2, <2>3, <2>4, <2>5 DEF Next
<1> QED
  BY <1>1, <1>2, PTL DEF Spec

-----------------------------------------------------------------------------
(* The routes. RouteInv adds to the properties what makes them inductive.  *)

\* A port in good standing is bound to the one flow that was seen on it.
SeenIsBound ==
  \A f \in Flows : \A p \in ports[f] : p \in errored \/ port_of[f] = p

\* A flow that is not collided was seen on the port it is bound to, if any.
BoundIsSeen ==
  \A f \in Flows :
    /\ port_of[f] # NoPort => port_of[f] \in ports[f]
    /\ f \notin collided => \A p \in ports[f] : port_of[f] = p

Seen == UNION {ports[f] : f \in Flows}

RouteInv ==
  /\ RoutesInverse /\ SeenIsBound /\ BoundIsSeen
  /\ \A f \in collided : ports[f] # {}
  /\ errored \subseteq Seen
  /\ connected = Seen

\* What a packet adds to the ports seen.
LEMMA ObservesSeen ==
  ASSUME TypeOK, NEW f \in Flows, NEW p \in Ports, NEW kind, Observes(f, p, kind)
  PROVE  Seen' = Seen \cup {p}
BY DEF Seen, Observes, TypeOK

\* What a timeout takes away.
LEMMA TimeoutSeen ==
  ASSUME TypeOK, NEW f \in Flows, Timeout(f)
  PROVE  Seen' = Seen \ Unused(f)
BY DEF Seen, Timeout, Unused, TypeOK

\* Every step keeps the invariant.
LEMMA RouteInvStep ==
  ASSUME TypeOK, RouteInv, Next
  PROVE  RouteInv'
<1> USE DEF TypeOK, RouteInv, RoutesInverse, SeenIsBound, BoundIsSeen, Observes
<1>1. ASSUME NEW f \in Flows, NEW p \in Ports, Quarantined(f, p) PROVE RouteInv'
  <2>1. Seen' = Seen \cup {p}
    BY <1>1, ObservesSeen DEF Quarantined
  <2> QED
    BY <1>1, <2>1 DEF Quarantined
<1>2. ASSUME NEW f \in Flows, NEW p \in Ports, Accepted(f, p) PROVE RouteInv'
  <2>1. Seen' = Seen \cup {p}
    BY <1>2, ObservesSeen DEF Accepted
  <2>2. RoutesInverse'
    BY <1>2, NoneAssumption DEF Accepted, Binds
  <2> QED
    BY <1>2, <2>1, <2>2 DEF Accepted, IsQuarantined, Binds
<1>3. ASSUME NEW f \in Flows, NEW p \in Ports, Collision(f, p) PROVE RouteInv'
  <2>1. Seen' = Seen \cup {p}
    BY <1>3, ObservesSeen DEF Collision
  <2> DEFINE affected == {f} \cup ({flow_of[p]} \ {NoFlow})
  <2>2. affected \subseteq Flows /\ f \in affected
    OBVIOUS
  <2>3. errored' = errored \cup {p} \cup UNION {ports[g] : g \in affected}
        /\ collided' = collided \cup affected
    BY <1>3 DEF Collision
  <2>4. errored' \subseteq Seen'
    BY SMTT(60), <2>1, <2>2, <2>3 DEF Seen
  <2>5. \A g \in affected : ports'[g] # {}
    BY <1>3, NoneAssumption DEF Collision
  <2>6. SeenIsBound' /\ BoundIsSeen' /\ RoutesInverse'
    BY <1>3, <2>2, <2>3 DEF Collision
  <2> QED
    BY <1>3, <2>1, <2>3, <2>4, <2>5, <2>6 DEF Collision
<1>4. ASSUME NEW f \in Flows, Timeout(f) PROVE RouteInv'
  <2>1. Seen' = Seen \ Unused(f)
    BY <1>4, TimeoutSeen
  <2>2. RoutesInverse'
    BY <1>4, NoneAssumption DEF Timeout
  <2>3. SeenIsBound' /\ BoundIsSeen'
    BY <1>4 DEF Timeout, Unused
  <2> QED
    BY <1>4, <2>1, <2>2, <2>3 DEF Timeout
<1> QED
  BY <1>1, <1>2, <1>3, <1>4 DEF Next

\* The invariant holds in every reachable state.
LEMMA RouteInvariant == Spec => []RouteInv
<1>1. Init => RouteInv
  BY NoneAssumption DEF Init, RouteInv, RoutesInverse, SeenIsBound, BoundIsSeen, Seen
<1>2. TypeOK /\ RouteInv /\ [Next]_vars => RouteInv'
  <2>1. ASSUME RouteInv, UNCHANGED vars PROVE RouteInv'
    BY <2>1 DEF RouteInv, RoutesInverse, SeenIsBound, BoundIsSeen, Seen, vars, routeVars
  <2> QED
    BY <2>1, RouteInvStep
<1> QED
  BY <1>1, <1>2, RouteTypes, PTL DEF Spec

\* The properties follow from the invariant.
LEMMA RouteInvImplies ==
  ASSUME TypeOK, RouteInv
  PROVE  RoutesInverse /\ QuarantineEnds /\ StatisticsAreUnambiguous /\ ConnectedWhileFlows
BY DEF TypeOK, RouteInv, BoundIsSeen, QuarantineEnds, StatisticsAreUnambiguous,
       StatisticsPort, ConnectedWhileFlows, Seen

\* Quarantine ends with the flows it is about, and a camera is disconnected
\* exactly with its last flow (FlowRoutes::timeout).
THEOREM TimeoutsExact == Spec => []TimeoutsAreExact
<1>1. QuarantineEnds /\ ConnectedWhileFlows => TimeoutsAreExact
  BY DEF TimeoutsAreExact
<1> QED
  BY <1>1, RouteInvariant, RouteTypes, RouteInvImplies, PTL

\* A packet is accepted only on a port no other flow is known on, in every
\* reachable state (FlowRoutes::observe).
LEMMA AcceptanceExclusive == Spec => []AcceptedIsExclusive
<1>1. Init => AcceptedIsExclusive
  BY DEF Init, AcceptedIsExclusive, NoDecision
<1>2. TypeOK /\ RouteInv /\ AcceptedIsExclusive /\ [Next]_vars => AcceptedIsExclusive'
  <2>1. ASSUME TypeOK, RouteInv, NEW f \in Flows, NEW p \in Ports, Accepted(f, p)
        PROVE  AcceptedIsExclusive'
    BY <2>1, NoneAssumption
    DEF Accepted, IsQuarantined, Binds, Observes, AcceptedIsExclusive, RouteInv,
        RoutesInverse, SeenIsBound, TypeOK
  <2>2. ASSUME NEW f \in Flows, NEW p \in Ports, Quarantined(f, p) \/ Collision(f, p)
        PROVE  AcceptedIsExclusive'
    BY <2>2 DEF Quarantined, Collision, Observes, AcceptedIsExclusive
  <2>3. ASSUME NEW f \in Flows, Timeout(f) PROVE AcceptedIsExclusive'
    BY <2>3 DEF Timeout, NoDecision, AcceptedIsExclusive
  <2>4. ASSUME AcceptedIsExclusive, UNCHANGED vars PROVE AcceptedIsExclusive'
    BY <2>4 DEF AcceptedIsExclusive, vars, routeVars
  <2> QED
    BY <2>1, <2>2, <2>3, <2>4 DEF Next
<1> QED
  BY <1>1, <1>2, RouteTypes, RouteInvariant, PTL DEF Spec

\* Packets and statistics are attributed to a camera only without doubt, and the maps
\* between flows and ports stay inverse to each other
\* (FlowRoutes::observe, FlowRoutes::statistics_port).
THEOREM AttributionExclusive == Spec => []AttributionIsExclusive
<1>1. RoutesInverse /\ AcceptedIsExclusive /\ StatisticsAreUnambiguous => AttributionIsExclusive
  BY DEF AttributionIsExclusive
<1> QED
  BY <1>1, AcceptanceExclusive, RouteInvariant, RouteTypes, RouteInvImplies, PTL
=============================================================================
