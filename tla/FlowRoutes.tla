----------------------------- MODULE FlowRoutes -----------------------------
(***************************************************************************)
(* The flows and virtual ports a RIST receiver has seen (FlowRoutes in     *)
(* kinugasa-media/src/rist.rs). A flow belongs to one port and a port to   *)
(* one flow; those that break this are quarantined until every flow        *)
(* involved has timed out. The decision on a packet is only noted, the     *)
(* packet goes to its camera anyway; the routes decide which camera the    *)
(* statistics of a flow go to and which cameras a timeout disconnects.     *)
(***************************************************************************)
EXTENDS FiniteSets

CONSTANTS Flows, Ports, NoFlow, NoPort

ASSUME NoneAssumption == NoFlow \notin Flows /\ NoPort \notin Ports

VARIABLES
  ports,     \* ports_by_flow: the ports a flow was seen on; {} for an unknown flow
  port_of,   \* port_by_flow
  flow_of,   \* flow_by_port
  collided,  \* collided_flows
  errored,   \* errored_ports
  connected, \* the ports whose camera has got a packet and no disconnection since
  decision   \* of the last step

routeVars == <<ports, port_of, flow_of, collided, errored>>
vars == <<routeVars, connected, decision>>

NoDecision == [kind |-> "none", flow |-> NoFlow, port |-> NoPort]

TypeOK ==
  /\ ports \in [Flows -> SUBSET Ports]
  /\ port_of \in [Flows -> Ports \cup {NoPort}]
  /\ flow_of \in [Ports -> Flows \cup {NoFlow}]
  /\ collided \subseteq Flows
  /\ errored \subseteq Ports
  /\ connected \subseteq Ports
  /\ decision \in
       {NoDecision}
         \cup [kind : {"accepted", "rejected", "collision"}, flow : Flows, port : Ports]

Init ==
  /\ ports = [f \in Flows |-> {}]
  /\ port_of = [f \in Flows |-> NoPort]
  /\ flow_of = [p \in Ports |-> NoFlow]
  /\ collided = {} /\ errored = {}
  /\ connected = {}
  /\ decision = NoDecision

-----------------------------------------------------------------------------
(* handle_data: a packet of a flow on a port.                              *)

Observes(f, p, kind) ==
  /\ ports' = [ports EXCEPT ![f] = @ \cup {p}]
  /\ connected' = connected \cup {p}
  /\ decision' = [kind |-> kind, flow |-> f, port |-> p]

\* Mutant of IsQuarantined: the port is not looked at.
IsCollided(f, p) == f \in collided

IsQuarantined(f, p) == f \in collided \/ p \in errored

\* Mutant of Quarantined: the sets are taken for each other.
QuarantinedSwapped(f, p) ==
  /\ IsQuarantined(f, p)
  /\ Observes(f, p, IF p \in errored THEN "rejected" ELSE "collision")
  /\ collided' = collided \cup {p}
  /\ errored' = errored \cup {f}
  /\ UNCHANGED <<port_of, flow_of>>

\* Quarantine spreads from the flow to the port and from the port to the flow.
Quarantined(f, p) ==
  /\ IsQuarantined(f, p)
  /\ Observes(f, p, IF p \in errored THEN "rejected" ELSE "collision")
  /\ collided' = collided \cup {f}
  /\ errored' = errored \cup {p}
  /\ UNCHANGED <<port_of, flow_of>>

Binds(f, p) == port_of[f] = NoPort /\ flow_of[p] = NoFlow

Accepted(f, p) ==
  /\ ~ IsQuarantined(f, p)
  /\ Binds(f, p) \/ (port_of[f] = p /\ flow_of[p] = f)
  /\ Observes(f, p, "accepted")
  /\ port_of' = [port_of EXCEPT ![f] = p]
  /\ flow_of' = [flow_of EXCEPT ![p] = f]
  /\ UNCHANGED <<collided, errored>>

\* The flow and the flow that has the port collide, on all ports they were
\* seen on.
Collision(f, p) ==
  LET affected == {f} \cup ({flow_of[p]} \ {NoFlow})
  IN /\ ~ IsQuarantined(f, p)
     /\ ~ Binds(f, p) /\ ~ (port_of[f] = p /\ flow_of[p] = f)
     /\ Observes(f, p, "collision")
     /\ collided' = collided \cup affected
     /\ errored' = errored \cup {p} \cup UNION {ports[g] : g \in affected}
     /\ UNCHANGED <<port_of, flow_of>>

StatisticsPort(f) == IF f \in collided THEN NoPort ELSE port_of[f]

-----------------------------------------------------------------------------
(* handle_session_timeout: librist has lost a flow.                        *)

Unused(f) == {p \in ports[f] : \A g \in Flows \ {f} : p \notin ports[g]}

\* Mutant of Timeout: the ports stay in quarantine.
TimeoutKeepingErrors(f) ==
  /\ ports' = [ports EXCEPT ![f] = {}]
  /\ port_of' = [port_of EXCEPT ![f] = NoPort]
  /\ flow_of' = [p \in Ports |-> IF flow_of[p] = f THEN NoFlow ELSE flow_of[p]]
  /\ collided' = collided \ {f}
  /\ connected' = connected \ Unused(f)
  /\ decision' = NoDecision
  /\ UNCHANGED errored

\* The flow is forgotten, and each port it was the last flow of.
Timeout(f) ==
  /\ ports' = [ports EXCEPT ![f] = {}]
  /\ port_of' = [port_of EXCEPT ![f] = NoPort]
  /\ flow_of' = [p \in Ports |->
                   IF p = port_of[f] /\ flow_of[p] = f THEN NoFlow ELSE flow_of[p]]
  /\ collided' = collided \ {f}
  /\ errored' = errored \ Unused(f)
  /\ connected' = connected \ Unused(f)
  /\ decision' = NoDecision

Next ==
  \E f \in Flows :
    \/ \E p \in Ports : Quarantined(f, p) \/ Accepted(f, p) \/ Collision(f, p)
    \/ Timeout(f)

Spec == Init /\ [][Next]_vars

-----------------------------------------------------------------------------
\* The two maps between flows and ports stay inverse to each other, whatever
\* collides and times out (port_by_flow, flow_by_port).
RoutesInverse ==
  \A f \in Flows, p \in Ports : port_of[f] = p <=> flow_of[p] = f

\* Quarantine ends: only flows that have not timed out are collided, and only
\* their ports are errored, so that nothing is left once all have timed out
\* (FlowRoutes::timeout).
QuarantineEnds ==
  /\ \A f \in collided : ports[f] # {}
  /\ errored \subseteq UNION {ports[f] : f \in Flows}

\* Statistics are attributed to the camera of a flow only while the flow has
\* been seen on no other port (statistics_port).
StatisticsAreUnambiguous ==
  \A f \in Flows : StatisticsPort(f) # NoPort => ports[f] = {StatisticsPort(f)}

\* A packet is accepted only if no other flow is known on its port.
AcceptedIsExclusive ==
  decision.kind = "accepted" =>
    \A f \in Flows : decision.port \in ports[f] => f = decision.flow

\* A camera is told that its stream is gone when the last flow on its port has
\* timed out, not before and not later.
ConnectedWhileFlows == connected = UNION {ports[f] : f \in Flows}

\* A timeout takes away exactly what belonged to its flow: quarantine and
\* connections end with the last flow they come from (FlowRoutes::timeout).
TimeoutsAreExact == QuarantineEnds /\ ConnectedWhileFlows

\* What comes over a flow, packets and statistics, is attributed to a camera only
\* while nothing else is known of its flow and of its port, by two maps that say the same.
AttributionIsExclusive == RoutesInverse /\ AcceptedIsExclusive /\ StatisticsAreUnambiguous
=============================================================================
