--------------------------- MODULE CameraRegistry ---------------------------
(***************************************************************************)
(* The registry of provisioned cameras (kinugasa-media/src/service.rs) and *)
(* the two pools of ports it hands out: a UDP port of the RIST server for  *)
(* each camera (rist.rs), and a virtual port in the camera's session,      *)
(* which the database keeps for the next start of the process. The passes  *)
(* of reconcile_camera_resources drive it, at startup for every camera.    *)
(*                                                                         *)
(* An operation of the registry holds its write lock and is one step.      *)
(***************************************************************************)
EXTENDS Naturals

CONSTANTS
  Cameras, NoCamera,
  Sessions, SessionOf,  \* the session of each camera
  LastPort,             \* the virtual ports are 1 .. LastPort
  RistPorts

ASSUME LastPortAssumption == LastPort \in Nat \ {0}
ASSUME CamerasAssumption == NoCamera \notin Cameras /\ SessionOf \in [Cameras -> Sessions]
ASSUME RistPortsAssumption == RistPorts \subseteq Nat \ {0}

VARIABLES
  row,        \* camera_connections: "provisioned" stands for the states of an endpoint
  saved,      \* its virtual_port, 0 for none
  registered, \* by_id: the virtual port of a registered camera, 0 for none
  entries,    \* the sessions with routes
  routes,     \* by_virtual_port of each session
  nextPort,   \* next_virtual_port of each session
  available,  \* the free ports of the RIST server
  receiver,   \* the RIST port of a camera, 0 for none
  published,  \* the cameras of the MoQ server
  starting,   \* the startup pass has not begun
  task        \* what the task of a camera in the pass does next

rowVars      == <<row, saved>>
routeVars    == <<registered, entries, routes, nextPort>>
ristVars     == <<available, receiver>>
registryVars == <<routeVars, ristVars, published>>
vars == <<rowVars, registryVars, starting, task>>

VirtualPorts == 1 .. LastPort

\* port: of the request, as listed, or the one to save.
Task == [op : {"none", "provision", "save", "revoke", "delete"}, port : 0 .. LastPort]
NoTask == [op |-> "none", port |-> 0]

NoRoutes == [p \in VirtualPorts |-> NoCamera]

TypeOK ==
  /\ row \in [Cameras -> {"absent", "activating", "provisioned", "deleting", "deleted"}]
  /\ saved \in [Cameras -> 0 .. LastPort]
  /\ registered \in [Cameras -> 0 .. LastPort]
  /\ entries \subseteq Sessions
  /\ routes \in [Sessions -> [VirtualPorts -> Cameras \cup {NoCamera}]]
  /\ nextPort \in [Sessions -> VirtualPorts]
  /\ available \subseteq RistPorts
  /\ receiver \in [Cameras -> RistPorts \cup {0}]
  /\ published \subseteq Cameras
  /\ starting \in BOOLEAN
  /\ task \in [Cameras -> Task]

EmptyRegistry ==
  /\ registered = [c \in Cameras |-> 0]
  /\ entries = {} /\ routes = [s \in Sessions |-> NoRoutes]
  /\ nextPort = [s \in Sessions |-> 1]
  /\ available = RistPorts /\ receiver = [c \in Cameras |-> 0]
  /\ published = {}

Init ==
  /\ row = [c \in Cameras |-> "absent"] /\ saved = [c \in Cameras |-> 0]
  /\ EmptyRegistry
  /\ starting = TRUE
  /\ task = [c \in Cameras |-> NoTask]

-----------------------------------------------------------------------------
(* The console and the process.                                            *)

Create(c) ==
  /\ ~ starting /\ row[c] = "absent"
  /\ row' = [row EXCEPT ![c] = "activating"]
  /\ UNCHANGED <<saved, registryVars, starting, task>>

RequestDeletion(c) ==
  /\ ~ starting /\ row[c] \in {"activating", "provisioned"}
  /\ row' = [row EXCEPT ![c] = "deleting"]
  /\ UNCHANGED <<saved, registryVars, starting, task>>

\* The process is killed, or stops, and starts again.
Restart ==
  /\ registered' = [c \in Cameras |-> 0]
  /\ entries' = {} /\ routes' = [s \in Sessions |-> NoRoutes]
  /\ nextPort' = [s \in Sessions |-> 1]
  /\ available' = RistPorts /\ receiver' = [c \in Cameras |-> 0]
  /\ published' = {}
  /\ starting' = TRUE
  /\ task' = [c \in Cameras |-> NoTask]
  /\ UNCHANGED rowVars

Listed(c) ==
  IF row[c] = "deleting" THEN [op |-> "revoke", port |-> 0]
  ELSE IF row[c] = "activating" \/ (starting /\ row[c] = "provisioned")
       THEN [op |-> "provision", port |-> saved[c]]
  ELSE NoTask

\* A pass lists the rows and spawns a task per camera; the tasks end before
\* the next pass begins.
Pass ==
  /\ task = [c \in Cameras |-> NoTask]
  /\ task' = [c \in Cameras |-> Listed(c)]
  /\ starting' = FALSE
  /\ UNCHANGED <<rowVars, registryVars>>

Runs(c, op) == task[c].op = op

Becomes(c, op, port) == task' = [task EXCEPT ![c] = [op |-> op, port |-> port]]

\* The camera is left to a later pass, which may find it.
Deferred(c) == task' = [task EXCEPT ![c] = NoTask]

-----------------------------------------------------------------------------
(* The virtual ports of a session.                                         *)

Free(s) == {p \in VirtualPorts : routes[s][p] = NoCamera}

\* Mutant of Following: the last port has a successor.
FollowingLast(port) == port + 1

Following(port) == IF port = LastPort THEN 1 ELSE port + 1

\* p comes before q on the way around from the next port of the session.
Precedes(s, p, q) ==
  LET n == nextPort[s]
  IN IF p >= n THEN q < n \/ p <= q ELSE q < n /\ p <= q

IsNextFree(s, p) == \A q \in Free(s) : Precedes(s, p, q)

\* Mutant of MayGet: a new port for every registration.
MayGetNew(c, port) == IsNextFree(SessionOf[c], port)

\* The port of the request, or the one that is allocated.
MayGet(c, port) ==
  IF task[c].port # 0 THEN port = task[c].port ELSE IsNextFree(SessionOf[c], port)

\* A conflict with the port of the request, or no port left.
HasNoPort(c) ==
  IF task[c].port # 0 THEN task[c].port \notin Free(SessionOf[c])
  ELSE Free(SessionOf[c]) = {}

Registers(c, port) ==
  /\ Runs(c, "provision") /\ registered[c] = 0
  /\ port \in Free(SessionOf[c]) /\ MayGet(c, port)

\* An allocation that fails later on has moved nextPort, unless the entry it
\* was inserted with is removed again.
PortPassed(c, port) ==
  nextPort' =
    IF SessionOf[c] \in entries /\ task[c].port = 0
    THEN [nextPort EXCEPT ![SessionOf[c]] = Following(port)]
    ELSE nextPort

-----------------------------------------------------------------------------
(* The tasks of a pass.                                                    *)

\* The camera is registered already, with the port of the request if any.
ProvisionKnown(c) ==
  /\ Runs(c, "provision") /\ registered[c] # 0
  /\ \/ task[c].port \in {0, registered[c]} /\ Becomes(c, "save", registered[c])
     \/ Deferred(c)  \* another port, or the MoQ server fails
  /\ UNCHANGED <<rowVars, registryVars, starting>>

ProvisionRefused(c) ==
  /\ Runs(c, "provision") /\ registered[c] = 0
  /\ HasNoPort(c)
  /\ Deferred(c)
  /\ UNCHANGED <<rowVars, registryVars, starting>>

\* No UDP port is left, or librist fails.
RistFails(c, port) ==
  /\ Registers(c, port)
  /\ PortPassed(c, port)
  /\ Deferred(c)
  /\ UNCHANGED <<rowVars, registered, entries, routes, ristVars, published, starting>>

\* RistServer::provision_camera: the first free UDP port.
ReceiverOpens(c) ==
  \E port \in available :
    /\ \A other \in available : port <= other
    /\ available' = available \ {port}
    /\ receiver' = [receiver EXCEPT ![c] = port]

\* Mutant of MoqFails: the receiver is left in place.
MoqFailsKeepingReceiver(c, port) ==
  /\ Registers(c, port)
  /\ ReceiverOpens(c)
  /\ PortPassed(c, port)
  /\ Deferred(c)
  /\ UNCHANGED <<rowVars, registered, entries, routes, published, starting>>

\* The receiver is opened and closed again: its port goes back.
MoqFails(c, port) ==
  /\ Registers(c, port) /\ available # {}
  /\ PortPassed(c, port)
  /\ Deferred(c)
  /\ UNCHANGED <<rowVars, registered, entries, routes, ristVars, published, starting>>

Provision(c, port) ==
  LET s == SessionOf[c]
  IN /\ Registers(c, port)
     /\ ReceiverOpens(c)
     /\ published' = published \cup {c}
     /\ entries' = entries \cup {s}
     /\ nextPort' = IF task[c].port = 0 THEN [nextPort EXCEPT ![s] = Following(port)]
                    ELSE nextPort
     /\ routes' = [routes EXCEPT ![s][port] = c]
     /\ registered' = [registered EXCEPT ![c] = port]
     /\ Becomes(c, "save", port)
     /\ UNCHANGED <<rowVars, starting>>

Save(c) ==
  /\ Runs(c, "save")
  /\ \/ /\ row' = [row EXCEPT ![c] = IF @ = "deleting" THEN @ ELSE "provisioned"]
        /\ saved' = [saved EXCEPT ![c] = task[c].port]
     \/ UNCHANGED rowVars  \* the transaction fails
  /\ Deferred(c)
  /\ UNCHANGED <<registryVars, starting>>

\* RistServer::revoke_camera, whether librist closes the receiver or not.
ReceiverCloses(c) ==
  /\ available' = available \cup ({receiver[c]} \ {0})
  /\ receiver' = [receiver EXCEPT ![c] = 0]

\* librist fails to close the receiver, which is gone all the same; the rest of
\* the registration stays for the next pass.
RevokeFails(c) ==
  /\ Runs(c, "revoke") /\ receiver[c] # 0
  /\ ReceiverCloses(c)
  /\ Deferred(c)
  /\ UNCHANGED <<rowVars, routeVars, published, starting>>

\* The last route takes the entry of its session with it, nextPort included.
Unregistered(c) ==
  LET s == SessionOf[c]
  IN /\ registered' = [registered EXCEPT ![c] = 0]
     /\ routes' = [routes EXCEPT ![s][registered[c]] = NoCamera]
     /\ IF \A p \in VirtualPorts \ {registered[c]} : routes[s][p] = NoCamera
        THEN entries' = entries \ {s} /\ nextPort' = [nextPort EXCEPT ![s] = 1]
        ELSE UNCHANGED <<entries, nextPort>>

Revoke(c) ==
  /\ Runs(c, "revoke")
  /\ \/ /\ registered[c] # 0
        /\ ReceiverCloses(c) /\ Unregistered(c)
        /\ published' = published \ {c}
     \/ registered[c] = 0 /\ UNCHANGED registryVars
  /\ Becomes(c, "delete", 0)
  /\ UNCHANGED <<rowVars, starting>>

\* The row is deleted, or still referenced by a recording.
DeleteRow(c) ==
  /\ Runs(c, "delete")
  /\ \/ /\ row' = [row EXCEPT ![c] = "deleted"]
        /\ saved' = [saved EXCEPT ![c] = 0]
     \/ UNCHANGED rowVars
  /\ Deferred(c)
  /\ UNCHANGED <<registryVars, starting>>

CameraStep(c) ==
  \/ Create(c) \/ RequestDeletion(c)
  \/ ProvisionKnown(c) \/ ProvisionRefused(c)
  \/ \E port \in VirtualPorts : RistFails(c, port) \/ MoqFails(c, port) \/ Provision(c, port)
  \/ Save(c) \/ RevokeFails(c) \/ Revoke(c) \/ DeleteRow(c)

Next == Restart \/ Pass \/ \E c \in Cameras : CameraStep(c)

Spec == Init /\ [][Next]_vars

-----------------------------------------------------------------------------
\* The routes of the sessions and the registered cameras agree, so that a packet
\* reaches the camera its port was given to and no other, after any sequence of
\* registrations, failures and revocations (camera_for_session_route).
RoutesAgree ==
  \A c \in Cameras, s \in Sessions, p \in VirtualPorts :
    routes[s][p] = c <=> SessionOf[c] = s /\ registered[c] = p

\* A session has an entry as long as it has a route, and no longer: the entry
\* revoke_camera expects is there, and a failed registration leaves none.
EntryHasRoutes ==
  \A s \in Sessions : s \in entries <=> Free(s) # VirtualPorts

\* No UDP port is lost or given twice, whichever step of a registration or
\* revocation fails.
RistPortsConserved ==
  /\ available = RistPorts \ {receiver[c] : c \in Cameras}
  /\ \A c, d \in Cameras : receiver[c] = receiver[d] /\ receiver[c] # 0 => c = d

\* A registered camera has its receiver and its publication, unless it is being
\* deleted; a camera that is not has neither.
RegisteredIsServed ==
  \A c \in Cameras :
    IF registered[c] = 0 THEN receiver[c] = 0 /\ c \notin published
    ELSE c \in published /\ (receiver[c] # 0 \/ row[c] = "deleting")

\* No registration is left half done and no revocation half undone, whichever of
\* their steps fails (provision_camera, revoke_camera): the routes, the entries, the
\* UDP ports, the receivers and the publications are those of the registered cameras.
RegistrationIsWhole == RoutesAgree /\ EntryHasRoutes /\ RistPortsConserved /\ RegisteredIsServed

\* The endpoint in the row of a camera names the virtual port it is served at.
SavedPortIsServed ==
  \A c \in Cameras :
    row[c] = "provisioned" => saved[c] # 0 /\ registered[c] \in {0, saved[c]}
=============================================================================
