--------------------------- MODULE RegistryProofs ---------------------------
(***************************************************************************)
(* Theorems about module CameraRegistry, for any sets of cameras and       *)
(* sessions and any port pools.                                            *)
(***************************************************************************)
EXTENDS CameraRegistry, TLAPS

\* What the port of a registration is.
LEMMA RegistersPort ==
  ASSUME NEW c \in Cameras, NEW port \in VirtualPorts, Registers(c, port)
  PROVE  /\ registered[c] = 0
         /\ task[c].op = "provision"
         /\ routes[SessionOf[c]][port] = NoCamera
         /\ task[c].port # 0 => port = task[c].port
BY DEF Registers, Runs, Free, MayGet

\* The port after a virtual port is a virtual port.
LEMMA FollowingType ==
  ASSUME NEW port \in VirtualPorts
  PROVE  Following(port) \in VirtualPorts
BY LastPortAssumption DEF Following, VirtualPorts

\* What the tasks of a pass hand on has its type.
LEMMA TaskTypes ==
  ASSUME TypeOK, NEW c \in Cameras
  PROVE  /\ Deferred(c) => task' \in [Cameras -> Task]
         /\ \A op \in {"provision", "save", "revoke", "delete"}, port \in 0 .. LastPort :
              Becomes(c, op, port) => task' \in [Cameras -> Task]
<1>1. NoTask \in Task
  BY LastPortAssumption DEF NoTask, Task
<1>2. ASSUME NEW op \in {"provision", "save", "revoke", "delete"}, NEW port \in 0 .. LastPort,
             Becomes(c, op, port)
      PROVE  task' \in [Cameras -> Task]
  <2>1. [op |-> op, port |-> port] \in Task
    BY DEF Task
  <2> QED
    BY <1>2, <2>1 DEF Becomes, TypeOK
<1> QED
  BY <1>1, <1>2 DEF Deferred, TypeOK

\* The types hold in every reachable state.
LEMMA TypeStep ==
  ASSUME TypeOK, Next
  PROVE  TypeOK'
<1> USE DEF TypeOK, rowVars, routeVars, ristVars, registryVars
<1>a. \A c \in Cameras : SessionOf[c] \in Sessions
  BY CamerasAssumption
<1>v. VirtualPorts \subseteq 0 .. LastPort /\ 1 \in VirtualPorts /\ 0 \in 0 .. LastPort
  BY LastPortAssumption DEF VirtualPorts
<1>n. ASSUME NEW c \in Cameras, NEW port \in VirtualPorts, PortPassed(c, port)
      PROVE  nextPort' \in [Sessions -> VirtualPorts]
  BY <1>n, <1>a, FollowingType DEF PortPassed
<1>o. ASSUME NEW c \in Cameras, ReceiverOpens(c)
      PROVE  available' \subseteq RistPorts /\ receiver' \in [Cameras -> RistPorts \cup {0}]
  BY <1>o DEF ReceiverOpens
<1>c. ASSUME NEW c \in Cameras, ReceiverCloses(c)
      PROVE  available' \subseteq RistPorts /\ receiver' \in [Cameras -> RistPorts \cup {0}]
  BY <1>c DEF ReceiverCloses
<1>1. CASE Restart
  <2>1. NoTask \in Task
    BY LastPortAssumption DEF NoTask, Task
  <2>2. NoRoutes \in [VirtualPorts -> Cameras \cup {NoCamera}]
    BY DEF NoRoutes
  <2> QED
    BY <1>1, <1>v, <2>1, <2>2 DEF Restart
<1>2. CASE Pass
  <2>1. \A c \in Cameras : Listed(c) \in Task
    BY <1>v DEF Listed, Task, NoTask
  <2> QED
    BY <1>2, <2>1 DEF Pass
<1>3. ASSUME NEW c \in Cameras, Create(c) \/ RequestDeletion(c) PROVE TypeOK'
  BY <1>3 DEF Create, RequestDeletion
<1>4. ASSUME NEW c \in Cameras, ProvisionKnown(c) \/ ProvisionRefused(c) PROVE TypeOK'
  <2>1. task' \in [Cameras -> Task]
    BY <1>4, TaskTypes DEF ProvisionKnown, ProvisionRefused
  <2> QED
    BY <1>4, <2>1 DEF ProvisionKnown, ProvisionRefused
<1>5. ASSUME NEW c \in Cameras, NEW port \in VirtualPorts, RistFails(c, port) \/ MoqFails(c, port)
      PROVE  TypeOK'
  <2>1. task' \in [Cameras -> Task]
    BY <1>5, TaskTypes DEF RistFails, MoqFails
  <2> QED
    BY <1>5, <1>n, <2>1 DEF RistFails, MoqFails
<1>6. ASSUME NEW c \in Cameras, NEW port \in VirtualPorts, Provision(c, port) PROVE TypeOK'
  <2>1. task' \in [Cameras -> Task]
    BY <1>6, <1>v, TaskTypes DEF Provision
  <2>2. nextPort' \in [Sessions -> VirtualPorts]
    BY <1>6, <1>a, FollowingType DEF Provision
  <2>3. /\ entries' \subseteq Sessions
        /\ routes' \in [Sessions -> [VirtualPorts -> Cameras \cup {NoCamera}]]
        /\ registered' \in [Cameras -> 0 .. LastPort]
        /\ published' \subseteq Cameras
    BY <1>6, <1>a, <1>v DEF Provision
  <2> QED
    BY <1>6, <1>o, <2>1, <2>2, <2>3 DEF Provision
<1>7. ASSUME NEW c \in Cameras, Save(c) PROVE TypeOK'
  <2>1. task' \in [Cameras -> Task]
    BY <1>7, TaskTypes DEF Save
  <2>2. task[c].port \in 0 .. LastPort
    BY DEF Task
  <2> QED
    BY <1>7, <2>1, <2>2 DEF Save
<1>8. ASSUME NEW c \in Cameras, RevokeFails(c) PROVE TypeOK'
  <2>1. task' \in [Cameras -> Task]
    BY <1>8, TaskTypes DEF RevokeFails
  <2> QED
    BY <1>8, <1>c, <2>1 DEF RevokeFails
<1>9. ASSUME NEW c \in Cameras, Revoke(c) PROVE TypeOK'
  <2>1. task' \in [Cameras -> Task]
    BY <1>9, <1>v, TaskTypes DEF Revoke
  <2>2. CASE UNCHANGED registryVars
    BY <1>9, <2>1, <2>2 DEF Revoke
  <2>3. CASE ReceiverCloses(c) /\ Unregistered(c) /\ published' = published \ {c}
    <3>1. /\ registered' \in [Cameras -> 0 .. LastPort]
          /\ entries' \subseteq Sessions
          /\ routes' \in [Sessions -> [VirtualPorts -> Cameras \cup {NoCamera}]]
          /\ nextPort' \in [Sessions -> VirtualPorts]
      BY <1>v, <1>a, <2>3 DEF Unregistered
    <3> QED
      BY <1>9, <1>c, <2>1, <2>3, <3>1 DEF Revoke
  <2> QED
    BY <1>9, <2>2, <2>3 DEF Revoke
<1>10. ASSUME NEW c \in Cameras, DeleteRow(c) PROVE TypeOK'
  <2>1. task' \in [Cameras -> Task]
    BY <1>10, TaskTypes DEF DeleteRow
  <2> QED
    BY <1>10, <1>v, <2>1 DEF DeleteRow
<1> QED
  BY <1>1, <1>2, <1>3, <1>4, <1>5, <1>6, <1>7, <1>8, <1>9, <1>10 DEF Next, CameraStep

\* The type invariant of the registry, its pools and the rows.
THEOREM RegistryTypes == Spec => []TypeOK
<1>1. Init => TypeOK
  <2>1. NoTask \in Task /\ NoRoutes \in [VirtualPorts -> Cameras \cup {NoCamera}]
    BY LastPortAssumption DEF NoTask, Task, NoRoutes
  <2>2. 1 \in VirtualPorts /\ 0 \in 0 .. LastPort
    BY LastPortAssumption DEF VirtualPorts
  <2> QED
    BY <2>1, <2>2 DEF Init, EmptyRegistry, TypeOK
<1>2. TypeOK /\ UNCHANGED vars => TypeOK'
  BY DEF TypeOK, vars, rowVars, routeVars, ristVars, registryVars
<1> QED
  BY <1>1, <1>2, TypeStep, PTL DEF Spec

-----------------------------------------------------------------------------
(* Ports, routes and registrations agree.                                  *)

\* A task is never ahead of the row and the registration it was listed for.
TaskFits ==
  \A c \in Cameras :
    /\ Runs(c, "revoke") \/ Runs(c, "delete") => row[c] = "deleting"
    /\ Runs(c, "delete") => registered[c] = 0
    /\ Runs(c, "save") => registered[c] = task[c].port /\ task[c].port # 0
    /\ Runs(c, "provision") /\ row[c] = "provisioned" => task[c].port = saved[c]

RegistryInv ==
  /\ RoutesAgree /\ EntryHasRoutes /\ RistPortsConserved
  /\ RegisteredIsServed /\ SavedPortIsServed /\ TaskFits

\* An opened receiver takes its port out of the pool.
LEMMA ReceiverOpensKeeps ==
  ASSUME TypeOK, RistPortsConserved, NEW c \in Cameras, receiver[c] = 0, ReceiverOpens(c)
  PROVE  /\ RistPortsConserved'
         /\ receiver'[c] # 0
         /\ \A d \in Cameras \ {c} : receiver'[d] = receiver[d]
<1>1. PICK port \in available : /\ available' = available \ {port}
                              /\ receiver' = [receiver EXCEPT ![c] = port]
  BY DEF ReceiverOpens
<1>2. port # 0 /\ port \in RistPorts /\ \A d \in Cameras : receiver[d] # port
  BY <1>1, RistPortsAssumption DEF TypeOK, RistPortsConserved
<1>3. {receiver'[d] : d \in Cameras} \cup {0} = {receiver[d] : d \in Cameras} \cup {0, port}
  BY <1>1 DEF TypeOK
<1>4. 0 \notin RistPorts
  BY RistPortsAssumption
<1> QED
  BY <1>1, <1>2, <1>3, <1>4 DEF TypeOK, RistPortsConserved

\* A closed receiver gives its port back, even if librist fails.
LEMMA ReceiverClosesKeeps ==
  ASSUME TypeOK, RistPortsConserved, NEW c \in Cameras, ReceiverCloses(c)
  PROVE  /\ RistPortsConserved'
         /\ receiver'[c] = 0
         /\ \A d \in Cameras \ {c} : receiver'[d] = receiver[d]
<1>1. 0 \notin RistPorts
  BY RistPortsAssumption
<1>2. /\ receiver' = [receiver EXCEPT ![c] = 0]
      /\ available' = available \cup ({receiver[c]} \ {0})
  BY DEF ReceiverCloses
<1>3. \A d, e \in Cameras : receiver'[d] = receiver'[e] /\ receiver'[d] # 0 => d = e
  BY <1>2 DEF TypeOK, RistPortsConserved
<1>4. available' = RistPorts \ {receiver'[d] : d \in Cameras}
  <2>1. ASSUME NEW port \in RistPorts
        PROVE  port \in available' <=> \A d \in Cameras : receiver'[d] # port
    BY <1>1, <1>2 DEF TypeOK, RistPortsConserved
  <2>2. available' \subseteq RistPorts
    BY <1>2 DEF TypeOK
  <2> QED
    BY <2>1, <2>2
<1> QED
  BY <1>2, <1>3, <1>4 DEF TypeOK, RistPortsConserved

\* A registration adds one route, and the entry of its session.
LEMMA ProvisionKeeps ==
  ASSUME TypeOK, RegistryInv, NEW c \in Cameras, NEW port \in VirtualPorts, Provision(c, port)
  PROVE  RegistryInv'
<1> DEFINE s == SessionOf[c]
<1>1. /\ registered[c] = 0 /\ task[c].op = "provision" /\ routes[s][port] = NoCamera
      /\ task[c].port # 0 => port = task[c].port
  BY RegistersPort DEF Provision
<1>2. s \in Sessions /\ NoCamera \notin Cameras /\ port # 0 /\ port \in 0 .. LastPort
  BY CamerasAssumption, LastPortAssumption DEF VirtualPorts
<1>3. /\ routes' = [routes EXCEPT ![s][port] = c]
      /\ registered' = [registered EXCEPT ![c] = port]
      /\ entries' = entries \cup {s} /\ published' = published \cup {c}
      /\ row' = row /\ saved' = saved
      /\ task' = [task EXCEPT ![c] = [op |-> "save", port |-> port]]
  BY DEF Provision, Becomes, rowVars
<1>4. RoutesAgree'
  <2> SUFFICES ASSUME NEW d \in Cameras, NEW r \in Sessions, NEW p \in VirtualPorts
      PROVE  routes'[r][p] = d <=> SessionOf[d] = r /\ registered'[d] = p
    BY DEF RoutesAgree
  <2>1. routes[r][p] = d <=> SessionOf[d] = r /\ registered[d] = p
    BY DEF RegistryInv, RoutesAgree
  <2>2. CASE d = c
    <3>1. registered'[c] = port /\ routes[r][p] # c
      BY <1>1, <1>2, <1>3, <2>1, <2>2, LastPortAssumption DEF TypeOK, VirtualPorts
    <3> QED
      BY <1>2, <1>3, <2>2, <3>1 DEF TypeOK
  <2>3. CASE d # c
    <3>1. registered'[d] = registered[d]
      BY <1>3, <2>3 DEF TypeOK
    <3>2. routes'[r][p] = d <=> routes[r][p] = d
      BY <1>1, <1>2, <1>3, <2>3 DEF TypeOK
    <3> QED
      BY <2>1, <3>1, <3>2
  <2> QED
    BY <2>2, <2>3
<1>5. EntryHasRoutes'
  BY <1>1, <1>2, <1>3 DEF TypeOK, RegistryInv, EntryHasRoutes, Free
<1>6. /\ RistPortsConserved'
      /\ receiver'[c] # 0
      /\ \A d \in Cameras \ {c} : receiver'[d] = receiver[d]
  BY <1>1, ReceiverOpensKeeps DEF RegistryInv, RegisteredIsServed, Provision
<1>7. RegisteredIsServed'
  BY <1>2, <1>3, <1>6 DEF TypeOK, RegistryInv, RegisteredIsServed
<1>8. SavedPortIsServed'
  BY <1>1, <1>2, <1>3 DEF TypeOK, RegistryInv, SavedPortIsServed, TaskFits, Runs
<1>9. TaskFits'
  BY <1>1, <1>2, <1>3 DEF TypeOK, RegistryInv, TaskFits, Runs
<1> QED
  BY <1>4, <1>5, <1>6, <1>7, <1>8, <1>9 DEF RegistryInv

\* A revocation takes the route of the camera away, and the entry of its session
\* with the last route.
LEMMA RevokeKeeps ==
  ASSUME TypeOK, RegistryInv, NEW c \in Cameras, registered[c] # 0, Runs(c, "revoke"),
         ReceiverCloses(c), Unregistered(c), published' = published \ {c},
         Becomes(c, "delete", 0), UNCHANGED rowVars
  PROVE  RegistryInv'
<1> DEFINE s == SessionOf[c]
           port == registered[c]
<1>1. port \in VirtualPorts /\ s \in Sessions /\ NoCamera \notin Cameras
  BY CamerasAssumption, LastPortAssumption DEF TypeOK, VirtualPorts
<1>2. /\ routes' = [routes EXCEPT ![s][port] = NoCamera]
      /\ registered' = [registered EXCEPT ![c] = 0]
      /\ row' = row /\ saved' = saved
      /\ task' = [task EXCEPT ![c] = [op |-> "delete", port |-> 0]]
  BY DEF Unregistered, Becomes, rowVars
<1>3. routes[s][port] = c
  BY <1>1 DEF RegistryInv, RoutesAgree
<1>4. RoutesAgree'
  <2> SUFFICES ASSUME NEW d \in Cameras, NEW r \in Sessions, NEW p \in VirtualPorts
      PROVE  routes'[r][p] = d <=> SessionOf[d] = r /\ registered'[d] = p
    BY DEF RoutesAgree
  <2>1. routes[r][p] = d <=> SessionOf[d] = r /\ registered[d] = p
    BY DEF RegistryInv, RoutesAgree
  <2>2. CASE d = c
    <3>1. registered'[c] = 0 /\ p # 0
      BY <1>2, LastPortAssumption DEF TypeOK, VirtualPorts
    <3>2. routes'[r][p] # c
      BY <1>1, <1>2, <2>1, <2>2 DEF TypeOK
    <3> QED
      BY <2>2, <3>1, <3>2
  <2>3. CASE d # c
    <3>1. registered'[d] = registered[d]
      BY <1>2, <2>3 DEF TypeOK
    <3>2. routes'[r][p] = d <=> routes[r][p] = d
      BY <1>1, <1>2, <1>3, <2>3 DEF TypeOK
    <3> QED
      BY <2>1, <3>1, <3>2
  <2> QED
    BY <2>2, <2>3
<1>5. EntryHasRoutes'
  <2> SUFFICES ASSUME NEW r \in Sessions
      PROVE  r \in entries' <=> \E p \in VirtualPorts : routes'[r][p] # NoCamera
    BY DEF EntryHasRoutes, Free
  <2>1. r \in entries <=> \E p \in VirtualPorts : routes[r][p] # NoCamera
    BY DEF RegistryInv, EntryHasRoutes, Free
  <2>2. CASE r = s
    <3>1. s \in entries /\ routes'[s][port] = NoCamera
      BY <1>1, <1>2, <1>3, <2>1, <2>2 DEF TypeOK
    <3>2. \A p \in VirtualPorts \ {port} : routes'[s][p] = routes[s][p]
      BY <1>1, <1>2 DEF TypeOK
    <3>3. CASE \A p \in VirtualPorts \ {port} : routes[s][p] = NoCamera
      BY <2>2, <3>1, <3>2, <3>3 DEF Unregistered
    <3>4. CASE ~ \A p \in VirtualPorts \ {port} : routes[s][p] = NoCamera
      BY <2>2, <3>1, <3>2, <3>4 DEF Unregistered
    <3> QED
      BY <3>3, <3>4
  <2>3. CASE r # s
    <3>1. routes'[r] = routes[r]
      BY <1>2, <2>3 DEF TypeOK
    <3>2. r \in entries' <=> r \in entries
      BY <2>3 DEF Unregistered
    <3> QED
      BY <2>1, <3>1, <3>2
  <2> QED
    BY <2>2, <2>3
<1>6. /\ RistPortsConserved'
      /\ receiver'[c] = 0
      /\ \A d \in Cameras \ {c} : receiver'[d] = receiver[d]
  BY ReceiverClosesKeeps DEF RegistryInv
<1>7. RegisteredIsServed'
  BY <1>2, <1>6 DEF TypeOK, RegistryInv, RegisteredIsServed
<1>8. SavedPortIsServed'
  BY <1>2 DEF TypeOK, RegistryInv, SavedPortIsServed
<1>9. TaskFits'
  BY <1>2 DEF TypeOK, RegistryInv, TaskFits, Runs
<1> QED
  BY <1>4, <1>5, <1>6, <1>7, <1>8, <1>9 DEF RegistryInv

\* Every step keeps the invariant.
LEMMA RegistryInvStep ==
  ASSUME TypeOK, RegistryInv, Next
  PROVE  RegistryInv'
<1> USE DEF rowVars, routeVars, ristVars, registryVars
<1>u. ASSUME UNCHANGED <<registered, entries, routes>>
      PROVE  RoutesAgree' /\ EntryHasRoutes'
  BY <1>u DEF RegistryInv, RoutesAgree, EntryHasRoutes, Free
<1>p. ASSUME UNCHANGED ristVars PROVE RistPortsConserved'
  BY <1>p DEF RegistryInv, RistPortsConserved
<1>d. ASSUME NEW c \in Cameras, Deferred(c), UNCHANGED <<rowVars, registered>> PROVE TaskFits'
  BY <1>d DEF TypeOK, RegistryInv, TaskFits, Runs, Deferred, NoTask
<1>s. ASSUME UNCHANGED <<rowVars, registryVars>>
      PROVE  RoutesAgree' /\ EntryHasRoutes' /\ RistPortsConserved'
             /\ RegisteredIsServed' /\ SavedPortIsServed'
  BY <1>s, <1>u, <1>p DEF RegistryInv, RegisteredIsServed, SavedPortIsServed
<1>1. CASE Restart
  <2>0. /\ registered' = [c \in Cameras |-> 0] /\ receiver' = [c \in Cameras |-> 0]
        /\ routes' = [s \in Sessions |-> NoRoutes] /\ entries' = {}
        /\ available' = RistPorts /\ published' = {}
        /\ task' = [c \in Cameras |-> NoTask] /\ row' = row /\ saved' = saved
    BY <1>1 DEF Restart
  <2>1. RoutesAgree'
    BY <2>0, CamerasAssumption, LastPortAssumption DEF RoutesAgree, NoRoutes, VirtualPorts
  <2>2. EntryHasRoutes'
    BY <2>0 DEF EntryHasRoutes, Free, NoRoutes
  <2>3. RistPortsConserved'
    BY <2>0, RistPortsAssumption DEF RistPortsConserved
  <2>4. RegisteredIsServed' /\ SavedPortIsServed'
    BY <2>0 DEF RegistryInv, RegisteredIsServed, SavedPortIsServed
  <2>5. TaskFits'
    BY <2>0 DEF TaskFits, Runs, NoTask
  <2> QED
    BY <2>1, <2>2, <2>3, <2>4, <2>5 DEF RegistryInv
<1>2. CASE Pass
  <2>1. TaskFits'
    BY <1>2 DEF Pass, Listed, NoTask, TaskFits, Runs
  <2> QED
    BY <1>2, <1>s, <2>1 DEF Pass, RegistryInv
<1>3. ASSUME NEW c \in Cameras, Create(c) \/ RequestDeletion(c) PROVE RegistryInv'
  <2>1. UNCHANGED <<saved, registryVars, task>>
    BY <1>3 DEF Create, RequestDeletion
  <2>2. RegisteredIsServed' /\ SavedPortIsServed' /\ TaskFits'
    BY <1>3, <2>1
    DEF Create, RequestDeletion, TypeOK, RegistryInv, RegisteredIsServed, SavedPortIsServed,
        TaskFits, Runs
  <2> QED
    BY <1>u, <1>p, <2>1, <2>2 DEF RegistryInv
<1>4. ASSUME NEW c \in Cameras, ProvisionKnown(c) PROVE RegistryInv'
  <2>1. CASE Deferred(c)
    BY <1>4, <1>s, <1>d, <2>1 DEF ProvisionKnown, RegistryInv
  <2>2. CASE Becomes(c, "save", registered[c])
    <3>1. TaskFits'
      BY <1>4, <2>2 DEF ProvisionKnown, Becomes, TypeOK, RegistryInv, TaskFits, Runs
    <3> QED
      BY <1>4, <1>s, <3>1 DEF ProvisionKnown, RegistryInv
  <2> QED
    BY <1>4, <2>1, <2>2 DEF ProvisionKnown
<1>5. ASSUME NEW c \in Cameras, ProvisionRefused(c) PROVE RegistryInv'
  BY <1>5, <1>s, <1>d DEF ProvisionRefused, RegistryInv
<1>6. ASSUME NEW c \in Cameras, NEW port \in VirtualPorts, RistFails(c, port) \/ MoqFails(c, port)
      PROVE  RegistryInv'
  <2>1. UNCHANGED <<rowVars, registered, entries, routes, ristVars, published>> /\ Deferred(c)
    BY <1>6 DEF RistFails, MoqFails
  <2>2. RegisteredIsServed' /\ SavedPortIsServed'
    BY <2>1 DEF RegistryInv, RegisteredIsServed, SavedPortIsServed
  <2> QED
    BY <1>u, <1>p, <1>d, <2>1, <2>2 DEF RegistryInv
<1>7. ASSUME NEW c \in Cameras, Save(c) PROVE RegistryInv'
  <2>1. UNCHANGED registryVars /\ Deferred(c)
    BY <1>7 DEF Save
  <2>2. CASE UNCHANGED rowVars
    BY <1>s, <1>d, <2>1, <2>2 DEF RegistryInv
  <2>3. CASE /\ row' = [row EXCEPT ![c] = IF @ = "deleting" THEN @ ELSE "provisioned"]
             /\ saved' = [saved EXCEPT ![c] = task[c].port]
    <3>1. RegisteredIsServed'
      BY <2>1, <2>3 DEF TypeOK, RegistryInv, RegisteredIsServed
    <3>2. SavedPortIsServed'
      BY <1>7, <2>1, <2>3 DEF Save, TypeOK, RegistryInv, SavedPortIsServed, TaskFits
    <3>3. TaskFits'
      BY <2>1, <2>3 DEF TypeOK, RegistryInv, TaskFits, Runs, Deferred, NoTask
    <3> QED
      BY <1>u, <1>p, <2>1, <3>1, <3>2, <3>3 DEF RegistryInv
  <2> QED
    BY <1>7, <2>2, <2>3 DEF Save
<1>8. ASSUME NEW c \in Cameras, RevokeFails(c) PROVE RegistryInv'
  <2>1. UNCHANGED <<rowVars, routeVars, published>> /\ Deferred(c)
    BY <1>8 DEF RevokeFails
  <2>2. /\ RistPortsConserved'
        /\ receiver'[c] = 0
        /\ \A d \in Cameras \ {c} : receiver'[d] = receiver[d]
    BY <1>8, ReceiverClosesKeeps DEF RevokeFails, RegistryInv
  <2>3. RegisteredIsServed' /\ SavedPortIsServed'
    BY <1>8, <2>1, <2>2
    DEF RevokeFails, RegistryInv, RegisteredIsServed, SavedPortIsServed, TaskFits
  <2> QED
    BY <1>u, <1>d, <2>1, <2>2, <2>3 DEF RegistryInv
<1>9. ASSUME NEW c \in Cameras, Revoke(c) PROVE RegistryInv'
  <2>1. CASE registered[c] # 0
    BY <1>9, <2>1, RevokeKeeps DEF Revoke
  <2>2. CASE registered[c] = 0
    <3>1. TaskFits'
      BY <1>9, <2>2 DEF Revoke, Becomes, TypeOK, RegistryInv, TaskFits, Runs
    <3> QED
      BY <1>9, <1>s, <2>2, <3>1 DEF Revoke, RegistryInv
  <2> QED
    BY <2>1, <2>2
<1>10. ASSUME NEW c \in Cameras, DeleteRow(c) PROVE RegistryInv'
  <2>1. UNCHANGED registryVars /\ Deferred(c)
    BY <1>10 DEF DeleteRow
  <2>2. CASE UNCHANGED rowVars
    BY <1>s, <1>d, <2>1, <2>2 DEF RegistryInv
  <2>3. CASE row' = [row EXCEPT ![c] = "deleted"] /\ saved' = [saved EXCEPT ![c] = 0]
    <3>1. RegisteredIsServed' /\ SavedPortIsServed'
      BY <1>10, <2>1, <2>3
      DEF DeleteRow, TypeOK, RegistryInv, RegisteredIsServed, SavedPortIsServed, TaskFits
    <3>2. TaskFits'
      BY <2>1, <2>3 DEF TypeOK, RegistryInv, TaskFits, Runs, Deferred, NoTask
    <3> QED
      BY <1>u, <1>p, <2>1, <3>1, <3>2 DEF RegistryInv
  <2> QED
    BY <1>10, <2>2, <2>3 DEF DeleteRow
<1> QED
  BY <1>1, <1>2, <1>3, <1>4, <1>5, <1>6, <1>7, <1>8, <1>9, <1>10, ProvisionKeeps
  DEF Next, CameraStep

\* The invariant holds in every reachable state.
LEMMA RegistryInvariant == Spec => []RegistryInv
<1>1. Init => RegistryInv
  <2> USE DEF Init, EmptyRegistry
  <2>1. Init => RoutesAgree
    BY CamerasAssumption, LastPortAssumption DEF RoutesAgree, NoRoutes, VirtualPorts
  <2>2. Init => EntryHasRoutes /\ RistPortsConserved
    BY RistPortsAssumption DEF EntryHasRoutes, Free, NoRoutes, RistPortsConserved
  <2>3. Init => RegisteredIsServed /\ SavedPortIsServed /\ TaskFits
    BY DEF RegisteredIsServed, SavedPortIsServed, TaskFits, Runs, NoTask
  <2> QED
    BY <2>1, <2>2, <2>3 DEF RegistryInv
<1>2. RegistryInv /\ UNCHANGED vars => RegistryInv'
  BY DEF RegistryInv, RoutesAgree, EntryHasRoutes, Free, RistPortsConserved,
         RegisteredIsServed, SavedPortIsServed, TaskFits, Runs, vars, rowVars, routeVars,
         ristVars, registryVars
<1> QED
  BY <1>1, <1>2, RegistryTypes, RegistryInvStep, PTL DEF Spec

\* In every reachable state, with every failure of librist, the MoQ server and
\* the database, and with restarts, packets reach the camera their port was given
\* to, no half registration is left, and no UDP port is lost or given twice
\* (MediaService::camera_for_session_route, MediaService::provision_camera, RistServer::revoke_camera).
THEOREM RegistrationStaysWhole == Spec => []RegistrationIsWhole
<1>1. RegistryInv => RegistrationIsWhole
  BY DEF RegistryInv, RegistrationIsWhole
<1> QED
  BY <1>1, RegistryInvariant, PTL

\* The virtual port saved in a row is the one its camera is served at, also after
\* a restart (MediaService::provision_camera with a saved port).
THEOREM SavedPortServed == Spec => []SavedPortIsServed
<1>1. RegistryInv => SavedPortIsServed
  BY DEF RegistryInv
<1> QED
  BY <1>1, RegistryInvariant, PTL

-----------------------------------------------------------------------------
(* The endpoint of a camera.                                               *)

\* What the row of a camera, its registration and its task have to do with each other:
\* a port is saved for a camera that is provisioned or being deleted, the task that
\* provisions it asks for that port, and nothing is registered for a row that is gone.
EndpointFits(c) ==
  /\ saved[c] # 0 => row[c] \in {"provisioned", "deleting"} /\ registered[c] \in {0, saved[c]}
  /\ Runs(c, "provision") => task[c].port = saved[c]
  /\ registered[c] # 0 \/ Runs(c, "provision") \/ Runs(c, "save")
       => row[c] \in {"activating", "provisioned", "deleting"}

EndpointsFit == \A c \in Cameras : EndpointFits(c)

\* The endpoint of a camera is not changed: it comes with a provisioning and goes with
\* the connection.
EndpointKept(c) == saved[c] # 0 /\ row'[c] # "deleted" => saved'[c] = saved[c]

EndpointsKept == \A c \in Cameras : EndpointKept(c)

\* What is registered has a connection, which may be about to be deleted.
RegisteredHasRow ==
  \A c \in Cameras :
    registered[c] # 0 => row[c] \in {"activating", "provisioned", "deleting"}

\* A step of one camera leaves the others alone.
LEMMA OneCameraMoves ==
  ASSUME TypeOK, NEW c \in Cameras, CameraStep(c), NEW d \in Cameras \ {c}
  PROVE  /\ row'[d] = row[d] /\ saved'[d] = saved[d]
         /\ registered'[d] = registered[d] /\ task'[d] = task[d]
<1> USE DEF TypeOK, rowVars, registryVars, routeVars
<1>1. CASE Create(c) \/ RequestDeletion(c)
  BY <1>1 DEF Create, RequestDeletion
<1>2. CASE ProvisionKnown(c) \/ ProvisionRefused(c)
  BY <1>2 DEF ProvisionKnown, ProvisionRefused, Becomes, Deferred
<1>3. ASSUME NEW port \in VirtualPorts, RistFails(c, port) \/ MoqFails(c, port) \/ Provision(c, port)
      PROVE  /\ row'[d] = row[d] /\ saved'[d] = saved[d]
             /\ registered'[d] = registered[d] /\ task'[d] = task[d]
  BY <1>3 DEF RistFails, MoqFails, Provision, Becomes, Deferred
<1>4. CASE Save(c) \/ DeleteRow(c)
  BY <1>4 DEF Save, DeleteRow, Deferred
<1>5. CASE RevokeFails(c) \/ Revoke(c)
  BY <1>5 DEF RevokeFails, Revoke, Unregistered, Becomes, Deferred
<1> QED
  BY <1>1, <1>2, <1>3, <1>4, <1>5 DEF CameraStep

\* A step of a camera keeps its endpoint.
LEMMA EndpointMoves ==
  ASSUME TypeOK, TaskFits, NEW c \in Cameras, EndpointFits(c), CameraStep(c)
  PROVE  EndpointFits(c)' /\ EndpointKept(c)
<1> USE DEF TypeOK, rowVars, registryVars, routeVars, EndpointFits, EndpointKept, Runs
<1>1. CASE Create(c) \/ RequestDeletion(c)
  BY <1>1 DEF Create, RequestDeletion
<1>2. CASE ProvisionKnown(c) \/ ProvisionRefused(c)
  BY <1>2 DEF ProvisionKnown, ProvisionRefused, Becomes, Deferred, NoTask
<1>3. ASSUME NEW port \in VirtualPorts, RistFails(c, port) \/ MoqFails(c, port)
      PROVE  EndpointFits(c)' /\ EndpointKept(c)
  BY <1>3 DEF RistFails, MoqFails, Deferred, NoTask
<1>4. ASSUME NEW port \in VirtualPorts, Provision(c, port)
      PROVE  EndpointFits(c)' /\ EndpointKept(c)
  <2>1. task[c].op = "provision" /\ task[c].port \in {0, port} /\ port # 0
    BY <1>4, RegistersPort DEF Provision, VirtualPorts
  <2> QED
    BY <1>4, <2>1 DEF Provision, Becomes
<1>5. CASE Save(c)
  <2>1. /\ registered[c] = task[c].port /\ task[c].port # 0 /\ task[c].op = "save"
        /\ UNCHANGED registered /\ task'[c] = NoTask
    BY <1>5 DEF Save, TaskFits, Deferred
  <2> QED
    BY <1>5, <2>1 DEF Save, NoTask
<1>6. CASE RevokeFails(c)
  BY <1>6 DEF RevokeFails, Deferred, NoTask
<1>7. CASE Revoke(c)
  <2>1. registered'[c] = 0 /\ row' = row /\ saved' = saved /\ task'[c] = [op |-> "delete", port |-> 0]
    BY <1>7 DEF Revoke, Unregistered, Becomes
  <2> QED
    BY <2>1
<1>8. CASE DeleteRow(c)
  <2>1. registered[c] = 0 /\ UNCHANGED registered /\ task'[c] = NoTask
    BY <1>8 DEF DeleteRow, TaskFits, Deferred
  <2> QED
    BY <1>8, <2>1 DEF DeleteRow, NoTask
<1> QED
  BY <1>1, <1>2, <1>3, <1>4, <1>5, <1>6, <1>7, <1>8 DEF CameraStep

\* Every step keeps every endpoint.
LEMMA EndpointStep ==
  ASSUME TypeOK, RegistryInv, EndpointsFit, [Next]_vars
  PROVE  EndpointsFit' /\ \A c \in Cameras : EndpointKept(c)
<1>1. CASE UNCHANGED vars
  BY <1>1 DEF EndpointsFit, EndpointFits, EndpointKept, Runs, vars, rowVars, registryVars, routeVars
<1>2. CASE Restart
  <2>1. /\ row' = row /\ saved' = saved /\ registered' = [c \in Cameras |-> 0]
        /\ task' = [c \in Cameras |-> NoTask]
    BY <1>2 DEF Restart, rowVars
  <2> QED
    BY <2>1 DEF EndpointsFit, EndpointFits, EndpointKept, Runs, NoTask
<1>3. CASE Pass
  <2>1. /\ row' = row /\ saved' = saved /\ registered' = registered
        /\ task' = [c \in Cameras |-> Listed(c)]
    BY <1>3 DEF Pass, rowVars, registryVars, routeVars
  <2> QED
    BY <2>1 DEF EndpointsFit, EndpointFits, EndpointKept, Runs, Listed, NoTask
<1>4. ASSUME NEW c \in Cameras, CameraStep(c)
      PROVE  EndpointsFit' /\ \A d \in Cameras : EndpointKept(d)
  <2>1. EndpointFits(c)' /\ EndpointKept(c)
    BY <1>4, EndpointMoves DEF EndpointsFit, RegistryInv
  <2>2. ASSUME NEW d \in Cameras \ {c} PROVE EndpointFits(d)' /\ EndpointKept(d)
    BY <1>4, OneCameraMoves DEF EndpointsFit, EndpointFits, EndpointKept, Runs
  <2> QED
    BY <2>1, <2>2 DEF EndpointsFit
<1> QED
  BY <1>1, <1>2, <1>3, <1>4 DEF Next

\* What endpoints, registrations and tasks have to do with each other holds throughout.
LEMMA EndpointsInvariant == Spec => []EndpointsFit
<1>1. Init => EndpointsFit
  <2> SUFFICES ASSUME Init, NEW c \in Cameras PROVE EndpointFits(c)
    BY DEF EndpointsFit
  <2>1. saved[c] = 0 /\ registered[c] = 0 /\ task[c].op = "none"
    BY DEF Init, EmptyRegistry, NoTask
  <2> QED
    BY <2>1 DEF EndpointFits, Runs
<1>2. TypeOK /\ RegistryInv /\ EndpointsFit /\ [Next]_vars => EndpointsFit'
  BY EndpointStep
<1> QED
  BY <1>1, <1>2, RegistryTypes, RegistryInvariant, PTL DEF Spec

\* The endpoint of a camera, once it is saved for the console to show, stays what it is
\* until the connection is deleted, whatever fails and however often the process starts
\* again (MediaService::provision_camera, reconcile_camera_resources).
THEOREM EndpointsStay == Spec => [][EndpointsKept]_vars
<1>1. TypeOK /\ RegistryInv /\ EndpointsFit /\ [Next]_vars => EndpointsKept
  BY EndpointStep DEF EndpointsKept
<1> QED
  BY <1>1, EndpointsInvariant, RegistryTypes, RegistryInvariant, PTL DEF Spec

\* No camera is served without a connection, nor after it is deleted: a registration
\* that a task is still about to make finds its row (reconcile_camera_resources_inner).
THEOREM RegisteredHaveRows == Spec => []RegisteredHasRow
<1>1. EndpointsFit => RegisteredHasRow
  BY DEF EndpointsFit, EndpointFits, RegisteredHasRow
<1> QED
  BY <1>1, EndpointsInvariant, PTL
=============================================================================
