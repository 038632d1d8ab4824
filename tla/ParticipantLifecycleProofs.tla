---------------------- MODULE ParticipantLifecycleProofs ----------------------
(***************************************************************************)
(* Proofs about ParticipantLifecycle, for any participants and any bounds. *)
(***************************************************************************)
EXTENDS ParticipantLifecycle, TLAPS

\* Sessions are given once: no two participants share one, whoever is in
\* Connect or through with it has one, and so had the owner of the live node.
SessionInv ==
    /\ \A p \in Participants : sess[p] <= lastSession /\ liveId[p] <= lastSession
    /\ \A p, q \in Participants : sess[p] = sess[q] /\ sess[p] # NoSession => p = q
    /\ \A p \in Participants :
          /\ pc[p] \in Connecting \cup {"up"} => sess[p] # NoSession
          /\ pc[p] \in {"live", "up"} => liveId[p] # NoSession
          /\ pc[p] = "create" => made[p] < Len(NodeOrder)
    /\ live # NoLive => live.owner # NoSession /\ live.id # NoSession

\* An order in the mailbox or in a loop's hand names a session.
OrderInv ==
    /\ \A o \in mail : target[o] # NoSession
    /\ \A p \in Participants, g \in Generations :
          hand[p][g] # NoOrder => target[hand[p][g]] # NoSession

LifecycleInv == TypeOK /\ SessionInv /\ OrderInv

-----------------------------------------------------------------------------
(***************************************************************************)
(* The invariant, one lemma for each group of actions.                     *)
(***************************************************************************)
\* The seven nodes of the participant.
LEMMA NodeOrderType ==
  /\ Len(NodeOrder) = 7
  /\ \A i \in 0 .. 6 : NodeOrder[i + 1] \in OwnNodes
<1>1. Len(NodeOrder) = 7 /\ DOMAIN NodeOrder = 1 .. 7
  BY DEF NodeOrder
<1>2. \A i \in 0 .. 6 : i + 1 \in DOMAIN NodeOrder
  BY <1>1
<1> QED BY <1>1, <1>2 DEF OwnNodes

\* The bounds are numbers.
LEMMA LimitType ==
  ASSUME limit \in Limits
  PROVE  /\ limit.connects \in Nat \ {0} /\ limit.sessions \in Nat \ {0}
         /\ limit.tries \in Nat /\ limit.crashes \in Nat /\ limit.orders \in Nat
         /\ limit.earlier \in 0 .. limit.sessions
  BY LifecycleAssumption DEF LifecycleAssumption

\* The places of Connect, and the others.
LEMMA Places ==
  /\ {"setup", "ensure", "create", "list", "clean", "live"} \cup Cleaning \subseteq Connecting
  /\ \A there \in Connecting : there \notin {"off", "up", "dead"} \cup Disconnecting
  /\ \A there \in Cleaning :
        there \notin {"setup", "ensure", "create", "list", "clean", "live"}
  BY DEF Connecting, Cleaning, Disconnecting

\* Nothing has a session at first.
LEMMA InvInit == Init => LifecycleInv
<1> SUFFICES ASSUME Init PROVE LifecycleInv
  OBVIOUS
<1> USE DEF Init, NoSession, NoOrder, NoLive, AllSessions, Orders, Generations
<1>1. limit \in Limits
  OBVIOUS
<1>2. TypeOK
  <2>1. /\ limit.connects \in Nat \ {0} /\ limit.sessions \in Nat \ {0}
        /\ limit.tries \in Nat /\ limit.crashes \in Nat /\ limit.orders \in Nat
        /\ limit.earlier \in 0 .. limit.sessions
    BY <1>1, LimitType
  <2>2. 0 \in 0 .. limit.sessions /\ 0 \in 0 .. limit.connects /\ 0 \in 0 .. limit.tries
        /\ 0 \in 0 .. limit.crashes /\ 0 \in 0 .. Len(NodeOrder)
    BY <2>1, NodeOrderType
  <2>3. nodes \subseteq OwnNodes
    OBVIOUS
  <2>4. live \in [owner : 0 .. limit.sessions, id : 0 .. limit.sessions]
    BY <2>2
  <2>5. /\ loops \in [Participants -> [Generations ->
                    {"none", "ready", "running", "stopping", "stopped"} \cup Working]]
        /\ hand \in [Participants -> [Generations -> Orders \cup {NoOrder}]]
        /\ tree \in [AllSessions -> {"none", "session", "empty", "record"}]
    OBVIOUS
  <2>7. got \in [Participants -> [Generations ->
                    [path : 0 .. limit.sessions, of : SUBSET Orders]]]
    <3>1. NothingRead \in [path : 0 .. limit.sessions, of : SUBSET Orders]
      BY <2>2 DEF NothingRead
    <3> QED BY <3>1
  <2>6. /\ pc \in [Participants -> {"off", "up", "dead"} \cup Connecting \cup Disconnecting]
        /\ pstate \in [Participants -> {"connected", "started", "stopped", "disconnected"}]
    OBVIOUS
  <2>8. /\ clusterUp \in BOOLEAN /\ lastSession \in 0 .. limit.sessions
        /\ alive \subseteq AllSessions /\ target \in [Orders -> 0 .. limit.sessions]
        /\ mail \subseteq Orders /\ applied \subseteq AllSessions \X Orders
    BY <1>1, <2>1, <2>2, LifecycleAssumption DEF LifecycleAssumption
  <2>9. /\ toClean \in [Participants -> SUBSET AllSessions]
        /\ cleaning \in [Participants -> 0 .. limit.sessions]
        /\ sess \in [Participants -> 0 .. limit.sessions]
        /\ connects \in [Participants -> 0 .. limit.connects]
        /\ made \in [Participants -> 0 .. Len(NodeOrder)]
        /\ liveId \in [Participants -> 0 .. limit.sessions]
        /\ tries \in [Participants -> 0 .. limit.tries]
        /\ stopClosed \in [Participants -> BOOLEAN]
        /\ crashes \in 0 .. limit.crashes /\ met \in BOOLEAN
    BY <2>2
  <2> QED BY <1>1, <2>3, <2>4, <2>5, <2>6, <2>7, <2>8, <2>9 DEF TypeOK
<1>3. SessionInv
  <2>1. limit.earlier \in Nat
    BY <1>1, LimitType
  <2> QED BY <2>1, Places DEF SessionInv
<1>4. OrderInv
  BY DEF OrderInv
<1> QED BY <1>2, <1>3, <1>4 DEF LifecycleInv

USE DEF NoSession, NoOrder, NoLive, AllSessions, Orders, Generations, Goto

\* A process that panics or is killed keeps nothing but its session.
LEMMA InvDie ==
  ASSUME LifecycleInv, NEW p \in Participants, Die(p),
         UNCHANGED <<zkVars, procVars, limit, connects, made, cleanVars, liveId>>,
         tries' = tries, crashes' \in 0 .. limit.crashes, met' \in BOOLEAN
  PROVE  LifecycleInv'
<1> USE DEF LifecycleInv, Die, zkVars, nodeVars, sessionVars, stateVars, mailVars, procVars,
            cleanVars
<1>1. TypeOK'
  <2>1. NothingRead \in [path : 0 .. limit.sessions, of : SUBSET Orders]
    BY LimitType DEF TypeOK, NothingRead
  <2>2. got' \in [Participants -> [Generations ->
                    [path : 0 .. limit.sessions, of : SUBSET Orders]]]
    BY <2>1 DEF TypeOK
  <2> QED BY <2>2 DEF TypeOK
<1>2. SessionInv'
  BY Places DEF SessionInv, TypeOK
<1>3. OrderInv'
  BY DEF OrderInv, TypeOK
<1> QED BY <1>1, <1>2, <1>3

USE DEF LifecycleInv, zkVars, nodeVars, sessionVars, stateVars, mailVars, procVars,
        callVars, cleanVars, loopVars, ghostVars

\* The controller, the administrator, ZooKeeper and the kill of a process.
LEMMA InvEnvironment ==
  ASSUME LifecycleInv,
         \/ SetupCluster \/ \E o \in Orders : Send(o)
         \/ \E p \in Participants : Expire(p) \/ TimeOut(p) \/ Crash(p)
  PROVE  LifecycleInv'
<1>0. /\ limit.connects \in Nat \ {0} /\ limit.sessions \in Nat \ {0}
      /\ limit.crashes \in Nat
  BY LimitType DEF TypeOK
<1>1. CASE SetupCluster
  <2>1. TypeOK'
    BY <1>1 DEF SetupCluster, TypeOK
  <2>2. SessionInv' /\ OrderInv'
    BY <1>1 DEF SetupCluster, SessionInv, OrderInv
  <2> QED BY <2>1, <2>2
<1>2. ASSUME NEW o \in Orders, Send(o) PROVE LifecycleInv'
  <2>1. TypeOK'
    BY <1>2 DEF Send, TypeOK
  <2>2. SessionInv'
    BY <1>2 DEF Send, SessionInv
  <2>3. OrderInv'
    BY <1>2 DEF Send, OrderInv, SessionInv, TypeOK
  <2> QED BY <2>1, <2>2, <2>3
<1>3. ASSUME NEW p \in Participants, Expire(p) PROVE LifecycleInv'
  <2>0. /\ lastSession' = lastSession + 1 /\ lastSession' \in AllSessions
        /\ sess' = [sess EXCEPT ![p] = lastSession']
    BY <1>3, <1>0 DEF Expire, OpenSession, TypeOK
  <2>1. live' \in {live, NoLive} /\ live' \in [owner : 0 .. limit.sessions, id : 0 .. limit.sessions]
    BY <1>3, <1>0 DEF Expire, TypeOK
  <2>2. alive' \subseteq AllSessions
    BY <1>3, <2>0 DEF Expire, TypeOK
  <2>3. /\ sess' \in [Participants -> 0 .. limit.sessions]
        /\ lastSession' \in 0 .. limit.sessions
    BY <2>0, <1>0 DEF TypeOK
  <2>4. TypeOK'
    BY <1>3, <2>1, <2>2, <2>3 DEF Expire, TypeOK
  <2>5. SessionInv'
    <3>1. /\ lastSession \in Nat /\ lastSession' = lastSession + 1
          /\ \A q \in Participants : sess[q] \in Nat /\ liveId[q] \in Nat
          /\ \A q \in Participants : sess'[q] = IF q = p THEN lastSession + 1 ELSE sess[q]
      BY <1>3, <2>0, <1>0 DEF TypeOK
    <3>2. /\ liveId' = liveId /\ made' = made /\ live' \in {live, NoLive}
          /\ \A q \in Participants : pc'[q] \in {pc[q], "setup"}
      BY <1>3, <2>0, <2>1 DEF Expire, TypeOK
    <3>3. \A q \in Participants : sess'[q] <= lastSession' /\ liveId'[q] <= lastSession'
      BY <3>1, <3>2 DEF SessionInv
    <3>4. \A q, r \in Participants : sess'[q] = sess'[r] /\ sess'[q] # NoSession => q = r
      BY <3>1 DEF SessionInv
    <3>5. \A q \in Participants :
            /\ pc'[q] \in Connecting \cup {"up"} => sess'[q] # NoSession
            /\ pc'[q] \in {"live", "up"} => liveId'[q] # NoSession
            /\ pc'[q] = "create" => made'[q] < Len(NodeOrder)
      BY <1>3, <2>0, <3>1, <3>2 DEF Expire, SessionInv, TypeOK
    <3> QED BY <3>2, <3>3, <3>4, <3>5 DEF SessionInv
  <2>6. OrderInv'
    BY <1>3 DEF Expire, OrderInv
  <2> QED BY <2>4, <2>5, <2>6
<1>4. ASSUME NEW p \in Participants, TimeOut(p) PROVE LifecycleInv'
  <2>0. live' \in [owner : 0 .. limit.sessions, id : 0 .. limit.sessions]
    BY <1>4, <1>0 DEF TimeOut, EndSession, TypeOK
  <2>1. TypeOK'
    BY <1>4, <2>0 DEF TimeOut, EndSession, TypeOK
  <2>2. SessionInv'
    BY <1>4, <1>0 DEF TimeOut, EndSession, SessionInv
  <2>3. OrderInv'
    BY <1>4 DEF TimeOut, EndSession, OrderInv
  <2> QED BY <2>1, <2>2, <2>3
<1>5. ASSUME NEW p \in Participants, Crash(p) PROVE LifecycleInv'
  <2>1. crashes' \in 0 .. limit.crashes
    BY <1>5, <1>0 DEF Crash, TypeOK
  <2>2. met' \in BOOLEAN
    BY <1>5 DEF Crash, TypeOK
  <2> QED BY <1>5, <2>1, <2>2, InvDie DEF Crash
<1> QED BY <1>1, <1>2, <1>3, <1>4, <1>5

\* Connect, up to the event loop.
LEMMA InvConnect ==
  ASSUME LifecycleInv, NEW p \in Participants, Connect(p) \/ ConnectStep(p)
  PROVE  LifecycleInv'
<1>0. /\ limit.connects \in Nat \ {0} /\ limit.sessions \in Nat \ {0}
      /\ limit.tries \in Nat
  BY LimitType DEF TypeOK
<1>1. CASE Connect(p)
  <2>0. /\ connects' \in [Participants -> 0 .. limit.connects]
        /\ pc' \in [Participants -> {"off", "up", "dead"} \cup Connecting \cup Disconnecting]
        /\ met' \in BOOLEAN
    <3>1. connects' \in [Participants -> 0 .. limit.connects]
      <4>1. connects[p] + 1 \in 0 .. limit.connects
        BY <1>1, <1>0 DEF Connect, TypeOK
      <4> QED BY <1>1, <4>1 DEF Connect, TypeOK
    <3>2. pc' \in [Participants -> {"off", "up", "dead"} \cup Connecting \cup Disconnecting]
      BY <1>1, Places DEF Connect, TypeOK
    <3>3. met' \in BOOLEAN
      BY <1>1 DEF Connect, TypeOK
    <3> QED BY <3>1, <3>2, <3>3
  <2>1. CASE sess[p] # NoSession
    <3>1. TypeOK'
      BY <1>1, <2>0, <2>1 DEF Connect, TypeOK
    <3>2. SessionInv'
      BY <1>1, <2>1 DEF Connect, SessionInv, TypeOK
    <3> QED BY <1>1, <3>1, <3>2 DEF Connect, OrderInv
  <2>2. CASE sess[p] = NoSession
    <3>0. /\ lastSession' = lastSession + 1 /\ lastSession' \in AllSessions
          /\ sess' = [sess EXCEPT ![p] = lastSession']
          /\ alive' = alive \cup {lastSession'}
      <4>1. /\ lastSession < limit.sessions /\ lastSession' = lastSession + 1
            /\ sess' = [sess EXCEPT ![p] = lastSession + 1]
            /\ alive' = alive \cup {lastSession + 1}
        BY <1>1, <2>2 DEF Connect, OpenSession
      <4>2. lastSession \in 0 .. limit.sessions
        BY DEF TypeOK
      <4> QED BY <4>1, <4>2, <1>0
    <3>1. /\ sess' \in [Participants -> 0 .. limit.sessions]
          /\ lastSession' \in 0 .. limit.sessions
          /\ alive' \subseteq AllSessions
      BY <3>0, <1>0 DEF TypeOK
    <3>2. TypeOK'
      BY <1>1, <2>0, <3>1 DEF Connect, TypeOK
    <3>3. SessionInv'
      <4>1. /\ lastSession \in Nat /\ lastSession' = lastSession + 1
            /\ \A q \in Participants : sess[q] \in Nat /\ liveId[q] \in Nat
            /\ \A q \in Participants : sess'[q] = IF q = p THEN lastSession + 1 ELSE sess[q]
        BY <1>1, <3>0, <1>0 DEF TypeOK
      <4>2. /\ liveId' = liveId /\ made' = made /\ live' \in {live, NoLive}
            /\ \A q \in Participants : pc'[q] \in {pc[q], "setup"}
        BY <1>1, <3>0 DEF Connect, TypeOK
      <4>3. \A q \in Participants : sess'[q] <= lastSession' /\ liveId'[q] <= lastSession'
        BY <4>1, <4>2 DEF SessionInv
      <4>4. \A q, r \in Participants : sess'[q] = sess'[r] /\ sess'[q] # NoSession => q = r
        BY <4>1 DEF SessionInv
      <4>5. \A q \in Participants :
              /\ pc'[q] \in Connecting \cup {"up"} => sess'[q] # NoSession
              /\ pc'[q] \in {"live", "up"} => liveId'[q] # NoSession
              /\ pc'[q] = "create" => made'[q] < Len(NodeOrder)
        BY <1>1, <3>0, <4>1, <4>2 DEF Connect, SessionInv, TypeOK
      <4> QED BY <4>2, <4>3, <4>4, <4>5 DEF SessionInv
    <3> QED BY <1>1, <3>2, <3>3 DEF Connect, OrderInv
  <2> QED BY <2>1, <2>2
<1>2. CASE IsClusterSetup(p)
  <2>1. TypeOK'
    BY <1>2, Places DEF IsClusterSetup, TypeOK
  <2>2. SessionInv' /\ OrderInv'
    BY <1>2, Places DEF IsClusterSetup, SessionInv, OrderInv, TypeOK
  <2> QED BY <2>1, <2>2
<1>3. CASE EnsureParticipantConfig(p)
  <2>0. pc' \in [Participants -> {"off", "up", "dead"} \cup Connecting \cup Disconnecting]
    <3>1. \E there \in Connecting \cup Disconnecting : pc' = [pc EXCEPT ![p] = there]
      <4>1. \E there \in {"create", "list", "disconnect"} : pc' = [pc EXCEPT ![p] = there]
        BY <1>3 DEF EnsureParticipantConfig
      <4>2. {"create", "list", "disconnect"} \subseteq Connecting \cup Disconnecting
        BY Places DEF Disconnecting
      <4> QED BY <4>1, <4>2
    <3> QED BY <3>1 DEF TypeOK
  <2>1. made' \in [Participants -> 0 .. Len(NodeOrder)]
    <3>1. 0 \in 0 .. Len(NodeOrder)
      BY NodeOrderType
    <3> QED BY <1>3, <3>1 DEF EnsureParticipantConfig, TypeOK
  <2>3. TypeOK'
    BY <1>3, <2>0, <2>1 DEF EnsureParticipantConfig, TypeOK
  <2>4. /\ UNCHANGED <<limit, sess, liveId, live, lastSession, mail, target, hand>>
        /\ pc[p] = "ensure" /\ made' = [made EXCEPT ![p] = 0]
        /\ \E there \in {"create", "list", "disconnect"} : pc' = [pc EXCEPT ![p] = there]
    BY <1>3 DEF EnsureParticipantConfig
  <2>2. SessionInv' /\ OrderInv'
    <3>1. \A q \in Participants :
             /\ pc'[q] \in Connecting \cup {"up"} => sess[q] # NoSession
             /\ pc'[q] \in {"live", "up"} => pc[q] \in {"live", "up"}
             /\ pc'[q] = "create" => made'[q] < Len(NodeOrder)
      <4>1. \A q \in Participants :
               /\ made'[q] = IF q = p THEN 0 ELSE made[q]
               /\ pc'[q] = pc[q] \/ (q = p /\ pc'[q] \in {"create", "list", "disconnect"})
        BY <2>4 DEF TypeOK
      <4>2. sess[p] # NoSession /\ 0 < Len(NodeOrder)
        BY <2>4, NodeOrderType, Places DEF SessionInv
      <4>3. \A q \in Participants : pc[q] = "create" => made[q] < Len(NodeOrder)
        BY DEF SessionInv
      <4>4. \A q \in Participants : pc[q] \in Connecting \cup {"up"} => sess[q] # NoSession
        BY DEF SessionInv
      <4> QED BY <4>1, <4>2, <4>3, <4>4
    <3> QED BY <2>4, <3>1 DEF SessionInv, OrderInv
  <2> QED BY <2>2, <2>3
<1>4. CASE CreateNode(p)
  <2>1. made[p] \in 0 .. 6 /\ NodeOrder[made[p] + 1] \in OwnNodes
    BY <1>4, NodeOrderType DEF CreateNode, SessionInv, TypeOK
  <2>0. /\ pc' \in [Participants -> {"off", "up", "dead"} \cup Connecting \cup Disconnecting]
        /\ made' \in [Participants -> 0 .. Len(NodeOrder)]
        /\ nodes' \subseteq OwnNodes
    BY <1>4, <2>1, NodeOrderType, Places DEF CreateNode, TypeOK
  <2>2. TypeOK'
    BY <1>4, <2>0, Places DEF CreateNode, TypeOK
  <2>4. /\ UNCHANGED <<limit, sess, liveId, live, lastSession, mail, target, hand>>
        /\ pc[p] = "create" /\ made' = [made EXCEPT ![p] = @ + 1]
        /\ pc' = [pc EXCEPT ![p] = IF made[p] + 1 = Len(NodeOrder) THEN "list" ELSE "create"]
    BY <1>4 DEF CreateNode
  <2>3. SessionInv' /\ OrderInv'
    <3>1. \A q \in Participants :
             /\ pc'[q] \in Connecting \cup {"up"} => sess[q] # NoSession
             /\ pc'[q] \in {"live", "up"} => pc[q] \in {"live", "up"}
      BY <2>4, Places DEF SessionInv, TypeOK
    <3>2. \A q \in Participants : pc'[q] = "create" => made'[q] < Len(NodeOrder)
      <4>1. \A q \in Participants :
               /\ made'[q] = IF q = p THEN made[p] + 1 ELSE made[q]
               /\ pc'[q] = IF q # p THEN pc[q]
                           ELSE IF made[p] + 1 = Len(NodeOrder) THEN "list" ELSE "create"
        BY <2>4 DEF TypeOK
      <4>2. made[p] + 1 # Len(NodeOrder) => made[p] + 1 < Len(NodeOrder)
        BY <2>1, NodeOrderType
      <4>3. \A q \in Participants : pc[q] = "create" => made[q] < Len(NodeOrder)
        BY DEF SessionInv
      <4> QED BY <4>1, <4>2, <4>3
    <3> QED BY <2>4, <3>1, <3>2 DEF SessionInv, OrderInv
  <2> QED BY <2>2, <2>3
<1>5. CASE ListSessions(p)
  <2>1. TypeOK'
    BY <1>5, Places DEF ListSessions, TypeOK
  <2>2. SessionInv' /\ OrderInv'
    BY <1>5, Places DEF ListSessions, SessionInv, OrderInv, TypeOK
  <2> QED BY <2>1, <2>2
<1>6. ASSUME NEW s \in AllSessions,
             \/ CleanSession(p, s) \/ CleanLooks(p, s) \/ CleanResource(p, s)
             \/ CleanDelete(p, s)
      PROVE  LifecycleInv'
  <2>0. \E there \in {"clean"} \cup Cleaning : pc' = [pc EXCEPT ![p] = there]
    <3>1. CASE CleanSession(p, s)
      BY <3>1 DEF CleanSession, Cleaning
    <3>2. CASE CleanLooks(p, s)
      BY <3>2 DEF CleanLooks, Cleaning
    <3>3. CASE CleanResource(p, s) \/ CleanDelete(p, s)
      BY <3>3 DEF CleanResource, CleanDelete, Cleaning
    <3> QED BY <1>6, <3>1, <3>2, <3>3
  <2>1. pc[p] \in {"clean"} \cup Cleaning
    BY <1>6 DEF CleanSession, CleanLooks, CleanResource, CleanDelete, At, Cleaning
  <2>2. /\ UNCHANGED <<clusterUp, nodes, limit, alive, lastSession, live, target, mail, pstate,
                       sess, connects, made, liveId, tries, stopClosed, loops, hand, got,
                       crashes, met>>
        /\ tree' \in [AllSessions -> {"none", "session", "empty", "record"}]
        /\ applied' \subseteq AllSessions \X Orders
        /\ toClean' \in [Participants -> SUBSET AllSessions]
        /\ cleaning' \in [Participants -> 0 .. limit.sessions]
    <3>1. CASE CleanSession(p, s)
      BY <1>0, <3>1 DEF CleanSession, TypeOK
    <3>2. CASE CleanLooks(p, s)
      BY <3>2 DEF CleanLooks, TypeOK
    <3>3. CASE CleanResource(p, s)
      BY <3>3 DEF CleanResource, TypeOK
    <3>4. CASE CleanDelete(p, s)
      BY <3>4 DEF CleanDelete, TypeOK
    <3> QED BY <1>6, <3>1, <3>2, <3>3, <3>4
  <2>3. pc' \in [Participants -> {"off", "up", "dead"} \cup Connecting \cup Disconnecting]
    BY <2>0, Places DEF TypeOK
  <2>4. TypeOK'
    BY <2>2, <2>3 DEF TypeOK
  <2>5. SessionInv' /\ OrderInv'
    <3>1. \A q \in Participants :
             /\ pc'[q] \in Connecting \cup {"up"} => sess[q] # NoSession
             /\ pc'[q] \in {"live", "up", "create"} => pc'[q] = pc[q]
      BY <2>0, <2>1, Places DEF SessionInv, TypeOK
    <3> QED BY <2>2, <3>1 DEF SessionInv, OrderInv
  <2> QED BY <2>4, <2>5
<1>7. CASE StartLoop(p)
  <2>0. /\ loops' \in [Participants -> [Generations ->
                    {"none", "ready", "running", "stopping", "stopped"} \cup Working]]
        /\ tries' \in [Participants -> 0 .. limit.tries]
    <3>1. limit.tries \in 0 .. limit.tries /\ connects[p] \in 0 .. limit.connects
      BY <1>0 DEF TypeOK
    <3>2. tries' \in [Participants -> 0 .. limit.tries]
      BY <1>7, <3>1, Places DEF StartLoop, TypeOK
    <3>3. loops' = [loops EXCEPT ![p][connects[p]] = "ready"]
      BY <1>7 DEF StartLoop
    <3> QED BY <3>2, <3>3 DEF TypeOK
  <2>3. met' \in BOOLEAN
    BY <1>7, Places DEF StartLoop, TypeOK
  <2>1. TypeOK'
    BY <1>7, <2>0, <2>3, Places DEF StartLoop, TypeOK
  <2>2. SessionInv' /\ OrderInv'
    BY <1>7, Places DEF StartLoop, SessionInv, OrderInv, TypeOK
  <2> QED BY <2>1, <2>2
<1>8. CASE CreateLiveInstance(p)
  <2>1. TypeOK'
    BY <1>8, Places DEF CreateLiveInstance, TypeOK
  <2>2. SessionInv' /\ OrderInv'
    BY <1>8, Places DEF CreateLiveInstance, SessionInv, OrderInv, TypeOK
  <2> QED BY <2>1, <2>2
<1>9. CASE LiveInstanceExists(p) /\ tries[p] > 0
  <2>0. tries' \in [Participants -> 0 .. limit.tries]
    <3>1. tries[p] - 1 \in 0 .. limit.tries
      BY <1>9, <1>0 DEF TypeOK
    <3>2. tries' = [tries EXCEPT ![p] = tries[p] - 1]
      BY <1>9 DEF LiveInstanceExists
    <3> QED BY <3>1, <3>2 DEF TypeOK
  <2>1. TypeOK'
    BY <1>9, <2>0, Places DEF LiveInstanceExists, TypeOK
  <2>2. SessionInv' /\ OrderInv'
    BY <1>9, Places DEF LiveInstanceExists, SessionInv, OrderInv
  <2> QED BY <2>1, <2>2
<1>10. CASE \/ CreateNodeFails(p)
            \/ \E s \in AllSessions : CleanFails(p, s)
            \/ LiveInstanceExists(p) /\ ~(tries[p] > 0)
  BY <1>10, InvDie DEF CreateNodeFails, CleanFails, LiveInstanceExists, TypeOK
<1> QED
  BY <1>1, <1>2, <1>3, <1>4, <1>5, <1>6, <1>7, <1>8, <1>9, <1>10 DEF ConnectStep

\* A loop takes an order, goes on with it or ends with it.
LEMMA InvWork ==
  ASSUME LifecycleInv, NEW p \in Participants, NEW g \in Generations,
         UNCHANGED <<nodeVars, sessionVars, callVars, procVars, ghostVars, pc, target>>,
         NEW there \in {"running"} \cup Working, loops' = [loops EXCEPT ![p][g] = there],
         NEW o \in Orders \cup {NoOrder}, hand' = [hand EXCEPT ![p][g] = o],
         o # NoOrder => target[o] # NoSession,
         mail' \subseteq mail, applied' \subseteq AllSessions \X Orders,
         tree' \in [AllSessions -> {"none", "session", "empty", "record"}],
         got' \in [Participants -> [Generations ->
                     [path : 0 .. limit.sessions, of : SUBSET Orders]]]
  PROVE  LifecycleInv'
<1>1. /\ loops' \in [Participants -> [Generations ->
                    {"none", "ready", "running", "stopping", "stopped"} \cup Working]]
      /\ hand' \in [Participants -> [Generations -> Orders \cup {NoOrder}]]
  BY DEF TypeOK
<1>2. TypeOK'
  BY <1>1 DEF TypeOK
<1>3. SessionInv'
  BY DEF SessionInv
<1>4. OrderInv'
  <2>1. \A q \in Participants, h \in Generations :
           hand'[q][h] = IF q = p /\ h = g THEN o ELSE hand[q][h]
    BY DEF TypeOK
  <2> QED BY <2>1 DEF OrderInv
<1> QED BY <1>2, <1>3, <1>4

\* Orders are numbered from 1; a loop's hand may be written with what it holds.
LEMMA HandType ==
  ASSUME TypeOK, NEW p \in Participants, NEW g \in Generations
  PROVE  /\ NoOrder \notin Orders
         /\ hand[p][g] \in Orders \cup {NoOrder}
         /\ hand = [hand EXCEPT ![p][g] = hand[p][g]]
<1>1. NoOrder \notin Orders
  BY LimitType DEF TypeOK
<1>2. /\ hand \in [Participants -> [Generations -> Orders \cup {NoOrder}]]
      /\ hand[p] \in [Generations -> Orders \cup {NoOrder}]
  BY DEF TypeOK
<1>3. hand[p][g] \in Orders \cup {NoOrder}
  BY <1>2
<1>4. hand[p] = [hand[p] EXCEPT ![g] = hand[p][g]]
  BY <1>2
<1>5. hand = [hand EXCEPT ![p] = hand[p]]
  BY <1>2
<1>6. hand = [hand EXCEPT ![p][g] = hand[p][g]]
  BY <1>4, <1>5
<1> QED BY <1>1, <1>3, <1>6

\* What the steps of processMessage have in common: the loop has the order, the
\* types of what they change, and they leave the rest alone.
LEMMA WorkStep ==
  ASSUME LifecycleInv, NEW p \in Participants, NEW g \in Generations, NEW o \in Orders,
         \/ LoopGets(p, g, o) \/ LoopExists(p, g, o) \/ LoopEnsures(p, g, o)
         \/ LoopCreates(p, g, o) \/ LoopSetGets(p, g, o) \/ LoopSets(p, g, o)
         \/ \E s \in AllSessions : LoopReads(p, g, o, s) \/ LoopApplies(p, g, o, s)
         \/ LoopRemoves(p, g, o) \/ LoopDeletes(p, g, o)
  PROVE  /\ UNCHANGED <<nodeVars, sessionVars, callVars, procVars, ghostVars, pc, target>>
         /\ hand[p][g] = o /\ loops[p][g] \in Working \ {"lost", "broken"}
         /\ \E there \in ({"running"} \cup Working) \ {"lost"} :
               loops' = [loops EXCEPT ![p][g] = there]
         /\ hand' = hand \/ hand' = [hand EXCEPT ![p][g] = NoOrder]
         /\ mail' \subseteq mail /\ applied' \subseteq AllSessions \X Orders
         /\ tree' \in [AllSessions -> {"none", "session", "empty", "record"}]
         /\ got' \in [Participants -> [Generations ->
                     [path : 0 .. limit.sessions, of : SUBSET Orders]]]
<1>0. limit.sessions \in Nat /\ limit.orders \in Nat
  BY LimitType DEF TypeOK
<1> USE DEF LoopGoto, Calls, Holds, AfterRecord, Working, BeforeCall, InRead, InWrite, loopElse
<1>1. CASE LoopGets(p, g, o)
  BY <1>1 DEF LoopGets, TypeOK
<1>2. CASE LoopExists(p, g, o)
  BY <1>2 DEF LoopExists, TypeOK
<1>3. CASE LoopEnsures(p, g, o)
  BY <1>3 DEF LoopEnsures, TypeOK
<1>4. CASE LoopCreates(p, g, o)
  BY <1>4 DEF LoopCreates, TypeOK
<1>5. CASE LoopSetGets(p, g, o)
  BY <1>5 DEF LoopSetGets, TypeOK
<1>6. CASE LoopSets(p, g, o)
  BY <1>6 DEF LoopSets, TypeOK
<1>7. ASSUME NEW s \in AllSessions, LoopReads(p, g, o, s)
      PROVE  /\ UNCHANGED <<stateVars, mailVars, hand, loopElse>>
             /\ hand[p][g] = o /\ loops[p][g] = "apply"
             /\ loops' = [loops EXCEPT ![p][g] = "applySet"]
             /\ got' \in [Participants -> [Generations ->
                     [path : 0 .. limit.sessions, of : SUBSET Orders]]]
  <2>1. [path |-> s, of |-> {a[2] : a \in {b \in applied : b[1] = s}}]
           \in [path : 0 .. limit.sessions, of : SUBSET Orders]
    BY <1>0 DEF TypeOK
  <2> QED BY <1>7, <2>1 DEF LoopReads, TypeOK
<1>8. ASSUME NEW s \in AllSessions, LoopApplies(p, g, o, s)
      PROVE  /\ UNCHANGED <<mailVars, hand, loopElse>>
             /\ hand[p][g] = o /\ loops[p][g] = "applySet"
             /\ loops' = [loops EXCEPT ![p][g] = "remove"]
             /\ applied' \subseteq AllSessions \X Orders
             /\ tree' \in [AllSessions -> {"none", "session", "empty", "record"}]
             /\ got' \in [Participants -> [Generations ->
                     [path : 0 .. limit.sessions, of : SUBSET Orders]]]
  <2>1. NothingRead \in [path : 0 .. limit.sessions, of : SUBSET Orders]
    BY <1>0 DEF NothingRead
  <2>2. got[p][g].of \subseteq Orders
    <3>1. got[p] \in [Generations -> [path : 0 .. limit.sessions, of : SUBSET Orders]]
      BY DEF TypeOK
    <3> QED BY <3>1
  <2>3. applied' \subseteq AllSessions \X Orders
    BY <1>8, <2>2 DEF LoopApplies, TypeOK
  <2>4. got' \in [Participants -> [Generations ->
                     [path : 0 .. limit.sessions, of : SUBSET Orders]]]
    BY <1>8, <2>1 DEF LoopApplies, TypeOK
  <2> QED BY <1>8, <2>3, <2>4 DEF LoopApplies, TypeOK
<1>9. CASE LoopRemoves(p, g, o)
  BY <1>9 DEF LoopRemoves, LoopDone, TypeOK
<1>10. CASE LoopDeletes(p, g, o)
  BY <1>10 DEF LoopDeletes, LoopDone, TypeOK
<1>11. CASE \E s \in AllSessions : LoopReads(p, g, o, s)
  BY <1>7, <1>11 DEF TypeOK
<1>12. CASE \E s \in AllSessions : LoopApplies(p, g, o, s)
  BY <1>8, <1>12
<1> QED
  BY <1>1, <1>2, <1>3, <1>4, <1>5, <1>6, <1>9, <1>10, <1>11, <1>12

\* The event loops.
LEMMA InvLoop ==
  ASSUME LifecycleInv, NEW p \in Participants, NEW g \in Generations,
         \/ LoopStarts(p, g) \/ LoopStops(p, g) \/ LoopLost(p, g)
         \/ \E o \in Orders : LoopTakes(p, g, o) \/ ProcessMessage(p, g, o)
  PROVE  LifecycleInv'
<1>1. CASE LoopStarts(p, g)
  <2>1. TypeOK'
    BY <1>1 DEF LoopStarts, LoopGoto, TypeOK
  <2>2. SessionInv' /\ OrderInv'
    BY <1>1 DEF LoopStarts, SessionInv, OrderInv
  <2> QED BY <2>1, <2>2
<1>2. CASE LoopStops(p, g)
  <2>1. TypeOK'
    BY <1>2 DEF LoopStops, LoopGoto, TypeOK
  <2>2. SessionInv' /\ OrderInv'
    BY <1>2 DEF LoopStops, SessionInv, OrderInv
  <2> QED BY <2>1, <2>2
<1>3. CASE LoopLost(p, g)
  <2>1. TypeOK'
    BY <1>3 DEF LoopLost, LoopGoto, Working, TypeOK
  <2>2. SessionInv' /\ OrderInv'
    BY <1>3 DEF LoopLost, SessionInv, OrderInv
  <2> QED BY <2>1, <2>2
<1>4. ASSUME NEW o \in Orders, LoopTakes(p, g, o) PROVE LifecycleInv'
  <2>1. TypeOK'
    BY <1>4 DEF LoopTakes, LoopGoto, Working, BeforeCall, TypeOK
  <2>2. SessionInv' /\ OrderInv'
    BY <1>4 DEF LoopTakes, SessionInv, OrderInv, TypeOK
  <2> QED BY <2>1, <2>2
<1>5. ASSUME NEW o \in Orders, LoopFails(p, g, o) PROVE LifecycleInv'
  BY <1>5, InvDie DEF LoopFails, TypeOK
<1>6. ASSUME NEW o \in Orders, ProcessMessage(p, g, o), ~LoopFails(p, g, o)
      PROVE  LifecycleInv'
  <2>1. /\ UNCHANGED <<nodeVars, sessionVars, callVars, procVars, ghostVars, pc, target>>
        /\ hand[p][g] = o
        /\ hand' = hand \/ hand' = [hand EXCEPT ![p][g] = NoOrder]
        /\ mail' \subseteq mail /\ applied' \subseteq AllSessions \X Orders
        /\ tree' \in [AllSessions -> {"none", "session", "empty", "record"}]
        /\ got' \in [Participants -> [Generations ->
                     [path : 0 .. limit.sessions, of : SUBSET Orders]]]
    BY <1>6, WorkStep DEF ProcessMessage
  <2>2. PICK there \in {"running"} \cup Working : loops' = [loops EXCEPT ![p][g] = there]
    BY <1>6, WorkStep DEF ProcessMessage
  <2>3. target[o] # NoSession
    BY <2>1, HandType DEF OrderInv
  <2>4. \E m \in Orders \cup {NoOrder} :
           hand' = [hand EXCEPT ![p][g] = m] /\ (m # NoOrder => m = o)
    <3>1. CASE hand' = hand
      BY <2>1, <3>1, HandType
    <3>2. CASE hand' = [hand EXCEPT ![p][g] = NoOrder]
      BY <3>2
    <3> QED BY <2>1, <3>1, <3>2
  <2>5. PICK m \in Orders \cup {NoOrder} :
           hand' = [hand EXCEPT ![p][g] = m] /\ (m # NoOrder => m = o)
    BY <2>4
  <2> HIDE DEF LifecycleInv, AllSessions, Generations, Orders, NoOrder, NoSession
  <2> QED BY <2>1, <2>2, <2>3, <2>5, InvWork
<1> QED BY <1>1, <1>2, <1>3, <1>4, <1>5, <1>6

\* Disconnect.
LEMMA InvDisconnect ==
  ASSUME LifecycleInv, NEW p \in Participants, Disconnect(p) \/ DisconnectStep(p)
  PROVE  LifecycleInv'
<1> USE Places DEF Disconnecting
<1>0. limit.sessions \in Nat /\ limit.connects \in Nat
  BY LimitType DEF TypeOK
<1>1. CASE Disconnect(p) \/ ReadState(p) \/ AwaitStopped(p)
  <2>0. \E there \in {"off"} \cup Disconnecting : pc' = [pc EXCEPT ![p] = there]
    BY <1>1 DEF Disconnect, ReadState, AwaitStopped
  <2>1. UNCHANGED <<zkVars, callVars, loopVars, procVars, ghostVars>>
    BY <1>1 DEF Disconnect, ReadState, AwaitStopped
  <2>2. TypeOK'
    BY <2>0, <2>1 DEF TypeOK
  <2>3. SessionInv'
    BY <2>0, <2>1 DEF SessionInv, TypeOK
  <2>4. OrderInv'
    BY <2>1 DEF OrderInv
  <2> QED BY <2>2, <2>3, <2>4
<1>2. ASSUME NEW g \in Generations, SendStop(p, g) PROVE LifecycleInv'
  <2>1. TypeOK'
    BY <1>2 DEF SendStop, LoopGoto, TypeOK
  <2>2. SessionInv' /\ OrderInv'
    BY <1>2 DEF SendStop, SessionInv, OrderInv, TypeOK
  <2> QED BY <2>1, <2>2
<1>3. CASE SendOnClosed(p)
  BY <1>3, InvDie DEF SendOnClosed, TypeOK
<1>4. CASE CloseStop(p)
  <2>1. TypeOK'
    BY <1>4 DEF CloseStop, TypeOK
  <2>2. SessionInv' /\ OrderInv'
    BY <1>4 DEF CloseStop, SessionInv, OrderInv, TypeOK
  <2> QED BY <2>1, <2>2
<1>5. CASE CloseConnection(p)
  <2>0. live' \in [owner : 0 .. limit.sessions, id : 0 .. limit.sessions]
    BY <1>5, <1>0 DEF CloseConnection, EndSession, TypeOK
  <2>1. TypeOK'
    <3>1. alive' \subseteq AllSessions
      BY <1>5 DEF CloseConnection, EndSession, TypeOK
    <3>2. 0 \in 0 .. limit.sessions /\ connects[p] \in 0 .. limit.connects
      BY <1>0 DEF TypeOK
    <3>4. sess' \in [Participants -> 0 .. limit.sessions]
      BY <1>5, <3>2 DEF CloseConnection, TypeOK
    <3>3. loops' \in [Participants -> [Generations ->
                    {"none", "ready", "running", "stopping", "stopped"} \cup Working]]
      <4>1. \A g \in Generations :
               AfterClose(loops[p][g]) \in
                    {"none", "ready", "running", "stopping", "stopped"} \cup Working
        <5>1. ASSUME NEW g \in Generations
              PROVE  loops[p][g] \in
                    {"none", "ready", "running", "stopping", "stopped"} \cup Working
          <6>1. loops[p] \in [Generations ->
                    {"none", "ready", "running", "stopping", "stopped"} \cup Working]
            BY DEF TypeOK
          <6> QED BY <6>1
        <5>2. {"lost", "broken"} \subseteq Working
          BY DEF Working
        <5> QED BY <5>1, <5>2 DEF AfterClose
      <4> QED BY <1>5, <4>1 DEF CloseConnection, TypeOK
    <3>5. hand' \in [Participants -> [Generations -> Orders \cup {NoOrder}]]
      <4>1. \A g \in Generations : hand[p][g] \in Orders \cup {NoOrder}
        BY HandType
      <4>2. hand' = [hand EXCEPT ![p] =
                  [g \in Generations |-> IF loops[p][g] = "msgDelete" THEN NoOrder ELSE hand[p][g]]]
        BY <1>5 DEF CloseConnection, TypeOK
      <4> QED BY <4>1, <4>2 DEF TypeOK
    <3>6. got' \in [Participants -> [Generations ->
                     [path : 0 .. limit.sessions, of : SUBSET Orders]]]
      <4>1. NothingRead \in [path : 0 .. limit.sessions, of : SUBSET Orders]
        BY <1>0 DEF NothingRead
      <4> QED BY <1>5, <4>1 DEF CloseConnection, TypeOK
    <3> QED
      BY <1>5, <2>0, <3>1, <3>3, <3>4, <3>5, <3>6 DEF CloseConnection, EndSession, TypeOK
  <2>2. SessionInv' /\ OrderInv'
    <3>1. /\ UNCHANGED <<limit, liveId, lastSession, made, mail, target>>
          /\ live' \in {live, NoLive}
      BY <1>5 DEF CloseConnection, EndSession
    <3>2. \A q \in Participants :
             /\ sess'[q] = IF q = p THEN NoSession ELSE sess[q]
             /\ pc'[q] = IF q = p THEN "off" ELSE pc[q]
      BY <1>5 DEF CloseConnection, TypeOK
    <3>3. lastSession \in Nat
      BY <1>0 DEF TypeOK
    <3>4. SessionInv'
      BY <3>1, <3>2, <3>3, Places DEF SessionInv
    <3>5. \A q \in Participants, g \in Generations : hand'[q][g] \in {hand[q][g], NoOrder}
      BY <1>5 DEF CloseConnection, TypeOK
    <3>6. OrderInv'
      BY <3>1, <3>5 DEF OrderInv
    <3> QED BY <3>4, <3>6
  <2> QED BY <2>1, <2>2
<1> QED BY <1>1, <1>2, <1>3, <1>4, <1>5 DEF DisconnectStep

\* Any step.
LEMMA InvStep == ASSUME LifecycleInv, [Next]_vars PROVE LifecycleInv'
<1>1. CASE UNCHANGED vars
  <2>1. TypeOK'
    BY <1>1 DEF vars, TypeOK
  <2>2. SessionInv' /\ OrderInv'
    BY <1>1 DEF vars, SessionInv, OrderInv
  <2> QED BY <2>1, <2>2
<1>2. ASSUME NEW p \in Participants, LoopStep(p) PROVE LifecycleInv'
  BY <1>2, InvLoop DEF LoopStep
<1> QED
  BY <1>1, <1>2, InvEnvironment, InvConnect, InvLoop, InvDisconnect DEF Next

\* The invariant holds in every behaviour.
LEMMA InvHolds == Spec => []LifecycleInv
  BY InvInit, InvStep, PTL DEF Spec

\* Every variable keeps its type in every step of callers and loops.
THEOREM TypeCorrect == Spec => []TypeOK
<1>1. LifecycleInv => TypeOK
  OBVIOUS
<1> QED BY <1>1, InvHolds, PTL

-----------------------------------------------------------------------------
(***************************************************************************)
(* Disconnect finds a loop.                                                *)
(***************************************************************************)
\* The loop of a Connect that has not come to loop() is still to be started.
Before == {"setup", "ensure", "create", "list", "clean"} \cup Cleaning
FreshInv ==
    \A p \in Participants, g \in Generations :
        g > connects[p] \/ (g = connects[p] /\ pc[p] \in Before) => loops[p][g] = "none"

StartedInv == FreshInv /\ StartedHasLoop

\* Steps of one caller that leave the loops and p.state alone.
LEMMA StartedFrame ==
  ASSUME TypeOK, StartedInv, UNCHANGED <<loops, pstate, limit, connects>>,
         \/ UNCHANGED pc
         \/ \E p \in Participants, there \in Before \cup {"off", "live", "up"} \cup Disconnecting :
               /\ pc[p] # "dead" /\ pc' = [pc EXCEPT ![p] = there]
               /\ there \in Before => pc[p] \in Before
  PROVE  StartedInv'
<1>1. \A q \in Participants :
         /\ pc[q] = "dead" => pc'[q] = "dead"
         /\ pc'[q] \in Before => pc[q] \in Before
  BY DEF TypeOK, Before, Disconnecting
<1>2. FreshInv'
  BY <1>1 DEF StartedInv, FreshInv
<1>3. StartedHasLoop'
  BY <1>1 DEF StartedInv, StartedHasLoop
<1> QED BY <1>2, <1>3 DEF StartedInv

\* A dead process is not asked; the others keep their loops.
LEMMA StartedDie ==
  ASSUME TypeOK, StartedInv, NEW p \in Participants, Die(p),
         UNCHANGED <<pstate, limit, connects>>
  PROVE  StartedInv'
<1>1. \A q \in Participants :
         /\ pc'[q] = IF q = p THEN "dead" ELSE pc[q]
         /\ \A h \in Generations : loops'[q][h] = IF q = p THEN "none" ELSE loops[q][h]
  BY DEF Die, TypeOK
<1>2. FreshInv'
  BY <1>1 DEF StartedInv, FreshInv
<1>3. StartedHasLoop'
  BY <1>1 DEF StartedInv, StartedHasLoop
<1> QED BY <1>2, <1>3 DEF StartedInv

\* A loop that has started goes on until it sets p.state to psStopped.
LEMMA StartedLoop ==
  ASSUME TypeOK, StartedInv, NEW p \in Participants, NEW g \in Generations,
         UNCHANGED <<limit, connects>>, loops[p][g] # "none",
         \A q \in Participants : pc[q] # pc'[q] => pc[q] # "dead" /\ pc'[q] \notin Before,
         NEW there \in {"running", "stopping", "stopped"} \cup Working,
         loops' = [loops EXCEPT ![p][g] = there],
         \/ there # "stopped" /\ UNCHANGED pstate
         \/ there = "running" /\ pstate' = [pstate EXCEPT ![p] = "started"]
         \/ there = "stopped" /\ pstate' = [pstate EXCEPT ![p] = "stopped"]
  PROVE  StartedInv'
<1>1. \A q \in Participants, h \in Generations :
         loops'[q][h] = IF q = p /\ h = g THEN there ELSE loops[q][h]
  <2>1. loops \in [Participants -> [Generations ->
                    {"none", "ready", "running", "stopping", "stopped"} \cup Working]]
    BY DEF TypeOK
  <2> QED BY <2>1
<1>2. ASSUME NEW q \in Participants, pc'[q] # "dead", pstate'[q] = "started"
      PROVE  \E h \in Generations : loops'[q][h] \in {"running", "stopping"} \cup Working
  <2>1. CASE q = p
    BY <1>1, <1>2, <2>1 DEF TypeOK
  <2>2. CASE q # p
    <3>1. pstate[q] = "started" /\ pc[q] # "dead"
      BY <1>2, <2>2 DEF TypeOK
    <3> QED BY <3>1, <1>1, <2>2 DEF StartedInv, StartedHasLoop
  <2> QED BY <2>1, <2>2
<1>3. FreshInv'
  BY <1>1 DEF StartedInv, FreshInv
<1> QED BY <1>2, <1>3 DEF StartedInv, StartedHasLoop

\* loop() starts one that was not there before.
LEMMA StartedStart ==
  ASSUME TypeOK, StartedInv, NEW p \in Participants, StartLoop(p)
  PROVE  StartedInv'
<1>1. connects[p] \in Generations => loops[p][connects[p]] = "none"
  BY DEF StartedInv, FreshInv, StartLoop, Before
<1>2. \A q \in Participants, h \in Generations :
         loops'[q][h] = IF q = p /\ h = connects[p] THEN "ready" ELSE loops[q][h]
  BY DEF StartLoop, TypeOK
<1>3. UNCHANGED <<pstate, limit, connects>> /\ pc' = [pc EXCEPT ![p] = "live"] /\ pc[p] = "clean"
  BY DEF StartLoop
<1>4. FreshInv'
  <2>1. \A q \in Participants : pc'[q] = IF q = p THEN "live" ELSE pc[q]
    BY <1>3 DEF TypeOK
  <2>2. connects[p] \in Nat
    BY LimitType DEF TypeOK
  <2>3. ASSUME NEW q \in Participants, NEW h \in Generations,
               h > connects[q] \/ (h = connects[q] /\ pc'[q] \in Before)
        PROVE  loops'[q][h] = "none"
    <3>1. ~(q = p /\ h = connects[p])
      BY <2>1, <2>2, <2>3, Places DEF Before
    <3>2. h > connects[q] \/ (h = connects[q] /\ pc[q] \in Before)
      BY <2>1, <2>3, <3>1
    <3> QED BY <1>2, <3>1, <3>2 DEF StartedInv, FreshInv
  <2> QED BY <1>3, <2>3 DEF FreshInv
<1>5. ASSUME NEW q \in Participants, pc'[q] # "dead", pstate'[q] = "started"
      PROVE  \E h \in Generations : loops'[q][h] \in {"running", "stopping"} \cup Working
  <2>1. pc[q] # "dead" /\ pstate[q] = "started"
    BY <1>3, <1>5 DEF TypeOK
  <2>2. PICK h \in Generations : loops[q][h] \in {"running", "stopping"} \cup Working
    BY <2>1 DEF StartedInv, StartedHasLoop
  <2> QED BY <1>1, <1>2, <2>2 DEF Working, BeforeCall, InRead, InWrite
<1> QED BY <1>4, <1>5, <1>3 DEF StartedInv, StartedHasLoop

\* Connect.
LEMMA StartedConnect ==
  ASSUME LifecycleInv, StartedInv, NEW p \in Participants, Connect(p) \/ ConnectStep(p)
  PROVE  StartedInv'
<1>0. {"setup", "ensure", "create", "list", "clean"} \cup Cleaning = Before /\ "dead" \notin Before
  BY Places DEF Before
<1>1. CASE Connect(p)
  <2>1. /\ UNCHANGED <<loops, pstate, limit>> /\ pc[p] = "off"
        /\ \A q \in Participants : pc'[q] = IF q = p THEN "setup" ELSE pc[q]
        /\ \A q \in Participants :
              connects[q] \in Nat /\ connects'[q] = IF q = p THEN connects[q] + 1 ELSE connects[q]
    BY <1>1, LimitType DEF Connect, TypeOK
  <2>2. ASSUME NEW q \in Participants, NEW h \in Generations,
               h > connects'[q] \/ (h = connects'[q] /\ pc'[q] \in Before)
        PROVE  loops'[q][h] = "none"
    <3>1. h \in Nat
      BY LimitType DEF TypeOK
    <3>2. h > connects[q] \/ (h = connects[q] /\ pc[q] \in Before)
      BY <2>1, <2>2, <3>1
    <3> QED BY <2>1, <3>2 DEF StartedInv, FreshInv
  <2>3. FreshInv'
    BY <2>1, <2>2 DEF FreshInv
  <2>4. StartedHasLoop'
    BY <2>1 DEF StartedInv, StartedHasLoop
  <2> QED BY <2>3, <2>4 DEF StartedInv
<1>2. ASSUME NEW s \in AllSessions,
             \/ IsClusterSetup(p) \/ EnsureParticipantConfig(p) \/ CreateNode(p)
             \/ ListSessions(p) \/ CreateLiveInstance(p)
             \/ CleanSession(p, s) \/ CleanLooks(p, s) \/ CleanResource(p, s)
             \/ CleanDelete(p, s)
      PROVE  StartedInv'
  <2>1. UNCHANGED <<loops, pstate, limit, connects>>
    BY <1>2
    DEF IsClusterSetup, EnsureParticipantConfig, CreateNode, ListSessions,
        CreateLiveInstance, CleanSession, CleanLooks, CleanResource, CleanDelete
  <2>2. \E there \in Before \cup {"off", "live", "up"} \cup Disconnecting :
           /\ pc[p] # "dead" /\ pc' = [pc EXCEPT ![p] = there]
           /\ there \in Before => pc[p] \in Before
    <3>1. CASE IsClusterSetup(p)
      BY <1>0, <3>1 DEF IsClusterSetup
    <3>2. CASE EnsureParticipantConfig(p)
      BY <1>0, <3>2 DEF EnsureParticipantConfig, Disconnecting
    <3>3. CASE CreateNode(p)
      BY <1>0, <3>3 DEF CreateNode
    <3>4. CASE ListSessions(p)
      BY <1>0, <3>4 DEF ListSessions
    <3>5. CASE CreateLiveInstance(p)
      BY <1>0, <3>5, Places DEF CreateLiveInstance, Before
    <3>6. CASE CleanSession(p, s)
      BY <1>0, <3>6 DEF CleanSession, Cleaning
    <3>7. CASE CleanLooks(p, s)
      BY <1>0, <3>7 DEF CleanLooks, At, Cleaning
    <3>8. CASE CleanResource(p, s) \/ CleanDelete(p, s)
      BY <1>0, <3>8 DEF CleanResource, CleanDelete, At, Cleaning
    <3> QED BY <1>2, <3>1, <3>2, <3>3, <3>4, <3>5, <3>6, <3>7, <3>8
  <2> QED BY <2>1, <2>2, StartedFrame
<1>3. 1 \in AllSessions
  BY LimitType DEF TypeOK
<1>4. CASE LiveInstanceExists(p)
  <2>1. CASE tries[p] > 0
    BY <1>4, <2>1, StartedFrame DEF LiveInstanceExists
  <2>2. CASE ~(tries[p] > 0)
    BY <1>4, <2>2, StartedDie DEF LiveInstanceExists
  <2> QED BY <2>1, <2>2
<1>5. CASE CreateNodeFails(p) \/ \E s \in AllSessions : CleanFails(p, s)
  BY <1>5, StartedDie DEF CreateNodeFails, CleanFails
<1> QED BY <1>1, <1>2, <1>3, <1>4, <1>5, StartedStart DEF ConnectStep

\* The event loops.
LEMMA StartedLoops ==
  ASSUME LifecycleInv, StartedInv, NEW p \in Participants, NEW g \in Generations,
         \/ LoopStarts(p, g) \/ LoopStops(p, g) \/ LoopLost(p, g)
         \/ \E o \in Orders : LoopTakes(p, g, o) \/ ProcessMessage(p, g, o)
  PROVE  StartedInv'
<1>0. "none" \notin Working /\ {"get", "lost"} \subseteq Working
  BY DEF Working, BeforeCall, InRead, InWrite
<1>1. CASE LoopStarts(p, g)
  BY <1>1, StartedLoop DEF LoopStarts, LoopGoto
<1>2. CASE LoopStops(p, g)
  BY <1>2, StartedLoop DEF LoopStops, LoopGoto
<1>3. CASE LoopLost(p, g)
  <2>1. loops[p][g] # "none"
    BY <1>3 DEF LoopLost, BeforeCall
  <2> QED BY <1>0, <1>3, <2>1, StartedLoop DEF LoopLost, LoopGoto
<1>4. ASSUME NEW o \in Orders, LoopTakes(p, g, o) PROVE StartedInv'
  BY <1>0, <1>4, StartedLoop DEF LoopTakes, LoopGoto
<1>5. ASSUME NEW o \in Orders, LoopFails(p, g, o) PROVE StartedInv'
  BY <1>5, StartedDie DEF LoopFails
<1>6. ASSUME NEW o \in Orders, ProcessMessage(p, g, o), ~LoopFails(p, g, o)
      PROVE  StartedInv'
  <2>1. UNCHANGED <<pc, limit, connects, pstate>> /\ loops[p][g] \in Working
    BY <1>6, WorkStep DEF ProcessMessage
  <2>2. PICK there \in {"running"} \cup Working : loops' = [loops EXCEPT ![p][g] = there]
    BY <1>6, WorkStep DEF ProcessMessage
  <2>3. there # "stopped" /\ there \in {"running", "stopping", "stopped"} \cup Working
    BY DEF Working, BeforeCall, InRead, InWrite
  <2> QED BY <1>0, <2>1, <2>2, <2>3, StartedLoop
<1> QED BY <1>1, <1>2, <1>3, <1>4, <1>5, <1>6

\* Disconnect.
LEMMA StartedDisconnect ==
  ASSUME LifecycleInv, StartedInv, NEW p \in Participants, Disconnect(p) \/ DisconnectStep(p)
  PROVE  StartedInv'
<1>0. \A there \in {"off"} \cup Disconnecting : there \notin Before
  BY DEF Before, Disconnecting, Cleaning
<1>1. CASE Disconnect(p) \/ ReadState(p) \/ CloseStop(p) \/ AwaitStopped(p)
  <2>1. UNCHANGED <<loops, pstate, limit, connects>>
    BY <1>1 DEF Disconnect, ReadState, CloseStop, AwaitStopped
  <2>2. \E there \in {"off"} \cup Disconnecting :
           pc[p] # "dead" /\ pc' = [pc EXCEPT ![p] = there]
    BY <1>1 DEF Disconnect, ReadState, CloseStop, AwaitStopped, Disconnecting
  <2> QED BY <1>0, <2>1, <2>2, StartedFrame
<1>2. ASSUME NEW g \in Generations, SendStop(p, g) PROVE StartedInv'
  <2>1. \A q \in Participants : pc[q] # pc'[q] => pc[q] # "dead" /\ pc'[q] \notin Before
    BY <1>0, <1>2 DEF SendStop, TypeOK, Disconnecting
  <2> QED BY <1>2, <2>1, StartedLoop DEF SendStop, LoopGoto
<1>3. CASE SendOnClosed(p)
  BY <1>3, StartedDie DEF SendOnClosed
<1>4. CASE CloseConnection(p)
  <2>1. /\ UNCHANGED <<limit, connects>>
        /\ \A q \in Participants :
              /\ pc'[q] = IF q = p THEN "off" ELSE pc[q]
              /\ pstate'[q] = IF q = p THEN "disconnected" ELSE pstate[q]
              /\ \A h \in Generations :
                    loops'[q][h] = IF q = p THEN AfterClose(loops[p][h]) ELSE loops[q][h]
    BY <1>4 DEF CloseConnection, TypeOK
  <2>2. AfterClose("none") = "none"
    BY DEF AfterClose, InRead, InWrite
  <2>3. FreshInv'
    BY <1>0, <2>1, <2>2 DEF StartedInv, FreshInv
  <2>4. StartedHasLoop'
    BY <2>1 DEF StartedInv, StartedHasLoop
  <2> QED BY <2>3, <2>4 DEF StartedInv
<1> QED BY <1>1, <1>2, <1>3, <1>4 DEF DisconnectStep

\* Any step.
LEMMA StartedStep ==
  ASSUME LifecycleInv, StartedInv, [Next]_vars PROVE StartedInv'
<1>1. CASE UNCHANGED vars \/ SetupCluster \/ \E o \in Orders : Send(o)
  BY <1>1, StartedFrame DEF vars, SetupCluster, Send
<1>2. ASSUME NEW p \in Participants, Expire(p) \/ TimeOut(p) PROVE StartedInv'
  BY <1>2, StartedFrame DEF Expire, TimeOut
<1>3. ASSUME NEW p \in Participants, Crash(p) PROVE StartedInv'
  BY <1>3, StartedDie DEF Crash
<1>4. ASSUME NEW p \in Participants, LoopStep(p) PROVE StartedInv'
  BY <1>4, StartedLoops DEF LoopStep
<1> QED
  BY <1>1, <1>2, <1>3, <1>4, StartedConnect, StartedLoops, StartedDisconnect DEF Next

\* Disconnect never waits for a loop that is not there: p.state is psStarted
\* only while some event loop will receive the stop (Disconnect, loop).
THEOREM StopFindsLoop == Spec => []StartedHasLoop
<1>1. Init => StartedInv
  BY DEF Init, StartedInv, FreshInv, StartedHasLoop
<1>2. LifecycleInv /\ StartedInv /\ [Next]_vars => StartedInv'
  BY StartedStep
<1>3. StartedInv => StartedHasLoop
  BY DEF StartedInv
<1> QED BY <1>1, <1>2, <1>3, InvHolds, PTL DEF Spec

-----------------------------------------------------------------------------
(***************************************************************************)
(* Connect returns as the registered live instance.                        *)
(***************************************************************************)
\* Steps that leave the sessions and the live instance alone.
LEMMA RegisteredFrame ==
  ASSUME UpIsRegistered, UNCHANGED <<sess, liveId, live>>,
         \A q \in Participants : pc'[q] = "up" => pc[q] = "up"
  PROVE  UpIsRegistered'
  BY DEF UpIsRegistered

\* A live instance that is there outlives the sessions of other participants.
LEMMA OthersStayRegistered ==
  ASSUME LifecycleInv, UpIsRegistered, NEW p \in Participants, NEW q \in Participants,
         q # p, pc[q] = "up", sess[q] = liveId[q],
         live' = IF live.owner = sess[p] THEN NoLive ELSE live
  PROVE  live' = [owner |-> sess[q], id |-> sess[q]]
<1>1. live = [owner |-> sess[q], id |-> sess[q]]
  BY DEF UpIsRegistered
<1>2. sess[q] # NoSession /\ sess[q] # sess[p]
  BY DEF SessionInv, Connecting
<1> QED BY <1>1, <1>2

\* Any step.
LEMMA RegisteredStep ==
  ASSUME LifecycleInv, UpIsRegistered, [Next]_vars PROVE UpIsRegistered'
<1> USE DEF TypeOK
<1>1. CASE UNCHANGED vars \/ SetupCluster \/ \E o \in Orders : Send(o)
  BY <1>1, RegisteredFrame DEF vars, SetupCluster, Send
<1>2. ASSUME NEW p \in Participants, Expire(p) PROVE UpIsRegistered'
  <2>1. /\ \A q \in Participants : sess'[q] = IF q = p THEN lastSession + 1 ELSE sess[q]
        /\ liveId' = liveId /\ pc' = pc
        /\ live' = IF live.owner = sess[p] THEN NoLive ELSE live
    BY <1>2 DEF Expire, OpenSession
  <2>2. lastSession \in Nat /\ liveId[p] \in Nat /\ liveId[p] <= lastSession
    BY LimitType DEF SessionInv
  <2>3. ASSUME NEW q \in Participants, pc'[q] = "up", sess'[q] = liveId'[q]
        PROVE  live' = [owner |-> sess'[q], id |-> sess'[q]]
    <3>1. q # p
      BY <2>1, <2>2, <2>3
    <3> QED BY <2>1, <2>3, <3>1, OthersStayRegistered
  <2> QED BY <2>3 DEF UpIsRegistered
<1>3. ASSUME NEW p \in Participants, TimeOut(p) \/ CloseConnection(p) PROVE UpIsRegistered'
  <2>1. /\ \A q \in Participants \ {p} : sess'[q] = sess[q] /\ pc'[q] = pc[q]
        /\ liveId' = liveId /\ pc'[p] # "up"
        /\ live' = IF live.owner = sess[p] THEN NoLive ELSE live
    BY <1>3 DEF TimeOut, CloseConnection, EndSession
  <2>2. ASSUME NEW q \in Participants, pc'[q] = "up", sess'[q] = liveId'[q]
        PROVE  live' = [owner |-> sess'[q], id |-> sess'[q]]
    <3>1. q # p /\ sess[q] = sess'[q] /\ pc[q] = "up" /\ sess[q] = liveId[q]
      BY <2>1, <2>2
    <3> QED BY <2>1, <3>1, OthersStayRegistered
  <2> QED BY <2>2 DEF UpIsRegistered
<1>4. ASSUME NEW p \in Participants, CreateLiveInstance(p) PROVE UpIsRegistered'
  <2>1. /\ UNCHANGED <<sess, liveId>> /\ live = NoLive
        /\ live' = [owner |-> sess[p], id |-> liveId[p]]
        /\ \A q \in Participants \ {p} : pc'[q] = pc[q]
    BY <1>4 DEF CreateLiveInstance
  <2>2. ASSUME NEW q \in Participants, pc'[q] = "up", sess'[q] = liveId'[q]
        PROVE  live' = [owner |-> sess'[q], id |-> sess'[q]]
    <3>1. q = p
      BY <2>1, <2>2 DEF UpIsRegistered, SessionInv, Connecting
    <3> QED BY <2>1, <2>2, <3>1
  <2> QED BY <2>2 DEF UpIsRegistered
<1>5. ASSUME NEW p \in Participants, Connect(p) \/ StartLoop(p) PROVE UpIsRegistered'
  <2>1. /\ live' = live /\ pc'[p] # "up"
        /\ \A q \in Participants \ {p} :
              sess'[q] = sess[q] /\ liveId'[q] = liveId[q] /\ pc'[q] = pc[q]
    BY <1>5 DEF Connect, StartLoop, OpenSession
  <2>2. ASSUME NEW q \in Participants, pc'[q] = "up", sess'[q] = liveId'[q]
        PROVE  live' = [owner |-> sess'[q], id |-> sess'[q]]
    BY <2>1, <2>2 DEF UpIsRegistered
  <2> QED BY <2>2 DEF UpIsRegistered
<1>6. ASSUME NEW p \in Participants,
             \/ Crash(p) \/ IsClusterSetup(p) \/ EnsureParticipantConfig(p)
             \/ CreateNode(p) \/ CreateNodeFails(p) \/ ListSessions(p)
             \/ \E s \in AllSessions :
                   \/ CleanSession(p, s) \/ CleanLooks(p, s) \/ CleanResource(p, s)
                   \/ CleanDelete(p, s) \/ CleanFails(p, s)
             \/ LiveInstanceExists(p)
      PROVE  UpIsRegistered'
  <2>1. UNCHANGED <<sess, liveId, live>>
    BY <1>6
    DEF Crash, Die, IsClusterSetup, EnsureParticipantConfig, CreateNode, CreateNodeFails,
        ListSessions, CleanSession, CleanLooks, CleanResource, CleanDelete, CleanFails,
        LiveInstanceExists
  <2>2. \A q \in Participants : pc'[q] = "up" => pc[q] = "up"
    <3>1. CASE LiveInstanceExists(p)
      BY <3>1 DEF LiveInstanceExists, Die
    <3>2. CASE IsClusterSetup(p) \/ EnsureParticipantConfig(p) \/ CreateNode(p)
      BY <3>2 DEF IsClusterSetup, EnsureParticipantConfig, CreateNode
    <3>3. CASE \/ Crash(p) \/ CreateNodeFails(p) \/ ListSessions(p)
               \/ \E s \in AllSessions : CleanSession(p, s) \/ CleanFails(p, s)
      BY <3>3 DEF Crash, Die, CreateNodeFails, ListSessions, CleanSession, CleanFails
    <3>4. CASE \E s \in AllSessions :
                  CleanLooks(p, s) \/ CleanResource(p, s) \/ CleanDelete(p, s)
      BY <3>4 DEF CleanLooks, CleanResource, CleanDelete
    <3> QED BY <1>6, <3>1, <3>2, <3>3, <3>4
  <2> QED BY <2>1, <2>2, RegisteredFrame
<1>7. ASSUME NEW p \in Participants, NEW g \in Generations, NEW o \in Orders,
             ProcessMessage(p, g, o)
      PROVE  UpIsRegistered'
  <2>1. CASE LoopFails(p, g, o)
    BY <2>1, RegisteredFrame DEF LoopFails, Die
  <2>2. CASE ~LoopFails(p, g, o)
    <3>1. UNCHANGED <<sess, liveId, live, pc>>
      BY <1>7, <2>2, WorkStep DEF ProcessMessage
    <3> QED BY <3>1, RegisteredFrame
  <2> QED BY <2>1, <2>2
<1>8. ASSUME NEW p \in Participants, NEW g \in Generations,
             \/ LoopStarts(p, g) \/ LoopStops(p, g) \/ LoopLost(p, g)
             \/ \E o \in Orders : LoopTakes(p, g, o)
      PROVE  UpIsRegistered'
  BY <1>8, RegisteredFrame DEF LoopStarts, LoopStops, LoopLost, LoopTakes
<1>9. ASSUME NEW p \in Participants,
             \/ Disconnect(p) \/ ReadState(p) \/ \E g \in Generations : SendStop(p, g)
             \/ SendOnClosed(p) \/ CloseStop(p) \/ AwaitStopped(p)
      PROVE  UpIsRegistered'
  <2>1. UNCHANGED <<sess, liveId, live>>
    BY <1>9
    DEF Disconnect, ReadState, SendStop, SendOnClosed, Die, CloseStop, AwaitStopped
  <2>2. \A q \in Participants : pc'[q] = "up" => pc[q] = "up"
    BY <1>9
    DEF Disconnect, ReadState, SendStop, SendOnClosed, Die, CloseStop, AwaitStopped
  <2> QED BY <2>1, <2>2, RegisteredFrame
<1>10. ASSUME NEW p \in Participants, LoopStep(p) PROVE UpIsRegistered'
  BY <1>7, <1>8, <1>10 DEF LoopStep
<1>11. ASSUME NEW p \in Participants, ConnectStep(p) PROVE UpIsRegistered'
  BY <1>4, <1>5, <1>6, <1>11 DEF ConnectStep
<1>12. ASSUME NEW p \in Participants, DisconnectStep(p) PROVE UpIsRegistered'
  BY <1>3, <1>9, <1>12 DEF DisconnectStep
<1> QED
  BY <1>1, <1>2, <1>3, <1>5, <1>6, <1>8, <1>9, <1>10, <1>11, <1>12 DEF Next

\* Connect returns without error only as the registered instance
\* (createLiveInstance, retries and must).
THEOREM ReturnsRegistered == Spec => []UpIsRegistered
<1>1. Init => UpIsRegistered
  BY DEF Init, UpIsRegistered
<1>2. LifecycleInv /\ UpIsRegistered /\ [Next]_vars => UpIsRegistered'
  BY RegisteredStep
<1> QED BY <1>1, <1>2, InvHolds, PTL DEF Spec

-----------------------------------------------------------------------------
(***************************************************************************)
(* No order is lost.                                                       *)
(***************************************************************************)
\* While no two processes with the ParticipantID have met, one of them runs at
\* most; a loop's process runs, and a session's has called Connect.
AloneInv ==
    /\ ~met => \A p, q \in Participants :
          /\ connects[p] > 0 /\ pc[p] # "dead"
          /\ connects[q] > 0 /\ pc[q] # "dead"
          => p = q
    /\ \A p \in Participants :
          /\ sess[p] # NoSession => connects[p] > 0
          /\ \A g \in Generations :
                loops[p][g] # "none" => connects[p] > 0 /\ pc[p] # "dead"

\* Nor does it run two loops that can still do something.
Idle == {"none", "stopped", "lost"}
LoneInv ==
    ~met => \A p \in Participants, g, h \in Generations :
        loops[p][g] \notin Idle /\ loops[p][h] \notin Idle => g = h

\* Orders are addressed to sessions that have been given, records are under
\* them, and cleanUp is not at the one its process has.
GivenInv ==
    /\ live.id <= lastSession
    /\ \A o \in Orders : target[o] <= lastSession
    /\ \A s \in AllSessions : tree[s] # "none" => s <= lastSession
    /\ \A p \in Participants :
          /\ \A s \in toClean[p] : s <= lastSession
          /\ cleaning[p] <= lastSession
          /\ pc[p] \in Cleaning => cleaning[p] # sess[p]

\* States are in a record.
RecordInv ==
    \A s \in AllSessions, o \in Orders : <<s, o>> \in applied => tree[s] = "record"

\* What a loop does with its order: it knows all the states of the record it is
\* about to write, and an order of its session has none before its record is
\* made, and is recorded before it is removed.
MakingRecord == {"ensure", "mkSession", "mkResource", "setGet", "set"}
Removing == {"remove", "msgChildren", "msgDelete"}
Work(p, g) ==
    \A o \in Orders : hand[p][g] = o =>
        /\ loops[p][g] = "applySet" =>
              \A m \in Orders : <<got[p][g].path, m>> \in applied => m \in got[p][g].of
        /\ target[o] = sess[p] =>
              /\ loops[p][g] \in MakingRecord => \A m \in Orders : <<target[o], m>> \notin applied
              /\ loops[p][g] = "applySet" => got[p][g].path = target[o]
              /\ loops[p][g] \in Removing => <<target[o], o>> \in applied
WorkInv == ~met => \A p \in Participants, g \in Generations : Work(p, g)

\* So all orders of a process are somewhere.
Kept(o) == o \in mail \/ <<target[o], o>> \in applied
KeptInv ==
    ~met => \A p \in Participants, o \in Orders :
        pc[p] # "dead" /\ sess[p] # NoSession /\ target[o] = sess[p] => Kept(o)

NoOrderInv == AloneInv /\ LoneInv /\ GivenInv /\ RecordInv /\ WorkInv /\ KeptInv

\* A loop that is idle does nothing with an order.
LEMMA IdleWork ==
  ASSUME NEW p \in Participants, NEW g \in Generations, loops[p][g] \in Idle
  PROVE  Work(p, g)
  BY DEF Work, Idle, MakingRecord, Removing

\* Steps that leave the orders, the loops and the sessions of processes alone.
LEMMA KeptFrame ==
  ASSUME NoOrderInv, GivenInv',
         UNCHANGED <<limit, target, mail, applied, tree, hand, loops, got, sess, met,
                     connects>>,
         \A q \in Participants : pc'[q] = "dead" <=> pc[q] = "dead"
  PROVE  NoOrderInv'
<1>1. AloneInv'
  BY DEF NoOrderInv, AloneInv
<1>2. LoneInv'
  BY DEF NoOrderInv, LoneInv
<1>3. RecordInv'
  BY DEF NoOrderInv, RecordInv
<1>4. WorkInv'
  BY DEF NoOrderInv, WorkInv, Work
<1>5. KeptInv'
  BY DEF NoOrderInv, KeptInv, Kept
<1> QED BY <1>1, <1>2, <1>3, <1>4, <1>5 DEF NoOrderInv

\* Orders and the live instance name sessions.
LEMMA GivenType ==
  ASSUME LifecycleInv, NoOrderInv
  PROVE  /\ lastSession \in Nat
         /\ live.id \in Nat /\ live.id <= lastSession
         /\ \A o \in Orders : target[o] \in Nat /\ target[o] <= lastSession
         /\ \A p \in Participants :
               /\ sess[p] \in Nat /\ sess[p] <= lastSession
               /\ liveId[p] \in Nat /\ liveId[p] <= lastSession
               /\ cleaning[p] \in Nat /\ cleaning[p] <= lastSession
               /\ \A s \in toClean[p] : s \in Nat /\ s <= lastSession
         /\ \A s \in AllSessions : s \in Nat /\ (tree[s] # "none" => s <= lastSession)
<1>1. limit.sessions \in Nat
  BY LimitType DEF TypeOK
<1>2. live.id \in 0 .. limit.sessions /\ lastSession \in 0 .. limit.sessions
  BY DEF TypeOK
<1>3. \A o \in Orders : target[o] \in 0 .. limit.sessions
  BY DEF TypeOK
<1>4. \A p \in Participants :
         /\ sess[p] \in 0 .. limit.sessions /\ liveId[p] \in 0 .. limit.sessions
         /\ cleaning[p] \in 0 .. limit.sessions /\ toClean[p] \subseteq AllSessions
  BY DEF TypeOK
<1>5. \A p \in Participants : sess[p] <= lastSession /\ liveId[p] <= lastSession
  BY DEF SessionInv
<1> QED BY <1>1, <1>2, <1>3, <1>4, <1>5 DEF NoOrderInv, GivenInv

\* A process that ends runs no loop any more.
LEMMA KeptDie ==
  ASSUME LifecycleInv, NoOrderInv, NEW p \in Participants, Die(p),
         UNCHANGED <<limit, target, mail, applied, tree, sess, met, connects, lastSession,
                     live, toClean, cleaning>>
  PROVE  NoOrderInv'
<1>1. /\ \A q \in Participants : pc'[q] = IF q = p THEN "dead" ELSE pc[q]
      /\ \A q \in Participants, h \in Generations :
            /\ loops'[q][h] = IF q = p THEN "none" ELSE loops[q][h]
            /\ q # p => hand'[q][h] = hand[q][h] /\ got'[q][h] = got[q][h]
  BY DEF Die, TypeOK
<1>2. AloneInv'
  BY <1>1 DEF NoOrderInv, AloneInv
<1>3. LoneInv'
  BY <1>1 DEF NoOrderInv, LoneInv, Idle
<1>4. GivenInv'
  BY <1>1, Places DEF NoOrderInv, GivenInv
<1>5. RecordInv'
  BY DEF NoOrderInv, RecordInv
<1>6. WorkInv'
  BY <1>1 DEF NoOrderInv, WorkInv, Work, MakingRecord, Removing
<1>7. KeptInv'
  BY <1>1 DEF NoOrderInv, KeptInv, Kept
<1> QED BY <1>2, <1>3, <1>4, <1>5, <1>6, <1>7 DEF NoOrderInv

\* A new session has no orders yet, and cleanUp is not at it.
LEMMA KeptSession ==
  ASSUME LifecycleInv, NoOrderInv, NEW p \in Participants,
         UNCHANGED <<limit, target, mail, applied, tree, hand, loops, got, toClean, cleaning>>,
         met => met', lastSession' = lastSession + 1, live' \in {live, NoLive},
         \A q \in Participants : sess'[q] = IF q = p THEN lastSession + 1 ELSE sess[q],
         \A q \in Participants :
            (pc'[q] = "dead" <=> pc[q] = "dead") /\ (pc'[q] \in Cleaning => pc[q] \in Cleaning),
         AloneInv'
  PROVE  NoOrderInv'
<1>1. GivenInv'
  <2>1. live'.id \in {live.id, NoSession}
    OBVIOUS
  <2>2. \A s \in AllSessions : tree'[s] # "none" => s <= lastSession'
    BY GivenType
  <2>3. live'.id <= lastSession' /\ \A o \in Orders : target'[o] <= lastSession'
    BY <2>1, GivenType
  <2>4. \A q \in Participants :
           /\ \A s \in toClean'[q] : s <= lastSession'
           /\ cleaning'[q] <= lastSession'
    BY GivenType
  <2>5. \A q \in Participants : pc'[q] \in Cleaning => cleaning'[q] # sess'[q]
    <3>1. \A q \in Participants : cleaning[q] # lastSession + 1
      BY GivenType
    <3> QED BY <3>1 DEF NoOrderInv, GivenInv
  <2> QED BY <2>2, <2>3, <2>4, <2>5 DEF GivenInv
<1>2. \A o \in Orders : target[o] # lastSession + 1
  BY GivenType
<1>3. LoneInv' /\ RecordInv'
  BY DEF NoOrderInv, LoneInv, RecordInv
<1>4. WorkInv'
  BY <1>2 DEF NoOrderInv, WorkInv, Work
<1>5. KeptInv'
  BY <1>2 DEF NoOrderInv, KeptInv, Kept
<1> QED BY <1>1, <1>3, <1>4, <1>5 DEF NoOrderInv

\* Two processes that both have sessions or loops have met.
LEMMA Alone ==
  ASSUME NoOrderInv, ~met, NEW p \in Participants, NEW q \in Participants,
         \/ sess[p] # NoSession /\ pc[p] # "dead"
         \/ \E g \in Generations : loops[p][g] # "none",
         \/ sess[q] # NoSession /\ pc[q] # "dead"
         \/ \E g \in Generations : loops[q][g] # "none"
  PROVE  p = q
<1>1. connects[p] > 0 /\ connects[q] > 0 /\ pc[p] # "dead" /\ pc[q] # "dead"
  BY DEF NoOrderInv, AloneInv
<1> QED BY <1>1 DEF NoOrderInv, AloneInv

\* A loop that takes an order, goes on with it, or ends with it: what it does
\* then is right, and the orders of its process stay where they are.
LEMMA KeptLoop ==
  ASSUME LifecycleInv, NoOrderInv, NEW p \in Participants, NEW g \in Generations,
         UNCHANGED <<limit, target, sess, met, connects>>,
         \A q \in Participants : pc'[q] = "dead" <=> pc[q] = "dead",
         loops[p][g] \notin Idle,
         NEW there, loops' = [loops EXCEPT ![p][g] = there],
         \A q \in Participants, h \in Generations :
            ~(q = p /\ h = g) => hand'[q][h] = hand[q][h] /\ got'[q][h] = got[q][h],
         GivenInv', RecordInv',
         ~met => Work(p, g)',
         ~met => \A m \in Orders :
            sess[p] # NoSession /\ target[m] = sess[p] /\ Kept(m) => Kept(m)'
  PROVE  NoOrderInv'
<1>1. \A q \in Participants, h \in Generations :
         loops'[q][h] = IF q = p /\ h = g THEN there ELSE loops[q][h]
  <2>1. loops \in [Participants -> [Generations ->
                    {"none", "ready", "running", "stopping", "stopped"} \cup Working]]
    BY DEF TypeOK
  <2> QED BY <2>1
<1>2. loops[p][g] # "none"
  BY DEF Idle
<1>3. AloneInv'
  BY <1>1, <1>2 DEF NoOrderInv, AloneInv
<1>4. LoneInv'
  BY <1>1 DEF NoOrderInv, LoneInv
<1>5. ASSUME ~met, NEW q \in Participants, NEW h \in Generations, ~(q = p /\ h = g)
      PROVE  Work(q, h)'
  <2>1. loops[q][h] \in Idle
    <3>1. CASE q = p
      BY <1>5, <3>1 DEF NoOrderInv, LoneInv
    <3>2. CASE q # p
      BY <1>2, <1>5, <3>2, Alone DEF Idle
    <3> QED BY <3>1, <3>2
  <2>2. loops'[q][h] \in Idle
    BY <1>1, <1>5, <2>1
  <2> QED BY <2>2 DEF Work, Idle, MakingRecord, Removing
<1>6. WorkInv'
  BY <1>5 DEF WorkInv
<1>7. ASSUME ~met, NEW q \in Participants, NEW m \in Orders,
             pc'[q] # "dead", sess[q] # NoSession, target[m] = sess[q]
      PROVE  Kept(m)'
  <2>1. q = p
    BY <1>2, <1>7, Alone
  <2>2. Kept(m)
    BY <1>7 DEF NoOrderInv, KeptInv
  <2> QED BY <1>7, <2>1, <2>2
<1>8. KeptInv'
  BY <1>7 DEF KeptInv
<1> QED BY <1>3, <1>4, <1>6, <1>8 DEF NoOrderInv

\* The controller, ZooKeeper and the kill of a process.
LEMMA KeptEnvironment ==
  ASSUME LifecycleInv, NoOrderInv,
         \/ SetupCluster \/ \E o \in Orders : Send(o)
         \/ \E p \in Participants : Expire(p) \/ TimeOut(p) \/ Crash(p)
  PROVE  NoOrderInv'
<1>1. CASE SetupCluster
  <2>1. GivenInv'
    BY <1>1 DEF SetupCluster, NoOrderInv, GivenInv
  <2> QED BY <1>1, <2>1, KeptFrame DEF SetupCluster
<1>2. ASSUME NEW o \in Orders, Send(o) PROVE NoOrderInv'
  <2>1. /\ target[o] = NoSession /\ mail' = mail \cup {o}
        /\ \A m \in Orders : target'[m] = IF m = o THEN live.id ELSE target[m]
        /\ UNCHANGED <<limit, applied, tree, hand, loops, got, sess, met, connects,
                       lastSession, live, toClean, cleaning, pc>>
    BY <1>2 DEF Send, TypeOK
  <2>2. AloneInv' /\ LoneInv' /\ RecordInv'
    BY <2>1 DEF NoOrderInv, AloneInv, LoneInv, RecordInv
  <2>3. GivenInv'
    BY <2>1, GivenType DEF NoOrderInv, GivenInv
  <2>4. \A p \in Participants, g \in Generations : hand[p][g] # o
    BY <2>1, HandType DEF OrderInv
  <2>5. WorkInv'
    BY <2>1, <2>4 DEF NoOrderInv, WorkInv, Work
  <2>6. KeptInv'
    BY <2>1 DEF NoOrderInv, KeptInv, Kept
  <2> QED BY <2>2, <2>3, <2>5, <2>6 DEF NoOrderInv
<1>3. ASSUME NEW p \in Participants, Expire(p) PROVE NoOrderInv'
  <2>1. /\ UNCHANGED <<limit, target, mail, applied, tree, hand, loops, got, met, connects, pc,
                       toClean, cleaning>>
        /\ lastSession' = lastSession + 1 /\ live' \in {live, NoLive}
        /\ \A q \in Participants : sess'[q] = IF q = p THEN lastSession + 1 ELSE sess[q]
        /\ sess[p] # NoSession
    BY <1>3 DEF Expire, OpenSession, TypeOK
  <2>2. AloneInv'
    BY <2>1 DEF NoOrderInv, AloneInv
  <2> QED BY <2>1, <2>2, KeptSession
<1>4. ASSUME NEW p \in Participants, TimeOut(p) PROVE NoOrderInv'
  <2>1. live' \in {live, NoLive}
    BY <1>4 DEF TimeOut, EndSession
  <2>2. live'.id <= lastSession
    BY <2>1, GivenType
  <2>3. GivenInv'
    BY <1>4, <2>2 DEF TimeOut, NoOrderInv, GivenInv
  <2> QED BY <1>4, <2>3, KeptFrame DEF TimeOut
<1>5. ASSUME NEW p \in Participants, Crash(p) PROVE NoOrderInv'
  BY <1>5, KeptDie DEF Crash
<1> QED BY <1>1, <1>2, <1>3, <1>4, <1>5

\* cleanUp: it removes no state of its own session.
LEMMA KeptClean ==
  ASSUME LifecycleInv, NoOrderInv, NEW p \in Participants, NEW s \in AllSessions,
         \/ CleanSession(p, s) \/ CleanLooks(p, s) \/ CleanResource(p, s)
         \/ CleanDelete(p, s) \/ CleanFails(p, s)
  PROVE  NoOrderInv'
<1>1. CASE CleanSession(p, s)
  <2>1. /\ UNCHANGED <<limit, target, mail, applied, tree, hand, loops, got, sess, met, connects,
                       live, lastSession>>
        /\ s \in toClean[p] /\ pc[p] = "clean"
        /\ \A q \in Participants :
              /\ toClean'[q] \subseteq toClean[q]
              /\ cleaning'[q] = IF q = p THEN s ELSE cleaning[q]
              /\ pc'[q] = IF q # p THEN pc[q]
                          ELSE IF s = sess[p] \/ tree[s] = "none" THEN "clean" ELSE "children"
    BY <1>1 DEF CleanSession, TypeOK
  <2>2. GivenInv'
    BY <2>1, Places DEF NoOrderInv, GivenInv
  <2>3. \A q \in Participants : pc'[q] = "dead" <=> pc[q] = "dead"
    BY <2>1
  <2> QED BY <2>1, <2>2, <2>3, KeptFrame
<1>2. CASE CleanLooks(p, s)
  <2>1. /\ UNCHANGED <<limit, target, mail, applied, tree, hand, loops, got, sess, met, connects,
                       live, lastSession, toClean, cleaning>>
        /\ \A q \in Participants :
              pc'[q] = pc[q] \/ (pc[q] \in Cleaning /\ pc'[q] \in Cleaning)
    BY <1>2 DEF CleanLooks, At, Cleaning, TypeOK
  <2>2. GivenInv'
    BY <2>1 DEF NoOrderInv, GivenInv
  <2>3. \A q \in Participants : pc'[q] = "dead" <=> pc[q] = "dead"
    BY <2>1, Places
  <2> QED BY <2>1, <2>2, <2>3, KeptFrame
<1>3. CASE CleanResource(p, s) \/ CleanDelete(p, s)
  <2>1. /\ UNCHANGED <<limit, target, mail, hand, loops, got, sess, met, connects,
                       live, lastSession, toClean, cleaning>>
        /\ cleaning[p] = s /\ pc[p] \in Cleaning
        /\ \A q \in Participants :
              pc'[q] = pc[q] \/ (pc[q] \in Cleaning /\ pc'[q] \in Cleaning \cup {"clean"})
    BY <1>3 DEF CleanResource, CleanDelete, At, Cleaning, TypeOK
  <2>2. /\ s # sess[p] /\ sess[p] # NoSession
        /\ \A q \in Participants : pc'[q] = "dead" <=> pc[q] = "dead"
    BY <2>1, Places DEF NoOrderInv, GivenInv, SessionInv
  <2>3. \A q \in Participants : pc'[q] \in Cleaning => pc[q] \in Cleaning
    BY <2>1
  <2>4. /\ \A r \in AllSessions : r # s => tree'[r] = tree[r]
        /\ tree[s] # "none" /\ applied' \subseteq applied
        /\ \A r \in AllSessions, m \in Orders :
              <<r, m>> \in applied' <=> <<r, m>> \in applied /\ r # s
    <3>1. CASE CleanResource(p, s)
      BY <3>1 DEF CleanResource, HasResource, TypeOK
    <3>2. CASE CleanDelete(p, s)
      <4>1. \A m \in Orders : <<s, m>> \notin applied
        BY <3>2 DEF CleanDelete, NoOrderInv, RecordInv
      <4> QED BY <3>2, <4>1 DEF CleanDelete, TypeOK
    <3> QED BY <1>3, <3>1, <3>2
  <2>5. GivenInv'
    BY <2>1, <2>3, <2>4, GivenType DEF NoOrderInv, GivenInv
  <2>6. AloneInv' /\ LoneInv'
    BY <2>1, <2>2 DEF NoOrderInv, AloneInv, LoneInv
  <2>7. RecordInv'
    BY <2>1, <2>4 DEF NoOrderInv, RecordInv
  <2>8. \A m \in Orders : target[m] \in AllSessions \cup {NoSession}
    <3>1. limit.sessions \in Nat /\ \A m \in Orders : target[m] \in 0 .. limit.sessions
      BY LimitType DEF TypeOK
    <3> QED BY <3>1
  <2>9. ASSUME ~met, NEW q \in Participants, NEW g \in Generations PROVE Work(q, g)'
    <3>1. CASE q # p
      <4>1. loops'[q][g] \in Idle
        BY <2>1, <2>2, <2>9, <3>1, Places, Alone DEF Idle
      <4> QED BY <4>1 DEF Work, Idle, MakingRecord, Removing
    <3>2. CASE q = p
      <4>1. Work(q, g)
        BY <2>9 DEF NoOrderInv, WorkInv
      <4>2. \A o \in Orders : hand[q][g] = o /\ target[o] = sess[q] =>
               target[o] \in AllSessions /\ target[o] # s
        BY <2>2, <2>8, <3>2
      <4> QED BY <2>1, <2>4, <4>1, <4>2 DEF Work
    <3> QED BY <3>1, <3>2
  <2>10. ASSUME ~met, NEW q \in Participants, NEW o \in Orders, pc'[q] # "dead",
                sess[q] # NoSession, target[o] = sess[q]
         PROVE  Kept(o)'
    <3>1. q = p
      BY <2>1, <2>2, <2>10, Places, Alone
    <3>2. Kept(o)
      BY <2>2, <2>10 DEF NoOrderInv, KeptInv
    <3>3. target[o] \in AllSessions /\ target[o] # s
      BY <2>2, <2>8, <2>10, <3>1
    <3> QED BY <2>1, <2>4, <3>2, <3>3 DEF Kept
  <2>11. WorkInv' /\ KeptInv'
    BY <2>1, <2>9, <2>10 DEF WorkInv, KeptInv
  <2> QED BY <2>5, <2>6, <2>7, <2>11 DEF NoOrderInv
<1>4. CASE CleanFails(p, s)
  BY <1>4, KeptDie DEF CleanFails
<1> QED BY <1>1, <1>2, <1>3, <1>4

\* Connect.
LEMMA KeptConnect ==
  ASSUME LifecycleInv, NoOrderInv, NEW p \in Participants, Connect(p) \/ ConnectStep(p)
  PROVE  NoOrderInv'
<1>1. CASE Connect(p)
  <2>1. /\ UNCHANGED <<limit, target, mail, applied, tree, hand, loops, got, live, toClean,
                       cleaning>>
        /\ pc[p] = "off" /\ \A q \in Participants : pc'[q] = IF q = p THEN "setup" ELSE pc[q]
        /\ \A q \in Participants :
              /\ connects[q] \in Nat
              /\ connects'[q] = IF q = p THEN connects[q] + 1 ELSE connects[q]
        /\ met' = (met \/ \E q \in Participants \ {p} : connects[q] > 0 /\ pc[q] # "dead")
    BY <1>1, LimitType DEF Connect, TypeOK
  <2>2. \A q \in Participants \ {p} : sess'[q] = sess[q]
    BY <1>1 DEF Connect, OpenSession, TypeOK
  <2>3. AloneInv'
    <3>1. \A q \in Participants : sess'[q] # NoSession => connects'[q] > 0
      BY <2>1, <2>2 DEF NoOrderInv, AloneInv
    <3>2. \A q \in Participants, g \in Generations :
             loops'[q][g] # "none" => connects'[q] > 0 /\ pc'[q] # "dead"
      BY <2>1 DEF NoOrderInv, AloneInv
    <3>3. ASSUME ~met', NEW q \in Participants, NEW r \in Participants,
                 connects'[q] > 0, pc'[q] # "dead", connects'[r] > 0, pc'[r] # "dead"
          PROVE  q = r
      <4>1. ~met /\ \A s \in Participants \ {p} : ~(connects[s] > 0 /\ pc[s] # "dead")
        BY <2>1, <3>3
      <4>2. q = p /\ r = p
        BY <2>1, <3>3, <4>1
      <4> QED BY <4>2
    <3> QED BY <2>1, <3>1, <3>2, <3>3 DEF AloneInv
  <2>4. \A q \in Participants :
           (pc'[q] = "dead" <=> pc[q] = "dead") /\ (pc'[q] \in Cleaning => pc[q] \in Cleaning)
    BY <2>1, Places
  <2>5. CASE sess[p] # NoSession
    <3>1. UNCHANGED <<sess, lastSession>>
      BY <1>1, <2>5 DEF Connect
    <3>2. GivenInv'
      BY <2>1, <2>4, <3>1 DEF NoOrderInv, GivenInv
    <3>3. ~met' => ~met
      BY <2>1
    <3>4. LoneInv' /\ RecordInv'
      BY <2>1, <3>3 DEF NoOrderInv, LoneInv, RecordInv
    <3>5. WorkInv'
      BY <2>1, <3>1, <3>3 DEF NoOrderInv, WorkInv, Work
    <3>6. KeptInv'
      BY <2>1, <2>4, <3>1, <3>3 DEF NoOrderInv, KeptInv, Kept
    <3> QED BY <2>3, <3>2, <3>4, <3>5, <3>6 DEF NoOrderInv
  <2>6. CASE sess[p] = NoSession
    <3>1. /\ lastSession' = lastSession + 1
          /\ \A q \in Participants : sess'[q] = IF q = p THEN lastSession + 1 ELSE sess[q]
      BY <1>1, <2>6 DEF Connect, OpenSession, TypeOK
    <3> QED BY <2>1, <2>3, <2>4, <3>1, KeptSession
  <2> QED BY <2>5, <2>6
<1>2. CASE \/ IsClusterSetup(p) \/ EnsureParticipantConfig(p) \/ CreateNode(p)
           \/ (LiveInstanceExists(p) /\ tries[p] > 0)
  <2>1. UNCHANGED <<limit, target, mail, applied, tree, hand, loops, got, sess, met, connects,
                    lastSession, live, toClean, cleaning>>
    BY <1>2
    DEF IsClusterSetup, EnsureParticipantConfig, CreateNode, LiveInstanceExists
  <2>2. \A q \in Participants :
           \/ pc'[q] = pc[q]
           \/ pc[q] # "dead" /\ pc'[q] \in {"ensure", "off", "create", "list", "disconnect"}
    BY <1>2
    DEF IsClusterSetup, EnsureParticipantConfig, CreateNode, LiveInstanceExists, TypeOK
  <2>3. \A q \in Participants :
           (pc'[q] = "dead" <=> pc[q] = "dead") /\ (pc'[q] \in Cleaning => pc[q] \in Cleaning)
    BY <2>2 DEF Cleaning
  <2>4. GivenInv'
    BY <2>1, <2>3 DEF NoOrderInv, GivenInv
  <2> QED BY <2>1, <2>3, <2>4, KeptFrame
<1>3. CASE ListSessions(p)
  <2>1. /\ UNCHANGED <<limit, target, mail, applied, tree, hand, loops, got, sess, met, connects,
                       lastSession, live, cleaning>>
        /\ pc[p] = "list" /\ \A q \in Participants : pc'[q] = IF q = p THEN "clean" ELSE pc[q]
        /\ \A q \in Participants :
              toClean'[q] = IF q = p THEN {s \in AllSessions : tree[s] # "none"} ELSE toClean[q]
    BY <1>3 DEF ListSessions, TypeOK
  <2>2. GivenInv'
    BY <2>1, GivenType, Places DEF NoOrderInv, GivenInv
  <2> QED BY <2>1, <2>2, KeptFrame
<1>4. CASE StartLoop(p)
  <2>1. /\ UNCHANGED <<limit, target, mail, applied, tree, hand, got, sess, connects, lastSession,
                       live, toClean, cleaning>>
        /\ \A q \in Participants : pc'[q] = IF q = p THEN "live" ELSE pc[q]
        /\ \A q \in Participants, g \in Generations :
              loops'[q][g] = IF q = p /\ g = connects[p] THEN "ready" ELSE loops[q][g]
        /\ met' = (met \/ \E g \in Generations : loops[p][g] \notin Idle)
        /\ pc[p] = "clean" /\ sess[p] # NoSession
    BY <1>4, Places DEF StartLoop, TypeOK, SessionInv, Idle
  <2>2. /\ ~met' => ~met /\ \A g \in Generations : loops[p][g] \in Idle
        /\ \A q \in Participants : pc'[q] = "dead" <=> pc[q] = "dead"
        /\ connects[p] > 0 /\ pc[p] # "dead"
    BY <2>1 DEF NoOrderInv, AloneInv
  <2>3. AloneInv'
    <3>1. \A q \in Participants, g \in Generations :
             loops'[q][g] # "none" => q = p \/ loops[q][g] # "none"
      BY <2>1
    <3> QED BY <2>1, <2>2, <3>1 DEF NoOrderInv, AloneInv
  <2>4. LoneInv'
    <3>1. ASSUME ~met', NEW q \in Participants, NEW g \in Generations, NEW h \in Generations,
                 loops'[q][g] \notin Idle, loops'[q][h] \notin Idle
          PROVE  g = h
      <4>1. CASE q = p
        BY <2>1, <2>2, <3>1, <4>1
      <4>2. CASE q # p
        BY <2>1, <2>2, <3>1, <4>2 DEF NoOrderInv, LoneInv
      <4> QED BY <4>1, <4>2
    <3> QED BY <2>1, <3>1 DEF LoneInv
  <2>5. GivenInv'
    BY <2>1, Places DEF NoOrderInv, GivenInv
  <2>6. WorkInv'
    <3>1. ASSUME ~met', NEW q \in Participants, NEW g \in Generations PROVE Work(q, g)'
      <4>1. Work(q, g)
        BY <2>2, <3>1 DEF NoOrderInv, WorkInv
      <4>2. loops'[q][g] = loops[q][g] \/ loops'[q][g] = "ready"
        BY <2>1
      <4> QED BY <2>1, <4>1, <4>2 DEF Work, MakingRecord, Removing
    <3> QED BY <2>1, <3>1 DEF WorkInv
  <2>7. RecordInv' /\ KeptInv'
    BY <2>1, <2>2 DEF NoOrderInv, RecordInv, KeptInv, Kept
  <2> QED BY <2>3, <2>4, <2>5, <2>6, <2>7 DEF NoOrderInv
<1>5. CASE CreateLiveInstance(p)
  <2>1. /\ UNCHANGED <<limit, target, mail, applied, tree, hand, loops, got, sess, met, connects,
                       lastSession, toClean, cleaning>>
        /\ live'.id = liveId[p]
        /\ pc[p] = "live" /\ \A q \in Participants : pc'[q] = IF q = p THEN "up" ELSE pc[q]
    BY <1>5 DEF CreateLiveInstance, TypeOK
  <2>2. GivenInv'
    BY <2>1, GivenType, Places DEF NoOrderInv, GivenInv
  <2> QED BY <2>1, <2>2, KeptFrame
<1>6. CASE CreateNodeFails(p) \/ (LiveInstanceExists(p) /\ ~(tries[p] > 0))
  BY <1>6, KeptDie DEF CreateNodeFails, LiveInstanceExists
<1> QED BY <1>1, <1>2, <1>3, <1>4, <1>5, <1>6, KeptClean DEF ConnectStep

\* A loop that begins, ends or goes on without touching an order or a record.
LEMMA KeptMove ==
  ASSUME LifecycleInv, NoOrderInv, NEW p \in Participants, NEW g \in Generations,
         UNCHANGED <<limit, target, mail, applied, tree, sess, met, connects, hand, got, live,
                     lastSession, toClean, cleaning>>,
         \A q \in Participants :
            (pc'[q] = "dead" <=> pc[q] = "dead") /\ (pc'[q] \in Cleaning => pc[q] \in Cleaning),
         loops[p][g] \notin Idle,
         NEW there, loops' = [loops EXCEPT ![p][g] = there],
         ~met => Work(p, g)'
  PROVE  NoOrderInv'
<1>1. GivenInv' /\ RecordInv'
  BY DEF NoOrderInv, GivenInv, RecordInv
<1>2. \A m \in Orders : Kept(m) => Kept(m)'
  BY DEF Kept
<1> QED BY <1>1, <1>2, KeptLoop

\* The event loops.
LEMMA KeptLoops ==
  ASSUME LifecycleInv, NoOrderInv, NEW p \in Participants, NEW g \in Generations,
         \/ LoopStarts(p, g) \/ LoopStops(p, g) \/ LoopLost(p, g)
         \/ \E o \in Orders : LoopTakes(p, g, o) \/ ProcessMessage(p, g, o)
  PROVE  NoOrderInv'
<1> DEFINE NoWork == {"running", "stopped", "lost", "get", "apply"}
<1>0. /\ \A there \in NoWork : there \notin MakingRecord \cup Removing \cup {"applySet"}
      /\ \A there \in Working : there \notin {"none", "stopped"}
      /\ \A there \in Working \ {"lost"} : there \notin Idle
  BY DEF MakingRecord, Removing, Idle, Working, BeforeCall, InRead, InWrite
<1>1. ASSUME LoopStarts(p, g) \/ LoopStops(p, g) \/ LoopLost(p, g) PROVE NoOrderInv'
  <2>1. /\ UNCHANGED <<limit, target, mail, applied, tree, sess, met, connects, hand, got, live,
                       lastSession, toClean, cleaning, pc>>
        /\ loops[p][g] \notin Idle
    BY <1>1 DEF LoopStarts, LoopStops, LoopLost, Idle, BeforeCall
  <2>2. PICK there \in {"running", "stopped", "lost"} : loops' = [loops EXCEPT ![p][g] = there]
    BY <1>1 DEF LoopStarts, LoopStops, LoopLost, LoopGoto
  <2>3. loops'[p][g] = there
    BY <2>2 DEF TypeOK
  <2>4. Work(p, g)'
    BY <2>3 DEF Work, MakingRecord, Removing
  <2> QED BY <2>1, <2>2, <2>4, KeptMove
<1>2. ASSUME NEW o \in Orders, LoopTakes(p, g, o) PROVE NoOrderInv'
  <2>1. /\ UNCHANGED <<limit, target, mail, applied, tree, sess, met, connects, got, live,
                       lastSession, toClean, cleaning, pc>>
        /\ loops[p][g] \notin Idle
        /\ loops' = [loops EXCEPT ![p][g] = "get"] /\ hand' = [hand EXCEPT ![p][g] = o]
    BY <1>2 DEF LoopTakes, LoopGoto, Idle
  <2>2. loops'[p][g] = "get"
    BY <2>1 DEF TypeOK
  <2>3. Work(p, g)'
    BY <2>2 DEF Work, MakingRecord, Removing
  <2>4. GivenInv' /\ RecordInv'
    BY <2>1 DEF NoOrderInv, GivenInv, RecordInv
  <2>5. \A m \in Orders : Kept(m) => Kept(m)'
    BY <2>1 DEF Kept
  <2>6. \A q \in Participants, h \in Generations :
           ~(q = p /\ h = g) => hand'[q][h] = hand[q][h] /\ got'[q][h] = got[q][h]
    BY <2>1 DEF TypeOK
  <2> QED BY <2>1, <2>3, <2>4, <2>5, <2>6, KeptLoop
<1>3. ASSUME NEW o \in Orders, LoopFails(p, g, o) PROVE NoOrderInv'
  BY <1>3, KeptDie DEF LoopFails
<1>4. ASSUME NEW o \in Orders, ProcessMessage(p, g, o), ~LoopFails(p, g, o)
      PROVE  NoOrderInv'
  <2>1. /\ UNCHANGED <<limit, target, sess, met, connects, live, lastSession, toClean, cleaning,
                       pc>>
        /\ hand[p][g] = o /\ loops[p][g] \notin Idle
        /\ hand' = hand \/ hand' = [hand EXCEPT ![p][g] = NoOrder]
    BY <1>0, <1>4, WorkStep DEF ProcessMessage
  <2>2. PICK there \in ({"running"} \cup Working) \ {"lost"} :
           loops' = [loops EXCEPT ![p][g] = there]
    BY <1>4, WorkStep DEF ProcessMessage
  <2>3. /\ target[o] \in AllSessions /\ target[o] <= lastSession
        /\ o # NoOrder /\ NoOrder \notin Orders
    <3>1. target[o] # NoSession /\ o # NoOrder /\ NoOrder \notin Orders
      BY <2>1, HandType DEF OrderInv
    <3>2. limit.sessions \in Nat /\ target[o] \in 0 .. limit.sessions
      BY LimitType DEF TypeOK
    <3> QED BY <3>1, <3>2, GivenType
  <2>4. /\ loops'[p][g] = there
        /\ \A q \in Participants, h \in Generations :
              ~(q = p /\ h = g) => hand'[q][h] = hand[q][h]
    <3>1. /\ loops \in [Participants -> [Generations ->
                    {"none", "ready", "running", "stopping", "stopped"} \cup Working]]
          /\ hand \in [Participants -> [Generations -> Orders \cup {NoOrder}]]
      BY DEF TypeOK
    <3>2. loops'[p][g] = there
      BY <2>2, <3>1
    <3>3. \A q \in Participants, h \in Generations :
             ~(q = p /\ h = g) => hand'[q][h] = hand[q][h]
      <4>1. CASE hand' = hand
        BY <4>1
      <4>2. CASE hand' = [hand EXCEPT ![p][g] = NoOrder]
        BY <3>1, <4>2
      <4> QED BY <2>1, <4>1, <4>2
    <3> QED BY <3>2, <3>3
  <2>5. ~met => Work(p, g)
    BY DEF NoOrderInv, WorkInv
  <2>6. CASE \/ LoopGets(p, g, o) \/ LoopExists(p, g, o) \/ LoopEnsures(p, g, o)
             \/ LoopSetGets(p, g, o)
    <3>1. /\ UNCHANGED <<mail, applied, tree, hand, got>>
          /\ there \notin {"applySet"}
          /\ there \in Removing => target[o] # sess[p]
          /\ there \in MakingRecord => loops[p][g] \in MakingRecord \/ tree[target[o]] # "record"
      <4>1. CASE LoopGets(p, g, o)
        BY <2>4, <4>1 DEF LoopGets, LoopGoto, IsOwn, MakingRecord, Removing, TypeOK
      <4>2. CASE LoopExists(p, g, o)
        BY <2>4, <4>2
        DEF LoopExists, LoopGoto, AfterRecord, IsOwn, HasResource, MakingRecord, Removing, TypeOK
      <4>3. CASE LoopEnsures(p, g, o)
        BY <2>4, <4>3 DEF LoopEnsures, LoopGoto, Calls, Holds, MakingRecord, Removing, TypeOK
      <4>4. CASE LoopSetGets(p, g, o)
        BY <2>4, <4>4 DEF LoopSetGets, LoopGoto, Holds, MakingRecord, Removing, TypeOK
      <4> QED BY <2>6, <4>1, <4>2, <4>3, <4>4
    <3>2. tree[target[o]] # "record" => \A m \in Orders : <<target[o], m>> \notin applied
      BY <2>3 DEF NoOrderInv, RecordInv
    <3>3. ~met => Work(p, g)'
      BY <2>1, <2>4, <2>5, <3>1, <3>2 DEF Work
    <3> QED BY <2>1, <2>2, <3>1, <3>3, KeptMove
  <2>7. CASE LoopCreates(p, g, o)
    <3>1. /\ UNCHANGED <<mail, applied, hand, got>> /\ tree[target[o]] # "record"
          /\ there \in MakingRecord /\ loops[p][g] \in MakingRecord
          /\ \A s \in AllSessions : s # target[o] => tree'[s] = tree[s]
      <4>1. /\ UNCHANGED <<mail, applied, hand, got>>
            /\ loops[p][g] \in {"mkSession", "mkResource"}
            /\ tree[target[o]] \in {"none", "session"}
            /\ \E at \in {"mkResource", "setGet"} : loops' = [loops EXCEPT ![p][g] = at]
            /\ \E made1 \in {"session", "empty"} : tree' = [tree EXCEPT ![target[o]] = made1]
        BY <2>7 DEF LoopCreates, LoopGoto, Holds
      <4>2. /\ loops \in [Participants -> [Generations ->
                    {"none", "ready", "running", "stopping", "stopped"} \cup Working]]
            /\ tree \in [AllSessions -> {"none", "session", "empty", "record"}]
        BY DEF TypeOK
      <4>3. loops'[p][g] \in {"mkResource", "setGet"}
        <5>1. PICK at \in {"mkResource", "setGet"} : loops' = [loops EXCEPT ![p][g] = at]
          BY <4>1
        <5>2. loops'[p][g] = at
          BY <4>2, <5>1
        <5> QED BY <5>2
      <4> QED BY <2>4, <4>1, <4>2, <4>3 DEF MakingRecord
    <3>2. GivenInv'
      BY <2>1, <2>3, <3>1 DEF NoOrderInv, GivenInv
    <3>3. RecordInv'
      BY <2>1, <2>3, <3>1 DEF NoOrderInv, RecordInv
    <3>4. ~met => Work(p, g)'
      BY <2>1, <2>4, <2>5, <3>1 DEF Work, MakingRecord, Removing
    <3>5. \A m \in Orders : Kept(m) => Kept(m)'
      BY <2>1, <3>1 DEF Kept
    <3> QED BY <2>1, <2>2, <2>4, <3>1, <3>2, <3>3, <3>4, <3>5, KeptLoop
  <2>8. CASE LoopSets(p, g, o)
    <3>1. /\ UNCHANGED <<mail, hand, got>>
          /\ there = AfterRecord(p, o) /\ loops[p][g] = "set"
          /\ tree' = [tree EXCEPT ![target[o]] = "record"]
          /\ applied' = {a \in applied : a[1] # target[o]}
      BY <2>4, <2>8 DEF LoopSets, LoopGoto, Holds, TypeOK
    <3>2. \A s \in AllSessions : tree'[s] = IF s = target[o] THEN "record" ELSE tree[s]
      BY <3>1 DEF TypeOK
    <3>3. \A s \in Nat, m \in Orders :
             <<s, m>> \in applied' <=> <<s, m>> \in applied /\ s # target[o]
      BY <3>1
    <3>4. GivenInv'
      BY <2>1, <2>3, <3>2 DEF NoOrderInv, GivenInv
    <3>5. RecordInv'
      BY <2>1, <2>3, <3>2, <3>3, GivenType DEF NoOrderInv, RecordInv
    <3>6. ~met => Work(p, g)'
      BY <2>1, <2>4, <3>1 DEF Work, AfterRecord, IsOwn, MakingRecord, Removing
    <3>7. ASSUME ~met, NEW m \in Orders, target[m] = sess[p], Kept(m) PROVE Kept(m)'
      <4>1. target[m] = target[o] => <<target[m], m>> \notin applied
        BY <2>1, <2>5, <3>1, <3>7 DEF Work, MakingRecord
      <4> QED BY <2>1, <3>1, <3>3, <3>7, <4>1, GivenType DEF Kept
    <3> QED BY <2>1, <2>2, <2>4, <3>1, <3>4, <3>5, <3>6, <3>7, KeptLoop
  <2>9. ASSUME NEW s \in AllSessions, LoopReads(p, g, o, s) PROVE NoOrderInv'
    <3>1. /\ UNCHANGED <<mail, applied, tree, hand>> /\ there = "applySet"
          /\ s \in {target[o], sess[p]}
          /\ got' = [got EXCEPT ![p][g] = [path |-> s,
                        of |-> {a[2] : a \in {b \in applied : b[1] = s}}]]
      BY <2>4, <2>9 DEF LoopReads, LoopGoto, TypeOK
    <3>2. /\ got'[p][g].path = s
          /\ got'[p][g].of = {a[2] : a \in {b \in applied : b[1] = s}}
          /\ \A q \in Participants, h \in Generations :
                ~(q = p /\ h = g) => got'[q][h] = got[q][h]
      <4>1. got \in [Participants -> [Generations ->
                       [path : 0 .. limit.sessions, of : SUBSET Orders]]]
        BY DEF TypeOK
      <4> QED BY <3>1, <4>1
    <3>3. \A m \in Orders : <<s, m>> \in applied => m \in got'[p][g].of
      BY <3>2
    <3>4. Work(p, g)'
      BY <2>1, <2>4, <3>1, <3>2, <3>3 DEF Work, MakingRecord, Removing
    <3>5. GivenInv' /\ RecordInv'
      BY <2>1, <3>1 DEF NoOrderInv, GivenInv, RecordInv
    <3>6. \A m \in Orders : Kept(m) => Kept(m)'
      BY <2>1, <3>1 DEF Kept
    <3>7. \A q \in Participants, h \in Generations :
             ~(q = p /\ h = g) => hand'[q][h] = hand[q][h] /\ got'[q][h] = got[q][h]
      BY <2>4, <3>2
    <3> HIDE DEF LifecycleInv
    <3> QED BY <2>1, <2>2, <3>4, <3>5, <3>6, <3>7, KeptLoop
  <2>10. ASSUME NEW s \in AllSessions, LoopApplies(p, g, o, s) PROVE NoOrderInv'
    <3>1. /\ UNCHANGED <<mail, hand>> /\ there = "remove"
          /\ loops[p][g] = "applySet" /\ got[p][g].path = s /\ HasResource(s)
          /\ tree' = [tree EXCEPT ![s] = "record"]
          /\ applied' = {a \in applied : a[1] # s} \cup ({s} \X (got[p][g].of \cup {o}))
          /\ got' = [got EXCEPT ![p][g] = NothingRead]
      BY <2>4, <2>10 DEF LoopApplies, LoopGoto, Holds, TypeOK
    <3>2. /\ \A r \in AllSessions : tree'[r] = IF r = s THEN "record" ELSE tree[r]
          /\ \A q \in Participants, h \in Generations :
                ~(q = p /\ h = g) => got'[q][h] = got[q][h]
      BY <3>1 DEF TypeOK
    <3>3. \A r \in Nat, m \in Orders :
             <<r, m>> \in applied' <=> IF r = s THEN m \in got[p][g].of \cup {o}
                                                ELSE <<r, m>> \in applied
      BY <3>1
    <3>4. GivenInv'
      BY <2>1, <3>1, <3>2, GivenType DEF NoOrderInv, GivenInv, HasResource
    <3>5. RecordInv'
      BY <2>1, <3>2, <3>3, GivenType DEF NoOrderInv, RecordInv
    <3>6. ~met => \A m \in Orders : <<s, m>> \in applied => m \in got[p][g].of
      BY <2>1, <2>5, <3>1 DEF Work
    <3>7. ~met => Work(p, g)'
      <4>1. ~met /\ target[o] = sess[p] => <<target[o], o>> \in applied'
        BY <2>1, <2>5, <3>1, <3>3, GivenType DEF Work
      <4> QED BY <2>1, <2>4, <3>1, <4>1 DEF Work, MakingRecord, Removing
    <3>8. ~met => \A m \in Orders : Kept(m) => Kept(m)'
      BY <2>1, <3>1, <3>3, <3>6, GivenType DEF Kept
    <3>9. \A q \in Participants, h \in Generations :
             ~(q = p /\ h = g) => hand'[q][h] = hand[q][h] /\ got'[q][h] = got[q][h]
      BY <2>4, <3>2
    <3> HIDE DEF LifecycleInv
    <3> QED BY <2>1, <2>2, <3>4, <3>5, <3>7, <3>8, <3>9, KeptLoop
  <2>11. CASE LoopRemoves(p, g, o)
    <3>1. /\ UNCHANGED <<mail, applied, tree, got>>
          /\ \/ hand' = hand /\ there \in Removing /\ loops[p][g] \in Removing
             \/ hand'[p][g] = NoOrder
      <4>1. /\ UNCHANGED <<mail, applied, tree, got>> /\ loops[p][g] \in {"remove", "msgChildren"}
            /\ \/ /\ hand' = hand
                  /\ \E at \in {"msgChildren", "msgDelete"} : loops' = [loops EXCEPT ![p][g] = at]
               \/ hand' = [hand EXCEPT ![p][g] = NoOrder]
        BY <2>11 DEF LoopRemoves, LoopDone, LoopGoto, Calls, Holds
      <4>2. /\ loops \in [Participants -> [Generations ->
                    {"none", "ready", "running", "stopping", "stopped"} \cup Working]]
            /\ hand \in [Participants -> [Generations -> Orders \cup {NoOrder}]]
        BY DEF TypeOK
      <4>3. CASE hand' = [hand EXCEPT ![p][g] = NoOrder]
        BY <4>1, <4>2, <4>3
      <4>4. CASE hand' # [hand EXCEPT ![p][g] = NoOrder]
        <5>1. hand' = hand /\ loops'[p][g] \in {"msgChildren", "msgDelete"}
          BY <4>1, <4>2, <4>4
        <5> QED BY <2>4, <4>1, <5>1 DEF Removing
      <4> QED BY <4>3, <4>4
    <3>2. ~met => Work(p, g)'
      BY <2>1, <2>3, <2>4, <2>5, <3>1 DEF Work, MakingRecord, Removing
    <3>3. GivenInv' /\ RecordInv'
      BY <2>1, <3>1 DEF NoOrderInv, GivenInv, RecordInv
    <3>4. \A m \in Orders : Kept(m) => Kept(m)'
      BY <2>1, <3>1 DEF Kept
    <3>5. \A q \in Participants, h \in Generations :
             ~(q = p /\ h = g) => hand'[q][h] = hand[q][h] /\ got'[q][h] = got[q][h]
      BY <2>4, <3>1
    <3> HIDE DEF LifecycleInv
    <3> QED BY <2>1, <2>2, <3>2, <3>3, <3>4, <3>5, KeptLoop
  <2>12. CASE LoopDeletes(p, g, o)
    <3>1. /\ UNCHANGED <<applied, tree, got>> /\ mail' = mail \ {o}
          /\ hand'[p][g] = NoOrder /\ loops[p][g] = "msgDelete"
      BY <2>12 DEF LoopDeletes, LoopDone, LoopGoto, Holds, TypeOK
    <3>2. Work(p, g)'
      BY <2>1, <2>3, <3>1 DEF Work
    <3>3. GivenInv' /\ RecordInv'
      BY <2>1, <3>1 DEF NoOrderInv, GivenInv, RecordInv
    <3>4. ~met => \A m \in Orders : target[m] = sess[p] /\ Kept(m) => Kept(m)'
      BY <2>1, <2>5, <3>1 DEF Work, Removing, Kept
    <3>5. \A q \in Participants, h \in Generations :
             ~(q = p /\ h = g) => hand'[q][h] = hand[q][h] /\ got'[q][h] = got[q][h]
      BY <2>4, <3>1
    <3> HIDE DEF LifecycleInv
    <3> QED BY <2>1, <2>2, <3>2, <3>3, <3>4, <3>5, KeptLoop
  <2> QED
    BY <1>4, <2>6, <2>7, <2>8, <2>9, <2>10, <2>11, <2>12 DEF ProcessMessage
<1> QED BY <1>1, <1>2, <1>3, <1>4

\* Disconnect.
LEMMA KeptDisconnect ==
  ASSUME LifecycleInv, NoOrderInv, NEW p \in Participants, Disconnect(p) \/ DisconnectStep(p)
  PROVE  NoOrderInv'
<1>0. \A there \in {"off"} \cup Disconnecting : there # "dead" /\ there \notin Cleaning
  BY DEF Disconnecting, Cleaning
<1>1. CASE Disconnect(p) \/ ReadState(p) \/ CloseStop(p) \/ AwaitStopped(p)
  <2>1. UNCHANGED <<limit, target, mail, applied, tree, hand, loops, got, sess, met, connects,
                    lastSession, live, toClean, cleaning>>
    BY <1>1 DEF Disconnect, ReadState, CloseStop, AwaitStopped
  <2>2. \E there \in {"off"} \cup Disconnecting :
           pc[p] # "dead" /\ pc' = [pc EXCEPT ![p] = there]
    BY <1>1 DEF Disconnect, ReadState, CloseStop, AwaitStopped, Disconnecting
  <2>3. \A q \in Participants :
           (pc'[q] = "dead" <=> pc[q] = "dead") /\ (pc'[q] \in Cleaning => pc[q] \in Cleaning)
    BY <1>0, <2>2 DEF TypeOK
  <2>4. GivenInv'
    BY <2>1, <2>3 DEF NoOrderInv, GivenInv
  <2> QED BY <2>1, <2>3, <2>4, KeptFrame
<1>2. ASSUME NEW g \in Generations, SendStop(p, g) PROVE NoOrderInv'
  <2>1. \A q \in Participants :
           (pc'[q] = "dead" <=> pc[q] = "dead") /\ (pc'[q] \in Cleaning => pc[q] \in Cleaning)
    BY <1>0, <1>2 DEF SendStop, TypeOK, Disconnecting
  <2>2. loops' = [loops EXCEPT ![p][g] = "stopping"] /\ loops[p][g] \notin Idle
    BY <1>2 DEF SendStop, LoopGoto, Idle
  <2>3. loops'[p][g] = "stopping"
    BY <2>2 DEF TypeOK
  <2>4. Work(p, g)'
    BY <2>3 DEF Work, MakingRecord, Removing
  <2> QED BY <1>2, <2>1, <2>2, <2>4, KeptMove DEF SendStop
<1>3. CASE SendOnClosed(p)
  BY <1>3, KeptDie DEF SendOnClosed
<1>4. CASE CloseConnection(p)
  <2>1. /\ UNCHANGED <<limit, target, mail, applied, tree, met, connects, lastSession, toClean,
                       cleaning>>
        /\ live' \in {live, NoLive}
        /\ \A q \in Participants :
              /\ sess'[q] = IF q = p THEN NoSession ELSE sess[q]
              /\ pc'[q] = IF q = p THEN "off" ELSE pc[q]
              /\ \A h \in Generations :
                    /\ q = p => hand'[q][h] \in {hand[q][h], NoOrder}
                    /\ q # p => hand'[q][h] = hand[q][h] /\ got'[q][h] = got[q][h]
                    /\ loops'[q][h] = IF q = p THEN AfterClose(loops[p][h]) ELSE loops[q][h]
        /\ pc[p] = "close"
    BY <1>4 DEF CloseConnection, EndSession, TypeOK
  <2>2. \A at \in {"none", "ready", "running", "stopping", "stopped"} \cup Working :
           /\ at = "none" => AfterClose(at) = "none"
           /\ at \in Idle => AfterClose(at) \in Idle
           /\ AfterClose(at) # "applySet"
    BY DEF AfterClose, Idle, InRead, InWrite
  <2>3. \A h \in Generations :
           loops[p][h] \in {"none", "ready", "running", "stopping", "stopped"} \cup Working
    <3>1. loops[p] \in [Generations ->
                    {"none", "ready", "running", "stopping", "stopped"} \cup Working]
      BY DEF TypeOK
    <3> QED BY <3>1
  <2>4. \A q \in Participants, h \in Generations :
           /\ loops'[q][h] # "none" => loops[q][h] # "none"
           /\ loops'[q][h] \notin Idle => loops[q][h] \notin Idle
    <3>1. ASSUME NEW q \in Participants, NEW h \in Generations
          PROVE  /\ loops'[q][h] # "none" => loops[q][h] # "none"
                 /\ loops'[q][h] \notin Idle => loops[q][h] \notin Idle
      <4>1. CASE q = p
        BY <2>1, <2>2, <2>3, <4>1
      <4>2. CASE q # p
        BY <2>1, <4>2
      <4> QED BY <4>1, <4>2
    <3> QED BY <3>1
  <2>5. AloneInv' /\ LoneInv' /\ RecordInv'
    BY <2>1, <2>4 DEF NoOrderInv, AloneInv, LoneInv, RecordInv
  <2>6. live'.id <= lastSession
    BY <2>1, GivenType
  <2>7. GivenInv'
    BY <1>0, <2>1, <2>6 DEF NoOrderInv, GivenInv
  <2>8. \A m \in Orders : \A h \in Generations :
           hand'[p][h] = m => loops'[p][h] # "applySet" /\ target[m] # NoSession
    BY <2>1, <2>2, <2>3, HandType DEF OrderInv
  <2>9. WorkInv'
    BY <2>1, <2>8 DEF NoOrderInv, WorkInv, Work
  <2>10. KeptInv'
    BY <2>1 DEF NoOrderInv, KeptInv, Kept
  <2> QED BY <2>5, <2>7, <2>9, <2>10 DEF NoOrderInv
<1> QED BY <1>1, <1>2, <1>3, <1>4 DEF DisconnectStep

\* Any step.
LEMMA KeptStep == ASSUME LifecycleInv, NoOrderInv, [Next]_vars PROVE NoOrderInv'
<1>1. CASE UNCHANGED vars
  <2>1. GivenInv'
    BY <1>1 DEF vars, NoOrderInv, GivenInv
  <2> QED BY <1>1, <2>1, KeptFrame DEF vars
<1>2. ASSUME NEW p \in Participants, LoopStep(p) PROVE NoOrderInv'
  BY <1>2, KeptLoops DEF LoopStep
<1> QED
  BY <1>1, <1>2, KeptEnvironment, KeptConnect, KeptLoops, KeptDisconnect DEF Next

\* What was sent to the session of a running process is under MESSAGES or
\* recorded, over restarts, expiries, reconnections and loops left behind, as
\* long as no two processes with the ParticipantID and no two loops of one have
\* run beside each other (cleanUp, processMessage, SetRecordForPath,
\* UpdateMapField, DeleteTree).
THEOREM OrdersAreKept == Spec => []NoOrderLost
<1>1. ASSUME Init PROVE NoOrderInv
  <2>1. limit.earlier \in Nat
    BY <1>1, LimitType DEF Init
  <2>2. /\ sess = [p \in Participants |-> NoSession] /\ pc = [p \in Participants |-> "off"]
        /\ toClean = [p \in Participants |-> {}]
        /\ cleaning = [p \in Participants |-> NoSession]
        /\ loops = [p \in Participants |-> [g \in Generations |-> "none"]]
        /\ connects = [p \in Participants |-> 0]
    BY <1>1 DEF Init
  <2>3. AloneInv /\ LoneInv
    BY <1>1, <2>2 DEF Init, AloneInv, LoneInv, Idle
  <2>4. GivenInv
    BY <1>1, <2>1, <2>2 DEF Init, GivenInv, Cleaning
  <2>5. RecordInv /\ KeptInv
    BY <1>1, <2>2 DEF Init, RecordInv, KeptInv
  <2>6. WorkInv
    BY <2>2 DEF WorkInv, Work, MakingRecord, Removing
  <2> QED BY <2>3, <2>4, <2>5, <2>6 DEF NoOrderInv
<1>2. LifecycleInv /\ NoOrderInv /\ [Next]_vars => NoOrderInv'
  BY KeptStep
<1>3. LifecycleInv /\ NoOrderInv => NoOrderLost
  BY DEF NoOrderInv, KeptInv, Kept, NoOrderLost, RunningOwner, SessionInv
<1> QED BY <1>1, <1>2, <1>3, InvHolds, PTL DEF Spec
=============================================================================
