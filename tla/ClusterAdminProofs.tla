------------------------- MODULE ClusterAdminProofs -------------------------
(***************************************************************************)
(* Proofs about the administration of a cluster, for any clients, mixes of *)
(* calls and crashes: of the calls that create the same nodes one gets     *)
(* through, what IsClusterSetup says holds, and what is left when all      *)
(* calls are over is whole.                                                *)
(***************************************************************************)
EXTENDS ClusterAdminSteps

\* A call that has created the first of its nodes and is at the others.
Adding(c) == pc[c] \in {"ensure", "create"} /\ step[c] > 1
ClusterCreator(c) == op[c] = "addCluster" /\ Adding(c)
NodeCreator(c) == op[c] \in {"addNode", "join"} /\ Adding(c)

\* A call IsClusterSetup has let go on.
Asked(c) ==
    /\ pc[c] \in {"exists", "allowed", "ensure", "create", "read"}
    /\ op[c] \notin {"addCluster", "getInstances"}

\* No DropCluster is at the nodes, and none has left them torn; no call that
\* drops anything is, and none has.
Calm ==
    \/ "dropCluster" \notin dropped
    \/ ~raced /\ crashes = 0 /\ \A c \in Busy : op[c] # "dropCluster"
CalmNode ==
    \/ dropped = {}
    \/ ~raced /\ crashes = 0 /\ \A c \in Busy : op[c] \notin Drops

\* Only the first node of a participant has ensurePath called for it.
FirstInv == \A c \in Clients : pc[c] = "ensure" /\ op[c] \in {"addNode", "join"} => step[c] = 1

\* The nodes of the cluster are a prefix of those AddCluster makes, which is
\* as long as the only AddCluster that is at it has come.
Prefix == \A i \in 1 .. 18 : \A j \in 1 .. i : ClusterOrder[i] \in nodes => ClusterOrder[j] \in nodes
ClusterClient(c) ==
    /\ c \in Busy => chain[c] = <<>>
    /\ Asked(c) => ClusterNodes \subseteq nodes
    /\ ClusterCreator(c) => \A i \in 1 .. 18 : ClusterOrder[i] \in nodes <=> i < step[c]
OneClusterCreator == \A c, d \in Clients : ClusterCreator(c) /\ ClusterCreator(d) => c = d
ClusterWhole ==
    crashes = 0 /\ "cluster" \in nodes =>
        ClusterNodes \subseteq nodes \/ \E c \in Clients : ClusterCreator(c)
ClusterInv ==
    Calm => Prefix /\ (\A c \in Clients : ClusterClient(c)) /\ OneClusterCreator /\ ClusterWhole

\* AddCluster's list and the nodes of a cluster are the same.
LEMMA ClusterAt == \A i \in 1 .. 18 : ClusterOrder[i] \in ClusterNodes
BY Lengths DEF ClusterNodes, Elements

\* ... and all of them.
LEMMA ClusterAll ==
  ASSUME NEW N, \A i \in 1 .. 18 : ClusterOrder[i] \in N
  PROVE  ClusterNodes \subseteq N
BY Lengths DEF ClusterNodes, Elements

\* A participant's nodes are its own: no node of the cluster is among them.
LEMMA FamilyApart == FamilyNodes \cap ClusterNodes = {} /\ "instance" \in FamilyNodes
BY FamilyNodesAre, ClusterNodesAre

\* What the creating operations are at: nodes of their own.
LEMMA FamilyTargets ==
  ASSUME BaseInv, NEW c \in Clients, op[c] \in {"addNode", "join"}, pc[c] \in {"ensure", "create"}
  PROVE  Target(c) \in FamilyNodes
<1>1. op[c] \in DOMAIN Order /\ step[c] <= Len(Order[op[c]]) /\ step[c] \in 1 .. 18
  BY Lengths DEF BaseInv, Shape, Creates, ClientTypes
<1>2. CASE op[c] = "addNode"
  <2>1. Order[op[c]] = AddNodeOrder /\ step[c] \in 1 .. 6
    BY <1>1, <1>2, OrderTable, Lengths
  <2>2. \A i \in 1 .. 6 : AddNodeOrder[i] \in FamilyNodes
    BY FamilyNodesAre DEF AddNodeOrder
  <2> QED BY <2>1, <2>2 DEF Target
<1>3. CASE op[c] = "join"
  <2>1. Order[op[c]] = JoinOrder /\ step[c] \in 1 .. 7
    BY <1>1, <1>3, OrderTable, Lengths
  <2>2. \A i \in 1 .. 7 : JoinOrder[i] \in FamilyNodes
    BY FamilyNodesAre DEF JoinOrder
  <2> QED BY <2>1, <2>2 DEF Target
<1> QED BY <1>2, <1>3

\* AddCluster is at nodes of the cluster.
LEMMA ClusterTargets ==
  ASSUME BaseInv, NEW c \in Clients, op[c] = "addCluster", pc[c] \in {"ensure", "create"}
  PROVE  /\ step[c] \in 1 .. 18 /\ Target(c) = ClusterOrder[step[c]] /\ Len(Order[op[c]]) = 18
<1>1. step[c] \in 1 .. 18
  BY Lengths DEF BaseInv, ClientTypes
<1>2. Order[op[c]] = ClusterOrder
  BY OrderTable
<1> QED BY <1>1, <1>2, Lengths DEF Target

\* The first node of a participant's lists is its config.
LEMMA FirstTargets ==
  ASSUME BaseInv, NEW c \in Clients, op[c] \in {"addNode", "join"}, pc[c] \in {"ensure", "create"},
            step[c] = 1
  PROVE  Target(c) = "config"
BY OrderTable DEF Target, AddNodeOrder, JoinOrder

\* What every step of a call keeps and leaves alone.
LEMMA BusyIs ==
  ASSUME BaseInv, NEW c \in Clients
  PROVE  c \in Busy <=> pc[c] \notin {"idle", "dead"}
BY DEF Busy

\* What each step of a call leaves as it is.
LEMMA StepOf ==
  ASSUME BaseInv, NEW c \in Clients, CallStep(c)
  PROVE  /\ ClientTypes /\ Shape(c) /\ nodes \subseteq AllNodes /\ c \in Busy /\ Frame(c) /\ BaseInv'
               /\ op'[c] = op[c]
         /\ UNCHANGED <<mix, calls, dropped, raced, crashes>> /\ step[c] \in 1 .. 18
         /\ \A d \in Clients \ {c} : d \in Busy' <=> d \in Busy
<1>1. ClientTypes /\ Shape(c) /\ nodes \subseteq AllNodes /\ step[c] \in 1 .. 18
  BY Lengths DEF BaseInv, ClientTypes
<1>2. Frame(c) /\ pc[c] \notin {"idle", "dead"}
  BY <1>1, FitsStep
<1>3. c \in Busy /\ \A d \in Clients \ {c} : d \in Busy' <=> d \in Busy
  BY <1>2 DEF Busy, Frame, Others
<1>4. op'[c] = op[c]
  BY <1>1, GoesCheck, GoesExists, GoesAutoJoinAllowed, GoesEnsurePath, GoesFillPath, GoesCreate,
     GoesCreateFails,
     GoesRead, GoesDropConfigExists, GoesDropInstanceExists, GoesDeleteInstance, GoesTreeExists,
        GoesTreeChildren,
     GoesTreeNext, GoesTreeDelete DEF CallStep, StepsTo, GoesTo, Returns, Goes
<1> QED BY <1>1, <1>2, <1>3, <1>4, CountStep, BaseCallStep

\* A call that is let go on was before, or has just seen the last node there is.
LEMMA AskedStep ==
  ASSUME BaseInv, NEW c \in Clients, CallStep(c), Asked(c)', chain[c] = <<>>
  PROVE  Asked(c) \/ (UNCHANGED nodes /\ ClusterOrder[18] \in nodes)
<1>1. ClientTypes /\ Shape(c) /\ op'[c] = op[c]
  BY StepOf
<1>2. CASE Check(c)
  <2>1. UNCHANGED nodes /\ pc'[c] # "idle" /\ pc'[c] # "check"
    BY <1>1, <1>2, GoesCheck DEF Asked
  <2>2. CheckOrder[step[c]] \in nodes /\ ~(step[c] < 13) /\ step[c] <= 13 /\ step[c] \in 1 .. 18
    BY <1>1, <1>2, <2>1, GoesCheck, Lengths DEF StepsTo, Returns, Goes, ClientTypes, Shape
  <2>3. step[c] = 13
    BY <2>2
  <2> QED BY <2>1, <2>2, <2>3, ClusterEnds DEF CheckOrder
<1>3. CASE ~Check(c)
  <2>1. pc[c] \in {"exists", "allowed", "ensure", "create", "read"}
           \/ pc'[c] \notin {"exists", "allowed", "ensure", "create", "read"}
    BY <1>1, <1>3, GoesDropConfigExists, GoesDropInstanceExists, GoesDeleteInstance, GoesTreeExists,
       GoesTreeChildren, GoesTreeNext, GoesTreeDelete, GoesExists, GoesAutoJoinAllowed, GoesEnsurePath,
       GoesFillPath, GoesCreate, GoesCreateFails, GoesRead DEF CallStep, GoesTo, Returns, Goes, Shape
  <2> QED BY <1>1, <2>1 DEF Asked
<1> QED BY <1>2, <1>3

-----------------------------------------------------------------------------
(* The nodes of the cluster.                                               *)

\* While all is calm only AddCluster touches them.
LEMMA ClusterKept ==
  ASSUME BaseInv, Calm, ClusterInv, NEW c \in Clients, CallStep(c)
  PROVE  /\ op[c] # "dropCluster" /\ chain[c] = <<>> /\ ~FillPath(c)
         /\ ~(Create(c) /\ op[c] = "addCluster") =>
                \A p \in ClusterNodes : p \in nodes' <=> p \in nodes
<1>1. /\ ClientTypes /\ Shape(c) /\ c \in Busy /\ nodes \subseteq AllNodes
      /\ pc[c] \notin {"idle", "dead"}
  BY StepOf, BusyIs
<1>2. op[c] # "dropCluster"
  BY <1>1 DEF Calm, Shape, Drops
<1>3. chain[c] = <<>>
  BY <1>1 DEF ClusterInv, ClusterClient
<1>4. ~FillPath(c)
  BY <1>1, <1>3, GoesFillPath DEF Shape
<1>5. ASSUME Create(c), op[c] # "addCluster" PROVE \A p \in ClusterNodes : p \in nodes' <=> p \in nodes
  <2>1. op[c] \in {"addNode", "join"}
    BY <1>1, <1>5, GoesCreate, OrderTable DEF Shape, Creates
  <2>2. Target(c) \notin ClusterNodes
    BY <1>1, <1>5, <2>1, GoesCreate, FamilyTargets, FamilyApart
  <2> QED BY <1>1, <1>5, <2>2, GoesCreate
<1>6. ASSUME DeleteInstance(c) PROVE \A p \in ClusterNodes : p \in nodes' <=> p \in nodes
  BY <1>1, <1>6, GoesDeleteInstance, FamilyApart
<1>7. ASSUME TreeDelete(c) PROVE \A p \in ClusterNodes : p \in nodes' <=> p \in nodes
  <2>1. path[c] \in FamilyNodes
    BY <1>1, <1>2, <1>7, GoesTreeDelete DEF Shape, Removes, Drops
  <2> QED BY <1>1, <1>7, <2>1, GoesTreeDelete, FamilyApart
<1>8. ASSUME ~Create(c), ~DeleteInstance(c), ~TreeDelete(c) PROVE UNCHANGED nodes
  BY <1>1, <1>4, <1>8, GoesCheck, GoesExists, GoesAutoJoinAllowed, GoesEnsurePath, GoesCreateFails,
     GoesRead,
     GoesDropConfigExists, GoesDropInstanceExists, GoesTreeExists, GoesTreeChildren, GoesTreeNext
     DEF CallStep
<1> QED BY <1>2, <1>3, <1>4, <1>5, <1>6, <1>7, <1>8

\* ... and ensurePath finds what it looks for.
LEMMA ParentThere ==
  ASSUME BaseInv, Calm, ClusterInv, FirstInv, NEW c \in Clients, EnsurePath(c)
  PROVE  Above[Deepest(c)] \in nodes \cup {Root}
<1>1. ClientTypes /\ Shape(c) /\ pc[c] = "ensure" /\ CallStep(c)
  BY GoesEnsurePath DEF BaseInv, CallStep
<1>2. Deepest(c) = Target(c)
  BY <1>1, ClusterKept DEF Deepest
<1>3. CASE op[c] = "addCluster"
  <2>1. Target(c) = ClusterOrder[step[c]] /\ step[c] \in 1 .. 18
    BY <1>1, <1>3, ClusterTargets
  <2>2. CASE Above[ClusterOrder[step[c]]] = Root
    BY <1>2, <2>1, <2>2
  <2>3. ASSUME NEW j \in 1 .. (step[c] - 1), Above[ClusterOrder[step[c]]] = ClusterOrder[j]
        PROVE  ClusterOrder[j] \in nodes
    <3>1. j \in 1 .. 18 /\ j < step[c] /\ step[c] > 1
      BY <2>1, <2>3
    <3>2. ClusterCreator(c)
      BY <1>1, <1>3, <3>1 DEF ClusterCreator, Adding
    <3> QED BY <3>1, <3>2 DEF ClusterInv, ClusterClient
  <2> QED BY <1>2, <2>1, <2>2, <2>3, OrderParents
<1>4. CASE op[c] # "addCluster"
  <2>1. op[c] \in {"addNode", "join"}
    BY <1>1, <1>4, OrderTable DEF Shape, Creates
  <2>2. Target(c) = "config"
    BY <1>1, <2>1, FirstTargets DEF FirstInv
  <2>3. ClusterNodes \subseteq nodes
    BY <1>1, <2>1 DEF ClusterInv, ClusterClient, Asked
  <2> QED BY <1>2, <2>2, <2>3, AboveFamily, ClusterNodesAre
<1> QED BY <1>3, <1>4

\* A client that is at the nodes of the cluster was, and has not moved, or has
\* just created one.
LEMMA AddingStep ==
  ASSUME BaseInv, NEW c \in Clients, CallStep(c), Adding(c)', chain[c] = <<>>
  PROVE  \/ Adding(c) /\ step'[c] = step[c] /\ UNCHANGED nodes
         \/ /\ Create(c) /\ ~Refused(Target(c)) /\ nodes' = nodes \cup {Target(c)}
            /\ step'[c] = step[c] + 1 /\ step[c] < Len(Order[op[c]]) /\ op[c] \in DOMAIN Order
<1>1. ClientTypes /\ Shape(c) /\ op'[c] = op[c] /\ step[c] \in 1 .. 18
  BY StepOf
<1>2. CASE Create(c)
  <2>1. pc'[c] # "idle" /\ pc[c] = "create"
    BY <1>1, <1>2, GoesCreate DEF Adding
  <2>2. step[c] # Len(Order[op[c]]) /\ step'[c] = step[c] + 1
    BY <1>1, <1>2, <2>1, GoesCreate DEF Returns, StepsTo, Goes
  <2>3. op[c] \in DOMAIN Order /\ step[c] <= Len(Order[op[c]]) /\ Len(Order[op[c]]) \in 6 .. 18
    BY <1>1, <2>1, OrderLens DEF Shape, Creates
  <2>4. step[c] < Len(Order[op[c]])
    BY <1>1, <2>2, <2>3
  <2> QED BY <1>1, <1>2, <2>2, <2>3, <2>4, GoesCreate
<1>3. CASE Exists(c)
  <2>1. step[c] = 1
    BY <1>1, <1>3, GoesExists DEF Shape
  <2>2. pc'[c] # "allowed" /\ pc'[c] # "idle"
    BY DEF Adding
  <2>3. step'[c] = 1
    BY <1>1, <1>3, <2>1, <2>2, GoesExists DEF Returns, StepsTo, GoesTo, Goes
  <2> QED BY <2>3 DEF Adding
<1>4. CASE AutoJoinAllowed(c)
  <2>1. step[c] # 2 /\ step'[c] = step[c] /\ step[c] \in 1 .. 2
    BY <1>1, <1>4, GoesAutoJoinAllowed DEF Returns, GoesTo, Goes, Adding, Shape
  <2> QED BY <2>1 DEF Adding
<1>5. CASE EnsurePath(c)
  BY <1>1, <1>5, GoesEnsurePath DEF GoesTo, Goes, Adding
<1>6. CASE FillPath(c)
  BY <1>1, <1>6, GoesFillPath DEF Shape
<1>7. CASE ~(Create(c) \/ Exists(c) \/ AutoJoinAllowed(c) \/ EnsurePath(c) \/ FillPath(c))
  <2>1. AfterCheck(op[c]) \in {"read", "exists"}
    BY DEF AfterCheck
  <2>2. pc'[c] \notin {"ensure", "create"}
    BY <1>1, <1>7, <2>1, GoesCheck, GoesCreateFails, GoesRead, GoesDropConfigExists, GoesDropInstanceExists,
       GoesDeleteInstance, GoesTreeExists, GoesTreeChildren, GoesTreeNext, GoesTreeDelete
       DEF CallStep, StepsTo, GoesTo, Returns, Goes
  <2> QED BY <2>2 DEF Adding
<1> QED BY <1>2, <1>3, <1>4, <1>5, <1>6, <1>7

\* Who is at the first node finds none of them, and no other is at them.
LEMMA FirstCreate ==
  ASSUME BaseInv, Calm, ClusterInv, NEW c \in Clients, Create(c), op[c] = "addCluster", step[c] = 1
  PROVE  /\ \A i \in 1 .. 18 : ClusterOrder[i] \notin nodes
         /\ \A d \in Clients : ~ClusterCreator(d)
<1>1. Target(c) = "cluster" /\ "cluster" \notin nodes
  <2>1. pc[c] = "create" /\ ~Refused(Target(c))
    BY GoesCreate DEF BaseInv
  <2> QED BY <2>1, ClusterTargets, ClusterEnds DEF Refused
<1>2. \A i \in 1 .. 18 : ClusterOrder[i] \notin nodes
  <2>1. \A i \in 1 .. 18 : 1 \in 1 .. i
    OBVIOUS
  <2> QED BY <1>1, <2>1, ClusterEnds DEF ClusterInv, Prefix
<1>3. ASSUME NEW d \in Clients, ClusterCreator(d) PROVE FALSE
  <2>1. ClusterOrder[1] \in nodes <=> 1 < step[d]
    BY <1>3 DEF ClusterInv, ClusterClient
  <2>2. step[d] \in 1 .. 18 /\ step[d] > 1
    BY <1>3, Lengths DEF ClusterCreator, Adding, BaseInv, ClientTypes
  <2> QED BY <1>1, <2>1, <2>2, ClusterEnds
<1> QED BY <1>2, <1>3

\* What there is after AddCluster has created one more.
LEMMA MoreCreated ==
  ASSUME BaseInv, Calm, ClusterInv, NEW c \in Clients, Create(c), op[c] = "addCluster"
  PROVE  \A i \in 1 .. 18 : ClusterOrder[i] \in nodes' <=> i < step[c] + 1
<1>1. /\ step[c] \in 1 .. 18 /\ Target(c) = ClusterOrder[step[c]]
      /\ pc[c] = "create" /\ nodes' = nodes \cup {Target(c)}
  BY GoesCreate, ClusterTargets DEF BaseInv
<1>2. \A i \in 1 .. 18 : ClusterOrder[i] \in nodes <=> i < step[c]
  <2>1. CASE step[c] = 1
    BY <2>1, FirstCreate
  <2>2. CASE step[c] # 1
    BY <1>1, <2>2 DEF ClusterInv, ClusterClient, ClusterCreator, Adding
  <2> QED BY <2>1, <2>2
<1>3. \A i \in 1 .. 18 : ClusterOrder[i] \in nodes' <=> ClusterOrder[i] \in nodes \/ i = step[c]
  BY <1>1, ClusterDistinct
<1>4. \A i \in 1 .. 18 : i < step[c] + 1 <=> i < step[c] \/ i = step[c]
  BY <1>1
<1> QED BY <1>2, <1>3, <1>4

\* What the client that makes a step has of the cluster.
LEMMA ClusterClientStep ==
  ASSUME BaseInv, Calm, ClusterInv, FirstInv, NEW c \in Clients, CallStep(c)
  PROVE  ClusterClient(c)'
<1>1. ClientTypes /\ Shape(c) /\ c \in Busy /\ op'[c] = op[c] /\ chain[c] = <<>> /\ ~FillPath(c)
  BY StepOf, ClusterKept
<1>2. chain'[c] = <<>>
  <2>1. CASE EnsurePath(c)
    BY <1>1, <2>1, ParentThere, GoesEnsurePath DEF GoesTo, Goes
  <2>2. CASE ~EnsurePath(c)
    BY <1>1, <2>2, GoesCheck, GoesExists, GoesAutoJoinAllowed, GoesCreate, GoesCreateFails,
       GoesRead, GoesDropConfigExists, GoesDropInstanceExists, GoesDeleteInstance, GoesTreeExists,
          GoesTreeChildren,
       GoesTreeNext, GoesTreeDelete DEF CallStep, StepsTo, GoesTo, Returns, Goes
  <2> QED BY <2>1, <2>2
<1>3. ASSUME Asked(c)' PROVE ClusterNodes \subseteq nodes'
  <2>1. op[c] # "addCluster"
    BY <1>1, <1>3 DEF Asked
  <2>2. \A p \in ClusterNodes : p \in nodes' <=> p \in nodes
    BY <2>1, ClusterKept
  <2>3. CASE ClusterOrder[18] \in nodes
    <3>1. \A j \in 1 .. 18 : ClusterOrder[j] \in nodes
      BY <2>3 DEF ClusterInv, Prefix
    <3> QED BY <2>2, <3>1, ClusterAll
  <2>4. CASE Asked(c)
    BY <2>2, <2>4 DEF ClusterInv, ClusterClient
  <2> QED BY <1>1, <1>3, <2>3, <2>4, AskedStep
<1>4. ASSUME ClusterCreator(c)' PROVE \A i \in 1 .. 18 : ClusterOrder[i] \in nodes' <=> i < step'[c]
  <2>1. op[c] = "addCluster" /\ Adding(c)'
    BY <1>1, <1>4 DEF ClusterCreator
  <2>2. CASE Adding(c) /\ step'[c] = step[c] /\ UNCHANGED nodes
    BY <2>1, <2>2 DEF ClusterInv, ClusterClient, ClusterCreator
  <2>3. CASE Create(c) /\ step'[c] = step[c] + 1
    BY <2>1, <2>3, MoreCreated
  <2> QED BY <1>1, <2>1, <2>2, <2>3, AddingStep
<1> QED BY <1>2, <1>3, <1>4 DEF ClusterClient

\* What the other clients have of the cluster.
LEMMA OtherClusterClients ==
  ASSUME BaseInv, Calm, ClusterInv, NEW c \in Clients, CallStep(c), NEW d \in Clients \ {c}
  PROVE  ClusterClient(d)' /\ (ClusterCreator(d)' <=> ClusterCreator(d))
<1>1. /\ pc'[d] = pc[d] /\ op'[d] = op[d] /\ step'[d] = step[d] /\ chain'[d] = chain[d]
      /\ d \in Busy' <=> d \in Busy
  BY StepOf DEF Frame, Others
<1>2. ClusterClient(d)
  BY DEF ClusterInv
<1>3. ClusterCreator(d)' <=> ClusterCreator(d)
  BY <1>1 DEF ClusterCreator, Adding
<1>4. CASE ~(Create(c) /\ op[c] = "addCluster")
  BY <1>1, <1>2, <1>3, <1>4, ClusterKept, ClusterAt DEF ClusterClient, Asked
<1>5. CASE Create(c) /\ op[c] = "addCluster"
  <2>1. nodes \subseteq nodes' /\ step[c] \in 1 .. 18 /\ pc[c] = "create"
    BY <1>5, GoesCreate, StepOf
  <2>2. ~ClusterCreator(d)
    <3>1. CASE step[c] = 1
      BY <1>5, <3>1, FirstCreate
    <3>2. CASE step[c] # 1
      <4>1. ClusterCreator(c)
        BY <1>5, <2>1, <3>2 DEF ClusterCreator, Adding
      <4> QED BY <4>1 DEF ClusterInv, OneClusterCreator
    <3> QED BY <3>1, <3>2
  <2> QED BY <1>1, <1>2, <1>3, <2>1, <2>2 DEF ClusterClient, Asked
<1> QED BY <1>3, <1>4, <1>5

\* While all is calm each step of a call keeps it so.
LEMMA ClusterCallStep ==
  ASSUME BaseInv, Calm, ClusterInv, FirstInv, NEW c \in Clients, CallStep(c)
  PROVE  ClusterInv'
<1>1. ClientTypes /\ Shape(c) /\ c \in Busy /\ op'[c] = op[c] /\ crashes' = crashes /\ chain[c] = <<>>
  BY StepOf, ClusterKept
<1>2. ASSUME NEW d \in Clients PROVE ClusterClient(d)'
  BY ClusterClientStep, OtherClusterClients
<1>3. OneClusterCreator'
  <2> SUFFICES ASSUME NEW a \in Clients, NEW b \in Clients, ClusterCreator(a)', ClusterCreator(b)', a # b
               PROVE  FALSE
    BY DEF OneClusterCreator
  <2>1. ~(ClusterCreator(a) /\ ClusterCreator(b))
    BY DEF ClusterInv, OneClusterCreator
  <2>2. PICK d \in Clients \ {c} : ClusterCreator(d) /\ ClusterCreator(c)' /\ ~ClusterCreator(c)
    BY <2>1, OtherClusterClients
  <2>3. Create(c) /\ op[c] = "addCluster" /\ pc[c] = "create"
    BY <1>1, <2>2, AddingStep, GoesCreate DEF ClusterCreator
  <2>4. step[c] = 1
    BY <2>2, <2>3, StepOf DEF ClusterCreator, Adding
  <2> QED BY <2>2, <2>3, <2>4, FirstCreate
<1>4. Prefix' /\ ClusterWhole'
  <2>1. CASE Create(c) /\ op[c] = "addCluster"
    <3>1. \A i \in 1 .. 18 : ClusterOrder[i] \in nodes' <=> i < step[c] + 1
      BY <2>1, MoreCreated
    <3>2. step[c] \in 1 .. 18 /\ pc[c] = "create" /\ Len(Order[op[c]]) = 18
      BY <1>1, <2>1, StepOf, GoesCreate, ClusterTargets
    <3>3. Prefix'
      BY <3>1, <3>2 DEF Prefix
    <3>4. CASE step[c] = 18
      <4>1. \A i \in 1 .. 18 : ClusterOrder[i] \in nodes'
        BY <3>1, <3>4
      <4> QED BY <3>3, <4>1, ClusterAll DEF ClusterWhole
    <3>5. CASE step[c] # 18
      <4>1. pc'[c] \in {"create", "ensure"} /\ step'[c] = step[c] + 1
        BY <1>1, <2>1, <3>2, <3>5, GoesCreate DEF StepsTo, Goes
      <4>2. ClusterCreator(c)'
        BY <1>1, <2>1, <3>2, <4>1 DEF ClusterCreator, Adding
      <4> QED BY <3>3, <4>2 DEF ClusterWhole
    <3> QED BY <3>4, <3>5
  <2>2. CASE ~(Create(c) /\ op[c] = "addCluster")
    <3>1. \A p \in ClusterNodes : p \in nodes' <=> p \in nodes
      BY <2>2, ClusterKept
    <3>2. Prefix'
      BY <3>1, ClusterAt DEF ClusterInv, Prefix
    <3>3. ASSUME crashes' = 0, "cluster" \in nodes', ~(ClusterNodes \subseteq nodes')
          PROVE  \E d \in Clients : ClusterCreator(d)'
      <4>1. PICK d \in Clients : ClusterCreator(d)
        BY <1>1, <3>1, <3>3, ClusterNodesAre DEF ClusterInv, ClusterWhole
      <4>2. CASE d # c
        BY <4>1, <4>2, OtherClusterClients
      <4>3. CASE d = c
        <5>1. pc[c] \in {"ensure", "create"} /\ op[c] = "addCluster" /\ step[c] > 1
          BY <4>1, <4>3 DEF ClusterCreator, Adding
        <5>2. EnsurePath(c) \/ CreateFails(c)
          BY <1>1, <2>2, <5>1, GoesCheck, GoesExists, GoesAutoJoinAllowed, GoesFillPath,
             GoesRead, GoesDropConfigExists, GoesDropInstanceExists, GoesDeleteInstance, GoesTreeExists,
                GoesTreeChildren,
             GoesTreeNext, GoesTreeDelete DEF CallStep
        <5>3. CASE EnsurePath(c)
          <6>1. pc'[c] = "create" /\ step'[c] = step[c]
            BY <1>1, <5>3, ParentThere, GoesEnsurePath DEF GoesTo, Goes
          <6> QED BY <1>1, <5>1, <6>1 DEF ClusterCreator, Adding
        <5>4. CASE CreateFails(c)
          <6>1. pc[c] = "create" /\ Refused(Target(c))
            BY <5>1, <5>4 DEF CreateFails
          <6>2. Target(c) = ClusterOrder[step[c]] /\ step[c] \in 1 .. 18
            BY <5>1, ClusterTargets
          <6>3. \A i \in 1 .. 18 : ClusterOrder[i] \in nodes <=> i < step[c]
            BY <4>1, <4>3 DEF ClusterInv, ClusterClient
          <6>4. ClusterOrder[step[c]] \notin nodes
            BY <6>2, <6>3
          <6>5. PICK j \in 1 .. (step[c] - 1) : Above[ClusterOrder[step[c]]] = ClusterOrder[j]
                   /\ ClusterOrder[j] \notin nodes
            BY <6>1, <6>2, <6>4, OrderParents DEF Refused
          <6>6. j \in 1 .. 18 /\ j < step[c]
            BY <6>2, <6>5
          <6> QED BY <6>3, <6>5, <6>6
        <5> QED BY <5>2, <5>3, <5>4
      <4> QED BY <4>2, <4>3
    <3> QED BY <3>2, <3>3 DEF ClusterWhole
  <2> QED BY <2>1, <2>2
<1> QED BY <1>2, <1>3, <1>4 DEF ClusterInv

\* After its first node a participant's next one is created right away.
LEMMA FirstStep ==
  ASSUME BaseInv, FirstInv, NEW c \in Clients, CallStep(c)
  PROVE  FirstInv'
<1>1. ClientTypes /\ Shape(c) /\ op'[c] = op[c] /\ step[c] \in 1 .. 18 /\ Frame(c)
  BY StepOf
<1>2. ASSUME pc'[c] = "ensure", op[c] \in {"addNode", "join"} PROVE step'[c] = 1
  <2>1. CASE Create(c)
    <3>1. pc[c] = "create" /\ op[c] \in DOMAIN Order /\ step[c] <= Len(Order[op[c]])
      BY <1>1, <2>1, GoesCreate DEF Shape, Creates
    <3>2. step[c] # Len(Order[op[c]]) /\ pc' = [pc EXCEPT ![c] = CreatePc(Order[op[c]][step[c] + 1])]
      BY <1>1, <1>2, <2>1 DEF Create, Goto, Return, ClientTypes
    <3>3. CreatePc(Order[op[c]][step[c] + 1]) = "ensure"
      BY <1>1, <1>2, <3>2 DEF ClientTypes
    <3>4. CASE op[c] = "addNode"
      <4>1. Order[op[c]] = AddNodeOrder /\ step[c] \in 1 .. 5
        <5>1. Order[op[c]] = AddNodeOrder /\ Len(Order[op[c]]) = 6
          BY <3>4, OrderTable, Lengths
        <5> QED BY <1>1, <3>1, <3>2, <5>1
      <4>2. \A i \in 1 .. 5 : AddNodeOrder[i + 1] \notin {"config", "clusterConfig"}
        BY DEF AddNodeOrder
      <4> QED BY <3>3, <4>1, <4>2 DEF CreatePc
    <3>5. CASE op[c] = "join"
      <4>1. Order[op[c]] = JoinOrder /\ step[c] \in 1 .. 6
        <5>1. Order[op[c]] = JoinOrder /\ Len(Order[op[c]]) = 7
          BY <3>5, OrderTable, Lengths
        <5> QED BY <1>1, <3>1, <3>2, <5>1
      <4>2. \A i \in 1 .. 6 : JoinOrder[i + 1] \notin {"config", "clusterConfig"}
        BY DEF JoinOrder
      <4> QED BY <3>3, <4>1, <4>2 DEF CreatePc
    <3> QED BY <1>2, <3>4, <3>5
  <2>2. CASE Exists(c)
    BY <1>1, <1>2, <2>2, GoesExists DEF Returns, StepsTo, GoesTo, Goes, Shape
  <2>3. CASE AutoJoinAllowed(c)
    <3>1. step[c] # 2 /\ step'[c] = step[c] /\ step[c] \in 1 .. 2
      BY <1>1, <1>2, <2>3, GoesAutoJoinAllowed DEF Returns, GoesTo, Goes, Shape
    <3> QED BY <3>1
  <2>4. CASE EnsurePath(c)
    BY <1>1, <1>2, <2>4, GoesEnsurePath DEF GoesTo, Goes, FirstInv
  <2>5. CASE ~(Create(c) \/ Exists(c) \/ AutoJoinAllowed(c) \/ EnsurePath(c))
    <3>1. AfterCheck(op[c]) \in {"read", "exists"}
      BY DEF AfterCheck
    <3> QED BY <1>1, <1>2, <2>5, <3>1, GoesCheck, GoesFillPath, GoesCreateFails, GoesRead,
                  GoesDropConfigExists,
       GoesDropInstanceExists, GoesDeleteInstance, GoesTreeExists, GoesTreeChildren, GoesTreeNext,
          GoesTreeDelete
       DEF CallStep, StepsTo, GoesTo, Returns, Goes
  <2> QED BY <2>1, <2>2, <2>3, <2>4, <2>5
<1> QED BY <1>1, <1>2 DEF FirstInv, Frame, Others

\* What a call that begins is, and what the others are.
LEMMA CallOf ==
  ASSUME BaseInv, NEW c \in Clients, NEW o \in Ops, Call(c, o)
  PROVE  /\ UNCHANGED <<nodes, mix, ended, crashes>> /\ Busy' = Busy \cup {c} /\ c \notin Busy
         /\ op'[c] = o /\ pc'[c] = FirstPc(o) /\ chain'[c] = <<>> /\ step'[c] = 1 /\ todo'[c] = {}
         /\ path'[c] = (IF o = "dropCluster" THEN "cluster" ELSE "config")
         /\ dropped' = dropped \cup ({o} \cap Drops)
         /\ raced' = (raced \/ (Busy # {} /\ (o \in Drops \/ \E d \in Busy : op[d] \in Drops)))
         /\ \A d \in Clients \ {c} :
                /\ pc'[d] = pc[d] /\ op'[d] = op[d] /\ step'[d] = step[d]
                /\ chain'[d] = chain[d] /\ path'[d] = path[d] /\ todo'[d] = todo[d]
         /\ ~Asked(c)' /\ ~Adding(c)' /\ ~Asked(c) /\ ~Adding(c)
         /\ pc'[c] \notin {"read", "ensure"} \/ (o = "getInstances" /\ pc'[c] = "read")
<1>1. ClientTypes /\ Shape(c) /\ Frame(c) /\ pc[c] = "idle"
  BY GoesCall DEF BaseInv
<1>2. /\ op'[c] = o /\ pc'[c] = FirstPc(o) /\ chain'[c] = <<>> /\ step'[c] = 1 /\ todo'[c] = {}
      /\ path'[c] = (IF o = "dropCluster" THEN "cluster" ELSE "config")
  BY <1>1, GoesCall DEF Shape
<1>3. FirstPc(o) \notin {"idle", "dead"}
  BY DEF FirstPc
<1>4. Busy' = Busy \cup {c} /\ c \notin Busy
  BY <1>1, <1>2, <1>3 DEF Busy, Frame, Others
<1>5. ~Asked(c)' /\ ~Adding(c)' /\ ~Asked(c) /\ ~Adding(c)
  BY <1>1, <1>2 DEF Asked, Adding, FirstPc
<1>6. pc'[c] \notin {"read", "ensure"} \/ (o = "getInstances" /\ pc'[c] = "read")
  BY <1>2 DEF FirstPc
<1> QED BY <1>1, <1>2, <1>4, <1>5, <1>6 DEF Call, Frame, Others

\* What a process that is killed leaves as it is.
LEMMA CrashOf ==
  ASSUME BaseInv, NEW c \in Clients, Crash(c)
  PROVE  /\ UNCHANGED <<nodes, op, step, chain, path, todo, mix, calls, dropped, raced, ended>>
         /\ crashes' = crashes + 1 /\ crashes' # 0 /\ pc'[c] = "dead" /\ Busy' = Busy \ {c} /\ c \in Busy
         /\ \A d \in Clients \ {c} : pc'[d] = pc[d]
<1>1. ClientTypes /\ Frame(c)
  BY GoesCrash DEF BaseInv
<1>2. pc'[c] = "dead" /\ \A d \in Clients \ {c} : pc'[d] = pc[d]
  BY <1>1, GoesCrash DEF GoesTo, Goes, Frame, Others
<1>3. Busy' = Busy \ {c}
  BY <1>2 DEF Busy
<1>4. crashes' = crashes + 1 /\ crashes' # 0
  BY AdminAssumption DEF Crash, BaseInv
<1> QED BY <1>2, <1>3, <1>4 DEF Crash, callVars

\* Calls that begin and processes that are killed change nothing about it.
LEMMA FirstOthers ==
  ASSUME BaseInv, FirstInv, NEW c \in Clients, (\E o \in Ops : Call(c, o)) \/ Crash(c)
  PROVE  FirstInv'
<1>1. CASE \E o \in Ops : Call(c, o)
  BY <1>1, CallOf DEF FirstInv
<1>2. CASE Crash(c)
  BY <1>2, CrashOf DEF FirstInv
<1> QED BY <1>1, <1>2

\* Nor about the nodes of the cluster.
LEMMA ClusterCall ==
  ASSUME BaseInv, ClusterInv, NEW c \in Clients, NEW o \in Ops, Call(c, o)
  PROVE  ClusterInv'
<1> SUFFICES ASSUME Calm' PROVE ClusterInv'
  BY DEF ClusterInv
<1>1. Calm
  <2>1. Busy \subseteq Busy' /\ \A d \in Busy : op'[d] = op[d]
    BY CallOf DEF Busy
  <2>2. dropped \subseteq dropped' /\ (~raced' => ~raced) /\ crashes' = crashes
    BY CallOf
  <2> QED BY <2>1, <2>2 DEF Calm
<1>2. \A d \in Clients : ClusterCreator(d)' <=> ClusterCreator(d)
  BY CallOf DEF ClusterCreator, Adding
<1>3. ASSUME NEW d \in Clients PROVE ClusterClient(d)'
  <2>1. ClusterClient(d)
    BY <1>1 DEF ClusterInv
  <2>2. CASE d = c
    BY <2>2, CallOf DEF ClusterClient, ClusterCreator
  <2>3. CASE d # c
    BY <1>2, <2>1, <2>3, CallOf DEF ClusterClient, Asked
  <2> QED BY <2>2, <2>3
<1> QED BY <1>1, <1>2, <1>3, CallOf DEF ClusterInv, Prefix, OneClusterCreator, ClusterWhole

\* ... and neither does a process that is killed.
LEMMA ClusterCrash ==
  ASSUME BaseInv, ClusterInv, NEW c \in Clients, Crash(c)
  PROVE  ClusterInv'
<1> SUFFICES ASSUME Calm' PROVE ClusterInv'
  BY DEF ClusterInv
<1>1. Calm
  BY CrashOf DEF Calm
<1>2. \A d \in Clients : ClusterCreator(d)' => ClusterCreator(d)
  BY CrashOf DEF ClusterCreator, Adding
<1>3. ASSUME NEW d \in Clients PROVE ClusterClient(d)'
  <2>1. ClusterClient(d)
    BY <1>1 DEF ClusterInv
  <2>2. CASE d = c
    BY <2>2, CrashOf DEF ClusterClient, ClusterCreator, Adding, Asked
  <2>3. CASE d # c
    BY <1>2, <2>1, <2>3, CrashOf DEF ClusterClient, Asked
  <2> QED BY <2>2, <2>3
<1> QED BY <1>1, <1>2, <1>3, CrashOf DEF ClusterInv, Prefix, OneClusterCreator, ClusterWhole

\* Until a cluster is dropped one AddCluster gets through, and what it has made
\* is there.
AddedClusterInv ==
    "dropCluster" \notin dropped =>
        /\ \A c \in Clients : ClusterCreator(c) => ended["addCluster"] = 0
        /\ ended["addCluster"] <= 1
        /\ ended["addCluster"] = 1 => ClusterNodes \subseteq nodes

\* Only its last Create counts a call as one that has got through.
LEMMA EndedStep ==
  ASSUME BaseInv, NEW c \in Clients, CallStep(c)
  PROVE  /\ ended \in [{"addCluster", "addNode", "join"} -> Nat]
         /\ \/ UNCHANGED ended
            \/ /\ Create(c) /\ op[c] \in {"addCluster", "addNode", "join"}
                     /\ step[c] = Len(Order[op[c]]) /\ pc[c] = "create"
               /\ ended'[op[c]] = ended[op[c]] + 1
               /\ \A o \in {"addCluster", "addNode", "join"} \ {op[c]} : ended'[o] = ended[o]
<1>1. ended \in [{"addCluster", "addNode", "join"} -> Nat]
  BY OrderTable DEF BaseInv, CountInv
<1>2. ClientTypes /\ Shape(c)
  BY DEF BaseInv
<1>3. ASSUME Create(c) PROVE pc[c] = "create" /\ op[c] \in {"addCluster", "addNode", "join"}
  BY <1>2, <1>3, GoesCreate, OrderTable DEF Shape, Creates
<1> QED BY <1>1, <1>2, <1>3, CountStep, OrderTable

\* The only AddCluster that has created a node is the only one to get through.
LEMMA AddedClusterStep ==
  ASSUME BaseInv, ClusterInv, FirstInv, AddedClusterInv, NEW c \in Clients, CallStep(c)
  PROVE  AddedClusterInv'
<1> SUFFICES ASSUME "dropCluster" \notin dropped
             PROVE  /\ \A d \in Clients : ClusterCreator(d)' => ended'["addCluster"] = 0
                    /\ ended'["addCluster"] <= 1
                    /\ ended'["addCluster"] = 1 => ClusterNodes \subseteq nodes'
  BY StepOf DEF AddedClusterInv
<1>1. Calm /\ ClusterInv' /\ Calm' /\ ended["addCluster"] \in 0 .. 1
  <2>1. Calm /\ Calm'
    BY StepOf DEF Calm
  <2>2. ended["addCluster"] \in Nat
    BY EndedStep
  <2> QED BY <2>1, <2>2, ClusterCallStep DEF AddedClusterInv
<1>2. CASE Create(c) /\ op[c] = "addCluster"
  <2>1. /\ \A i \in 1 .. 18 : ClusterOrder[i] \in nodes' <=> i < step[c] + 1
        /\ step[c] \in 1 .. 18 /\ pc[c] = "create" /\ Len(Order[op[c]]) = 18
    BY <1>1, <1>2, StepOf, GoesCreate, ClusterTargets, MoreCreated
  <2>2. ended["addCluster"] = 0
    <3>1. CASE step[c] = 1
      <4>1. ~(ClusterNodes \subseteq nodes)
        BY <1>1, <1>2, <3>1, FirstCreate, ClusterAt
      <4> QED BY <1>1, <4>1 DEF AddedClusterInv
    <3>2. CASE step[c] # 1
      BY <1>2, <2>1, <3>2 DEF AddedClusterInv, ClusterCreator, Adding
    <3> QED BY <3>1, <3>2
  <2>3. CASE UNCHANGED ended
    BY <2>2, <2>3
  <2>4. CASE step[c] = 18 /\ ended'["addCluster"] = ended["addCluster"] + 1
    <3>1. ended'["addCluster"] = 1
      BY <2>2, <2>4
    <3>2. \A i \in 1 .. 18 : ClusterOrder[i] \in nodes'
      BY <2>1, <2>4
    <3>3. ASSUME NEW d \in Clients, ClusterCreator(d)' PROVE FALSE
      <4>1. ClusterOrder[18] \in nodes' <=> 18 < step'[d]
        BY <1>1, <3>3 DEF ClusterInv, ClusterClient
      <4>2. step'[d] \in 1 .. 18
        BY StepOf, Lengths DEF BaseInv, ClientTypes
      <4> QED BY <3>2, <4>1, <4>2
    <3> QED BY <3>1, <3>2, <3>3, ClusterAll
  <2> QED BY <1>2, <2>1, <2>3, <2>4, EndedStep
<1>3. CASE ~(Create(c) /\ op[c] = "addCluster")
  <2>1. ended'["addCluster"] = ended["addCluster"]
    BY <1>3, EndedStep
  <2>2. \A p \in ClusterNodes : p \in nodes' <=> p \in nodes
    BY <1>1, <1>3, ClusterKept
  <2>3. ASSUME NEW d \in Clients, ClusterCreator(d)' PROVE ClusterCreator(d)
    <3>1. CASE d # c
      BY <1>1, <2>3, <3>1, OtherClusterClients
    <3>2. CASE d = c
      BY <1>1, <1>3, <2>3, <3>2, ClusterKept, AddingStep, StepOf DEF ClusterCreator
    <3> QED BY <3>1, <3>2
  <2> QED BY <2>1, <2>2, <2>3 DEF AddedClusterInv
<1> QED BY <1>2, <1>3

\* Calls that begin and processes that are killed leave that as it is.
LEMMA AddedClusterOthers ==
  ASSUME BaseInv, AddedClusterInv, NEW c \in Clients, (\E o \in Ops : Call(c, o)) \/ Crash(c)
  PROVE  AddedClusterInv'
<1>1. CASE \E o \in Ops : Call(c, o)
  <2>1. \A d \in Clients : ClusterCreator(d)' => ClusterCreator(d)
    BY <1>1, CallOf DEF ClusterCreator, Adding
  <2> QED BY <1>1, <2>1, CallOf DEF AddedClusterInv
<1>2. CASE Crash(c)
  <2>1. \A d \in Clients : ClusterCreator(d)' => ClusterCreator(d)
    BY <1>2, CrashOf DEF ClusterCreator, Adding
  <2> QED BY <1>2, <2>1, CrashOf DEF AddedClusterInv
<1> QED BY <1>1, <1>2

-----------------------------------------------------------------------------
(* The nodes of a participant.                                             *)

\* They are those the only call that creates them has come to, below a config.
NodeClient(c) ==
    NodeCreator(c) => \A i \in DOMAIN Order[op[c]] : Order[op[c]][i] \in nodes <=> i < step[c]
OneNodeCreator == \A c, d \in Clients : NodeCreator(c) /\ NodeCreator(d) => c = d
NoneWithoutConfig == "config" \notin nodes => nodes \cap FamilyNodes = {}
NodeWhole == crashes = 0 /\ "config" \in nodes => Registered \/ \E c \in Clients : NodeCreator(c)
NodeInv ==
    CalmNode => NoneWithoutConfig /\ (\A c \in Clients : NodeClient(c)) /\ OneNodeCreator /\ NodeWhole

\* What the lists of a participant's nodes are.
LEMMA NodeOrders ==
  ASSUME NEW o \in {"addNode", "join"}
  PROVE  /\ Len(Order[o]) \in 6 .. 7 /\ DOMAIN Order[o] = 1 .. Len(Order[o])
         /\ Order[o][1] = "config" /\ Order[o][2] = "instance"
         /\ \A i \in 1 .. Len(Order[o]) : i > 2 => Order[o][i] \in InstanceNodes
         /\ \A i, j \in 1 .. Len(Order[o]) : Order[o][i] = Order[o][j] => i = j
         /\ o \in DOMAIN Order
<1>1. CASE o = "addNode"
  <2>1. Order[o] = AddNodeOrder /\ Len(Order[o]) = 6 /\ DOMAIN Order[o] = 1 .. 6
    BY <1>1, OrderTable, Lengths
  <2>2. AddNodeOrder[1] = "config" /\ AddNodeOrder[2] = "instance"
    BY DEF AddNodeOrder
  <2>3. \A i \in 1 .. 6 : i > 2 => AddNodeOrder[i] \in InstanceNodes
    BY AboveFamily DEF AddNodeOrder
  <2>4. \A i, j \in 1 .. 6 : AddNodeOrder[i] = AddNodeOrder[j] => i = j
    BY DEF AddNodeOrder
  <2> QED BY <1>1, <2>1, <2>2, <2>3, <2>4, OrderTable
<1>2. CASE o = "join"
  <2>1. Order[o] = JoinOrder /\ Len(Order[o]) = 7 /\ DOMAIN Order[o] = 1 .. 7
    BY <1>2, OrderTable, Lengths
  <2>2. JoinOrder[1] = "config" /\ JoinOrder[2] = "instance"
    BY DEF JoinOrder
  <2>3. \A i \in 1 .. 7 : i > 2 => JoinOrder[i] \in InstanceNodes
    BY AboveFamily DEF JoinOrder
  <2>4. \A i, j \in 1 .. 7 : JoinOrder[i] = JoinOrder[j] => i = j
    BY DEF JoinOrder
  <2> QED BY <1>2, <2>1, <2>2, <2>3, <2>4, OrderTable
<1> QED BY <1>1, <1>2

\* They are nodes of the participant.
LEMMA NodeOrdersFamily ==
  ASSUME NEW o \in {"addNode", "join"}
  PROVE  \A i \in DOMAIN Order[o] : Order[o][i] \in FamilyNodes
<1>1. PICK n : n = Len(Order[o])
  OBVIOUS
<1>2. /\ n \in 6 .. 7 /\ DOMAIN Order[o] = 1 .. n
      /\ Order[o][1] = "config" /\ Order[o][2] = "instance"
      /\ \A i \in 1 .. n : i > 2 => Order[o][i] \in InstanceNodes
  BY <1>1, NodeOrders
<1>3. \A i \in 1 .. n : i = 1 \/ i = 2 \/ i > 2
  BY <1>2
<1> QED BY <1>2, <1>3, FamilyNodesAre, AboveFamily

\* Where nothing has touched the participant's nodes, nothing has the cluster's.
LEMMA CalmNodes == CalmNode => Calm
BY DEF CalmNode, Calm, Drops

\* While all is calm there only AddNode and a participant that joins touch them.
LEMMA NodeKept ==
  ASSUME BaseInv, CalmNode, ClusterInv, NEW c \in Clients, CallStep(c)
  PROVE  /\ op[c] \notin Drops
         /\ ~(Create(c) /\ op[c] \in {"addNode", "join"}) =>
                \A p \in FamilyNodes : p \in nodes' <=> p \in nodes
<1>1. /\ ClientTypes /\ Shape(c) /\ c \in Busy /\ nodes \subseteq AllNodes
      /\ pc[c] \notin {"idle", "dead"} /\ Calm
  BY StepOf, BusyIs, CalmNodes
<1>2. op[c] \notin Drops
  BY <1>1 DEF CalmNode, Shape
<1>3. ~FillPath(c)
  BY <1>1, ClusterKept
<1>4. ~DeleteInstance(c) /\ ~TreeDelete(c)
  BY <1>1, <1>2, GoesDeleteInstance, GoesTreeDelete DEF Shape, Drops, Removes
<1>5. ASSUME Create(c),
                op[c] \notin {"addNode", "join"} PROVE \A p \in FamilyNodes : p \in nodes' <=> p \in nodes
  <2>1. op[c] = "addCluster" /\ pc[c] = "create"
    BY <1>1, <1>5, GoesCreate, OrderTable DEF Shape, Creates
  <2>2. Target(c) \in ClusterNodes
    BY <2>1, ClusterTargets, ClusterAt
  <2> QED BY <1>1, <1>5, <2>2, GoesCreate, FamilyApart
<1>6. ASSUME ~Create(c) PROVE UNCHANGED nodes
  BY <1>1, <1>3, <1>4, <1>6, GoesCheck, GoesExists, GoesAutoJoinAllowed, GoesEnsurePath, GoesCreateFails,
     GoesRead,
     GoesDropConfigExists, GoesDropInstanceExists, GoesTreeExists, GoesTreeChildren, GoesTreeNext
     DEF CallStep
<1> QED BY <1>2, <1>5, <1>6

\* Who creates the config finds nothing of the participant, and no other at it.
LEMMA NodeFirstCreate ==
  ASSUME BaseInv, CalmNode, NodeInv, NEW c \in Clients, Create(c), op[c] \in {"addNode", "join"},
            step[c] = 1
  PROVE  /\ nodes \cap FamilyNodes = {} /\ "config" \notin nodes
         /\ \A d \in Clients : ~NodeCreator(d)
<1>1. Target(c) = "config" /\ "config" \notin nodes
  <2>1. pc[c] = "create" /\ ~Refused(Target(c))
    BY GoesCreate DEF BaseInv
  <2> QED BY <2>1, FirstTargets DEF Refused
<1>2. ASSUME NEW d \in Clients, NodeCreator(d) PROVE FALSE
  <2>1. op[d] \in {"addNode", "join"} /\ step[d] > 1
    BY <1>2 DEF NodeCreator, Adding
  <2>2. 1 \in DOMAIN Order[op[d]] /\ Order[op[d]][1] = "config"
    BY <2>1, NodeOrders
  <2> QED BY <1>1, <1>2, <2>1, <2>2 DEF NodeInv, NodeClient
<1> QED BY <1>1, <1>2 DEF NodeInv, NoneWithoutConfig

\* What there is after a participant's next node has been created.
LEMMA NodeMoreCreated ==
  ASSUME BaseInv, CalmNode, NodeInv, NEW c \in Clients, Create(c), op[c] \in {"addNode", "join"}
  PROVE  /\ \A i \in DOMAIN Order[op[c]] : Order[op[c]][i] \in nodes' <=> i < step[c] + 1
         /\ "config" \in nodes' /\ pc[c] = "create" /\ nodes' = nodes \cup {Target(c)}
         /\ step[c] \in 1 .. Len(Order[op[c]])
<1>1. /\ pc[c] = "create" /\ nodes' = nodes \cup {Target(c)}
      /\ step[c] \in 1 .. 18 /\ step[c] <= Len(Order[op[c]])
  BY GoesCreate, Lengths DEF BaseInv, ClientTypes, Shape, Creates
<1>2. PICK n : n = Len(Order[op[c]])
  OBVIOUS
<1>3. /\ n \in 6 .. 7 /\ DOMAIN Order[op[c]] = 1 .. n /\ Order[op[c]][1] = "config"
      /\ \A i, j \in 1 .. n : Order[op[c]][i] = Order[op[c]][j] => i = j
  BY <1>2, NodeOrders
<1>4. step[c] \in 1 .. n
  BY <1>1, <1>2, <1>3
<1>5. \A i \in 1 .. n : Order[op[c]][i] \in nodes <=> i < step[c]
  <2>1. CASE step[c] = 1
    <3>1. \A i \in 1 .. n : Order[op[c]][i] \in FamilyNodes
      BY <1>3, NodeOrdersFamily
    <3> QED BY <1>4, <2>1, <3>1, NodeFirstCreate
  <2>2. CASE step[c] # 1
    <3>1. NodeCreator(c)
      BY <1>1, <2>2 DEF NodeCreator, Adding
    <3> QED BY <1>3, <3>1 DEF NodeInv, NodeClient
  <2> QED BY <2>1, <2>2
<1>6. \A i \in 1 .. n : Order[op[c]][i] \in nodes' <=> Order[op[c]][i] \in nodes \/ i = step[c]
  BY <1>1, <1>3, <1>4 DEF Target
<1>7. \A i \in 1 .. n : i < step[c] + 1 <=> i < step[c] \/ i = step[c]
  BY <1>3, <1>4
<1>8. \A i \in 1 .. n : Order[op[c]][i] \in nodes' <=> i < step[c] + 1
  BY <1>5, <1>6, <1>7
<1>9. "config" \in nodes'
  <2>1. 1 \in 1 .. n /\ 1 < step[c] + 1
    BY <1>3, <1>4
  <2> QED BY <1>3, <1>8, <2>1
<1> QED BY <1>1, <1>2, <1>3, <1>4, <1>8, <1>9

\* What the client that makes a step has of the participant.
LEMMA NodeClientStep ==
  ASSUME BaseInv, CalmNode, ClusterInv, NodeInv, NEW c \in Clients, CallStep(c), NodeCreator(c)'
  PROVE  \A i \in DOMAIN Order[op[c]] : Order[op[c]][i] \in nodes' <=> i < step'[c]
<1>1. Calm /\ op'[c] = op[c] /\ chain[c] = <<>> /\ Adding(c)' /\ op[c] \in {"addNode", "join"}
  BY CalmNodes, ClusterKept, StepOf DEF NodeCreator
<1>2. CASE Adding(c) /\ step'[c] = step[c] /\ UNCHANGED nodes
  BY <1>1, <1>2 DEF NodeInv, NodeClient, NodeCreator
<1>3. CASE Create(c) /\ step'[c] = step[c] + 1
  BY <1>1, <1>3, NodeMoreCreated
<1> QED BY <1>1, <1>2, <1>3, AddingStep

\* What the other clients have of the participant.
LEMMA OtherNodeClients ==
  ASSUME BaseInv, CalmNode, ClusterInv, NodeInv, NEW c \in Clients, CallStep(c), NEW d \in Clients \ {c}
  PROVE  NodeClient(d)' /\ (NodeCreator(d)' <=> NodeCreator(d))
<1>1. pc'[d] = pc[d] /\ op'[d] = op[d] /\ step'[d] = step[d]
  BY StepOf DEF Frame, Others
<1>2. NodeClient(d)
  BY DEF NodeInv
<1>3. NodeCreator(d)' <=> NodeCreator(d)
  BY <1>1 DEF NodeCreator, Adding
<1>4. CASE ~(Create(c) /\ op[c] \in {"addNode", "join"})
  <2>1. \A p \in FamilyNodes : p \in nodes' <=> p \in nodes
    BY <1>4, NodeKept
  <2>2. op[d] \in {"addNode", "join"} => \A i \in DOMAIN Order[op[d]] : Order[op[d]][i] \in FamilyNodes
    BY NodeOrdersFamily
  <2> QED BY <1>1, <1>2, <1>3, <2>1, <2>2 DEF NodeClient, NodeCreator
<1>5. CASE Create(c) /\ op[c] \in {"addNode", "join"}
  <2>1. step[c] \in 1 .. 18 /\ pc[c] = "create"
    BY <1>5, GoesCreate, StepOf
  <2>2. ~NodeCreator(d)
    <3>1. CASE step[c] = 1
      BY <1>5, <3>1, NodeFirstCreate
    <3>2. CASE step[c] # 1
      <4>1. NodeCreator(c)
        BY <1>5, <2>1, <3>2 DEF NodeCreator, Adding
      <4> QED BY <4>1 DEF NodeInv, OneNodeCreator
    <3> QED BY <3>1, <3>2
  <2> QED BY <1>3, <2>2 DEF NodeClient
<1> QED BY <1>3, <1>4, <1>5

\* While all is calm each step of a call keeps it so: the one that creates the
\* nodes finds each still missing and the one it is below there.
LEMMA NodeCallStep ==
  ASSUME BaseInv, CalmNode, ClusterInv, NodeInv, FirstInv, NEW c \in Clients, CallStep(c)
  PROVE  NodeInv'
<1>1. /\ ClientTypes /\ Shape(c) /\ c \in Busy /\ op'[c] = op[c] /\ crashes' = crashes
      /\ Calm /\ chain[c] = <<>>
  BY StepOf, CalmNodes, ClusterKept
<1>2. ASSUME NEW d \in Clients PROVE NodeClient(d)'
  BY <1>1, NodeClientStep, OtherNodeClients DEF NodeClient
<1>3. OneNodeCreator'
  <2> SUFFICES ASSUME NEW a \in Clients, NEW b \in Clients, NodeCreator(a)', NodeCreator(b)', a # b
               PROVE  FALSE
    BY DEF OneNodeCreator
  <2>1. ~(NodeCreator(a) /\ NodeCreator(b))
    BY DEF NodeInv, OneNodeCreator
  <2>2. PICK d \in Clients \ {c} : NodeCreator(d) /\ NodeCreator(c)' /\ ~NodeCreator(c)
    BY <2>1, OtherNodeClients
  <2>3. Create(c) /\ op[c] \in {"addNode", "join"} /\ pc[c] = "create"
    BY <1>1, <2>2, AddingStep, GoesCreate DEF NodeCreator
  <2>4. step[c] = 1
    BY <2>2, <2>3, StepOf DEF NodeCreator, Adding
  <2> QED BY <2>2, <2>3, <2>4, NodeFirstCreate
<1>4. NoneWithoutConfig' /\ NodeWhole'
  <2>1. CASE Create(c) /\ op[c] \in {"addNode", "join"}
    <3>1. /\ \A i \in DOMAIN Order[op[c]] : Order[op[c]][i] \in nodes' <=> i < step[c] + 1
          /\ "config" \in nodes' /\ pc[c] = "create" /\ step[c] \in 1 .. Len(Order[op[c]])
      BY <2>1, NodeMoreCreated
    <3>4. CASE step[c] = Len(Order[op[c]])
      <4>1. \A i \in DOMAIN Order[op[c]] : Order[op[c]][i] \in nodes'
        BY <2>1, <3>1, <3>4, NodeOrders
      <4>2. Registered'
        BY <2>1, <4>1, OrderTable DEF Registered, Elements
      <4> QED BY <3>1, <4>2 DEF NodeWhole, NoneWithoutConfig
    <3>5. CASE step[c] # Len(Order[op[c]])
      <4>1. pc'[c] \in {"create", "ensure"} /\ step'[c] = step[c] + 1
        BY <1>1, <2>1, <3>5, GoesCreate DEF StepsTo, Goes
      <4>2. step'[c] > 1
        BY <1>1, <4>1, StepOf
      <4>3. NodeCreator(c)'
        BY <1>1, <2>1, <4>1, <4>2 DEF NodeCreator, Adding
      <4> QED BY <3>1, <4>3 DEF NodeWhole, NoneWithoutConfig
    <3> QED BY <3>4, <3>5
  <2>2. CASE ~(Create(c) /\ op[c] \in {"addNode", "join"})
    <3>1. \A p \in FamilyNodes : p \in nodes' <=> p \in nodes
      BY <2>2, NodeKept
    <3>2. "config" \in FamilyNodes /\ (Registered => Registered')
      BY <3>1, FamilyNodesAre DEF Registered, Elements, AddNodeOrder, JoinOrder
    <3>3. NoneWithoutConfig'
      BY <3>1, <3>2 DEF NodeInv, NoneWithoutConfig
    <3>4. ASSUME crashes' = 0, "config" \in nodes', ~Registered'
          PROVE  \E d \in Clients : NodeCreator(d)'
      <4>1. PICK d \in Clients : NodeCreator(d)
        BY <1>1, <3>1, <3>2, <3>4 DEF NodeInv, NodeWhole
      <4>2. CASE d # c
        BY <4>1, <4>2, OtherNodeClients
      <4>3. CASE d = c
        <5>1. pc[c] \in {"ensure", "create"} /\ op[c] \in {"addNode", "join"} /\ step[c] > 1
          BY <4>1, <4>3 DEF NodeCreator, Adding
        <5>2. pc[c] = "create"
          BY <5>1 DEF FirstInv
        <5>3. CreateFails(c)
          BY <1>1, <2>2, <5>1, <5>2, GoesCheck, GoesExists, GoesAutoJoinAllowed, GoesEnsurePath,
             GoesFillPath,
             GoesRead, GoesDropConfigExists, GoesDropInstanceExists, GoesDeleteInstance, GoesTreeExists,
                GoesTreeChildren,
             GoesTreeNext, GoesTreeDelete DEF CallStep
        <5>4. Refused(Target(c))
          BY <5>2, <5>3 DEF CreateFails
        <5>5. PICK n : n = Len(Order[op[c]])
          OBVIOUS
        <5>6. /\ n \in 6 .. 7 /\ DOMAIN Order[op[c]] = 1 .. n /\ Order[op[c]][2] = "instance"
              /\ \A i \in 1 .. n : i > 2 => Order[op[c]][i] \in InstanceNodes
          BY <5>1, <5>5, NodeOrders
        <5>7. step[c] \in 1 .. n
          BY <1>1, <5>2, <5>5, <5>6, StepOf DEF Shape, Creates
        <5>8. \A i \in 1 .. n : Order[op[c]][i] \in nodes <=> i < step[c]
          BY <4>1, <4>3, <5>6 DEF NodeInv, NodeClient
        <5>9. Target(c) \notin nodes /\ Target(c) = Order[op[c]][step[c]]
          BY <5>7, <5>8 DEF Target
        <5>10. Above[Target(c)] \in nodes
          <6>1. CASE step[c] = 2
            <7>1. Above[Target(c)] = "INSTANCES"
              BY <5>6, <5>9, <6>1, AboveFamily
            <7>2. ClusterNodes \subseteq nodes
              BY <1>1, <5>1, <5>2 DEF ClusterInv, ClusterClient, Asked
            <7> QED BY <7>1, <7>2, ClusterNodesAre
          <6>2. CASE step[c] # 2
            <7>1. step[c] > 2
              BY <5>1, <5>7, <6>2
            <7>2. Target(c) \in InstanceNodes
              BY <5>6, <5>7, <5>9, <7>1
            <7>3. Above[Target(c)] = "instance"
              BY <7>2, AboveFamily, AllNodesAre, FamilyNodesAre
            <7>4. "instance" \in nodes
              <8>1. 2 \in 1 .. n /\ 2 < step[c]
                BY <5>6, <7>1
              <8> QED BY <5>6, <5>8, <8>1
            <7> QED BY <7>3, <7>4
          <6> QED BY <6>1, <6>2
        <5> QED BY <5>4, <5>9, <5>10 DEF Refused
      <4> QED BY <4>2, <4>3
    <3> QED BY <3>3, <3>4 DEF NodeWhole
  <2> QED BY <2>1, <2>2
<1> QED BY <1>2, <1>3, <1>4 DEF NodeInv

\* Calls that begin and processes that are killed change nothing about it.
LEMMA NodeCall ==
  ASSUME BaseInv, NodeInv, NEW c \in Clients, NEW o \in Ops, Call(c, o)
  PROVE  NodeInv'
<1> SUFFICES ASSUME CalmNode' PROVE NodeInv'
  BY DEF NodeInv
<1>1. CalmNode
  <2>1. Busy \subseteq Busy' /\ \A d \in Busy : op'[d] = op[d]
    BY CallOf DEF Busy
  <2>2. dropped \subseteq dropped' /\ (~raced' => ~raced) /\ crashes' = crashes
    BY CallOf
  <2> QED BY <2>1, <2>2 DEF CalmNode
<1>2. \A d \in Clients : NodeCreator(d)' <=> NodeCreator(d)
  BY CallOf DEF NodeCreator, Adding
<1>3. ASSUME NEW d \in Clients PROVE NodeClient(d)'
  <2>1. NodeClient(d)
    BY <1>1 DEF NodeInv
  <2>2. CASE d = c
    BY <2>2, CallOf DEF NodeClient, NodeCreator
  <2>3. CASE d # c
    BY <1>2, <2>1, <2>3, CallOf DEF NodeClient
  <2> QED BY <2>2, <2>3
<1> QED BY <1>1, <1>2, <1>3, CallOf DEF NodeInv, NoneWithoutConfig, OneNodeCreator, NodeWhole, Registered

\* ... and neither does a process that is killed.
LEMMA NodeCrash ==
  ASSUME BaseInv, NodeInv, NEW c \in Clients, Crash(c)
  PROVE  NodeInv'
<1> SUFFICES ASSUME CalmNode' PROVE NodeInv'
  BY DEF NodeInv
<1>1. CalmNode
  BY CrashOf DEF CalmNode
<1>2. \A d \in Clients : NodeCreator(d)' => NodeCreator(d)
  BY CrashOf DEF NodeCreator, Adding
<1>3. ASSUME NEW d \in Clients PROVE NodeClient(d)'
  <2>1. NodeClient(d)
    BY <1>1 DEF NodeInv
  <2> QED BY <1>2, <2>1, CrashOf DEF NodeClient
<1> QED BY <1>1, <1>2, <1>3, CrashOf DEF NodeInv, NoneWithoutConfig, OneNodeCreator, NodeWhole

\* Until something is dropped one call gets through, and what it has made is
\* there; so is what a call has looked for that reads it.
AddedNodeInv ==
    dropped = {} =>
        /\ \A c \in Clients : NodeCreator(c) => ended["addNode"] + ended["join"] = 0
        /\ ended["addNode"] + ended["join"] <= 1
        /\ ended["addNode"] + ended["join"] = 1 => Registered
        /\ \A c \in Clients : pc[c] = "read" /\ op[c] = "listInstanceInfo" => "config" \in nodes

\* A participant that is registered has its config, and keeps what it has.
LEMMA RegisteredHasConfig == Registered => "config" \in nodes
<1>1. "config" \in Elements(AddNodeOrder) /\ "config" \in Elements(JoinOrder)
  BY DEF Elements, AddNodeOrder, JoinOrder
<1> QED BY <1>1 DEF Registered

\* It stays registered while nothing of it goes.
LEMMA RegisteredKept ==
  ASSUME Registered, \A p \in FamilyNodes : p \in nodes => p \in nodes'
  PROVE  Registered'
<1>1. Elements(AddNodeOrder) \subseteq FamilyNodes /\ Elements(JoinOrder) \subseteq FamilyNodes
  BY FamilyNodesAre DEF Elements, AddNodeOrder, FamilyNodes
<1> QED BY <1>1 DEF Registered

\* ListInstanceInfo reads what it has just found.
LEMMA ReadsThere ==
  ASSUME BaseInv, NEW c \in Clients, CallStep(c), pc'[c] = "read", op[c] = "listInstanceInfo",
         pc[c] = "read" => "config" \in nodes
  PROVE  "config" \in nodes
<1>1. ClientTypes /\ Shape(c)
  BY StepOf
<1>2. AfterCheck(op[c]) = "exists"
  BY DEF AfterCheck
<1>3. Exists(c) \/ Read(c)
  BY <1>1, <1>2, GoesCheck, GoesAutoJoinAllowed, GoesEnsurePath, GoesFillPath, GoesCreate, GoesCreateFails,
     GoesDropConfigExists, GoesDropInstanceExists, GoesDeleteInstance, GoesTreeExists, GoesTreeChildren,
     GoesTreeNext, GoesTreeDelete DEF CallStep, StepsTo, GoesTo, Returns, Goes
<1>4. CASE Exists(c)
  BY <1>1, <1>4, GoesExists DEF Returns, Goes
<1>5. CASE Read(c)
  BY <1>1, <1>5, GoesRead
<1> QED BY <1>3, <1>4, <1>5

\* The only call that has created a participant's config is the only one to get
\* through.
LEMMA AddedNodeStep ==
  ASSUME BaseInv, ClusterInv, NodeInv, FirstInv, AddedNodeInv, NEW c \in Clients, CallStep(c)
  PROVE  AddedNodeInv'
<1> DEFINE total == ended["addNode"] + ended["join"]
<1> SUFFICES ASSUME dropped = {}
             PROVE  /\ \A d \in Clients : NodeCreator(d)' => total' = 0
                    /\ total' <= 1
                    /\ total' = 1 => Registered'
                    /\ \A d \in Clients : pc'[d] = "read"
                          /\ op'[d] = "listInstanceInfo" => "config" \in nodes'
  BY StepOf DEF AddedNodeInv
<1>1. CalmNode /\ Calm /\ NodeInv' /\ CalmNode' /\ total \in 0 .. 1 /\ chain[c] = <<>>
  <2>1. CalmNode /\ CalmNode' /\ Calm
    BY StepOf, CalmNodes DEF CalmNode
  <2>2. total \in Nat /\ total <= 1
    BY EndedStep DEF AddedNodeInv
  <2> QED BY <2>1, <2>2, NodeCallStep, ClusterKept
<1>2. \A p \in FamilyNodes : p \in nodes => p \in nodes'
  BY <1>1, NodeKept, NodeMoreCreated
<1>3. \A d \in Clients : pc'[d] = "read" /\ op'[d] = "listInstanceInfo" => "config" \in nodes'
  <2> SUFFICES ASSUME NEW d \in Clients, pc'[d] = "read",
         op'[d] = "listInstanceInfo" PROVE "config" \in nodes
    BY <1>2, FamilyNodesAre
  <2>1. CASE d # c
    BY <2>1, StepOf DEF Frame, Others, AddedNodeInv
  <2>2. CASE d = c
    BY <2>2, StepOf, ReadsThere DEF AddedNodeInv
  <2> QED BY <2>1, <2>2
<1>4. CASE Create(c) /\ op[c] \in {"addNode", "join"}
  <2>1. /\ \A i \in DOMAIN Order[op[c]] : Order[op[c]][i] \in nodes' <=> i < step[c] + 1
        /\ pc[c] = "create" /\ step[c] \in 1 .. Len(Order[op[c]])
    BY <1>1, <1>4, NodeMoreCreated
  <2>2. total = 0
    <3>1. CASE step[c] = 1
      <4>1. ~Registered
        BY <1>1, <1>4, <3>1, NodeFirstCreate, RegisteredHasConfig
      <4> QED BY <1>1, <4>1 DEF AddedNodeInv
    <3>2. CASE step[c] # 1
      <4>1. NodeCreator(c)
        BY <1>4, <2>1, <3>2, StepOf DEF NodeCreator, Adding
      <4> QED BY <4>1 DEF AddedNodeInv
    <3> QED BY <3>1, <3>2
  <2>3. CASE UNCHANGED ended
    BY <1>3, <2>2, <2>3
  <2>4. CASE /\ step[c] = Len(Order[op[c]]) /\ ended'[op[c]] = ended[op[c]] + 1
             /\ \A o \in {"addCluster", "addNode", "join"} \ {op[c]} : ended'[o] = ended[o]
    <3>1. total' = 1
      <4>1. ended["addNode"] \in Nat /\ ended["join"] \in Nat
        BY EndedStep
      <4>2. CASE op[c] = "addNode"
        BY <2>2, <2>4, <4>1, <4>2
      <4>3. CASE op[c] = "join"
        BY <2>2, <2>4, <4>1, <4>3
      <4> QED BY <1>4, <4>2, <4>3
    <3>2. \A i \in DOMAIN Order[op[c]] : Order[op[c]][i] \in nodes'
      BY <1>4, <2>1, <2>4, NodeOrders
    <3>3. Registered'
      BY <1>4, <3>2, OrderTable DEF Registered, Elements
    <3>4. ASSUME NEW d \in Clients, NodeCreator(d)' PROVE FALSE
      <4>1. CASE d = c
        <5>1. pc'[c] = "idle"
          BY <1>4, <2>4, StepOf, GoesCreate DEF Returns, Goes
        <5> QED BY <3>4, <4>1, <5>1 DEF NodeCreator, Adding
      <4>2. CASE d # c
        <5>1. NodeCreator(d)
          BY <1>1, <3>4, <4>2, OtherNodeClients
        <5>2. CASE step[c] = 1
          BY <1>1, <1>4, <5>1, <5>2, NodeFirstCreate
        <5>3. CASE step[c] # 1
          <6>1. NodeCreator(c)
            BY <1>4, <2>1, <5>3, StepOf DEF NodeCreator, Adding
          <6> QED BY <1>1, <4>2, <5>1, <6>1 DEF NodeInv, OneNodeCreator
        <5> QED BY <5>2, <5>3
      <4> QED BY <4>1, <4>2
    <3> QED BY <1>3, <3>1, <3>3, <3>4
  <2> QED BY <1>4, <2>3, <2>4, EndedStep
<1>5. CASE ~(Create(c) /\ op[c] \in {"addNode", "join"})
  <2>1. total' = total
    BY <1>5, EndedStep
  <2>2. ASSUME NEW d \in Clients, NodeCreator(d)' PROVE NodeCreator(d)
    <3>1. CASE d # c
      BY <1>1, <2>2, <3>1, OtherNodeClients
    <3>2. CASE d = c
      BY <1>1, <1>5, <2>2, <3>2, AddingStep, StepOf DEF NodeCreator
    <3> QED BY <3>1, <3>2
  <2> QED BY <1>2, <1>3, <2>1, <2>2, RegisteredKept DEF AddedNodeInv
<1> QED BY <1>4, <1>5

\* Calls that begin and processes that are killed leave that as it is.
LEMMA AddedNodeOthers ==
  ASSUME BaseInv, AddedNodeInv, NEW c \in Clients, (\E o \in Ops : Call(c, o)) \/ Crash(c)
  PROVE  AddedNodeInv'
<1>1. CASE \E o \in Ops : Call(c, o)
  <2>1. \A d \in Clients : NodeCreator(d)' => NodeCreator(d)
    BY <1>1, CallOf DEF NodeCreator, Adding
  <2>2. \A d \in Clients : pc'[d] = "read" /\ op'[d] = "listInstanceInfo" => pc[d] = "read"
           /\ op[d] = "listInstanceInfo"
    BY <1>1, CallOf
  <2> QED BY <1>1, <2>1, <2>2, CallOf DEF AddedNodeInv, Registered
<1>2. CASE Crash(c)
  <2>1. \A d \in Clients : NodeCreator(d)' => NodeCreator(d)
    BY <1>2, CrashOf DEF NodeCreator, Adding
  <2>2. \A d \in Clients : pc'[d] = "read" => pc[d] = "read"
    BY <1>2, CrashOf
  <2> QED BY <1>2, <2>1, <2>2, CrashOf DEF AddedNodeInv, Registered
<1> QED BY <1>1, <1>2

-----------------------------------------------------------------------------
(* Dropping, with no other call under way and none killed.                 *)

\* Nothing was called beside a call that drops something, and nobody was killed.
Lone == ~raced /\ crashes = 0

\* A participant is there with all of its nodes or with none.
Whole == IF "config" \in nodes THEN Registered ELSE nodes \cap FamilyNodes = {}

\* DropNode has the config first and then the instance: of what is below it
\* all is still to do.
DroppingNode(c) ==
    /\ path[c] = "config" => Whole /\ pc[c] # "rmNext" /\ todo[c] = {}
    /\ path[c] # "config" => "config" \notin nodes
    /\ path[c] = "instance" =>
           /\ pc[c] \in {"rmExists", "rmChildren"} => todo[c] = {}
           /\ pc[c] = "rmNext" => nodes \cap InstanceNodes \subseteq todo[c] /\ todo[c] \subseteq nodes
           /\ pc[c] = "rmDelete" => nodes \cap InstanceNodes = {}
    /\ path[c] \in InstanceNodes =>
           /\ pc[c] # "rmNext" /\ path[c] \in nodes \ todo[c] /\ todo[c] \subseteq nodes
           /\ nodes \cap InstanceNodes \subseteq todo[c] \cup {path[c]}
DropNodeInv ==
    Lone => \A c \in Busy : op[c] \in {"dropNode", "dropInstance"} => Busy = {c} /\ DroppingNode(c)

\* DropCluster has what it has listed and not been at, and the line from the
\* root to where it is; nothing else is below the nodes it has listed.
Expanded(c) == IF pc[c] \in {"rmNext", "rmDelete"} THEN Line(path[c]) ELSE Line(path[c]) \ {path[c]}
DroppingCluster(c) ==
    \/ pc[c] = "rmExists" /\ path[c] = "cluster" /\ todo[c] = {}
    \/ /\ path[c] \in nodes /\ todo[c] \subseteq nodes
       /\ todo[c] \cap Line(path[c]) = {}
       /\ \A q \in nodes : Above[q] \in Expanded(c) => q \in todo[c] \cup Line(path[c])
       /\ \A q \in todo[c] : Above[q] \in Expanded(c) /\ (pc[c] = "rmDelete" => Above[q] # path[c])
DropClusterInv ==
    Lone => \A c \in Busy : op[c] = "dropCluster" => Busy = {c} /\ DroppingCluster(c)

\* Without its first node there is nothing of a cluster.
LEMMA NothingBelow ==
  ASSUME BaseInv, "cluster" \notin nodes
  PROVE  nodes = {}
<1>1. nodes \subseteq AllNodes /\ (\A p \in nodes : Above[p] \in nodes \cup {Root}) /\ Root \notin AllNodes
  BY RootOutside DEF BaseInv, TreeInv
<1>2. Root \notin {"cluster"} \cup Second \cup Third \cup Fourth
  BY <1>1, Levels
<1>3. ASSUME NEW p \in Second, p \in nodes PROVE FALSE
  <2>1. Above[p] = "cluster" /\ Above[p] \in nodes \cup {Root}
    BY <1>1, <1>3, Levels
  <2> QED BY <1>2, <2>1
<1>4. ASSUME NEW p \in Third, p \in nodes PROVE FALSE
  <2>1. Above[p] \in Second /\ Above[p] \in nodes \cup {Root}
    BY <1>1, <1>4, Levels
  <2> QED BY <1>2, <1>3, <2>1
<1>5. ASSUME NEW p \in Fourth, p \in nodes PROVE FALSE
  <2>1. Above[p] \in Third /\ Above[p] \in nodes \cup {Root}
    BY <1>1, <1>5, Levels
  <2> QED BY <1>2, <1>4, <2>1
<1> QED BY <1>1, <1>3, <1>4, <1>5, Levels

\* A node is on its line, and its children are not.
LEMMA LineOf ==
  ASSUME NEW p \in AllNodes
  PROVE  /\ p \in Line(p)
         /\ p # "cluster" => /\ Above[p] \in AllNodes /\ Above[p] # p /\ p \notin Line(Above[p])
                             /\ Line(p) = {p} \cup Line(Above[p])
         /\ \A q \in AllNodes : Above[q] = p => q \notin Line(p) /\ Line(q) = {q} \cup Line(p)
<1>1. p \in Line(p)
  BY RootOutside DEF Line
<1>2. ASSUME p # "cluster" PROVE Above[p] \in AllNodes /\ p \notin Line(Above[p])
                /\ Line(p) = {p} \cup Line(Above[p])
  BY <1>2, AboveType, Lines
<1>3. ASSUME p # "cluster", Above[p] = p PROVE FALSE
  BY <1>1, <1>2, <1>3
<1>4. ASSUME NEW q \in AllNodes, Above[q] = p PROVE q \notin Line(p) /\ Line(q) = {q} \cup Line(p)
  <2>1. q # "cluster"
    BY <1>4, AboveType, RootOutside
  <2> QED BY <1>4, <2>1, Lines
<1> QED BY <1>1, <1>2, <1>3, <1>4

\* Each step of a lone DropCluster keeps to that, and the last leaves nothing.
LEMMA DropClusterStep ==
  ASSUME BaseInv, NEW c \in Clients, CallStep(c), op[c] = "dropCluster", DroppingCluster(c)
  PROVE  /\ c \in Busy' => DroppingCluster(c)'
         /\ c \notin Busy' => nodes' = {}
<1>1. /\ ClientTypes /\ Shape(c) /\ c \in Busy /\ op'[c] = op[c] /\ BaseInv' /\ nodes \subseteq AllNodes
      /\ path[c] \in AllNodes /\ pc[c] \in Removes
  BY StepOf DEF ClientTypes, Shape, Drops, Busy
<1>2. c \in Busy' <=> pc'[c] \notin {"idle", "dead"}
  BY DEF Busy
<1>3. CASE TreeExists(c)
  <2>1. CASE path[c] \in nodes
    <3>1. GoesTo(c, "rmChildren") /\ nodes' = nodes /\ pc[c] = "rmExists"
      BY <1>1, <1>3, <2>1, GoesTreeExists
    <3>2. CASE path[c] = "cluster" /\ todo[c] = {}
      BY <1>2, <2>1, <3>1, <3>2, Lines DEF DroppingCluster, Expanded, GoesTo, Goes
    <3>3. CASE ~(path[c] = "cluster" /\ todo[c] = {})
      <4>1. Expanded(c)' = Expanded(c)
        BY <3>1 DEF Expanded, GoesTo, Goes
      <4> QED BY <1>2, <3>1, <3>3, <4>1 DEF DroppingCluster, GoesTo, Goes
    <3> QED BY <3>2, <3>3
  <2>2. CASE path[c] \notin nodes
    <3>1. path[c] = "cluster"
      BY <2>2 DEF DroppingCluster
    <3>2. Returns(c) /\ nodes' = nodes
      BY <1>1, <1>3, <2>2, <3>1, GoesTreeExists
    <3> QED BY <1>2, <2>2, <3>1, <3>2, NothingBelow DEF Returns, Goes
  <2> QED BY <2>1, <2>2
<1>4. CASE TreeChildren(c)
  <2>1. /\ pc[c] = "rmChildren" /\ path[c] \in nodes /\ nodes' = nodes
        /\ path'[c] = path[c] /\ todo'[c] = todo[c] \cup Children(path[c])
        /\ pc'[c] \in {"rmDelete", "rmNext"} /\ (pc'[c] = "rmDelete" => Children(path[c]) = {})
    BY <1>1, <1>4, GoesTreeChildren DEF Goes
  <2>2. Expanded(c) = Line(path[c]) \ {path[c]} /\ Expanded(c)' = Line(path[c])
    BY <2>1 DEF Expanded
  <2>3. \A q \in Children(path[c]) : q \in nodes /\ Above[q] = path[c] /\ q \notin Line(path[c])
    BY <1>1, LineOf DEF Children
  <2>4. \A q \in nodes : Above[q] = path[c] => q \in Children(path[c])
    BY DEF Children
  <2> QED BY <1>1, <1>2, <2>1, <2>2, <2>3, <2>4, LineOf DEF DroppingCluster
<1>5. CASE TreeNext(c)
  <2>1. /\ path[c] \in nodes /\ todo[c] \subseteq nodes /\ todo[c] \cap Line(path[c]) = {} /\ nodes' = nodes
        /\ Expanded(c) = Line(path[c])
        /\ \A q \in nodes : Above[q] \in Line(path[c]) => q \in todo[c] \cup Line(path[c])
        /\ \A q \in todo[c] : Above[q] \in Line(path[c])
    BY <1>1, <1>5, GoesTreeNext DEF DroppingCluster, Expanded
  <2>2. ASSUME NEW p \in NextChildren(c), Goes(c, "rmExists", step[c], chain[c], p, todo[c] \ {p})
        PROVE  DroppingCluster(c)'
    <3>1. p \in todo[c] /\ Above[p] = path[c] /\ p \in AllNodes
      BY <1>1, NextChildrenSome DEF ClientTypes
    <3>2. Line(p) = {p} \cup Line(path[c]) /\ p \notin Line(path[c])
      BY <1>1, <3>1, LineOf
    <3>3. Expanded(c)' = Line(path[c]) /\ path'[c] = p /\ todo'[c] = todo[c] \ {p} /\ pc'[c] = "rmExists"
      BY <2>2, <3>2 DEF Expanded, Goes
    <3> QED BY <2>1, <3>1, <3>2, <3>3 DEF DroppingCluster
  <2>3. CASE NextChildren(c) = {} /\ GoesTo(c, "rmDelete")
    <3>1. \A q \in todo[c] : Above[q] # path[c]
      BY <1>1, <2>3, NextChildrenSome
    <3>2. Expanded(c)' = Line(path[c])
      BY <2>3 DEF Expanded, GoesTo, Goes
    <3> QED BY <1>2, <2>1, <2>3, <3>1, <3>2 DEF DroppingCluster, GoesTo, Goes
  <2>4. (\E p \in NextChildren(c) : Goes(c, "rmExists", step[c], chain[c], p, todo[c] \ {p}))
        \/ (NextChildren(c) = {} /\ GoesTo(c, "rmDelete"))
    BY <1>1, <1>5, GoesTreeNext
  <2>5. c \in Busy'
    BY <1>2, <2>4 DEF GoesTo, Goes
  <2> QED BY <2>2, <2>3, <2>4, <2>5
<1>6. CASE TreeDelete(c)
  <2>1. /\ path[c] \in nodes /\ todo[c] \subseteq nodes /\ todo[c] \cap Line(path[c]) = {}
        /\ \A q \in nodes : Above[q] \in Line(path[c]) => q \in todo[c] \cup Line(path[c])
        /\ \A q \in todo[c] : Above[q] \in Line(path[c]) /\ Above[q] # path[c]
    BY <1>1, <1>6, GoesTreeDelete DEF DroppingCluster, Expanded
  <2>2. Children(path[c]) = {}
    <3> SUFFICES ASSUME NEW q \in nodes, Above[q] = path[c] PROVE FALSE
      BY DEF Children
    <3>1. q \notin Line(path[c]) /\ path[c] \in Line(path[c])
      BY <1>1, LineOf
    <3> QED BY <2>1, <3>1
  <2>3. nodes' = nodes \ {path[c]}
    BY <1>1, <1>6, <2>1, <2>2, GoesTreeDelete
  <2>4. CASE path[c] = "cluster"
    <3>1. Returns(c)
      BY <1>1, <1>6, <2>1, <2>2, <2>4, GoesTreeDelete
    <3>2. nodes' = {}
      <4>1. BaseInv' /\ "cluster" \notin nodes'
        BY <1>1, <2>3, <2>4
      <4>2. (BaseInv /\ "cluster" \notin nodes => nodes = {})'
        BY NothingBelow, PTL
      <4> QED BY <4>1, <4>2
    <3> QED BY <1>2, <3>1, <3>2 DEF Returns, Goes
  <2>5. CASE path[c] # "cluster"
    <3> DEFINE u == Above[path[c]]
    <3>1. Goes(c, "rmNext", step[c], chain[c], u, todo[c])
      BY <1>1, <1>6, <2>1, <2>2, <2>5, GoesTreeDelete
    <3>2. u \in AllNodes /\ u # path[c] /\ path[c] \notin Line(u) /\ Line(path[c]) = {path[c]} \cup Line(u)
      BY <1>1, <2>5, LineOf
    <3>3. u \in nodes'
      BY <1>1, <2>1, <2>3, <3>2, RootOutside DEF BaseInv, TreeInv
    <3>4. Expanded(c)' = Line(u) /\ path'[c] = u /\ todo'[c] = todo[c] /\ pc'[c] = "rmNext"
      BY <3>1 DEF Expanded, Goes
    <3> QED BY <1>2, <2>1, <2>3, <3>2, <3>3, <3>4 DEF DroppingCluster
  <2> QED BY <2>4, <2>5
<1>7. TreeExists(c) \/ TreeChildren(c) \/ TreeNext(c) \/ TreeDelete(c)
  BY <1>1, GoesCheck, GoesExists, GoesAutoJoinAllowed, GoesEnsurePath, GoesFillPath, GoesCreate,
     GoesCreateFails, GoesRead,
     GoesDropConfigExists, GoesDropInstanceExists, GoesDeleteInstance DEF CallStep, Removes
<1> QED BY <1>3, <1>4, <1>5, <1>6, <1>7

\* Which nodes of a participant have children.
LEMMA ChildrenOf ==
  ASSUME BaseInv
  PROVE  /\ Children("config") = {} /\ Children("instance") = nodes \cap InstanceNodes
         /\ \A p \in InstanceNodes : Children(p) = {}
         /\ "instance" \notin nodes => nodes \cap InstanceNodes = {}
<1>1. nodes \subseteq AllNodes
  BY DEF BaseInv
<1>2. ASSUME NEW q \in AllNodes, Above[q] \in FamilyNodes PROVE Above[q] = "instance" /\ q \in InstanceNodes
  <2>1. q \notin ClusterNodes
    BY <1>2, ClusterAbove, FamilyApart, RootOutside, AllNodesAre
  <2>2. q \in FamilyNodes
    BY <2>1, AllNodesAre
  <2>3. q # "config" /\ q # "instance"
    BY <1>2, AboveFamily, FamilyNodesAre
  <2>4. q \in InstanceNodes
    BY <2>2, <2>3, FamilyNodesAre, AboveFamily
  <2> QED BY <2>4, AboveFamily
<1>3. FamilyNodes = {"config", "instance"} \cup InstanceNodes
         /\ {"config", "instance"} \cap InstanceNodes = {}
  BY FamilyNodesAre, AboveFamily
<1>4. Children("config") = {} /\ \A p \in InstanceNodes : Children(p) = {}
  BY <1>1, <1>2, <1>3 DEF Children
<1>5. Children("instance") = nodes \cap InstanceNodes
  BY <1>1, AboveFamily DEF Children
<1>6. "instance" \notin nodes => nodes \cap InstanceNodes = {}
  <2> SUFFICES ASSUME "instance" \notin nodes, NEW q \in nodes \cap InstanceNodes PROVE FALSE
    OBVIOUS
  <2>1. Above[q] = "instance" /\ Above[q] \in nodes \cup {Root}
    BY <1>1, AboveFamily DEF BaseInv, TreeInv
  <2> QED BY <2>1, RootOutside, AllNodesAre, FamilyNodesAre
<1> QED BY <1>4, <1>5, <1>6

\* A participant that is registered has an instance with children.
LEMMA RegisteredHasInstance == Registered => "instance" \in nodes /\ nodes \cap InstanceNodes # {}
<1>1. /\ {"instance", "messages"} \subseteq Elements(AddNodeOrder)
      /\ {"instance", "messages"} \subseteq Elements(JoinOrder)
  BY DEF Elements, AddNodeOrder, JoinOrder
<1> QED BY <1>1, AboveFamily DEF Registered

\* Each step of a lone DropNode or DropInstance keeps to that, and the last leaves
\* a participant with all of its nodes or with none.
LEMMA DropNodeStep ==
  ASSUME BaseInv, NEW c \in Clients, CallStep(c), op[c] \in {"dropNode", "dropInstance"}, DroppingNode(c)
  PROVE  /\ c \in Busy' => DroppingNode(c)'
         /\ c \notin Busy' => Whole'
<1>1. /\ ClientTypes /\ Shape(c) /\ c \in Busy /\ op'[c] = op[c] /\ nodes \subseteq AllNodes
      /\ pc[c] \in Removes \cup {"dropConfig", "dropInstance", "delete"}
      /\ pc[c] \in Removes => op[c] = "dropNode"
      /\ pc[c] \notin Removes => path[c] = "config" /\ todo[c] = {}
  BY StepOf DEF Shape, Drops, Busy, Removes
<1>2. c \in Busy' <=> pc'[c] \notin {"idle", "dead"}
  BY DEF Busy
<1>3. /\ FamilyNodes = {"config", "instance"} \cup InstanceNodes
            /\ {"config", "instance"} \cap InstanceNodes = {}
      /\ "config" # "instance" /\ "cluster" \notin FamilyNodes
  BY FamilyNodesAre, AboveFamily
<1>4. CASE DropConfigExists(c) \/ DropInstanceExists(c)
  BY <1>1, <1>2, <1>3, <1>4, GoesDropConfigExists, GoesDropInstanceExists DEF GoesTo, Goes, DroppingNode,
     Whole,
     Registered, Removes
<1>5. CASE DeleteInstance(c)
  <2>1. Whole /\ pc[c] = "delete"
    BY <1>1, <1>5, GoesDeleteInstance DEF DroppingNode, Removes
  <2>2. ~("instance" \in nodes /\ Children("instance") = {})
    BY <1>3, <2>1, ChildrenOf, RegisteredHasInstance DEF Whole
  <2>3. UNCHANGED nodes /\ pc'[c] = "dead"
    BY <1>1, <1>5, <2>2, GoesDeleteInstance DEF GoesTo, Goes
  <2> QED BY <1>2, <2>1, <2>3 DEF Whole, Registered
<1>6. ASSUME pc[c] \in Removes
      PROVE  op[c] = "dropNode" /\ path[c] \in FamilyNodes /\ todo[c] \subseteq InstanceNodes
  BY <1>1, <1>6 DEF Shape, Drops, Removes
<1>7. CASE TreeExists(c)
  <2>1. pc[c] = "rmExists" /\ nodes' = nodes
    BY <1>1, <1>7, GoesTreeExists
  <2>2. CASE path[c] \in nodes
    <3>1. GoesTo(c, "rmChildren")
      BY <1>1, <1>7, <2>2, GoesTreeExists
    <3> QED BY <1>2, <2>1, <3>1 DEF GoesTo, Goes, DroppingNode, Whole, Registered
  <2>3. CASE path[c] \notin nodes /\ path[c] = "config"
    <3>1. Goes(c, "rmExists", step[c], chain[c], "instance", todo[c])
      BY <1>1, <1>3, <1>7, <2>3, GoesTreeExists
    <3> QED BY <1>2, <1>3, <2>1, <2>3, <3>1 DEF Goes, DroppingNode
  <2>4. CASE path[c] \notin nodes /\ path[c] = "instance"
    <3>1. Returns(c)
      BY <1>1, <1>3, <1>6, <1>7, <2>1, <2>4, GoesTreeExists DEF Removes
    <3>2. "config" \notin nodes /\ nodes \cap FamilyNodes = {}
      BY <1>3, <2>4, ChildrenOf DEF DroppingNode
    <3> QED BY <1>2, <2>1, <3>1, <3>2 DEF Returns, Goes, Whole
  <2>5. path[c] \in InstanceNodes => path[c] \in nodes
    BY DEF DroppingNode
  <2> QED BY <1>3, <1>6, <2>1, <2>2, <2>3, <2>4, <2>5 DEF Removes
<1>8. CASE TreeChildren(c)
  <2>1. /\ pc[c] = "rmChildren" /\ path[c] \in nodes /\ nodes' = nodes
        /\ path'[c] = path[c] /\ todo'[c] = todo[c] \cup Children(path[c])
        /\ pc'[c] = (IF Children(path[c]) = {} THEN "rmDelete" ELSE "rmNext")
    BY <1>1, <1>8, GoesTreeChildren DEF Goes
  <2>2. path[c] # "instance" => Children(path[c]) = {}
    BY <1>3, <1>6, <2>1, ChildrenOf DEF Removes
  <2>3. CASE path[c] = "instance"
    BY <1>2, <1>3, <2>1, <2>3, ChildrenOf DEF DroppingNode
  <2>4. CASE path[c] # "instance"
    BY <1>2, <2>1, <2>2, <2>4 DEF DroppingNode, Whole, Registered
  <2> QED BY <2>3, <2>4
<1>9. CASE TreeNext(c)
  <2>1. pc[c] = "rmNext" /\ nodes' = nodes
    BY <1>1, <1>9, GoesTreeNext
  <2>2. /\ path[c] = "instance" /\ "config" \notin nodes
        /\ nodes \cap InstanceNodes \subseteq todo[c] /\ todo[c] \subseteq nodes
              /\ todo[c] \subseteq InstanceNodes
    BY <1>3, <1>6, <2>1 DEF DroppingNode, Removes
  <2>3. {p \in todo[c] : Above[p] = path[c]} = todo[c]
    BY <1>1, <2>2, AboveFamily
  <2>4. ASSUME NEW p \in NextChildren(c), Goes(c, "rmExists", step[c], chain[c], p, todo[c] \ {p})
        PROVE  DroppingNode(c)'
    <3>1. p \in todo[c] /\ p \in InstanceNodes /\ p \in nodes
      BY <1>1, <2>2, NextChildrenSome
    <3> QED BY <1>3, <2>1, <2>2, <2>4, <3>1 DEF Goes, DroppingNode
  <2>5. CASE NextChildren(c) = {} /\ GoesTo(c, "rmDelete")
    <3>1. todo[c] = {}
      BY <1>1, <2>3, <2>5, NextChildrenSome
    <3> QED BY <1>2, <1>3, <2>1, <2>2, <2>5, <3>1 DEF GoesTo, Goes, DroppingNode
  <2>6. \/ \E p \in NextChildren(c) : Goes(c, "rmExists", step[c], chain[c], p, todo[c] \ {p})
        \/ NextChildren(c) = {} /\ GoesTo(c, "rmDelete")
    BY <1>1, <1>9, GoesTreeNext
  <2>7. c \in Busy'
    BY <1>2, <2>6 DEF GoesTo, Goes
  <2> QED BY <2>4, <2>5, <2>6, <2>7
<1>10. CASE TreeDelete(c)
  <2>1. pc[c] = "rmDelete" /\ op[c] = "dropNode" /\ path[c] \in FamilyNodes
    BY <1>1, <1>6, <1>10, GoesTreeDelete DEF Removes
  <2>2. CASE path[c] = "config"
    <3>1. Goes(c, "rmExists", step[c], chain[c], "instance", todo[c]) /\ "config" \notin nodes'
      BY <1>1, <1>10, <2>1, <2>2, ChildrenOf, GoesTreeDelete
    <3> QED BY <1>2, <1>3, <2>2, <3>1 DEF Goes, DroppingNode
  <2>3. CASE path[c] = "instance"
    <3>1. nodes \cap InstanceNodes = {} /\ "config" \notin nodes
      BY <1>3, <2>1, <2>3 DEF DroppingNode
    <3>2. Returns(c) /\ nodes' \subseteq nodes /\ "instance" \notin nodes'
      BY <1>1, <1>10, <2>1, <2>3, <3>1, ChildrenOf, GoesTreeDelete
    <3> QED BY <1>2, <1>3, <3>1, <3>2 DEF Returns, Goes, Whole
  <2>4. CASE path[c] \in InstanceNodes
    <3>1. /\ "config" \notin nodes /\ path[c] \in nodes \ todo[c] /\ todo[c] \subseteq nodes
          /\ nodes \cap InstanceNodes \subseteq todo[c] \cup {path[c]}
          /\ path[c] # "cluster" /\ path[c] \notin {"config", "instance"}
      BY <1>3, <2>1, <2>4 DEF DroppingNode
    <3>2. nodes' = nodes \ {path[c]} /\ Goes(c, "rmNext", step[c], chain[c], Above[path[c]], todo[c])
      BY <1>1, <1>10, <2>1, <2>4, <3>1, ChildrenOf, GoesTreeDelete
    <3>3. Above[path[c]] = "instance"
      BY <2>4, AboveFamily, AllNodesAre, FamilyNodesAre
    <3> QED BY <1>2, <1>3, <3>1, <3>2, <3>3 DEF Goes, DroppingNode
  <2> QED BY <1>3, <2>1, <2>2, <2>3, <2>4
<1>11. \/ DropConfigExists(c) \/ DropInstanceExists(c) \/ DeleteInstance(c)
       \/ TreeExists(c) \/ TreeChildren(c) \/ TreeNext(c) \/ TreeDelete(c)
  BY <1>1, GoesCheck, GoesExists, GoesAutoJoinAllowed, GoesEnsurePath, GoesFillPath, GoesCreate,
     GoesCreateFails, GoesRead
     DEF CallStep, Removes
<1> QED BY <1>4, <1>5, <1>7, <1>8, <1>9, <1>10, <1>11

\* A call that drops something alone is still alone.
LEMMA AloneStep ==
  ASSUME BaseInv, NEW c \in Clients, CallStep(c), NEW d \in Clients, Busy = {d}
  PROVE  d = c /\ Busy' \subseteq {c} /\ (c \in Busy' => Busy' = {c})
<1>1. c \in Busy /\ \A e \in Clients \ {c} : e \in Busy' <=> e \in Busy
  BY StepOf
<1>2. Busy' \subseteq Clients
  BY DEF Busy
<1> QED BY <1>1, <1>2

\* Each step of a call keeps what is said of the calls that drop.
LEMMA DropCallStep ==
  ASSUME BaseInv, DropNodeInv, DropClusterInv, NEW c \in Clients, CallStep(c)
  PROVE  DropNodeInv' /\ DropClusterInv'
<1>1. c \in Busy /\ op'[c] = op[c] /\ (Lone' => Lone) /\ Busy \subseteq Clients
  BY StepOf DEF Lone, Busy
<1>2. ASSUME Lone', NEW d \in Busy', op'[d] \in Drops PROVE d = c /\ op[c] \in Drops /\ Busy = {c}
                /\ Busy' = {c}
  <2>1. d \in Busy /\ op[d] = op'[d] /\ d \in Clients
    BY <1>1, <1>2, StepOf DEF Frame, Others, Busy
  <2>2. Busy = {d}
    BY <1>1, <1>2, <2>1 DEF DropNodeInv, DropClusterInv, Drops
  <2> QED BY <1>1, <1>2, <2>1, <2>2, AloneStep
<1>3. DropNodeInv'
  <2> SUFFICES ASSUME Lone', NEW d \in Busy', op'[d] \in {"dropNode", "dropInstance"}
               PROVE  Busy' = {d} /\ DroppingNode(d)'
    BY DEF DropNodeInv
  <2>1. d = c /\ Busy' = {c} /\ Busy = {c} /\ op[c] \in {"dropNode", "dropInstance"}
    BY <1>1, <1>2 DEF Drops
  <2>2. DroppingNode(c)
    BY <1>1, <2>1 DEF DropNodeInv
  <2> QED BY <2>1, <2>2, DropNodeStep
<1>4. DropClusterInv'
  <2> SUFFICES ASSUME Lone', NEW d \in Busy', op'[d] = "dropCluster"
               PROVE  Busy' = {d} /\ DroppingCluster(d)'
    BY DEF DropClusterInv
  <2>1. d = c /\ Busy' = {c} /\ Busy = {c} /\ op[c] = "dropCluster"
    BY <1>1, <1>2 DEF Drops
  <2>2. DroppingCluster(c)
    BY <1>1, <2>1 DEF DropClusterInv
  <2> QED BY <2>1, <2>2, DropClusterStep
<1> QED BY <1>3, <1>4

\* When the last that dropped something has returned, what is left is whole.
LEMMA DropEnds ==
  ASSUME BaseInv, DropNodeInv, DropClusterInv, NEW c \in Clients, CallStep(c), Lone',
         NEW d \in Busy, op[d] \in Drops, \A e \in Busy' : op'[e] # op[d]
  PROVE  /\ Busy' = {} /\ Whole'
         /\ op[d] = "dropCluster" => nodes' = {}
<1>1. c \in Busy /\ op'[c] = op[c] /\ Lone /\ d \in Clients
  BY StepOf DEF Lone, Busy
<1>2. Busy = {d}
  BY <1>1 DEF DropNodeInv, DropClusterInv, Drops
<1>3. d = c /\ c \notin Busy' /\ Busy' = {}
  BY <1>1, <1>2, AloneStep
<1>4. CASE op[c] = "dropCluster"
  <2>1. nodes' = {}
    BY <1>1, <1>3, <1>4, DropClusterStep DEF DropClusterInv
  <2> QED BY <1>3, <2>1 DEF Whole
<1>5. CASE op[c] \in {"dropNode", "dropInstance"}
  BY <1>1, <1>3, <1>5, DropNodeStep DEF DropNodeInv
<1> QED BY <1>3, <1>4, <1>5 DEF Drops

\* One that begins alone finds the participant whole.
LEMMA DropBegins ==
  ASSUME BaseInv, NodeInv, DropNodeInv, DropClusterInv, NEW c \in Clients, NEW o \in Ops, Call(c, o)
  PROVE  DropNodeInv' /\ DropClusterInv'
<1>1. ASSUME Lone', NEW d \in Busy', op'[d] \in Drops PROVE d = c /\ Busy = {} /\ Busy' = {c}
                /\ o \in Drops /\ Lone
  <2>1. Lone /\ (Busy = {} \/ (o \notin Drops /\ \A e \in Busy : op[e] \notin Drops))
    BY <1>1, CallOf DEF Lone
  <2>2. CASE d = c
    BY <1>1, <2>1, <2>2, CallOf
  <2>3. CASE d # c
    <3>1. d \in Busy /\ op[d] = op'[d]
      BY <1>1, <2>3, CallOf DEF Busy
    <3> QED BY <1>1, <2>1, <3>1
  <2> QED BY <2>2, <2>3
<1>2. DropNodeInv'
  <2> SUFFICES ASSUME Lone', NEW d \in Busy', op'[d] \in {"dropNode", "dropInstance"}
               PROVE  Busy' = {d} /\ DroppingNode(d)'
    BY DEF DropNodeInv
  <2>1. d = c /\ Busy = {} /\ Busy' = {c} /\ o \in {"dropNode", "dropInstance"} /\ Lone
    BY <1>1, CallOf DEF Drops
  <2>2. CalmNode /\ \A e \in Clients : ~NodeCreator(e)
    BY <2>1 DEF CalmNode, Lone, NodeCreator, Adding, Busy
  <2>3. Whole
    BY <2>1, <2>2 DEF Whole, NodeInv, NoneWithoutConfig, NodeWhole, Lone
  <2>4. Whole' /\ path'[c] = "config" /\ todo'[c] = {} /\ pc'[c] # "rmNext"
    BY <2>1, <2>3, CallOf DEF Whole, Registered, FirstPc
  <2>5. "config" \notin {"instance"} \cup InstanceNodes
    BY AboveFamily
  <2> QED BY <2>1, <2>4, <2>5 DEF DroppingNode
<1>3. DropClusterInv'
  <2> SUFFICES ASSUME Lone', NEW d \in Busy', op'[d] = "dropCluster"
               PROVE  Busy' = {d} /\ DroppingCluster(d)'
    BY DEF DropClusterInv
  <2>1. d = c /\ Busy' = {c} /\ o = "dropCluster"
    BY <1>1, CallOf DEF Drops
  <2> QED BY <2>1, CallOf DEF DroppingCluster, FirstPc
<1> QED BY <1>2, <1>3

\* The inductive invariant.
AdminInv ==
    /\ BaseInv /\ FirstInv
    /\ ClusterInv /\ AddedClusterInv /\ NodeInv /\ AddedNodeInv
    /\ DropNodeInv /\ DropClusterInv

\* All of it holds at first.
LEMMA AdminInit == ASSUME Init PROVE AdminInv
<1>1. BaseInv /\ Busy = {} /\ nodes \in Starts /\ \A c \in Clients : ~Asked(c) /\ ~Adding(c)
  BY BaseInit, AdminAssumption DEF Init, Busy, Asked, Adding
<1>2. FirstInv /\ DropNodeInv /\ DropClusterInv
  BY <1>1 DEF FirstInv, DropNodeInv, DropClusterInv, Init
<1>3. (ClusterNodes \subseteq nodes \/ nodes = {}) /\ (Registered \/ nodes \cap FamilyNodes = {})
  BY <1>1, FamilyApart DEF Starts, Registered
<1>4. Prefix /\ ClusterWhole
  BY <1>3, ClusterAt DEF Prefix, ClusterWhole
<1>5. ClusterInv /\ AddedClusterInv
  BY <1>1, <1>4, OrderTable DEF ClusterInv, AddedClusterInv, ClusterClient, OneClusterCreator,
     ClusterCreator, Init
<1>6. NoneWithoutConfig /\ NodeWhole
  BY <1>3, RegisteredHasConfig, FamilyNodesAre DEF NoneWithoutConfig, NodeWhole
<1>7. NodeInv /\ AddedNodeInv
  BY <1>1, <1>6, OrderTable DEF NodeInv, AddedNodeInv, NodeClient, OneNodeCreator, NodeCreator, Init
<1> QED BY <1>1, <1>2, <1>5, <1>7 DEF AdminInv

\* Every step of a call keeps all of it: what is lost while something is dropped
\* is there again when that is over.
LEMMA AdminCallStep ==
  ASSUME AdminInv, NEW c \in Clients, CallStep(c)
  PROVE  AdminInv'
<1> USE DEF AdminInv
<1>1. BaseInv' /\ FirstInv' /\ DropNodeInv' /\ DropClusterInv' /\ AddedClusterInv' /\ AddedNodeInv'
  BY StepOf, FirstStep, DropCallStep, AddedClusterStep, AddedNodeStep
<1>2. ASSUME Busy' = {} PROVE \A e \in Clients : ~Asked(e)' /\ ~Adding(e)'
  BY <1>2 DEF Busy, Asked, Adding
<1>3. ClusterInv'
  <2>1. CASE Calm
    BY <2>1, ClusterCallStep
  <2>2. CASE ~Calm /\ Calm'
    <3>1. Lone' /\ \A e \in Busy' : op'[e] # "dropCluster"
      BY <2>2, StepOf DEF Calm, Lone
    <3>2. PICK d \in Busy : op[d] = "dropCluster"
      BY <2>2, <3>1, StepOf DEF Calm, Lone
    <3>3. Busy' = {} /\ nodes' = {}
      BY <3>1, <3>2, DropEnds DEF Drops
    <3> QED BY <1>2, <3>3 DEF ClusterInv, Prefix, ClusterClient, OneClusterCreator, ClusterWhole,
                  ClusterCreator
  <2> QED BY <2>1, <2>2 DEF ClusterInv
<1>4. NodeInv'
  <2>1. CASE CalmNode
    BY <2>1, NodeCallStep
  <2>2. CASE ~CalmNode /\ CalmNode'
    <3>1. Lone' /\ \A e \in Busy' : op'[e] \notin Drops
      BY <2>2, StepOf DEF CalmNode, Lone
    <3>2. PICK d \in Busy : op[d] \in Drops
      BY <2>2, <3>1, StepOf DEF CalmNode, Lone
    <3>3. Busy' = {} /\ Whole'
      BY <3>1, <3>2, DropEnds
    <3> QED BY <1>2, <3>3 DEF NodeInv, Whole, NoneWithoutConfig, NodeClient, OneNodeCreator, NodeWhole,
                  NodeCreator
  <2> QED BY <2>1, <2>2 DEF NodeInv
<1> QED BY <1>1, <1>3, <1>4

\* So does a call that begins, and a process that is killed.
LEMMA AdminOthers ==
  ASSUME AdminInv, NEW c \in Clients, (\E o \in Ops : Call(c, o)) \/ Crash(c)
  PROVE  AdminInv'
<1> USE DEF AdminInv
<1>1. BaseInv' /\ FirstInv' /\ AddedClusterInv' /\ AddedNodeInv'
  BY BaseCall, BaseCrash, FirstOthers, AddedClusterOthers, AddedNodeOthers
<1>2. ClusterInv' /\ NodeInv'
  BY ClusterCall, ClusterCrash, NodeCall, NodeCrash
<1>3. CASE \E o \in Ops : Call(c, o)
  BY <1>1, <1>2, <1>3, DropBegins
<1>4. CASE Crash(c)
  BY <1>1, <1>2, <1>4, CrashOf DEF DropNodeInv, DropClusterInv, Lone
<1> QED BY <1>3, <1>4

\* And a step that changes nothing.
LEMMA AdminStutter ==
  ASSUME AdminInv, UNCHANGED vars
  PROVE  AdminInv'
<1> USE DEF vars
<1>1. BaseInv' /\ FirstInv'
  <2>1. ClientTypes' /\ (\A c \in Clients : Shape(c)')
    BY DEF AdminInv, BaseInv, ClientTypes, Shape
  <2>2. CountInv' /\ TreeInv'
    BY DEF AdminInv, BaseInv, CountInv, TreeInv, Busy
  <2> QED BY <2>1, <2>2 DEF AdminInv, BaseInv, FirstInv
<1>2. /\ Busy' = Busy /\ (Calm' <=> Calm) /\ (CalmNode' <=> CalmNode) /\ (Lone' <=> Lone)
      /\ \A c \in Clients : (Adding(c)' <=> Adding(c)) /\ (Asked(c)' <=> Asked(c))
  BY DEF Busy, Calm, CalmNode, Lone, Adding, Asked
<1>3. ClusterInv' /\ AddedClusterInv'
  BY <1>2 DEF AdminInv, ClusterInv, Prefix, ClusterClient, OneClusterCreator, ClusterWhole,
     ClusterCreator, AddedClusterInv
<1>4. NodeInv' /\ AddedNodeInv'
  BY <1>2 DEF AdminInv, NodeInv, NoneWithoutConfig, NodeClient, OneNodeCreator, NodeWhole, NodeCreator,
     AddedNodeInv, Registered
<1>5. DropNodeInv' /\ DropClusterInv'
  <2>1. \A c \in Clients : (DroppingNode(c)' <=> DroppingNode(c))
           /\ (DroppingCluster(c)' <=> DroppingCluster(c))
    BY DEF DroppingNode, DroppingCluster, Whole, Registered, Expanded
  <2> QED BY <1>2, <2>1 DEF AdminInv, DropNodeInv, DropClusterInv, Busy
<1> QED BY <1>1, <1>3, <1>4, <1>5 DEF AdminInv

\* What the listing calls read.
LEMMA ReadsAre ==
  ASSUME NEW o \in DOMAIN Reads, NEW n \in 1 .. 18, n <= Len(Reads[o])
  PROVE  Reads[o][n] \in {"IDEALSTATES", "INSTANCES"} \/ (o = "listInstanceInfo" /\ Reads[o][n] = "config")
<1>1. Len(<<"IDEALSTATES", "INSTANCES">>) = 2 /\ Len(<<"IDEALSTATES">>) = 1 /\ Len(<<"INSTANCES">>) = 1
      /\ Len(<<"config">>) = 1 /\ Len(<<>>) = 0
  OBVIOUS
<1>2. CASE o = "listClusterInfo"
  <2>1. Reads[o] = <<"IDEALSTATES", "INSTANCES">> /\ n \in 1 .. 2
    BY <1>1, <1>2, ReadsTable
  <2> QED BY <2>1
<1>3. CASE o = "listResources"
  <2>1. Reads[o] = <<"IDEALSTATES">> /\ n = 1
    BY <1>1, <1>3, ReadsTable
  <2> QED BY <1>3, <2>1
<1>5. CASE o = "listInstances"
  <2>1. Reads[o] = <<"INSTANCES">> /\ n = 1
    BY <1>1, <1>5, ReadsTable
  <2> QED BY <1>5, <2>1
<1>6. CASE o = "getInstances"
  <2>1. Reads[o] = <<"INSTANCES">> /\ n = 1
    BY <1>1, <1>6, ReadsTable
  <2> QED BY <1>6, <2>1
<1>7. CASE o = "listInstanceInfo"
  <2>1. Reads[o] = <<"config">> /\ n = 1
    BY <1>1, <1>7, ReadsTable
  <2> QED BY <1>7, <2>1
<1>4. CASE o = "listClusters"
  <2>1. Reads[o] = <<>>
    BY <1>4, ReadsTable
  <2> QED BY <1>1, <2>1
<1> QED BY <1>2, <1>3, <1>4, <1>5, <1>6, <1>7, ReadsTable

-----------------------------------------------------------------------------
\* The inductive invariant.
THEOREM AdminInvHolds == Spec => []AdminInv
<1>1. AdminInv /\ [Next]_vars => AdminInv'
  BY AdminCallStep, AdminOthers, AdminStutter DEF Next
<1> QED BY <1>1, AdminInit, PTL DEF Spec

\* Once IsClusterSetup has let a call go on, everything AddCluster makes is
\* there, also what IsClusterSetup does not look for and also while another
\* AddCluster is still at it, until a cluster is dropped.
THEOREM AskedIsSetUp == Spec => []SetupIsComplete
<1>1. ASSUME AdminInv PROVE SetupIsComplete
  BY <1>1 DEF AdminInv, ClusterInv, ClusterClient, Calm, Asked, SetupIsComplete
<1> QED BY <1>1, AdminInvHolds, PTL

\* Of any number of calls that create a cluster at the same time, or the nodes
\* of a participant, one at most gets through, and what it has made is there.
THEOREM OneGetsThrough == Spec => []AddedOnce
<1>1. ASSUME AdminInv PROVE AddedOnce
  BY <1>1 DEF AdminInv, AddedClusterInv, AddedNodeInv, AddedOnce
<1> QED BY <1>1, AdminInvHolds, PTL

\* Before anything is dropped no call that looks first waits for a node.
THEOREM LookingIsEnough == Spec => []WaitsOnlyAfterDrop
<1>1. ASSUME AdminInv PROVE WaitsOnlyAfterDrop
  <2> SUFFICES ASSUME NEW c \in Clients, Waits(c), dropped = {}, op[c] # "getInstances" PROVE FALSE
    BY DEF WaitsOnlyAfterDrop
  <2>1. Calm /\ ClientTypes /\ Shape(c)
    BY <1>1 DEF Calm, AdminInv, BaseInv
  <2>2. Asked(c) => ClusterNodes \subseteq nodes
    BY <1>1, <2>1 DEF AdminInv, ClusterInv, ClusterClient
  <2>3. CASE pc[c] = "read" /\ Reads[op[c]][step[c]] \notin nodes
    <3>1. op[c] \in DOMAIN Reads /\ step[c] <= Len(Reads[op[c]]) /\ step[c] \in 1 .. 18
      BY <2>1, <2>3, Lengths DEF Shape, ClientTypes
    <3>2. ClusterNodes \subseteq nodes
      BY <2>2, <2>3, <3>1, ReadsTable DEF Asked
    <3>3. op[c] = "listInstanceInfo" => "config" \in nodes
      BY <1>1, <2>3 DEF AdminInv, AddedNodeInv
    <3>4. Reads[op[c]][step[c]] \in {"IDEALSTATES", "INSTANCES"}
             \/ (op[c] = "listInstanceInfo" /\ Reads[op[c]][step[c]] = "config")
      BY <3>1, ReadsAre
    <3> QED BY <2>3, <3>2, <3>3, <3>4, ClusterNodesAre
  <2>4. CASE pc[c] = "allowed" /\ "clusterConfig" \notin nodes
    <3>1. op[c] = "join"
      BY <2>1, <2>4 DEF Shape
    <3> QED BY <2>2, <2>4, <3>1, ClusterNodesAre DEF Asked
  <2>5. CASE pc[c] = "rmChildren"
    BY <2>1, <2>5 DEF Shape, Removes, Drops
  <2> QED BY <2>3, <2>4, <2>5 DEF Waits
<1> QED BY <1>1, AdminInvHolds, PTL

\* Whatever was called, and whichever calls have panicked on the way, when all
\* calls are over a cluster and a participant in it are there with all of their
\* nodes or not at all, if nobody was killed and nothing dropped beside another.
THEOREM NothingHalfMade == Spec => []Settled
<1>1. ASSUME AdminInv PROVE Settled
  <2> SUFFICES ASSUME Busy = {}, ~raced, crashes = 0
               PROVE  /\ "cluster" \in nodes => ClusterNodes \subseteq nodes
                      /\ "config" \in nodes => Registered
                      /\ "instance" \in nodes => "config" \in nodes
    BY DEF Settled
  <2>1. Calm /\ CalmNode /\ \A c \in Clients : ~Adding(c)
    BY DEF Calm, CalmNode, Busy, Adding
  <2>2. ClusterWhole /\ NodeWhole /\ NoneWithoutConfig
    BY <1>1, <2>1 DEF AdminInv, ClusterInv, NodeInv
  <2> QED BY <2>1, <2>2, FamilyApart DEF ClusterWhole, NodeWhole, NoneWithoutConfig, ClusterCreator,
                NodeCreator
<1> QED BY <1>1, AdminInvHolds, PTL
=============================================================================
