------------------------- MODULE ClusterAdminSteps --------------------------
(***************************************************************************)
(* What the proofs about the administration of a cluster rest on: the      *)
(* tables of nodes and the tree they make, where each action takes its     *)
(* client and what it does to the nodes, and what holds of every call by   *)
(* itself, the types among it.                                             *)
(***************************************************************************)
EXTENDS ClusterAdmin, FiniteSetTheorems, TLAPS

\* The nodes of a participant.
FamilyNodes == Elements(JoinOrder)

\* What the tables of the operations hold.
LEMMA OrderTable ==
  /\ DOMAIN Order = {"addCluster", "addNode", "join"}
  /\ Order["addCluster"] = ClusterOrder /\ Order["addNode"] = AddNodeOrder /\ Order["join"] = JoinOrder
BY DEF Order

\* What the listing operations look for and read.
LEMMA ReadsTable ==
  /\ DOMAIN Reads = {"listClusterInfo", "listResources", "listInstances", "listInstanceInfo",
                      "getInstances", "listClusters"}
  /\ Reads["listClusterInfo"] = <<"IDEALSTATES", "INSTANCES">> /\ Reads["listResources"] = <<"IDEALSTATES">>
  /\ Reads["listInstances"] = <<"INSTANCES">> /\ Reads["listInstanceInfo"] = <<"config">>
  /\ Reads["getInstances"] = <<"INSTANCES">> /\ Reads["listClusters"] = <<>>
BY DEF Reads

\* How long the lists are, where AddCluster's ends, and that it names no node twice.
LEMMA Lengths == /\ Len(ClusterOrder) = 18 /\ DOMAIN ClusterOrder = 1 .. 18
              /\ Len(CheckOrder) = 13 /\ DOMAIN CheckOrder = 1 .. 13
              /\ Len(AddNodeOrder) = 6 /\ DOMAIN AddNodeOrder = 1 .. 6
              /\ Len(JoinOrder) = 7 /\ DOMAIN JoinOrder = 1 .. 7
BY DEF ClusterOrder, CheckOrder, AddNodeOrder, JoinOrder

\* AddCluster's first node and its last.
LEMMA ClusterEnds == /\ ClusterOrder[1] = "cluster" /\ ClusterOrder[18] = "CONTROLLER/STATUSUPDATES"
BY DEF ClusterOrder

\* It creates none twice.
LEMMA ClusterDistinct == \A i, j \in 1 .. 18 : ClusterOrder[i] = ClusterOrder[j] => i = j
BY DEF ClusterOrder

\* The nodes of a cluster, one by one.
LEMMA ClusterNodesAre ==
  ClusterNodes = {"cluster", "PROPERTYSTORE", "STATEMODELDEFS", "stateModels", "INSTANCES",
      "CONFIGS", "CONFIGS/PARTICIPANT", "CONFIGS/RESOURCE", "CONFIGS/CLUSTER",
      "clusterConfig", "IDEALSTATES", "EXTERNALVIEW", "LIVEINSTANCES",
      "CONTROLLER", "CONTROLLER/ERRORS", "CONTROLLER/HISTORY",
      "CONTROLLER/MESSAGES", "CONTROLLER/STATUSUPDATES"}
BY DEF ClusterNodes, Elements, ClusterOrder

\* A participant's nodes.
LEMMA FamilyNodesAre == FamilyNodes = {"config", "instance", "currentstates", "errors", "health", "messages",
      "statusupdates"}
BY DEF FamilyNodes, Elements, JoinOrder

\* Those two families are all there are.
LEMMA AllNodesAre == AllNodes = ClusterNodes \cup FamilyNodes
BY DEF AllNodes, FamilyNodes

\* The tree: only the cluster's own node is below the root; a participant's nodes
\* are below its instance, which is below the cluster's INSTANCES.
LEMMA AboveType ==
  /\ Above \in [AllNodes -> AllNodes \cup {Root}]
  /\ Above["cluster"] = Root
  /\ \A p \in AllNodes \ {"cluster"} : Above[p] \in AllNodes
BY ClusterNodesAre, FamilyNodesAre, AllNodesAre DEF Above, InstanceNodes, Root, FamilyNodes

\* A participant's config is below the cluster's, its instance below INSTANCES,
\* the rest below the instance.
LEMMA AboveFamily ==
  /\ Above["config"] = "CONFIGS/PARTICIPANT" /\ Above["instance"] = "INSTANCES"
  /\ InstanceNodes = {"currentstates", "errors", "health", "messages", "statusupdates"}
  /\ \A p \in AllNodes : p \in InstanceNodes <=> Above[p] = "instance"
BY ClusterNodesAre, FamilyNodesAre, AllNodesAre DEF Above, InstanceNodes, Root, FamilyNodes

\* AddCluster creates a node after the one it is below.
LEMMA OrderParents == \A i \in 1 .. 18 : Above[ClusterOrder[i]] = Root
         \/ \E j \in 1 .. (i - 1) : Above[ClusterOrder[i]] = ClusterOrder[j]
BY ClusterNodesAre, FamilyNodesAre, AllNodesAre DEF Above, ClusterOrder, InstanceNodes, Root, FamilyNodes

\* The line of a node: the node, the one it is below, and so on to the cluster's own.
Up(p) == IF p \in AllNodes THEN Above[p] ELSE Root
Line(p) == {p, Up(p), Up(Up(p)), Up(Up(Up(p)))} \ {Root}

\* The root is no node of the tree.
LEMMA RootOutside == Root \notin AllNodes
BY ClusterNodesAre, FamilyNodesAre, AllNodesAre DEF Root, FamilyNodes, InstanceNodes

\* The levels of the tree.
Second == {"PROPERTYSTORE", "STATEMODELDEFS", "INSTANCES", "CONFIGS", "IDEALSTATES", "EXTERNALVIEW",
           "LIVEINSTANCES", "CONTROLLER"}
Third == {"stateModels", "CONFIGS/PARTICIPANT", "CONFIGS/RESOURCE", "CONFIGS/CLUSTER", "CONTROLLER/ERRORS",
          "CONTROLLER/HISTORY", "CONTROLLER/MESSAGES", "CONTROLLER/STATUSUPDATES", "instance"}
Fourth == {"clusterConfig", "config"} \cup InstanceNodes

\* The tree has four levels.
LEMMA Levels ==
  /\ AllNodes = {"cluster"} \cup Second \cup Third \cup Fourth
  /\ \A p \in Second : Above[p] = "cluster"
  /\ \A p \in Third : Above[p] \in Second
  /\ \A p \in Fourth : Above[p] \in Third
  /\ "cluster" \notin Second \cup Third \cup Fourth
  /\ Second \cap (Third \cup Fourth) = {} /\ Third \cap Fourth = {}
<1>1. AllNodes = {"cluster"} \cup Second \cup Third \cup Fourth
  BY ClusterNodesAre, FamilyNodesAre, AllNodesAre DEF Second, Third, Fourth, InstanceNodes, FamilyNodes
<1>2. \A p \in Second : Above[p] = "cluster"
  BY ClusterNodesAre, FamilyNodesAre, AllNodesAre DEF Second, Above, InstanceNodes, FamilyNodes
<1>3. \A p \in Third : Above[p] \in Second
  BY ClusterNodesAre, FamilyNodesAre, AllNodesAre DEF Second, Third, Above, InstanceNodes, FamilyNodes
<1>4. \A p \in Fourth : Above[p] \in Third
  BY ClusterNodesAre, FamilyNodesAre, AllNodesAre DEF Fourth, Third, Above, InstanceNodes, FamilyNodes
<1>5. /\ "cluster" \notin Second \cup Third \cup Fourth
      /\ Second \cap (Third \cup Fourth) = {} /\ Third \cap Fourth = {}
  BY ClusterNodesAre, FamilyNodesAre, AllNodesAre DEF Second, Third, Fourth, InstanceNodes, FamilyNodes
<1> QED BY <1>1, <1>2, <1>3, <1>4, <1>5

\* The line of a node is the node and the line of the one it is below.
LEMMA Lines ==
  /\ Line("cluster") = {"cluster"}
  /\ \A p \in AllNodes \ {"cluster"} : Line(p) = {p} \cup Line(Above[p]) /\ p \notin Line(Above[p])
<1>1. Up("cluster") = Root /\ Up(Root) = Root /\ "cluster" # Root
  BY AboveType, RootOutside, Levels DEF Up
<1>2. Line("cluster") = {"cluster"}
  BY <1>1 DEF Line
<1>3. ASSUME NEW p \in Second PROVE Line(p) = {p} \cup Line(Above[p]) /\ p \notin Line(Above[p])
  <2>1. Up(p) = "cluster" /\ Above[p] = "cluster" /\ p # Root
    BY <1>3, Levels, RootOutside DEF Up
  <2> QED BY <1>1, <1>2, <2>1, Levels DEF Line
<1>4. ASSUME NEW p \in Third PROVE Line(p) = {p} \cup Line(Above[p]) /\ p \notin Line(Above[p])
  <2>1. Up(p) = Above[p] /\ Above[p] \in Second /\ p # Root
    BY <1>4, Levels, RootOutside DEF Up
  <2>2. Up(Above[p]) = "cluster" /\ Above[p] # Root
    BY <2>1, Levels, RootOutside DEF Up
  <2> QED BY <1>1, <2>1, <2>2, Levels DEF Line
<1>5. ASSUME NEW p \in Fourth PROVE Line(p) = {p} \cup Line(Above[p]) /\ p \notin Line(Above[p])
  <2>1. Up(p) = Above[p] /\ Above[p] \in Third /\ p # Root
    BY <1>5, Levels, RootOutside DEF Up
  <2>2. Up(Above[p]) = Above[Above[p]] /\ Above[Above[p]] \in Second /\ Above[p] # Root
    BY <2>1, Levels, RootOutside DEF Up
  <2>3. Up(Above[Above[p]]) = "cluster" /\ Above[Above[p]] # Root
    BY <2>2, Levels, RootOutside DEF Up
  <2> QED BY <1>1, <2>1, <2>2, <2>3, Levels DEF Line
<1> QED BY <1>2, <1>3, <1>4, <1>5, Levels

\* The lists of the creating operations are as long as that, and of the tree.
LEMMA OrderLens ==
  \A o \in DOMAIN Order :
      /\ Len(Order[o]) \in 6 .. 18 /\ DOMAIN Order[o] = 1 .. Len(Order[o])
      /\ \A i \in 1 .. Len(Order[o]) : Order[o][i] \in AllNodes
      /\ o \in Ops
<1>1. \A i \in 1 .. 18 : ClusterOrder[i] \in AllNodes
  BY Lengths, AllNodesAre DEF ClusterNodes, Elements
<1>2. \A i \in 1 .. 7 : JoinOrder[i] \in AllNodes
  BY Lengths, AllNodesAre DEF FamilyNodes, Elements
<1>3. \A i \in 1 .. 6 : AddNodeOrder[i] \in AllNodes
  BY AllNodesAre, FamilyNodesAre DEF AddNodeOrder
<1>4. Order["addCluster"] = ClusterOrder /\ Order["addNode"] = AddNodeOrder /\ Order["join"] = JoinOrder
  BY OrderTable
<1>5. ASSUME NEW o \in DOMAIN Order
      PROVE  /\ Len(Order[o]) \in 6 .. 18 /\ DOMAIN Order[o] = 1 .. Len(Order[o])
             /\ \A i \in 1 .. Len(Order[o]) : Order[o][i] \in AllNodes
  <2>1. CASE o = "addCluster"
    <3>1. Order[o] = ClusterOrder
      BY <2>1, <1>4
    <3> QED BY <3>1, <1>1, Lengths
  <2>2. CASE o = "addNode"
    <3>1. Order[o] = AddNodeOrder
      BY <2>2, <1>4
    <3> QED BY <3>1, <1>3, Lengths
  <2>3. CASE o = "join"
    <3>1. Order[o] = JoinOrder
      BY <2>3, <1>4
    <3> QED BY <3>1, <1>2, Lengths
  <2> QED BY <2>1, <2>2, <2>3, OrderTable
<1>6. DOMAIN Order \subseteq Ops
  BY DEF Ops
<1> QED BY <1>5, <1>6

\* The lists of the listing operations have two nodes at most.
LEMMA ReadsLens ==
  \A o \in DOMAIN Reads :
      /\ Len(Reads[o]) \in 0 .. 2 /\ (Len(Reads[o]) = 0 => o = "listClusters")
<1>1. Len(<<"IDEALSTATES", "INSTANCES">>) = 2 /\ Len(<<"IDEALSTATES">>) = 1 /\ Len(<<"INSTANCES">>) = 1
      /\ Len(<<"config">>) = 1 /\ Len(<<>>) = 0
  OBVIOUS
<1>2. SUFFICES ASSUME NEW o \in DOMAIN Reads
      PROVE  Len(Reads[o]) \in 0 .. 2 /\ (Len(Reads[o]) = 0 => o = "listClusters")
  OBVIOUS
<1>3. CASE o = "listClusterInfo"
  BY <1>1, <1>3, ReadsTable
<1>4. CASE o = "listResources"
  BY <1>1, <1>4, ReadsTable
<1>5. CASE o = "listInstances"
  BY <1>1, <1>5, ReadsTable
<1>8. CASE o = "getInstances"
  BY <1>1, <1>8, ReadsTable
<1>6. CASE o = "listInstanceInfo"
  BY <1>1, <1>6, ReadsTable
<1>7. CASE o = "listClusters"
  BY <1>1, <1>7, ReadsTable
<1> QED BY <1>3, <1>4, <1>5, <1>6, <1>7, <1>8, ReadsTable

\* InOrder finds one of the nodes of a set, unless there is none.
LEMMA InOrderSome ==
  ASSUME NEW S \in SUBSET AllNodes, S # {}
  PROVE  InOrder(S) # {} /\ InOrder(S) \subseteq S
<1> DEFINE all == ClusterOrder \o JoinOrder
<1>1. Len(all) = 25 /\ DOMAIN all = 1 .. 25 /\ AllNodes = {all[i] : i \in 1 .. 25}
  BY Lengths, AllNodesAre DEF ClusterNodes, FamilyNodes, Elements, ClusterOrder, JoinOrder
<1> HIDE DEF all
<1>2. InOrder(S) = {all[i] : i \in
                {i \in DOMAIN all : all[i] \in S /\ \A j \in DOMAIN all : j < i => all[j] \notin S}}
  BY DEF InOrder, all
<1>3. SUFFICES ASSUME InOrder(S) = {} PROVE FALSE
  BY <1>2
<1>4. \A i \in 1 .. 25 : all[i] \in S => \E j \in 1 .. 25 : j < i /\ all[j] \in S
  <2> SUFFICES ASSUME NEW i \in 1 .. 25, all[i] \in S, \A j \in 1 .. 25 : j < i => all[j] \notin S
               PROVE  FALSE
    OBVIOUS
  <2>1. all[i] \in InOrder(S)
    BY <1>1, <1>2
  <2> QED BY <1>3, <2>1
<1> DEFINE Out(k) == \A j \in 1 .. 25 : j <= k => all[j] \notin S
<1>5. \A k \in 0 .. 24 : Out(k) => Out(k + 1)
  BY <1>4
<1>6. Out(0)
  OBVIOUS
<1> HIDE DEF Out
<1>7. Out(8)
  BY <1>5, <1>6
<1>8. Out(16)
  BY <1>5, <1>7
<1>9. Out(25)
  BY <1>5, <1>8
<1> QED BY <1>1, <1>9 DEF Out

-----------------------------------------------------------------------------
\* Where calls that create and calls that remove are.
Creates == {"ensure", "fill", "create"}
Removes == {"rmExists", "rmChildren", "rmNext", "rmDelete"}

\* What a call is where: the list it goes through is its operation's, and only
\* calls that remove have children to do.
Shape(c) ==
    /\ pc[c] = "idle" => step[c] = 1 /\ path[c] = "config" /\ todo[c] = {}
    /\ pc[c] = "check" => step[c] <= 13 /\ op[c] \notin Drops \cup {"addCluster", "getInstances"}
    /\ pc[c] = "exists" => step[c] = 1 /\ op[c] \in DOMAIN Order \cup {"listInstanceInfo"}
    /\ pc[c] = "allowed" => step[c] \in 1 .. 2 /\ op[c] = "join"
    /\ pc[c] \in Creates => op[c] \in DOMAIN Order /\ step[c] <= Len(Order[op[c]])
    /\ pc[c] = "fill" => chain[c] # <<>>
    /\ pc[c] \notin {"ensure", "fill", "dead"} => chain[c] = <<>>
    /\ pc[c] = "read" => op[c] \in DOMAIN Reads /\ step[c] <= Len(Reads[op[c]])
    /\ pc[c] \in {"dropConfig", "dropInstance"} => op[c] = "dropNode"
    /\ pc[c] = "delete" => op[c] = "dropInstance"
    /\ pc[c] \in Removes => op[c] \in {"dropCluster", "dropNode"}
    /\ pc[c] \notin {"idle", "dead"} /\ op[c] \in Drops =>
          /\ pc[c] \in Removes \cup {"dropConfig", "dropInstance", "delete"}
          /\ step[c] = 1 /\ op[c] \in dropped
          /\ op[c] = "dropNode" => path[c] \in FamilyNodes /\ todo[c] \subseteq InstanceNodes
    /\ pc[c] \notin Removes \cup {"dead"} /\ op[c] # "dropCluster" => todo[c] = {} /\ path[c] = "config"

\* The types of what the clients are at.
ClientTypes ==
    /\ pc \in [Clients -> Pcs]
    /\ op \in [Clients -> Ops]
    /\ step \in [Clients -> 1 .. Len(ClusterOrder)]
    /\ chain \in [Clients -> Seq(AllNodes)]
    /\ path \in [Clients -> AllNodes]
    /\ todo \in [Clients -> SUBSET AllNodes]

\* The other clients stay where they are.
Others(c) ==
    \A d \in Clients \ {c} :
        /\ pc'[d] = pc[d] /\ op'[d] = op[d] /\ step'[d] = step[d]
        /\ chain'[d] = chain[d] /\ path'[d] = path[d] /\ todo'[d] = todo[d]

\* ... and each of them keeps being at something.
Frame(c) ==
    /\ Others(c)
    /\ DOMAIN pc' = Clients /\ pc' = [d \in DOMAIN pc' |-> pc'[d]]
    /\ DOMAIN op' = Clients /\ op' = [d \in DOMAIN op' |-> op'[d]]
    /\ DOMAIN step' = Clients /\ step' = [d \in DOMAIN step' |-> step'[d]]
    /\ DOMAIN chain' = Clients /\ chain' = [d \in DOMAIN chain' |-> chain'[d]]
    /\ DOMAIN path' = Clients /\ path' = [d \in DOMAIN path' |-> path'[d]]
    /\ DOMAIN todo' = Clients /\ todo' = [d \in DOMAIN todo' |-> todo'[d]]

\* A step takes its client to these values; it returns; it moves on with what it
\* has; it moves on in its list.
Goes(c, p, s, h, x, t) ==
    /\ pc'[c] = p /\ op'[c] = op[c] /\ step'[c] = s /\ chain'[c] = h /\ path'[c] = x /\ todo'[c] = t
Returns(c) == Goes(c, "idle", 1, chain[c], "config", {})
GoesTo(c, p) == Goes(c, p, step[c], chain[c], path[c], todo[c])
StepsTo(c, p, s) == Goes(c, p, s, chain[c], path[c], todo[c])

USE DEF Goto, Return, callVars, countVars

\* Where each action takes its client, and what it does to the nodes.
LEMMA GoesCrash ==
  ASSUME ClientTypes, NEW c \in Clients, Crash(c)
  PROVE  /\ Frame(c) /\ pc[c] \notin {"idle", "dead"}
         /\ UNCHANGED nodes
         /\ GoesTo(c, "dead")
<1>1. Frame(c)
  BY DEF ClientTypes, Frame, Others, Crash, Busy
<1>2. QED BY <1>1 DEF ClientTypes, Goes, Returns, GoesTo, StepsTo, Crash, Busy

\* Check looks for one path and lets the call on, or not.
LEMMA GoesCheck ==
  ASSUME ClientTypes, NEW c \in Clients, Check(c)
  PROVE  /\ Frame(c) /\ pc[c] = "check"
         /\ UNCHANGED nodes
         /\ \/ CheckOrder[step[c]] \notin nodes /\ Returns(c)
            \/ CheckOrder[step[c]] \in nodes /\ step[c] < 13 /\ StepsTo(c, "check", step[c] + 1)
            \/ CheckOrder[step[c]] \in nodes /\ ~(step[c] < 13) /\ op[c] = "listClusters" /\ Returns(c)
            \/ CheckOrder[step[c]] \in nodes /\ ~(step[c] < 13) /\ op[c] # "listClusters"
                  /\ StepsTo(c, AfterCheck(op[c]), 1)
<1>1. Frame(c)
  BY DEF ClientTypes, Frame, Others, Check
<1>2. QED BY Lengths, <1>1 DEF ClientTypes, Goes, Returns, GoesTo, StepsTo, Check

\* An Exists answers, ends the call, or moves it on.
LEMMA GoesExists ==
  ASSUME ClientTypes, NEW c \in Clients, Exists(c), Shape(c)
  PROVE  /\ Frame(c) /\ pc[c] = "exists"
         /\ UNCHANGED nodes
         /\ \/ op[c] = "listInstanceInfo" /\ "config" \in nodes /\ GoesTo(c, "read")
            \/ op[c] = "listInstanceInfo" /\ Returns(c)
            \/ op[c] = "join" /\ (\E s \in {1, 2} : StepsTo(c, "allowed", s))
            \/ op[c] \in {"addCluster", "addNode"} /\ Returns(c)
            \/ op[c] = "addCluster" /\ GoesTo(c, "create")
            \/ op[c] = "addNode" /\ GoesTo(c, "ensure")
<1>1. Frame(c)
  BY DEF ClientTypes, Frame, Others, Exists, CreatePc
<1>2. pc[c] = "exists" /\ UNCHANGED nodes
  BY DEF Exists
<1>3. CreatePc(Order["addCluster"][1]) = "create" /\ CreatePc(Order["addNode"][1]) = "ensure"
  BY OrderTable DEF ClusterOrder, AddNodeOrder, CreatePc
<1>4. CASE op[c] = "listInstanceInfo"
  BY <1>1, <1>2, <1>4 DEF ClientTypes, Goes, Returns, GoesTo, Exists
<1>5. CASE op[c] = "join"
  BY <1>1, <1>2, <1>5 DEF ClientTypes, Goes, StepsTo, Exists
<1>6. CASE op[c] \in {"addCluster", "addNode"}
  <2>2. CASE Return(c)
    BY <1>1, <1>2, <1>6, <2>2 DEF ClientTypes, Goes, Returns
  <2>3. CASE Goto(c, CreatePc(Order[op[c]][1])) /\ UNCHANGED callVars
    BY <1>1, <1>2, <1>3, <1>6, <2>3 DEF ClientTypes, Goes, GoesTo
  <2>1. Return(c) \/ (Goto(c, CreatePc(Order[op[c]][1])) /\ UNCHANGED callVars)
    BY <1>6 DEF Exists
  <2> QED BY <2>1, <2>2, <2>3
<1>7. QED BY <1>4, <1>5, <1>6 DEF Exists

\* The cluster's config lets a participant join, or does not.
LEMMA GoesAutoJoinAllowed ==
  ASSUME ClientTypes, NEW c \in Clients, AutoJoinAllowed(c), Shape(c)
  PROVE  /\ Frame(c) /\ pc[c] = "allowed"
         /\ UNCHANGED nodes
         /\ \/ step[c] = 2 /\ Returns(c)
            \/ step[c] # 2 /\ GoesTo(c, "ensure")
<1>1. Frame(c)
  BY DEF ClientTypes, Frame, Others, AutoJoinAllowed
<1>2. QED BY <1>1 DEF ClientTypes, Goes, Returns, GoesTo, StepsTo, AutoJoinAllowed

\* ensurePath finds the path above, or goes up to what is missing.
LEMMA GoesEnsurePath ==
  ASSUME ClientTypes, NEW c \in Clients, EnsurePath(c), Shape(c)
  PROVE  /\ Frame(c) /\ pc[c] = "ensure"
         /\ UNCHANGED nodes
         /\ \/ Above[Deepest(c)] \in nodes \cup {Root} /\ chain[c] = <<>> /\ GoesTo(c, "create")
            \/ Above[Deepest(c)] \in nodes \cup {Root} /\ chain[c] # <<>> /\ GoesTo(c, "fill")
            \/ Above[Deepest(c)] \notin nodes \cup {Root}
                  /\ Goes(c, "ensure", step[c], Append(chain[c], Above[Deepest(c)]), path[c], todo[c])
<1>1. Frame(c)
  BY DEF ClientTypes, Frame, Others, EnsurePath
<1>2. QED BY <1>1 DEF ClientTypes, Goes, Returns, GoesTo, StepsTo, EnsurePath

\* It creates one missing path, and goes down.
LEMMA GoesFillPath ==
  ASSUME ClientTypes, NEW c \in Clients, FillPath(c), Shape(c)
  PROVE  /\ Frame(c) /\ pc[c] = "fill" /\ ~Refused(Last(chain[c]))
         /\ nodes' = nodes \cup {Last(chain[c])}
         /\ \/ Len(chain[c]) = 1 /\ Goes(c, "create", step[c], Front(chain[c]), path[c], todo[c])
            \/ Len(chain[c]) # 1 /\ Goes(c, "fill", step[c], Front(chain[c]), path[c], todo[c])
<1>1. Frame(c)
  BY DEF ClientTypes, Frame, Others, FillPath
<1>2. QED BY <1>1 DEF ClientTypes, Goes, Returns, GoesTo, StepsTo, FillPath

\* A Create adds its node and moves on, or returns after the last.
LEMMA GoesCreate ==
  ASSUME ClientTypes, NEW c \in Clients, Create(c), Shape(c)
  PROVE  /\ Frame(c) /\ pc[c] = "create" /\ ~Refused(Target(c))
         /\ nodes' = nodes \cup {Target(c)}
         /\ \/ step[c] = Len(Order[op[c]]) /\ Returns(c)
            \/ step[c] # Len(Order[op[c]]) /\ (\E p \in {"create", "ensure"} : StepsTo(c, p, step[c] + 1))
<1>1. Frame(c)
  BY DEF ClientTypes, Frame, Others, Create, CreatePc
<1>2. QED BY <1>1 DEF ClientTypes, Goes, Returns, GoesTo, StepsTo, Create, CreatePc

\* A Create that is refused kills its client.
LEMMA GoesCreateFails ==
  ASSUME ClientTypes, NEW c \in Clients, CreateFails(c)
  PROVE  /\ Frame(c) /\ pc[c] \in {"create", "fill"}
         /\ UNCHANGED nodes
         /\ GoesTo(c, "dead")
<1>1. Frame(c)
  BY DEF ClientTypes, Frame, Others, CreateFails
<1>2. QED BY <1>1 DEF ClientTypes, Goes, Returns, GoesTo, StepsTo, CreateFails

\* A Get of a node that is there moves on; of one that is not, it waits.
LEMMA GoesRead ==
  ASSUME ClientTypes, NEW c \in Clients, Read(c)
  PROVE  /\ Frame(c) /\ pc[c] = "read"
         /\ UNCHANGED nodes
         /\ \/ step[c] = Len(Reads[op[c]]) /\ Returns(c)
            \/ step[c] # Len(Reads[op[c]]) /\ StepsTo(c, "read", step[c] + 1)
<1>1. Frame(c)
  BY DEF ClientTypes, Frame, Others, Read
<1>2. QED BY <1>1 DEF ClientTypes, Goes, Returns, GoesTo, StepsTo, Read

\* DropNode looks at the config, and goes on to the instance or returns.
LEMMA GoesDropConfigExists ==
  ASSUME ClientTypes, NEW c \in Clients, DropConfigExists(c)
  PROVE  /\ Frame(c) /\ pc[c] = "dropConfig"
         /\ UNCHANGED nodes
         /\ \/ "config" \in nodes /\ GoesTo(c, "dropInstance")
            \/ "config" \notin nodes /\ GoesTo(c, "idle")
<1>1. Frame(c)
  BY DEF ClientTypes, Frame, Others, DropConfigExists
<1>2. QED BY <1>1 DEF ClientTypes, Goes, Returns, GoesTo, StepsTo, DropConfigExists

\* It looks at the instance, and goes on to delete the config or returns.
LEMMA GoesDropInstanceExists ==
  ASSUME ClientTypes, NEW c \in Clients, DropInstanceExists(c)
  PROVE  /\ Frame(c) /\ pc[c] = "dropInstance"
         /\ UNCHANGED nodes
         /\ \/ "instance" \in nodes /\ GoesTo(c, "rmExists")
            \/ "instance" \notin nodes /\ GoesTo(c, "idle")
<1>1. Frame(c)
  BY DEF ClientTypes, Frame, Others, DropInstanceExists
<1>2. QED BY <1>1 DEF ClientTypes, Goes, Returns, GoesTo, StepsTo, DropInstanceExists

\* DropInstance deletes the instance and returns, or panics.
LEMMA GoesDeleteInstance ==
  ASSUME ClientTypes, NEW c \in Clients, DeleteInstance(c)
  PROVE  /\ Frame(c) /\ pc[c] = "delete"
         /\ nodes' \in {nodes, nodes \ {"instance"}}
         /\ \/ "instance" \in nodes /\ Children("instance") = {} /\ nodes' = nodes \ {"instance"}
                  /\ Returns(c)
            \/ UNCHANGED nodes /\ GoesTo(c, "dead")
<1>1. Frame(c)
  BY DEF ClientTypes, Frame, Others, DeleteInstance
<1>2. QED BY <1>1 DEF ClientTypes, Goes, Returns, GoesTo, StepsTo, DeleteInstance

\* DeleteTree goes on at a path that is there; else its subtree is done.
LEMMA GoesTreeExists ==
  ASSUME ClientTypes, NEW c \in Clients, TreeExists(c)
  PROVE  /\ Frame(c) /\ pc[c] = "rmExists"
         /\ UNCHANGED nodes
         /\ \/ path[c] \in nodes /\ GoesTo(c, "rmChildren")
            \/ path[c] \notin nodes /\ op[c] = "dropNode" /\ path[c] = "config"
                  /\ Goes(c, "rmExists", step[c], chain[c], "instance", todo[c])
            \/ path[c] \notin nodes
                  /\ (path[c] = "cluster" \/ (op[c] = "dropNode" /\ path[c] = "instance")) /\ Returns(c)
            \/ path[c] \notin nodes /\ path[c] # "cluster"
                  /\ (op[c] = "dropNode" => path[c] \notin {"config", "instance"})
                  /\ Goes(c, "rmNext", step[c], chain[c], Above[path[c]], todo[c])
<1>1. Frame(c)
  BY DEF ClientTypes, Frame, Others, TreeExists, SubtreeGone, TreeEnds
<1>2. QED BY <1>1 DEF ClientTypes, Goes, Returns, GoesTo, StepsTo, TreeExists, SubtreeGone, TreeEnds

\* It adds the children to those it has to be at.
LEMMA GoesTreeChildren ==
  ASSUME ClientTypes, NEW c \in Clients, TreeChildren(c)
  PROVE  /\ Frame(c) /\ pc[c] = "rmChildren" /\ path[c] \in nodes
         /\ UNCHANGED nodes
         /\ \/ Children(path[c]) = {}
                  /\ Goes(c, "rmDelete", step[c], chain[c], path[c], todo[c] \cup Children(path[c]))
            \/ Children(path[c]) # {}
                  /\ Goes(c, "rmNext", step[c], chain[c], path[c], todo[c] \cup Children(path[c]))
<1>1. Frame(c)
  BY DEF ClientTypes, Frame, Others, TreeChildren
<1>2. QED BY <1>1 DEF ClientTypes, Goes, Returns, GoesTo, StepsTo, TreeChildren

\* It goes down to the next of those, or on to the Delete.
LEMMA GoesTreeNext ==
  ASSUME ClientTypes, NEW c \in Clients, TreeNext(c)
  PROVE  /\ Frame(c) /\ pc[c] = "rmNext"
         /\ UNCHANGED nodes
         /\ \/ (\E p \in NextChildren(c) : Goes(c, "rmExists", step[c], chain[c], p, todo[c] \ {p}))
            \/ NextChildren(c) = {} /\ GoesTo(c, "rmDelete")
<1>1. Frame(c)
  BY DEF ClientTypes, Frame, Others, TreeNext
<1>2. QED BY <1>1 DEF ClientTypes, Goes, Returns, GoesTo, StepsTo, TreeNext

\* Its Delete takes the node at hand and goes back up the line, or ends it all.
LEMMA GoesTreeDelete ==
  ASSUME ClientTypes, NEW c \in Clients, TreeDelete(c)
  PROVE  /\ Frame(c) /\ pc[c] = "rmDelete"
         /\ nodes' \in {nodes, nodes \ {path[c]}}
         /\ \/ path[c] \in nodes /\ Children(path[c]) = {} /\ nodes' = nodes \ {path[c]}
                  /\ op[c] = "dropNode" /\ path[c] = "config"
                  /\ Goes(c, "rmExists", step[c], chain[c], "instance", todo[c])
            \/ path[c] \in nodes /\ Children(path[c]) = {} /\ nodes' = nodes \ {path[c]}
                  /\ (path[c] = "cluster" \/ (op[c] = "dropNode" /\ path[c] = "instance")) /\ Returns(c)
            \/ path[c] \in nodes /\ Children(path[c]) = {} /\ nodes' = nodes \ {path[c]}
                  /\ path[c] # "cluster"
                  /\ (op[c] = "dropNode" => path[c] \notin {"config", "instance"})
                  /\ Goes(c, "rmNext", step[c], chain[c], Above[path[c]], todo[c])
            \/ ~(path[c] \in nodes /\ Children(path[c]) = {}) /\ UNCHANGED nodes /\ op[c] = "dropNode"
                  /\ path[c] = "config" /\ Goes(c, "rmExists", step[c], chain[c], "instance", todo[c])
            \/ ~(path[c] \in nodes /\ Children(path[c]) = {}) /\ UNCHANGED nodes
                  /\ ~(op[c] = "dropNode" /\ path[c] = "config") /\ Returns(c)
<1>1. Frame(c)
  BY DEF ClientTypes, Frame, Others, TreeDelete, SubtreeGone, TreeEnds
<1>2. QED BY <1>1 DEF ClientTypes, Goes, Returns, GoesTo, StepsTo, TreeDelete, SubtreeGone, TreeEnds

\* The child that is next is one of those listed; with some listed there is one.
LEMMA NextChildrenSome ==
  ASSUME ClientTypes, NEW c \in Clients
  PROVE  /\ NextChildren(c) \subseteq {p \in todo[c] : Above[p] = path[c]}
         /\ NextChildren(c) = {} => {p \in todo[c] : Above[p] = path[c]} = {}
<1> DEFINE left == {p \in todo[c] : Above[p] = path[c]}
<1>1. left \in SUBSET AllNodes
  BY DEF ClientTypes
<1>2. left # {} => InOrder(left) # {} /\ InOrder(left) \subseteq left
  BY <1>1, InOrderSome
<1>3. InOrder({}) = {}
  BY DEF InOrder
<1> QED BY <1>2, <1>3 DEF NextChildren

-----------------------------------------------------------------------------
\* Steps of a list that are not the last.
LEMMA LessRoom ==
  /\ \A n \in 6 .. 18 : 1 <= n
  /\ \A n \in 1 .. 18 : \A m \in 0 .. 18 : n <= m /\ n # m => n + 1 <= m /\ n + 1 \in 1 .. 18
OBVIOUS

\* A sequence without elements is the empty one.
LEMMA NoneLeft == \A s \in Seq(AllNodes) : Len(s) = 0 <=> s = <<>>
OBVIOUS

\* The nodes of the cluster are below one another only.
LEMMA ClusterAbove == \A q \in ClusterNodes : Above[q] \in ClusterNodes \cup {Root}
<1>1. SUFFICES ASSUME NEW i \in 1 .. 18 PROVE Above[ClusterOrder[i]] \in ClusterNodes \cup {Root}
  BY Lengths DEF ClusterNodes, Elements
<1>2. CASE Above[ClusterOrder[i]] = Root
  BY <1>2
<1>3. ASSUME NEW j \in 1 .. (i - 1), Above[ClusterOrder[i]] = ClusterOrder[j]
      PROVE  Above[ClusterOrder[i]] \in ClusterNodes
  <2>1. j \in DOMAIN ClusterOrder
    BY <1>3, Lengths
  <2> QED BY <1>3, <2>1 DEF ClusterNodes, Elements
<1> QED BY <1>2, <1>3, OrderParents

\* A step that leaves its client in the types leaves all in them.
LEMMA Typed ==
  ASSUME ClientTypes, NEW c \in Clients, Frame(c),
         pc'[c] \in Pcs, op'[c] \in Ops, step'[c] \in 1 .. 18, chain'[c] \in Seq(AllNodes),
         path'[c] \in AllNodes, todo'[c] \in SUBSET AllNodes
  PROVE  ClientTypes'
<1>1. pc' \in [Clients -> Pcs]
  BY DEF ClientTypes, Frame, Others
<1>2. op' \in [Clients -> Ops]
  BY DEF ClientTypes, Frame, Others
<1>3. step' \in [Clients -> 1 .. 18]
  BY Lengths DEF ClientTypes, Frame, Others
<1>4. chain' \in [Clients -> Seq(AllNodes)]
  BY DEF ClientTypes, Frame, Others
<1>5. path' \in [Clients -> AllNodes]
  BY DEF ClientTypes, Frame, Others
<1>6. todo' \in [Clients -> SUBSET AllNodes]
  BY DEF ClientTypes, Frame, Others
<1> QED BY <1>1, <1>2, <1>3, <1>4, <1>5, <1>6, Lengths DEF ClientTypes

\* What the others are at stays as it is.
LEMMA OtherShapes ==
  ASSUME NEW c \in Clients, Frame(c), dropped \subseteq dropped', NEW d \in Clients \ {c}, Shape(d)
  PROVE  Shape(d)'
<1>1. /\ pc'[d] = pc[d] /\ op'[d] = op[d] /\ step'[d] = step[d]
      /\ chain'[d] = chain[d] /\ path'[d] = path[d] /\ todo'[d] = todo[d]
  BY DEF Frame, Others
<1> QED BY <1>1 DEF Shape

\* What the client that makes a step has afterwards.
Fits(c) ==
    /\ pc'[c] \in Pcs /\ op'[c] \in Ops /\ step'[c] \in 1 .. 18 /\ chain'[c] \in Seq(AllNodes)
    /\ path'[c] \in AllNodes /\ todo'[c] \in SUBSET AllNodes
    /\ Shape(c)' /\ nodes' \subseteq AllNodes

\* A call that returns leaves its client as an idle one is.
LEMMA ReturnFits ==
  ASSUME ClientTypes, NEW c \in Clients, Shape(c), pc[c] \notin {"ensure", "fill", "dead"}, Returns(c)
  PROVE  /\ pc'[c] \in Pcs /\ op'[c] \in Ops /\ step'[c] \in 1 .. 18 /\ chain'[c] \in Seq(AllNodes)
         /\ path'[c] \in AllNodes /\ todo'[c] \in SUBSET AllNodes
         /\ Shape(c)'
<1>1. "config" \in AllNodes
  BY AllNodesAre, FamilyNodesAre
<1> QED BY <1>1 DEF ClientTypes, Returns, Goes, Shape, Pcs, Creates, Removes

\* One action after the other: what it leaves its client at.
LEMMA FitsCrash ==
  ASSUME ClientTypes, NEW c \in Clients, Shape(c), nodes \subseteq AllNodes, Crash(c)
  PROVE  Fits(c)
BY GoesCrash, Lengths DEF ClientTypes, GoesTo, Goes, Shape, Pcs, Creates, Removes, Fits

\* A Create that fails kills its client.
LEMMA FitsCreateFails ==
  ASSUME ClientTypes, NEW c \in Clients, Shape(c), nodes \subseteq AllNodes, CreateFails(c)
  PROVE  Fits(c)
BY GoesCreateFails, Lengths DEF ClientTypes, GoesTo, Goes, Shape, Pcs, Creates, Removes, Fits

\* It is at the next path to look for, at what follows, or has returned.
LEMMA FitsCheck ==
  ASSUME ClientTypes, NEW c \in Clients, Shape(c), nodes \subseteq AllNodes, Check(c)
  PROVE  Fits(c)
<1>1. CASE Returns(c)
  BY <1>1, GoesCheck, ReturnFits DEF Fits
<1>2. CASE step[c] < 13 /\ StepsTo(c, "check", step[c] + 1)
  <2>1. step[c] \in 1 .. 18 /\ step[c] < 13
    BY <1>2, Lengths DEF ClientTypes
  <2>2. step[c] + 1 \in 1 .. 18 /\ step[c] + 1 <= 13
    BY <2>1
  <2> QED BY <1>2, <2>2, GoesCheck DEF ClientTypes, StepsTo, Goes, Shape, Pcs, Creates, Removes, Fits
<1>3. CASE op[c] # "listClusters" /\ StepsTo(c, AfterCheck(op[c]), 1)
  <2>1. op[c] \in Ops \ (Drops \cup {"addCluster", "getInstances", "listClusters"})
    BY <1>3, GoesCheck DEF Shape, ClientTypes
  <2>2. op[c] \in {"addNode", "join", "listClusterInfo", "listResources", "listInstances",
                  "listInstanceInfo"}
    BY <2>1, OrderTable, ReadsTable DEF Ops
  <2>3. AfterCheck(op[c]) = "read" => op[c] \in DOMAIN Reads /\ 1 <= Len(Reads[op[c]])
    BY <2>2, ReadsLens, ReadsTable DEF AfterCheck
  <2>4. AfterCheck(op[c]) # "read" => AfterCheck(op[c]) = "exists"
           /\ op[c] \in {"addNode", "join", "listInstanceInfo"}
    BY <2>2 DEF AfterCheck
  <2> QED BY <1>3, <2>1, <2>3, <2>4, GoesCheck, Lengths, OrderTable
        DEF ClientTypes, StepsTo, Goes, Shape, Pcs, Creates, Removes, Fits
<1> QED BY <1>1, <1>2, <1>3, GoesCheck

\* It is at the first node of its list, at its reads, or has returned.
LEMMA FitsExists ==
  ASSUME ClientTypes, NEW c \in Clients, Shape(c), nodes \subseteq AllNodes, Exists(c)
  PROVE  Fits(c)
<1>1. CASE Returns(c)
  BY <1>1, GoesExists, ReturnFits DEF Fits
<1>2. CASE op[c] = "listInstanceInfo" /\ GoesTo(c, "read")
  <2>1. op[c] \in DOMAIN Reads /\ 1 <= Len(Reads[op[c]])
    BY <1>2, ReadsLens, ReadsTable
  <2> QED BY <1>2, <2>1, GoesExists, Lengths DEF ClientTypes, GoesTo, Goes, Shape, Pcs, Creates, Removes,
                Fits
<1>3. ASSUME op[c] = "join", NEW s \in {1, 2}, StepsTo(c, "allowed", s)
      PROVE  Fits(c)
  <2>1. s \in 1 .. 18 /\ s \in 1 .. 2
    OBVIOUS
  <2> QED BY <1>3, <2>1, GoesExists DEF ClientTypes, StepsTo, Goes, Shape, Pcs, Creates, Removes, Drops,
                Fits
<1>4. CASE op[c] \in {"addCluster", "addNode"} /\ (GoesTo(c, "create") \/ GoesTo(c, "ensure"))
  <2>1. op[c] \in DOMAIN Order
    BY <1>4, OrderTable
  <2>2. Len(Order[op[c]]) \in 6 .. 18
    BY <2>1, OrderLens
  <2>3. 1 <= Len(Order[op[c]])
    BY <2>2, LessRoom
  <2> QED BY <1>4, <2>1, <2>3, GoesExists, Lengths DEF ClientTypes, GoesTo, Goes, Shape, Pcs, Creates,
                Removes, Fits
<1> QED BY <1>1, <1>2, <1>3, <1>4, GoesExists

\* A participant that may join is at its first node.
LEMMA FitsAutoJoinAllowed ==
  ASSUME ClientTypes, NEW c \in Clients, Shape(c), nodes \subseteq AllNodes, AutoJoinAllowed(c)
  PROVE  Fits(c)
<1>1. CASE Returns(c)
  BY <1>1, GoesAutoJoinAllowed, ReturnFits DEF Fits
<1>2. CASE GoesTo(c, "ensure")
  <2>1. op[c] \in DOMAIN Order /\ Len(Order[op[c]]) = 7 /\ step[c] \in 1 .. 2 /\ op[c] = "join"
    BY GoesAutoJoinAllowed, OrderTable, Lengths DEF Shape
  <2>2. step[c] <= Len(Order[op[c]])
    BY <2>1
  <2> QED BY <1>2, <2>1, <2>2, GoesAutoJoinAllowed, Lengths DEF ClientTypes, GoesTo, Goes, Shape, Pcs,
                Creates, Removes, Drops, Fits
<1> QED BY <1>1, <1>2, GoesAutoJoinAllowed

\* The path that is looked at above the deepest missing one is of the tree.
LEMMA DeepestType ==
  ASSUME ClientTypes, NEW c \in Clients, Shape(c), pc[c] \in {"ensure", "create"}
  PROVE  /\ Target(c) \in AllNodes /\ Deepest(c) \in AllNodes
         /\ Above[Deepest(c)] \in AllNodes \cup {Root}
<1>1. Target(c) \in AllNodes
  <2>1. op[c] \in DOMAIN Order /\ step[c] <= Len(Order[op[c]]) /\ step[c] \in 1 .. 18
    BY Lengths DEF Shape, Creates, ClientTypes
  <2>2. Len(Order[op[c]]) \in 6 .. 18
    BY <2>1, OrderLens
  <2>3. step[c] \in 1 .. Len(Order[op[c]])
    BY <2>1, <2>2
  <2> QED BY <2>1, <2>3, OrderLens DEF Target
<1>2. chain[c] # <<>> => Last(chain[c]) \in AllNodes
  BY DEF Last, ClientTypes
<1> QED BY <1>1, <1>2, AboveType DEF Deepest

\* ensurePath stays in the line of the node to create.
LEMMA FitsEnsurePath ==
  ASSUME ClientTypes, NEW c \in Clients, Shape(c), nodes \subseteq AllNodes, EnsurePath(c)
  PROVE  Fits(c)
<1>1. CASE (chain[c] = <<>> /\ GoesTo(c, "create")) \/ (chain[c] # <<>> /\ GoesTo(c, "fill"))
  BY <1>1, GoesEnsurePath, Lengths DEF ClientTypes, GoesTo, Goes, Shape, Pcs, Creates, Removes, Fits
<1>2. CASE /\ Above[Deepest(c)] \notin nodes \cup {Root}
           /\ Goes(c, "ensure", step[c], Append(chain[c], Above[Deepest(c)]), path[c], todo[c])
  <2>1. Above[Deepest(c)] \in AllNodes
    BY <1>2, DeepestType, GoesEnsurePath
  <2>2. Append(chain[c], Above[Deepest(c)]) \in Seq(AllNodes)
    BY <2>1 DEF ClientTypes
  <2> QED BY <1>2, <2>2, GoesEnsurePath, Lengths DEF ClientTypes, Goes, Shape, Pcs, Creates, Removes, Fits
<1> QED BY <1>1, <1>2, GoesEnsurePath

\* So does what it creates on its way down.
LEMMA FitsFillPath ==
  ASSUME ClientTypes, NEW c \in Clients, Shape(c), nodes \subseteq AllNodes, FillPath(c)
  PROVE  Fits(c)
<1>1. chain[c] \in Seq(AllNodes) /\ chain[c] # <<>>
  BY GoesFillPath DEF ClientTypes, Shape
<1>2. Last(chain[c]) \in AllNodes
  BY <1>1 DEF Last
<1>3. /\ Front(chain[c]) \in Seq(AllNodes)
      /\ Len(chain[c]) = 1 => Front(chain[c]) = <<>>
      /\ Len(chain[c]) # 1 => Front(chain[c]) # <<>>
  <2>1. Len(chain[c]) \in Nat \ {0}
    BY <1>1
  <2>2. /\ Front(chain[c]) = [i \in 1 .. (Len(chain[c]) - 1) |-> chain[c][i]]
    BY <1>1 DEF Front
  <2>3. \A i \in 1 .. (Len(chain[c]) - 1) : chain[c][i] \in AllNodes
    BY <1>1
  <2>4. Front(chain[c]) \in Seq(AllNodes) /\ Len(Front(chain[c])) = Len(chain[c]) - 1
    BY <2>1, <2>2, <2>3
  <2>5. Len(chain[c]) = 1 => Len(Front(chain[c])) = 0
    BY <2>4
  <2>6. Len(chain[c]) # 1 => Len(Front(chain[c])) # 0
    BY <2>1, <2>4
  <2> QED BY <2>4, <2>5, <2>6, NoneLeft
<1>4. nodes' \subseteq AllNodes
  BY <1>2, GoesFillPath
<1> QED BY <1>3, <1>4, GoesFillPath, Lengths DEF ClientTypes, Goes, Shape, Pcs, Creates, Removes, Fits

\* A Create leaves the operation at the next of its nodes.
LEMMA FitsCreate ==
  ASSUME ClientTypes, NEW c \in Clients, Shape(c), nodes \subseteq AllNodes, Create(c)
  PROVE  Fits(c)
<1>1. nodes' \subseteq AllNodes
  BY GoesCreate, DeepestType
<1>2. CASE Returns(c)
  BY <1>1, <1>2, GoesCreate, ReturnFits DEF Fits
<1>3. CASE /\ step[c] # Len(Order[op[c]])
           /\ \E p \in {"create", "ensure"} : StepsTo(c, p, step[c] + 1)
  <2>1. op[c] \in DOMAIN Order /\ Len(Order[op[c]]) \in 6 .. 18 /\ step[c] <= Len(Order[op[c]])
           /\ step[c] \in 1 .. 18
    BY GoesCreate, OrderLens, Lengths DEF Shape, Creates, ClientTypes
  <2>3. step[c] # Len(Order[op[c]])
    BY <1>3
  <2>4. PICK m \in 0 .. 18 : m = Len(Order[op[c]])
    BY <2>1
  <2>5. PICK n \in 1 .. 18 : n = step[c]
    BY <2>1
  <2>6. n <= m /\ n # m
    BY <2>1, <2>3, <2>4, <2>5
  <2>7. n + 1 <= m /\ n + 1 \in 1 .. 18
    BY <2>6, LessRoom
  <2>2. step[c] + 1 <= Len(Order[op[c]]) /\ step[c] + 1 \in 1 .. 18
    BY <2>4, <2>5, <2>7
  <2> QED BY <1>1, <1>3, <2>2, GoesCreate, Lengths DEF ClientTypes, StepsTo, Goes, Shape, Pcs, Creates,
                Removes, Fits
<1> QED BY <1>2, <1>3, GoesCreate

\* A Get leaves it at the next of its reads.
LEMMA FitsRead ==
  ASSUME ClientTypes, NEW c \in Clients, Shape(c), nodes \subseteq AllNodes, Read(c)
  PROVE  Fits(c)
<1>1. CASE Returns(c)
  BY <1>1, GoesRead, ReturnFits DEF Fits
<1>2. CASE step[c] # Len(Reads[op[c]]) /\ StepsTo(c, "read", step[c] + 1)
  <2>1. op[c] \in DOMAIN Reads /\ Len(Reads[op[c]]) \in 0 .. 2 /\ step[c] <= Len(Reads[op[c]])
           /\ step[c] \in 1 .. 18
    BY GoesRead, ReadsLens, Lengths DEF Shape, ClientTypes
  <2>3. step[c] # Len(Reads[op[c]])
    BY <1>2
  <2>4. PICK m \in 0 .. 18 : m = Len(Reads[op[c]])
    BY <2>1
  <2>5. PICK n \in 1 .. 18 : n = step[c]
    BY <2>1
  <2>6. n <= m /\ n # m
    BY <2>1, <2>3, <2>4, <2>5
  <2>7. n + 1 <= m /\ n + 1 \in 1 .. 18
    BY <2>6, LessRoom
  <2>2. step[c] + 1 <= Len(Reads[op[c]]) /\ step[c] + 1 \in 1 .. 18
    BY <2>4, <2>5, <2>7
  <2> QED BY <1>2, <2>2, GoesRead, Lengths DEF ClientTypes, StepsTo, Goes, Shape, Pcs, Creates, Removes,
                Fits
<1> QED BY <1>1, <1>2, GoesRead

\* DropNode looks at the instance next, or has returned.
LEMMA FitsDropConfigExists ==
  ASSUME ClientTypes, NEW c \in Clients, Shape(c), nodes \subseteq AllNodes, DropConfigExists(c)
  PROVE  Fits(c)
<1>1. dropped' = dropped /\ op[c] = "dropNode"
  BY GoesDropConfigExists DEF DropConfigExists, Shape
<1>2. step[c] = 1 /\ todo[c] = {} /\ path[c] = "config" /\ op[c] \in dropped
  BY <1>1, GoesDropConfigExists DEF Shape, Drops, Removes
<1> QED BY <1>1, <1>2, FamilyNodesAre, GoesDropConfigExists, Lengths DEF ClientTypes, GoesTo, Goes,
              Shape, Pcs, Creates, Removes, Drops, Fits

\* It is at the config's subtree next, or has returned.
LEMMA FitsDropInstanceExists ==
  ASSUME ClientTypes, NEW c \in Clients, Shape(c), nodes \subseteq AllNodes, DropInstanceExists(c)
  PROVE  Fits(c)
<1>1. dropped' = dropped /\ op[c] = "dropNode"
  BY GoesDropInstanceExists DEF DropInstanceExists, Shape
<1>2. step[c] = 1 /\ todo[c] = {} /\ path[c] = "config" /\ op[c] \in dropped
  BY <1>1, GoesDropInstanceExists DEF Shape, Drops, Removes
<1> QED BY <1>1, <1>2, FamilyNodesAre, GoesDropInstanceExists, Lengths DEF ClientTypes, GoesTo, Goes,
              Shape, Pcs, Creates, Removes, Drops, Fits

\* It has returned, or panics.
LEMMA FitsDeleteInstance ==
  ASSUME ClientTypes, NEW c \in Clients, Shape(c), nodes \subseteq AllNodes, DeleteInstance(c)
  PROVE  Fits(c)
<1>1. CASE Returns(c)
  BY <1>1, GoesDeleteInstance, ReturnFits DEF Fits
<1>2. CASE GoesTo(c, "dead")
  BY <1>2, GoesDeleteInstance, Lengths DEF ClientTypes, GoesTo, Goes, Shape, Pcs, Creates, Removes, Fits
<1> QED BY <1>1, <1>2, GoesDeleteInstance

\* After a subtree, DropNode and DropCluster go on at a path of the tree.
LEMMA FitsUp ==
  ASSUME ClientTypes, NEW c \in Clients, Shape(c), pc[c] \in Removes, nodes' \subseteq AllNodes,
         \/ op[c] = "dropNode" /\ Goes(c, "rmExists", step[c], chain[c], "instance", todo[c])
         \/ /\ path[c] # "cluster" /\ (op[c] = "dropNode" => path[c] \notin {"config", "instance"})
            /\ Goes(c, "rmNext", step[c], chain[c], Above[path[c]], todo[c]),
         UNCHANGED dropped
  PROVE  Fits(c)
<1>1. op[c] \in {"dropNode", "dropCluster"} /\ op[c] \in Drops
  BY DEF Shape, Drops
<1>2. chain[c] = <<>> /\ step[c] = 1 /\ op[c] \in dropped
  BY <1>1 DEF Shape, Removes
<1>3. CASE op[c] = "dropNode" /\ Goes(c, "rmExists", step[c], chain[c], "instance", todo[c])
  <2>1. "instance" \in AllNodes /\ "instance" \in FamilyNodes
    BY AllNodesAre, FamilyNodesAre
  <2> QED BY <1>2, <1>3, <2>1, Lengths DEF ClientTypes, Goes, Shape, Pcs, Creates, Removes, Drops, Fits
<1>4. CASE /\ path[c] # "cluster" /\ (op[c] = "dropNode" => path[c] \notin {"config", "instance"})
           /\ Goes(c, "rmNext", step[c], chain[c], Above[path[c]], todo[c])
  <2>1. Above[path[c]] \in AllNodes
    BY <1>4, AboveType DEF ClientTypes
  <2>2. op[c] = "dropNode" => Above[path[c]] = "instance" /\ "instance" \in FamilyNodes
    <3>1. op[c] = "dropNode" => path[c] \in FamilyNodes
      BY <1>1 DEF Shape, Removes
    <3> QED BY <3>1, <1>4, FamilyNodesAre, AllNodesAre, AboveFamily
  <2> QED BY <1>1, <1>2, <1>4, <2>1, <2>2, Lengths DEF ClientTypes, Goes, Shape, Pcs, Creates, Removes,
                Drops, Fits
<1> QED BY <1>3, <1>4

\* It is still at the path, or back up the line, or done.
LEMMA FitsTreeExists ==
  ASSUME ClientTypes, NEW c \in Clients, Shape(c), nodes \subseteq AllNodes, TreeExists(c)
  PROVE  Fits(c)
<1>1. UNCHANGED dropped /\ nodes' \subseteq AllNodes /\ pc[c] \in Removes
  BY GoesTreeExists DEF TreeExists, Removes
<1>2. CASE Returns(c)
  BY <1>1, <1>2, ReturnFits DEF Fits, Removes
<1>3. CASE GoesTo(c, "rmChildren")
  BY <1>1, <1>3, Lengths DEF ClientTypes, GoesTo, Goes, Shape, Pcs, Creates, Removes, Drops, Fits
<1> QED BY <1>1, <1>2, <1>3, GoesTreeExists, FitsUp

\* What it has to be at are nodes of the tree.
LEMMA FitsTreeChildren ==
  ASSUME ClientTypes, NEW c \in Clients, Shape(c), nodes \subseteq AllNodes, TreeChildren(c)
  PROVE  Fits(c)
<1>1. UNCHANGED dropped /\ nodes' \subseteq AllNodes /\ pc[c] \in Removes
  BY GoesTreeChildren DEF TreeChildren, Removes
<1>2. Children(path[c]) \subseteq AllNodes
  BY DEF Children
<1>3. op[c] = "dropNode" => Children(path[c]) \subseteq InstanceNodes
  <2> SUFFICES ASSUME op[c] = "dropNode", NEW q \in Children(path[c]) PROVE q \in InstanceNodes
    OBVIOUS
  <2>1. path[c] \in FamilyNodes /\ q \in AllNodes /\ Above[q] = path[c]
    BY <1>1, <1>2 DEF Shape, Children, Removes, Drops
  <2>2. Above[q] \in FamilyNodes => Above[q] = "instance"
    <3>1. q \in ClusterNodes => Above[q] \in ClusterNodes \cup {Root}
      BY ClusterAbove
    <3>2. q \notin ClusterNodes => q \in FamilyNodes
      BY <2>1, AllNodesAre
    <3>3. q \in FamilyNodes => q \in {"config", "instance"} \cup InstanceNodes
      BY FamilyNodesAre, AboveFamily
    <3>4. q \in InstanceNodes => Above[q] = "instance"
      BY <2>1, AboveFamily
    <3>5. FamilyNodes \cap (ClusterNodes \cup {Root}) = {}
      BY FamilyNodesAre, ClusterNodesAre, AllNodesAre, RootOutside
    <3> QED BY <3>1, <3>2, <3>3, <3>4, <3>5, AboveFamily, ClusterNodesAre
  <2> QED BY <2>1, <2>2, AboveFamily
<1> QED BY <1>1, <1>2, <1>3, GoesTreeChildren, Lengths DEF ClientTypes, Goes, Shape, Pcs, Creates,
              Removes, Drops, Fits

\* It is at a child.
LEMMA FitsTreeNext ==
  ASSUME ClientTypes, NEW c \in Clients, Shape(c), nodes \subseteq AllNodes, TreeNext(c)
  PROVE  Fits(c)
<1>1. UNCHANGED dropped /\ nodes' \subseteq AllNodes /\ pc[c] \in Removes
  BY GoesTreeNext DEF TreeNext, Removes
<1>2. CASE GoesTo(c, "rmDelete")
  BY <1>1, <1>2, Lengths DEF ClientTypes, GoesTo, Goes, Shape, Pcs, Creates, Removes, Drops, Fits
<1>3. ASSUME NEW p \in NextChildren(c), Goes(c, "rmExists", step[c], chain[c], p, todo[c] \ {p})
      PROVE  Fits(c)
  <2>1. p \in todo[c] /\ Above[p] = path[c] /\ p \in AllNodes
    BY NextChildrenSome DEF ClientTypes
  <2>2. op[c] = "dropNode" => p \in FamilyNodes
    BY <1>1, <2>1, FamilyNodesAre, AboveFamily DEF Shape, Removes, Drops
  <2> QED BY <1>1, <1>3, <2>1, <2>2, Lengths DEF ClientTypes, Goes, Shape, Pcs, Creates, Removes, Drops,
                Fits
<1> QED BY <1>2, <1>3, GoesTreeNext

\* It is back up the line, or done.
LEMMA FitsTreeDelete ==
  ASSUME ClientTypes, NEW c \in Clients, Shape(c), nodes \subseteq AllNodes, TreeDelete(c)
  PROVE  Fits(c)
<1>1. UNCHANGED dropped /\ nodes' \subseteq AllNodes /\ pc[c] \in Removes
  BY GoesTreeDelete DEF TreeDelete, Removes
<1>2. CASE Returns(c)
  BY <1>1, <1>2, ReturnFits DEF Fits, Removes
<1> QED BY <1>1, <1>2, GoesTreeDelete, FitsUp

-----------------------------------------------------------------------------
\* A call that begins, from an idle client.
LEMMA GoesCall ==
  ASSUME ClientTypes, NEW c \in Clients, NEW o \in Ops, Call(c, o)
  PROVE  /\ Frame(c) /\ pc[c] = "idle" /\ UNCHANGED nodes
         /\ pc'[c] = FirstPc(o) /\ op'[c] = o /\ step'[c] = step[c] /\ chain'[c] = chain[c]
         /\ path'[c] = (IF o = "dropCluster" THEN "cluster" ELSE "config") /\ todo'[c] = todo[c]
<1>1. Frame(c)
  BY DEF ClientTypes, Frame, Others, Call
<1>2. QED BY <1>1 DEF ClientTypes, Call

\* It is at the first thing its operation does.
LEMMA FitsCall ==
  ASSUME ClientTypes, NEW c \in Clients, NEW o \in Ops, Shape(c), nodes \subseteq AllNodes, Call(c, o)
  PROVE  Fits(c)
<1>1. /\ step[c] = 1 /\ todo[c] = {} /\ chain[c] = <<>>
      /\ "cluster" \in AllNodes /\ "config" \in AllNodes /\ "config" \in FamilyNodes
  BY GoesCall, AllNodesAre, ClusterNodesAre, FamilyNodesAre DEF Shape
<1>2. /\ pc'[c] = FirstPc(o) /\ op'[c] = o /\ step'[c] = 1 /\ chain'[c] = <<>> /\ todo'[c] = {}
      /\ path'[c] = (IF o = "dropCluster" THEN "cluster" ELSE "config")
      /\ chain'[c] \in Seq(AllNodes)
      /\ nodes' \subseteq AllNodes
  BY <1>1, GoesCall DEF ClientTypes
<1>3. dropped' = dropped \cup ({o} \cap Drops)
  BY DEF Call
<1>4. CASE o = "addCluster"
  BY <1>1, <1>2, <1>4, OrderTable DEF FirstPc, Shape, Pcs, Creates, Removes, Drops, Fits
<1>5. CASE o = "dropNode"
  BY <1>1, <1>2, <1>3, <1>5 DEF FirstPc, Shape, Pcs, Creates, Removes, Drops, Fits
<1>6. CASE o = "dropInstance"
  BY <1>1, <1>2, <1>3, <1>6 DEF FirstPc, Shape, Pcs, Creates, Removes, Drops, Fits
<1>7. CASE o = "dropCluster"
  BY <1>1, <1>2, <1>3, <1>7 DEF FirstPc, Shape, Pcs, Creates, Removes, Drops, Fits
<1>8. CASE o = "getInstances"
  <2>1. o \in DOMAIN Reads /\ Len(Reads[o]) = 1
    BY <1>8, ReadsTable
  <2>2. 1 <= Len(Reads[o])
    BY <2>1
  <2> QED BY <1>1, <1>2, <1>8, <2>1, <2>2 DEF FirstPc, Shape, Pcs, Creates, Removes, Drops, Fits
<1>9. CASE o \notin {"addCluster", "dropNode", "dropInstance", "dropCluster", "getInstances"}
  BY <1>1, <1>2, <1>9 DEF FirstPc, Shape, Pcs, Creates, Removes, Drops, Fits
<1> QED BY <1>4, <1>5, <1>6, <1>7, <1>8, <1>9

\* The calls that ended, and those under way, are among those made.
CountInv ==
    /\ ended \in [DOMAIN Order -> Nat] /\ calls \in 0 .. mix.most
    /\ IsFiniteSet(Busy)
    /\ ended["addCluster"] + ended["addNode"] + ended["join"] + Cardinality(Busy) <= calls

\* No node is there without the one it is below.
TreeInv == \A p \in nodes : Above[p] \in nodes \cup {Root}

\* What holds of the nodes and of every client by itself, whatever the others do.
BaseInv ==
    /\ mix \in Mixes /\ nodes \subseteq AllNodes
    /\ ClientTypes /\ (\A c \in Clients : Shape(c))
    /\ dropped \subseteq Drops /\ raced \in BOOLEAN /\ crashes \in 0 .. MaxCrashes
    /\ CountInv /\ TreeInv

\* Every step of a call keeps to the tree and to its operation.
LEMMA FitsStep ==
  ASSUME ClientTypes, NEW c \in Clients, Shape(c), nodes \subseteq AllNodes, CallStep(c)
  PROVE  Frame(c) /\ Fits(c) /\ pc[c] \notin {"idle", "dead"}
<1>1. CASE Check(c)
  BY <1>1, FitsCheck, GoesCheck
<1>2. CASE Exists(c)
  BY <1>2, FitsExists, GoesExists
<1>3. CASE AutoJoinAllowed(c)
  BY <1>3, FitsAutoJoinAllowed, GoesAutoJoinAllowed
<1>4. CASE EnsurePath(c)
  BY <1>4, FitsEnsurePath, GoesEnsurePath
<1>5. CASE FillPath(c)
  BY <1>5, FitsFillPath, GoesFillPath
<1>6. CASE Create(c)
  BY <1>6, FitsCreate, GoesCreate
<1>7. CASE CreateFails(c)
  BY <1>7, FitsCreateFails, GoesCreateFails
<1>8. CASE Read(c)
  BY <1>8, FitsRead, GoesRead
<1>9. CASE DropConfigExists(c)
  BY <1>9, FitsDropConfigExists, GoesDropConfigExists
<1>10. CASE DropInstanceExists(c)
  BY <1>10, FitsDropInstanceExists, GoesDropInstanceExists
<1>11. CASE DeleteInstance(c)
  BY <1>11, FitsDeleteInstance, GoesDeleteInstance
<1>12. CASE TreeExists(c)
  BY <1>12, FitsTreeExists, GoesTreeExists
<1>13. CASE TreeChildren(c)
  BY <1>13, FitsTreeChildren, GoesTreeChildren
<1>14. CASE TreeNext(c)
  BY <1>14, FitsTreeNext, GoesTreeNext
<1>15. CASE TreeDelete(c)
  BY <1>15, FitsTreeDelete, GoesTreeDelete
<1> QED BY <1>1, <1>2, <1>3, <1>4, <1>5, <1>6, <1>7, <1>8, <1>9, <1>10, <1>11, <1>12, <1>13, <1>14,
           <1>15 DEF CallStep

\* Nodes come one by one, below one that is there, and go when none is below.
LEMMA NodesStep ==
  ASSUME ClientTypes, NEW c \in Clients, Shape(c), nodes \subseteq AllNodes, CallStep(c)
  PROVE  \/ UNCHANGED nodes
         \/ \E p \in AllNodes : ~Refused(p) /\ nodes' = nodes \cup {p}
         \/ \E p \in nodes : Children(p) = {} /\ nodes' = nodes \ {p}
<1>1. CASE FillPath(c)
  <2>1. chain[c] \in Seq(AllNodes) /\ chain[c] # <<>>
    BY <1>1, GoesFillPath DEF ClientTypes, Shape
  <2> QED BY <1>1, <2>1, GoesFillPath DEF Last
<1>2. CASE Create(c)
  BY <1>2, GoesCreate, DeepestType
<1>3. CASE DeleteInstance(c)
  BY <1>3, GoesDeleteInstance
<1>4. CASE TreeDelete(c)
  BY <1>4, GoesTreeDelete
<1>5. CASE ~(FillPath(c) \/ Create(c) \/ DeleteInstance(c) \/ TreeDelete(c))
  BY <1>5, GoesCheck, GoesExists, GoesAutoJoinAllowed, GoesEnsurePath, GoesCreateFails, GoesRead,
     GoesDropConfigExists, GoesDropInstanceExists, GoesTreeExists, GoesTreeChildren, GoesTreeNext
     DEF CallStep
<1> QED BY <1>1, <1>2, <1>3, <1>4, <1>5

\* Only a Create that is a call's last counts for it, and ends it.
LEMMA CountStep ==
  ASSUME ClientTypes, NEW c \in Clients, CallStep(c)
  PROVE  /\ UNCHANGED <<mix, calls, dropped, raced, crashes>>
         /\ \/ UNCHANGED ended
            \/ /\ op[c] \in DOMAIN Order => ended' = [ended EXCEPT ![op[c]] = @ + 1]
               /\ Create(c) /\ Returns(c) /\ step[c] = Len(Order[op[c]])
<1>1. CASE Create(c)
  BY <1>1 DEF Create, Returns, Goes, ClientTypes
<1>2. CASE ~Create(c)
  BY <1>2 DEF CallStep, Check, Exists, AutoJoinAllowed, EnsurePath, FillPath, CreateFails, Read,
     DropConfigExists,
     DropInstanceExists, DeleteInstance, TreeExists, TreeChildren, TreeNext, TreeDelete
<1> QED BY <1>1, <1>2

\* Nodes that come and go that way keep the tree whole.
LEMMA TreeStep ==
  ASSUME nodes \subseteq AllNodes, TreeInv,
         \/ UNCHANGED nodes
         \/ \E p \in AllNodes : ~Refused(p) /\ nodes' = nodes \cup {p}
         \/ \E p \in nodes : Children(p) = {} /\ nodes' = nodes \ {p}
  PROVE  TreeInv'
<1>1. CASE UNCHANGED nodes
  BY <1>1 DEF TreeInv
<1>2. ASSUME NEW p \in AllNodes, ~Refused(p), nodes' = nodes \cup {p} PROVE TreeInv'
  BY <1>2 DEF TreeInv, Refused
<1>3. ASSUME NEW p \in nodes, Children(p) = {}, nodes' = nodes \ {p} PROVE TreeInv'
  BY <1>3 DEF TreeInv, Children
<1> QED BY <1>1, <1>2, <1>3

\* A step of a call leaves its client busy, or takes it out of the busy ones.
LEMMA BusyStep ==
  ASSUME BaseInv, NEW c \in Clients, Frame(c), pc[c] \notin {"idle", "dead"}
  PROVE  /\ c \in Busy /\ Cardinality(Busy) \in Nat /\ Cardinality(Busy) > 0
         /\ IsFiniteSet(Busy') /\ Cardinality(Busy') \in Nat
         /\ pc'[c] \notin {"idle", "dead"} => Busy' = Busy
         /\ pc'[c] \in {"idle", "dead"} => Busy' = Busy \ {c} /\ Cardinality(Busy') = Cardinality(Busy) - 1
<1>1. c \in Busy /\ IsFiniteSet(Busy)
  BY DEF Busy, BaseInv, CountInv
<1>2. pc'[c] \notin {"idle", "dead"} => Busy' = Busy
  BY DEF Busy, Frame, Others
<1>3. pc'[c] \in {"idle", "dead"} => Busy' = Busy \ {c}
  BY DEF Busy, Frame, Others
<1>4. /\ IsFiniteSet(Busy \ {c}) /\ Cardinality(Busy) \in Nat
      /\ Cardinality(Busy \ {c}) = Cardinality(Busy) - 1
      /\ Cardinality(Busy \ {c}) \in Nat
  BY <1>1, FS_RemoveElement, FS_CardinalityType
<1>5. Cardinality(Busy) > 0
  BY <1>4
<1>6. CASE pc'[c] \in {"idle", "dead"}
  <2>1. Busy' = Busy \ {c}
    BY <1>3, <1>6
  <2> QED BY <1>1, <1>4, <1>5, <1>6, <2>1
<1>7. CASE pc'[c] \notin {"idle", "dead"}
  <2>1. Busy' = Busy
    BY <1>2, <1>7
  <2> QED BY <1>1, <1>4, <1>5, <1>7, <2>1
<1> QED BY <1>6, <1>7

\* It holds at first, and every step keeps it.
LEMMA BaseInit == ASSUME Init PROVE BaseInv
<1>1. mix \in Mixes /\ mix.most \in Nat /\ mix.from \in Starts
  BY AdminAssumption DEF Init
<1>2. \A s \in Starts : s \subseteq AllNodes /\ \A p \in s : Above[p] \in s \cup {Root}
  <2>1. Elements(AddNodeOrder) = FamilyNodes \ {"health"}
    BY FamilyNodesAre DEF Elements, AddNodeOrder
  <2>2. \A p \in FamilyNodes : Above[p] \in ClusterNodes \cup {"instance"}
    BY FamilyNodesAre, ClusterNodesAre, AllNodesAre, AboveFamily
  <2>3. {"instance", "config"} \subseteq FamilyNodes \ {"health"}
    BY FamilyNodesAre
  <2> QED BY <2>1, <2>2, <2>3, AllNodesAre, ClusterAbove DEF Starts, FamilyNodes
<1>3. nodes \subseteq AllNodes /\ TreeInv
  BY <1>1, <1>2 DEF Init, TreeInv
<1>4. ClientTypes
  <2>1. "config" \in AllNodes /\ "addNode" \in Ops
    BY AllNodesAre, FamilyNodesAre, OrderTable DEF Ops
  <2> QED BY <2>1, Lengths DEF Init, ClientTypes, Pcs
<1>5. ASSUME NEW c \in Clients PROVE Shape(c)
  BY DEF Init, Shape, Creates, Removes
<1>6. CountInv
  <2>1. Busy = {}
    BY DEF Busy, Init
  <2> QED BY <1>1, <2>1, FS_EmptySet, OrderTable DEF CountInv, Init
<1>7. dropped \subseteq Drops /\ raced \in BOOLEAN
  BY DEF Init
<1>8. crashes \in 0 .. MaxCrashes
  BY AdminAssumption DEF Init
<1> QED BY <1>1, <1>3, <1>4, <1>5, <1>6, <1>7, <1>8 DEF BaseInv

\* A step of a call keeps it.
LEMMA BaseCallStep ==
  ASSUME BaseInv, NEW c \in Clients, CallStep(c)
  PROVE  BaseInv'
<1>1. ClientTypes /\ Shape(c) /\ nodes \subseteq AllNodes
  BY DEF BaseInv
<1>2. Frame(c) /\ Fits(c) /\ pc[c] \notin {"idle", "dead"}
  BY <1>1, FitsStep
<1>3. UNCHANGED <<mix, calls, dropped, raced, crashes>>
  BY <1>1, CountStep
<1>4. ClientTypes' /\ nodes' \subseteq AllNodes
  BY <1>1, <1>2, Typed DEF Fits
<1>5. ASSUME NEW d \in Clients PROVE Shape(d)'
  BY <1>2, <1>3, OtherShapes DEF Fits, BaseInv
<1>6. TreeInv'
  BY <1>1, NodesStep, TreeStep DEF BaseInv
<1>7. CountInv'
  <2>1. CASE UNCHANGED ended
    BY <1>2, <1>3, <2>1, BusyStep, OrderTable DEF BaseInv, CountInv
  <2>2. CASE /\ op[c] \in DOMAIN Order => ended' = [ended EXCEPT ![op[c]] = @ + 1]
             /\ Create(c) /\ Returns(c)
    <3>1. op[c] \in {"addCluster", "addNode", "join"}
      BY <1>1, <2>2, GoesCreate, OrderTable DEF Shape, Creates
    <3>2. pc'[c] = "idle" /\ Cardinality(Busy') = Cardinality(Busy) - 1 /\ IsFiniteSet(Busy')
      BY <1>2, <2>2, BusyStep DEF Returns, Goes
    <3>3. ended' \in [DOMAIN Order -> Nat]
      BY <2>2, <3>1, OrderTable DEF BaseInv, CountInv
    <3>4. ended'["addCluster"] + ended'["addNode"] + ended'["join"]
           = ended["addCluster"] + ended["addNode"] + ended["join"] + 1
      BY <2>2, <3>1, OrderTable DEF BaseInv, CountInv
    <3>5. Cardinality(Busy) \in Nat
      BY <1>2, BusyStep
    <3> QED BY <1>3, <3>2, <3>3, <3>4, <3>5, OrderTable DEF BaseInv, CountInv
  <2> QED BY <1>1, <2>1, <2>2, CountStep
<1> QED BY <1>3, <1>4, <1>5, <1>6, <1>7 DEF BaseInv

\* A process that is killed keeps it.
LEMMA BaseCrash ==
  ASSUME BaseInv, NEW c \in Clients, Crash(c)
  PROVE  BaseInv'
<1>1. ClientTypes /\ Shape(c) /\ nodes \subseteq AllNodes
  BY DEF BaseInv
<1>2. Frame(c) /\ Fits(c) /\ pc[c] \notin {"idle", "dead"}
  BY <1>1, FitsCrash, GoesCrash
<1>3. UNCHANGED <<nodes, mix, calls, dropped, raced, ended>>
  BY DEF Crash
<1>4. crashes' \in 0 .. MaxCrashes
  BY AdminAssumption DEF Crash, BaseInv
<1>5. ClientTypes' /\ nodes' \subseteq AllNodes
  BY <1>1, <1>2, Typed DEF Fits
<1>6. ASSUME NEW d \in Clients PROVE Shape(d)'
  BY <1>2, <1>3, OtherShapes DEF Fits, BaseInv
<1>7. TreeInv' /\ CountInv'
  BY <1>2, <1>3, BusyStep, OrderTable DEF BaseInv, TreeInv, CountInv
<1> QED BY <1>3, <1>4, <1>5, <1>6, <1>7 DEF BaseInv

\* A call that begins keeps it.
LEMMA BaseCall ==
  ASSUME BaseInv, NEW c \in Clients, NEW o \in Ops, Call(c, o)
  PROVE  BaseInv'
<1>1. ClientTypes /\ Shape(c) /\ nodes \subseteq AllNodes
  BY DEF BaseInv
<1>2. Frame(c) /\ Fits(c) /\ pc[c] = "idle"
  BY <1>1, FitsCall, GoesCall
<1>3. UNCHANGED <<nodes, mix, ended, crashes>> /\ calls' = calls + 1 /\ calls < mix.most
      /\ dropped' \subseteq Drops /\ dropped \subseteq dropped' /\ raced' \in BOOLEAN
  BY DEF Call, BaseInv
<1>5. ClientTypes' /\ nodes' \subseteq AllNodes
  BY <1>1, <1>2, Typed DEF Fits
<1>6. ASSUME NEW d \in Clients PROVE Shape(d)'
  BY <1>2, <1>3, OtherShapes DEF Fits, BaseInv
<1>7. CountInv'
  <2>1. c \notin Busy /\ IsFiniteSet(Busy)
    BY <1>2 DEF Busy, BaseInv, CountInv
  <2>2. Busy' = Busy \cup {c} \/ Busy' = Busy
    BY <1>2 DEF Busy, Frame, Others
  <2>3. /\ IsFiniteSet(Busy \cup {c}) /\ Cardinality(Busy \cup {c}) = Cardinality(Busy) + 1
        /\ Cardinality(Busy) \in Nat
    BY <2>1, FS_AddElement, FS_CardinalityType
  <2>4. mix.most \in Nat
    BY AdminAssumption DEF BaseInv
  <2> QED BY <1>3, <2>1, <2>2, <2>3, <2>4, OrderTable DEF BaseInv, CountInv
<1>8. TreeInv'
  BY <1>3 DEF BaseInv, TreeInv
<1> QED BY <1>3, <1>5, <1>6, <1>7, <1>8 DEF BaseInv

\* The tree is never torn, and every call keeps to its operation's lists.
THEOREM BaseInvHolds == Spec => []BaseInv
<1>1. BaseInv /\ UNCHANGED vars => BaseInv'
  <2> SUFFICES ASSUME BaseInv, UNCHANGED vars PROVE BaseInv'
    OBVIOUS
  <2>1. ClientTypes' /\ (\A c \in Clients : Shape(c)')
    BY DEF BaseInv, vars, ClientTypes, Shape
  <2>2. CountInv' /\ TreeInv'
    BY DEF BaseInv, vars, CountInv, TreeInv, Busy
  <2> QED BY <2>1, <2>2 DEF BaseInv, vars
<1>2. BaseInv /\ Next => BaseInv'
  BY BaseCallStep, BaseCrash, BaseCall DEF Next
<1> QED BY <1>1, <1>2, BaseInit, PTL DEF Spec

\* No call ever touches a node outside the cluster's and the participant's own,
\* whichever calls are under way and whichever processes are killed.
THEOREM TypeCorrect == Spec => []TypeOK
<1>1. ASSUME BaseInv PROVE TypeOK
  <2>1. Cardinality(Busy) \in Nat
    BY <1>1, FS_CardinalityType DEF BaseInv, CountInv
  <2>2. mix.most \in Nat
    BY <1>1, AdminAssumption DEF BaseInv
  <2>3. ended \in [DOMAIN Order -> 0 .. mix.most]
    BY <1>1, <2>1, <2>2, OrderTable DEF BaseInv, CountInv
  <2> QED BY <1>1, <2>3 DEF BaseInv, CountInv, ClientTypes, TypeOK
<1> QED BY <1>1, BaseInvHolds, PTL
=============================================================================
