---------------------------- MODULE ClusterAdmin ----------------------------
(***************************************************************************)
(* The nodes of one cluster and of one participant in it, and the calls of *)
(* Admin (src/admin.go) that make, remove and list them: AddCluster,       *)
(* DropCluster, AddNode, DropNode, DropInstance, the List... calls and     *)
(* GetInstances; and the part of Participant.Connect that registers a      *)
(* participant by itself, "join" here.  Several run at once, each in a     *)
(* process and with a connection of its own.  Nothing is locked and        *)
(* nothing undone: every call looks first and then creates or deletes one  *)
(* node after the other.  One step is one ZooKeeper request.               *)
(***************************************************************************)
EXTENDS Naturals, SequencesExt, FiniteSets

CONSTANTS
    Clients,
    Mixes,       \* the calls that are made together: a set of operations, the
                 \* most calls of all clients, and the nodes there are at first
    MaxCrashes   \* bound on the processes killed

\* What AddCluster creates, in this order; one state model stands for six.
ClusterOrder ==
    <<"cluster", "PROPERTYSTORE", "STATEMODELDEFS", "stateModels", "INSTANCES",
      "CONFIGS", "CONFIGS/PARTICIPANT", "CONFIGS/RESOURCE", "CONFIGS/CLUSTER",
      "clusterConfig", "IDEALSTATES", "EXTERNALVIEW", "LIVEINSTANCES",
      "CONTROLLER", "CONTROLLER/ERRORS", "CONTROLLER/HISTORY",
      "CONTROLLER/MESSAGES", "CONTROLLER/STATUSUPDATES">>

\* Mutant: IsClusterSetup does not look for the last node.
CheckOrderShort ==
    <<"cluster", "IDEALSTATES", "CONFIGS/PARTICIPANT", "PROPERTYSTORE",
      "LIVEINSTANCES", "INSTANCES", "EXTERNALVIEW", "STATEMODELDEFS",
      "CONTROLLER", "CONTROLLER/ERRORS", "CONTROLLER/HISTORY",
      "CONTROLLER/MESSAGES">>

\* What IsClusterSetup looks for, in this order.
CheckOrder ==
    <<"cluster", "IDEALSTATES", "CONFIGS/PARTICIPANT", "PROPERTYSTORE",
      "LIVEINSTANCES", "INSTANCES", "EXTERNALVIEW", "STATEMODELDEFS",
      "CONTROLLER", "CONTROLLER/ERRORS", "CONTROLLER/HISTORY",
      "CONTROLLER/MESSAGES", "CONTROLLER/STATUSUPDATES">>

\* What AddNode and ensureParticipantConfig create for a participant.
AddNodeOrder ==
    <<"config", "instance", "messages", "currentstates", "errors", "statusupdates">>

\* Mutant: a participant that joins makes its instance before its config.
JoinOrderInstanceFirst ==
    <<"instance", "config", "currentstates", "errors", "health", "messages",
      "statusupdates">>

JoinOrder ==
    <<"config", "instance", "currentstates", "errors", "health", "messages",
      "statusupdates">>

Elements(s) == {s[i] : i \in DOMAIN s}
ClusterNodes == Elements(ClusterOrder)
InstanceNodes == Elements(JoinOrder) \ {"config", "instance"}
AllNodes == ClusterNodes \cup Elements(JoinOrder)

\* The tree: where the paths of KeyBuilder are not directly below the cluster.
Root == "/"
Above ==
    [p \in AllNodes |->
        CASE p = "cluster" -> Root
          [] p = "stateModels" -> "STATEMODELDEFS"
          [] p \in {"CONFIGS/PARTICIPANT", "CONFIGS/RESOURCE", "CONFIGS/CLUSTER"} -> "CONFIGS"
          [] p = "clusterConfig" -> "CONFIGS/CLUSTER"
          [] p \in {"CONTROLLER/ERRORS", "CONTROLLER/HISTORY", "CONTROLLER/MESSAGES",
                    "CONTROLLER/STATUSUPDATES"} -> "CONTROLLER"
          [] p = "config" -> "CONFIGS/PARTICIPANT"
          [] p = "instance" -> "INSTANCES"
          [] p \in InstanceNodes -> "instance"
          [] OTHER -> "cluster"]

\* Operations that create nodes, in their order; those that look at some; and
\* those that remove some.
Order == [addCluster |-> ClusterOrder, addNode |-> AddNodeOrder, join |-> JoinOrder]
Reads == [listClusterInfo |-> <<"IDEALSTATES", "INSTANCES">>,
          listResources |-> <<"IDEALSTATES">>,
          listInstances |-> <<"INSTANCES">>,
          listInstanceInfo |-> <<"config">>,
          getInstances |-> <<"INSTANCES">>,
          listClusters |-> <<>>]
Drops == {"dropCluster", "dropNode", "dropInstance"}
Ops == DOMAIN Order \cup DOMAIN Reads \cup Drops

\* What calls that have ended leave of a cluster and of a participant in it.
Starts == {{}, ClusterNodes} \cup {ClusterNodes \cup Elements(s) : s \in {AddNodeOrder, JoinOrder}}

ASSUME AdminAssumption ==
    /\ Mixes \subseteq [ops : SUBSET Ops, most : Nat, from : Starts]
    /\ MaxCrashes \in Nat

VARIABLES
    mix,
    nodes,     \* paths that exist
    pc, op,    \* each client's call: where it is and which it is
    step,      \* progress in the list it is going through
    chain,     \* what ensurePath has found missing, deepest first
    path,      \* what DeleteTree is at
    todo,      \* children it has listed and not been at
    calls,     \* calls so far
    dropped,   \* removing operations called so far
    raced,     \* one of them was called beside another call
    ended,     \* calls of each kind that have created all of their nodes
    crashes

callVars == <<op, step, chain, path, todo>>
countVars == <<mix, calls, dropped, raced, ended, crashes>>
vars == <<mix, nodes, pc, op, step, chain, path, todo, calls, dropped, raced, ended,
          crashes>>

Children(p) == {q \in nodes : Above[q] = p}

Pcs == {"idle", "check", "exists", "allowed", "ensure", "fill", "create", "read",
        "dropConfig", "dropInstance", "delete", "rmExists", "rmChildren", "rmNext",
        "rmDelete", "dead"}

\* Every variable keeps its type: no call ever touches a node outside the
\* cluster's and the participant's own.
TypeOK ==
    /\ mix \in Mixes
    /\ nodes \subseteq AllNodes
    /\ pc \in [Clients -> Pcs]
    /\ op \in [Clients -> Ops]
    /\ step \in [Clients -> 1 .. Len(ClusterOrder)]
    /\ chain \in [Clients -> Seq(AllNodes)]
    /\ path \in [Clients -> AllNodes]
    /\ todo \in [Clients -> SUBSET AllNodes]
    /\ calls \in 0 .. mix.most
    /\ dropped \subseteq Drops /\ raced \in BOOLEAN
    /\ ended \in [DOMAIN Order -> 0 .. mix.most]
    /\ crashes \in 0 .. MaxCrashes

Init ==
    /\ mix \in Mixes
    /\ nodes = mix.from
    /\ pc = [c \in Clients |-> "idle"]
    /\ op = [c \in Clients |-> "addNode"]
    /\ step = [c \in Clients |-> 1]
    /\ chain = [c \in Clients |-> <<>>]
    /\ path = [c \in Clients |-> "config"]
    /\ todo = [c \in Clients |-> {}]
    /\ calls = 0 /\ dropped = {} /\ raced = FALSE
    /\ ended = [o \in DOMAIN Order |-> 0]
    /\ crashes = 0

Goto(c, there) == pc' = [pc EXCEPT ![c] = there]

\* A call that returns leaves nothing behind in its process.
Return(c) ==
    /\ Goto(c, "idle")
    /\ step' = [step EXCEPT ![c] = 1]
    /\ path' = [path EXCEPT ![c] = "config"]
    /\ todo' = [todo EXCEPT ![c] = {}]
    /\ UNCHANGED <<op, chain>>

-----------------------------------------------------------------------------
Busy == {c \in Clients : pc[c] \notin {"idle", "dead"}}

\* Mutant: ListResources does not look first.
FirstPcUnchecked(o) ==
    CASE o = "addCluster" -> "exists"
      [] o = "dropNode" -> "dropConfig"
      [] o = "dropInstance" -> "delete"
      [] o = "dropCluster" -> "rmExists"
      [] o \in {"getInstances", "listResources"} -> "read"
      [] OTHER -> "check"

\* What a call does first: most ask IsClusterSetup; AddCluster asks whether the
\* cluster exists, and the others nothing.
FirstPc(o) ==
    CASE o = "addCluster" -> "exists"
      [] o = "dropNode" -> "dropConfig"
      [] o = "dropInstance" -> "delete"
      [] o = "dropCluster" -> "rmExists"
      [] o = "getInstances" -> "read"
      [] OTHER -> "check"

Call(c, o) ==
    /\ pc[c] = "idle" /\ o \in mix.ops /\ calls < mix.most
    /\ calls' = calls + 1
    /\ dropped' = dropped \cup ({o} \cap Drops)
    /\ raced' = (raced \/ (Busy # {} /\ (o \in Drops \/ \E d \in Busy : op[d] \in Drops)))
    /\ op' = [op EXCEPT ![c] = o]
    /\ path' = [path EXCEPT ![c] = IF o = "dropCluster" THEN "cluster" ELSE "config"]
    /\ Goto(c, FirstPc(o))
    /\ UNCHANGED <<mix, nodes, step, chain, todo, ended, crashes>>

Crash(c) ==
    /\ c \in Busy /\ crashes < MaxCrashes
    /\ crashes' = crashes + 1
    /\ Goto(c, "dead")
    /\ UNCHANGED <<nodes, callVars, mix, calls, dropped, raced, ended>>

\* A check that has succeeded is followed by another, by reads, or by nothing.
AfterCheck(o) ==
    IF o \in {"listClusterInfo", "listResources", "listInstances"} THEN "read" ELSE "exists"

\* IsClusterSetup: ErrClusterNotSetup at the first path that is missing.
Check(c) ==
    /\ pc[c] = "check"
    /\ IF CheckOrder[step[c]] \notin nodes
       THEN Return(c)
       ELSE IF step[c] < Len(CheckOrder)
       THEN step' = [step EXCEPT ![c] = @ + 1] /\ UNCHANGED <<pc, op, chain, path, todo>>
       ELSE IF op[c] = "listClusters"
       THEN Return(c)
       ELSE Goto(c, AfterCheck(op[c])) /\ step' = [step EXCEPT ![c] = 1]
            /\ UNCHANGED <<op, chain, path, todo>>
    /\ UNCHANGED <<nodes, countVars>>

\* CreateRecordWithPath calls ensurePath before the Create.
CreatePc(p) == IF p \in {"config", "clusterConfig"} THEN "ensure" ELSE "create"

\* What is there already is not made again: false, ErrNodeAlreadyExists, or
\* for a participant, go on.  ListInstanceInfo asks for what it reads.
Exists(c) ==
    LET there == IF op[c] = "listInstanceInfo" THEN "config" \in nodes
                                               ELSE Order[op[c]][1] \in nodes IN
    /\ pc[c] = "exists"
    /\ \/ /\ op[c] = "listInstanceInfo"
          /\ IF there THEN Goto(c, "read") /\ UNCHANGED callVars ELSE Return(c)
       \/ /\ op[c] = "join"
          /\ Goto(c, "allowed")
          /\ step' = [step EXCEPT ![c] = IF there THEN 2 ELSE 1]
          /\ UNCHANGED <<op, chain, path, todo>>
       \/ /\ op[c] \in {"addCluster", "addNode"}
          /\ IF there THEN Return(c)
                      ELSE Goto(c, CreatePc(Order[op[c]][1])) /\ UNCHANGED callVars
    /\ UNCHANGED <<nodes, countVars>>

\* autoJoinAllowed waits for the cluster's config; here it allows.
AutoJoinAllowed(c) ==
    /\ pc[c] = "allowed" /\ "clusterConfig" \in nodes
    /\ IF step[c] = 2 THEN Return(c) ELSE Goto(c, "ensure") /\ UNCHANGED callVars
    /\ UNCHANGED <<nodes, countVars>>

-----------------------------------------------------------------------------
(* Creating.                                                               *)

Target(c) == Order[op[c]][step[c]]
Deepest(c) == IF chain[c] = <<>> THEN Target(c) ELSE Last(chain[c])

\* Mutant: ensurePath does not stop at the root.
EnsurePathRootless(c) ==
    LET p == Above[Deepest(c)] IN
    /\ pc[c] = "ensure"
    /\ IF p \in nodes
       THEN Goto(c, IF chain[c] = <<>> THEN "create" ELSE "fill") /\ UNCHANGED chain
       ELSE chain' = [chain EXCEPT ![c] = Append(@, p)] /\ UNCHANGED pc
    /\ UNCHANGED <<nodes, op, step, path, todo, countVars>>

\* ensurePath goes up to the first path that exists.
EnsurePath(c) ==
    LET p == Above[Deepest(c)] IN
    /\ pc[c] = "ensure"
    /\ IF p \in nodes \cup {Root}
       THEN Goto(c, IF chain[c] = <<>> THEN "create" ELSE "fill") /\ UNCHANGED chain
       ELSE chain' = [chain EXCEPT ![c] = Append(@, p)] /\ UNCHANGED pc
    /\ UNCHANGED <<nodes, op, step, path, todo, countVars>>

\* A Create is refused when the node exists or its parent does not.
Refused(p) == p \in nodes \/ Above[p] \notin nodes \cup {Root}

\* ... and comes down again, creating what was missing.
FillPath(c) ==
    LET p == Last(chain[c]) IN
    /\ pc[c] = "fill" /\ ~Refused(p)
    /\ nodes' = nodes \cup {p}
    /\ chain' = [chain EXCEPT ![c] = Front(@)]
    /\ Goto(c, IF Len(chain[c]) = 1 THEN "create" ELSE "fill")
    /\ UNCHANGED <<op, step, path, todo, countVars>>

Create(c) ==
    /\ pc[c] = "create" /\ ~Refused(Target(c))
    /\ nodes' = nodes \cup {Target(c)}
    /\ IF step[c] = Len(Order[op[c]])
       THEN Return(c) /\ ended' = [ended EXCEPT ![op[c]] = @ + 1]
       ELSE /\ step' = [step EXCEPT ![c] = @ + 1]
            /\ Goto(c, CreatePc(Order[op[c]][step[c] + 1]))
            /\ UNCHANGED <<op, chain, path, todo, ended>>
    /\ UNCHANGED <<mix, calls, dropped, raced, crashes>>

\* Mutant: the error of a Create is ignored.
CreateFailsIgnored(c) ==
    /\ pc[c] = "create" /\ Refused(Target(c))
    /\ IF step[c] = Len(Order[op[c]])
       THEN Return(c) /\ ended' = [ended EXCEPT ![op[c]] = @ + 1]
       ELSE /\ step' = [step EXCEPT ![c] = @ + 1]
            /\ Goto(c, CreatePc(Order[op[c]][step[c] + 1]))
            /\ UNCHANGED <<op, chain, path, todo, ended>>
    /\ UNCHANGED <<mix, nodes, calls, dropped, raced, crashes>>

\* must(err)
CreateFails(c) ==
    /\ \/ pc[c] = "create" /\ Refused(Target(c))
       \/ pc[c] = "fill" /\ Refused(Last(chain[c]))
    /\ Goto(c, "dead")
    /\ UNCHANGED <<nodes, callVars, countVars>>

-----------------------------------------------------------------------------
(* Listing: Children and Get wait for the node.                            *)

Read(c) ==
    /\ pc[c] = "read" /\ Reads[op[c]][step[c]] \in nodes
    /\ IF step[c] = Len(Reads[op[c]])
       THEN Return(c)
       ELSE step' = [step EXCEPT ![c] = @ + 1] /\ UNCHANGED <<pc, op, chain, path, todo>>
    /\ UNCHANGED <<nodes, countVars>>

-----------------------------------------------------------------------------
(* Dropping.                                                               *)

\* ErrNodeNotExist
DropConfigExists(c) ==
    /\ pc[c] = "dropConfig"
    /\ Goto(c, IF "config" \in nodes THEN "dropInstance" ELSE "idle")
    /\ UNCHANGED <<nodes, callVars, countVars>>

\* ErrInstanceNotExist
DropInstanceExists(c) ==
    /\ pc[c] = "dropInstance"
    /\ Goto(c, IF "instance" \in nodes THEN "rmExists" ELSE "idle")
    /\ UNCHANGED <<nodes, callVars, countVars>>

\* DropInstance deletes a node that has children, with must(err).
DeleteInstance(c) ==
    /\ pc[c] = "delete"
    /\ IF "instance" \in nodes /\ Children("instance") = {}
       THEN nodes' = nodes \ {"instance"} /\ Return(c)
       ELSE Goto(c, "dead") /\ UNCHANGED <<nodes, callVars>>
    /\ UNCHANGED countVars

\* DropNode's DeleteTree of the config is followed by that of the instance,
\* and both errors are ignored; the first error ends a DeleteTree.
TreeEnds(c) ==
    IF op[c] = "dropNode" /\ path[c] = "config"
    THEN /\ path' = [path EXCEPT ![c] = "instance"]
         /\ Goto(c, "rmExists")
         /\ UNCHANGED <<op, step, chain, todo>>
    ELSE Return(c)

SubtreeGone(c) ==
    IF path[c] = "cluster" \/ (op[c] = "dropNode" /\ path[c] \in {"config", "instance"})
    THEN TreeEnds(c)
    ELSE /\ path' = [path EXCEPT ![c] = Above[@]]
         /\ Goto(c, "rmNext")
         /\ UNCHANGED <<op, step, chain, todo>>

TreeExists(c) ==
    /\ pc[c] = "rmExists"
    /\ IF path[c] \in nodes
       THEN Goto(c, "rmChildren") /\ UNCHANGED callVars
       ELSE SubtreeGone(c)
    /\ UNCHANGED <<nodes, countVars>>

\* Children waits for the node, should it have gone meanwhile.
TreeChildren(c) ==
    /\ pc[c] = "rmChildren" /\ path[c] \in nodes
    /\ todo' = [todo EXCEPT ![c] = @ \cup Children(path[c])]
    /\ Goto(c, IF Children(path[c]) = {} THEN "rmDelete" ELSE "rmNext")
    /\ UNCHANGED <<nodes, op, step, chain, path, countVars>>

\* The children come in any order, in DropCluster, to keep the model small, in
\* that of the Creates.
InOrder(S) ==
    LET all == ClusterOrder \o JoinOrder
    IN {all[i] : i \in {i \in DOMAIN all :
            all[i] \in S /\ \A j \in DOMAIN all : j < i => all[j] \notin S}}
NextChildren(c) ==
    LET left == {p \in todo[c] : Above[p] = path[c]}
    IN IF op[c] = "dropNode" THEN left ELSE InOrder(left)

\* The children, then the node itself.
TreeNext(c) ==
    /\ pc[c] = "rmNext"
    /\ \/ \E p \in NextChildren(c) :
             /\ todo' = [todo EXCEPT ![c] = @ \ {p}]
             /\ path' = [path EXCEPT ![c] = p]
             /\ Goto(c, "rmExists")
       \/ NextChildren(c) = {} /\ Goto(c, "rmDelete") /\ UNCHANGED <<path, todo>>
    /\ UNCHANGED <<nodes, op, step, chain, countVars>>

\* Mutant: a refused Delete is tried again.
TreeDeleteRetried(c) ==
    /\ pc[c] = "rmDelete"
    /\ path[c] \in nodes /\ Children(path[c]) = {}
    /\ nodes' = nodes \ {path[c]} /\ SubtreeGone(c)
    /\ UNCHANGED countVars

\* A Delete is refused when the node is gone or has children.
TreeDelete(c) ==
    /\ pc[c] = "rmDelete"
    /\ IF path[c] \in nodes /\ Children(path[c]) = {}
       THEN nodes' = nodes \ {path[c]} /\ SubtreeGone(c)
       ELSE TreeEnds(c) /\ UNCHANGED nodes
    /\ UNCHANGED countVars

-----------------------------------------------------------------------------
CallStep(c) ==
    \/ Check(c) \/ Exists(c) \/ AutoJoinAllowed(c)
    \/ EnsurePath(c) \/ FillPath(c) \/ Create(c) \/ CreateFails(c) \/ Read(c)
    \/ DropConfigExists(c) \/ DropInstanceExists(c) \/ DeleteInstance(c)
    \/ TreeExists(c) \/ TreeChildren(c) \/ TreeNext(c) \/ TreeDelete(c)

Next == \E c \in Clients : CallStep(c) \/ Crash(c) \/ \E o \in Ops : Call(c, o)

Spec == Init /\ [][Next]_vars

\* Calls that can go on do.
FairSpec == Spec /\ WF_vars(\E c \in Clients : CallStep(c))

-----------------------------------------------------------------------------
(* Properties.                                                             *)

\* What IsClusterSetup says is true of everything AddCluster makes, also of
\* the nodes it does not look for and while AddCluster is still at it: the
\* last node it looks for is the last one that is created.
SetupIsComplete ==
    \A c \in Clients :
        /\ pc[c] \in {"exists", "allowed", "ensure", "create", "read"}
        /\ op[c] \notin {"addCluster", "getInstances"} /\ "dropCluster" \notin dropped
        => ClusterNodes \subseteq nodes

\* Of calls that create the same nodes at the same time, at most one gets
\* through, and what it has made is all there (Exists and then Create, with
\* must, in AddCluster, AddNode and ensureParticipantConfig).
Registered ==
    \/ Elements(AddNodeOrder) \subseteq nodes
    \/ Elements(JoinOrder) \subseteq nodes
AddedOnce ==
    /\ "dropCluster" \notin dropped =>
          /\ ended["addCluster"] <= 1
          /\ ended["addCluster"] = 1 => ClusterNodes \subseteq nodes
    /\ dropped = {} =>
          /\ ended["addNode"] + ended["join"] <= 1
          /\ ended["addNode"] + ended["join"] = 1 => Registered

\* Whatever was called, and whichever calls have panicked on the way, nothing is
\* left half made when all calls are over, if no process was killed and nothing
\* was dropped beside another call.
Settled ==
    Busy = {} /\ ~raced /\ crashes = 0 =>
        /\ "cluster" \in nodes => ClusterNodes \subseteq nodes
        /\ "config" \in nodes => Registered
        /\ "instance" \in nodes => "config" \in nodes

\* A call that waits for a node that is not there.
Waits(c) ==
    \/ pc[c] = "read" /\ Reads[op[c]][step[c]] \notin nodes
    \/ pc[c] = "allowed" /\ "clusterConfig" \notin nodes
    \/ pc[c] = "rmChildren" /\ path[c] \notin nodes

\* Looking first is enough: only after something was dropped can a call wait
\* for a node, except GetInstances, which does not look (IsClusterSetup, then
\* Children or Get, in the List... calls and in autoJoinAllowed).
WaitsOnlyAfterDrop ==
    \A c \in Clients : Waits(c) => dropped # {} \/ op[c] = "getInstances"

\* Every call ends or panics, unless it waits for a node another one has deleted
\* (DeleteTree, Children, Get).
CallsReturn == []<>\A c \in Clients : pc[c] \in {"idle", "dead"} \/ Waits(c)

\* DropNode says that it removes a node from a cluster: when no call is under
\* way, a node that AddNode would refuse as existing is one DropNode accepts.
ExistingCanBeDropped == Busy = {} /\ "config" \in nodes => "instance" \in nodes
=============================================================================
