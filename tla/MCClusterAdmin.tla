--------------------------- MODULE MCClusterAdmin ---------------------------
(* Calls that are made together, for TLC.                                  *)
EXTENDS ClusterAdmin

Mix(ops, n, from) == [ops |-> ops, most |-> n, from |-> from]

\* Everything there is after AddCluster and AddNode.
Full == AllNodes \ {"health"}

\* Adding and dropping of nodes, in a cluster that is being added or is there;
\* every call beside one that drops; a cluster dropped while it is added, and
\* while a node is.
Nodewise == {"addCluster", "addNode", "join", "dropNode"}
MCMixes ==
    {Mix(Nodewise, 3, {}),
     Mix(Nodewise, 3, ClusterNodes),
     Mix(Nodewise \cup Drops \cup DOMAIN Reads, 2, Full),
     Mix({"addCluster", "dropCluster"} \cup DOMAIN Reads, 2, {}),
     Mix({"addNode", "join", "dropCluster"}, 2, ClusterNodes)}

\* A node that is there, dropped and added again.
OneMix == {Mix({"addNode", "dropNode"}, 2, Full)}
=============================================================================
