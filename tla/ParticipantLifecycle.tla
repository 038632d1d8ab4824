------------------------ MODULE ParticipantLifecycle ------------------------
(***************************************************************************)
(* Connect and Disconnect of gohelix participants that carry the same      *)
(* ParticipantID: one program connecting again, a restart while the last   *)
(* run's session lives on, a second process started by mistake.  Each      *)
(* participant p has the goroutine that calls Connect and Disconnect and   *)
(* one event loop goroutine per Connect; all of them share one mailbox and *)
(* one tree of current states, and the loops of a process share p.conn,    *)
(* which they read again for each call.  One step is one ZooKeeper         *)
(* request, channel operation or read of p.state.  The orders are about    *)
(* one resource, each about a partition of its own.                        *)
(***************************************************************************)
EXTENDS Integers, Sequences

CONSTANTS
    Participants,  \* Participant values with one ParticipantID
    Limits         \* the bounds of a run: who connects, Connect calls of
                   \* each, ZooKeeper sessions, retries of createLiveInstance
                   \* (15 in the code), processes killed, orders the controller
                   \* sends; whether the participant is registered at first,
                   \* and the sessions of earlier runs that have left a record

ASSUME LifecycleAssumption ==
    /\ Limits \subseteq [who : SUBSET Participants, connects : Nat \ {0},
                        sessions : Nat \ {0}, tries : Nat, crashes : Nat,
                        orders : Nat, registered : BOOLEAN, earlier : Nat]
    /\ \A l \in Limits : l.earlier <= l.sessions /\ (l.earlier > 0 => l.registered)

VARIABLES
    limit,
    \* ZooKeeper
    clusterUp,   \* the nodes IsClusterSetup looks for exist
    nodes,       \* the participant's own nodes
    alive,       \* sessions ZooKeeper has not closed
    lastSession, \* sessions are numbered in the order they are opened
    tree,        \* what there is of each session under CURRENTSTATES: its
                 \* node, and in it the resource's, still empty or a record
    live,        \* the live instance: session that owns it, SESSION_ID in it
    target,      \* TGT_SESSION_ID of each order, NoSession if not sent yet
    mail,        \* orders under MESSAGES
    applied,     \* <<session, order>>: its partition's state is recorded
    \* each participant
    pc,          \* where its Connect or Disconnect is
    pstate,      \* p.state
    sess,        \* p.conn.GetSessionID(), NoSession without a connection
    connects,    \* Connect calls so far
    made,        \* nodes ensureParticipantConfig has created
    toClean,     \* sessions cleanUp has listed,
    cleaning,    \* and the one it is at
    liveId,      \* SESSION_ID createLiveInstance put in its data
    tries,       \* its retries left
    stopClosed,  \* p.stop has been closed
    loops,       \* the event loop goroutine each Connect has started,
    hand,        \* the order it is at,
    got,         \* and what UpdateMapField has read: the session, its orders
    crashes,
    met          \* two processes with this ParticipantID, or two event loops
                 \* of one, have run at once

nodeVars == <<clusterUp, nodes>>
sessionVars == <<alive, lastSession, live>>
stateVars == <<tree, applied>>
mailVars == <<target, mail>>
zkVars == <<nodeVars, sessionVars, stateVars, mailVars>>
cleanVars == <<toClean, cleaning>>
callVars == <<connects, made, cleanVars, liveId, tries>>
loopVars == <<loops, hand, got>>
procVars == <<pstate, sess, stopClosed>>
ghostVars == <<limit, crashes, met>>
vars == <<zkVars, callVars, loopVars, procVars, ghostVars, pc>>

NoSession == 0
AllSessions == 1 .. limit.sessions
NoLive == [owner |-> NoSession, id |-> NoSession]
Generations == 1 .. limit.connects
Orders == 1 .. limit.orders
NoOrder == 0

\* ensureParticipantConfig creates them in this order.
NodeOrder == <<"config", "instance", "currentstates", "errors", "health",
               "messages", "statusupdates">>

OwnNodes == {NodeOrder[i] : i \in DOMAIN NodeOrder}

Cleaning == {"children", "resource", "resourceChildren", "resourceDelete", "delete"}
Connecting == {"setup", "ensure", "create", "list", "clean", "live"} \cup Cleaning
Disconnecting == {"disconnect", "sendStop", "closeStop", "await", "close"}

\* A loop that has an order is before a call on p.conn, or inside one, before a
\* read or before a write that must not fail.  On a connection that was closed
\* it is "lost" in a read, or "broken" by a write.
BeforeCall == {"get", "exists", "ensure", "apply", "remove"}
InRead == {"setGet", "msgChildren"}
InWrite == {"mkSession", "mkResource", "set", "applySet"}
Working == BeforeCall \cup InRead \cup InWrite \cup {"msgDelete", "lost", "broken"}

\* Every variable keeps its type; the retries of createLiveInstance and the
\* Creates of ensureParticipantConfig stay within their number.
TypeOK ==
    /\ clusterUp \in BOOLEAN
    /\ nodes \subseteq OwnNodes
    /\ limit \in Limits
    /\ alive \subseteq AllSessions
    /\ lastSession \in 0 .. limit.sessions
    /\ tree \in [AllSessions -> {"none", "session", "empty", "record"}]
    /\ live \in [owner : 0 .. limit.sessions, id : 0 .. limit.sessions]
    /\ target \in [Orders -> 0 .. limit.sessions]
    /\ mail \subseteq Orders
    /\ applied \subseteq AllSessions \X Orders
    /\ pc \in [Participants -> {"off", "up", "dead"} \cup Connecting \cup Disconnecting]
    /\ pstate \in [Participants -> {"connected", "started", "stopped", "disconnected"}]
    /\ sess \in [Participants -> 0 .. limit.sessions]
    /\ connects \in [Participants -> 0 .. limit.connects]
    /\ made \in [Participants -> 0 .. Len(NodeOrder)]
    /\ toClean \in [Participants -> SUBSET AllSessions]
    /\ cleaning \in [Participants -> 0 .. limit.sessions]
    /\ liveId \in [Participants -> 0 .. limit.sessions]
    /\ tries \in [Participants -> 0 .. limit.tries]
    /\ stopClosed \in [Participants -> BOOLEAN]
    /\ loops \in [Participants -> [Generations ->
                    {"none", "ready", "running", "stopping", "stopped"} \cup Working]]
    /\ hand \in [Participants -> [Generations -> Orders \cup {NoOrder}]]
    /\ got \in [Participants -> [Generations ->
                  [path : 0 .. limit.sessions, of : SUBSET Orders]]]
    /\ crashes \in 0 .. limit.crashes /\ met \in BOOLEAN

NothingRead == [path |-> NoSession, of |-> {}]

Init ==
    /\ limit \in Limits
    /\ clusterUp \in {limit.registered, TRUE}
    /\ nodes = IF limit.registered THEN OwnNodes ELSE {}
    /\ alive = {} /\ lastSession = limit.earlier /\ live = NoLive
    /\ tree = [s \in AllSessions |-> IF s <= limit.earlier THEN "record" ELSE "none"]
    /\ target = [o \in Orders |-> NoSession] /\ mail = {} /\ applied = {}
    /\ pc = [p \in Participants |-> "off"]
    /\ pstate = [p \in Participants |-> "connected"]   \* the zero value
    /\ sess = [p \in Participants |-> NoSession]
    /\ connects = [p \in Participants |-> 0]
    /\ made = [p \in Participants |-> 0]
    /\ toClean = [p \in Participants |-> {}]
    /\ cleaning = [p \in Participants |-> NoSession]
    /\ liveId = [p \in Participants |-> NoSession]
    /\ tries = [p \in Participants |-> 0]
    /\ stopClosed = [p \in Participants |-> FALSE]
    /\ loops = [p \in Participants |-> [g \in Generations |-> "none"]]
    /\ hand = [p \in Participants |-> [g \in Generations |-> NoOrder]]
    /\ got = [p \in Participants |-> [g \in Generations |-> NothingRead]]
    /\ crashes = 0 /\ met = FALSE

Goto(p, there) == pc' = [pc EXCEPT ![p] = there]

\* A panic or a kill ends every goroutine of the process; the session stays
\* until ZooKeeper times it out.
Die(p) ==
    /\ Goto(p, "dead")
    /\ loops' = [loops EXCEPT ![p] = [g \in Generations |-> "none"]]
    /\ hand' = [hand EXCEPT ![p] = [g \in Generations |-> NoOrder]]
    /\ got' = [got EXCEPT ![p] = [g \in Generations |-> NothingRead]]

-----------------------------------------------------------------------------
(* ZooKeeper, the controller and the administrator.                        *)

\* An ephemeral node goes with its session.
EndSession(s) ==
    /\ alive' = alive \ {s}
    /\ live' = IF live.owner = s THEN NoLive ELSE live

OpenSession(p) ==
    /\ lastSession < limit.sessions
    /\ lastSession' = lastSession + 1
    /\ sess' = [sess EXCEPT ![p] = lastSession + 1]

\* The administrator sets the cluster up.
SetupCluster ==
    /\ ~clusterUp
    /\ clusterUp' = TRUE
    /\ UNCHANGED <<nodes, sessionVars, stateVars, mailVars, callVars, loopVars, procVars,
                   ghostVars, pc>>

\* The controller addresses an order to the session the live instance names.
Send(o) ==
    /\ target[o] = NoSession /\ live # NoLive /\ "messages" \in nodes
    /\ target' = [target EXCEPT ![o] = live.id]
    /\ mail' = mail \cup {o}
    /\ UNCHANGED <<nodeVars, sessionVars, stateVars, callVars, loopVars, procVars,
                   ghostVars, pc>>

\* A connected client loses its session and is given another.
Expire(p) ==
    /\ pc[p] # "dead" /\ sess[p] # NoSession
    /\ OpenSession(p)
    /\ alive' = (alive \ {sess[p]}) \cup {lastSession + 1}
    /\ live' = IF live.owner = sess[p] THEN NoLive ELSE live
    /\ UNCHANGED <<nodeVars, stateVars, mailVars, callVars, loopVars, pstate, stopClosed,
                   ghostVars, pc>>

\* ZooKeeper times out the session of a dead process.
TimeOut(p) ==
    /\ pc[p] = "dead" /\ sess[p] \in alive
    /\ EndSession(sess[p])
    /\ UNCHANGED <<nodeVars, lastSession, stateVars, mailVars, callVars, loopVars,
                   procVars, ghostVars, pc>>

Crash(p) ==
    /\ pc[p] # "dead" /\ crashes < limit.crashes
    /\ crashes' = crashes + 1
    /\ Die(p)
    /\ UNCHANGED <<zkVars, callVars, procVars, limit, met>>

-----------------------------------------------------------------------------
(* Connect.                                                                *)

\* A connection that is still open is used again.
Connect(p) ==
    /\ pc[p] = "off" /\ p \in limit.who /\ connects[p] < limit.connects
    /\ connects' = [connects EXCEPT ![p] = @ + 1]
    /\ IF sess[p] # NoSession
       THEN UNCHANGED <<sess, alive, lastSession>>
       ELSE OpenSession(p) /\ alive' = alive \cup {lastSession + 1}
    /\ Goto(p, "setup")
    /\ met' = (met \/ \E q \in Participants \ {p} : connects[q] > 0 /\ pc[q] # "dead")
    /\ UNCHANGED <<nodeVars, live, stateVars, mailVars, made, cleanVars, liveId, tries,
                   loopVars, pstate, stopClosed, limit, crashes>>

\* ErrClusterNotSetup leaves the connection open.
IsClusterSetup(p) ==
    /\ pc[p] = "setup"
    /\ Goto(p, IF clusterUp THEN "ensure" ELSE "off")
    /\ UNCHANGED <<zkVars, callVars, loopVars, procVars, ghostVars>>

\* Mutant: whoever is not registered goes on as if it were.
EnsureNothing(p) ==
    /\ pc[p] = "ensure"
    /\ IF "config" \in nodes THEN Goto(p, "list")
       ELSE \E there \in {"create", "list"} : Goto(p, there)
    /\ made' = [made EXCEPT ![p] = 0]
    /\ UNCHANGED <<zkVars, connects, cleanVars, liveId, tries, loopVars, procVars, ghostVars>>

\* Not registered: it joins if the cluster's config allows that, whatever the
\* administrator has written there last; or Disconnect,
\* ErrEnsureParticipantConfig.
EnsureParticipantConfig(p) ==
    /\ pc[p] = "ensure"
    /\ IF "config" \in nodes THEN Goto(p, "list")
       ELSE \E there \in {"create", "disconnect"} : Goto(p, there)
    /\ made' = [made EXCEPT ![p] = 0]
    /\ UNCHANGED <<zkVars, connects, cleanVars, liveId, tries, loopVars, procVars, ghostVars>>

\* The participant's nodes, one Create after the other; one that exists is an
\* error, and must(err) a panic.
CreateNode(p) ==
    LET n == NodeOrder[made[p] + 1] IN
    /\ pc[p] = "create" /\ n \notin nodes
    /\ nodes' = nodes \cup {n}
    /\ made' = [made EXCEPT ![p] = @ + 1]
    /\ Goto(p, IF made[p] + 1 = Len(NodeOrder) THEN "list" ELSE "create")
    /\ UNCHANGED <<clusterUp, sessionVars, stateVars, mailVars, connects,
                   cleanVars, liveId, tries, loopVars, procVars, ghostVars>>

CreateNodeFails(p) ==
    /\ pc[p] = "create" /\ NodeOrder[made[p] + 1] \in nodes
    /\ Die(p)
    /\ UNCHANGED <<zkVars, callVars, procVars, ghostVars>>

\* cleanUp: Children waits for the node.
ListSessions(p) ==
    /\ pc[p] = "list" /\ "currentstates" \in nodes
    /\ toClean' = [toClean EXCEPT ![p] = {s \in AllSessions : tree[s] # "none"}]
    /\ Goto(p, "clean")
    /\ UNCHANGED <<zkVars, connects, made, cleaning, liveId, tries, loopVars, procVars,
                   ghostVars>>

\* Every session but its own, whether that is over or not; DeleteTree asks
\* whether the node is there ...
CleanSession(p, s) ==
    /\ pc[p] = "clean" /\ s \in toClean[p]
    /\ toClean' = [toClean EXCEPT ![p] = @ \ {s}]
    /\ cleaning' = [cleaning EXCEPT ![p] = s]
    /\ Goto(p, IF s = sess[p] \/ tree[s] = "none" THEN "clean" ELSE "children")
    /\ UNCHANGED <<zkVars, connects, made, liveId, tries, loopVars, procVars, ghostVars>>

HasResource(s) == tree[s] \in {"empty", "record"}

At(p, s, there) == cleaning[p] = s /\ pc[p] = there

\* ... and lists the children of what was there: first the session's, then the
\* resource's.  Children waits for a node that another has deleted meanwhile.
CleanLooks(p, s) ==
    /\ \/ At(p, s, "children") /\ tree[s] # "none"
          /\ Goto(p, IF HasResource(s) THEN "resource" ELSE "delete")
       \/ At(p, s, "resource")
          /\ Goto(p, IF HasResource(s) THEN "resourceChildren" ELSE "delete")
       \/ At(p, s, "resourceChildren") /\ HasResource(s)
          /\ Goto(p, "resourceDelete")
    /\ UNCHANGED <<zkVars, callVars, loopVars, procVars, ghostVars>>

CleanResource(p, s) ==
    /\ At(p, s, "resourceDelete") /\ HasResource(s)
    /\ tree' = [tree EXCEPT ![s] = "session"]
    /\ applied' = {a \in applied : a[1] # s}
    /\ Goto(p, "delete")
    /\ UNCHANGED <<nodeVars, sessionVars, mailVars, callVars, loopVars, procVars, ghostVars>>

CleanDelete(p, s) ==
    /\ At(p, s, "delete") /\ tree[s] = "session"
    /\ tree' = [tree EXCEPT ![s] = "none"]
    /\ Goto(p, "clean")
    /\ UNCHANGED <<nodeVars, sessionVars, applied, mailVars, callVars, loopVars, procVars,
                   ghostVars>>

\* A node that is gone, or that has a child again, is not deleted: must(err).
CleanFails(p, s) ==
    /\ \/ At(p, s, "resourceDelete") /\ ~HasResource(s)
       \/ At(p, s, "delete") /\ tree[s] # "session"
    /\ Die(p)
    /\ UNCHANGED <<zkVars, callVars, procVars, ghostVars>>

\* loop() starts the goroutine and returns; createLiveInstance then makes its
\* data, once, before the retries.
StartLoop(p) ==
    /\ pc[p] = "clean" /\ toClean[p] = {}
    /\ loops' = [loops EXCEPT ![p][connects[p]] = "ready"]
    /\ liveId' = [liveId EXCEPT ![p] = sess[p]]
    /\ tries' = [tries EXCEPT ![p] = limit.tries]
    /\ met' = (met \/ \E g \in Generations : loops[p][g] \notin {"none", "stopped", "lost"})
    /\ Goto(p, "live")
    /\ UNCHANGED <<zkVars, connects, made, cleanVars, hand, got, procVars, limit, crashes>>

CreateLiveInstance(p) ==
    /\ pc[p] = "live" /\ live = NoLive
    /\ live' = [owner |-> sess[p], id |-> liveId[p]]
    /\ Goto(p, "up")
    /\ UNCHANGED <<nodeVars, alive, lastSession, stateVars, mailVars, callVars, loopVars,
                   procVars, ghostVars>>

\* Mutant: the retries are not counted against a limit.
LiveInstanceExistsUncounted(p) ==
    /\ pc[p] = "live" /\ live # NoLive
    /\ tries' = [tries EXCEPT ![p] = @ - 1]
    /\ UNCHANGED <<zkVars, connects, made, cleanVars, liveId, loopVars, procVars, ghostVars, pc>>

\* Mutant: after the last retry the error is dropped.
LiveInstanceExistsIgnored(p) ==
    /\ pc[p] = "live" /\ live # NoLive
    /\ IF tries[p] > 0
       THEN tries' = [tries EXCEPT ![p] = @ - 1] /\ UNCHANGED pc
       ELSE Goto(p, "up") /\ UNCHANGED tries
    /\ UNCHANGED <<zkVars, connects, made, cleanVars, liveId, loopVars, procVars, ghostVars>>

\* ErrNodeExists: wait a second, or panic when no try is left.
LiveInstanceExists(p) ==
    /\ pc[p] = "live" /\ live # NoLive
    /\ IF tries[p] > 0
       THEN tries' = [tries EXCEPT ![p] = @ - 1] /\ UNCHANGED <<pc, loopVars>>
       ELSE Die(p) /\ UNCHANGED tries
    /\ UNCHANGED <<zkVars, connects, made, cleanVars, liveId, procVars, ghostVars>>

-----------------------------------------------------------------------------
(* The event loop goroutines.                                              *)

LoopGoto(p, g, there) == loops' = [loops EXCEPT ![p][g] = there]

\* p.state = psStarted is the goroutine's first statement.
LoopStarts(p, g) ==
    /\ loops[p][g] = "ready"
    /\ LoopGoto(p, g, "running")
    /\ pstate' = [pstate EXCEPT ![p] = "started"]
    /\ UNCHANGED <<zkVars, callVars, hand, got, sess, stopClosed, ghostVars, pc>>

\* Mutant: the loop does not say that it has stopped.
LoopStopsSilently(p, g) ==
    /\ \/ loops[p][g] = "stopping"
       \/ loops[p][g] = "running" /\ stopClosed[p]
    /\ LoopGoto(p, g, "stopped")
    /\ UNCHANGED <<zkVars, callVars, hand, got, procVars, ghostVars, pc>>

\* <-p.stop returns: the value was received, or the channel is closed.
LoopStops(p, g) ==
    /\ \/ loops[p][g] = "stopping"
       \/ loops[p][g] = "running" /\ stopClosed[p]
    /\ LoopGoto(p, g, "stopped")
    /\ pstate' = [pstate EXCEPT ![p] = "stopped"]
    /\ UNCHANGED <<zkVars, callVars, hand, got, sess, stopClosed, ghostVars, pc>>

\* From a snapshot that lists it.
LoopTakes(p, g, o) ==
    /\ loops[p][g] = "running" /\ o \in mail
    /\ LoopGoto(p, g, "get")
    /\ hand' = [hand EXCEPT ![p][g] = o]
    /\ UNCHANGED <<zkVars, callVars, got, procVars, ghostVars, pc>>

\* What each step of processMessage leaves alone.
loopElse == <<nodeVars, sessionVars, callVars, procVars, ghostVars, pc>>

Holds(p, g, o, at) == hand[p][g] = o /\ loops[p][g] = at
\* Calls are made on p.conn as it is now.
Calls(p, g, o, at) == Holds(p, g, o, at) /\ sess[p] # NoSession
IsOwn(p, o) == target[o] = sess[p]

\* An order for another session comes from an expired one and is removed.
LoopGets(p, g, o) ==
    /\ Calls(p, g, o, "get") /\ o \in mail
    /\ LoopGoto(p, g, IF IsOwn(p, o) THEN "exists" ELSE "remove")
    /\ UNCHANGED <<stateVars, mailVars, hand, got, loopElse>>

\* postHandleMessage skips an order when the session has changed.
AfterRecord(p, o) == IF IsOwn(p, o) THEN "apply" ELSE "remove"

\* The record is looked for under the session the order is addressed to.
LoopExists(p, g, o) ==
    /\ Calls(p, g, o, "exists")
    /\ LoopGoto(p, g, IF HasResource(target[o]) THEN AfterRecord(p, o) ELSE "ensure")
    /\ UNCHANGED <<stateVars, mailVars, hand, got, loopElse>>

\* SetRecordForPath: what of its path is not there is created, empty, ...
LoopEnsures(p, g, o) ==
    /\ Calls(p, g, o, "ensure")
    /\ LoopGoto(p, g, IF HasResource(target[o]) THEN "setGet"
                      ELSE IF tree[target[o]] = "session" THEN "mkResource" ELSE "mkSession")
    /\ UNCHANGED <<stateVars, mailVars, hand, got, loopElse>>

LoopCreates(p, g, o) ==
    /\ \/ /\ Holds(p, g, o, "mkSession") /\ tree[target[o]] = "none"
          /\ tree' = [tree EXCEPT ![target[o]] = "session"]
          /\ LoopGoto(p, g, "mkResource")
       \/ /\ Holds(p, g, o, "mkResource") /\ tree[target[o]] = "session"
          /\ tree' = [tree EXCEPT ![target[o]] = "empty"]
          /\ LoopGoto(p, g, "setGet")
    /\ UNCHANGED <<applied, mailVars, hand, got, loopElse>>

\* ... its version is read, once it is there, ...
LoopSetGets(p, g, o) ==
    /\ Holds(p, g, o, "setGet") /\ HasResource(target[o])
    /\ LoopGoto(p, g, "set")
    /\ UNCHANGED <<stateVars, mailVars, hand, got, loopElse>>

\* Mutant: the order is removed before its state is applied.
LoopSetsAndRemoves(p, g, o) ==
    /\ Holds(p, g, o, "set") /\ HasResource(target[o])
    /\ tree' = [tree EXCEPT ![target[o]] = "record"]
    /\ applied' = {a \in applied : a[1] # target[o]}
    /\ LoopGoto(p, g, AfterRecord(p, o))
    /\ mail' = mail \ {o}
    /\ UNCHANGED <<target, hand, got, loopElse>>

\* ... and a record without any states is set, over whatever is there by now.
LoopSets(p, g, o) ==
    /\ Holds(p, g, o, "set") /\ HasResource(target[o])
    /\ tree' = [tree EXCEPT ![target[o]] = "record"]
    /\ applied' = {a \in applied : a[1] # target[o]}
    /\ LoopGoto(p, g, AfterRecord(p, o))
    /\ UNCHANGED <<mailVars, hand, got, loopElse>>

\* UpdateMapField.  The session is read again for the path.
LoopReads(p, g, o, s) ==
    /\ Calls(p, g, o, "apply")
    /\ s \in {target[o], sess[p]} /\ tree[s] = "record"
    /\ got' = [got EXCEPT ![p][g] = [path |-> s, of |-> {a[2] : a \in {b \in applied : b[1] = s}}]]
    /\ LoopGoto(p, g, "applySet")
    /\ UNCHANGED <<stateVars, mailVars, hand, loopElse>>

LoopApplies(p, g, o, s) ==
    /\ Holds(p, g, o, "applySet") /\ got[p][g].path = s /\ HasResource(s)
    /\ tree' = [tree EXCEPT ![s] = "record"]
    /\ applied' = {a \in applied : a[1] # s} \cup ({s} \X (got[p][g].of \cup {o}))
    /\ got' = [got EXCEPT ![p][g] = NothingRead]
    /\ LoopGoto(p, g, "remove")
    /\ UNCHANGED <<mailVars, hand, loopElse>>

\* must(err): the node was made or removed by others since, its version is not
\* the one in conn.stat, whoever has read last, it has no record in it yet, or
\* the connection is closed.
LoopFails(p, g, o) ==
    /\ \/ Holds(p, g, o, "mkSession") /\ tree[target[o]] # "none"
       \/ Holds(p, g, o, "mkResource") /\ tree[target[o]] # "session"
       \/ Holds(p, g, o, "set") \/ Holds(p, g, o, "applySet")
       \/ Calls(p, g, o, "apply") /\ \E s \in {target[o], sess[p]} : tree[s] = "empty"
       \/ Holds(p, g, o, "broken")
    /\ Die(p)
    /\ UNCHANGED <<zkVars, callVars, procVars, ghostVars>>

LoopDone(p, g) ==
    /\ LoopGoto(p, g, "running")
    /\ hand' = [hand EXCEPT ![p][g] = NoOrder]

\* DeleteTree of the order: is it there, has it children, Delete.  Children
\* waits for an order that another has deleted meanwhile.
LoopRemoves(p, g, o) ==
    /\ \/ Calls(p, g, o, "remove") /\ o \notin mail /\ LoopDone(p, g)
       \/ /\ o \in mail
          /\ \/ Calls(p, g, o, "remove") /\ LoopGoto(p, g, "msgChildren")
             \/ Holds(p, g, o, "msgChildren") /\ LoopGoto(p, g, "msgDelete")
          /\ UNCHANGED hand
    /\ UNCHANGED <<stateVars, mailVars, got, loopElse>>

LoopDeletes(p, g, o) ==
    /\ Holds(p, g, o, "msgDelete")
    /\ mail' = mail \ {o}
    /\ LoopDone(p, g)
    /\ UNCHANGED <<stateVars, target, got, loopElse>>

\* A call made on a connection that is closed: they all begin with a read.
LoopLost(p, g) ==
    /\ loops[p][g] \in BeforeCall /\ sess[p] = NoSession
    /\ LoopGoto(p, g, "lost")
    /\ UNCHANGED <<zkVars, callVars, hand, got, procVars, ghostVars, pc>>

-----------------------------------------------------------------------------
(* Disconnect.                                                             *)

Disconnect(p) ==
    /\ pc[p] \in {"up", "off"} /\ connects[p] > 0
    /\ Goto(p, "disconnect")
    /\ UNCHANGED <<zkVars, callVars, loopVars, procVars, ghostVars>>


\* p.state decides: nothing to do, stop the loop first, or only close.
ReadState(p) ==
    /\ pc[p] = "disconnect"
    /\ Goto(p, CASE pstate[p] = "disconnected" -> "off"
                 [] pstate[p] = "started" -> "sendStop"
                 [] OTHER -> "close")
    /\ UNCHANGED <<zkVars, callVars, loopVars, procVars, ghostVars>>

\* p.stop <- true meets a loop in its select.
SendStop(p, g) ==
    /\ pc[p] = "sendStop" /\ ~stopClosed[p]
    /\ loops[p][g] = "running"
    /\ LoopGoto(p, g, "stopping")
    /\ Goto(p, "closeStop")
    /\ UNCHANGED <<zkVars, callVars, hand, got, procVars, ghostVars>>

\* Sending on the channel an earlier Disconnect closed panics.
SendOnClosed(p) ==
    /\ pc[p] = "sendStop" /\ stopClosed[p]
    /\ Die(p)
    /\ UNCHANGED <<zkVars, callVars, procVars, ghostVars>>

CloseStop(p) ==
    /\ pc[p] = "closeStop"
    /\ stopClosed' = [stopClosed EXCEPT ![p] = TRUE]
    /\ Goto(p, "await")
    /\ UNCHANGED <<zkVars, callVars, loopVars, pstate, sess, ghostVars>>

AwaitStopped(p) ==
    /\ pc[p] = "await" /\ pstate[p] = "stopped"
    /\ Goto(p, "close")
    /\ UNCHANGED <<zkVars, callVars, loopVars, procVars, ghostVars>>

\* The calls under way fail; the error of the order's Delete is ignored.
AfterClose(at) ==
    CASE at \in InRead -> "lost"
      [] at \in InWrite -> "broken"
      [] at = "msgDelete" -> "running"
      [] OTHER -> at

CloseConnection(p) ==
    /\ pc[p] = "close"
    /\ EndSession(sess[p])
    /\ sess' = [sess EXCEPT ![p] = NoSession]
    /\ loops' = [loops EXCEPT ![p] = [g \in Generations |-> AfterClose(@[g])]]
    /\ hand' = [hand EXCEPT ![p] =
                  [g \in Generations |-> IF loops[p][g] = "msgDelete" THEN NoOrder ELSE @[g]]]
    /\ got' = [got EXCEPT ![p] = [g \in Generations |-> NothingRead]]
    /\ pstate' = [pstate EXCEPT ![p] = "disconnected"]
    /\ Goto(p, "off")
    /\ UNCHANGED <<nodeVars, lastSession, stateVars, mailVars, callVars, stopClosed, ghostVars>>

-----------------------------------------------------------------------------
ConnectStep(p) ==
    \/ IsClusterSetup(p) \/ EnsureParticipantConfig(p) \/ CreateNode(p)
    \/ CreateNodeFails(p) \/ ListSessions(p)
    \/ \E s \in AllSessions :
          \/ CleanSession(p, s) \/ CleanLooks(p, s) \/ CleanResource(p, s)
          \/ CleanDelete(p, s) \/ CleanFails(p, s)
    \/ StartLoop(p) \/ CreateLiveInstance(p) \/ LiveInstanceExists(p)

DisconnectStep(p) ==
    \/ ReadState(p) \/ \E g \in Generations : SendStop(p, g)
    \/ SendOnClosed(p) \/ CloseStop(p) \/ AwaitStopped(p) \/ CloseConnection(p)

ProcessMessage(p, g, o) ==
    \/ LoopGets(p, g, o) \/ LoopExists(p, g, o) \/ LoopEnsures(p, g, o)
    \/ LoopCreates(p, g, o) \/ LoopSetGets(p, g, o) \/ LoopSets(p, g, o)
    \/ \E s \in AllSessions : LoopReads(p, g, o, s) \/ LoopApplies(p, g, o, s)
    \/ LoopFails(p, g, o) \/ LoopRemoves(p, g, o) \/ LoopDeletes(p, g, o)

\* A goroutine leaves "ready", goes on with its order, and leaves "running"
\* once it can see the stop.
LoopStep(p) ==
    \E g \in Generations :
        \/ LoopStarts(p, g) \/ LoopStops(p, g) \/ LoopLost(p, g)
        \/ \E o \in Orders : ProcessMessage(p, g, o)

Next ==
    \/ SetupCluster
    \/ \E o \in Orders : Send(o)
    \/ \E p \in Participants :
          \/ Expire(p) \/ TimeOut(p) \/ Crash(p)
          \/ Connect(p) \/ ConnectStep(p)
          \/ LoopStep(p) \/ \E g \in Generations, o \in Orders : LoopTakes(p, g, o)
          \/ Disconnect(p) \/ DisconnectStep(p)

Spec == Init /\ [][Next]_vars

\* Goroutines that can run do, and retried reads end once their node is there.
\* Nobody has to connect, disconnect, expire or crash.
Fairness ==
    \A p \in Participants :
        WF_vars(ConnectStep(p)) /\ WF_vars(DisconnectStep(p)) /\ WF_vars(LoopStep(p))

FairSpec == Spec /\ Fairness

-----------------------------------------------------------------------------
(* Properties.                                                             *)

\* Disconnect never waits for a loop that is not there: p.state is psStarted
\* only while some event loop runs that will receive the stop (Disconnect,
\* loop; p.state is written by three goroutines without a lock).
StartedHasLoop ==
    \A p \in Participants :
        pc[p] # "dead" /\ pstate[p] = "started" =>
            \E g \in Generations : loops[p][g] \in {"running", "stopping"} \cup Working

\* Connect returns without error only as the registered instance: the live
\* node is the participant's, unless its session has changed since
\* (createLiveInstance, retries and must).
UpIsRegistered ==
    \A p \in Participants :
        pc[p] = "up" /\ sess[p] = liveId[p] => live = [owner |-> sess[p], id |-> sess[p]]

\* No order is lost and no state undone while its participant lives: what was
\* sent to the session of a running process, named by a live instance of that
\* session, is under MESSAGES or recorded under CURRENTSTATES, over restarts,
\* expiries and the orders of earlier runs, whole records being written and the
\* loop of an earlier Connect being left behind.  It takes two processes or two
\* loops at once to break this (cleanUp removes the states of every other
\* session, processMessage the orders for every other session, and the states
\* another loop has recorded when it sets the record).
RunningOwner ==
    live # NoLive /\ \E p \in Participants : pc[p] # "dead" /\ sess[p] = live.owner
NoOrderLost ==
    ~met /\ live.owner = live.id /\ RunningOwner =>
        \A o \in Orders :
            target[o] = live.id => o \in mail \/ <<live.id, o>> \in applied

\* Connect returns or panics, unless another process was killed between its
\* Creates, and cleanUp waits for CURRENTSTATES (ensureParticipantConfig); or
\* another cleanUp has removed the node whose children it asks for (DeleteTree).
HalfRegistered == "config" \in nodes /\ "currentstates" \notin nodes
CleanWaits(p) ==
    \E s \in AllSessions :
        \/ At(p, s, "children") /\ tree[s] = "none"
        \/ At(p, s, "resourceChildren") /\ ~HasResource(s)
ConnectReturns ==
    \A p \in Participants : []<>(pc[p] \notin Connecting \/ HalfRegistered \/ CleanWaits(p))

\* Disconnect returns or panics whatever was connected before (the handshake
\* over p.stop and the polling of p.state), unless all event loops left are in a
\* read that waits for a node: an order or a record another process has removed,
\* the record of a session it was given meanwhile, or on a connection that is
\* closed.
LoopWaits(p, g) ==
    LET o == hand[p][g] IN
    \/ loops[p][g] = "lost"
    \/ loops[p][g] \in {"get", "msgChildren"} /\ o \notin mail
    \/ loops[p][g] \in {"setGet", "apply"} /\ ~HasResource(target[o])
    \/ loops[p][g] = "apply" /\ sess[p] # NoSession /\ ~HasResource(sess[p])
LoopsWait(p) ==
    /\ \E g \in Generations : LoopWaits(p, g)
    /\ \A g \in Generations : loops[p][g] \in {"none", "stopped"} \/ LoopWaits(p, g)

\* Connect says that the participant gets "ready to receive cluster messages":
\* one that stays connected has an event loop that is not about to stop.
Listening(p) == ~stopClosed[p] /\ \E g \in Generations : loops[p][g] = "running"
ConnectedListens ==
    \A p \in Participants : pc[p] = "up" ~> (Listening(p) \/ pc[p] # "up")
=============================================================================
