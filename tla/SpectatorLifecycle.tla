------------------------- MODULE SpectatorLifecycle -------------------------
(***************************************************************************)
(* A gohelix spectator and the program that uses it: Connect, Disconnect   *)
(* and the Add...Listener calls of src/spectator.go around the listening   *)
(* side of SpectatorView.  The calls are made by the program's main        *)
(* goroutine, in any order, and in the tracer (src/helix/trace.go) by its  *)
(* live instance listener, each call of which is a goroutine of its own:   *)
(* it adds a current state and a message listener for the instances that   *)
(* were not in the view it was last called with.  One participant is       *)
(* listened to in this way.  The connection is never found broken, so      *)
(* loop() runs once.                                                       *)
(***************************************************************************)
EXTENDS SpectatorView

CONSTANTS
    Scenarios,   \* what programs do; fields in ScenarioAssumption
    Tasks        \* listener goroutines of the tracer that overlap

Calls == Kinds \cup {"connect", "disconnect", "setContext", "currentState", "message"}

\* before: kinds with a listener to begin with; calls: those the main goroutine
\* makes, at most "most" of them; tracing: the live instance listener is the
\* tracer's; changes: the MaxChanges of this program; up: the cluster is set up
\* from the start.  The main goroutine of the tracer adds no current state
\* listeners.
ASSUME ScenarioAssumption ==
    /\ Scenarios \subseteq [before : SUBSET Kinds, calls : SUBSET Calls,
                            most : Nat, tracing : BOOLEAN, changes : 1 .. MaxChanges,
                            up : BOOLEAN]
    /\ \A s \in Scenarios : s.tracing => "currentState" \notin s.calls
    /\ "main" \notin Tasks

VARIABLES
    scenario,
    clusterUp,     \* the nodes IsClusterSetup looks for exist
    depth,         \* the participant's nodes: none, CURRENTSTATES and
                   \* MESSAGES, a session in the former, a resource in that
    sessionGone,   \* the session a caller has found there is removed
    mail,          \* MESSAGES is not empty
    conn,          \* s.conn is connected, not nil
    sstate,        \* s.state
    registered,    \* kinds with a listener
    csListeners,   \* current state listeners of the participant
    msgListeners,  \* its message listeners
    msgWatchers,   \* goroutines of watchInstanceMessages that have not read
    pc,            \* the call each goroutine of the program is in, and where
    calls,
    \* the tracer
    lastLive,      \* lastLiveInstances has the participant
    seen,          \* so has the view of each goroutine
    overlapped     \* two listener goroutines have been there together

externalVars == <<scenario, clusterUp, depth, sessionGone, mail>>
spectatorVars == <<conn, sstate, registered, csListeners, msgListeners, msgWatchers>>
tracerVars == <<lastLive, seen, overlapped>>
programVars == <<pc, calls, tracerVars>>
callerVars == <<externalVars, spectatorVars, programVars>>
vars == <<viewVars, callerVars>>

Callers == {"main"} \cup Tasks
InCall == (Calls \ {"connect", "disconnect"}) \cup {"setup", "csChildren", "csResources", "selfLock", "stop", "await"}

\* Every variable keeps its type; loop() finds no current state listener, for
\* adding one without a connection panics.
TypeOK ==
    /\ ViewTypeOK
    /\ lock \in {"free"} \cup Callers
    /\ scenario \in Scenarios /\ clusterUp \in BOOLEAN
    /\ depth \in 0 .. 3 /\ {sessionGone, mail} \subseteq BOOLEAN
    /\ conn \in BOOLEAN /\ sstate \in {"connected", "disconnected"}
    /\ registered \subseteq Kinds
    /\ {csListeners, msgListeners, msgWatchers} \subseteq Nat
    /\ pc \in [Callers -> InCall \cup {"idle", "diff", "save"}]
    /\ pc["main"] = "setup" => csListeners = 0
    /\ calls \in 0 .. scenario.most
    /\ lastLive \in BOOLEAN /\ seen \in [Tasks -> BOOLEAN] /\ overlapped \in BOOLEAN

\* The kinds a program has to do with; whether it listens to the participant.
Relevant(s) == s.before \cup (s.calls \cap Kinds)
Participates(s) == s.tracing \/ s.calls \cap {"currentState", "message"} # {}

Init ==
    /\ scenario \in Scenarios
    /\ ViewInit
    /\ \A n \in Present : n[1] \in Relevant(scenario)
    /\ clusterUp \in {scenario.up, TRUE}
    /\ depth \in (IF Participates(scenario) THEN 0 .. 3 ELSE {0})
    /\ sessionGone = FALSE /\ mail = FALSE
    /\ conn = FALSE /\ sstate = "connected"   \* the zero value
    /\ registered = scenario.before
    /\ csListeners = 0 /\ msgListeners = 0 /\ msgWatchers = 0
    /\ pc = [c \in Callers |-> "idle"]
    /\ calls = 0
    /\ lastLive = FALSE /\ seen = [t \in Tasks |-> FALSE] /\ overlapped = FALSE

-----------------------------------------------------------------------------
(* The administrator and the participant.                                  *)

SetupCluster ==
    /\ ~clusterUp
    /\ clusterUp' = TRUE
    /\ UNCHANGED <<viewVars, scenario, depth, sessionGone, mail, spectatorVars, programVars>>

\* It joins, records a state, gets a message; and its session's states are
\* removed again by its cleanUp, or all of its nodes by DropNode.  A session
\* that is removed does not come back.
ParticipantStep ==
    /\ Participates(scenario)
    /\ Change /\ changes < scenario.changes
    /\ \/ depth < 3 /\ depth' = depth + 1 /\ UNCHANGED mail
       \/ depth > 0 /\ depth' = depth - 1 /\ mail' = (mail /\ depth > 1)
       \/ depth > 0 /\ mail' = ~mail /\ UNCHANGED depth
    /\ sessionGone' = \/ sessionGone
                      \/ depth = 2 /\ depth' = 1 /\ \E c \in Callers : pc[c] = "csResources"
    /\ UNCHANGED <<view, deletes, expires, missed, parentVars, watcherVars, active, queue, loopVars,
                   lock, crash, scenario, clusterUp, spectatorVars, programVars>>

\* What is written before the spectator listens is an initial state.
Controls ==
    /\ lpc # "off" /\ changes < scenario.changes
    /\ Expire \/ \E n \in Nodes : n[1] \in Relevant(scenario) /\ (Write(n) \/ Delete(n))
    /\ UNCHANGED callerVars

-----------------------------------------------------------------------------
(* The calls.                                                              *)

Goto(c, there) == pc' = [pc EXCEPT ![c] = there]

\* The tracer's listener adds a message listener after the current state one,
\* then keeps what it was called with.
Return(c) ==
    Goto(c, IF c = "main" THEN "idle" ELSE IF pc[c] = "message" THEN "save" ELSE "message")

Called(call) ==
    /\ ~crash /\ pc["main"] = "idle" /\ call \in scenario.calls
    /\ calls < scenario.most /\ calls' = calls + 1

\* A connection that is open is a spectator that is connected.
Connect ==
    /\ Called("connect")
    /\ conn' = TRUE
    /\ IF conn THEN UNCHANGED pc ELSE Goto("main", "setup")
    /\ UNCHANGED <<viewVars, externalVars, sstate, registered, csListeners, msgListeners,
                   msgWatchers, tracerVars>>

\* The other calls lock the spectator's mutex first.
Call(call) ==
    /\ Called(call) /\ call \notin {"connect", "disconnect"}
    /\ Goto("main", call)
    /\ UNCHANGED <<viewVars, externalVars, spectatorVars, tracerVars>>

\* loop() starts what there are listeners for, or ErrClusterNotSetup, which
\* leaves the connection open.
IsClusterSetup ==
    /\ ~crash /\ pc["main"] = "setup"
    /\ IF clusterUp
       THEN /\ Start(registered)
            /\ sstate' = "connected"
            /\ msgWatchers' = IF msgListeners > 0 THEN msgWatchers + 1 ELSE msgWatchers
       ELSE UNCHANGED <<viewVars, sstate, msgWatchers>>
    /\ Goto("main", "idle")
    /\ UNCHANGED <<externalVars, conn, registered, csListeners, msgListeners,
                   calls, tracerVars>>

\* AddExternalViewChangeListener and the others that only append to a list,
\* and SetContext.
AddListener ==
    /\ ~crash /\ pc["main"] \in Kinds \cup {"setContext"} /\ lock = "free"
    /\ registered' = registered \cup ({pc["main"]} \cap Kinds)
    /\ Return("main")
    /\ UNCHANGED <<viewVars, externalVars, conn, sstate, csListeners,
                   msgListeners, msgWatchers, calls, tracerVars>>

\* The first listener of an instance is watched for at once, under the lock; a
\* spectator counts as connected until it is disconnected, and without a
\* connection this panics.
AddCurrentStateChangeListener(c) ==
    LET watch == csListeners = 0 /\ sstate = "connected" IN
    /\ ~crash /\ pc[c] = "currentState" /\ lock = "free"
    /\ csListeners' = csListeners + 1
    /\ crash' = (watch /\ ~conn)
    /\ IF watch THEN Goto(c, "csChildren") /\ lock' = c ELSE Return(c) /\ UNCHANGED lock
    /\ UNCHANGED <<pipeVars, externalVars, conn, sstate, registered,
                   msgListeners, msgWatchers, calls, tracerVars>>

\* watchCurrentStateForInstance lists the sessions and the resources of the
\* first, which waits if that session is gone; for a resource it locks again
\* what it holds.
ListResources(c) == pc[c] = "csResources" /\ ~sessionGone

WatchCurrentState(c) ==
    /\ ~crash
    /\ \/ pc[c] = "csChildren" /\ depth = 1
       \/ ListResources(c) /\ depth = 2
    /\ lock' = "free"
    /\ Return(c)
    /\ UNCHANGED <<pipeVars, crash, externalVars, spectatorVars, calls, tracerVars>>

WatchCurrentStateDeeper(c) ==
    /\ ~crash
    /\ \/ pc[c] = "csChildren" /\ depth > 1 /\ Goto(c, "csResources")
       \/ ListResources(c) /\ depth > 2 /\ Goto(c, "selfLock")
    /\ UNCHANGED <<viewVars, externalVars, spectatorVars, calls, tracerVars>>

AddMessageListener(c) ==
    /\ ~crash /\ pc[c] = "message" /\ lock = "free"
    /\ msgListeners' = msgListeners + 1
    /\ msgWatchers' = IF msgListeners = 0 /\ sstate = "connected"
                      THEN msgWatchers + 1 ELSE msgWatchers
    /\ Return(c)
    /\ UNCHANGED <<viewVars, externalVars, conn, sstate, registered,
                   csListeners, calls, tracerVars>>

\* watchInstanceMessages: panics without a connection, and at the first message
\* it would remember; otherwise it writes to a channel that nobody reads.
WatchInstanceMessages ==
    /\ ~crash /\ msgWatchers > 0
    /\ ~conn \/ depth > 0
    /\ msgWatchers' = msgWatchers - 1
    /\ crash' = (~conn \/ mail)
    /\ UNCHANGED <<pipeVars, lock, externalVars, conn, sstate, registered,
                   csListeners, msgListeners, programVars>>

-----------------------------------------------------------------------------
(* Disconnect.                                                             *)

Disconnect ==
    /\ Called("disconnect")
    /\ IF sstate = "disconnected" THEN UNCHANGED pc ELSE Goto("main", "stop")
    /\ UNCHANGED <<viewVars, externalVars, spectatorVars, tracerVars>>

\* s.stop <- true meets the loop in its select.
SendStop ==
    /\ ~crash /\ pc["main"] = "stop" /\ lpc = "select"
    /\ lpc' = "stopping"
    /\ Goto("main", "await")
    /\ UNCHANGED <<zkVars, parentVars, watcherVars, active, queue, current,
                   visited, reading, keys, result, lock, crash, externalVars,
                   spectatorVars, calls, tracerVars>>

\* Mutant: the loop returns and does not say so.
LoopReturnsSilently ==
    /\ ~crash /\ lpc = "stopping"
    /\ lpc' = "returned"
    /\ UNCHANGED <<zkVars, parentVars, watcherVars, active, queue, current,
                   visited, reading, keys, result, lock, crash, callerVars>>

\* The loop sets s.state and returns; the parents and the watchers go on.
LoopReturns ==
    /\ ~crash /\ lpc = "stopping"
    /\ lpc' = "returned"
    /\ sstate' = "disconnected"
    /\ UNCHANGED <<zkVars, parentVars, watcherVars, active, queue, current,
                   visited, reading, keys, result, lock, crash, externalVars,
                   conn, registered, csListeners, msgListeners, msgWatchers,
                   programVars>>

AwaitDisconnected ==
    /\ ~crash /\ pc["main"] = "await" /\ sstate = "disconnected"
    /\ Goto("main", "idle")
    /\ UNCHANGED <<viewVars, externalVars, spectatorVars, calls, tracerVars>>

-----------------------------------------------------------------------------
(* The listener calls and the tracer's liveInstanceChangeListener.         *)

Busy == {t \in Tasks : pc[t] # "idle"}
Traced == scenario.tracing /\ current = "liveInstance"

\* Each listener call is a goroutine; those beyond Tasks are left out.
ListenerCalled ==
    /\ CallListener
    /\ IF Traced /\ Busy # Tasks
       THEN LET t == CHOOSE t \in Tasks \ Busy : TRUE IN
            /\ Goto(t, "diff")
            /\ seen' = [seen EXCEPT ![t] = \E n \in Of("liveInstance") : result[n] # Absent]
            /\ overlapped' = (overlapped \/ Busy # {})
       ELSE UNCHANGED <<pc, seen, overlapped>>
    /\ UNCHANGED <<externalVars, spectatorVars, calls, lastLive>>

\* Mutant: the last view is compared the other way round.
DiffSwapped(t) ==
    /\ ~crash /\ pc[t] = "diff"
    /\ Goto(t, IF lastLive /\ ~seen[t] THEN "currentState" ELSE "save")
    /\ UNCHANGED <<viewVars, externalVars, spectatorVars, calls, tracerVars>>

\* diffRecords: the participant is new, it gets its two listeners.
Diff(t) ==
    /\ ~crash /\ pc[t] = "diff"
    /\ Goto(t, IF seen[t] /\ ~lastLive THEN "currentState" ELSE "save")
    /\ UNCHANGED <<viewVars, externalVars, spectatorVars, calls, tracerVars>>

\* Mutant: the view is not kept.
SaveNothing(t) ==
    /\ ~crash /\ pc[t] = "save"
    /\ seen' = [seen EXCEPT ![t] = FALSE]
    /\ Goto(t, "idle")
    /\ UNCHANGED <<viewVars, externalVars, spectatorVars, calls, lastLive,
                   overlapped>>

Save(t) ==
    /\ ~crash /\ pc[t] = "save"
    /\ lastLive' = seen[t]
    /\ seen' = [seen EXCEPT ![t] = FALSE]
    /\ Goto(t, "idle")
    /\ UNCHANGED <<viewVars, externalVars, spectatorVars, calls, overlapped>>

-----------------------------------------------------------------------------
LoopStep == (ReadView /\ UNCHANGED callerVars) \/ ListenerCalled \/ LoopReturns
ParentStep(k) == Parent(k) /\ UNCHANGED callerVars
WatcherStep(n) == Watcher(n) /\ UNCHANGED callerVars

SharedCallStep(c) ==
    \/ AddCurrentStateChangeListener(c) \/ WatchCurrentState(c)
    \/ WatchCurrentStateDeeper(c) \/ AddMessageListener(c)

MainStep ==
    \/ IsClusterSetup \/ AddListener \/ SharedCallStep("main")
    \/ SendStop \/ AwaitDisconnected

TaskStep(t) == Diff(t) \/ SharedCallStep(t) \/ Save(t)

Goroutines ==
    \/ MainStep \/ WatchInstanceMessages \/ LoopStep
    \/ \E t \in Tasks : TaskStep(t)
    \/ \E k \in Kinds : ParentStep(k)
    \/ \E n \in Nodes : WatcherStep(n)

Next ==
    \/ SetupCluster \/ ParticipantStep \/ Controls
    \/ Connect \/ Disconnect \/ \E call \in Calls : Call(call)
    \/ Goroutines

Spec == Init /\ [][Next]_vars

(***************************************************************************)
(* The scheduler does not idle while a goroutine can run.  That is less    *)
(* than it guarantees, and enough: what happens outside is bounded.        *)
(* Nothing is assumed of the controller, the participant, the session, or  *)
(* of what the program calls.                                              *)
(***************************************************************************)
FairSpec == Spec /\ WF_vars(Goroutines)

-----------------------------------------------------------------------------
(* Properties.                                                             *)

\* The mutex is held by a goroutine that locks it again, or waits in it for a
\* participant that is not registered or for a session that was removed.
LockLost ==
    \E c \in Callers : \/ pc[c] = "selfLock"
                       \/ pc[c] = "csChildren" /\ depth = 0
                       \/ pc[c] = "csResources" /\ sessionGone

\* The loop waits for a node that was removed after its name was read.
Stuck == lpc = "read" /\ reading \cap Present = {}
Stopped == crash \/ lpc \in {"stopping", "returned"}

\* The stamp of a node in the view that the listeners have been called with.
Shown(n) == IF lpc = "select" \/ current # n[1] THEN result[n] ELSE Absent

\* What keeps a parent from announcing anything more: live instances are not
\* watched after an expiry, instance configs not once the mutex is lost.
ParentLost(k) == \/ k = "liveInstance" /\ ppc[k] = "error"
                 \/ k = "instanceConfig" /\ LockLost

\* Once nothing more happens, every node there is has been shown to the
\* listeners, whatever the program calls (the parents, loop,
\* handleChangeNotification).
Unshowable(k) == ppc[k] = "off" \/ Stopped \/ Stuck \/ ParentLost(k)
CreatedIsShown ==
    []<>\A n \in Present :
            n[1] # "controllerMessage" => Shown(n) # Absent \/ Unshowable(n[1])

\* ... and in its latest version, unless that was written between the event of
\* its watcher and the next GetW (watchExternalViewResource and its copies).
WatchedWriteIsShown ==
    []<>\A n \in Present \ missed :
            n[1] \in Watched => Shown(n) = view[n] \/ Unshowable(n[1])

\* Every call of the program ends or panics, except Disconnect without a loop
\* that takes the stop, a current state listener for a participant that is not
\* registered, has resources or loses the session that was listed, and whoever
\* needs the mutex then.
WaitsForEver(c) ==
    \/ pc[c] = "stop" /\ (lpc = "off" \/ Stuck)
    \/ LockLost /\ pc[c] \in InCall \ {"setup", "stop", "await"}
CallsReturn == []<>\A c \in Callers : pc[c] = "idle" \/ crash \/ WaitsForEver(c)

\* In the end the tracer listens to the messages of an instance it is shown, if
\* it can have the mutex (liveInstanceChangeListener).
LiveInstanceIsTraced ==
    []<>(\A n \in Of("liveInstance") :
            scenario.tracing /\ Shown(n) # Absent => msgListeners > 0 \/ crash \/ LockLost)

\* An instance gets a listener each time it comes up, more only if views were
\* delivered to listeners that overlap (loop: go l(li, s.context)).
TracedOncePerLife ==
    scenario.tracing /\ ~overlapped => csListeners <= deletes + 1
=============================================================================
