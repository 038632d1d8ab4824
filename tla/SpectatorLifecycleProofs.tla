----------------------- MODULE SpectatorLifecycleProofs -----------------------
(***************************************************************************)
(* Proofs about a spectator and its program, for any nodes, programs,      *)
(* tracer goroutines, capacity of the channel and bounds.                  *)
(***************************************************************************)
EXTENDS SpectatorLifecycle, SpectatorViewProofs

\* The connection is opened once; without it nothing is listened to, and a
\* current state listener has been added only on the way to a panic.
ConnectInv ==
    /\ lpc # "off" => conn
    /\ ~conn => lpc = "off" /\ pc["main"] # "setup"
    /\ ~conn /\ ~crash => csListeners = 0
    /\ sstate = "disconnected" => lpc = "returned"
    /\ lpc = "returned" => sstate = "disconnected"
    /\ pc["main"] = "setup" => lpc = "off" /\ csListeners = 0
    /\ lpc = "off" => \A t \in Tasks : pc[t] = "idle"
    /\ \A t \in Tasks : pc[t] \in {"idle", "diff", "currentState", "csChildren", "csResources",
                               "selfLock", "message", "save"}

USE ScenarioAssumption
    DEF zkVars, parentVars, watcherVars, loopVars, externalVars, spectatorVars, tracerVars,
        programVars, callerVars, viewVars, pipeVars, Goto, Return, Called

\* What a program is.
LEMMA ScenarioType ==
  ASSUME scenario \in Scenarios
  PROVE  /\ scenario.before \in SUBSET Kinds /\ scenario.calls \in SUBSET Calls
         /\ scenario.most \in Nat /\ scenario.tracing \in BOOLEAN
         /\ scenario.changes \in 1 .. MaxChanges /\ scenario.up \in BOOLEAN
         /\ scenario.tracing => "currentState" \notin scenario.calls
         /\ "main" \notin Tasks
         /\ MaxChanges \in Nat /\ MaxChanges >= 1
BY SpectatorAssumption DEF SpectatorAssumption, ScenarioAssumption

\* The listening side stands still ...
LEMMA ViewSame ==
  ASSUME ViewInv, UNCHANGED viewVars
  PROVE  ViewInv'
<1>1. changes' \in 0 .. MaxChanges /\ crash' \in BOOLEAN
  BY DEF ViewInv, ViewTypeOK, ZkTypes, ReadTypes
<1> QED BY <1>1, InvViewFrame

\* ... but for a panic.
LEMMA PipeSame ==
  ASSUME ViewInv, UNCHANGED pipeVars, crash' \in BOOLEAN
  PROVE  ViewInv'
<1>1. changes' \in 0 .. MaxChanges
  BY DEF ViewInv, ViewTypeOK, ZkTypes
<1> QED BY <1>1, InvViewFrame

-----------------------------------------------------------------------------
(***************************************************************************)
(* Each step of the program and of what surrounds it keeps the types, the  *)
(* invariant of the listening side and that of the connection.             *)
(***************************************************************************)

\* The administrator.
LEMMA LifeSetupCluster ==
  ASSUME TypeOK, ViewInv, ConnectInv, SetupCluster
  PROVE  TypeOK' /\ ViewInv' /\ ConnectInv'
<1>1. ViewInv'
  BY ViewSame DEF SetupCluster
<1>2. TypeOK'
  BY <1>1, ScenarioType DEF SetupCluster, TypeOK, ViewInv, ConnectInv, Callers, InCall, Calls
<1>3. ConnectInv'
  BY ScenarioType DEF SetupCluster, TypeOK, ConnectInv, Callers
<1> QED BY <1>1, <1>2, <1>3

\* The participant's nodes.
LEMMA LifeParticipantStep ==
  ASSUME TypeOK, ViewInv, ConnectInv, ParticipantStep
  PROVE  TypeOK' /\ ViewInv' /\ ConnectInv'
<1>1. ViewInv'
  BY InvViewFrame, ScenarioType DEF ParticipantStep, Change, TypeOK, ViewTypeOK, ZkTypes, ReadTypes
<1>2. TypeOK'
  <2>1. depth' \in 0 .. 3
    BY DEF ParticipantStep, TypeOK
  <2>2. sessionGone' \in BOOLEAN
    BY DEF ParticipantStep
  <2>3. mail' \in BOOLEAN
    <3>1. \/ mail' = mail
          \/ mail' = (mail /\ depth > 1)
          \/ mail' = ~mail
      BY DEF ParticipantStep
    <3> QED BY <3>1 DEF TypeOK
  <2> QED BY <1>1, <2>1, <2>2, <2>3 DEF ParticipantStep, TypeOK, ViewInv
<1>3. ConnectInv'
  BY ScenarioType DEF ParticipantStep, TypeOK, ConnectInv, Callers
<1> QED BY <1>1, <1>2, <1>3

\* Connect opens the connection.
LEMMA LifeConnect ==
  ASSUME TypeOK, ViewInv, ConnectInv, Connect
  PROVE  TypeOK' /\ ViewInv' /\ ConnectInv'
<1>1. ViewInv'
  BY ViewSame DEF Connect
<1>2. TypeOK'
  <2>1. calls' \in 0 .. scenario.most
    BY ScenarioType DEF Connect, TypeOK
  <2>2. pc' \in [Callers -> InCall \cup {"idle", "diff", "save"}]
    BY DEF Connect, TypeOK, InCall
  <2>3. pc'["main"] = "setup" => csListeners' = 0
    BY DEF Connect, TypeOK, ConnectInv, Callers, Calls, Kinds, Watched, FromMap
  <2> QED BY <1>1, <2>1, <2>2, <2>3 DEF Connect, TypeOK, ViewInv
<1>3. ConnectInv'
  BY ScenarioType DEF Connect, TypeOK, ConnectInv, Callers
<1> QED BY <1>1, <1>2, <1>3

\* A call is made.
LEMMA LifeCall ==
  ASSUME TypeOK, ViewInv, ConnectInv, NEW call \in Calls, Call(call)
  PROVE  TypeOK' /\ ViewInv' /\ ConnectInv'
<1>1. ViewInv'
  BY ViewSame DEF Call
<1>2. TypeOK'
  <2>1. calls' \in 0 .. scenario.most
    BY ScenarioType DEF Call, TypeOK
  <2>2. pc' \in [Callers -> InCall \cup {"idle", "diff", "save"}]
    BY DEF Call, TypeOK, InCall
  <2>3. pc'["main"] = "setup" => csListeners' = 0
    BY DEF Call, TypeOK, ConnectInv, Callers, Calls, Kinds, Watched, FromMap
  <2> QED BY <1>1, <2>1, <2>2, <2>3 DEF Call, TypeOK, ViewInv
<1>3. ConnectInv'
  <2>1. call # "setup" /\ pc["main"] = "idle"
    BY DEF Call, Calls, Kinds, Watched, FromMap
  <2> QED BY <2>1, ScenarioType DEF Call, TypeOK, ConnectInv, Callers
<1> QED BY <1>1, <1>2, <1>3

\* Connect starts the loop, or leaves a connection without one.
LEMMA LifeIsClusterSetup ==
  ASSUME TypeOK, ViewInv, ConnectInv, IsClusterSetup
  PROVE  TypeOK' /\ ViewInv' /\ ConnectInv'
<1>1. ViewInv'
  BY InvStart, ViewSame DEF IsClusterSetup, TypeOK
<1>2. TypeOK'
  <2>1. pc' \in [Callers -> InCall \cup {"idle", "diff", "save"}]
    BY DEF IsClusterSetup, TypeOK
  <2>2. pc'["main"] # "setup"
    BY DEF IsClusterSetup, TypeOK, Callers
  <2>3. lock' = lock /\ sstate' \in {"connected", "disconnected"} /\ msgWatchers' \in Nat
    <3>1. CASE clusterUp
      BY <3>1 DEF IsClusterSetup, Start, TypeOK
    <3>2. CASE ~clusterUp
      BY <3>2 DEF IsClusterSetup, TypeOK
    <3> QED BY <3>1, <3>2 DEF TypeOK
  <2> QED BY <1>1, <2>1, <2>2, <2>3 DEF IsClusterSetup, TypeOK, ViewInv
<1>3. ConnectInv'
  <2>1. /\ pc["main"] = "setup" /\ pc'["main"] = "idle" /\ lpc = "off" /\ conn
        /\ \A t \in Tasks : pc'[t] = pc[t] /\ pc[t] = "idle"
    BY ScenarioType DEF IsClusterSetup, TypeOK, ConnectInv, Callers
  <2>2. CASE clusterUp
    BY <2>1, <2>2 DEF IsClusterSetup, Start, ConnectInv
  <2>3. CASE ~clusterUp
    BY <2>1, <2>3 DEF IsClusterSetup, ConnectInv
  <2> QED BY <2>2, <2>3 DEF TypeOK
<1> QED BY <1>1, <1>2, <1>3

\* A listener is appended to its list.
LEMMA LifeAddListener ==
  ASSUME TypeOK, ViewInv, ConnectInv, AddListener
  PROVE  TypeOK' /\ ViewInv' /\ ConnectInv'
<1>1. ViewInv'
  BY ViewSame DEF AddListener
<1>2. TypeOK'
  BY <1>1, ScenarioType DEF AddListener, TypeOK, ViewInv, ConnectInv, Callers, InCall, Calls
<1>3. ConnectInv'
  <2>1. pc["main"] # "setup" /\ pc' = [pc EXCEPT !["main"] = "idle"]
    BY DEF AddListener, Kinds, Watched, FromMap
  <2> QED BY <2>1, ScenarioType DEF AddListener, TypeOK, ConnectInv, Callers
<1> QED BY <1>1, <1>2, <1>3

\* A current state listener; the first one keeps the mutex and watches.
LEMMA LifeAddCurrentStateChangeListener ==
  ASSUME TypeOK, ViewInv, ConnectInv, NEW c \in Callers, AddCurrentStateChangeListener(c)
  PROVE  TypeOK' /\ ViewInv' /\ ConnectInv'
<1>1. ViewInv'
  <2>1. crash' \in BOOLEAN
    BY DEF AddCurrentStateChangeListener, TypeOK, ViewTypeOK, ReadTypes
  <2> QED BY <2>1, PipeSame DEF AddCurrentStateChangeListener
<1>2. TypeOK'
  <2>1. pc' \in [Callers -> InCall \cup {"idle", "diff", "save"}]
    BY DEF AddCurrentStateChangeListener, TypeOK, InCall, Calls
  <2>2. pc'["main"] # "setup"
    BY ScenarioType DEF AddCurrentStateChangeListener, TypeOK, ConnectInv, Callers
  <2>3. csListeners' \in Nat /\ lock' \in {"free"} \cup Callers
    BY DEF AddCurrentStateChangeListener, TypeOK
  <2> QED BY <1>1, <2>1, <2>2, <2>3 DEF AddCurrentStateChangeListener, TypeOK, ViewInv
<1>3. ConnectInv'
  BY ScenarioType DEF AddCurrentStateChangeListener, TypeOK, ConnectInv, Callers
<1> QED BY <1>1, <1>2, <1>3

\* It has watched, and gives the mutex back.
LEMMA LifeWatchCurrentState ==
  ASSUME TypeOK, ViewInv, ConnectInv, NEW c \in Callers, WatchCurrentState(c)
  PROVE  TypeOK' /\ ViewInv' /\ ConnectInv'
<1>1. ViewInv'
  <2>1. crash' \in BOOLEAN
    BY DEF WatchCurrentState, TypeOK, ViewTypeOK, ReadTypes
  <2> QED BY <2>1, PipeSame DEF WatchCurrentState
<1>2. TypeOK'
  BY <1>1, ScenarioType DEF WatchCurrentState, TypeOK, ViewInv, ConnectInv, Callers, InCall, Calls
<1>3. ConnectInv'
  BY ScenarioType DEF WatchCurrentState, ListResources, TypeOK, ConnectInv, Callers
<1> QED BY <1>1, <1>2, <1>3

\* It finds a session, or a resource for which it wants the mutex again.
LEMMA LifeWatchCurrentStateDeeper ==
  ASSUME TypeOK, ViewInv, ConnectInv, NEW c \in Callers, WatchCurrentStateDeeper(c)
  PROVE  TypeOK' /\ ViewInv' /\ ConnectInv'
<1>1. ViewInv'
  BY ViewSame DEF WatchCurrentStateDeeper
<1>2. TypeOK'
  <2>1. pc' \in [Callers -> InCall \cup {"idle", "diff", "save"}]
    BY DEF WatchCurrentStateDeeper, TypeOK, InCall
  <2>2. pc'["main"] = "setup" => pc["main"] = "setup"
    BY DEF WatchCurrentStateDeeper, TypeOK, Callers
  <2> QED BY <1>1, <2>1, <2>2 DEF WatchCurrentStateDeeper, TypeOK, ViewInv
<1>3. ConnectInv'
  BY ScenarioType DEF WatchCurrentStateDeeper, ListResources, TypeOK, ConnectInv, Callers
<1> QED BY <1>1, <1>2, <1>3

\* A message listener; the first one starts a watcher.
LEMMA LifeAddMessageListener ==
  ASSUME TypeOK, ViewInv, ConnectInv, NEW c \in Callers, AddMessageListener(c)
  PROVE  TypeOK' /\ ViewInv' /\ ConnectInv'
<1>1. ViewInv'
  BY ViewSame DEF AddMessageListener
<1>2. TypeOK'
  BY <1>1, ScenarioType DEF AddMessageListener, TypeOK, ViewInv, ConnectInv, Callers, InCall, Calls
<1>3. ConnectInv'
  BY ScenarioType DEF AddMessageListener, TypeOK, ConnectInv, Callers
<1> QED BY <1>1, <1>2, <1>3

\* That watcher reads.
LEMMA LifeWatchInstanceMessages ==
  ASSUME TypeOK, ViewInv, ConnectInv, WatchInstanceMessages
  PROVE  TypeOK' /\ ViewInv' /\ ConnectInv'
<1>1. ViewInv'
  <2>1. crash' \in BOOLEAN
    BY DEF WatchInstanceMessages, TypeOK, ViewTypeOK, ReadTypes
  <2> QED BY <2>1, PipeSame DEF WatchInstanceMessages
<1>2. TypeOK'
  BY <1>1, ScenarioType DEF WatchInstanceMessages, TypeOK, ViewInv, ConnectInv, Callers, InCall, Calls
<1>3. ConnectInv'
  BY ScenarioType DEF WatchInstanceMessages, TypeOK, ConnectInv, Callers
<1> QED BY <1>1, <1>2, <1>3

\* Disconnect finds a loop to stop.
LEMMA LifeDisconnect ==
  ASSUME TypeOK, ViewInv, ConnectInv, Disconnect
  PROVE  TypeOK' /\ ViewInv' /\ ConnectInv'
<1>1. ViewInv'
  BY ViewSame DEF Disconnect
<1>2. TypeOK'
  <2>1. calls' \in 0 .. scenario.most
    BY ScenarioType DEF Disconnect, TypeOK
  <2>2. pc' \in [Callers -> InCall \cup {"idle", "diff", "save"}]
    BY DEF Disconnect, TypeOK, InCall
  <2>3. pc'["main"] = "setup" => csListeners' = 0
    BY DEF Disconnect, TypeOK, ConnectInv, Callers, Calls, Kinds, Watched, FromMap
  <2> QED BY <1>1, <2>1, <2>2, <2>3 DEF Disconnect, TypeOK, ViewInv
<1>3. ConnectInv'
  BY ScenarioType DEF Disconnect, TypeOK, ConnectInv, Callers
<1> QED BY <1>1, <1>2, <1>3

\* The loop takes the stop ...
LEMMA LifeSendStop ==
  ASSUME TypeOK, ViewInv, ConnectInv, SendStop
  PROVE  TypeOK' /\ ViewInv' /\ ConnectInv'
<1>1. ViewInv'
  BY InvStops DEF SendStop
<1>2. TypeOK'
  BY <1>1, ScenarioType DEF SendStop, TypeOK, ViewInv, ConnectInv, Callers, InCall, Calls
<1>3. ConnectInv'
  BY ScenarioType DEF SendStop, TypeOK, ConnectInv, Callers
<1> QED BY <1>1, <1>2, <1>3

\* ... returns ...
LEMMA LifeLoopReturns ==
  ASSUME TypeOK, ViewInv, ConnectInv, LoopReturns
  PROVE  TypeOK' /\ ViewInv' /\ ConnectInv'
<1>1. ViewInv'
  BY InvStops DEF LoopReturns
<1>2. TypeOK'
  BY <1>1, ScenarioType DEF LoopReturns, TypeOK, ViewInv, ConnectInv, Callers, InCall, Calls
<1>3. ConnectInv'
  BY ScenarioType DEF LoopReturns, TypeOK, ConnectInv, Callers
<1> QED BY <1>1, <1>2, <1>3

\* ... and Disconnect sees that it has.
LEMMA LifeAwaitDisconnected ==
  ASSUME TypeOK, ViewInv, ConnectInv, AwaitDisconnected
  PROVE  TypeOK' /\ ViewInv' /\ ConnectInv'
<1>1. ViewInv'
  BY ViewSame DEF AwaitDisconnected
<1>2. TypeOK'
  BY <1>1, ScenarioType DEF AwaitDisconnected, TypeOK, ViewInv, ConnectInv, Callers, InCall, Calls
<1>3. ConnectInv'
  BY ScenarioType DEF AwaitDisconnected, TypeOK, ConnectInv, Callers
<1> QED BY <1>1, <1>2, <1>3

\* The tracer compares the view with the last one ...
LEMMA LifeDiff ==
  ASSUME TypeOK, ViewInv, ConnectInv, NEW t \in Tasks, Diff(t)
  PROVE  TypeOK' /\ ViewInv' /\ ConnectInv'
<1>1. ViewInv'
  BY ViewSame DEF Diff
<1>2. TypeOK'
  BY <1>1, ScenarioType DEF Diff, TypeOK, ViewInv, ConnectInv, Callers, InCall, Calls
<1>3. ConnectInv'
  BY ScenarioType DEF Diff, TypeOK, ConnectInv, Callers
<1> QED BY <1>1, <1>2, <1>3

\* ... and keeps it.
LEMMA LifeSave ==
  ASSUME TypeOK, ViewInv, ConnectInv, NEW t \in Tasks, Save(t)
  PROVE  TypeOK' /\ ViewInv' /\ ConnectInv'
<1>1. ViewInv'
  BY ViewSame DEF Save
<1>2. TypeOK'
  BY <1>1, ScenarioType DEF Save, TypeOK, ViewInv, ConnectInv, Callers, InCall, Calls
<1>3. ConnectInv'
  BY ScenarioType DEF Save, TypeOK, ConnectInv, Callers
<1> QED BY <1>1, <1>2, <1>3

\* The steps of the listening side leave the callers and their mutex alone.
LEMMA LifeViewStep ==
  ASSUME TypeOK, ConnectInv, ViewInv', UNCHANGED callerVars, UNCHANGED lock,
         lpc # "off", lpc' # "off", lpc' = "returned" <=> lpc = "returned"
  PROVE  TypeOK' /\ ConnectInv'
BY DEF TypeOK, ConnectInv, ViewInv

\* The controller, the participants and the session.
LEMMA LifeControls ==
  ASSUME TypeOK, ViewInv, ConnectInv, Controls
  PROVE  TypeOK' /\ ViewInv' /\ ConnectInv'
<1>1. ViewInv'
  BY InvExpire, InvWrite, InvDelete DEF Controls
<1>2. UNCHANGED <<callerVars, lock, lpc>> /\ lpc # "off"
  BY DEF Controls, Expire, Write, Delete
<1> QED BY <1>1, <1>2, LifeViewStep

\* The parents run only with a loop; they outlive it.
LEMMA LifeParentStep ==
  ASSUME TypeOK, ViewInv, ConnectInv, NEW k \in Kinds, ParentStep(k)
  PROVE  TypeOK' /\ ViewInv' /\ ConnectInv'
<1>1. ViewInv'
  BY InvChildrenW, InvClearMap, InvMarkListed, InvParentNotify, InvWatchFailed, InvSetConfigMap,
     InvRefreshConfigMap, InvWatchConfig, InvControllerMessagesEnd DEF ParentStep, Parent
<1>2. UNCHANGED <<callerVars, lock, lpc>>
  BY DEF ParentStep, Parent, ChildrenW, ClearMap, MarkListed, ParentNotify, WatchFailed,
         SetConfigMap, RefreshConfigMap, WatchConfig, ControllerMessagesEnd
<1>3. ppc[k] # "off"
  BY DEF ParentStep, Parent, ChildrenW, ClearMap, MarkListed, ParentNotify, WatchFailed,
         SetConfigMap, RefreshConfigMap, WatchConfig, ControllerMessagesEnd
<1>4. lpc # "off"
  BY <1>3 DEF ViewInv, ParentInv
<1> QED BY <1>1, <1>2, <1>4, LifeViewStep

\* So do the watchers.
LEMMA LifeWatcherStep ==
  ASSUME TypeOK, ViewInv, ConnectInv, NEW n \in Nodes, WatcherStep(n)
  PROVE  TypeOK' /\ ViewInv' /\ ConnectInv'
<1>1. ViewInv'
  BY InvGetW, InvResourceChanged DEF WatcherStep, Watcher
<1>2. UNCHANGED <<callerVars, lock, lpc>> /\ n \in Known
  BY DEF WatcherStep, Watcher, GetW, ResourceChanged, Known
<1>3. lpc # "off"
  BY <1>2 DEF ViewInv, WatcherInv
<1> QED BY <1>1, <1>2, <1>3, LifeViewStep

\* The loop reads.
LEMMA LifeReadView ==
  ASSUME TypeOK, ViewInv, ConnectInv, ReadView, UNCHANGED callerVars
  PROVE  TypeOK' /\ ViewInv' /\ ConnectInv'
<1>1. ViewInv'
  BY InvTakeNotification, InvListNames, InvVisitKey, InvReadRecord DEF ReadView
<1>2. /\ UNCHANGED lock
      /\ {lpc, lpc'} \subseteq {"select", "list", "view", "read"}
  BY DEF ReadView, TakeNotification, ListNames, VisitKey, ReadRecord
<1> QED BY <1>1, <1>2, LifeViewStep

\* The loop calls the listeners, the tracer's in a goroutine of its own.
LEMMA LifeListenerCalled ==
  ASSUME TypeOK, ViewInv, ConnectInv, ListenerCalled
  PROVE  TypeOK' /\ ViewInv' /\ ConnectInv'
<1>1. ViewInv'
  BY InvCallListener DEF ListenerCalled
<1>2. /\ UNCHANGED <<externalVars, spectatorVars, calls, lastLive, lock>>
      /\ lpc = "view" /\ lpc' = "select"
  BY DEF ListenerCalled, CallListener
<1>3. \/ UNCHANGED <<pc, seen, overlapped>>
      \/ \E t \in Tasks : /\ pc' = [pc EXCEPT ![t] = "diff"]
                          /\ seen' \in {[seen EXCEPT ![t] = b] : b \in BOOLEAN}
                          /\ overlapped' \in BOOLEAN
  <2>1. CASE Traced /\ Busy # Tasks
    <3> DEFINE u == CHOOSE t \in Tasks \ Busy : TRUE
    <3>1. u \in Tasks
      <4>1. \E t \in Tasks \ Busy : TRUE
        BY <2>1 DEF Busy
      <4> QED BY <4>1
    <3>2. /\ pc' = [pc EXCEPT ![u] = "diff"]
          /\ seen' = [seen EXCEPT ![u] = \E n \in Of("liveInstance") : result[n] # Absent]
          /\ overlapped' = (overlapped \/ Busy # {})
      BY <2>1 DEF ListenerCalled
    <3>3. overlapped' \in BOOLEAN
      BY <3>2
    <3> HIDE DEF u
    <3> QED BY <3>1, <3>2, <3>3
  <2>2. CASE ~(Traced /\ Busy # Tasks)
    BY <2>2 DEF ListenerCalled
  <2> QED BY <2>1, <2>2
<1>4. TypeOK'
  <2>1. /\ pc' \in [Callers -> InCall \cup {"idle", "diff", "save"}] /\ pc'["main"] = pc["main"]
        /\ seen' \in [Tasks -> BOOLEAN] /\ overlapped' \in BOOLEAN
    BY <1>3, ScenarioType DEF TypeOK, Callers
  <2> QED BY <1>1, <1>2, <2>1 DEF TypeOK, ViewInv
<1>5. ConnectInv'
  BY <1>2, <1>3, ScenarioType DEF ConnectInv, TypeOK, Callers
<1> QED BY <1>1, <1>4, <1>5

-----------------------------------------------------------------------------
LifeInv == TypeOK /\ ViewInv /\ ConnectInv

\* LifeInv is an inductive invariant of Spec.
LEMMA LifeInit == Init => LifeInv
<1> SUFFICES ASSUME Init PROVE LifeInv
  OBVIOUS
<1>1. ViewInv
  BY InvViewInit, ScenarioType DEF Init
<1>2. pc \in [Callers -> InCall \cup {"idle", "diff", "save"}] /\ \A c \in Callers : pc[c] = "idle"
  BY DEF Init
<1>3. TypeOK
  <2>1. lock = "free" /\ crash = FALSE
    BY DEF Init, ViewInit
  <2>2. /\ scenario \in Scenarios /\ registered = scenario.before /\ calls = 0
        /\ clusterUp \in {scenario.up, TRUE}
    BY DEF Init
  <2>3. depth \in 0 .. 3 /\ sessionGone = FALSE /\ mail = FALSE /\ conn = FALSE /\ sstate = "connected"
    <3>1. depth \in 0 .. 3
      BY DEF Init
    <3> QED BY <3>1 DEF Init
  <2>4. calls \in 0 .. scenario.most
    <3>1. scenario.most \in Nat
      BY <2>2, ScenarioType
    <3> QED BY <2>2, <3>1
  <2>6. clusterUp \in BOOLEAN /\ registered \subseteq Kinds
    BY <2>2, ScenarioType
  <2>7. /\ csListeners = 0 /\ msgListeners = 0 /\ msgWatchers = 0
        /\ lastLive = FALSE /\ seen = [t \in Tasks |-> FALSE] /\ overlapped = FALSE
    BY DEF Init
  <2>8. seen \in [Tasks -> BOOLEAN]
    BY <2>7
  <2>5. pc["main"] # "setup"
    BY <1>2 DEF Callers
  <2>9. ViewTypeOK
    BY <1>1 DEF ViewInv
  <2>10. pc \in [Callers -> InCall \cup {"idle", "diff", "save"}]
    BY <1>2
  <2>11. {csListeners, msgListeners, msgWatchers} \subseteq Nat
    BY <2>7
  <2>12. lock \in {"free"} \cup Callers /\ crash \in BOOLEAN
    BY <2>1
  <2> QED BY <2>2, <2>3, <2>4, <2>5, <2>6, <2>7, <2>8, <2>9, <2>10, <2>11, <2>12 DEF TypeOK
<1>4. ConnectInv
  <2>1. lpc = "off"
    BY DEF Init, ViewInit
  <2> QED BY <1>2, <2>1 DEF Init, ConnectInv, Callers
<1> QED BY <1>1, <1>3, <1>4 DEF LifeInv

\* ... which stuttering keeps ...
LEMMA LifeUnchanged == LifeInv /\ UNCHANGED vars => LifeInv'
<1> SUFFICES ASSUME LifeInv, UNCHANGED vars PROVE LifeInv'
  OBVIOUS
<1>1. ViewInv'
  BY ViewSame DEF LifeInv, vars
<1>2. UNCHANGED <<callerVars, lock, lpc, crash>>
  BY DEF vars
<1> QED BY <1>1, <1>2 DEF LifeInv, TypeOK, ConnectInv, ViewInv

\* ... and every step.
LEMMA LifeNext == LifeInv /\ Next => LifeInv'
<1> USE DEF LifeInv
<1> SUFFICES ASSUME LifeInv, Next PROVE LifeInv'
  OBVIOUS
<1>1. CASE SetupCluster \/ ParticipantStep \/ Controls \/ Connect \/ Disconnect
  BY <1>1, LifeSetupCluster, LifeParticipantStep, LifeControls, LifeConnect, LifeDisconnect
<1>2. CASE \E call \in Calls : Call(call)
  BY <1>2, LifeCall
<1>3. ASSUME NEW c \in Callers, SharedCallStep(c) PROVE LifeInv'
  BY <1>3, LifeAddCurrentStateChangeListener, LifeWatchCurrentState,
     LifeWatchCurrentStateDeeper, LifeAddMessageListener DEF SharedCallStep
<1>4. CASE MainStep
  BY <1>3, <1>4, LifeIsClusterSetup, LifeAddListener, LifeSendStop, LifeAwaitDisconnected
     DEF MainStep, Callers
<1>5. ASSUME NEW t \in Tasks, TaskStep(t) PROVE LifeInv'
  BY <1>3, <1>5, LifeDiff, LifeSave DEF TaskStep, Callers
<1>6. CASE LoopStep
  BY <1>6, LifeReadView, LifeListenerCalled, LifeLoopReturns DEF LoopStep
<1>7. CASE WatchInstanceMessages
  BY <1>7, LifeWatchInstanceMessages
<1> QED BY <1>1, <1>2, <1>4, <1>5, <1>6, <1>7, LifeParentStep, LifeWatcherStep DEF Next, Goroutines

\* What is known of the view, of the connection and of who is running holds
\* throughout (loop, Connect, the parents and the watchers).
THEOREM LifeInvHolds == Spec => []LifeInv
BY LifeInit, LifeUnchanged, LifeNext, PTL DEF Spec

-----------------------------------------------------------------------------
(***************************************************************************)
(* How often the tracer listens to the participant's current states.  What *)
(* is known of the participant goes from the cluster through the view the  *)
(* loop reads and the one the listener was called with to the one it has   *)
(* kept.  A listener is added when the kept view is about to learn that    *)
(* the participant is there: so each rise from not there to there between  *)
(* two of these stages is a listener that may still come, a participant    *)
(* that is not there may come back, and only a deletion makes a new rise.  *)
(***************************************************************************)
Settling == {"idle", "diff", "currentState"}
Alive == \E n \in Of("liveInstance") : n \in Present
Kept == IF \E t \in Tasks : pc[t] \notin Settling
        THEN \E t \in Tasks : pc[t] \notin Settling /\ seen[t] ELSE lastLive
Pending == IF \E t \in Tasks : pc[t] # "idle" THEN \E t \in Tasks : seen[t] ELSE Kept
Reading == current = "liveInstance" /\ lpc \in {"view", "read"}
Listing == IF Reading THEN keys # {} ELSE Pending
Rise(a, b) == IF ~a /\ b THEN 1 ELSE 0
Rises(a, b, c, d) == Rise(a, b) + Rise(b, c) + Rise(c, d) + (IF d THEN 0 ELSE 1)

TraceInv ==
    scenario.tracing /\ ~overlapped =>
        /\ \A t \in Tasks : pc[t] = "idle" => ~seen[t]
        /\ \A t, u \in Tasks : pc[t] # "idle" /\ pc[u] # "idle" => t = u
        /\ \A t \in Tasks : pc[t] = "currentState" => ~lastLive /\ seen[t]
        /\ pc["main"] # "currentState"
        /\ csListeners + Rises(Kept, Pending, Listing, Alive) <= deletes + 1

\* A view that replaces the one ahead of it adds no rise.
LEMMA RisesMerge ==
  ASSUME NEW a \in BOOLEAN, NEW b \in BOOLEAN, NEW c \in BOOLEAN, NEW d \in BOOLEAN
  PROVE  /\ Rises(a, b, c, d) \in 0 .. 4
         /\ Rises(a, b, b, d) <= Rises(a, b, c, d)
         /\ Rises(a, b, d, d) <= Rises(a, b, c, d)
         /\ Rises(a, c, c, d) <= Rises(a, b, c, d)
         /\ Rises(b, b, c, d) + Rise(a, b) = Rises(a, b, c, d)
         /\ Rises(a, b, c, TRUE) <= Rises(a, b, c, FALSE)
         /\ Rises(a, b, c, FALSE) <= Rises(a, b, c, TRUE) + 1
<1>1. CASE a
  BY <1>1 DEF Rises, Rise
<1>2. CASE ~a
  BY <1>2 DEF Rises, Rise
<1> QED BY <1>1, <1>2

\* The stages are there or not.
LEMMA StageTypes ==
  ASSUME TypeOK
  PROVE  {Kept, Pending, Listing, Alive} \subseteq BOOLEAN
BY DEF TypeOK, Kept, Pending, Listing, Alive

\* Nothing that the tracer can tell has changed.
LEMMA TraceSame ==
  ASSUME TypeOK, TypeOK', TraceInv, UNCHANGED <<scenario, seen, lastLive, overlapped, csListeners, deletes>>,
         \A t \in Tasks, x \in Settling : pc'[t] = x <=> pc[t] = x,
         pc["main"] # "currentState" /\ scenario.tracing => pc'["main"] # "currentState",
         Reading' <=> Reading, Reading => keys' = keys, Alive' <=> Alive
  PROVE  TraceInv'
<1>1. (Kept' <=> Kept) /\ (Pending' <=> Pending)
  BY DEF Kept, Pending, Settling
<1>2. Listing' <=> Listing
  BY <1>1 DEF Listing
<1>3. Rises(Kept', Pending', Listing', Alive') = Rises(Kept, Pending, Listing, Alive)
  BY <1>1, <1>2 DEF Rises, Rise
<1> QED BY <1>3 DEF TraceInv, Settling

\* The administrator, the participant, the session and the calls of the main
\* goroutine.
LEMMA TraceCalls ==
  ASSUME LifeInv, TypeOK', TraceInv,
         \/ SetupCluster \/ ParticipantStep \/ Connect \/ Disconnect
         \/ \E call \in Calls : Call(call)
         \/ AddListener \/ SendStop \/ AwaitDisconnected \/ LoopReturns
         \/ WatchInstanceMessages \/ IsClusterSetup
         \/ Expire /\ UNCHANGED callerVars
  PROVE  TraceInv'
<1>1. UNCHANGED <<scenario, seen, lastLive, overlapped, csListeners, deletes, keys, view, current>>
  BY DEF SetupCluster, ParticipantStep, Connect, Disconnect, Call, AddListener, SendStop, Start,
         AwaitDisconnected, LoopReturns, WatchInstanceMessages, IsClusterSetup, Expire
<1>2. Reading' <=> Reading
  BY DEF SetupCluster, ParticipantStep, Connect, Disconnect, Call, AddListener, SendStop, Start,
         AwaitDisconnected, LoopReturns, WatchInstanceMessages, IsClusterSetup, Expire, Reading
<1>3. Alive' <=> Alive
  BY <1>1 DEF Alive, Present
<1>4. pc' = pc \/ \E there : pc' = [pc EXCEPT !["main"] = there]
  BY DEF SetupCluster, ParticipantStep, Connect, Disconnect, Call, AddListener, SendStop,
         AwaitDisconnected, LoopReturns, WatchInstanceMessages, IsClusterSetup
<1>6. \A t \in Tasks : pc'[t] = pc[t]
  BY <1>4, ScenarioType DEF LifeInv, TypeOK, Callers
<1>5. pc["main"] # "currentState" /\ scenario.tracing => pc'["main"] # "currentState"
  <2>1. CASE UNCHANGED pc
    BY <2>1
  <2>2. CASE Connect \/ Disconnect \/ (\E call \in Calls : Call(call)) \/ AddListener
             \/ SendStop \/ AwaitDisconnected \/ IsClusterSetup
    BY <2>2, ScenarioType DEF Connect, Disconnect, Call, AddListener, SendStop,
         AwaitDisconnected, IsClusterSetup, LifeInv, TypeOK, Callers
  <2>3. CASE SetupCluster \/ ParticipantStep \/ LoopReturns \/ WatchInstanceMessages
             \/ (Expire /\ UNCHANGED callerVars)
    <3>1. UNCHANGED pc
      BY <2>3 DEF SetupCluster, ParticipantStep, LoopReturns, WatchInstanceMessages
    <3> QED BY <2>1, <3>1
  <2> QED BY <2>2, <2>3
<1> QED BY <1>1, <1>2, <1>3, <1>6, <1>5, TraceSame DEF LifeInv

\* The calls that the tracer makes too, once it has added its listener.
LEMMA TraceSharedCalls ==
  ASSUME LifeInv, TypeOK', TraceInv, NEW c \in Callers,
         WatchCurrentState(c) \/ WatchCurrentStateDeeper(c) \/ AddMessageListener(c)
  PROVE  TraceInv'
<1>1. UNCHANGED <<scenario, seen, lastLive, overlapped, csListeners, deletes, keys, view, current, lpc>>
  BY DEF WatchCurrentState, WatchCurrentStateDeeper, AddMessageListener
<1>2. (Reading' <=> Reading) /\ (Alive' <=> Alive)
  BY <1>1 DEF Reading, Alive, Present
<1>3. /\ pc[c] \notin Settling
      /\ \/ pc'[c] \notin Settling
         \/ c = "main" /\ pc'[c] = "idle"
      /\ \A d \in Callers \ {c} : pc'[d] = pc[d]
  <2>1. pc' = [pc EXCEPT ![c] = pc'[c]]
    BY DEF WatchCurrentState, WatchCurrentStateDeeper, AddMessageListener, LifeInv, TypeOK
  <2>2. /\ pc[c] \in {"csChildren", "csResources", "message"}
        /\ \/ pc'[c] \in {"csResources", "selfLock"}
           \/ pc'[c] = IF c = "main" THEN "idle" ELSE IF pc[c] = "message" THEN "save" ELSE "message"
    BY DEF WatchCurrentState, WatchCurrentStateDeeper, ListResources, AddMessageListener, LifeInv, TypeOK
  <2>3. pc \in [Callers -> InCall \cup {"idle", "diff", "save"}]
    BY DEF LifeInv, TypeOK
  <2>4. \A d \in Callers \ {c} : pc'[d] = pc[d]
    BY <2>1, <2>3
  <2>5. pc[c] \notin Settling /\ (pc'[c] \notin Settling \/ (c = "main" /\ pc'[c] = "idle"))
    <3>1. CASE pc'[c] \in {"csResources", "selfLock"}
      BY <2>2, <3>1 DEF Settling
    <3>2. CASE pc'[c] = IF c = "main" THEN "idle" ELSE IF pc[c] = "message" THEN "save" ELSE "message"
      <4>1. pc[c] \notin Settling
        BY <2>2 DEF Settling
      <4>2. CASE c = "main"
        BY <3>2, <4>1, <4>2
      <4>3. CASE c # "main"
        <5>1. pc'[c] \in {"save", "message"}
          BY <3>2, <4>3
        <5> QED BY <4>1, <5>1 DEF Settling
      <4> QED BY <4>2, <4>3
    <3> QED BY <2>2, <3>1, <3>2
  <2> QED BY <2>4, <2>5
<1> QED BY <1>1, <1>2, <1>3, TraceSame, ScenarioType DEF LifeInv, Settling, Callers, TypeOK

\* The parents, the watchers and most of the loop's steps.
LEMMA TraceListening ==
  ASSUME LifeInv, TypeOK', TraceInv, UNCHANGED callerVars,
         \/ \E k \in Kinds : Parent(k)
         \/ \E n \in Nodes : Watcher(n) \/ VisitKey(n) \/ ReadRecord(n)
         \/ TakeNotification
  PROVE  TraceInv'
<1>1. UNCHANGED <<view, deletes>>
  BY DEF Parent, ChildrenW, ClearMap, MarkListed, ParentNotify, WatchFailed,
         SetConfigMap, RefreshConfigMap, WatchConfig, ControllerMessagesEnd, Watcher, GetW,
         ResourceChanged, VisitKey, ReadRecord, TakeNotification
<1>2. (Reading' <=> Reading) /\ (Reading => keys' = keys)
  <2>1. CASE TakeNotification
    BY <2>1 DEF TakeNotification, Reading, FromMap
  <2>2. CASE \E n \in Nodes : VisitKey(n) \/ ReadRecord(n)
    BY <2>2 DEF VisitKey, ReadRecord, Reading
  <2>3. CASE (\E k \in Kinds : Parent(k)) \/ \E n \in Nodes : Watcher(n)
    BY <2>3 DEF Parent, ChildrenW, ClearMap, MarkListed, ParentNotify, WatchFailed,
           SetConfigMap, RefreshConfigMap, WatchConfig, ControllerMessagesEnd, Watcher, GetW,
           ResourceChanged, Reading
  <2> QED BY <2>1, <2>2, <2>3
<1>3. Alive' <=> Alive
  BY <1>1 DEF Alive, Present
<1> QED BY <1>1, <1>2, <1>3, TraceSame DEF LifeInv

\* The participant comes up: what was allowed for that is spent on its rise.
LEMMA TraceWrite ==
  ASSUME LifeInv, TypeOK', TraceInv, NEW n \in Nodes, Write(n), UNCHANGED callerVars
  PROVE  TraceInv'
<1>1. UNCHANGED <<deletes, keys, current, lpc, callerVars>>
  BY DEF Write
<1>2. (Kept' <=> Kept) /\ (Pending' <=> Pending) /\ (Listing' <=> Listing)
  BY <1>1 DEF Kept, Pending, Listing, Reading
<1>3. Alive => Alive'
  <2>1. changes' # Absent
    BY DEF Write, Change, LifeInv, TypeOK, ViewTypeOK, ZkTypes, Absent
  <2> QED BY <2>1 DEF Write, Alive, Present, LifeInv, TypeOK, ViewTypeOK, ZkTypes
<1>4. CASE Alive' <=> Alive
  BY <1>1, <1>4, TraceSame DEF LifeInv, Reading
<1>5. CASE Alive' /\ ~Alive
  <2>1. Rises(Kept', Pending', Listing', Alive') <= Rises(Kept, Pending, Listing, Alive)
    BY <1>2, <1>5 DEF Rises, Rise
  <2>2. Rises(Kept', Pending', Listing', Alive') \in 0 .. 4 /\ Rises(Kept, Pending, Listing, Alive) \in 0 .. 4
    BY DEF Rises, Rise
  <2>3. csListeners \in Nat /\ deletes \in Nat
    BY DEF LifeInv, TypeOK, ViewTypeOK, ZkTypes
  <2> QED BY <1>1, <2>1, <2>2, <2>3 DEF TraceInv
<1> QED BY <1>3, <1>4, <1>5

\* ... and goes down, a deletion more.
LEMMA TraceDelete ==
  ASSUME LifeInv, TypeOK', TraceInv, NEW n \in Nodes, Delete(n), UNCHANGED callerVars
  PROVE  TraceInv'
<1>1. UNCHANGED <<keys, current, lpc, callerVars>> /\ deletes' = deletes + 1
  BY DEF Delete
<1>2. (Kept' <=> Kept) /\ (Pending' <=> Pending) /\ (Listing' <=> Listing)
  BY <1>1 DEF Kept, Pending, Listing, Reading
<1>3. Alive' => Alive
  BY DEF Delete, Alive, Present, LifeInv, TypeOK, ViewTypeOK, ZkTypes
<1>4. Rises(Kept', Pending', Listing', Alive') <= Rises(Kept, Pending, Listing, Alive) + 1
  BY <1>2, <1>3 DEF Rises, Rise
<1>5. Rises(Kept', Pending', Listing', Alive') \in 0 .. 4 /\ Rises(Kept, Pending, Listing, Alive) \in 0 .. 4
  BY DEF Rises, Rise
<1>6. csListeners \in Nat /\ deletes \in Nat
  BY DEF LifeInv, TypeOK, ViewTypeOK, ZkTypes
<1> QED BY <1>1, <1>4, <1>5, <1>6 DEF TraceInv

\* The loop lists the live instances there are.
LEMMA TraceListNames ==
  ASSUME LifeInv, TypeOK', TraceInv, ListNames, UNCHANGED callerVars
  PROVE  TraceInv'
<1>1. UNCHANGED <<deletes, view, current, callerVars>> /\ lpc = "list" /\ lpc' = "view"
      /\ keys' = Present \cap Of(current)
  BY DEF ListNames
<1>2. Alive' <=> Alive
  BY <1>1 DEF Alive, Present
<1>3. CASE current # "liveInstance"
  BY <1>1, <1>2, <1>3, TraceSame DEF LifeInv, Reading
<1>4. CASE current = "liveInstance"
  <2>1. (Kept' <=> Kept) /\ (Pending' <=> Pending)
    BY <1>1 DEF Kept, Pending
  <2>2. Listing' <=> Alive
    BY <1>1, <1>4 DEF Listing, Reading, Alive
  <2>3. Rises(Kept', Pending', Listing', Alive') <= Rises(Kept, Pending, Listing, Alive)
    BY <1>2, <2>1, <2>2 DEF Rises, Rise
  <2>4. Rises(Kept', Pending', Listing', Alive') \in 0 .. 4 /\ Rises(Kept, Pending, Listing, Alive) \in 0 .. 4
    BY DEF Rises, Rise
  <2>5. csListeners \in Nat /\ deletes \in Nat
    BY DEF LifeInv, TypeOK, ViewTypeOK, ZkTypes
  <2> QED BY <1>1, <2>3, <2>4, <2>5 DEF TraceInv
<1> QED BY <1>3, <1>4

\* The listener is called with the view the loop has read.  A call beyond the
\* first leaves nothing to say, unless nobody takes it.
LEMMA TraceListenerCalled ==
  ASSUME LifeInv, TypeOK', TraceInv, ListenerCalled
  PROVE  TraceInv'
<1>1. /\ UNCHANGED <<externalVars, spectatorVars, calls, lastLive, zkVars, current>>
      /\ CallListener /\ lpc = "view" /\ lpc' = "select" /\ keys \subseteq visited
  BY DEF ListenerCalled, CallListener
<1>2. (Alive' <=> Alive) /\ ~Reading'
  BY <1>1 DEF Alive, Present, Reading
<1>3. CASE current # "liveInstance"
  <2>1. UNCHANGED <<pc, seen, overlapped>> /\ ~Reading
    BY <1>3 DEF ListenerCalled, Traced, Reading
  <2> QED BY <1>1, <1>2, <2>1, TraceSame DEF LifeInv
<1>4. CASE current = "liveInstance"
  <2> SUFFICES ASSUME scenario.tracing, ~overlapped' PROVE TraceInv'
    BY <1>1 DEF TraceInv
  <2>0. csListeners \in Nat /\ deletes \in Nat /\ Rises(Kept, Pending, Listing, Alive) \in 0 .. 4
        /\ Rises(Kept', Pending', Listing', Alive') \in 0 .. 4
    BY DEF LifeInv, TypeOK, ViewTypeOK, ZkTypes, Rises, Rise
  <2>1. Reading
    BY <1>1, <1>4 DEF Reading
  <2>2. CASE Busy = Tasks
    <3>1. UNCHANGED <<pc, seen, overlapped>>
      BY <2>2 DEF ListenerCalled
    <3>2. (Kept' <=> Kept) /\ (Pending' <=> Pending) /\ (Listing' <=> Pending)
      BY <1>1, <1>2, <3>1 DEF Kept, Pending, Listing
    <3>3. Rises(Kept', Pending', Listing', Alive') <= Rises(Kept, Pending, Listing, Alive)
      BY <1>2, <3>2 DEF Rises, Rise
    <3> QED BY <1>1, <2>0, <3>1, <3>3 DEF TraceInv
  <2>3. CASE Busy # Tasks
    <3> DEFINE t == CHOOSE u \in Tasks \ Busy : TRUE
               shown == \E n \in Of("liveInstance") : result[n] # Absent
    <3>1. t \in Tasks \ Busy
      <4>1. \E u \in Tasks \ Busy : TRUE
        BY <2>3 DEF Busy
      <4> QED BY <4>1
    <3>2. /\ pc' = [pc EXCEPT ![t] = "diff"] /\ seen' = [seen EXCEPT ![t] = shown]
          /\ overlapped' = (overlapped \/ Busy # {})
      BY <1>4, <2>3 DEF ListenerCalled, Traced
    <3>3. shown <=> keys # {}
      BY <1>1, <1>4 DEF LifeInv, ViewInv, ViewTypeOK, ReadTypes, ReadInv, LoopInv, LoopReading,
             Of, FromMap, Kinds, Watched
    <3>4. shown \in BOOLEAN
      OBVIOUS
    <3> HIDE DEF t, shown
    <3>5. ~overlapped /\ Busy = {}
      BY <3>2
    <3>6. \A u \in Tasks : pc[u] = "idle" /\ ~seen[u] /\ u \in Callers
      BY <3>5, ScenarioType DEF Busy, TraceInv, Callers
    <3>7. /\ \A u \in Tasks : pc'[u] = (IF u = t THEN "diff" ELSE "idle")
          /\ \A u \in Tasks : seen'[u] <=> u = t /\ shown
          /\ pc'["main"] = pc["main"]
      <4>1. pc \in [Callers -> InCall \cup {"idle", "diff", "save"}] /\ seen \in [Tasks -> BOOLEAN]
        BY DEF LifeInv, TypeOK
      <4>2. \A u \in Tasks : pc'[u] = (IF u = t THEN "diff" ELSE "idle")
        BY <3>2, <3>6, <4>1
      <4>3. \A u \in Tasks : seen'[u] <=> u = t /\ shown
        BY <3>1, <3>2, <3>4, <3>6, <4>1
      <4> QED BY <3>1, <3>2, <4>1, <4>2, <4>3, ScenarioType DEF LifeInv, TypeOK, Callers
    <3>8. (Kept' <=> Kept) /\ (Pending' <=> Listing) /\ (Listing' <=> Listing)
      <4>1. Kept' <=> Kept
        BY <1>1, <3>6, <3>7 DEF Kept, Settling
      <4>2. Pending' <=> shown
        BY <3>1, <3>7 DEF Pending
      <4> QED BY <1>2, <2>1, <3>3, <4>1, <4>2 DEF Listing
    <3>9. Rises(Kept', Pending', Listing', Alive') <= Rises(Kept, Pending, Listing, Alive)
      BY <1>2, <3>8 DEF Rises, Rise
    <3>10. csListeners' + Rises(Kept', Pending', Listing', Alive') <= deletes' + 1
      BY <1>1, <2>0, <3>5, <3>9 DEF TraceInv
    <3> QED BY <1>1, <3>5, <3>7, <3>10 DEF TraceInv
  <2> QED BY <2>2, <2>3
<1> QED BY <1>3, <1>4

\* A goroutine that finds the participant where it was last seen keeps the view
\* it was called with; one that finds it new goes for the listeners.
LEMMA TraceDiff ==
  ASSUME LifeInv, TypeOK', TraceInv, NEW t \in Tasks, Diff(t)
  PROVE  TraceInv'
<1>1. UNCHANGED <<externalVars, spectatorVars, calls, tracerVars, viewVars>>
      /\ pc' = [pc EXCEPT ![t] = IF seen[t] /\ ~lastLive THEN "currentState" ELSE "save"]
      /\ pc[t] = "diff"
  BY DEF Diff
<1>2. (Alive' <=> Alive) /\ (Reading' <=> Reading)
  BY <1>1 DEF Alive, Present, Reading
<1>3. /\ pc'[t] = IF seen[t] /\ ~lastLive THEN "currentState" ELSE "save"
      /\ \A c \in Callers \ {t} : pc'[c] = pc[c]
      /\ pc'["main"] = pc["main"]
  BY <1>1, ScenarioType DEF LifeInv, TypeOK, Callers
<1>4. SUFFICES ASSUME scenario.tracing, ~overlapped PROVE TraceInv'
  BY <1>1 DEF TraceInv
<1>5. \A u \in Tasks \ {t} : pc[u] = "idle" /\ pc'[u] = "idle" /\ ~seen[u]
  BY <1>1, <1>3, <1>4 DEF TraceInv, Callers
<1>6. csListeners \in Nat /\ deletes \in Nat /\ Rises(Kept, Pending, Listing, Alive) \in 0 .. 4
      /\ Rises(Kept', Pending', Listing', Alive') \in 0 .. 4
  BY DEF LifeInv, TypeOK, ViewTypeOK, ZkTypes, Rises, Rise
<1>7. (Pending <=> seen[t]) /\ (Kept <=> lastLive)
  BY <1>1, <1>5 DEF Pending, Kept, Settling
<1>8. Pending' <=> seen[t]
  BY <1>1, <1>3, <1>5 DEF Pending
<1>9. Listing' <=> Listing
  BY <1>1, <1>2, <1>7, <1>8 DEF Listing
<1>10. IF seen[t] /\ ~lastLive THEN Kept' <=> lastLive ELSE Kept' <=> seen[t]
  BY <1>1, <1>3, <1>5 DEF Kept, Settling
<1>11. Rises(Kept', Pending', Listing', Alive') <= Rises(Kept, Pending, Listing, Alive)
  BY <1>2, <1>7, <1>8, <1>9, <1>10 DEF Rises, Rise
<1>12. csListeners' + Rises(Kept', Pending', Listing', Alive') <= deletes' + 1
  BY <1>1, <1>4, <1>6, <1>11 DEF TraceInv
<1> QED BY <1>1, <1>3, <1>4, <1>5, <1>12 DEF TraceInv

\* A listener more, for the rise that it ends.
LEMMA TraceAddCurrentState ==
  ASSUME LifeInv, TypeOK', TraceInv, NEW c \in Callers, AddCurrentStateChangeListener(c)
  PROVE  TraceInv'
<1>1. UNCHANGED <<externalVars, tracerVars, pipeVars>> /\ pc[c] = "currentState"
      /\ csListeners' = csListeners + 1
      /\ pc' = [pc EXCEPT ![c] = pc'[c]]
      /\ pc'[c] \in {"csChildren", IF c = "main" THEN "idle" ELSE "message"}
  BY DEF AddCurrentStateChangeListener, LifeInv, TypeOK
<1>2. (Alive' <=> Alive) /\ (Reading' <=> Reading)
  BY <1>1 DEF Alive, Present, Reading
<1>3. SUFFICES ASSUME scenario.tracing, ~overlapped PROVE TraceInv'
  BY <1>1 DEF TraceInv
<1>4. c \in Tasks /\ c # "main" /\ seen[c] /\ ~lastLive
  BY <1>1, <1>3 DEF TraceInv, Callers
<1>5. \A u \in Callers \ {c} : pc'[u] = pc[u]
  BY <1>1 DEF LifeInv, TypeOK
<1>6. \A u \in Tasks \ {c} : pc[u] = "idle" /\ pc'[u] = "idle" /\ ~seen[u]
  BY <1>1, <1>3, <1>4, <1>5 DEF TraceInv, Callers
<1>7. csListeners \in Nat /\ deletes \in Nat /\ Rises(Kept, Pending, Listing, Alive) \in 0 .. 4
      /\ Rises(Kept', Pending', Listing', Alive') \in 0 .. 4
  BY DEF LifeInv, TypeOK, ViewTypeOK, ZkTypes, Rises, Rise
<1>8. Pending /\ ~Kept
  BY <1>1, <1>4, <1>6 DEF Pending, Kept, Settling
<1>9. Pending' /\ Kept'
  BY <1>1, <1>4, <1>6 DEF Pending, Kept, Settling
<1>10. Listing' <=> Listing
  BY <1>1, <1>2, <1>8, <1>9 DEF Listing
<1>11. Rises(Kept', Pending', Listing', Alive') + 1 = Rises(Kept, Pending, Listing, Alive)
  BY <1>2, <1>8, <1>9, <1>10 DEF Rises, Rise
<1>12. csListeners' + Rises(Kept', Pending', Listing', Alive') <= deletes' + 1
  BY <1>1, <1>3, <1>7, <1>11 DEF TraceInv
<1>13. pc'["main"] # "currentState"
  BY <1>3, <1>4, <1>5 DEF TraceInv, Callers
<1> QED BY <1>1, <1>3, <1>4, <1>6, <1>12, <1>13 DEF TraceInv

\* The view is kept.
LEMMA TraceSave ==
  ASSUME LifeInv, TypeOK', TraceInv, NEW t \in Tasks, Save(t)
  PROVE  TraceInv'
<1>1. UNCHANGED <<externalVars, spectatorVars, calls, overlapped, viewVars>>
      /\ pc[t] = "save" /\ lastLive' = seen[t]
      /\ pc' = [pc EXCEPT ![t] = "idle"] /\ seen' = [seen EXCEPT ![t] = FALSE]
  BY DEF Save
<1>2. (Alive' <=> Alive) /\ (Reading' <=> Reading)
  BY <1>1 DEF Alive, Present, Reading
<1>3. pc'[t] = "idle" /\ ~seen'[t] /\ pc'["main"] = pc["main"]
      /\ \A u \in Tasks \ {t} : pc'[u] = pc[u] /\ seen'[u] = seen[u]
  BY <1>1, ScenarioType DEF LifeInv, TypeOK, Callers
<1>4. SUFFICES ASSUME scenario.tracing, ~overlapped PROVE TraceInv'
  BY <1>1 DEF TraceInv
<1>5. \A u \in Tasks : (u # t => pc[u] = "idle" /\ ~seen[u]) /\ pc'[u] = "idle" /\ ~seen'[u]
  BY <1>1, <1>3, <1>4 DEF TraceInv
<1>6. (Pending <=> seen[t]) /\ (Kept <=> seen[t])
  BY <1>1, <1>5 DEF Pending, Kept, Settling
<1>7. (Pending' <=> seen[t]) /\ (Kept' <=> seen[t])
  BY <1>1, <1>5 DEF Pending, Kept, Settling
<1>8. Listing' <=> Listing
  BY <1>1, <1>2, <1>6, <1>7 DEF Listing
<1>9. Rises(Kept', Pending', Listing', Alive') = Rises(Kept, Pending, Listing, Alive)
  BY <1>2, <1>6, <1>7, <1>8 DEF Rises, Rise
<1>10. csListeners' + Rises(Kept', Pending', Listing', Alive') <= deletes' + 1
  BY <1>1, <1>4, <1>9 DEF TraceInv
<1> QED BY <1>1, <1>3, <1>4, <1>5, <1>10 DEF TraceInv

\* TraceInv is an inductive invariant relative to LifeInv.
LEMMA TraceInit == Init => TraceInv
<1> SUFFICES ASSUME Init PROVE TraceInv
  OBVIOUS
<1>1. \A c \in Callers : pc[c] = "idle"
  BY DEF Init
<1>2. \A t \in Tasks : ~seen[t]
  BY DEF Init
<1>3. ~Kept /\ ~Pending /\ ~Listing
  <2>1. lastLive = FALSE /\ lpc = "off"
    BY DEF Init, ViewInit
  <2> QED BY <1>1, <1>2, <2>1 DEF Kept, Pending, Listing, Reading, Callers
<1>4. Rises(Kept, Pending, Listing, Alive) <= 1 /\ Rises(Kept, Pending, Listing, Alive) \in Nat
  BY <1>3 DEF Rises, Rise
<1>5. csListeners = 0 /\ deletes = 0
  BY DEF Init, ViewInit
<1>6. csListeners + Rises(Kept, Pending, Listing, Alive) <= deletes + 1
  BY <1>4, <1>5
<1>7. pc["main"] = "idle" /\ \A t \in Tasks : pc[t] = "idle"
  BY <1>1 DEF Callers
<1> QED BY <1>2, <1>6, <1>7 DEF TraceInv

\* Every step keeps it.
LEMMA TraceNext == LifeInv /\ LifeInv' /\ TraceInv /\ [Next]_vars => TraceInv'
<1> SUFFICES ASSUME LifeInv, LifeInv', TraceInv, [Next]_vars PROVE TraceInv'
  OBVIOUS
<1>0. TypeOK'
  BY DEF LifeInv
<1>1. CASE UNCHANGED vars
  <2>1. UNCHANGED <<scenario, seen, lastLive, overlapped, csListeners, deletes, pc, keys, view, current, lpc>>
    BY <1>1 DEF vars
  <2>2. (Reading' <=> Reading) /\ (Alive' <=> Alive)
    BY <2>1 DEF Reading, Alive, Present
  <2> QED BY <1>0, <2>1, <2>2, TraceSame DEF LifeInv
<1>2. CASE SetupCluster \/ ParticipantStep \/ Connect \/ Disconnect \/ \E call \in Calls : Call(call)
  BY <1>0, <1>2, TraceCalls
<1>3. CASE Controls
  BY <1>0, <1>3, TraceCalls, TraceWrite, TraceDelete DEF Controls
<1>4. ASSUME NEW c \in Callers, SharedCallStep(c) PROVE TraceInv'
  BY <1>0, <1>4, TraceSharedCalls, TraceAddCurrentState DEF SharedCallStep
<1>5. CASE MainStep
  BY <1>0, <1>4, <1>5, TraceCalls DEF MainStep, Callers
<1>6. ASSUME NEW t \in Tasks, TaskStep(t) PROVE TraceInv'
  BY <1>0, <1>4, <1>6, TraceDiff, TraceSave DEF TaskStep, Callers
<1>7. CASE LoopStep
  BY <1>0, <1>7, TraceListNames, TraceListening, TraceListenerCalled, TraceCalls DEF LoopStep, ReadView
<1>8. CASE WatchInstanceMessages
  BY <1>0, <1>8, TraceCalls
<1>9. ASSUME NEW k \in Kinds, ParentStep(k) PROVE TraceInv'
  BY <1>0, <1>9, TraceListening DEF ParentStep
<1>10. ASSUME NEW n \in Nodes, WatcherStep(n) PROVE TraceInv'
  BY <1>0, <1>10, TraceListening DEF WatcherStep
<1> QED BY <1>1, <1>2, <1>3, <1>5, <1>6, <1>7, <1>8, <1>9, <1>10 DEF Next, Goroutines

-----------------------------------------------------------------------------
(***************************************************************************)
(* The theorems.                                                           *)
(***************************************************************************)

\* Every variable keeps its type: the channel never holds more than it has room
\* for, only nodes with a watcher are active, a record is read one at a time.
THEOREM TypeCorrect == Spec => []TypeOK
<1>1. LifeInv => TypeOK
  BY DEF LifeInv
<1> QED BY <1>1, LifeInvHolds, PTL

\* Nothing that is created or removed is lost on its way to the listeners
\* (the parents, loop, handleChangeNotification).
THEOREM ViewComplete == Spec => []QuietViewIsComplete
<1>1. LifeInv => QuietViewIsComplete
  <2> SUFFICES ASSUME LifeInv, NEW k \in Kinds \ {"controllerMessage"}, ParentQuiet(k), LoopQuiet(k)
               PROVE  {n \in Of(k) : result[n] # Absent} = Present \cap Of(k)
    BY DEF QuietViewIsComplete
  <2>1. Announced(k) /\ Away(k)
    BY DEF LoopQuiet, Announced, Unqueued, Away, LoopReading
  <2>2. \A n \in Of(k) : result[n] # Absent <=> n \in Present
    BY <2>1 DEF LifeInv, ViewInv, QuietInv
  <2> QED BY <2>2
<1> QED BY <1>1, LifeInvHolds, PTL

\* An instance that has come back is shown with its new session
\* (watchLiveInstances, GetLiveInstances).
THEOREM LiveInstancesCurrent == Spec => []QuietLiveInstancesAreCurrent
<1>1. LifeInv => QuietLiveInstancesAreCurrent
  <2> SUFFICES ASSUME LifeInv, ParentQuiet("liveInstance"), LoopQuiet("liveInstance"),
                      NEW n \in Of("liveInstance")
               PROVE  result[n] = view[n]
    BY DEF QuietLiveInstancesAreCurrent
  <2>1. "liveInstance" \in Kinds \ {"controllerMessage"}
    BY DEF Kinds
  <2>2. Announced("liveInstance") /\ Away("liveInstance")
    BY DEF LoopQuiet, Announced, Unqueued, Away, LoopReading
  <2>3. result[n] # Absent <=> n \in Present
    BY <2>1, <2>2 DEF LifeInv, ViewInv, QuietInv
  <2>4. CASE n \in Present
    BY <2>2, <2>3, <2>4 DEF LifeInv, ViewInv, FreshInv, Told, Of
  <2>5. CASE n \notin Present
    BY <2>3, <2>5 DEF Present, Of
  <2> QED BY <2>4, <2>5
<1> QED BY <1>1, LifeInvHolds, PTL

\* The only records that are shown in an older version are those written
\* between an event of their watcher and its next GetW
\* (watchExternalViewResource and its copies).
THEOREM MissedOnlyAreStale == Spec => []OnlyMissedAreStale
<1>1. LifeInv => OnlyMissedAreStale
  <2> SUFFICES ASSUME LifeInv, NEW k \in Watched, ParentQuiet(k), LoopQuiet(k),
                      \A n \in Known \cap Of(k) : WatcherQuiet(n),
                      NEW n \in Of(k) \ missed
               PROVE  result[n] = view[n]
    BY DEF OnlyMissedAreStale
  <2>1. k \in Kinds \ {"controllerMessage"}
    BY DEF Kinds, Watched, FromMap
  <2>2. Announced(k) /\ Away(k)
    BY DEF LoopQuiet, Announced, Unqueued, Away, LoopReading
  <2>3. result[n] # Absent <=> n \in Present
    BY <2>1, <2>2 DEF LifeInv, ViewInv, QuietInv
  <2>4. CASE n \in Present
    <3>1. n \in Known
      BY <2>1, <2>4 DEF LifeInv, ViewInv, ParentInv, ParentQuiet, Kinds
    <3>2. Told(n)
      BY <3>1 DEF Told, WatcherQuiet, Of
    <3> QED BY <2>2, <2>3, <2>4, <3>2 DEF LifeInv, ViewInv, FreshInv, Of
  <2>5. CASE n \notin Present
    BY <2>3, <2>5 DEF Present, Of
  <2> QED BY <2>4, <2>5
<1> QED BY <1>1, LifeInvHolds, PTL

\* The tracer listens to the current states of the participant no more than
\* once for each time it comes up, while its listener calls do not overlap
\* (liveInstanceChangeListener, diffRecords).
THEOREM TracedPerLife == Spec => []TracedOncePerLife
<1>1. LifeInv /\ TraceInv => TracedOncePerLife
  <2> SUFFICES ASSUME LifeInv, TraceInv, scenario.tracing, ~overlapped
               PROVE  csListeners <= deletes + 1
    BY DEF TracedOncePerLife
  <2>1. Rises(Kept, Pending, Listing, Alive) \in Nat
    BY DEF Rises, Rise
  <2>2. csListeners \in Nat /\ deletes \in Nat
    BY DEF LifeInv, TypeOK, ViewTypeOK, ZkTypes
  <2> QED BY <2>1, <2>2 DEF TraceInv
<1> QED BY <1>1, LifeInvHolds, TraceInit, TraceNext, PTL DEF Spec
=============================================================================
