--------------------------- MODULE SpectatorView ---------------------------
(***************************************************************************)
(* The listening side of a gohelix spectator (src/spectator.go): from the  *)
(* nodes that the controller and the participants write in ZooKeeper to    *)
(* the views the listeners are called with.  The goroutines:               *)
(*   parents    one for each kind of listener, watchExternalView and its   *)
(*              like: ChildrenW, a watcher for each new child, the map of  *)
(*              children, notify, wait;                                    *)
(*   watchers   one for each external view, ideal state and instance       *)
(*              config ever seen: GetW, wait, notify; they never end;      *)
(*   loop       takes a notification, reads the view of its kind and calls *)
(*              the listener in a goroutine of its own.                    *)
(* Who starts and stops them is SpectatorLifecycle; here they are started  *)
(* together.  changeNotificationChan has room for QueueCap notifications:  *)
(* a sender waits while it is full.  Reads are retried for ever, so a read *)
(* of a node that is not there waits.                                      *)
(***************************************************************************)
EXTENDS Naturals, Sequences

CONSTANTS
    Nodes,        \* the children the parents watch: pairs of kind and name
    QueueCap,     \* capacity of changeNotificationChan
    MaxChanges,   \* bound on writes, deletes and session expiries
    MaxDeletes,   \* bound on the deletes among them
    MaxExpires    \* bound on the expiries among them

FromMap == {"externalView", "idealState"}    \* views read from the map
Watched == FromMap \cup {"instanceConfig"}   \* a watcher for each child
Kinds == Watched \cup {"liveInstance", "controllerMessage"}

ASSUME SpectatorAssumption ==
    /\ \A n \in Nodes : n[1] \in Kinds
    /\ QueueCap \in Nat \ {0}
    /\ {MaxChanges, MaxDeletes, MaxExpires} \subseteq Nat

VARIABLES
    \* ZooKeeper
    view,      \* stamp of each node's record, Absent if it is not there
    changes, deletes, expires,
    missed,    \* nodes that were last written while their watcher had no watch
    \* the parent of each kind
    ppc, pwatch,
    listed,    \* what ChildrenW returned
    \* the watcher of each node; a node that has one is in its kind's map
    rpc, rwatch,
    active,    \* nodes marked true in the maps of FromMap
    queue,     \* changeNotificationChan: kinds
    \* the loop
    lpc, current,
    visited,   \* keys its iteration has been at
    reading,   \* the node it is reading, if any
    keys,      \* keys of the map when the iteration started; names listed
    result,    \* the stamps it has read: the view of each kind that it has
               \* called the listeners with, or is putting together
    lock,      \* the holder of the spectator's mutex
    crash

zkVars == <<view, changes, deletes, expires, missed>>
parentVars == <<ppc, pwatch, listed>>
watcherVars == <<rpc, rwatch>>
loopVars == <<lpc, current, visited, reading, keys, result>>
pipeVars == <<zkVars, parentVars, watcherVars, active, queue, loopVars>>
viewVars == <<view, changes, deletes, expires, missed, ppc, pwatch, listed, rpc, rwatch,
              active, queue, lpc, current, visited, reading, keys, result, lock,
              crash>>

Absent == 0
Stamps == 0 .. MaxChanges
Of(k) == {n \in Nodes : n[1] = k}
Present == {n \in Nodes : view[n] # Absent}
Known == {n \in Nodes : rpc[n] # "none"}
EmptyView == [n \in Nodes |-> Absent]

ParentPcs == {"off", "children", "clear", "setMap", "mark", "notify", "await",
              "error", "ended"}

\* Every variable keeps its type: only nodes with a watcher are active, and the
\* notification channel never holds more than it has room for.
ZkTypes ==
    /\ view \in [Nodes -> Stamps]
    /\ changes \in 0 .. MaxChanges
    /\ deletes \in 0 .. MaxDeletes /\ expires \in 0 .. MaxExpires
    /\ missed \subseteq Known
ParentTypes ==
    /\ ppc \in [Kinds -> ParentPcs]
    /\ pwatch \in [Kinds -> {"none", "armed", "fired", "expired"}]
    /\ listed \in [Kinds -> SUBSET Nodes] /\ \A k \in Kinds : listed[k] \subseteq Of(k)
WatcherTypes ==
    /\ rpc \in [Nodes -> {"none", "get", "await"}]
    /\ rwatch \in [Nodes -> {"none", "armed", "fired"}]
    /\ active \subseteq Known
LoopTypes ==
    /\ queue \in Seq(Kinds) /\ Len(queue) <= QueueCap
    /\ lpc \in {"off", "select", "list", "view", "read", "stopping", "returned"}
    /\ current \in Kinds
ReadTypes ==
    /\ visited \cup keys \subseteq Of(current)
    /\ \A m, n \in reading : m = n
    /\ result \in [Nodes -> Stamps]
    /\ crash \in BOOLEAN
ViewTypeOK == ZkTypes /\ ParentTypes /\ WatcherTypes /\ LoopTypes /\ ReadTypes

ViewInit ==
    /\ \E S \in SUBSET Nodes :
          view = [n \in Nodes |-> IF n \in S THEN 1 ELSE Absent]
    /\ changes = 1 /\ deletes = 0 /\ expires = 0 /\ missed = {}
    /\ ppc = [k \in Kinds |-> "off"] /\ pwatch = [k \in Kinds |-> "none"]
    /\ listed = [k \in Kinds |-> {}]
    /\ rpc = [n \in Nodes |-> "none"] /\ rwatch = [n \in Nodes |-> "none"]
    /\ active = {} /\ queue = <<>>
    /\ lpc = "off" /\ current = "externalView"
    /\ visited = {} /\ reading = {} /\ keys = {} /\ result = EmptyView
    /\ lock = "free" /\ crash = FALSE

-----------------------------------------------------------------------------
(* The controller, the participants and the session.                       *)

Fired(w) == IF w = "armed" THEN "fired" ELSE w
ChildrenChange(k) == pwatch' = [pwatch EXCEPT ![k] = Fired(@)]

Change == ~crash /\ changes < MaxChanges /\ changes' = changes + 1

\* A node is created or written, with a new stamp; live instances and messages
\* are only created.
Write(n) ==
    /\ Change
    /\ n \notin Present \/ n[1] \in Watched
    /\ view' = [view EXCEPT ![n] = changes']
    /\ missed' = IF n \in Present \cap Known /\ rwatch[n] = "none" THEN missed \cup {n}
                                                               ELSE missed \ {n}
    /\ IF n \in Present THEN UNCHANGED pwatch ELSE ChildrenChange(n[1])
    /\ rwatch' = [rwatch EXCEPT ![n] = Fired(@)]
    /\ UNCHANGED <<deletes, expires, ppc, listed, rpc, active, queue, loopVars,
                   lock, crash>>

Delete(n) ==
    /\ Change
    /\ n \in Present /\ deletes < MaxDeletes
    /\ deletes' = deletes + 1
    /\ view' = [view EXCEPT ![n] = Absent]
    /\ missed' = missed \ {n}
    /\ ChildrenChange(n[1])
    /\ rwatch' = [rwatch EXCEPT ![n] = Fired(@)]
    /\ UNCHANGED <<expires, ppc, listed, rpc, active, queue, loopVars, lock, crash>>

\* Every pending watch gets an event with an error.
Expire ==
    /\ Change
    /\ expires < MaxExpires
    /\ expires' = expires + 1
    /\ pwatch' = [k \in Kinds |-> IF pwatch[k] = "armed" THEN "expired" ELSE pwatch[k]]
    /\ rwatch' = [n \in Nodes |-> Fired(rwatch[n])]
    /\ UNCHANGED <<view, deletes, missed, ppc, listed, rpc, active, queue, loopVars, lock, crash>>

-----------------------------------------------------------------------------
(* The parents: watchExternalView, watchIdealState, watchInstanceConfig,   *)
(* watchLiveInstances and watchControllerMessages.                         *)

ParentGoto(k, there) == ppc' = [ppc EXCEPT ![k] = there]

\* What is done with the names before they are announced.
AfterChildren(k) == IF k \in Watched THEN "clear" ELSE "notify"

\* Mutant: every parent waits for one event, as watchControllerMessages does.
ChildrenOnce(k) ==
    /\ ~crash
    /\ ppc[k] = "children"
    /\ listed' = [listed EXCEPT ![k] = Present \cap Of(k)]
    /\ pwatch' = [pwatch EXCEPT ![k] = "armed"]
    /\ ParentGoto(k, AfterChildren(k))
    /\ UNCHANGED <<zkVars, watcherVars, active, queue, loopVars, lock, crash>>

\* The first read, or <-events and the read that follows it.
ChildrenW(k) ==
    /\ ~crash
    /\ \/ ppc[k] = "children"
       \/ ppc[k] = "await" /\ pwatch[k] = "fired" /\ k # "controllerMessage"
    /\ listed' = [listed EXCEPT ![k] = Present \cap Of(k)]
    /\ pwatch' = [pwatch EXCEPT ![k] = "armed"]
    /\ ParentGoto(k, AfterChildren(k))
    /\ UNCHANGED <<zkVars, watcherVars, active, queue, loopVars, lock, crash>>

\* A write of a map while the loop iterates it without the lock may end the
\* process ("concurrent map iteration and map write").
MapWritten(k) == crash' \in {FALSE, lpc = "view" /\ current = k}

\* Mutant: no watcher is started.
ClearMapOnly(k) ==
    /\ ~crash /\ ppc[k] = "clear" /\ k \in FromMap
    /\ active' = active \ Of(k)
    /\ MapWritten(k)
    /\ ParentGoto(k, "mark")
    /\ UNCHANGED <<zkVars, pwatch, listed, watcherVars, queue, loopVars, lock>>

\* Start a watcher for each new resource; mark every resource false ...
ClearMap(k) ==
    /\ ~crash /\ ppc[k] = "clear" /\ k \in FromMap
    /\ rpc' = [n \in Nodes |-> IF n \in listed[k] \ Known THEN "get" ELSE rpc[n]]
    /\ active' = active \ Of(k)
    /\ MapWritten(k)
    /\ ParentGoto(k, "mark")
    /\ UNCHANGED <<zkVars, pwatch, listed, rwatch, queue, loopVars, lock>>

\* ... and those that are listed true.
MarkListed(k) ==
    /\ ~crash /\ ppc[k] = "mark"
    /\ active' = active \cup listed[k]
    /\ MapWritten(k)
    /\ ParentGoto(k, "notify")
    /\ UNCHANGED <<zkVars, pwatch, listed, watcherVars, queue, loopVars, lock>>

\* instanceConfigMap is only written under the lock.  A watcher for a new
\* config; its entry; and when all have one, the refresh, which nobody reads.
WatchConfig(n) ==
    /\ ~crash /\ ppc["instanceConfig"] = "clear"
    /\ n \in listed["instanceConfig"] \ Known
    /\ rpc' = [rpc EXCEPT ![n] = "get"]
    /\ ParentGoto("instanceConfig", "setMap")
    /\ UNCHANGED <<zkVars, pwatch, listed, rwatch, active, queue, loopVars, lock, crash>>

SetConfigMap ==
    /\ ~crash /\ ppc["instanceConfig"] = "setMap" /\ lock = "free"
    /\ ParentGoto("instanceConfig", "clear")
    /\ UNCHANGED <<zkVars, pwatch, listed, watcherVars, active, queue, loopVars,
                   lock, crash>>

RefreshConfigMap ==
    /\ ~crash /\ ppc["instanceConfig"] = "clear" /\ lock = "free"
    /\ listed["instanceConfig"] \subseteq Known
    /\ ParentGoto("instanceConfig", "notify")
    /\ UNCHANGED <<zkVars, pwatch, listed, watcherVars, active, queue, loopVars,
                   lock, crash>>

\* Mutant: the channel is never full.
NotifyAnyway(k) == queue' = Append(queue, k)

Notify(k) == Len(queue) < QueueCap /\ queue' = Append(queue, k)

\* Mutant: of a full channel's notifications one is dropped.
ParentNotifyOrDrop(k) ==
    /\ ~crash /\ ppc[k] = "notify"
    /\ queue' = IF Len(queue) < QueueCap THEN Append(queue, k) ELSE queue
    /\ ParentGoto(k, "await")
    /\ UNCHANGED <<zkVars, pwatch, listed, watcherVars, active, loopVars, lock, crash>>

ParentNotify(k) ==
    /\ ~crash /\ ppc[k] = "notify"
    /\ Notify(k)
    /\ ParentGoto(k, "await")
    /\ UNCHANGED <<zkVars, pwatch, listed, watcherVars, active, loopVars, lock, crash>>

\* An event with an error: panic(evt.Err), or for live instances a send on a
\* channel nobody receives from.
WatchFailed(k) ==
    /\ ~crash /\ ppc[k] = "await" /\ pwatch[k] = "expired" /\ k # "controllerMessage"
    /\ IF k = "liveInstance" THEN ParentGoto(k, "error") /\ UNCHANGED crash
                             ELSE crash' = TRUE /\ UNCHANGED ppc
    /\ UNCHANGED <<zkVars, pwatch, listed, watcherVars, active, queue, loopVars, lock>>

\* watchControllerMessages returns after any event.
ControllerMessagesEnd ==
    /\ ~crash /\ ppc["controllerMessage"] = "await"
    /\ pwatch["controllerMessage"] \in {"fired", "expired"}
    /\ ParentGoto("controllerMessage", "ended")
    /\ UNCHANGED <<zkVars, pwatch, listed, watcherVars, active, queue, loopVars,
                   lock, crash>>

-----------------------------------------------------------------------------
(* watchExternalViewResource, watchIdealStateResource and                  *)
(* watchInstanceConfigForParticipant.                                      *)

\* GetW waits for the record.
GetW(n) ==
    /\ ~crash /\ rpc[n] = "get" /\ n \in Present
    /\ rwatch' = [rwatch EXCEPT ![n] = "armed"]
    /\ rpc' = [rpc EXCEPT ![n] = "await"]
    /\ UNCHANGED <<zkVars, parentVars, active, queue, loopVars, lock, crash>>

\* Mutant: the event is taken, nothing is sent.
ResourceChangedQuietly(n) ==
    /\ ~crash /\ rpc[n] = "await" /\ rwatch[n] = "fired"
    /\ rwatch' = [rwatch EXCEPT ![n] = "none"]
    /\ rpc' = [rpc EXCEPT ![n] = "get"]
    /\ UNCHANGED <<zkVars, parentVars, active, queue, loopVars, lock, crash>>

\* <-events: any event, an error too; then the notification.
ResourceChanged(n) ==
    /\ ~crash /\ rpc[n] = "await" /\ rwatch[n] = "fired"
    /\ Notify(n[1])
    /\ rwatch' = [rwatch EXCEPT ![n] = "none"]
    /\ rpc' = [rpc EXCEPT ![n] = "get"]
    /\ UNCHANGED <<zkVars, parentVars, active, loopVars, lock, crash>>

-----------------------------------------------------------------------------
(* loop and handleChangeNotification.                                      *)

\* Mutant: what the last view had is kept.
TakeNotificationOnly ==
    LET k == Head(queue) IN
    /\ ~crash /\ lpc = "select" /\ queue # <<>>
    /\ queue' = Tail(queue)
    /\ current' = k
    /\ lpc' = IF k \in FromMap THEN "view" ELSE "list"
    /\ keys' = IF k \in FromMap THEN Known \cap Of(k) ELSE {}
    /\ UNCHANGED <<zkVars, parentVars, watcherVars, active, visited, reading, result,
                   lock, crash>>

\* A notification: GetExternalView and GetIdealState start to iterate their
\* map, the others list the names first.
TakeNotification ==
    LET k == Head(queue) IN
    /\ ~crash /\ lpc = "select" /\ queue # <<>>
    /\ queue' = Tail(queue)
    /\ current' = k
    /\ lpc' = IF k \in FromMap THEN "view" ELSE "list"
    /\ keys' = IF k \in FromMap THEN Known \cap Of(k) ELSE {}
    /\ result' = [n \in Nodes |-> IF n \in Of(k) THEN Absent ELSE result[n]]
    /\ UNCHANGED <<zkVars, parentVars, watcherVars, active, visited, reading, lock, crash>>

\* Children of GetLiveInstances, GetInstanceConfigs or GetControllerMessages.
ListNames ==
    /\ ~crash /\ lpc = "list"
    /\ keys' = Present \cap Of(current)
    /\ lpc' = "view"
    /\ UNCHANGED <<zkVars, parentVars, watcherVars, active, queue, current, visited,
                   reading, result, lock, crash>>

\* The next key, in a map maybe one added meanwhile; inactive ones are skipped.
VisitKey(n) ==
    /\ ~crash /\ lpc = "view"
    /\ n \in (IF current \in FromMap THEN Known \cap Of(current) ELSE keys) \ visited
    /\ visited' = visited \cup {n}
    /\ IF current \in FromMap /\ n \notin active
       THEN UNCHANGED <<lpc, reading>>
       ELSE lpc' = "read" /\ reading' = {n}
    /\ UNCHANGED <<zkVars, parentVars, watcherVars, active, queue, current, keys,
                   result, lock, crash>>

\* GetRecordFromPath waits for the record.  GetControllerMessages keeps those
\* it could not read, which are none.
ReadRecord(n) ==
    /\ ~crash /\ lpc = "read" /\ reading = {n} /\ n \in Present
    /\ result' = IF current = "controllerMessage" THEN result
                                                  ELSE [result EXCEPT ![n] = view[n]]
    /\ lpc' = "view" /\ reading' = {}
    /\ UNCHANGED <<zkVars, parentVars, watcherVars, active, queue, current, visited,
                   keys, lock, crash>>

\* go listener(view, s.context).  A key added meanwhile may be left out.
CallListener ==
    /\ ~crash /\ lpc = "view" /\ keys \subseteq visited
    /\ lpc' = "select" /\ visited' = {} /\ keys' = {}
    /\ UNCHANGED <<zkVars, parentVars, watcherVars, active, queue, current, reading,
                   result, lock, crash>>

-----------------------------------------------------------------------------
\* Connect's loop() with listeners of the kinds in K.
Start(K) ==
    /\ ~crash /\ lpc = "off"
    /\ ppc' = [k \in Kinds |-> IF k \in K THEN "children" ELSE "off"]
    /\ lpc' = "select"
    /\ UNCHANGED <<zkVars, pwatch, listed, watcherVars, active, queue, current,
                   visited, reading, keys, result, lock, crash>>

Parent(k) ==
    \/ ChildrenW(k) \/ ClearMap(k) \/ MarkListed(k) \/ ParentNotify(k) \/ WatchFailed(k)
    \/ /\ k = "instanceConfig"
       /\ SetConfigMap \/ RefreshConfigMap \/ \E n \in Nodes : WatchConfig(n)
    \/ k = "controllerMessage" /\ ControllerMessagesEnd

Watcher(n) == GetW(n) \/ ResourceChanged(n)

ReadView ==
    \/ TakeNotification \/ ListNames
    \/ \E n \in Nodes : VisitKey(n) \/ ReadRecord(n)

Loop == ReadView \/ CallListener

-----------------------------------------------------------------------------
(* Properties.                                                             *)

\* No notification of kind k is on its way and none will be sent for what has
\* happened to the list of names.
ParentQuiet(k) == ppc[k] = "await" /\ pwatch[k] = "armed"
LoopQuiet(k) == /\ lpc = "select" \/ current # k
                /\ \A i \in DOMAIN queue : queue[i] # k
WatcherQuiet(n) == rpc[n] = "await" /\ rwatch[n] = "armed"

\* No creation and no removal is lost: with the parent quiet and the loop done
\* with its kind, the last view given to the listeners is of the nodes there
\* are (the parents arm, refresh the map and notify, in this order).  Controller
\* messages are never shown.
QuietViewIsComplete ==
    \A k \in Kinds \ {"controllerMessage"} :
        ParentQuiet(k) /\ LoopQuiet(k) =>
            {n \in Of(k) : result[n] # Absent} = Present \cap Of(k)

\* Live instances have no watchers, but an instance that has come back is shown
\* with its new session, not the one it died with (watchLiveInstances,
\* GetLiveInstances).
QuietLiveInstancesAreCurrent ==
    ParentQuiet("liveInstance") /\ LoopQuiet("liveInstance") =>
        \A n \in Of("liveInstance") : result[n] = view[n]

\* The only writes that are not shown are those between a watcher's event and
\* its next GetW: a record the last view has an older version of was written
\* then (watchExternalViewResource and its copies).
OnlyMissedAreStale ==
    \A k \in Watched :
        /\ ParentQuiet(k) /\ LoopQuiet(k)
        /\ \A n \in Known \cap Of(k) : WatcherQuiet(n)
        => \A n \in Of(k) \ missed : result[n] = view[n]

\* Every record is announced by the watcher that is armed for it: with all of
\* the goroutines quiet, the last view holds the records as they are.
QuietViewIsCurrent ==
    \A k \in Watched :
        /\ ParentQuiet(k) /\ LoopQuiet(k)
        /\ \A n \in Known \cap Of(k) : WatcherQuiet(n)
        => \A n \in Of(k) : result[n] = view[n]
=============================================================================
