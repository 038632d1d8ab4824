-------------------------- MODULE ParticipantLoop --------------------------
(***************************************************************************)
(* One connected gohelix participant (src/participant.go), from the        *)
(* message nodes a controller writes to the current states it reads back.  *)
(* Three goroutines run here:                                              *)
(*   watcher  watchMessages: ChildrenW on MESSAGES, hands each snapshot to *)
(*            the loop over an unbuffered channel, waits for the event;    *)
(*   loop     loop / processMessage / handleStateTransition;               *)
(*   gc       drops messageProcessedTime entries older than ten seconds.   *)
(* They share the connection and with it conn.stat, the Stat of whatever   *)
(* node was read last, whose Version every Set sends.                      *)
(*                                                                         *)
(* One step is one ZooKeeper request or one channel operation, with the    *)
(* local code that follows it.  Get, Exists, Children and ChildrenW are    *)
(* retried for ever (src/connection.go), so a read of a missing node is a  *)
(* step that waits; Set, Create and Delete are tried once.                 *)
(***************************************************************************)
EXTENDS ParticipantMessages, FiniteSets

CONSTANTS
    MaxWithdraw,     \* bound on messages deleted by another client
    MaxDeleteError,  \* bound on Delete requests lost with the connection
    SlowRounds       \* may the loop still look at a snapshot that is older
                     \* than the ten seconds its history goes back?

ASSUME LoopAssumption ==
    /\ MaxWithdraw \in Nat
    /\ MaxDeleteError \in Nat
    /\ SlowRounds \in BOOLEAN

VARIABLES
    \* ZooKeeper
    letter,      \* the content of each message id, fixed by its sender
    sent,        \* ids created under MESSAGES so far
    box,         \* children of MESSAGES
    withdrawn,   \* messages deleted by another client
    session,     \* conn.GetSessionID()
    version,     \* data version of each current state record, Absent if none
    recorded,    \* CURRENT_STATE of each partition in each record
    \* the watcher goroutine
    wpc,         \* where it is
    watch,       \* its child watch on MESSAGES
    snapshot,    \* what ChildrenW returned
    \* the loop goroutine
    pc,          \* where it is
    todo,        \* messages of the snapshot not looked at yet
    cur,         \* the message in hand
    pathSession, \* session in the path postHandleMessage built
    local,       \* the record UpdateMapField read
    processed,   \* messages processMessage has returned from
    deleteErrors,\* Delete requests that failed
    \* shared
    stat,        \* conn.stat.Version
    history,     \* keys of messageProcessedTime
    gc,          \* is the collector iterating messageProcessedTime?
    crash        \* how the process ended: a failed request or a malformed
                 \* message ("panic"), a refused version ("conflict"), a
                 \* runtime check on a map ("fatal")

orderVars == <<letter, sent, withdrawn, session>>
recordVars == <<version, recorded>>
watcherVars == <<wpc, snapshot>>
loopVars == <<todo, cur, pathSession, local, processed, deleteErrors>>
memVars == <<history, gc>>
vars == <<letter, sent, box, withdrawn, session, version, recorded, wpc, watch,
          snapshot, pc, todo, cur, pathSession, local, processed, deleteErrors,
          stat, history, gc, crash>>

Absent == -1

\* Writing the current state of the message in hand; removing it.
Recording == {"exists", "ensure", "setGet", "setSet", "post", "dropKey", "path",
              "mapGet", "mapSet"}
Removing == {"rmExists", "rmChildren", "rmDelete"}
Handling == {"get", "done"} \cup Recording \cup Removing
LoopPcs == {"select", "next"} \cup Handling
WatcherPcs == {"children", "send", "await", "error", "returned"}

\* Every variable keeps its type: versions and conn.stat are never below zero
\* but for a node that is not there, and no counter passes its bound.
TypeOK ==
    /\ letter \in [Msgs -> Letters]
    /\ sent \subseteq Msgs /\ box \subseteq Msgs /\ withdrawn \subseteq Msgs
    /\ session \in FirstSession .. MaxSession
    /\ version \in [Keys -> Nat \cup {Absent}]
    /\ recorded \in [Keys -> [Partitions -> States \cup {NoState}]]
    /\ wpc \in WatcherPcs
    /\ watch \in {"none", "armed", "fired", "expired"}
    /\ snapshot \subseteq Msgs
    /\ pc \in LoopPcs
    /\ todo \subseteq Msgs
    /\ cur \in Msgs
    /\ pathSession \in FirstSession .. MaxSession
    /\ local \in [Partitions -> States \cup {NoState}]
    /\ processed \subseteq Msgs
    /\ deleteErrors \in 0 .. MaxDeleteError
    /\ stat \in Nat
    /\ history \subseteq Msgs
    /\ gc \in {"idle", "scan"}
    /\ crash \in {"none", "panic", "conflict", "fatal"}

Init ==
    /\ letter \in [Msgs -> Letters]
    /\ sent = {} /\ box = {} /\ withdrawn = {}
    /\ session = FirstSession
    /\ version = [k \in Keys |-> Absent]
    /\ recorded = [k \in Keys |-> NothingRecorded]
    /\ wpc = "children" /\ watch = "none" /\ snapshot = {}
    /\ pc = "select" /\ todo = {} /\ cur \in Msgs
    /\ pathSession = FirstSession /\ local = NothingRecorded
    /\ processed = {} /\ deleteErrors = 0
    /\ stat = 0 /\ history = {} /\ gc = "idle"
    /\ crash = "none"

-----------------------------------------------------------------------------
\* A crash ends all three goroutines.
Running == crash = "none"

\* The loop is at p.
At(p) == Running /\ pc = p

(* The rest of the cluster and the ZooKeeper session.                      *)

\* A change to the children of MESSAGES: a watch fires once.
Fire(w) == IF w = "armed" THEN "fired" ELSE w

\* A controller writes a message, for a session it has seen or for "*".
Send(m) ==
    /\ m \notin sent
    /\ letter[m].tgt \in (0 .. session) \cup {AnySession}
    /\ sent' = sent \cup {m}
    /\ box' = box \cup {m}
    /\ watch' = Fire(watch)
    /\ UNCHANGED <<letter, withdrawn, session, recordVars, watcherVars, pc,
                   loopVars, stat, memVars, crash>>

\* Another client deletes a message: an administrator dropping the node, or a
\* second process with this id, which removes what is not for its session.
Withdraw(m) ==
    /\ m \in box
    /\ Cardinality(withdrawn) < MaxWithdraw
    /\ box' = box \ {m}
    /\ withdrawn' = withdrawn \cup {m}
    /\ watch' = Fire(watch)
    /\ UNCHANGED <<letter, sent, session, recordVars, watcherVars, pc, loopVars,
                   stat, memVars, crash>>

\* The session expires.  The client connects again with a new one; pending
\* watches get an error event, the live instance is gone.
Expire ==
    /\ session < MaxSession
    /\ session' = session + 1
    /\ watch' = IF watch = "armed" THEN "expired" ELSE watch
    /\ UNCHANGED <<letter, sent, box, withdrawn, recordVars, watcherVars, pc,
                   loopVars, stat, memVars, crash>>

-----------------------------------------------------------------------------
(* watchMessages.                                                          *)

ChildrenW ==
    /\ Running /\ wpc = "children"
    /\ snapshot' = box
    /\ watch' = "armed"
    /\ stat' = 0
    /\ wpc' = "send"
    /\ UNCHANGED <<orderVars, box, recordVars, pc, loopVars, memVars, crash>>

\* The loop takes the snapshot from the channel.
TakeSnapshot ==
    /\ At("select") /\ wpc = "send"
    /\ todo' = snapshot
    /\ pc' = "next"
    /\ wpc' = "await"
    /\ UNCHANGED <<orderVars, box, recordVars, watch, snapshot, cur, pathSession,
                   local, processed, deleteErrors, stat, memVars, crash>>

\* Mutant: the watcher waits for one event only, as watchInstanceMessages does.
ChangedOnce ==
    /\ Running /\ wpc = "await" /\ watch = "fired"
    /\ watch' = "none"
    /\ wpc' = "returned"
    /\ UNCHANGED <<orderVars, box, recordVars, snapshot, pc, loopVars, stat,
                   memVars, crash>>

\* <-events: a change, read the children again.
Changed ==
    /\ Running /\ wpc = "await" /\ watch = "fired"
    /\ watch' = "none"
    /\ wpc' = "children"
    /\ UNCHANGED <<orderVars, box, recordVars, snapshot, pc, loopVars, stat,
                   memVars, crash>>

\* <-events: an error, pass it on and return.
WatchFailed ==
    /\ Running /\ wpc = "await" /\ watch = "expired"
    /\ wpc' = "error"
    /\ UNCHANGED <<orderVars, box, recordVars, watch, snapshot, pc, loopVars,
                   stat, memVars, crash>>

\* The loop prints the error and goes on.
TakeError ==
    /\ At("select") /\ wpc = "error"
    /\ wpc' = "returned"
    /\ UNCHANGED <<orderVars, box, recordVars, watch, snapshot, pc, loopVars,
                   stat, memVars, crash>>

-----------------------------------------------------------------------------
(* loop: the rest of the snapshot.                                         *)

Goto(p) == pc' = p

\* A map used while another goroutine iterates and deletes from it may end
\* the process ("concurrent map iteration and map write").
MapChecked == crash' = crash \/ (gc = "scan" /\ crash' = "fatal")

EndOfSnapshot ==
    /\ At("next") /\ todo = {}
    /\ Goto("select")
    /\ UNCHANGED <<orderVars, box, recordVars, watch, watcherVars, loopVars,
                   stat, memVars, crash>>

\* Mutant: no look at messageProcessedTime.
NextMessageUnseen(m) ==
    /\ At("next") /\ m \in todo
    /\ MapChecked
    /\ todo' = todo \ {m}
    /\ Goto("get") /\ cur' = m
    /\ UNCHANGED <<orderVars, box, recordVars, watch, watcherVars, pathSession,
                   local, processed, deleteErrors, stat, memVars>>

\* The order of a snapshot is ZooKeeper's: any message may be next.
NextMessage(m) ==
    /\ At("next") /\ m \in todo
    /\ MapChecked
    /\ todo' = todo \ {m}
    /\ IF m \in history
       THEN UNCHANGED <<pc, cur>>
       ELSE Goto("get") /\ cur' = m
    /\ UNCHANGED <<orderVars, box, recordVars, watch, watcherVars, pathSession,
                   local, processed, deleteErrors, stat, memVars>>

\* Mutant: the loop leaves the snapshot after one message.
RememberAndBreak ==
    /\ At("done")
    /\ MapChecked
    /\ history' = history \cup {cur}
    /\ processed' = processed \cup {cur}
    /\ todo' = {}
    /\ Goto("next")
    /\ UNCHANGED <<orderVars, box, recordVars, watch, watcherVars, cur,
                   pathSession, local, deleteErrors, stat, gc>>

\* messageProcessedTime[msg] = time.Now()
Remember ==
    /\ At("done")
    /\ MapChecked
    /\ history' = history \cup {cur}
    /\ processed' = processed \cup {cur}
    /\ Goto("next")
    /\ UNCHANGED <<orderVars, box, recordVars, watch, watcherVars, todo, cur,
                   pathSession, local, deleteErrors, stat, gc>>

-----------------------------------------------------------------------------
(* processMessage.                                                         *)

Wanted == letter[cur]

(***************************************************************************)
(* Where processMessage goes with the message it has read.  A message that *)
(* is no transition reaches handleStateTransition, whose type assertions   *)
(* on FROM_STATE and TO_STATE panic.                                       *)
(***************************************************************************)
Dispatch(l) ==
    IF l.type = "NO_OP" \/ l.tgt \notin {session, AnySession}
    THEN Goto("rmExists") /\ UNCHANGED crash
    ELSE IF l.state # "NEW" THEN Goto("done") /\ UNCHANGED crash
    ELSE IF l.type = "STATE_TRANSITION" THEN Goto("exists") /\ UNCHANGED crash
    ELSE crash' = "panic" /\ UNCHANGED pc

\* The read waits while the message does not exist.
GetMessage ==
    /\ At("get") /\ cur \in box
    /\ stat' = 0
    /\ Dispatch(Wanted)
    /\ UNCHANGED <<orderVars, box, recordVars, watch, watcherVars, loopVars,
                   memVars>>

\* Mutant: the Stat of a missing node is taken for one.
CheckCurrentStateNoStat ==
    LET v == version[KeyOf(Wanted)] IN
    /\ At("exists")
    /\ stat' = v
    /\ Goto(IF v = Absent THEN "ensure" ELSE "post")
    /\ UNCHANGED <<orderVars, box, recordVars, watch, watcherVars, loopVars,
                   memVars, crash>>

\* Mutant: a state is only set while there is no record.
CheckCurrentStateOnce ==
    LET v == version[KeyOf(Wanted)] IN
    /\ At("exists")
    /\ IF v = Absent THEN stat' = 0 /\ Goto("ensure")
                     ELSE stat' = v /\ Goto("rmExists")
    /\ UNCHANGED <<orderVars, box, recordVars, watch, watcherVars, loopVars,
                   memVars, crash>>

CheckCurrentState ==
    LET v == version[KeyOf(Wanted)] IN
    /\ At("exists")
    /\ IF v = Absent THEN stat' = 0 /\ Goto("ensure")
                     ELSE stat' = v /\ Goto("post")
    /\ UNCHANGED <<orderVars, box, recordVars, watch, watcherVars, loopVars,
                   memVars, crash>>

\* A request that is not retried fails with the connection: must(err).
RequestFails ==
    /\ Running /\ pc \in {"ensure", "setSet", "mapSet"}
    /\ crash' = "panic"
    /\ UNCHANGED <<orderVars, box, recordVars, watch, watcherVars, pc, loopVars,
                   stat, memVars>>

\* SetRecordForPath: ensurePath creates the record's node, empty, version 0 ...
EnsurePath ==
    /\ At("ensure")
    /\ version' = [version EXCEPT ![KeyOf(Wanted)] = 0]
    /\ stat' = 0
    /\ Goto("setGet")
    /\ UNCHANGED <<orderVars, box, recorded, watch, watcherVars, loopVars,
                   memVars, crash>>

\* ... Get for the version ...
SetRecordGet ==
    /\ At("setGet")
    /\ version[KeyOf(Wanted)] # Absent
    /\ stat' = version[KeyOf(Wanted)]
    /\ Goto("setSet")
    /\ UNCHANGED <<orderVars, box, recordVars, watch, watcherVars, loopVars,
                   memVars, crash>>

\* Mutant: a refused Set is ignored, no must(err).
SetIgnoringErrors(k, data, then) ==
    /\ IF stat = version[k]
       THEN /\ version' = [version EXCEPT ![k] = @ + 1]
            /\ recorded' = [recorded EXCEPT ![k] = data]
       ELSE UNCHANGED recordVars
    /\ Goto(then)
    /\ UNCHANGED crash

\* conn.Set: ZooKeeper takes the data if the version is the node's.
Set(k, data, then) ==
    IF stat = version[k]
    THEN /\ version' = [version EXCEPT ![k] = @ + 1]
         /\ recorded' = [recorded EXCEPT ![k] = data]
         /\ Goto(then)
         /\ UNCHANGED crash
    ELSE crash' = "conflict" /\ UNCHANGED <<recordVars, pc>>

\* ... and Set the meta data, with no partition in it.
SetRecordSet ==
    /\ At("setSet")
    /\ Set(KeyOf(Wanted), NothingRecorded, "post")
    /\ UNCHANGED <<orderVars, box, watch, watcherVars, loopVars, stat, memVars>>

-----------------------------------------------------------------------------
(* postHandleMessage: FROM_STATE is not looked at, no handler is called.   *)

\* Mutant: no look at the session.
CheckNoSession ==
    /\ At("post")
    /\ Goto(IF Wanted.to = "DROPPED" THEN "dropKey" ELSE "path")
    /\ UNCHANGED <<orderVars, box, recordVars, watch, watcherVars, loopVars,
                   stat, memVars, crash>>

\* The first look at the session.
CheckSession ==
    /\ At("post")
    /\ Goto(IF Wanted.tgt # session THEN "rmExists"
            ELSE IF Wanted.to = "DROPPED" THEN "dropKey" ELSE "path")
    /\ UNCHANGED <<orderVars, box, recordVars, watch, watcherVars, loopVars,
                   stat, memVars, crash>>

\* RemoveMapFieldKey reads the session's node, which holds no record: the
\* error is ignored and nothing is removed.
DropKey ==
    /\ At("dropKey")
    /\ \E r \in Resources : version[<<Wanted.tgt, r>>] # Absent
    /\ stat' = 0
    /\ Goto("path")
    /\ UNCHANGED <<orderVars, box, recordVars, watch, watcherVars, loopVars,
                   memVars, crash>>

\* The second look at the session, for the path of the record.
BuildPath ==
    /\ At("path")
    /\ pathSession' = session
    /\ Goto("mapGet")
    /\ UNCHANGED <<orderVars, box, recordVars, watch, watcherVars, todo, cur,
                   local, processed, deleteErrors, stat, memVars, crash>>

PathKey == <<pathSession, Wanted.res>>

\* UpdateMapField: Get waits for the node; an empty one is no record.
UpdateMapGet ==
    /\ At("mapGet")
    /\ version[PathKey] # Absent
    /\ stat' = version[PathKey]
    /\ local' = recorded[PathKey]
    /\ IF version[PathKey] = 0
       THEN crash' = "panic" /\ UNCHANGED pc
       ELSE Goto("mapSet") /\ UNCHANGED crash
    /\ UNCHANGED <<orderVars, box, recordVars, watch, watcherVars, todo, cur,
                   pathSession, processed, deleteErrors, memVars>>

UpdateMapSet ==
    /\ At("mapSet")
    /\ Set(PathKey, [local EXCEPT ![Wanted.part] = Wanted.to], "rmExists")
    /\ UNCHANGED <<orderVars, box, watch, watcherVars, loopVars, stat, memVars>>

-----------------------------------------------------------------------------
(* DeleteTree of the message.                                              *)

RemoveExists ==
    /\ At("rmExists")
    /\ stat' = 0
    /\ Goto(IF cur \in box THEN "rmChildren" ELSE "done")
    /\ UNCHANGED <<orderVars, box, recordVars, watch, watcherVars, loopVars,
                   memVars, crash>>

\* Children waits, too.
RemoveChildren ==
    /\ At("rmChildren") /\ cur \in box
    /\ stat' = 0
    /\ Goto("rmDelete")
    /\ UNCHANGED <<orderVars, box, recordVars, watch, watcherVars, loopVars,
                   memVars, crash>>

RemoveDelete ==
    /\ At("rmDelete")
    /\ box' = box \ {cur}
    /\ watch' = IF cur \in box THEN Fire(watch) ELSE watch
    /\ Goto("done")
    /\ UNCHANGED <<orderVars, recordVars, watcherVars, loopVars, stat, memVars,
                   crash>>

\* The request is lost, the error ignored: the message stays, NEW.
DeleteLost ==
    /\ At("rmDelete")
    /\ deleteErrors < MaxDeleteError
    /\ deleteErrors' = deleteErrors + 1
    /\ Goto("done")
    /\ UNCHANGED <<orderVars, box, recordVars, watch, watcherVars, todo, cur,
                   pathSession, local, processed, stat, memVars, crash>>

-----------------------------------------------------------------------------
(* The history's collector.                                                *)

CollectStart ==
    /\ Running /\ gc = "idle" /\ history # {}
    /\ gc' = "scan"
    /\ UNCHANGED <<orderVars, box, recordVars, watch, watcherVars, pc, loopVars,
                   stat, history, crash>>

\* Messages of the snapshot the loop is iterating or about to receive.
InSnapshots == todo \cup (IF wpc = "send" THEN snapshot ELSE {})

\* Entries old enough go.  Unless rounds are slow, a message of a snapshot
\* still in use was processed less than ten seconds ago.
CollectEnd(old) ==
    /\ Running /\ gc = "scan"
    /\ SlowRounds \/ old \cap InSnapshots = {}
    /\ history' = history \ old
    /\ gc' = "idle"
    /\ UNCHANGED <<orderVars, box, recordVars, watch, watcherVars, pc, loopVars,
                   stat, crash>>

-----------------------------------------------------------------------------
Environment == (\E m \in Msgs : Send(m) \/ Withdraw(m)) \/ Expire

Watcher == ChildrenW \/ Changed \/ WatchFailed

RecordStep ==
    \/ CheckCurrentState \/ EnsurePath \/ SetRecordGet \/ SetRecordSet
    \/ CheckSession \/ DropKey \/ BuildPath \/ UpdateMapGet \/ UpdateMapSet
    \/ RequestFails

RemoveStep == RemoveExists \/ RemoveChildren \/ RemoveDelete \/ DeleteLost

Loop ==
    \/ TakeSnapshot \/ TakeError \/ EndOfSnapshot
    \/ \E m \in Msgs : NextMessage(m)
    \/ GetMessage \/ RecordStep \/ RemoveStep \/ Remember

Collector == CollectStart \/ \E old \in SUBSET history : CollectEnd(old)

Next == Environment \/ Watcher \/ Loop \/ Collector

Spec == Init /\ [][Next]_vars

(***************************************************************************)
(* The Go scheduler runs a goroutine that can run and a retried read ends  *)
(* once its node is there: the watcher and the loop each make progress.    *)
(* Nothing is assumed of the controller, the session or the collector.     *)
(***************************************************************************)
Fairness == WF_vars(Watcher) /\ WF_vars(Loop)

FairSpec == Spec /\ Fairness

-----------------------------------------------------------------------------
(* The inductive invariant behind the properties, by what it is about.     *)

\* Message nodes come and go; only the loop removes the message in hand.
MessageInv ==
    /\ box \cup withdrawn \subseteq sent
    /\ box \cap withdrawn = {}
    /\ \A m \in sent : letter[m].tgt \in (0 .. session) \cup {AnySession}
    /\ pc \in Recording \cup Removing => cur \in box \cup withdrawn
    /\ pc \in Recording => IsOrder(Wanted)

\* After the first look at the session, the order is for a session the
\* participant has had.
Matched == {"dropKey", "path", "mapGet", "mapSet"}

\* No record belongs to a later session than the order in hand: so the path
\* built from the second look either is the order's or has no node.
SessionInv ==
    /\ \A k \in Keys : version[k] # Absent => k[1] \in (0 .. session) \cup {AnySession}
    /\ pc \in Recording /\ Wanted.tgt # AnySession =>
          \A k \in Keys : version[k] # Absent => k[1] \in (0 .. Wanted.tgt) \cup {AnySession}
    /\ pc \in Matched => Wanted.tgt \in FirstSession .. session
    /\ pc \in {"mapGet", "mapSet"} => pathSession >= Wanted.tgt

\* A record that was never set holds nothing; one being set up is new; the
\* copy UpdateMapField holds is the record.
RecordInv ==
    /\ \A k \in Keys : version[k] <= 0 => recorded[k] = NothingRecorded
    /\ pc = "ensure" => version[KeyOf(Wanted)] = Absent
    /\ pc \in {"setGet", "setSet"} => version[KeyOf(Wanted)] = 0
    /\ pc = "mapSet" => version[PathKey] # Absent /\ local = recorded[PathKey]

\* A message is answered before the first request that removes it.
AnsweredInv ==
    pc \in Removing =>
        \/ Wanted.type = "NO_OP"
        \/ Wanted.tgt # session
        \/ IsOrder(Wanted) /\ recorded[KeyOf(Wanted)][Wanted.part] = Wanted.to

LoopInv == MessageInv /\ SessionInv /\ RecordInv /\ AnsweredInv

-----------------------------------------------------------------------------
(* Properties.                                                             *)

\* What the controller sees is ParticipantContract: whatever the goroutines
\* do, states are recorded under the session an order was addressed to, and a
\* message is removed only once it is answered (processMessage and the two
\* reads of the session in postHandleMessage).
Contract == INSTANCE ParticipantContract WITH
    removed <- sent \ (box \cup withdrawn)

KeepsContract == Contract!Spec

\* No wake-up is lost: a message that processMessage has not returned from is
\* ahead of the loop (in hand, in a snapshot, or about to be in one), or the
\* session has expired under the watcher (watchMessages and loop).
NoMessageForgotten ==
    \A m \in box \ processed :
        \/ m \in InSnapshots
        \/ m = cur /\ pc \in Handling
        \/ watch = "fired" \/ wpc = "children"
        \/ watch = "expired"

\* messageProcessedTime does its work when rounds are quick: a message the
\* loop takes up a second time still exists, so its read does not wait for
\* ever (loop, "so we don't process them again").
NeverAwaitsConsumed ==
    At("get") /\ cur \in processed => cur \in box \cup withdrawn

\* While the session lasts, an order addressed to it is recorded in the end,
\* whatever the collector does and whichever Delete requests are lost.
Addressed(m) ==
    m \in box \ processed /\ IsOrder(letter[m]) /\ letter[m].tgt = session
RecordedNow(m) == recorded[KeyOf(letter[m])][letter[m].part] = letter[m].to
OrdersRecorded ==
    \A m \in Msgs : Addressed(m) ~> (RecordedNow(m) \/ ~Running)

\* Every message the controller writes is looked at.
MessagesExamined == \A m \in Msgs : m \in box ~> (m \in processed \/ ~Running)

\* SetRecordForPath says that stat.version must come from a Get before each
\* set.  With one participant and no other writer of the current states, no
\* Set should then be refused.
NoSpuriousConflict == crash # "conflict"
=============================================================================
