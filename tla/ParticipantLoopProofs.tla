----------------------- MODULE ParticipantLoopProofs -----------------------
(***************************************************************************)
(* Proofs about ParticipantLoop, for any messages, letters, resources,     *)
(* partitions and bounds.                                                  *)
(***************************************************************************)
EXTENDS ParticipantLoop, TLAPS

(***************************************************************************)
(* Type correctness, one step per group of actions that share a shape.     *)
(***************************************************************************)
\* The initial state is well typed.
LEMMA TypeInit == Init => TypeOK
  BY MessagesAssumption, LoopAssumption
  DEF Init, TypeOK, MessagesAssumption, LoopAssumption, NothingRecorded,
      FirstSession, WatcherPcs, LoopPcs, Absent

USE DEF TypeOK, LoopPcs, Handling, Recording, Removing, WatcherPcs

\* Controllers, other clients and expiries keep the types.
LEMMA TypeEnvironment ==
  ASSUME TypeOK, Environment PROVE TypeOK'
<1>1. ASSUME NEW m \in Msgs, Send(m) \/ Withdraw(m) PROVE TypeOK'
  BY <1>1 DEF Send, Withdraw, Fire, recordVars, watcherVars, loopVars, memVars
<1>2. CASE Expire
  BY <1>2, MessagesAssumption
  DEF Expire, recordVars, watcherVars, loopVars, memVars, MessagesAssumption,
      FirstSession
<1> QED BY <1>1, <1>2 DEF Environment

\* The steps of watchMessages keep the types.
LEMMA TypeWatcher == ASSUME TypeOK, Watcher PROVE TypeOK'
  BY DEF Watcher, ChildrenW, Changed, WatchFailed, orderVars, recordVars,
         loopVars, memVars

\* The steps of the history's collector keep the types.
LEMMA TypeCollector == ASSUME TypeOK, Collector PROVE TypeOK'
  BY DEF Collector, CollectStart, CollectEnd, orderVars, recordVars,
         watcherVars, loopVars, memVars

\* Any letter a message carries has its fields in range, and names a record.
LEMMA WantedType ==
  ASSUME TypeOK
  PROVE  /\ Wanted \in Letter
         /\ KeyOf(Wanted) \in Keys
         /\ PathKey \in Keys
         /\ \A m \in Msgs : letter[m] \in Letter /\ KeyOf(letter[m]) \in Keys
<1>1. \A m \in Msgs : letter[m] \in Letter
  BY MessagesAssumption DEF MessagesAssumption
<1>2. \A l \in Letter : KeyOf(l) \in Keys /\ l.res \in Resources
  BY DEF Letter, KeyOf, Keys
<1>3. pathSession \in Sessions
  BY MessagesAssumption DEF MessagesAssumption, FirstSession, Sessions
<1> QED BY <1>1, <1>2, <1>3 DEF Wanted, PathKey, Keys

\* So do those of SetRecordForPath and postHandleMessage.
LEMMA TypeRecord == ASSUME TypeOK, RecordStep PROVE TypeOK'
<1> USE DEF orderVars, watcherVars, loopVars, memVars, Goto
<1>0. /\ Wanted \in Letter
      /\ KeyOf(Wanted) \in Keys
      /\ PathKey \in Keys
  BY WantedType
<1>1. CASE CheckCurrentState
  BY <1>1, <1>0 DEF CheckCurrentState, recordVars, Absent
<1>2. CASE EnsurePath
  BY <1>2, <1>0 DEF EnsurePath, Absent
<1>3. CASE SetRecordGet
  BY <1>3, <1>0 DEF SetRecordGet, recordVars, Absent
<1>4. ASSUME NEW k \in Keys, NEW data \in [Partitions -> States \cup {NoState}],
             NEW then \in LoopPcs, Set(k, data, then),
             UNCHANGED <<orderVars, box, watch, watcherVars, loopVars, stat, memVars>>
      PROVE  TypeOK'
  <2>1. CASE stat = version[k]
    BY <1>4, <2>1 DEF Set, Absent
  <2>2. CASE stat # version[k]
    BY <1>4, <2>2 DEF Set, recordVars
  <2> QED BY <2>1, <2>2
<1>5. CASE SetRecordSet
  BY <1>5, <1>4, <1>0 DEF SetRecordSet, NothingRecorded
<1>6. CASE CheckSession
  BY <1>6 DEF CheckSession, recordVars
<1>7. CASE DropKey
  BY <1>7 DEF DropKey, recordVars
<1>8. CASE BuildPath
  BY <1>8 DEF BuildPath, recordVars
<1>9. CASE UpdateMapGet
  BY <1>9, <1>0 DEF UpdateMapGet, recordVars, Absent
<1>10. CASE UpdateMapSet
  <2>1. [local EXCEPT ![Wanted.part] = Wanted.to] \in [Partitions -> States \cup {NoState}]
    BY <1>0 DEF Letter
  <2> QED BY <1>10, <1>4, <1>0, <2>1 DEF UpdateMapSet
<1>11. CASE RequestFails
  BY <1>11 DEF RequestFails, recordVars
<1> QED
  BY <1>1, <1>2, <1>3, <1>5, <1>6, <1>7, <1>8, <1>9, <1>10, <1>11 DEF RecordStep

\* So do all of the loop's steps.
LEMMA TypeLoop == ASSUME TypeOK, Loop PROVE TypeOK'
<1> USE DEF orderVars, watcherVars, loopVars, memVars, recordVars, Goto
<1>1. CASE TakeSnapshot \/ TakeError \/ EndOfSnapshot
  BY <1>1 DEF TakeSnapshot, TakeError, EndOfSnapshot
<1>2. ASSUME NEW m \in Msgs, NextMessage(m) PROVE TypeOK'
  BY <1>2 DEF NextMessage, MapChecked
<1>3. CASE GetMessage
  BY <1>3 DEF GetMessage, Dispatch
<1>4. CASE RecordStep
  BY <1>4, TypeRecord
<1>5. CASE RemoveStep
  <2>1. CASE RemoveExists \/ RemoveChildren
    BY <2>1 DEF RemoveExists, RemoveChildren
  <2>2. CASE RemoveDelete
    BY <2>2 DEF RemoveDelete, Fire
  <2>3. CASE DeleteLost
    BY <2>3, LoopAssumption DEF DeleteLost, LoopAssumption
  <2> QED BY <1>5, <2>1, <2>2, <2>3 DEF RemoveStep
<1>6. CASE Remember
  BY <1>6 DEF Remember, MapChecked
<1> QED BY <1>1, <1>2, <1>3, <1>4, <1>5, <1>6 DEF Loop

\* So does a step in which nothing happens.
LEMMA TypeStutter == ASSUME TypeOK, UNCHANGED vars PROVE TypeOK'
  BY DEF vars

\* Every variable keeps its type, conn.stat and the record versions included,
\* in every step of the watcher, the loop and the collector.
THEOREM TypeCorrect == Spec => []TypeOK
<1>1. TypeOK /\ [Next]_vars => TypeOK'
  BY TypeEnvironment, TypeWatcher, TypeLoop, TypeCollector, TypeStutter DEF Next
<1> QED BY TypeInit, <1>1, PTL DEF Spec

-----------------------------------------------------------------------------
(***************************************************************************)
(* The inductive invariant.  Steps of the watcher and of the collector     *)
(* change nothing it mentions.                                             *)
(***************************************************************************)
invVars == <<orderVars, box, recordVars, pc, cur, pathSession, local>>

\* Before the first snapshot there is no record and no message in hand.
LEMMA LoopInvInit == Init => LoopInv
  BY MessagesAssumption
  DEF Init, LoopInv, MessageInv, SessionInv, RecordInv, AnsweredInv, Matched,
      MessagesAssumption, FirstSession, Absent

\* The invariant reads no other variables than invVars.
LEMMA LoopInvUnchanged == ASSUME LoopInv, UNCHANGED invVars PROVE LoopInv'
  BY DEF invVars, orderVars, recordVars, LoopInv, MessageInv, SessionInv,
         RecordInv, AnsweredInv, Matched, Wanted, KeyOf, PathKey

\* The watcher and the collector change none of them.
LEMMA LoopInvElsewhere ==
  ASSUME LoopInv, Watcher \/ Collector \/ UNCHANGED vars PROVE LoopInv'
<1>1. UNCHANGED invVars
  BY DEF invVars, vars, Watcher, ChildrenW, Changed, WatchFailed, Collector,
         CollectStart, CollectEnd, orderVars, recordVars, loopVars
<1> QED BY <1>1, LoopInvUnchanged

\* A new message, a message withdrawn, a new session.
LEMMA LoopInvEnvironment == ASSUME TypeOK, LoopInv, Environment PROVE LoopInv'
<1> USE DEF recordVars, loopVars, Wanted, KeyOf, PathKey, Matched
<1>1. ASSUME NEW m \in Msgs, Send(m) PROVE LoopInv'
  BY <1>1 DEF Send, LoopInv, MessageInv, SessionInv, RecordInv, AnsweredInv
<1>2. ASSUME NEW m \in Msgs, Withdraw(m) PROVE LoopInv'
  BY <1>2 DEF Withdraw, LoopInv, MessageInv, SessionInv, RecordInv, AnsweredInv
<1>3. CASE Expire
  <2>1. MessageInv' /\ SessionInv' /\ RecordInv'
    BY <1>3 DEF Expire, LoopInv, MessageInv, SessionInv, RecordInv, FirstSession
  <2>2. AnsweredInv'
    BY <1>3, MessagesAssumption
    DEF Expire, LoopInv, MessageInv, AnsweredInv, MessagesAssumption, FirstSession
  <2> QED BY <2>1, <2>2 DEF LoopInv
<1> QED BY <1>1, <1>2, <1>3 DEF Environment

\* A step that only moves the loop between two places outside of Recording
\* and Removing cannot disturb the invariant.
LEMMA LoopInvOutside ==
  ASSUME TypeOK, LoopInv, UNCHANGED <<orderVars, recordVars>>,
         box' \subseteq box, pc' \notin Recording \cup Removing
  PROVE  LoopInv'
  BY DEF LoopInv, MessageInv, SessionInv, RecordInv, AnsweredInv, Matched,
         orderVars, recordVars

\* The message that was read starts an order, or its removal.
LEMMA LoopInvGetMessage == ASSUME TypeOK, LoopInv, GetMessage PROVE LoopInv'
  BY WantedType, MessagesAssumption
  DEF GetMessage, Dispatch, LoopInv, MessageInv, SessionInv, RecordInv,
      AnsweredInv, Matched, orderVars, recordVars, loopVars, Goto, Wanted, KeyOf,
      IsOrder, MessagesAssumption, Letter, MsgTypes, At

\* Both looks at the session agree once the record has been read: the path
\* postHandleMessage built is the order's record.
LEMMA OrderPath ==
  ASSUME TypeOK, LoopInv, pc = "mapSet"
  PROVE  PathKey = KeyOf(Wanted)
<1>1. Wanted.tgt \in Nat /\ pathSession \in Nat /\ pathSession >= Wanted.tgt
  BY MessagesAssumption
  DEF LoopInv, SessionInv, Matched, FirstSession, MessagesAssumption
<1>2. version[PathKey] # Absent
  BY DEF LoopInv, RecordInv
<1>3. \A k \in Keys : version[k] # Absent =>
        k[1] \in (0 .. Wanted.tgt) \cup {AnySession}
  BY <1>1, MessagesAssumption DEF LoopInv, SessionInv, MessagesAssumption
<1>4. PathKey[1] \in (0 .. Wanted.tgt) \cup {AnySession}
  BY <1>2, <1>3, WantedType
<1> QED
  BY <1>1, <1>4, MessagesAssumption DEF PathKey, KeyOf, MessagesAssumption

\* The steps that write the current state.
LEMMA LoopInvRecord == ASSUME TypeOK, LoopInv, RecordStep PROVE LoopInv'
<1> USE DEF orderVars, loopVars, Goto, Wanted, PathKey, Matched, At
<1>0. /\ Wanted \in Letter
      /\ KeyOf(Wanted) \in Keys
      /\ PathKey \in Keys
  BY WantedType
<1>1. CASE CheckCurrentState \/ CheckSession \/ DropKey \/ BuildPath
  <2>1. MessageInv' /\ RecordInv' /\ SessionInv'
    BY <1>0, <1>1, MessagesAssumption
    DEF CheckCurrentState, CheckSession, DropKey, BuildPath, recordVars,
        LoopInv, MessageInv, RecordInv, SessionInv, KeyOf, MessagesAssumption,
        FirstSession
  <2>2. AnsweredInv'
    BY <1>1
    DEF CheckCurrentState, CheckSession, DropKey, BuildPath, recordVars,
        AnsweredInv, KeyOf
  <2> QED BY <2>1, <2>2 DEF LoopInv
<1>2. CASE EnsurePath
  <2>1. MessageInv' /\ AnsweredInv'
    BY <1>2 DEF EnsurePath, LoopInv, MessageInv, AnsweredInv
  <2>2. SessionInv'
    BY <1>0, <1>2 DEF EnsurePath, LoopInv, MessageInv, SessionInv, KeyOf, Letter, Keys
  <2>3. RecordInv'
    BY <1>0, <1>2 DEF EnsurePath, LoopInv, RecordInv, Absent
  <2> QED BY <2>1, <2>2, <2>3 DEF LoopInv
<1>3. CASE SetRecordGet
  BY <1>3 DEF SetRecordGet, recordVars, LoopInv, MessageInv, SessionInv,
              RecordInv, AnsweredInv
<1>4. CASE SetRecordSet
  <2>1. CASE stat = version[KeyOf(Wanted)]
    <3>1. /\ pc = "setSet" /\ pc' = "post"
          /\ version[KeyOf(Wanted)] = 0
          /\ version' = [version EXCEPT ![KeyOf(Wanted)] = 1]
          /\ recorded' = [recorded EXCEPT ![KeyOf(Wanted)] = NothingRecorded]
      BY <1>0, <1>4, <2>1 DEF SetRecordSet, Set, LoopInv, RecordInv
    <3>2. MessageInv' /\ AnsweredInv'
      BY <1>4, <3>1 DEF SetRecordSet, LoopInv, MessageInv, AnsweredInv
    <3>3. SessionInv'
      BY <1>0, <1>4, <3>1 DEF SetRecordSet, LoopInv, SessionInv, Absent
    <3>4. RecordInv'
      BY <1>0, <1>4, <3>1 DEF SetRecordSet, LoopInv, RecordInv
    <3> QED BY <3>2, <3>3, <3>4 DEF LoopInv
  <2>2. CASE stat # version[KeyOf(Wanted)]
    BY <1>4, <2>2, LoopInvUnchanged DEF SetRecordSet, Set, invVars, recordVars
  <2> QED BY <2>1, <2>2
<1>5. CASE UpdateMapGet
  BY <1>0, <1>5
  DEF UpdateMapGet, recordVars, LoopInv, MessageInv, SessionInv, RecordInv,
      AnsweredInv
<1>6. CASE UpdateMapSet
  <2>1. CASE stat = version[PathKey]
    <3>1. PathKey = KeyOf(Wanted)
      BY <1>6, OrderPath DEF UpdateMapSet
    <3>2. recorded'[KeyOf(Wanted)][Wanted.part] = Wanted.to
      BY <1>0, <1>6, <2>1, <3>1 DEF UpdateMapSet, Set, Letter
    <3>3. pc' = "rmExists"
      BY <1>6, <2>1 DEF UpdateMapSet, Set
    <3>4. MessageInv' /\ AnsweredInv'
      BY <1>0, <1>6, <3>2, <3>3
      DEF UpdateMapSet, LoopInv, MessageInv, AnsweredInv, KeyOf
    <3>5. SessionInv'
      BY <1>0, <1>6, <2>1, <3>3, <3>1
      DEF UpdateMapSet, Set, LoopInv, SessionInv, RecordInv
    <3>6. RecordInv'
      <4>1. version[PathKey] \in Nat
        BY <1>0, <1>6 DEF UpdateMapSet, LoopInv, RecordInv
      <4>2. \A k \in Keys : version'[k] <= 0 =>
              version[k] <= 0 /\ recorded'[k] = recorded[k]
        <5> HIDE DEF PathKey
        <5> QED BY <1>0, <1>6, <2>1, <4>1 DEF UpdateMapSet, Set
      <4> QED BY <3>3, <4>2 DEF LoopInv, RecordInv
    <3> QED BY <3>4, <3>5, <3>6 DEF LoopInv
  <2>2. CASE stat # version[PathKey]
    BY <1>6, <2>2, LoopInvUnchanged DEF UpdateMapSet, Set, invVars, recordVars
  <2> QED BY <2>1, <2>2
<1>7. CASE RequestFails
  BY <1>7, LoopInvUnchanged DEF RequestFails, invVars, recordVars
<1> QED BY <1>1, <1>2, <1>3, <1>4, <1>5, <1>6, <1>7 DEF RecordStep

\* The steps that remove the message.
LEMMA LoopInvRemove == ASSUME TypeOK, LoopInv, RemoveStep PROVE LoopInv'
<1>1. CASE pc' = "done"
  BY <1>1, LoopInvOutside
  DEF RemoveStep, RemoveExists, RemoveChildren, RemoveDelete, DeleteLost, Goto
<1>2. CASE pc' # "done"
  BY <1>2
  DEF RemoveStep, RemoveExists, RemoveChildren, RemoveDelete, DeleteLost, Goto,
      At, orderVars, recordVars, loopVars, LoopInv, MessageInv, SessionInv,
      RecordInv, AnsweredInv, Matched, Wanted, KeyOf
<1> QED BY <1>1, <1>2

\* All of the loop's steps.
LEMMA LoopInvLoop == ASSUME TypeOK, LoopInv, Loop PROVE LoopInv'
<1>1. CASE TakeSnapshot \/ EndOfSnapshot \/ Remember \/ \E m \in Msgs : NextMessage(m)
  BY <1>1, LoopInvOutside
  DEF TakeSnapshot, EndOfSnapshot, Remember, NextMessage, Goto, At
<1>2. CASE TakeError
  BY <1>2, LoopInvUnchanged DEF TakeError, invVars, loopVars
<1> QED
  BY <1>1, <1>2, LoopInvGetMessage, LoopInvRecord, LoopInvRemove DEF Loop

\* Session, record and message in hand fit together at every request of
\* processMessage, handleStateTransition and postHandleMessage.
THEOREM LoopInvHolds == Spec => []LoopInv
<1>1. TypeOK /\ LoopInv /\ [Next]_vars => LoopInv'
  BY LoopInvEnvironment, LoopInvElsewhere, LoopInvLoop DEF Next
<1> QED BY LoopInvInit, <1>1, TypeCorrect, PTL DEF Spec

-----------------------------------------------------------------------------
(***************************************************************************)
(* No wake-up is lost.  The watch is unset only while the watcher is about *)
(* to read the children, the loop waits only with nothing left to do, and  *)
(* whatever the history holds was processed.                               *)
(***************************************************************************)
WakeInv ==
    /\ NoMessageForgotten
    /\ history \subseteq processed
    /\ pc = "select" => todo = {}
    /\ watch = "none" => wpc = "children"

wakeVars == <<box, wpc, watch, snapshot, todo, cur, processed, history>>

\* At first the watcher is about to read the children.
LEMMA WakeInvInit == Init => WakeInv
  BY DEF Init, WakeInv, NoMessageForgotten

\* A step of the loop that leaves the queues alone and keeps the message in hand.
LEMMA WakeInvInHand ==
  ASSUME WakeInv, UNCHANGED wakeVars,
         pc' = pc \/ (pc \in Handling /\ pc' \in Handling)
  PROVE  WakeInv'
  BY DEF WakeInv, NoMessageForgotten, InSnapshots, wakeVars

\* A message that arrives finds the watch armed, fired, or not yet set.
LEMMA WakeInvOthers ==
  ASSUME TypeOK, WakeInv, Environment \/ Watcher \/ Collector \/ UNCHANGED vars
  PROVE  WakeInv'
<1> USE DEF WakeInv, NoMessageForgotten, InSnapshots, loopVars
<1>1. ASSUME NEW m \in Msgs, Send(m) \/ Withdraw(m) PROVE WakeInv'
  BY <1>1 DEF Send, Withdraw, Fire, watcherVars, memVars
<1>2. CASE Expire
  BY <1>2 DEF Expire, watcherVars, memVars
<1>3. CASE Watcher
  BY <1>3 DEF Watcher, ChildrenW, Changed, WatchFailed, memVars
<1>4. CASE Collector
  BY <1>4 DEF Collector, CollectStart, CollectEnd, watcherVars
<1>5. CASE UNCHANGED vars
  BY <1>5 DEF vars
<1> QED BY <1>1, <1>2, <1>3, <1>4, <1>5 DEF Environment

\* The loop drops a message from its snapshot only to take it in hand or because
\* it is in the history.
LEMMA WakeInvLoop == ASSUME TypeOK, WakeInv, Loop PROVE WakeInv'
<1> USE DEF Goto, At
<1>1. CASE TakeSnapshot \/ TakeError \/ EndOfSnapshot
  BY <1>1 DEF TakeSnapshot, TakeError, EndOfSnapshot, WakeInv,
              NoMessageForgotten, InSnapshots, memVars, watcherVars, loopVars
<1>2. ASSUME NEW m \in Msgs, NextMessage(m) PROVE WakeInv'
  BY <1>2 DEF NextMessage, WakeInv, NoMessageForgotten, InSnapshots, memVars,
              watcherVars
<1>3. CASE GetMessage
  BY <1>3, WakeInvInHand
  DEF GetMessage, Dispatch, wakeVars, watcherVars, loopVars, memVars
<1>4. CASE RecordStep
  BY <1>4, WakeInvInHand
  DEF RecordStep, CheckCurrentState, EnsurePath, SetRecordGet, SetRecordSet,
      Set, CheckSession, DropKey, BuildPath, UpdateMapGet, UpdateMapSet,
      RequestFails, wakeVars, watcherVars, loopVars, memVars
<1>5. CASE RemoveExists \/ RemoveChildren \/ DeleteLost
  BY <1>5, WakeInvInHand
  DEF RemoveExists, RemoveChildren, DeleteLost, wakeVars, watcherVars,
      loopVars, memVars
<1>6. CASE RemoveDelete
  BY <1>6 DEF RemoveDelete, Fire, WakeInv, NoMessageForgotten, InSnapshots,
              memVars, watcherVars, loopVars
<1>7. CASE Remember
  BY <1>7 DEF Remember, WakeInv, NoMessageForgotten, InSnapshots, watcherVars
<1> QED
  BY <1>1, <1>2, <1>3, <1>4, <1>5, <1>6, <1>7 DEF Loop, RemoveStep

\* A message nobody has processed is always ahead of the loop, unless the
\* session expired under the watcher (watchMessages, loop).
THEOREM NothingForgotten == Spec => []NoMessageForgotten
<1>1. TypeOK /\ WakeInv /\ [Next]_vars => WakeInv'
  BY WakeInvOthers, WakeInvLoop DEF Next
<1>2. WakeInv => NoMessageForgotten
  BY DEF WakeInv
<1> QED BY WakeInvInit, <1>1, <1>2, TypeCorrect, PTL DEF Spec

-----------------------------------------------------------------------------
(***************************************************************************)
(* With quick rounds the history covers what the loop may meet again: a    *)
(* message that was consumed and is still in a snapshot is in the history, *)
(* or is the one the loop is just finishing.                               *)
(***************************************************************************)
Consumed == processed \ (box \cup withdrawn)

AwaitInv ==
    /\ \A m \in Consumed \cap InSnapshots : m \in history \/ (m = cur /\ pc = "done")
    /\ pc = "get" => cur \notin Consumed

awaitVars == <<box, withdrawn, wpc, snapshot, todo, cur, processed, history>>

\* The invariant reads no other variables than awaitVars.
LEMMA AwaitInvUnchanged ==
  ASSUME AwaitInv, UNCHANGED awaitVars,
         pc' = pc \/ (pc # "done" /\ pc' # "get")
  PROVE  AwaitInv'
  BY DEF AwaitInv, Consumed, InSnapshots, awaitVars

\* A new snapshot lists no consumed message; the collector spares those in use.
LEMMA AwaitInvOthers ==
  ASSUME ~SlowRounds, TypeOK, AwaitInv,
         Environment \/ Watcher \/ Collector \/ UNCHANGED vars
  PROVE  AwaitInv'
<1> USE DEF AwaitInv, Consumed, InSnapshots, loopVars, orderVars
<1>1. ASSUME NEW m \in Msgs, Send(m) \/ Withdraw(m) PROVE AwaitInv'
  BY <1>1 DEF Send, Withdraw, watcherVars, memVars
<1>2. CASE Expire
  BY <1>2, AwaitInvUnchanged DEF Expire, watcherVars, memVars, awaitVars
<1>3. CASE Watcher
  BY <1>3 DEF Watcher, ChildrenW, Changed, WatchFailed, memVars
<1>4. CASE Collector
  BY <1>4 DEF Collector, CollectStart, CollectEnd, watcherVars
<1>5. CASE UNCHANGED vars
  BY <1>5 DEF vars
<1> QED BY <1>1, <1>2, <1>3, <1>4, <1>5 DEF Environment

\* Remember puts the message in hand into the history before the next is taken.
LEMMA AwaitInvLoop ==
  ASSUME TypeOK, AwaitInv, Loop PROVE AwaitInv'
<1> USE DEF Goto, At, orderVars
<1>1. CASE TakeSnapshot \/ TakeError \/ EndOfSnapshot
  BY <1>1 DEF TakeSnapshot, TakeError, EndOfSnapshot, AwaitInv, Consumed,
              InSnapshots, memVars, watcherVars, loopVars
<1>2. ASSUME NEW m \in Msgs, NextMessage(m) PROVE AwaitInv'
  BY <1>2 DEF NextMessage, AwaitInv, Consumed, InSnapshots, memVars, watcherVars
<1>3. CASE GetMessage
  BY <1>3, AwaitInvUnchanged
  DEF GetMessage, Dispatch, awaitVars, watcherVars, loopVars, memVars
<1>4. CASE RecordStep
  BY <1>4, AwaitInvUnchanged
  DEF RecordStep, CheckCurrentState, EnsurePath, SetRecordGet, SetRecordSet,
      Set, CheckSession, DropKey, BuildPath, UpdateMapGet, UpdateMapSet,
      RequestFails, awaitVars, watcherVars, loopVars, memVars
<1>5. CASE RemoveExists \/ RemoveChildren \/ DeleteLost
  BY <1>5, AwaitInvUnchanged
  DEF RemoveExists, RemoveChildren, DeleteLost, awaitVars, watcherVars,
      loopVars, memVars
<1>6. CASE RemoveDelete
  BY <1>6 DEF RemoveDelete, AwaitInv, Consumed, InSnapshots, memVars,
              watcherVars, loopVars
<1>7. CASE Remember
  BY <1>7 DEF Remember, AwaitInv, Consumed, InSnapshots, watcherVars
<1> QED
  BY <1>1, <1>2, <1>3, <1>4, <1>5, <1>6, <1>7 DEF Loop, RemoveStep

\* While no snapshot outlives the history, the loop never waits for a message
\* that it removed itself (loop's messageProcessedTime).
THEOREM HistorySuffices ==
  ASSUME ~SlowRounds
  PROVE  Spec => []NeverAwaitsConsumed
<1>1. Init => AwaitInv
  BY DEF Init, AwaitInv, Consumed
<1>2. TypeOK /\ AwaitInv /\ [Next]_vars => AwaitInv'
  BY AwaitInvOthers, AwaitInvLoop DEF Next
<1>3. AwaitInv => NeverAwaitsConsumed
  BY DEF AwaitInv, Consumed, NeverAwaitsConsumed, At
<1> QED BY <1>1, <1>2, <1>3, TypeCorrect, PTL DEF Spec

-----------------------------------------------------------------------------
(***************************************************************************)
(* The participant keeps ParticipantContract: a message sent, withdrawn or *)
(* removed, a new session and the Set of UpdateMapField are steps of the   *)
(* contract, everything else is a stutter.                                 *)
(***************************************************************************)
contractVars == <<orderVars, box, recorded>>

\* The contract sees no other variables than contractVars.
LEMMA ContractStutter ==
  ASSUME UNCHANGED contractVars PROVE UNCHANGED Contract!vars
  BY DEF contractVars, orderVars, Contract!vars

\* The initial states are the contract's.
LEMMA ContractInit == Init => Contract!Init
  BY DEF Init, Contract!Init, FirstSession, Contract!FirstSession, Keys,
         Contract!Keys, NothingRecorded, Contract!NothingRecorded, Sessions,
         Contract!Sessions

\* Send, Withdraw and Expire are actions of the contract.
LEMMA ContractEnvironment ==
  ASSUME LoopInv, Environment PROVE Contract!Next
<1> USE DEF recordVars, loopVars, LoopInv, MessageInv
<1>1. ASSUME NEW m \in Msgs, Send(m) PROVE Contract!Send(m)
  BY <1>1 DEF Send, Contract!Send
<1>2. ASSUME NEW m \in Msgs, Withdraw(m) PROVE Contract!Withdraw(m)
  BY <1>2 DEF Withdraw, Contract!Withdraw, Contract!Pending
<1>3. ASSUME Expire PROVE Contract!Expire
  BY <1>3 DEF Expire, Contract!Expire
<1> QED BY <1>1, <1>2, <1>3 DEF Environment, Contract!Next

\* The watcher and the collector do nothing the contract sees.
LEMMA ContractElsewhere ==
  ASSUME Watcher \/ Collector \/ UNCHANGED vars PROVE UNCHANGED Contract!vars
  BY ContractStutter
  DEF contractVars, vars, Watcher, ChildrenW, Changed, WatchFailed, Collector,
      CollectStart, CollectEnd, orderVars, recordVars

\* Of the requests that record an order only the Set of UpdateMapField is seen,
\* and it is the contract's Record.
LEMMA ContractRecord ==
  ASSUME TypeOK, LoopInv, RecordStep PROVE [Contract!Next]_Contract!vars
<1> USE DEF orderVars
<1>0. /\ Wanted \in Letter
      /\ KeyOf(Wanted) \in Keys
      /\ PathKey \in Keys
  BY WantedType
<1>1. ASSUME UNCHANGED recorded PROVE UNCHANGED Contract!vars
  BY <1>1, ContractStutter
  DEF contractVars, RecordStep, CheckCurrentState, EnsurePath, SetRecordGet,
      SetRecordSet, CheckSession, DropKey, BuildPath, UpdateMapGet,
      UpdateMapSet, RequestFails, recordVars
<1>2. CASE SetRecordSet
  <2>1. recorded[KeyOf(Wanted)] = NothingRecorded
    BY <1>0, <1>2 DEF SetRecordSet, At, LoopInv, RecordInv
  <2>2. UNCHANGED recorded
    BY <1>0, <1>2, <2>1 DEF SetRecordSet, Set, recordVars
  <2> QED BY <1>1, <2>2
<1>3. CASE UpdateMapSet /\ stat = version[PathKey]
  <2>1. PathKey = KeyOf(Wanted) /\ local = recorded[PathKey]
    BY <1>3, OrderPath DEF UpdateMapSet, At, LoopInv, RecordInv
  <2>2. recorded' = [recorded EXCEPT ![KeyOf(Wanted)][Wanted.part] = Wanted.to]
    BY <1>0, <1>3, <2>1 DEF UpdateMapSet, Set
  <2>3. /\ cur \in sent \ (sent \ (box \cup withdrawn))
        /\ IsOrder(Wanted)
        /\ Wanted.tgt \in FirstSession .. session
    BY <1>3 DEF UpdateMapSet, At, LoopInv, MessageInv, SessionInv, Matched
  <2>4. Contract!Record(cur)
    BY <1>3, <2>2, <2>3
    DEF UpdateMapSet, Contract!Record, Wanted, IsOrder, Contract!IsOrder,
        KeyOf, Contract!KeyOf, FirstSession, Contract!FirstSession
  <2> QED BY <2>4 DEF Contract!Next
<1>4. CASE RecordStep /\ ~SetRecordSet /\ ~(UpdateMapSet /\ stat = version[PathKey])
  <2>1. UNCHANGED recorded
    BY <1>4
    DEF RecordStep, CheckCurrentState, EnsurePath, SetRecordGet, CheckSession,
        DropKey, BuildPath, UpdateMapGet, UpdateMapSet, Set, RequestFails,
        recordVars
  <2> QED BY <1>1, <2>1
<1> QED BY <1>2, <1>3, <1>4

\* Of those that remove a message only an effective Delete is: Remove.
LEMMA ContractLoop ==
  ASSUME TypeOK, LoopInv, Loop PROVE [Contract!Next]_Contract!vars
<1> USE DEF orderVars, recordVars
<1>1. CASE RecordStep
  BY <1>1, ContractRecord
<1>2. CASE RemoveDelete /\ cur \in box
  <2>1. /\ cur \in sent /\ cur \notin withdrawn
        /\ sent \ (box' \cup withdrawn) = (sent \ (box \cup withdrawn)) \cup {cur}
    BY <1>2 DEF RemoveDelete, LoopInv, MessageInv
  <2>2. Contract!Answered(cur)
    BY <1>2
    DEF RemoveDelete, At, LoopInv, AnsweredInv, Contract!Answered, Wanted,
        IsOrder, Contract!IsOrder, KeyOf, Contract!KeyOf
  <2>3. Contract!Remove(cur)
    BY <1>2, <2>1, <2>2 DEF RemoveDelete, Contract!Remove, Contract!Pending
  <2> QED BY <2>3 DEF Contract!Next
<1>3. CASE Loop /\ ~RecordStep /\ ~(RemoveDelete /\ cur \in box)
  <2>1. UNCHANGED contractVars
    BY <1>3
    DEF Loop, TakeSnapshot, TakeError, EndOfSnapshot, NextMessage, GetMessage,
        RemoveStep, RemoveExists, RemoveChildren, RemoveDelete, DeleteLost,
        Remember, contractVars
  <2> QED BY <2>1, ContractStutter
<1> QED BY <1>1, <1>2, <1>3

\* Every behaviour of the participant is one of its contract.
THEOREM ContractKept == Spec => KeepsContract
<1>1. TypeOK /\ LoopInv /\ [Next]_vars => [Contract!Next]_Contract!vars
  BY ContractEnvironment, ContractElsewhere, ContractLoop DEF Next
<1> QED
  BY ContractInit, <1>1, TypeCorrect, LoopInvHolds, PTL
  DEF Spec, KeepsContract, Contract!Spec
=============================================================================
