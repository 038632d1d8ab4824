------------------------ MODULE RecordUpdateProofs ------------------------
(***************************************************************************)
(* Clients that each have a connection of their own update a record        *)
(* atomically, for any clients, fields and values, however often the       *)
(* record is dropped and created again.                                    *)
(***************************************************************************)
EXTENDS RecordUpdate, TLAPS

USE RecordAssumption DEF RecordAssumption

\* Every step of every call keeps the types.
LEMMA TypeStep == ASSUME TypeOK, [Next]_vars PROVE TypeOK'
<1> USE DEF TypeOK, callVars, Goto, Stat, Present, Absent, Contents, Blank
<1>1. ASSUME NEW c \in Clients, Call(c) PROVE TypeOK'
  <2>1. ASSUME NEW u \in Updates, CallUpdate(c, u[1], u[2]) PROVE TypeOK'
    <3>1. u[1] \in Fields /\ u[2] \in Values \cup {NoValue}
      OBVIOUS
    <3> QED BY <2>1, <3>1 DEF CallUpdate
  <2>2. ASSUME NEW r \in Definitions, CallAdd(c, r) PROVE TypeOK'
    BY <2>2 DEF CallAdd
  <2>3. CASE CallDrop(c)
    BY <2>3 DEF CallDrop
  <2> QED BY <1>1, <2>1, <2>2, <2>3 DEF Call
<1>2. ASSUME NEW c \in Clients, Stat(c) PROVE stat' \in [Connections -> Nat]
  <2>1. (IF version # Absent THEN version ELSE 0) \in Nat
    OBVIOUS
  <2> QED BY <1>2, <2>1
<1>3. ASSUME NEW c \in Clients, UpdateStep(c) PROVE TypeOK'
  <2>1. CASE UpdateSet(c)
    <3>1. stat[ConnOf[c]] \in Nat
      OBVIOUS
    <3>2. version' \in Nat
      BY <2>1, <3>1 DEF UpdateSet
    <3>3. content' \in Contents
      BY <2>1 DEF UpdateSet
    <3>4. history' = history \cup {<<creates, content'>>}
      BY <2>1 DEF UpdateSet, Kept
    <3>5. history' \subseteq (0 .. MaxCreates) \X Contents
      BY <3>3, <3>4
    <3> QED BY <2>1, <3>2, <3>3, <3>5 DEF UpdateSet
  <2>2. CASE UpdateExists(c)
    <3> HIDE DEF Stat
    <3> QED BY <1>2, <2>2 DEF UpdateExists
  <2>3. CASE UpdateGet(c)
    <3> HIDE DEF Stat
    <3> QED BY <1>2, <2>3 DEF UpdateGet
  <2>4. CASE UpdateRefused(c)
    BY <2>4 DEF UpdateRefused
  <2> QED BY <1>3, <2>1, <2>2, <2>3, <2>4 DEF UpdateStep
<1>4. ASSUME NEW c \in Clients, AddStep(c) PROVE TypeOK'
  <2> HIDE DEF Stat
  <2>1. CASE AddExists(c)
    BY <1>2, <2>1 DEF AddExists
  <2>2. CASE AddCreate(c)
    <3>1. content' \in Contents /\ creates' \in 0 .. MaxCreates
      BY <2>2 DEF AddCreate
    <3>2. history' \subseteq (0 .. MaxCreates) \X Contents
      BY <2>2, <3>1 DEF AddCreate, Kept
    <3> QED BY <2>2, <3>1, <3>2 DEF AddCreate
  <2>3. CASE AddRefused(c)
    BY <2>3 DEF AddRefused
  <2> QED BY <1>4, <2>1, <2>2, <2>3 DEF AddStep
<1>5. ASSUME NEW c \in Clients, DropStep(c) PROVE TypeOK'
  <2> HIDE DEF Stat
  <2>1. CASE DropExists(c) \/ DropChildren(c)
    BY <1>2, <2>1 DEF DropExists, DropChildren
  <2>2. CASE DropDelete(c)
    BY <2>2 DEF DropDelete
  <2> QED BY <1>5, <2>1, <2>2 DEF DropStep
<1>6. CASE UNCHANGED vars
  BY <1>6 DEF vars
<1> QED BY <1>1, <1>3, <1>4, <1>5, <1>6 DEF Next

\* Every variable keeps its type: a read of a missing node leaves a Stat in the
\* connection all the same (Exists in src/connection.go).
THEOREM TypeCorrect == Spec => []TypeOK
<1>1. Init => TypeOK
  BY DEF Init, TypeOK, Absent, Contents, Blank
<1> QED BY <1>1, TypeStep, PTL DEF Spec

-----------------------------------------------------------------------------
OwnConnections == \A c, d \in Clients : ConnOf[c] = ConnOf[d] => c = d

(***************************************************************************)
(* Why the version check suffices.  While a node is there its version only *)
(* grows, so a version read from it is never ahead of the node's; it is    *)
(* the node's only while nobody has written since; and only its own client *)
(* changes a connection's Stat.  What was read from an earlier node is     *)
(* something that node had.                                                *)
(***************************************************************************)
Had(n, record) == <<n, record>> \in history

LockInv ==
    /\ Present => creates >= 1
    /\ ~Present => content = Blank
    /\ \A c \in Clients : pc[c] = "set" =>
          /\ node[c] <= creates /\ Had(node[c], local[c])
          /\ Present /\ node[c] = creates =>
                /\ stat[ConnOf[c]] <= version
                /\ stat[ConnOf[c]] = version => local[c] = content
    /\ Present => Had(creates, content)

\* No call is under way at first.
LEMMA LockInit == Init => LockInv
  BY DEF Init, LockInv, Present, Absent

\* Each request of each call keeps the lock.
LEMMA LockStep ==
  ASSUME OwnConnections, TypeOK, LockInv, [Next]_vars
  PROVE  LockInv'
<1> USE DEF TypeOK, LockInv, Had, Present, Goto, callVars, Absent
<1>1. ASSUME NEW c \in Clients, Call(c) PROVE LockInv'
  BY <1>1 DEF Call, CallUpdate, CallAdd, CallDrop
<1>2. ASSUME NEW c \in Clients,
             UpdateExists(c) \/ UpdateGet(c) \/ AddExists(c)
             \/ DropExists(c) \/ DropChildren(c)
      PROVE  LockInv'
  <2>1. \A d \in Clients : d # c => stat'[ConnOf[d]] = stat[ConnOf[d]]
    BY <1>2
    DEF UpdateExists, UpdateGet, AddExists, DropExists, DropChildren, Stat,
        OwnConnections
  <2>2. \A d \in Clients : d # c /\ pc'[d] = "set" =>
          pc[d] = "set" /\ local'[d] = local[d] /\ node'[d] = node[d]
    BY <1>2 DEF UpdateExists, UpdateGet, AddExists, DropExists, DropChildren
  <2>3. pc'[c] = "set" =>
          /\ Present /\ stat'[ConnOf[c]] = version
          /\ local'[c] = content /\ node'[c] = creates
    BY <1>2
    DEF UpdateExists, UpdateGet, AddExists, DropExists, DropChildren, Stat
  <2>4. UNCHANGED <<version, content, creates, history>>
    BY <1>2 DEF UpdateExists, UpdateGet, AddExists, DropExists, DropChildren
  <2>5. \A d \in Clients : pc'[d] = "set" =>
          /\ node'[d] <= creates' /\ <<node'[d], local'[d]>> \in history'
          /\ Present' /\ node'[d] = creates' =>
                /\ stat'[ConnOf[d]] <= version'
                /\ stat'[ConnOf[d]] = version' => local'[d] = content'
    <3> TAKE d \in Clients
    <3>1. CASE d = c
      <4> SUFFICES ASSUME pc'[c] = "set"
                   PROVE  /\ node'[c] <= creates' /\ <<node'[c], local'[c]>> \in history'
                          /\ stat'[ConnOf[c]] <= version' /\ local'[c] = content'
        BY <3>1
      <4>1. version \in Nat /\ creates \in Nat
        BY <2>3
      <4>2. <<creates, content>> \in history
        BY <2>3
      <4> QED BY ONLY <2>3, <2>4, <4>1, <4>2, pc'[c] = "set"
    <3>2. CASE d # c
      <4> SUFFICES ASSUME pc'[d] = "set"
                   PROVE  /\ node'[d] <= creates' /\ <<node'[d], local'[d]>> \in history'
                          /\ Present' /\ node'[d] = creates' =>
                                /\ stat'[ConnOf[d]] <= version'
                                /\ stat'[ConnOf[d]] = version' => local'[d] = content'
        OBVIOUS
      <4>1. /\ pc[d] = "set" /\ local'[d] = local[d] /\ node'[d] = node[d]
            /\ stat'[ConnOf[d]] = stat[ConnOf[d]]
        BY <2>1, <2>2, <3>2
      <4> QED BY <2>4, <4>1
    <3> QED BY <3>1, <3>2
  <2> QED BY <2>4, <2>5
<1>3. ASSUME NEW c \in Clients, UpdateSet(c) PROVE LockInv'
  <2>1. version \in Nat /\ version' = version + 1 /\ UNCHANGED <<creates, stat, local, node>>
    BY <1>3 DEF UpdateSet
  <2>2. Present /\ Present' /\ creates >= 1
    BY <2>1
  <2>3. \A d \in Clients : pc'[d] = "set" =>
          /\ pc[d] = "set"
          /\ stat[ConnOf[d]] \in Nat
          /\ node[d] = creates => stat[ConnOf[d]] <= version
    BY <1>3, <2>2 DEF UpdateSet
  <2>4. history' = history \cup {<<creates, content'>>}
    BY <1>3, <2>1 DEF UpdateSet, Kept
  <2>5. \A d \in Clients : pc'[d] = "set" => node[d] <= creates /\ <<node[d], local[d]>> \in history'
    <3> TAKE d \in Clients
    <3> HAVE pc'[d] = "set"
    <3>1. pc[d] = "set"
      BY <2>3
    <3>2. node[d] <= creates /\ <<node[d], local[d]>> \in history
      BY <3>1
    <3> QED BY <2>4, <3>2
  <2>6. \A d \in Clients : pc'[d] = "set" /\ node[d] = creates => stat[ConnOf[d]] < version'
    BY <2>1, <2>3
  <2>7. \A d \in Clients : pc'[d] = "set" =>
          /\ node'[d] <= creates' /\ <<node'[d], local'[d]>> \in history'
          /\ node'[d] = creates' =>
                stat'[ConnOf[d]] <= version' /\ stat'[ConnOf[d]] # version'
    <3> TAKE d \in Clients
    <3> HAVE pc'[d] = "set"
    <3>1. stat[ConnOf[d]] \in Nat
      BY <2>3
    <3> QED BY <2>1, <2>5, <2>6, <3>1
  <2>8. <<creates', content'>> \in history' /\ creates' >= 1
    BY <2>1, <2>2, <2>4
  <2> QED BY <2>2, <2>7, <2>8
<1>4. ASSUME NEW c \in Clients, UpdateRefused(c) \/ AddRefused(c) PROVE LockInv'
  BY <1>4 DEF UpdateRefused, AddRefused
<1>5. ASSUME NEW c \in Clients, AddCreate(c) PROVE LockInv'
  <2>1. creates \in Nat /\ creates' = creates + 1
    BY <1>5 DEF AddCreate
  <2>2. \A d \in Clients : pc'[d] = "set" =>
          pc[d] = "set" /\ local'[d] = local[d] /\ node'[d] = node[d] /\ node[d] \in Nat
    BY <1>5 DEF AddCreate
  <2>3. history' = history \cup {<<creates', content'>>}
    BY <1>5 DEF AddCreate, Kept
  <2> QED BY <1>5, <2>1, <2>2, <2>3 DEF AddCreate
<1>6. ASSUME NEW c \in Clients, DropDelete(c) PROVE LockInv'
  BY <1>6 DEF DropDelete
<1>7. CASE UNCHANGED vars
  BY <1>7 DEF vars
<1> QED
  BY <1>1, <1>2, <1>3, <1>4, <1>5, <1>6, <1>7
  DEF Next, UpdateStep, AddStep, DropStep

\* The lock holds in every behaviour.
LEMMA LockHolds ==
  ASSUME OwnConnections PROVE Spec => []LockInv
<1>1. TypeOK /\ LockInv /\ [Next]_vars => LockInv'
  BY LockStep
<1> QED BY LockInit, <1>1, TypeCorrect, PTL DEF Spec

\* The optimistic lock holds: a Set accepted on the node its caller has read was
\* computed from the record as it is (conn.stat in Get and Set).
THEOREM AcceptedSetsAreCurrent ==
  ASSUME OwnConnections
  PROVE  Spec => []AcceptedSetIsCurrent
<1>1. TypeOK /\ LockInv => AcceptedSetIsCurrent
  <2> SUFFICES ASSUME TypeOK, LockInv, NEW c \in Clients, pc[c] = "set",
                      stat[ConnOf[c]] = version, node[c] = creates
               PROVE  local[c] = content
    BY DEF AcceptedSetIsCurrent
  <2>1. Present
    BY DEF TypeOK, Present, Absent
  <2> QED BY <2>1 DEF LockInv
<1> QED BY <1>1, TypeCorrect, LockHolds, PTL

\* Nor is an update lost: the record changes in one field at a time, unless a
\* change begun before a drop brings back what was dropped (UpdateSimpleField,
\* UpdateMapField and RemoveMapFieldKey).
THEOREM NoLostUpdate ==
  ASSUME OwnConnections
  PROVE  Spec => UpdatesAreAtomic
<1> DEFINE seen == <<Present, content, creates, history>>
<1>1. Init => Record!Init
  BY DEF Init, Record!Init, Present, Blank, Record!Blank
<1>2. TypeOK /\ TypeOK' /\ LockInv /\ [Next]_vars => [Record!Next]_seen
  <2> SUFFICES ASSUME TypeOK, TypeOK', LockInv, [Next]_vars
               PROVE  [Record!Next]_seen
    OBVIOUS
  <2> USE DEF TypeOK, Present, callVars, Absent
  <2>1. ASSUME NEW c \in Clients, UpdateSet(c)
        PROVE  Record!Update \/ Record!BringBack
    <3>1. stat[ConnOf[c]] = version /\ Present /\ Present' /\ UNCHANGED creates
      BY <2>1 DEF UpdateSet
    <3>2. Record!OneFieldOf(local[c])
      <4>1. field[c] \in Fields /\ value[c] \in Values \cup {NoValue}
        OBVIOUS
      <4> QED BY <2>1, <4>1 DEF UpdateSet, Record!OneFieldOf
    <3>3. Record!Kept
      BY <2>1 DEF UpdateSet, Kept, Record!Kept
    <3>4. CASE node[c] = creates
      <4>1. local[c] = content
        BY <2>1, <3>1, <3>4 DEF UpdateSet, LockInv
      <4> QED BY <3>1, <3>2, <3>3, <4>1 DEF Record!Update
    <3>5. CASE node[c] # creates
      <4>1. <<node[c], local[c]>> \in history /\ node[c] <= creates
        BY <2>1 DEF UpdateSet, LockInv, Had
      <4>2. node[c] < creates
        BY <3>5, <4>1
      <4>3. \E h \in history : h[1] < creates /\ Record!OneFieldOf(h[2])
        BY <3>2, <4>1, <4>2
      <4> QED BY <3>1, <3>3, <4>3 DEF Record!BringBack
    <3> QED BY <3>4, <3>5
  <2>2. ASSUME NEW c \in Clients, AddCreate(c) PROVE Record!Create
    BY <2>2
    DEF AddCreate, Kept, Record!Create, Record!Kept, Contents, Record!Contents
  <2>3. ASSUME NEW c \in Clients, DropDelete(c) PROVE Record!Drop \/ UNCHANGED seen
    BY <2>3 DEF DropDelete, LockInv, Record!Drop, Blank, Record!Blank
  <2>4. ASSUME NEW c \in Clients,
               Call(c) \/ UpdateExists(c) \/ UpdateGet(c) \/ UpdateRefused(c)
               \/ AddExists(c) \/ AddRefused(c) \/ DropExists(c) \/ DropChildren(c)
        PROVE  UNCHANGED seen
    BY <2>4
    DEF Call, CallUpdate, CallAdd, CallDrop, UpdateExists, UpdateGet,
        UpdateRefused, AddExists, AddRefused, DropExists, DropChildren
  <2>5. CASE UNCHANGED vars
    BY <2>5 DEF vars
  <2> QED
    BY <2>1, <2>2, <2>3, <2>4, <2>5
    DEF Next, UpdateStep, AddStep, DropStep, Record!Next
<1> QED
  BY <1>1, <1>2, TypeCorrect, LockHolds, PTL
  DEF Spec, UpdatesAreAtomic, Record!Spec
=============================================================================
