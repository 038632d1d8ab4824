---------------------------- MODULE RecordUpdate ----------------------------
(***************************************************************************)
(* One record node under /<cluster>, such as an ideal state, and clients   *)
(* that create it, drop it and change fields of it (src/admin.go through   *)
(* src/connection.go).  A field is changed by reading the whole record and *)
(* writing the whole record back under the version in conn.stat; each      *)
(* connection has one conn.stat, whoever uses it.  The Admin calls open a  *)
(* connection each.  One step is one ZooKeeper request.                    *)
(***************************************************************************)
EXTENDS Integers

CONSTANTS
    Clients,      \* concurrent calls
    Connections,
    ConnOf,       \* the connection of each client
    Fields,       \* simple fields, or keys of map fields
    Values, NoValue,
    Definitions,  \* records that AddResource makes
    Updates,      \* changes: a field and its new value, NoValue to remove it
    MaxCalls,     \* bound on the calls of all clients
    MaxCreates    \* bound on how often the node is created

ASSUME RecordAssumption ==
    /\ ConnOf \in [Clients -> Connections]
    /\ NoValue \notin Values
    /\ Definitions \subseteq [Fields -> Values \cup {NoValue}]
    /\ Updates \subseteq Fields \X (Values \cup {NoValue})
    /\ MaxCalls \in Nat
    /\ MaxCreates \in Nat

VARIABLES
    version,   \* data version of the node, Absent without a node
    content,   \* its fields
    creates,
    calls,
    stat,      \* conn.stat.Version of each connection
    pc, field, value,  \* each client's call
    local,     \* the record each client has read or made
    \* for the properties only
    node,      \* which node each client has read it from, by its number
    history    \* <<n, r>>: the n-th node has had the fields r

callVars == <<field, value, local, node>>
vars == <<version, content, creates, calls, stat, pc, callVars, history>>

Absent == -1
Contents == [Fields -> Values \cup {NoValue}]
Blank == [f \in Fields |-> NoValue]

\* Every variable keeps its type: conn.stat holds a real version, also after a
\* read of a missing node.
TypeOK ==
    /\ version \in Nat \cup {Absent}
    /\ content \in Contents
    /\ creates \in 0 .. MaxCreates
    /\ calls \in 0 .. MaxCalls
    /\ stat \in [Connections -> Nat]
    /\ pc \in [Clients -> {"idle", "updExists", "get", "set", "addExists", "create",
                           "rmExists", "rmChildren", "rmDelete", "panic"}]
    /\ field \in [Clients -> Fields]
    /\ value \in [Clients -> Values \cup {NoValue}]
    /\ local \in [Clients -> Contents]
    /\ node \in [Clients -> 0 .. MaxCreates]
    /\ history \subseteq (0 .. MaxCreates) \X Contents

Init ==
    /\ version = Absent /\ content = Blank
    /\ creates = 0 /\ calls = 0
    /\ stat = [k \in Connections |-> 0]
    /\ pc = [c \in Clients |-> "idle"]
    /\ field \in [Clients -> Fields]
    /\ value = [c \in Clients |-> NoValue]
    /\ local = [c \in Clients |-> Blank]
    /\ node = [c \in Clients |-> 0] /\ history = {}

Present == version # Absent
Goto(c, there) == pc' = [pc EXCEPT ![c] = there]
Kept == history' = history \cup {<<creates', content'>>}

\* Mutant: a missing node has a Stat as well.
StatOfMissing(c) == stat' = [stat EXCEPT ![ConnOf[c]] = version]

\* A read leaves the node's Stat in the connection, of no node a zero one.
Stat(c) == stat' = [stat EXCEPT ![ConnOf[c]] = IF Present THEN version ELSE 0]

-----------------------------------------------------------------------------
(* EnableResource, DisableResource, SetConfig; UpdateMapField and, with    *)
(* NoValue, RemoveMapFieldKey.                                             *)

CallUpdate(c, f, v) ==
    /\ pc[c] = "idle" /\ calls < MaxCalls
    /\ calls' = calls + 1
    /\ field' = [field EXCEPT ![c] = f]
    /\ value' = [value EXCEPT ![c] = v]
    /\ Goto(c, "updExists")
    /\ UNCHANGED <<version, content, creates, stat, local, node, history>>

\* ErrResourceNotExists when there is no node.
UpdateExists(c) ==
    /\ pc[c] = "updExists"
    /\ Stat(c)
    /\ Goto(c, IF Present THEN "get" ELSE "idle")
    /\ UNCHANGED <<version, content, creates, calls, callVars, history>>

\* Mutant: the record is not read again, only its version.
UpdateGetVersion(c) ==
    /\ pc[c] = "get" /\ Present
    /\ Stat(c)
    /\ node' = [node EXCEPT ![c] = creates]
    /\ Goto(c, "set")
    /\ UNCHANGED <<version, content, creates, calls, field, value, local, history>>

\* Get waits for the node, should it have gone meanwhile.
UpdateGet(c) ==
    /\ pc[c] = "get" /\ Present
    /\ Stat(c)
    /\ local' = [local EXCEPT ![c] = content]
    /\ node' = [node EXCEPT ![c] = creates]
    /\ Goto(c, "set")
    /\ UNCHANGED <<version, content, creates, calls, field, value, history>>

\* Mutant: Set with version -1, which ZooKeeper always accepts.
UpdateSetAnyVersion(c) ==
    /\ pc[c] = "set" /\ Present
    /\ version' = version + 1
    /\ content' = [local[c] EXCEPT ![field[c]] = value[c]]
    /\ Goto(c, "idle")
    /\ UNCHANGED <<creates, calls, stat, callVars>>
    /\ Kept

\* Set sends the version of the connection's last read; refused, or without
\* a node, it is an error and must(err) a panic.
UpdateSet(c) ==
    /\ pc[c] = "set" /\ stat[ConnOf[c]] = version
    /\ version' = version + 1
    /\ content' = [local[c] EXCEPT ![field[c]] = value[c]]
    /\ Goto(c, "idle")
    /\ UNCHANGED <<creates, calls, stat, callVars>>
    /\ Kept

UpdateRefused(c) ==
    /\ pc[c] = "set" /\ stat[ConnOf[c]] # version
    /\ Goto(c, "panic")
    /\ UNCHANGED <<version, content, creates, calls, stat, callVars, history>>

-----------------------------------------------------------------------------
(* AddResource.                                                            *)

CallAdd(c, r) ==
    /\ pc[c] = "idle" /\ calls < MaxCalls
    /\ calls' = calls + 1
    /\ local' = [local EXCEPT ![c] = r]
    /\ Goto(c, "addExists")
    /\ UNCHANGED <<version, content, creates, stat, field, value, node, history>>

\* ErrResourceExists when there is a node.
AddExists(c) ==
    /\ pc[c] = "addExists"
    /\ Stat(c)
    /\ Goto(c, IF Present THEN "idle" ELSE "create")
    /\ UNCHANGED <<version, content, creates, calls, callVars, history>>

\* A new node starts at version 0 again.
AddCreate(c) ==
    /\ pc[c] = "create" /\ ~Present /\ creates < MaxCreates
    /\ creates' = creates + 1
    /\ version' = 0
    /\ content' = local[c]
    /\ Goto(c, "idle")
    /\ UNCHANGED <<calls, stat, callVars>>
    /\ Kept

AddRefused(c) ==
    /\ pc[c] = "create" /\ Present
    /\ Goto(c, "panic")
    /\ UNCHANGED <<version, content, creates, calls, stat, callVars, history>>

-----------------------------------------------------------------------------
(* DropResource: DeleteTree of a node without children; errors are ignored *)

CallDrop(c) ==
    /\ pc[c] = "idle" /\ calls < MaxCalls
    /\ calls' = calls + 1
    /\ Goto(c, "rmExists")
    /\ UNCHANGED <<version, content, creates, stat, callVars, history>>

DropExists(c) ==
    /\ pc[c] = "rmExists"
    /\ Stat(c)
    /\ Goto(c, IF Present THEN "rmChildren" ELSE "idle")
    /\ UNCHANGED <<version, content, creates, calls, callVars, history>>

DropChildren(c) ==
    /\ pc[c] = "rmChildren" /\ Present
    /\ Stat(c)
    /\ Goto(c, "rmDelete")
    /\ UNCHANGED <<version, content, creates, calls, callVars, history>>

DropDelete(c) ==
    /\ pc[c] = "rmDelete"
    /\ version' = Absent
    /\ content' = Blank
    /\ Goto(c, "idle")
    /\ UNCHANGED <<creates, calls, stat, callVars, history>>

-----------------------------------------------------------------------------
Call(c) ==
    \/ \E u \in Updates : CallUpdate(c, u[1], u[2])
    \/ \E r \in Definitions : CallAdd(c, r)
    \/ CallDrop(c)

UpdateStep(c) == UpdateExists(c) \/ UpdateGet(c) \/ UpdateSet(c) \/ UpdateRefused(c)
AddStep(c) == AddExists(c) \/ AddCreate(c) \/ AddRefused(c)
DropStep(c) == DropExists(c) \/ DropChildren(c) \/ DropDelete(c)

Next == \E c \in Clients : Call(c) \/ UpdateStep(c) \/ AddStep(c) \/ DropStep(c)

Spec == Init /\ [][Next]_vars

-----------------------------------------------------------------------------
(* Properties.                                                             *)

Record == INSTANCE AtomicRecord WITH present <- Present

\* No update is lost: although every call writes a whole record, the record
\* only ever changes in one field at a time (UpdateSimpleField's Get, change,
\* Set under the version read).  What it cannot keep out is a record that has
\* been dropped: a new node counts its versions from 0 again.
UpdatesAreAtomic == Record!Spec

\* The optimistic lock: a Set that ZooKeeper will accept, on the node that its
\* caller has read, has been computed from the record as it is now (conn.stat
\* is the Stat of the caller's Get).
AcceptedSetIsCurrent ==
    \A c \in Clients :
        pc[c] = "set" /\ stat[ConnOf[c]] = version /\ node[c] = creates =>
            local[c] = content
=============================================================================
