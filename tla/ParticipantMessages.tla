------------------------ MODULE ParticipantMessages ------------------------
(***************************************************************************)
(* What a Helix controller writes under /<cluster>/INSTANCES/<id>/MESSAGES *)
(* and what the participant records under .../CURRENTSTATES, reduced to    *)
(* the fields on which src/participant.go branches.                        *)
(***************************************************************************)
EXTENDS Integers

CONSTANTS
    Msgs,         \* message ids: UUIDs, so an id is never used twice
    Letters,      \* the message contents explored
    Resources,
    Partitions,
    States,       \* states of the state model, "DROPPED" among them
    NoState,      \* no CURRENT_STATE recorded for a partition
    AnySession,   \* the TGT_SESSION_ID "*"
    MaxSession    \* bound on the sessions the ZooKeeper client is given

(***************************************************************************)
(* Session ids in the order ZooKeeper hands them out.  This participant    *)
(* connects with FirstSession; 0 stands for the sessions of its past runs. *)
(***************************************************************************)
FirstSession == 1
Sessions == 0 .. MaxSession

MsgTypes == {"NO_OP", "STATE_TRANSITION", "USER_DEFINE_MSG"}

Letter ==
    [type : MsgTypes, tgt : Sessions \cup {AnySession}, state : {"NEW", "READ"},
     res : Resources, part : Partitions, from : States, to : States]

ASSUME MessagesAssumption ==
    /\ Letters \subseteq Letter
    /\ MaxSession \in Nat /\ FirstSession <= MaxSession
    /\ AnySession \notin Nat
    /\ NoState \notin States

\* A current state record is the node CURRENTSTATES/<session>/<resource>.
Keys == (Sessions \cup {AnySession}) \X Resources

NothingRecorded == [p \in Partitions |-> NoState]

\* The messages processMessage hands to handleStateTransition.
IsOrder(l) == l.type = "STATE_TRANSITION" /\ l.state = "NEW"

\* The record an order is about.
KeyOf(l) == <<l.tgt, l.res>>
=============================================================================
