------------------------- MODULE MCParticipantLoop -------------------------
(* Small instances of ParticipantLoop for TLC. *)
EXTENDS ParticipantLoop, TLC

\* A letter; the tests' state model is MasterSlave on one resource.
L(type, tgt, state, part, from, to) ==
    [type |-> type, tgt |-> tgt, state |-> state, res |-> "db", part |-> part,
     from |-> from, to |-> to]

Order(tgt, part, from, to) ==
    L("STATE_TRANSITION", tgt, "NEW", part, from, to)

MCStates == {"OFFLINE", "SLAVE", "MASTER", "DROPPED"}

ToSlave == Order(FirstSession, "db_0", "OFFLINE", "SLAVE")
ToMaster == Order(FirstSession, "db_0", "SLAVE", "MASTER")
ToDropped == Order(FirstSession, "db_0", "OFFLINE", "DROPPED")
OtherPartition == Order(FirstSession, "db_1", "OFFLINE", "SLAVE")
Broadcast == Order(AnySession, "db_0", "OFFLINE", "SLAVE")
NextSession == Order(2, "db_0", "OFFLINE", "SLAVE")
AlreadyRead == L("STATE_TRANSITION", FirstSession, "READ", "db_0", "OFFLINE", "SLAVE")
NoOp == L("NO_OP", FirstSession, "NEW", "db_0", "OFFLINE", "OFFLINE")
UserMessage == L("USER_DEFINE_MSG", FirstSession, "NEW", "db_0", "OFFLINE", "OFFLINE")

\* One of each kind, and two sessions.
AllLetters == {ToSlave, ToMaster, ToDropped, Broadcast, NextSession,
               AlreadyRead, NoOp, UserMessage}

\* Orders on the same and on different partitions, one session.
LiveLetters == {ToSlave, ToMaster, OtherPartition, AlreadyRead}

FewLetters == {ToSlave, ToMaster}

Symmetric == Permutations(Msgs)
=============================================================================
