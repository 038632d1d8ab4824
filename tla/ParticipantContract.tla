------------------------ MODULE ParticipantContract ------------------------
(***************************************************************************)
(* What a controller may rely on when it talks to a participant, whatever  *)
(* goroutines, snapshots, versions and retries the participant uses:       *)
(*   - a partition's state is recorded in one step, as some order that is  *)
(*     still unremoved asks, under the very session it was addressed to;   *)
(*   - the participant removes a message only once it has answered it.     *)
(***************************************************************************)
EXTENDS ParticipantMessages

VARIABLES
    letter,     \* the content of each message id
    sent,       \* ids written so far
    withdrawn,  \* messages deleted by someone else
    removed,    \* messages the participant has removed
    session,    \* the participant's ZooKeeper session
    recorded    \* the state recorded for each partition of each record

vars == <<letter, sent, withdrawn, removed, session, recorded>>

Init ==
    /\ letter \in [Msgs -> Letters]
    /\ sent = {} /\ withdrawn = {} /\ removed = {}
    /\ session = FirstSession
    /\ recorded = [k \in Keys |-> NothingRecorded]

Pending == sent \ (withdrawn \cup removed)

Send(m) ==
    /\ m \notin sent
    /\ sent' = sent \cup {m}
    /\ UNCHANGED <<letter, withdrawn, removed, session, recorded>>

Withdraw(m) ==
    /\ m \in Pending
    /\ withdrawn' = withdrawn \cup {m}
    /\ UNCHANGED <<letter, sent, removed, session, recorded>>

Expire ==
    /\ session' = session + 1
    /\ UNCHANGED <<letter, sent, withdrawn, removed, recorded>>

(***************************************************************************)
(* An order takes effect: only under the session it names, never under a   *)
(* session the participant has not had, never after it was removed.        *)
(***************************************************************************)
Record(m) ==
    LET l == letter[m] IN
    /\ m \in sent \ removed
    /\ IsOrder(l)
    /\ l.tgt \in FirstSession .. session
    /\ recorded' = [recorded EXCEPT ![KeyOf(l)][l.part] = l.to]
    /\ UNCHANGED <<letter, sent, withdrawn, removed, session>>

\* Nothing is left to do for m: it asks for nothing, it is not for the
\* participant's session, or the state it asks for is on record.
Answered(m) ==
    LET l == letter[m] IN
    \/ l.type = "NO_OP"
    \/ l.tgt # session
    \/ IsOrder(l) /\ recorded[KeyOf(l)][l.part] = l.to

Remove(m) ==
    /\ m \in Pending
    /\ Answered(m)
    /\ removed' = removed \cup {m}
    /\ UNCHANGED <<letter, sent, withdrawn, session, recorded>>

Next ==
    \/ \E m \in Msgs : Send(m) \/ Withdraw(m) \/ Record(m) \/ Remove(m)
    \/ Expire

Spec == Init /\ [][Next]_vars
=============================================================================
