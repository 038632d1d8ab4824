---------------------------- MODULE AtomicRecord ----------------------------
(***************************************************************************)
(* What the callers of UpdateSimpleField, UpdateMapField, AddResource and  *)
(* DropResource can rely on: a record changes by being created, by being   *)
(* dropped, or in one field at a time; but a change that was begun before  *)
(* a drop may bring the dropped record back into the one made since.       *)
(***************************************************************************)
EXTENDS Naturals

CONSTANTS Fields, Values, NoValue

VARIABLES
    present, content,
    creates,   \* nodes there have been
    history    \* <<n, r>>: the n-th node has had the fields r

Contents == [Fields -> Values \cup {NoValue}]
Blank == [f \in Fields |-> NoValue]

Init == present = FALSE /\ content = Blank /\ creates = 0 /\ history = {}

Kept == history' = history \cup {<<creates', content'>>}

Create ==
    /\ ~present
    /\ present' = TRUE
    /\ creates' = creates + 1
    /\ content' \in Contents
    /\ Kept

OneFieldOf(record) ==
    \E f \in Fields, v \in Values \cup {NoValue} : content' = [record EXCEPT ![f] = v]

Update ==
    /\ present
    /\ OneFieldOf(content)
    /\ UNCHANGED <<present, creates>>
    /\ Kept

BringBack ==
    /\ present
    /\ \E h \in history : h[1] < creates /\ OneFieldOf(h[2])
    /\ UNCHANGED <<present, creates>>
    /\ Kept

Drop ==
    /\ present
    /\ present' = FALSE
    /\ content' = Blank
    /\ UNCHANGED <<creates, history>>

Next == Create \/ Update \/ BringBack \/ Drop

Spec == Init /\ [][Next]_<<present, content, creates, history>>
=============================================================================
