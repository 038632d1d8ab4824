------------------------ MODULE MCParticipantLifecycle -----------------------
(* Bounds for TLC.                                                         *)
EXTENDS ParticipantLifecycle

Limit(who, c, s, t, k, o, earlier) ==
    [who |-> who, connects |-> c, sessions |-> s, tries |-> t, crashes |-> k, orders |-> o,
     registered |-> o + earlier > 0, earlier |-> earlier]

One == {CHOOSE p \in Participants : TRUE}

\* Two processes that register and connect twice, one of which may be killed;
\* two that clean up what an earlier run has left; a restart, or a second
\* process, with an order under way; and one process: with an order over a second
\* Connect and an expiry, with two orders over two expiries.
MCLimits == {Limit(Participants, 2, 2, 1, 1, 0, 0),
             Limit(Participants, 1, 3, 0, 0, 0, 1),
             Limit(Participants, 1, 2, 0, 1, 1, 0),
             Limit(One, 2, 3, 0, 0, 1, 0),
             Limit(One, 1, 3, 0, 0, 2, 0)}

\* One process that connects twice.
OneLimit == {Limit(One, 2, 2, 1, 0, 0, 0)}
=============================================================================
