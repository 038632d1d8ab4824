-------------------------- MODULE MCRecordUpdate --------------------------
(* Small instances of RecordUpdate for TLC: a connection for each client.  *)
EXTENDS RecordUpdate, TLC

MCConnOf == [c \in Clients |-> c]

Definition(n) == [HELIX_ENABLED |-> NoValue, NUM_PARTITIONS |-> n]

\* A resource that is added, dropped and added again with another number of
\* partitions.
TwoDefinitions == {Definition("6"), Definition("8")}

EnableDisable == {<<"HELIX_ENABLED", "true">>, <<"HELIX_ENABLED", "false">>}

\* Changes of two fields, as UpdateMapField makes them of two partitions.
TwoFields == EnableDisable \cup {<<"NUM_PARTITIONS", "8">>, <<"NUM_PARTITIONS", NoValue>>}

Symmetric == Permutations(Clients)
=============================================================================
