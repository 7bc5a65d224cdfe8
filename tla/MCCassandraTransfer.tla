------------------------ MODULE MCCassandraTransfer ------------------------
(***************************************************************************)
(* Instances of CassandraTransfer for TLC.                                  *)
(***************************************************************************)
EXTENDS CassandraTransfer, TLC

CONSTANTS u1, u2

MCUsers == {u1, u2}

To(u) == [kind |-> "user", to |-> {u}]

\* A message to the group {u1, u2} and one to u1: both compete for u1's seq.
MixedTopic == <<[kind |-> "group", to |-> {u1, u2}], To(u1)>>

\* Two messages to u1 and, between them, one that is not accepted.
PairTopic == <<To(u1), [kind |-> "bad", to |-> {u2}], To(u1)>>

\* The threads of the pool are alike.
Symmetry == Permutations(Workers)
=============================================================================
