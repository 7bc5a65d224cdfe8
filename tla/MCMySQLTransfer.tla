-------------------------- MODULE MCMySQLTransfer --------------------------
(***************************************************************************)
(* Instances of MySQLTransfer for TLC.                                      *)
(***************************************************************************)
EXTENDS MySQLTransfer

Rec(k, s, known) == [kind |-> k, slot |-> s, known |-> known]

\* Two user messages of one millisecond, a group message in it, one that is
\* not accepted and one to a user that does not exist.
MixedTopic == <<Rec("user", "t1", TRUE), Rec("group", "t1", TRUE), Rec("bad", "t1", TRUE),
                Rec("user", "t1", TRUE), Rec("user", "t2", FALSE)>>
=============================================================================
