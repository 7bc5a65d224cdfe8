----------------------------- MODULE PushService -----------------------------
(***************************************************************************)
(* What the push server promises to a transfer that calls Push: a call is   *)
(* answered at most once, and OK is only said of a push that a gate has     *)
(* sent to the user's socket.  A failure promises nothing: the push may     *)
(* have reached the user before it, and may still reach the user after it,  *)
(* since a gate sends without asking whether the call is alive.  OK is what *)
(* the transfer takes as leave to delete the message from the inbox (the    *)
(* DELETE it then runs has no effect, see CassandraTransfer), so this is    *)
(* what keeps a message that nobody has seen.                               *)
(*                                                                          *)
(* PushServer implements this specification.                                *)
(***************************************************************************)
CONSTANT Calls

VARIABLES called,    \* the pushes that have been asked for
          reached,   \* the pushes a gate has sent
          answer     \* the answer to each push, "none" before

vars == <<called, reached, answer>>

Init ==
  /\ called = {}
  /\ reached = {}
  /\ answer = [c \in Calls |-> "none"]

Call(c) ==
  /\ called' = called \cup {c}
  /\ UNCHANGED <<reached, answer>>

\* A gate sends the push, whether or not the call was answered meanwhile.
Reach(c) ==
  /\ c \in called
  /\ reached' = reached \cup {c}
  /\ UNCHANGED <<called, answer>>

Answer(c, a) ==
  /\ c \in called
  /\ answer[c] = "none"
  /\ a = "ok" => c \in reached
  /\ answer' = [answer EXCEPT ![c] = a]
  /\ UNCHANGED <<called, reached>>

Next ==
  \E c \in Calls :
    Call(c) \/ Reach(c) \/ (\E a \in {"ok", "failed"} : Answer(c, a))

Spec == Init /\ [][Next]_vars
=============================================================================
