--------------------------- MODULE PublishService ---------------------------
(***************************************************************************)
(* What msg_logic promises to a msg_gate that calls Handle: a call is       *)
(* answered at most once, and the answer tells the truth about the Kafka    *)
(* topic.  "accepted" is only given to a request that is in the topic (or   *)
(* to a login, which needs no record), "rejected" only to a request that is *)
(* not in the topic and never will be; "unknown" promises nothing.          *)
(*                                                                          *)
(* LogicServer implements this specification.                               *)
(***************************************************************************)
CONSTANTS Calls,      \* the calls of Handle
          Requests,   \* the kinds of request a call can carry
          Unlogged,   \* the kinds that are accepted without a record
          Never,      \* the kinds that are never recorded
          NoRequest   \* of a call that has not been made

VARIABLES asked,      \* the request each call carries
          answer,     \* the answer each call got, "none" before
          topic       \* the calls whose message is in the Kafka topic

vars == <<asked, answer, topic>>

Answers == {"none", "accepted", "rejected", "unknown"}

Init ==
  /\ asked  = [c \in Calls |-> NoRequest]
  /\ answer = [c \in Calls |-> "none"]
  /\ topic  = {}

\* The truth of an answer, given whether the call's message is in the topic.
Truthful(c, a) ==
  /\ a = "accepted" => c \in topic \/ asked[c] \in Unlogged
  /\ a = "rejected" => c \notin topic

Ask(c, k) ==
  /\ asked[c] = NoRequest
  /\ asked' = [asked EXCEPT ![c] = k]
  /\ UNCHANGED <<answer, topic>>

Record(c) ==
  /\ asked[c] \in Requests \ (Never \cup Unlogged)
  /\ answer[c] # "rejected"
  /\ topic' = topic \cup {c}
  /\ UNCHANGED <<asked, answer>>

Answer(c, a) ==
  /\ asked[c] # NoRequest
  /\ answer[c] = "none"
  /\ a # "none"
  /\ Truthful(c, a)
  /\ answer' = [answer EXCEPT ![c] = a]
  /\ UNCHANGED <<asked, topic>>

Next ==
  \E c \in Calls :
    \/ \E k \in Requests : Ask(c, k)
    \/ Record(c)
    \/ \E a \in Answers : Answer(c, a)

Spec == Init /\ [][Next]_vars
=============================================================================
