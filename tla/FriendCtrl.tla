----------------------------- MODULE FriendCtrl -----------------------------
(***************************************************************************)
(* msg_logic's FriendCtrlHandle: friend requests, deletions and decisions   *)
(* over the MySQL tables friend and friend_action_log, followed by the      *)
(* publication of the request.                                              *)
(*                                                                          *)
(* Each worker of the pool runs the handler; the statements of different    *)
(* workers interleave, and only the statements of a Transaction are one     *)
(* step.  A statement may throw a Poco exception, which leaves the tables   *)
(* as they were and ends in "invalid request".  Whether the published       *)
(* request reaches Kafka is decided outside (see LogicServer).  The notes   *)
(* on friends are left out; nothing inserts into friend, so its content is  *)
(* what other programs put there.                                           *)
(***************************************************************************)
EXTENDS Integers, Sequences, FiniteSets

CONSTANTS Users, Workers,
          Friends,      \* the initial rows of friend: pairs <<uid, friend_uid>>
          MaxRequests,  \* bound on the requests of a run
          NoRequest     \* of a worker that has handled none

ASSUME FriendCtrlAssumption ==
  /\ Friends \subseteq Users \X Users
  /\ MaxRequests \in Nat
  /\ IsFiniteSet(Workers)

Ops == {"REQ", "DEL", "AUTH_OK", "AUTH_REJECT"}
Auth == {"AUTH_OK", "AUTH_REJECT"}
Requests == [op : Ops, uid : Users, peer : Users]

\* friend_action_log.action_type: 0, 1, 2 and 3.
ActionTypes == {"request", "delete", "added", "rejected"}

VARIABLES friend,             \* rows of friend, as pairs <<uid, friend_uid>>
          friend_action_log,  \* rows of the log, in the order of their ids
          pc,                 \* each worker's next statement
          req,                \* the request each worker handles
          published,          \* requests in Kafka
          unpublished,        \* requests carried out whose publication failed
          sent                \* requests so far

vars == <<friend, friend_action_log, pc, req, published, unpublished, sent>>

Places == {"idle", "count_friend", "count_pending", "insert", "delete", "decide",
           "publish", "refuse", "error"}

TypeOK ==
  /\ friend \subseteq Users \X Users
  /\ friend_action_log \in Seq([from : Users, to : Users, type : ActionTypes])
  /\ pc \in [Workers -> Places]
  /\ req \in [Workers -> Requests \cup {NoRequest}]
  /\ published \subseteq Requests
  /\ unpublished \subseteq Requests
  /\ sent \in 0..MaxRequests

Init ==
  /\ friend = Friends
  /\ friend_action_log = <<>>
  /\ pc = [w \in Workers |-> "idle"]
  /\ req = [w \in Workers |-> NoRequest]
  /\ published = {} /\ unpublished = {}
  /\ sent = 0

\* The log rows SELECT COUNT(*) ... AND action_type = 0 counts.
Pending(from, to) ==
  {i \in DOMAIN friend_action_log :
     /\ friend_action_log[i].from = from
     /\ friend_action_log[i].to = to
     /\ friend_action_log[i].type = "request"}

\* UPDATE friend_action_log SET action_type = type WHERE from_uid, to_uid:
\* every row of the pair, whatever its action_type.
Updated(from, to, type) ==
  [i \in DOMAIN friend_action_log |->
     IF friend_action_log[i].from = from /\ friend_action_log[i].to = to
       THEN [friend_action_log[i] EXCEPT !.type = type]
       ELSE friend_action_log[i]]

Goto(w, place) == pc' = [pc EXCEPT ![w] = place]

Row(w, type) == [from |-> req[w].uid, to |-> req[w].peer, type |-> type]

-----------------------------------------------------------------------------
\* A worker takes the task of a FriendCtrl request.
Start(w, r) ==
  /\ pc[w] = "idle" /\ sent < MaxRequests
  /\ req' = [req EXCEPT ![w] = r]
  /\ Goto(w, IF r.op \in Auth THEN "count_pending" ELSE "count_friend")
  /\ sent' = sent + 1
  /\ UNCHANGED <<friend, friend_action_log, published, unpublished>>

CountFriend_AnyReq(w) ==
  /\ pc[w] = "count_friend"
  /\ LET r == req[w] IN
       Goto(w, CASE r.op = "REQ" -> "count_pending"
                 [] r.op = "DEL" /\ <<r.uid, r.peer>> \in friend -> "delete"
                 [] OTHER -> "refuse")
  /\ UNCHANGED <<friend, friend_action_log, req, published, unpublished, sent>>

\* A request needs strangers, a deletion needs friends.
CountFriend(w) ==
  /\ pc[w] = "count_friend"
  /\ LET r == req[w]
         isfriend == <<r.uid, r.peer>> \in friend
     IN Goto(w, CASE r.op = "REQ" /\ ~isfriend -> "count_pending"
                  [] r.op = "DEL" /\ isfriend -> "delete"
                  [] OTHER -> "refuse")
  /\ UNCHANGED <<friend, friend_action_log, req, published, unpublished, sent>>

CountPending_AnyReq(w) ==
  /\ pc[w] = "count_pending"
  /\ LET r == req[w]
         waiting == Pending(r.uid, r.peer) # {}
     IN Goto(w, CASE r.op = "REQ" -> "insert"
                  [] r.op \in Auth /\ waiting -> "decide"
                  [] OTHER -> "refuse")
  /\ UNCHANGED <<friend, friend_action_log, req, published, unpublished, sent>>

\* A request needs that none is pending, a decision that one is.  Both look at
\* the rows from the requester of this call to its peer.
CountPending(w) ==
  /\ pc[w] = "count_pending"
  /\ LET r == req[w]
         waiting == Pending(r.uid, r.peer) # {}
     IN Goto(w, CASE r.op = "REQ" /\ ~waiting -> "insert"
                  [] r.op \in Auth /\ waiting -> "decide"
                  [] OTHER -> "refuse")
  /\ UNCHANGED <<friend, friend_action_log, req, published, unpublished, sent>>

Insert(w) ==
  /\ pc[w] = "insert"
  /\ friend_action_log' = Append(friend_action_log, Row(w, "request"))
  /\ Goto(w, "publish")
  /\ UNCHANGED <<friend, req, published, unpublished, sent>>

\* One transaction: the row of friend goes, the deletion is logged.
Delete(w) ==
  /\ pc[w] = "delete"
  /\ friend' = friend \ {<<req[w].uid, req[w].peer>>}
  /\ friend_action_log' = Append(friend_action_log, Row(w, "delete"))
  /\ Goto(w, "publish")
  /\ UNCHANGED <<req, published, unpublished, sent>>

Decide_RawType(w) ==
  /\ pc[w] = "decide"
  /\ friend_action_log' = Updated(req[w].peer, req[w].uid, req[w].op)
  /\ Goto(w, "publish")
  /\ UNCHANGED <<friend, req, published, unpublished, sent>>

\* The log rows from the peer to the requester of this call are decided.
Decide(w) ==
  /\ pc[w] = "decide"
  /\ friend_action_log' = Updated(req[w].peer, req[w].uid,
                                  IF req[w].op = "AUTH_OK" THEN "added" ELSE "rejected")
  /\ Goto(w, "publish")
  /\ UNCHANGED <<friend, req, published, unpublished, sent>>

DbError_Ignored(w) ==
  /\ pc[w] \in {"count_friend", "count_pending", "insert", "delete", "decide"}
  /\ Goto(w, "publish")
  /\ UNCHANGED <<friend, friend_action_log, req, published, unpublished, sent>>

\* The statement, or its transaction, throws: Handle catches, ok = false.
DbError(w) ==
  /\ pc[w] \in {"count_friend", "count_pending", "insert", "delete", "decide"}
  /\ Goto(w, "error")
  /\ UNCHANGED <<friend, friend_action_log, req, published, unpublished, sent>>

\* "invalid request": nothing is published.
Refuse(w) ==
  /\ pc[w] \in {"refuse", "error"}
  /\ Goto(w, "idle")
  /\ UNCHANGED <<friend, friend_action_log, req, published, unpublished, sent>>

\* Kafka takes the request ...
Publish(w) ==
  /\ pc[w] = "publish"
  /\ published' = published \cup {req[w]}
  /\ Goto(w, "idle")
  /\ UNCHANGED <<friend, friend_action_log, req, unpublished, sent>>

\* ... or not: the caller gets an error, and nothing undoes the tables.
PublishFails(w) ==
  /\ pc[w] = "publish"
  /\ unpublished' = unpublished \cup {req[w]}
  /\ Goto(w, "idle")
  /\ UNCHANGED <<friend, friend_action_log, req, published, sent>>

Handle(w) ==
  \/ CountFriend(w) \/ CountPending(w) \/ Insert(w) \/ Delete(w) \/ Decide(w)
  \/ DbError(w) \/ Refuse(w) \/ Publish(w) \/ PublishFails(w)

Next ==
  \E w \in Workers : (\E r \in Requests : Start(w, r)) \/ Handle(w)

Spec == Init /\ [][Next]_vars

-----------------------------------------------------------------------------
\* The count of friends and the insertion are two statements, and friends can
\* be deleted between them: still no request is ever pending towards someone
\* who is a friend.
NoRequestToFriend ==
  \A i \in DOMAIN friend_action_log :
    LET row == friend_action_log[i] IN
      row.type = "request" => <<row.from, row.to>> \notin friend

\* The count of pending requests and the insertion are not one transaction:
\* several workers can pass the count and insert.  But one duplicate per worker
\* is the worst, however long the run.
DuplicatesBounded ==
  \A u, v \in Users : Cardinality(Pending(u, v)) <= Cardinality(Workers)

\* What the other side is told has happened: a published request or deletion
\* is in the log, and the friend of a published deletion is gone.
PublishedIsApplied ==
  \A r \in published :
    /\ r.op \in {"REQ", "DEL"} =>
         \E i \in DOMAIN friend_action_log :
           friend_action_log[i].from = r.uid /\ friend_action_log[i].to = r.peer
    /\ r.op = "DEL" => <<r.uid, r.peer>> \notin friend

-----------------------------------------------------------------------------
\* msg.proto: FRIEND_AUTH_OK is "friend verification passed".  A decision on a
\* request that is pending is not refused.
PendingCanBeDecided ==
  \A w \in Workers :
    pc[w] = "refuse" /\ req[w].op \in Auth => Pending(req[w].peer, req[w].uid) = {}
=============================================================================
