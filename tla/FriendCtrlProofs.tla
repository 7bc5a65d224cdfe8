-------------------------- MODULE FriendCtrlProofs --------------------------
(***************************************************************************)
(* Proofs about FriendCtrl, for all users, workers and requests.            *)
(***************************************************************************)
EXTENDS FriendCtrl, FiniteSetTheorems, SequenceTheorems, TLAPS

LogRow == [from : Users, to : Users, type : ActionTypes]

\* The type invariant is not inductive alone: a worker inside the handler has a
\* request, and the statement it is at fits the operation.
InHandler ==
  \A w \in Workers :
    /\ pc[w] # "idle" => req[w] \in Requests
    /\ pc[w] = "insert" => req[w].op = "REQ"
    /\ pc[w] = "delete" => req[w].op = "DEL"
    /\ pc[w] = "decide" => req[w].op \in Auth

Typed == TypeOK /\ InHandler

LEMMA RowType ==
  ASSUME Typed, NEW w \in Workers, pc[w] # "idle", NEW type \in ActionTypes
  PROVE  Row(w, type) \in LogRow
BY DEF Typed, InHandler, Row, LogRow, Requests

LEMMA AppendType ==
  ASSUME TypeOK, NEW row \in LogRow
  PROVE  /\ Append(friend_action_log, row) \in Seq(LogRow)
         /\ Len(friend_action_log) \in Nat
         /\ DOMAIN friend_action_log = 1..Len(friend_action_log)
         /\ DOMAIN Append(friend_action_log, row) = 1..Len(friend_action_log) + 1
         /\ \A i \in DOMAIN friend_action_log :
              Append(friend_action_log, row)[i] = friend_action_log[i]
         /\ Append(friend_action_log, row)[Len(friend_action_log) + 1] = row
BY DEF TypeOK, LogRow

LEMMA UpdatedType ==
  ASSUME TypeOK, NEW from, NEW to, NEW type \in ActionTypes
  PROVE  Updated(from, to, type) \in Seq(LogRow)
<1> DEFINE n == Len(friend_action_log)
<1>1. n \in Nat /\ DOMAIN friend_action_log = 1..n
  BY DEF TypeOK
<1>2. \A i \in 1..n : friend_action_log[i] \in LogRow
  <2>1. friend_action_log \in Seq(LogRow)
    BY DEF TypeOK, LogRow
  <2> QED
    BY <2>1, ElementOfSeq
<1>3. \A i \in 1..n : [friend_action_log[i] EXCEPT !.type = type] \in LogRow
  BY <1>2 DEF LogRow
<1>4. Updated(from, to, type) \in [1..n -> LogRow]
  BY <1>1, <1>2, <1>3 DEF Updated
<1> QED
  BY <1>1, <1>4, SeqDef

LEMMA TypedInit == Init => Typed
BY FriendCtrlAssumption DEF Init, Typed, TypeOK, InHandler, Places

LEMMA TypedNext == Typed /\ [Next]_vars => Typed'
<1> SUFFICES ASSUME Typed, [Next]_vars PROVE Typed'
  OBVIOUS
<1> USE DEF Typed, TypeOK, InHandler
<1>1. ASSUME NEW w \in Workers, NEW r \in Requests, Start(w, r) PROVE Typed'
  BY <1>1, FriendCtrlAssumption DEF Start, Goto, Places, Auth
<1>2. ASSUME NEW w \in Workers, CountFriend(w) PROVE Typed'
  BY <1>2 DEF CountFriend, Goto, Places
<1>3. ASSUME NEW w \in Workers, CountPending(w) PROVE Typed'
  BY <1>3 DEF CountPending, Goto, Places
<1>4. ASSUME NEW w \in Workers, Insert(w) PROVE Typed'
  <2>1. Row(w, "request") \in LogRow
    BY <1>4, RowType DEF Insert, ActionTypes
  <2>2. friend_action_log' \in Seq(LogRow)
    BY <1>4, <2>1, AppendType DEF Insert
  <2> QED
    BY <1>4, <2>2 DEF Insert, Goto, Places, LogRow
<1>5. ASSUME NEW w \in Workers, Delete(w) PROVE Typed'
  <2>1. Row(w, "delete") \in LogRow
    BY <1>5, RowType DEF Delete, ActionTypes
  <2>2. friend_action_log' \in Seq(LogRow)
    BY <1>5, <2>1, AppendType DEF Delete
  <2> QED
    BY <1>5, <2>2 DEF Delete, Goto, Places, LogRow
<1>6. ASSUME NEW w \in Workers, Decide(w) PROVE Typed'
  <2>1. friend_action_log' \in Seq(LogRow)
    BY <1>6, UpdatedType DEF Decide, ActionTypes
  <2> QED
    BY <1>6, <2>1 DEF Decide, Goto, Places, LogRow
<1>7. ASSUME NEW w \in Workers, DbError(w) PROVE Typed'
  BY <1>7 DEF DbError, Goto, Places
<1>8. ASSUME NEW w \in Workers, Refuse(w) PROVE Typed'
  BY <1>8 DEF Refuse, Goto, Places
<1>9. ASSUME NEW w \in Workers, Publish(w) PROVE Typed'
  BY <1>9 DEF Publish, Goto, Places
<1>10. ASSUME NEW w \in Workers, PublishFails(w) PROVE Typed'
  BY <1>10 DEF PublishFails, Goto, Places
<1>11. CASE UNCHANGED vars
  BY <1>11 DEF vars
<1> QED
  BY <1>1, <1>2, <1>3, <1>4, <1>5, <1>6, <1>7, <1>8, <1>9, <1>10, <1>11 DEF Next, Handle

\* The types of the tables and of the workers' variables.
THEOREM TypeCorrect == Spec => []TypeOK
<1> QED
  BY TypedInit, TypedNext, PTL DEF Spec, Typed

-----------------------------------------------------------------------------
\* Nothing inserts into friend, so what a worker has found out about a stranger
\* stays true until its INSERT.
StrangersStay ==
  \A w \in Workers :
    pc[w] \in {"count_pending", "insert"} /\ req[w].op = "REQ" =>
      <<req[w].uid, req[w].peer>> \notin friend

StrangerInv == StrangersStay /\ NoRequestToFriend

LEMMA StrangerNext == Typed /\ StrangerInv /\ [Next]_vars => StrangerInv'
<1> SUFFICES ASSUME Typed, StrangerInv, [Next]_vars PROVE StrangerInv'
  OBVIOUS
<1> USE DEF Typed, TypeOK, StrangerInv, StrangersStay, NoRequestToFriend
<1>1. ASSUME NEW w \in Workers, NEW r \in Requests, Start(w, r) PROVE StrangerInv'
  BY <1>1 DEF Start, Goto, Auth
<1>2. ASSUME NEW w \in Workers, CountFriend(w) PROVE StrangerInv'
  BY <1>2 DEF CountFriend, Goto
<1>3. ASSUME NEW w \in Workers, CountPending(w) PROVE StrangerInv'
  BY <1>3 DEF CountPending, Goto
<1>4. ASSUME NEW w \in Workers, Insert(w) PROVE StrangerInv'
  <2>1. Row(w, "request") \in LogRow
    BY <1>4, RowType DEF Insert, ActionTypes
  <2>2. <<req[w].uid, req[w].peer>> \notin friend
    BY <1>4 DEF Insert, InHandler
  <2>3. StrangersStay'
    BY <1>4 DEF Insert, Goto
  <2>4. NoRequestToFriend'
    <3> SUFFICES ASSUME NEW i \in DOMAIN friend_action_log', friend_action_log'[i].type = "request"
                 PROVE  <<friend_action_log'[i].from, friend_action_log'[i].to>> \notin friend
      BY <1>4 DEF Insert
    <3>1. CASE i \in DOMAIN friend_action_log
      BY <1>4, <2>1, <3>1, AppendType DEF Insert
    <3>2. CASE i = Len(friend_action_log) + 1
      <4>1. friend_action_log'[i] = Row(w, "request")
        BY <1>4, <2>1, <3>2, AppendType DEF Insert
      <4> QED
        BY <2>2, <4>1 DEF Row
    <3>3. /\ i \in 1..Len(friend_action_log) + 1
          /\ DOMAIN friend_action_log = 1..Len(friend_action_log)
          /\ Len(friend_action_log) \in Nat
      BY <1>4, <2>1, AppendType DEF Insert
    <3> QED
      BY <3>1, <3>2, <3>3
  <2> QED
    BY <2>3, <2>4
<1>5. ASSUME NEW w \in Workers, Delete(w) PROVE StrangerInv'
  <2>1. Row(w, "delete") \in LogRow
    BY <1>5, RowType DEF Delete, ActionTypes
  <2>3. StrangersStay'
    BY <1>5 DEF Delete, Goto
  <2>4. NoRequestToFriend'
    <3> SUFFICES ASSUME NEW i \in DOMAIN friend_action_log', friend_action_log'[i].type = "request"
                 PROVE  <<friend_action_log'[i].from, friend_action_log'[i].to>> \notin friend
      BY <1>5 DEF Delete
    <3>1. CASE i \in DOMAIN friend_action_log
      BY <1>5, <2>1, <3>1, AppendType DEF Delete
    <3>2. CASE i = Len(friend_action_log) + 1
      <4>1. friend_action_log'[i] = Row(w, "delete")
        BY <1>5, <2>1, <3>2, AppendType DEF Delete
      <4> QED
        BY <4>1 DEF Row
    <3>3. /\ i \in 1..Len(friend_action_log) + 1
          /\ DOMAIN friend_action_log = 1..Len(friend_action_log)
          /\ Len(friend_action_log) \in Nat
      BY <1>5, <2>1, AppendType DEF Delete
    <3> QED
      BY <3>1, <3>2, <3>3
  <2> QED
    BY <2>3, <2>4
<1>6. ASSUME NEW w \in Workers, Decide(w) PROVE StrangerInv'
  <2>1. StrangersStay'
    BY <1>6 DEF Decide, Goto
  <2>2. NoRequestToFriend'
    BY <1>6 DEF Decide, Updated
  <2> QED
    BY <2>1, <2>2
<1>7. ASSUME NEW w \in Workers, DbError(w) \/ Refuse(w) \/ Publish(w) \/ PublishFails(w)
      PROVE  StrangerInv'
  BY <1>7 DEF DbError, Refuse, Publish, PublishFails, Goto
<1>8. CASE UNCHANGED vars
  BY <1>8 DEF vars
<1> QED
  BY <1>1, <1>2, <1>3, <1>4, <1>5, <1>6, <1>7, <1>8 DEF Next, Handle

\* No request is pending towards a friend, although the count of friends and
\* the insertion are two statements and other workers write between them.
THEOREM NoRequestToFriendCorrect == Spec => []NoRequestToFriend
<1>1. Init => StrangerInv
  BY DEF Init, StrangerInv, StrangersStay, NoRequestToFriend
<1> QED
  BY <1>1, TypedInit, TypedNext, StrangerNext, PTL DEF Spec, StrangerInv
-----------------------------------------------------------------------------
\* What a worker is about to publish has been done.
Applied(r) ==
  /\ r.op \in {"REQ", "DEL"} =>
       \E i \in DOMAIN friend_action_log :
         friend_action_log[i].from = r.uid /\ friend_action_log[i].to = r.peer
  /\ r.op = "DEL" => <<r.uid, r.peer>> \notin friend

AppliedInv ==
  /\ \A w \in Workers : pc[w] = "publish" => Applied(req[w])
  /\ \A r \in published : Applied(r)

\* What has been done stays done: rows of the log keep their users and friend
\* only shrinks.
LEMMA AppliedStays ==
  ASSUME NEW r, Applied(r), friend' \subseteq friend,
         DOMAIN friend_action_log \subseteq DOMAIN friend_action_log',
         \A i \in DOMAIN friend_action_log :
           /\ friend_action_log'[i].from = friend_action_log[i].from
           /\ friend_action_log'[i].to = friend_action_log[i].to
  PROVE  Applied(r)'
BY DEF Applied

LEMMA AppliedNext == Typed /\ AppliedInv /\ [Next]_vars => AppliedInv'
<1> SUFFICES ASSUME Typed, AppliedInv, [Next]_vars PROVE AppliedInv'
  OBVIOUS
<1> USE DEF Typed, TypeOK, AppliedInv
<1>1. ASSUME NEW w \in Workers, NEW r \in Requests, Start(w, r) PROVE AppliedInv'
  BY <1>1 DEF Start, Goto, Applied
<1>2. ASSUME NEW w \in Workers,
             CountFriend(w) \/ CountPending(w) \/ DbError(w) \/ Refuse(w) \/ PublishFails(w)
      PROVE  AppliedInv'
  <2>1. /\ friend' = friend /\ friend_action_log' = friend_action_log
        /\ published' = published /\ req' = req
        /\ \A x \in Workers : pc'[x] = "publish" => pc[x] = "publish"
    BY <1>2 DEF CountFriend, CountPending, DbError, Refuse, PublishFails, Goto
  <2> QED
    BY <2>1 DEF Applied
<1>3. ASSUME NEW w \in Workers, Publish(w) PROVE AppliedInv'
  BY <1>3 DEF Publish, Goto, Applied
<1>4. ASSUME NEW w \in Workers, Insert(w) \/ Delete(w) PROVE AppliedInv'
  <2>1. PICK row \in LogRow : /\ friend_action_log' = Append(friend_action_log, row)
                              /\ row.from = req[w].uid /\ row.to = req[w].peer
    <3>1. CASE Insert(w)
      BY <3>1, RowType DEF Insert, Row, ActionTypes
    <3>2. CASE Delete(w)
      BY <3>2, RowType DEF Delete, Row, ActionTypes
    <3> QED
      BY <1>4, <3>1, <3>2
  <2>2. /\ DOMAIN friend_action_log \subseteq DOMAIN friend_action_log'
        /\ \A i \in DOMAIN friend_action_log : friend_action_log'[i] = friend_action_log[i]
        /\ \E i \in DOMAIN friend_action_log' :
             friend_action_log'[i].from = req[w].uid /\ friend_action_log'[i].to = req[w].peer
    BY <2>1, AppendType
  <2>3. friend' \subseteq friend /\ published' = published /\ req' = req
    BY <1>4 DEF Insert, Delete
  <2>4. \A r : Applied(r) => Applied(r)'
    BY <2>2, <2>3, AppliedStays
  <2>5. Applied(req[w])'
    BY <1>4, <2>2 DEF Applied, Insert, Delete, InHandler
  <2> QED
    BY <1>4, <2>3, <2>4, <2>5 DEF Insert, Delete, Goto
<1>5. ASSUME NEW w \in Workers, Decide(w) PROVE AppliedInv'
  <2>1. /\ DOMAIN friend_action_log' = DOMAIN friend_action_log
        /\ \A i \in DOMAIN friend_action_log :
             /\ friend_action_log'[i].from = friend_action_log[i].from
             /\ friend_action_log'[i].to = friend_action_log[i].to
    BY <1>5 DEF Decide, Updated
  <2>2. friend' = friend /\ published' = published /\ req' = req
    BY <1>5 DEF Decide
  <2>3. \A r : Applied(r) => Applied(r)'
    BY <2>1, <2>2, AppliedStays
  <2>4. Applied(req[w])'
    BY <1>5, <2>2 DEF Decide, InHandler, Applied, Auth
  <2> QED
    BY <1>5, <2>2, <2>3, <2>4 DEF Decide, Goto
<1>6. CASE UNCHANGED vars
  BY <1>6 DEF vars, Applied
<1> QED
  BY <1>1, <1>2, <1>3, <1>4, <1>5, <1>6 DEF Next, Handle

\* A published request or deletion has been carried out, whatever other workers
\* have done to the tables since.
THEOREM PublishedIsAppliedCorrect == Spec => []PublishedIsApplied
<1>1. Init => AppliedInv
  BY DEF Init, AppliedInv
<1>2. AppliedInv => PublishedIsApplied
  BY DEF AppliedInv, Applied, PublishedIsApplied
<1> QED
  BY <1>1, <1>2, TypedInit, TypedNext, AppliedNext, PTL DEF Spec

-----------------------------------------------------------------------------
\* The workers that have passed the count and will insert a request of u to v.
Inserters(u, v) ==
  {w \in Workers : pc[w] = "insert" /\ req[w].uid = u /\ req[w].peer = v}

\* Each pending request of the pair, and each one about to be inserted, is owed
\* to a worker of its own.
PendingInv ==
  \A u, v \in Users :
    Cardinality(Pending(u, v)) + Cardinality(Inserters(u, v)) <= Cardinality(Workers)

LEMMA Finite ==
  ASSUME Typed, NEW u, NEW v
  PROVE  /\ IsFiniteSet(Pending(u, v)) /\ Cardinality(Pending(u, v)) \in Nat
         /\ IsFiniteSet(Inserters(u, v)) /\ Cardinality(Inserters(u, v)) \in Nat
         /\ Cardinality(Inserters(u, v)) <= Cardinality(Workers)
         /\ Cardinality(Workers) \in Nat
<1>1. Len(friend_action_log) \in Nat /\ DOMAIN friend_action_log = 1..Len(friend_action_log)
  BY DEF Typed, TypeOK
<1>2. IsFiniteSet(1..Len(friend_action_log))
  BY <1>1, FS_Interval
<1>3. Pending(u, v) \subseteq 1..Len(friend_action_log) /\ Inserters(u, v) \subseteq Workers
  BY <1>1 DEF Pending, Inserters
<1>4. IsFiniteSet(Pending(u, v)) /\ IsFiniteSet(Inserters(u, v))
  BY <1>2, <1>3, FS_Subset, FriendCtrlAssumption
<1> QED
  BY <1>3, <1>4, FS_Subset, FS_CardinalityType, FriendCtrlAssumption

\* A step with no more pending rows and no more inserters keeps the invariant.
LEMMA PendingKept ==
  ASSUME Typed, PendingInv, NEW u \in Users, NEW v \in Users,
         Pending(u, v)' \subseteq Pending(u, v), Inserters(u, v)' \subseteq Inserters(u, v)
  PROVE  Cardinality(Pending(u, v))' + Cardinality(Inserters(u, v))' <= Cardinality(Workers)
<1>1. /\ Cardinality(Pending(u, v))' <= Cardinality(Pending(u, v))
      /\ Cardinality(Pending(u, v))' \in Nat
  BY Finite, FS_Subset, FS_CardinalityType
<1>2. /\ Cardinality(Inserters(u, v))' <= Cardinality(Inserters(u, v))
      /\ Cardinality(Inserters(u, v))' \in Nat
  BY Finite, FS_Subset, FS_CardinalityType
<1> QED
  BY <1>1, <1>2, Finite DEF PendingInv

LEMMA PendingNext == Typed /\ Typed' /\ PendingInv /\ [Next]_vars => PendingInv'
<1> SUFFICES ASSUME Typed, Typed', PendingInv, [Next]_vars, NEW u \in Users, NEW v \in Users
             PROVE  Cardinality(Pending(u, v))' + Cardinality(Inserters(u, v))'
                      <= Cardinality(Workers)
  BY DEF PendingInv
<1>1. ASSUME NEW w \in Workers,
             \/ \E r \in Requests : Start(w, r)
             \/ CountFriend(w) \/ DbError(w) \/ Refuse(w) \/ Publish(w) \/ PublishFails(w)
      PROVE  Pending(u, v)' \subseteq Pending(u, v) /\ Inserters(u, v)' \subseteq Inserters(u, v)
  BY <1>1
  DEF Start, CountFriend, DbError, Refuse, Publish, PublishFails, Goto, Pending, Inserters,
      Typed, TypeOK
<1>2. ASSUME NEW w \in Workers, CountPending(w)
      PROVE  Cardinality(Pending(u, v))' + Cardinality(Inserters(u, v))' <= Cardinality(Workers)
  <2>1. Pending(u, v)' = Pending(u, v)
    BY <1>2 DEF CountPending, Pending
  <2>2. CASE Pending(u, v) = {}
    <3>1. Cardinality(Pending(u, v))' = 0
      BY <2>1, <2>2, FS_EmptySet
    <3>2. /\ Cardinality(Inserters(u, v))' <= Cardinality(Workers)
          /\ Cardinality(Inserters(u, v))' \in Nat
      <4>1. Inserters(u, v)' \subseteq Workers
        BY DEF Inserters
      <4> QED
        BY <4>1, FS_Subset, FS_CardinalityType, FriendCtrlAssumption
    <3> QED
      BY <3>1, <3>2, Finite
  <2>3. CASE Pending(u, v) # {}
    <3>1. Inserters(u, v)' \subseteq Inserters(u, v)
      BY <1>2, <2>3 DEF CountPending, Goto, Inserters, Typed, TypeOK
    <3> QED
      BY <2>1, <3>1, PendingKept
  <2> QED
    BY <2>2, <2>3
<1>3. ASSUME NEW w \in Workers, Insert(w)
      PROVE  Cardinality(Pending(u, v))' + Cardinality(Inserters(u, v))' <= Cardinality(Workers)
  <2> DEFINE n == Len(friend_action_log)
             row == Row(w, "request")
  <2>1. row \in LogRow
    BY <1>3, RowType DEF Insert, ActionTypes
  <2>2. /\ friend_action_log' = Append(friend_action_log, row)
        /\ n \in Nat /\ DOMAIN friend_action_log = 1..n
        /\ DOMAIN friend_action_log' = 1..n + 1
        /\ \A i \in 1..n : friend_action_log'[i] = friend_action_log[i]
        /\ friend_action_log'[n + 1] = row
    BY <1>3, <2>1, AppendType DEF Insert, Typed
  <2>3. CASE req[w].uid = u /\ req[w].peer = v
    <3>1. Pending(u, v)' = Pending(u, v) \cup {n + 1} /\ n + 1 \notin Pending(u, v)
      BY <2>2, <2>3 DEF Pending, Row
    <3>2. Inserters(u, v)' = Inserters(u, v) \ {w} /\ w \in Inserters(u, v)
      BY <1>3, <2>3 DEF Insert, Goto, Inserters, Typed, TypeOK
    <3>3. Cardinality(Pending(u, v))' = Cardinality(Pending(u, v)) + 1
      BY <3>1, Finite, FS_AddElement
    <3>4. Cardinality(Inserters(u, v))' = Cardinality(Inserters(u, v)) - 1
      BY <3>2, Finite, FS_RemoveElement
    <3> QED
      BY <3>3, <3>4, Finite DEF PendingInv
  <2>4. CASE ~(req[w].uid = u /\ req[w].peer = v)
    <3>1. Pending(u, v)' \subseteq Pending(u, v)
      BY <2>2, <2>4 DEF Pending, Row
    <3>2. Inserters(u, v)' \subseteq Inserters(u, v)
      BY <1>3 DEF Insert, Goto, Inserters, Typed, TypeOK
    <3> QED
      BY <3>1, <3>2, PendingKept
  <2> QED
    BY <2>3, <2>4
<1>4. ASSUME NEW w \in Workers, Delete(w)
      PROVE  Pending(u, v)' \subseteq Pending(u, v) /\ Inserters(u, v)' \subseteq Inserters(u, v)
  <2> DEFINE n == Len(friend_action_log)
             row == Row(w, "delete")
  <2>1. row \in LogRow
    BY <1>4, RowType DEF Delete, ActionTypes
  <2>2. /\ n \in Nat /\ DOMAIN friend_action_log = 1..n
        /\ DOMAIN friend_action_log' = 1..n + 1
        /\ \A i \in 1..n : friend_action_log'[i] = friend_action_log[i]
        /\ friend_action_log'[n + 1].type = "delete"
    BY <1>4, <2>1, AppendType DEF Delete, Typed, Row
  <2>3. Pending(u, v)' \subseteq Pending(u, v)
    BY <2>2 DEF Pending
  <2>4. Inserters(u, v)' \subseteq Inserters(u, v)
    BY <1>4 DEF Delete, Goto, Inserters, Typed, TypeOK
  <2> QED
    BY <2>3, <2>4
<1>5. ASSUME NEW w \in Workers, Decide(w)
      PROVE  Pending(u, v)' \subseteq Pending(u, v) /\ Inserters(u, v)' \subseteq Inserters(u, v)
  <2>1. Pending(u, v)' \subseteq Pending(u, v)
    BY <1>5 DEF Decide, Updated, Pending
  <2>2. Inserters(u, v)' \subseteq Inserters(u, v)
    BY <1>5 DEF Decide, Goto, Inserters, Typed, TypeOK
  <2> QED
    BY <2>1, <2>2
<1>6. CASE UNCHANGED vars
  BY <1>6, PendingKept DEF vars, Pending, Inserters
<1> QED
  BY <1>1, <1>2, <1>3, <1>4, <1>5, <1>6, PendingKept DEF Next, Handle

\* The count and the insertion are two statements, but a pair never has more
\* pending requests than there are workers, however long the run.
THEOREM DuplicatesBoundedCorrect == Spec => []DuplicatesBounded
<1>1. Init => PendingInv
  <2> SUFFICES ASSUME Init, NEW u \in Users, NEW v \in Users
               PROVE  Cardinality(Pending(u, v)) + Cardinality(Inserters(u, v))
                        <= Cardinality(Workers)
    BY DEF PendingInv
  <2>1. Pending(u, v) = {} /\ Inserters(u, v) = {}
    BY DEF Init, Pending, Inserters
  <2>2. Cardinality({}) = 0 /\ Cardinality(Workers) \in Nat
    BY FS_EmptySet, FS_CardinalityType, FriendCtrlAssumption
  <2> QED
    BY <2>1, <2>2
<1>2. Typed /\ PendingInv => DuplicatesBounded
  BY Finite DEF PendingInv, DuplicatesBounded
<1> QED
  BY <1>1, <1>2, TypedInit, TypedNext, PendingNext, PTL DEF Spec
=============================================================================
