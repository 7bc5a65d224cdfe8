---------------------- MODULE CassandraTransferProofs ----------------------
(***************************************************************************)
(* Proofs about CassandraTransfer, for every topic, any number of users,    *)
(* workers and faults.                                                      *)
(***************************************************************************)
EXTENDS CassandraTransfer, FiniteSetTheorems, SequenceTheorems, TLAPS

AnyTask ==
  [do : {"none", "handle", "error", "member", "delete"}, msg : 0..Len(Topic),
   uid : Users \cup {NoUser}, seq : Nat]

\* A queued message is in the topic, and that of a member has its member.
Queued ==
  {t \in AnyTask : /\ t.do # "none"
                   /\ t.do \in {"handle", "member"} => t.msg \in Offsets
                   /\ t.do = "member" => t.uid \in Users}

AnyRow == [uid : Users, seq : Nat, msg : Offsets]

\* The part of the types that the seqs depend on.
Typed ==
  /\ tasks_ \in Seq(Queued)
  /\ pc \in [Workers -> {"idle", "handle", "select", "fan", "incr", "inbox", "push"}]
  /\ uids \in [Workers -> SUBSET Users]
  /\ job \in [Workers -> AnyTask]
  /\ seqs \in [Users -> Nat]
  /\ boxwrites \subseteq AnyRow /\ inbox \subseteq AnyRow
  /\ pushes \subseteq AnyRow /\ pushed \subseteq AnyRow
  /\ \A w \in Workers :
       /\ pc[w] # "idle" => job[w].msg \in Offsets
       /\ pc[w] \in {"incr", "inbox", "push"} => job[w].uid \in Users

LEMMA TypedInit == Init => Typed
<1> SUFFICES ASSUME Init PROVE Typed
  OBVIOUS
<1>1. NoTask \in AnyTask
  <2>1. Len(Topic) \in Nat
    BY TopicAssumption
  <2> QED
    BY <2>1 DEF NoTask, Task, AnyTask
<1> QED
  BY <1>1 DEF Init, ConsumerInit, Typed

LEMMA ElementIn ==
  ASSUME NEW S, NEW s \in Seq(S), NEW i \in 1..Len(s)
  PROVE  s[i] \in S
OBVIOUS

LEMMA TypedNext == Typed /\ [Next]_vars => Typed'
<1> SUFFICES ASSUME Typed, [Next]_vars PROVE Typed'
  OBVIOUS
<1>0. Len(Topic) \in Nat /\ \A o \in Offsets : Topic[o].to \in SUBSET Users /\ o \in 0..Len(Topic)
  <2>1. Topic \in Seq([kind : Kinds, to : SUBSET Users])
    BY TopicAssumption
  <2>2. Len(Topic) \in Nat
    BY <2>1
  <2>3. \A o \in Offsets : Topic[o] \in [kind : Kinds, to : SUBSET Users]
    BY <2>1, ElementIn DEF Offsets
  <2> QED
    BY <2>2, <2>3 DEF Offsets
<1>n. NoTask \in AnyTask
  BY <1>0 DEF NoTask, Task, AnyTask
<1> USE DEF consumervars, wvars, cassvars
<1>1. ASSUME NEW t \in Queued, tasks_' = Append(tasks_, t) PROVE tasks_' \in Seq(Queued)
  BY <1>1 DEF Typed
<1>2. CASE RunConsume
  <2>1. position \in Offsets /\ tasks_' = Append(tasks_, Task("handle", position, NoUser, 0))
    BY <1>2 DEF RunConsume, Consume
  <2>2. Task("handle", position, NoUser, 0) \in Queued
    BY <1>0, <2>1 DEF Task, Queued, AnyTask
  <2> QED
    BY <1>1, <1>2, <2>1, <2>2 DEF RunConsume, Typed
<1>3. CASE RunConsumeError
  <2>1. Task("error", 0, NoUser, 0) \in Queued
    BY <1>0 DEF Task, Queued, AnyTask
  <2> QED
    BY <1>1, <1>3, <2>1 DEF RunConsumeError, ConsumeError, Typed
<1>4. CASE RunAutoCommit \/ RunClose
  BY <1>4 DEF RunAutoCommit, AutoCommit, RunClose, Close, Typed
<1>5. CASE Restart \/ Crash
  <2>1. Forget
    BY <1>5 DEF Restart, Crash
  <2> QED
    BY <1>n, <2>1 DEF Forget, Restarted, Typed
<1>6. ASSUME NEW w \in Workers, Dequeue(w) PROVE Typed'
  <2> DEFINE t == Head(tasks_)
  <2>1. t \in Queued /\ tasks_' \in Seq(Queued)
    BY <1>6 DEF Dequeue, Typed
  <2>2. t.do \in {"error", "delete"} => UNCHANGED <<pc, job, uids>>
    BY <1>6 DEF Dequeue
  <2>3. t.do \notin {"error", "delete"} =>
          /\ t.do \in {"handle", "member"} /\ job' = [job EXCEPT ![w] = t] /\ uids' = uids
          /\ pc' = [pc EXCEPT ![w] = IF t.do = "handle" THEN "handle" ELSE "incr"]
    BY <1>6 DEF Dequeue, Goto
  <2>4. UNCHANGED <<seqs, boxwrites, inbox, pushes, pushed>>
    BY <1>6 DEF Dequeue, OnPushSuccess
  <2> HIDE DEF t
  <2>5. CASE t.do \in {"error", "delete"}
    BY <2>1, <2>2, <2>4, <2>5 DEF Typed
  <2>6. CASE t.do \notin {"error", "delete"}
    <3>1. t \in AnyTask /\ t.msg \in Offsets /\ (t.do = "member" => t.uid \in Users)
      BY <2>1, <2>3, <2>6 DEF Queued
    <3> QED
      BY <2>1, <2>3, <2>4, <2>6, <3>1 DEF Typed
  <2> QED
    BY <2>5, <2>6
<1>7. ASSUME NEW w \in Workers, HandleMessage(w) PROVE Typed'
  <2>1. job[w].msg \in Offsets
    BY <1>7 DEF HandleMessage, Typed
  <2>2. UNCHANGED <<tasks_, seqs, boxwrites, inbox, pushes, pushed>>
    BY <1>7 DEF HandleMessage
  <2>3. CASE Return(w)
    BY <1>n, <2>2, <2>3 DEF Return, Goto, Typed
  <2>4. CASE Goto(w, "select") /\ UNCHANGED <<job, uids>>
    BY <2>1, <2>2, <2>4 DEF Goto, Typed
  <2>5. ASSUME NEW u \in Topic[job[w].msg].to, job' = [job EXCEPT ![w].uid = u], Goto(w, "incr"),
               UNCHANGED uids
        PROVE  Typed'
    <3>1. u \in Users
      BY <1>0, <2>1
    <3>2. job' \in [Workers -> AnyTask] /\ job'[w].uid = u /\ job'[w].msg = job[w].msg
          /\ \A v \in Workers : v # w => job'[v] = job[v]
      BY <2>5, <3>1 DEF Typed, AnyTask
    <3> QED
      BY <2>1, <2>2, <2>5, <3>1, <3>2 DEF Goto, Typed
  <2> QED
    BY <1>7, <2>3, <2>4, <2>5 DEF HandleMessage
<1>8. ASSUME NEW w \in Workers, FanOut(w) PROVE Typed'
  <2>1. CASE UNCHANGED tasks_ /\ Return(w)
    BY <1>8, <1>n, <2>1 DEF FanOut, Return, Goto, Typed
  <2>2. ASSUME NEW u \in uids[w], tasks_' = Append(tasks_, Task("member", job[w].msg, u, 0)),
               uids' = [uids EXCEPT ![w] = @ \ {u}], UNCHANGED <<pc, job>>
        PROVE  Typed'
    <3>1. job[w].msg \in Offsets /\ u \in Users
      BY <1>8, <2>2 DEF FanOut, Typed
    <3>2. Task("member", job[w].msg, u, 0) \in Queued
      BY <1>0, <3>1 DEF Task, Queued, AnyTask
    <3>3. tasks_' \in Seq(Queued)
      BY <1>1, <2>2, <3>2
    <3> QED
      BY <1>8, <2>2, <3>3 DEF FanOut, Typed
  <2> QED
    BY <1>8, <2>1, <2>2 DEF FanOut
<1>14. ASSUME NEW w \in Workers, SelectMembers(w) PROVE Typed'
  <2>1. job[w].msg \in Offsets
    BY <1>14 DEF SelectMembers, Typed
  <2>2. uids' \in [Workers -> SUBSET Users]
    BY <1>0, <1>14, <2>1 DEF SelectMembers, Typed
  <2> QED
    BY <1>14, <2>1, <2>2 DEF SelectMembers, Goto, Typed
<1>9. ASSUME NEW w \in Workers, SelectFails(w) \/ IncrFails(w) \/ AsyncPush(w) PROVE Typed'
  <2>1. pc[w] # "select" => job[w].msg \in Offsets /\ job[w].uid \in Users /\ job[w].seq \in Nat
    BY <1>9 DEF SelectFails, IncrFails, AsyncPush, Typed, AnyTask
  <2>2. seqs' \in [Users -> Nat] /\ pushes' \subseteq AnyRow
    <3>1. CASE SelectFails(w)
      BY <3>1 DEF SelectFails, Typed
    <3>2. CASE IncrFails(w)
      BY <2>1, <3>2 DEF IncrFails, Typed
    <3>3. CASE AsyncPush(w)
      <4>1. Row(job[w].uid, job[w].seq, job[w].msg) \in AnyRow
        BY <2>1, <3>3 DEF AsyncPush, Row, AnyRow
      <4> QED
        BY <3>3, <4>1 DEF AsyncPush, Typed
    <3> QED
      BY <1>9, <3>1, <3>2, <3>3
  <2> QED
    BY <1>9, <1>n, <2>2 DEF SelectFails, IncrFails, AsyncPush, Return, Goto, Typed
<1>10. ASSUME NEW w \in Workers, Incr(w) PROVE Typed'
  <2>1. job[w].uid \in Users /\ job[w].msg \in Offsets /\ seqs[job[w].uid] \in Nat /\ pc[w] = "incr"
    BY <1>10 DEF Incr, Typed
  <2>2. /\ job' = [job EXCEPT ![w].seq = seqs[job[w].uid] + 1]
        /\ pc' = [pc EXCEPT ![w] = "inbox"]
    BY <1>10 DEF Incr, Goto
  <2>3. /\ job' \in [Workers -> AnyTask] /\ job'[w].uid = job[w].uid /\ job'[w].msg = job[w].msg
        /\ \A v \in Workers : v # w => job'[v] = job[v]
    <3>1. job[w] \in AnyTask /\ seqs[job[w].uid] + 1 \in Nat
      BY <2>1 DEF Typed
    <3>2. [job[w] EXCEPT !.seq = seqs[job[w].uid] + 1] \in AnyTask
      BY <3>1 DEF AnyTask
    <3>3. job' = [job EXCEPT ![w] = [job[w] EXCEPT !.seq = seqs[job[w].uid] + 1]]
      BY <2>2 DEF Typed
    <3> QED
      BY <3>1, <3>2, <3>3 DEF Typed, AnyTask
  <2>4. seqs' \in [Users -> Nat]
    BY <1>10, <2>1 DEF Incr, Typed
  <2>5. UNCHANGED <<tasks_, uids, boxwrites, inbox, pushes, pushed>>
    BY <1>10 DEF Incr
  <2> QED
    BY <2>1, <2>2, <2>3, <2>4, <2>5 DEF Typed
<1>11. ASSUME NEW w \in Workers, WriteInbox(w) PROVE Typed'
  <2>1. job[w].msg \in Offsets /\ job[w].uid \in Users /\ job[w].seq \in Nat
    BY <1>11 DEF WriteInbox, Typed, AnyTask
  <2>2. boxwrites' \subseteq AnyRow
    BY <1>11, <2>1 DEF WriteInbox, Typed, AnyRow, Row
  <2> QED
    BY <1>11, <2>1, <2>2 DEF WriteInbox, Goto, Typed
<1>12. CASE Complete
  <2>1. ASSUME NEW o \in msgwrites, WriteMessageOk(o) PROVE Typed'
    BY <2>1 DEF WriteMessageOk, Typed
  <2>2. ASSUME NEW x \in boxwrites, WriteInboxOk(x) PROVE Typed'
    BY <2>2 DEF WriteInboxOk, Typed
  <2>3. ASSUME WriteFails PROVE Typed'
    BY <2>3 DEF WriteFails, Typed
  <2>4. ASSUME NEW p \in pushes, PushOk(p) PROVE Typed'
    <3>1. Task("delete", 0, NoUser, 0) \in Queued
      BY <1>0 DEF Task, Queued, AnyTask
    <3> QED
      BY <1>1, <2>4, <3>1 DEF PushOk, Typed
  <2>5. ASSUME NEW p \in pushes, PushFails(p) PROVE Typed'
    BY <2>5 DEF PushFails, Typed
  <2> QED
    BY <1>12, <2>1, <2>2, <2>3, <2>4, <2>5 DEF Complete
<1>13. CASE UNCHANGED vars
  BY <1>13 DEF vars, Typed
<1> QED
  BY <1>2, <1>3, <1>4, <1>5, <1>6, <1>7, <1>8, <1>9, <1>10, <1>11, <1>12, <1>13, <1>14
  DEF Next, Work
-----------------------------------------------------------------------------
(***************************************************************************)
(* The seqs.  No seq that was given out is above the user's counter, so     *)
(* that the next one is new.                                                *)
(***************************************************************************)

Below == \A x \in Issued : 1 <= x.seq /\ x.seq <= seqs[x.uid]

SeqInv == Below /\ SeqNamesOneMessage

Holds(w) == pc[w] \in {"inbox", "push"}
InHand(w) == Row(job[w].uid, job[w].seq, job[w].msg)

LEMMA IssuedRows == Typed => Issued \subseteq AnyRow
<1> SUFFICES ASSUME Typed PROVE Issued \subseteq AnyRow
  OBVIOUS
<1>1. \A w \in Workers : Holds(w) => InHand(w) \in AnyRow
  <2> SUFFICES ASSUME NEW w \in Workers, Holds(w) PROVE InHand(w) \in AnyRow
    OBVIOUS
  <2>1. job[w].uid \in Users /\ job[w].seq \in Nat /\ job[w].msg \in Offsets
    BY DEF Typed, Holds, AnyTask
  <2> QED
    BY <2>1 DEF InHand, Row, AnyRow
<1> QED
  BY <1>1 DEF Issued, Holds, InHand, Typed

\* A step that gives out no seq.
LEMMA NoneIssued ==
  ASSUME Typed, SeqInv, Issued' \subseteq Issued,
         seqs' \in [Users -> Nat], \A u \in Users : seqs[u] <= seqs'[u]
  PROVE  SeqInv'
<1>1. ASSUME NEW x \in Issued' PROVE 1 <= x.seq /\ x.seq <= seqs'[x.uid]
  <2>1. x \in Issued /\ x \in AnyRow
    BY <1>1, IssuedRows
  <2>2. x.uid \in Users /\ x.seq \in Nat /\ 1 <= x.seq /\ x.seq <= seqs[x.uid]
    BY <2>1 DEF AnyRow, SeqInv, Below
  <2>3. seqs[x.uid] \in Nat /\ seqs'[x.uid] \in Nat /\ seqs[x.uid] <= seqs'[x.uid]
    BY <2>2 DEF Typed
  <2> QED
    BY <2>2, <2>3
<1>2. SeqNamesOneMessage'
  BY DEF SeqInv, SeqNamesOneMessage
<1> QED
  BY <1>1, <1>2 DEF SeqInv, Below

\* What was issued stays where it is or moves on.
LEMMA Moves ==
  ASSUME \A w \in Workers : Holds(w)' => \/ Holds(w) /\ job'[w] = job[w]
                                         \/ InHand(w)' \in Issued,
         boxwrites' \subseteq Issued, inbox' \subseteq Issued,
         pushes' \subseteq Issued, pushed' \subseteq Issued
  PROVE  Issued' \subseteq Issued
<1>1. \A w \in Workers : Holds(w) => InHand(w) \in Issued
  BY DEF Holds, InHand, Issued
<1>2. \A w \in Workers : Holds(w)' => InHand(w)' \in Issued
  BY <1>1 DEF InHand, Row
<1>3. Issued' = boxwrites' \cup inbox' \cup pushes' \cup pushed'
                  \cup {InHand(w)' : w \in {v \in Workers : Holds(v)'}}
  BY DEF Issued, InHand, Holds
<1> QED
  BY <1>2, <1>3

LEMMA SeqInit == Init => SeqInv
<1> SUFFICES ASSUME Init PROVE SeqInv
  OBVIOUS
<1>1. Issued = {}
  BY DEF Init, Issued
<1> QED
  BY <1>1 DEF SeqInv, Below, SeqNamesOneMessage

LEMMA SeqNext == Typed /\ SeqInv /\ [Next]_vars => SeqInv'
<1> SUFFICES ASSUME Typed, SeqInv, [Next]_vars PROVE SeqInv'
  OBVIOUS
<1> USE DEF consumervars, wvars, cassvars
<1>0. /\ boxwrites \subseteq Issued /\ inbox \subseteq Issued
      /\ pushes \subseteq Issued /\ pushed \subseteq Issued
      /\ \A w \in Workers : Holds(w) => InHand(w) \in Issued
  BY DEF Issued, Holds, InHand
<1>s. UNCHANGED seqs => seqs' \in [Users -> Nat] /\ \A u \in Users : seqs[u] <= seqs'[u]
  BY DEF Typed
<1>1. CASE RunConsume \/ RunConsumeError \/ RunAutoCommit \/ RunClose \/ UNCHANGED vars
  <2>1. UNCHANGED <<pc, job, seqs, boxwrites, inbox, pushes, pushed>>
    BY <1>1 DEF RunConsume, RunConsumeError, RunAutoCommit, RunClose, vars
  <2> QED
    BY <1>0, <1>s, <2>1, Moves, NoneIssued DEF Holds
<1>2. CASE Restart \/ Crash
  <2>1. Forget
    BY <1>2 DEF Restart, Crash
  <2>2. \A w \in Workers : ~ Holds(w)'
    BY <2>1 DEF Forget, Holds
  <2>3. Issued' \subseteq Issued
    BY <1>0, <2>1, <2>2, Moves DEF Forget
  <2> QED
    BY <1>s, <2>1, <2>3, NoneIssued DEF Forget
<1>3. ASSUME NEW w \in Workers,
             \/ Dequeue(w) \/ HandleMessage(w) \/ FanOut(w)
             \/ SelectMembers(w) \/ SelectFails(w) \/ IncrFails(w)
      PROVE  SeqInv'
  <2>1. UNCHANGED <<boxwrites, inbox, pushes, pushed>>
    BY <1>3 DEF Dequeue, OnPushSuccess, HandleMessage, SelectMembers, SelectFails, FanOut, IncrFails
  <2>2. \A v \in Workers : Holds(v)' => Holds(v) /\ job'[v] = job[v]
    BY <1>3 DEF Dequeue, HandleMessage, SelectMembers, SelectFails, FanOut, IncrFails, Holds, Goto, Return, Typed
  <2>3. seqs' \in [Users -> Nat] /\ \A u \in Users : seqs[u] <= seqs'[u]
    <3>1. \/ UNCHANGED seqs
          \/ job[w].uid \in Users /\ seqs' = [seqs EXCEPT ![job[w].uid] = seqs[job[w].uid] + 1]
      BY <1>3 DEF Dequeue, HandleMessage, SelectMembers, SelectFails, FanOut, IncrFails, Typed
    <3> QED
      BY <1>s, <3>1 DEF Typed
  <2> QED
    BY <1>0, <2>1, <2>2, <2>3, Moves, NoneIssued
<1>4. ASSUME NEW w \in Workers, Incr(w) PROVE SeqInv'
  <2> DEFINE u == job[w].uid
             n == Row(u, seqs[u] + 1, job[w].msg)
  <2>1. u \in Users /\ job[w].msg \in Offsets /\ seqs[u] \in Nat /\ job[w] \in AnyTask
    BY <1>4 DEF Incr, Typed
  <2>2. /\ seqs' = [seqs EXCEPT ![u] = seqs[u] + 1]
        /\ job' = [job EXCEPT ![w].seq = seqs[u] + 1]
        /\ pc' = [pc EXCEPT ![w] = "inbox"]
        /\ UNCHANGED <<boxwrites, inbox, pushes, pushed>>
    BY <1>4 DEF Incr, Goto
  <2>3. InHand(w)' = n
    BY <2>1, <2>2 DEF InHand, Row, Typed, AnyTask
  <2>4. \A v \in Workers : v # w /\ Holds(v)' => Holds(v) /\ InHand(v)' = InHand(v)
    BY <2>2 DEF InHand, Row, Holds, Typed
  <2>5. Issued' = boxwrites' \cup inbox' \cup pushes' \cup pushed'
                    \cup {InHand(v)' : v \in {q \in Workers : Holds(q)'}}
    BY DEF Issued, InHand, Holds
  <2> HIDE DEF u, n
  <2>6. Issued' \subseteq Issued \cup {n}
    <3>1. \A v \in Workers : Holds(v)' => InHand(v)' \in Issued \cup {n}
      BY <1>0, <2>3, <2>4
    <3>2. boxwrites' \cup inbox' \cup pushes' \cup pushed' \subseteq Issued
      BY <1>0, <2>2
    <3> QED
      BY <2>5, <3>1, <3>2
  <2>7. n.uid = u /\ n.seq = seqs[u] + 1
    BY DEF n, Row
  <2>8. \A x \in Issued : /\ x.uid \in Users /\ x.seq \in Nat /\ 1 <= x.seq /\ x.seq <= seqs[x.uid]
                          /\ x.uid = u => x.seq # n.seq
    BY <2>1, <2>7, IssuedRows DEF AnyRow, SeqInv, Below
  <2>9. \A d \in Users : seqs[d] \in Nat /\ seqs'[d] = IF d = u THEN seqs[u] + 1 ELSE seqs[d]
    BY <2>1, <2>2 DEF Typed
  <2>10. Below'
    BY <2>1, <2>6, <2>7, <2>8, <2>9 DEF Below
  <2>11. SeqNamesOneMessage'
    BY <2>6, <2>7, <2>8 DEF SeqInv, SeqNamesOneMessage
  <2> QED
    BY <2>10, <2>11 DEF SeqInv
<1>5. ASSUME NEW w \in Workers, WriteInbox(w) \/ AsyncPush(w) PROVE SeqInv'
  <2>1. Holds(w) /\ InHand(w) \in Issued
    BY <1>0, <1>5 DEF WriteInbox, AsyncPush, Holds
  <2>2. /\ boxwrites' \subseteq boxwrites \cup {InHand(w)} /\ pushes' \subseteq pushes \cup {InHand(w)}
        /\ UNCHANGED <<inbox, pushed, seqs>>
    BY <1>5 DEF WriteInbox, AsyncPush, InHand
  <2>3. \A v \in Workers : Holds(v)' => Holds(v) /\ job'[v] = job[v]
    BY <1>5, <2>1 DEF WriteInbox, AsyncPush, Goto, Return, Holds, Typed
  <2>4. Issued' \subseteq Issued
    BY <1>0, <2>1, <2>2, <2>3, Moves
  <2> QED
    BY <1>s, <2>2, <2>4, NoneIssued
<1>6. CASE Complete
  <2>1. UNCHANGED <<pc, job, seqs>>
    BY <1>6 DEF Complete, WriteMessageOk, WriteInboxOk, WriteFails, PushOk, PushFails
  <2>2. boxwrites' \subseteq Issued /\ inbox' \subseteq Issued
    BY <1>0, <1>6 DEF Complete, WriteMessageOk, WriteInboxOk, WriteFails, PushOk, PushFails
  <2>3. pushes' \subseteq Issued /\ pushed' \subseteq Issued
    BY <1>0, <1>6 DEF Complete, WriteMessageOk, WriteInboxOk, WriteFails, PushOk, PushFails
  <2>4. Issued' \subseteq Issued
    BY <2>1, <2>2, <2>3, Moves DEF Holds
  <2> QED
    BY <1>s, <2>1, <2>4, NoneIssued
<1> QED
  BY <1>1, <1>2, <1>3, <1>4, <1>5, <1>6 DEF Next, Work

\* A seq of a user names one message for good, whatever is redelivered after a
\* crash, whichever workers compete for it and whatever fails on the way.
THEOREM SeqNamesOneMessageCorrect == Spec => []SeqNamesOneMessage
<1>1. SeqInv => SeqNamesOneMessage
  BY DEF SeqInv
<1> QED
  BY <1>1, TypedInit, TypedNext, SeqInit, SeqNext, PTL DEF Spec

-----------------------------------------------------------------------------
(***************************************************************************)
(* Offsets.  A consumer that has closed has committed all it was given.     *)
(***************************************************************************)

Committed ==
  /\ position \in 1..Len(Topic) + 1 /\ committed \in 1..position
  /\ stop_ \in BOOLEAN /\ closed \in BOOLEAN
  /\ faults \in 0..MaxFaults
  /\ msgwrites \subseteq Offsets /\ messages \subseteq Offsets
  /\ closed => stop_ /\ committed = position

LEMMA CommittedInit == Init => Committed
<1> SUFFICES ASSUME Init PROVE Committed
  OBVIOUS
<1>1. Len(Topic) \in Nat /\ MaxFaults \in Nat
  BY TopicAssumption, ConsumerAssumption
<1>2. /\ position = 1 /\ committed = 1 /\ stop_ = FALSE /\ closed = FALSE /\ faults = 0
      /\ msgwrites = {} /\ messages = {}
  BY DEF Init, ConsumerInit
<1>3. position \in 1..Len(Topic) + 1 /\ committed \in 1..position /\ faults \in 0..MaxFaults
  BY <1>1, <1>2
<1>4. stop_ \in BOOLEAN /\ closed \in BOOLEAN /\ ~closed
  BY <1>2
<1> QED
  BY <1>2, <1>3, <1>4 DEF Committed

LEMMA CommittedNext == Typed /\ Committed /\ [Next]_vars => Committed'
<1> SUFFICES ASSUME Typed, Committed, [Next]_vars PROVE Committed'
  OBVIOUS
<1> USE DEF consumervars, wvars, cassvars
<1>0. /\ Len(Topic) \in Nat /\ position \in Nat /\ committed \in Nat
      /\ position \in 1..Len(Topic) + 1 /\ committed \in 1..position
      /\ faults \in 0..MaxFaults /\ MaxFaults \in Nat
      /\ msgwrites \subseteq Offsets /\ messages \subseteq Offsets
  BY TopicAssumption, ConsumerAssumption DEF Committed
<1>f. ASSUME NEW k, Fault(k) PROVE faults' \in 0..MaxFaults
  BY <1>0, <1>f DEF Fault
<1>1. CASE RunConsume
  <2>1. /\ position' = position + 1 /\ position \in Offsets /\ ~closed
        /\ UNCHANGED <<committed, stop_, closed, faults, msgwrites, messages>>
    BY <1>1 DEF RunConsume, Consume
  <2>2. position' \in 1..Len(Topic) + 1 /\ committed' \in 1..position'
    BY <1>0, <2>1 DEF Offsets
  <2> QED
    BY <2>1, <2>2 DEF Committed
<1>2. CASE RunConsumeError
  BY <1>2, <1>f DEF RunConsumeError, ConsumeError, Committed
<1>3. CASE RunAutoCommit
  BY <1>3, <1>0 DEF RunAutoCommit, AutoCommit, Committed
<1>4. CASE RunClose
  BY <1>4, <1>0 DEF RunClose, Close, Committed
<1>5. CASE Restart \/ Crash
  <2>1. Forget /\ faults' \in 0..MaxFaults
    BY <1>0, <1>5, <1>f DEF Restart, Crash
  <2>2. /\ position' = committed /\ committed' = committed /\ stop_' = FALSE /\ closed' = FALSE
        /\ msgwrites' \subseteq Offsets /\ messages' = messages
    BY <1>0, <2>1 DEF Forget, Restarted
  <2>3. position' \in 1..Len(Topic) + 1 /\ committed' \in 1..position'
    BY <1>0, <2>2
  <2> QED
    BY <1>0, <2>1, <2>2, <2>3 DEF Committed
<1>6. ASSUME NEW w \in Workers, Work(w) PROVE Committed'
  <2>1. UNCHANGED <<position, committed, closed, messages>> /\ (stop_' = stop_ \/ stop_' = TRUE)
    BY <1>6 DEF Work, Dequeue, OnPushSuccess, HandleMessage, SelectMembers, SelectFails, FanOut, Incr, IncrFails,
                WriteInbox, AsyncPush
  <2>2. faults' \in 0..MaxFaults
    <3>1. UNCHANGED faults \/ Fault("mysql") \/ Fault("redis")
      BY <1>6 DEF Work, Dequeue, HandleMessage, SelectMembers, SelectFails, FanOut, Incr, IncrFails, WriteInbox,
                  AsyncPush
    <3> QED
      BY <1>0, <1>f, <3>1
  <2>3. msgwrites' \subseteq Offsets
    <3>1. CASE HandleMessage(w)
      <4>1. job[w].msg \in Offsets
        BY <3>1 DEF HandleMessage, Typed
      <4> QED
        BY <1>0, <3>1, <4>1 DEF HandleMessage
    <3>2. CASE ~HandleMessage(w)
      <4>1. UNCHANGED msgwrites
        BY <1>6, <3>2 DEF Work, Dequeue, OnPushSuccess, SelectMembers, SelectFails, FanOut, Incr, IncrFails,
                          WriteInbox, AsyncPush
      <4> QED
        BY <1>0, <4>1
    <3> QED
      BY <3>1, <3>2
  <2> QED
    BY <2>1, <2>2, <2>3 DEF Committed
<1>7. CASE Complete
  <2>1. UNCHANGED <<position, committed, closed, stop_>>
    BY <1>7 DEF Complete, WriteMessageOk, WriteInboxOk, WriteFails, PushOk, PushFails
  <2>2. faults' \in 0..MaxFaults
    <3>1. UNCHANGED faults \/ Fault("cassandra") \/ Fault("push")
      BY <1>7 DEF Complete, WriteMessageOk, WriteInboxOk, WriteFails, PushOk, PushFails
    <3> QED
      BY <1>0, <1>f, <3>1
  <2>3. msgwrites' \subseteq Offsets /\ messages' \subseteq Offsets
    BY <1>0, <1>7 DEF Complete, WriteMessageOk, WriteInboxOk, WriteFails, PushOk, PushFails
  <2> QED
    BY <2>1, <2>2, <2>3 DEF Committed
<1>8. CASE UNCHANGED vars
  BY <1>8 DEF vars, Committed
<1> QED
  BY <1>1, <1>2, <1>3, <1>4, <1>5, <1>6, <1>7, <1>8 DEF Next

\* Only a fault adds to the faults, and a crash is one.
LEMMA FaultsGrow ==
  ASSUME Committed, [Next]_vars
  PROVE  /\ faults \in Nat /\ faults' \in Nat /\ faults <= faults'
         /\ Crash => faults' = faults + 1
<1> USE DEF consumervars
<1>1. faults \in Nat
  BY ConsumerAssumption DEF Committed
<1>2. Crash => faults' = faults + 1
  BY DEF Crash, Fault
<1>3. UNCHANGED faults \/ \E k : Fault(k)
  <2>1. CASE RunConsume \/ RunConsumeError \/ RunAutoCommit \/ RunClose \/ Restart \/ Crash
             \/ UNCHANGED vars
    BY <2>1 DEF RunConsume, Consume, RunConsumeError, ConsumeError, RunAutoCommit, AutoCommit,
                RunClose, Close, Restart, Crash, vars
  <2>2. CASE \E w \in Workers : Work(w)
    BY <2>2 DEF Work, Dequeue, HandleMessage, SelectMembers, SelectFails, FanOut, Incr, IncrFails, WriteInbox,
                AsyncPush
  <2>3. CASE Complete
    BY <2>3 DEF Complete, WriteMessageOk, WriteInboxOk, WriteFails, PushOk, PushFails
  <2> QED
    BY <2>1, <2>2, <2>3 DEF Next
<1> QED
  BY <1>1, <1>2, <1>3 DEF Fault

-----------------------------------------------------------------------------
(***************************************************************************)
(* Who still has to serve user u with the message at offset o: the topic,   *)
(* the queue, or a worker; never two of them.                               *)
(***************************************************************************)

Carries(t, o, u) == t.msg = o /\ (t.do = "handle" \/ (t.do = "member" /\ t.uid = u))
InTopic(o) == position <= o
InQueue(o, u) == \E i \in DOMAIN tasks_ : Carries(tasks_[i], o, u)
QueuedOnce(o, u) ==
  \A i, j \in DOMAIN tasks_ : Carries(tasks_[i], o, u) /\ Carries(tasks_[j], o, u) => i = j

\* A worker has yet to take the seq ...
Counts(w, o, u) ==
  /\ job[w].msg = o
  /\ \/ pc[w] \in {"handle", "select"}
     \/ pc[w] = "fan" /\ u \in uids[w]
     \/ pc[w] = "incr" /\ job[w].uid = u

\* ... or to write the inbox.
Serves(w, o, u) == Counts(w, o, u) \/ (pc[w] = "inbox" /\ job[w].msg = o /\ job[w].uid = u)

ToCount(o, u) == InTopic(o) \/ InQueue(o, u) \/ \E w \in Workers : Counts(w, o, u)
Pending(o, u) == InTopic(o) \/ InQueue(o, u) \/ \E w \in Workers : Serves(w, o, u)

Once(o, u) ==
  /\ QueuedOnce(o, u)
  /\ \A v, w \in Workers : Serves(v, o, u) /\ Serves(w, o, u) => v = w
  /\ InTopic(o) \/ InQueue(o, u) => \A w \in Workers : ~Serves(w, o, u)
  /\ InTopic(o) => ~InQueue(o, u)

\* A task that is appended ...
LEMMA CarriedAppend ==
  ASSUME tasks_ \in Seq(Queued), NEW t \in Queued, tasks_' = Append(tasks_, t), NEW o, NEW u
  PROVE  /\ InQueue(o, u)' <=> InQueue(o, u) \/ Carries(t, o, u)
         /\ QueuedOnce(o, u) /\ ~(InQueue(o, u) /\ Carries(t, o, u)) => QueuedOnce(o, u)'
<1> DEFINE n == Len(tasks_) + 1
<1>1. /\ Len(tasks_) \in Nat /\ DOMAIN tasks_ = 1..Len(tasks_) /\ DOMAIN tasks_' = 1..n
      /\ \A i \in DOMAIN tasks_ : tasks_'[i] = tasks_[i]
      /\ tasks_'[n] = t
  OBVIOUS
<1>2. DOMAIN tasks_' = DOMAIN tasks_ \cup {n} /\ n \notin DOMAIN tasks_
  BY <1>1
<1> HIDE DEF n
<1> QED
  BY <1>1, <1>2 DEF InQueue, QueuedOnce

\* ... and one that is taken.
LEMMA CarriedTail ==
  ASSUME tasks_ \in Seq(Queued), tasks_ # <<>>, tasks_' = Tail(tasks_), NEW o, NEW u
  PROVE  /\ InQueue(o, u)' => InQueue(o, u)
         /\ Carries(Head(tasks_), o, u) => InQueue(o, u)
         /\ QueuedOnce(o, u) => QueuedOnce(o, u)'
         /\ QueuedOnce(o, u) /\ Carries(Head(tasks_), o, u) => ~InQueue(o, u)'
<1>1. /\ Len(tasks_) \in Nat /\ Len(tasks_) >= 1 /\ DOMAIN tasks_ = 1..Len(tasks_)
      /\ DOMAIN tasks_' = 1..Len(tasks_) - 1
      /\ \A i \in DOMAIN tasks_' : tasks_'[i] = tasks_[i + 1]
      /\ Head(tasks_) = tasks_[1]
  OBVIOUS
<1>2. 1 \in DOMAIN tasks_ /\ \A i \in DOMAIN tasks_' : i + 1 \in DOMAIN tasks_ /\ i + 1 # 1 /\ i \in Int
  BY <1>1
<1>3. (InQueue(o, u)' => InQueue(o, u)) /\ (Carries(Head(tasks_), o, u) => InQueue(o, u))
  BY <1>1, <1>2 DEF InQueue
<1>4. QueuedOnce(o, u) => QueuedOnce(o, u)'
  <2> SUFFICES ASSUME QueuedOnce(o, u), NEW i \in DOMAIN tasks_', NEW j \in DOMAIN tasks_',
                      Carries(tasks_'[i], o, u), Carries(tasks_'[j], o, u)
               PROVE  i = j
    BY DEF QueuedOnce
  <2>1. i + 1 = j + 1
    BY <1>1, <1>2 DEF QueuedOnce
  <2> QED
    BY <1>2, <2>1
<1>5. QueuedOnce(o, u) /\ Carries(Head(tasks_), o, u) => ~InQueue(o, u)'
  BY <1>1, <1>2 DEF InQueue, QueuedOnce
<1> QED
  BY <1>3, <1>4, <1>5

\* A worker that goes on with its task, or ends it.
LEMMA WorkerStays ==
  ASSUME NEW o, NEW u, Once(o, u), UNCHANGED <<position, tasks_>>,
         NEW w \in Workers,
         \A v \in Workers \ {w} : pc'[v] = pc[v] /\ job'[v] = job[v] /\ uids'[v] = uids[v],
         Serves(w, o, u)' => Serves(w, o, u), Counts(w, o, u)' => Counts(w, o, u)
  PROVE  /\ Once(o, u)'
         /\ Pending(o, u)' => Pending(o, u)
         /\ ToCount(o, u)' => ToCount(o, u)
<1>1. \A v \in Workers : /\ Serves(v, o, u)' => Serves(v, o, u)
                         /\ Counts(v, o, u)' => Counts(v, o, u)
  <2> SUFFICES ASSUME NEW v \in Workers, v # w
               PROVE  /\ Serves(v, o, u)' => Serves(v, o, u)
                      /\ Counts(v, o, u)' => Counts(v, o, u)
    OBVIOUS
  <2>1. pc'[v] = pc[v] /\ job'[v] = job[v] /\ uids'[v] = uids[v]
    OBVIOUS
  <2> QED
    BY <2>1 DEF Serves, Counts
<1>2. (InQueue(o, u)' <=> InQueue(o, u)) /\ (QueuedOnce(o, u)' <=> QueuedOnce(o, u))
      /\ (InTopic(o)' <=> InTopic(o))
  BY DEF InQueue, QueuedOnce, InTopic
<1> QED
  BY <1>1, <1>2 DEF Once, Pending, ToCount

\* A step that leaves the workers alone and adds nothing for (o, u).
LEMMA QueueStays ==
  ASSUME NEW o, NEW u, Once(o, u), UNCHANGED <<pc, job, uids>>,
         InTopic(o)' => InTopic(o), InQueue(o, u)' => InQueue(o, u), QueuedOnce(o, u)'
  PROVE  /\ Once(o, u)'
         /\ Pending(o, u)' => Pending(o, u)
         /\ ToCount(o, u)' => ToCount(o, u)
<1>1. \A v \in Workers : /\ Serves(v, o, u)' <=> Serves(v, o, u)
                         /\ Counts(v, o, u)' <=> Counts(v, o, u)
  BY DEF Serves, Counts
<1> QED
  BY <1>1 DEF Once, Pending, ToCount

\* Nobody has anything to do after a restart but what is in the topic.
LEMMA ForgetOnce ==
  ASSUME Forget, NEW o, NEW u
  PROVE  /\ Once(o, u)'
         /\ Pending(o, u)' <=> committed <= o
         /\ ToCount(o, u)' <=> committed <= o
<1>1. tasks_' = <<>> /\ position' = committed /\ \A w \in Workers : pc'[w] = "idle"
  BY DEF Forget, Restarted
<1>2. \A w \in Workers : ~Serves(w, o, u)' /\ ~Counts(w, o, u)'
  BY <1>1 DEF Serves, Counts
<1>3. ~InQueue(o, u)' /\ QueuedOnce(o, u)' /\ (InTopic(o)' <=> committed <= o)
  BY <1>1 DEF InQueue, QueuedOnce, InTopic
<1> QED
  BY <1>2, <1>3 DEF Once, Pending, ToCount

LEMMA DequeueStays ==
  ASSUME Typed, NEW w \in Workers, Dequeue(w), NEW o, NEW u, Once(o, u)
  PROVE  /\ Once(o, u)'
         /\ Pending(o, u)' => Pending(o, u)
         /\ ToCount(o, u)' => ToCount(o, u)
<1> DEFINE t == Head(tasks_)
<1>1. tasks_ \in Seq(Queued) /\ tasks_ # <<>> /\ tasks_' = Tail(tasks_) /\ position' = position
  BY DEF Typed, Dequeue
<1>2. /\ InQueue(o, u)' => InQueue(o, u)
      /\ Carries(t, o, u) => InQueue(o, u)
      /\ QueuedOnce(o, u) => QueuedOnce(o, u)'
      /\ QueuedOnce(o, u) /\ Carries(t, o, u) => ~InQueue(o, u)'
  BY <1>1, CarriedTail
<1>3. InTopic(o)' <=> InTopic(o)
  BY <1>1 DEF InTopic
<1>4. CASE t.do \in {"error", "delete"}
  <2>1. UNCHANGED <<pc, job, uids>>
    BY <1>4 DEF Dequeue, wvars
  <2> QED
    BY <1>2, <1>3, <2>1, QueueStays DEF Once
<1>5. CASE t.do \notin {"error", "delete"}
  <2>1. /\ t.do \in {"handle", "member"} /\ job' = [job EXCEPT ![w] = t] /\ uids' = uids
        /\ pc' = [pc EXCEPT ![w] = IF t.do = "handle" THEN "handle" ELSE "incr"]
        /\ pc[w] = "idle"
    BY <1>5 DEF Dequeue, Goto, wvars
  <2> HIDE DEF t
  <2>2. \A v \in Workers \ {w} : pc'[v] = pc[v] /\ job'[v] = job[v] /\ uids'[v] = uids[v]
    BY <2>1 DEF Typed
  <2>3. job'[w] = t /\ pc'[w] = IF t.do = "handle" THEN "handle" ELSE "incr"
    BY <2>1 DEF Typed
  <2>4. (Serves(w, o, u)' <=> Carries(t, o, u)) /\ (Counts(w, o, u)' <=> Carries(t, o, u))
    BY <2>1, <2>3 DEF Serves, Counts, Carries
  <2>5. \A v \in Workers \ {w} : /\ Serves(v, o, u)' <=> Serves(v, o, u)
                                 /\ Counts(v, o, u)' <=> Counts(v, o, u)
    BY <2>2 DEF Serves, Counts
  <2> QED
    BY <1>2, <1>3, <2>4, <2>5 DEF Once, Pending, ToCount
<1> QED
  BY <1>4, <1>5

LEMMA FanOutStays ==
  ASSUME Typed, Typed', NEW w \in Workers, FanOut(w), NEW o \in Offsets, NEW u \in Users, Once(o, u)
  PROVE  /\ Once(o, u)'
         /\ Pending(o, u)' => Pending(o, u)
         /\ ToCount(o, u)' => ToCount(o, u)
<1>1. /\ pc[w] = "fan" /\ position' = position
      /\ \A v \in Workers \ {w} : pc'[v] = pc[v] /\ job'[v] = job[v] /\ uids'[v] = uids[v]
  BY DEF FanOut, Return, Goto, Typed
<1>2. InTopic(o)' <=> InTopic(o)
  BY <1>1 DEF InTopic
<1>3. \A v \in Workers \ {w} : /\ Serves(v, o, u)' <=> Serves(v, o, u)
                               /\ Counts(v, o, u)' <=> Counts(v, o, u)
  BY <1>1 DEF Serves, Counts
<1>4. CASE UNCHANGED tasks_ /\ Return(w)
  <2>1. pc'[w] = "idle"
    BY <1>4 DEF Return, Goto, Typed
  <2>2. ~Serves(w, o, u)' /\ ~Counts(w, o, u)'
    BY <2>1 DEF Serves, Counts
  <2>3. (InQueue(o, u)' <=> InQueue(o, u)) /\ (QueuedOnce(o, u)' <=> QueuedOnce(o, u))
    BY <1>4 DEF InQueue, QueuedOnce
  <2> QED
    BY <1>2, <1>3, <2>2, <2>3 DEF Once, Pending, ToCount
<1>5. ASSUME NEW m \in uids[w],
             tasks_' = Append(tasks_, Task("member", job[w].msg, m, 0)),
             uids' = [uids EXCEPT ![w] = @ \ {m}], UNCHANGED <<pc, job>>
      PROVE  /\ Once(o, u)'
             /\ Pending(o, u)' => Pending(o, u)
             /\ ToCount(o, u)' => ToCount(o, u)
  <2>1. PICK g \in Offsets : g = job[w].msg
    BY <1>1 DEF Typed
  <2>2. PICK t : t = Task("member", g, m, 0)
    OBVIOUS
  <2>3. m \in Users /\ Len(Topic) \in Nat
    BY <1>5, TopicAssumption DEF Typed
  <2>4. t \in Queued /\ (Carries(t, o, u) <=> o = g /\ u = m)
    BY <2>1, <2>2, <2>3 DEF Task, Queued, AnyTask, Offsets, Carries
  <2>5. /\ InQueue(o, u)' <=> InQueue(o, u) \/ Carries(t, o, u)
        /\ QueuedOnce(o, u) /\ ~(InQueue(o, u) /\ Carries(t, o, u)) => QueuedOnce(o, u)'
    BY <1>5, <2>1, <2>2, <2>4, CarriedAppend DEF Typed
  <2>6. pc'[w] = "fan" /\ job'[w].msg = g /\ uids'[w] = uids[w] \ {m}
    BY <1>1, <1>5, <2>1 DEF Typed
  <2>7. /\ Serves(w, o, u) <=> o = g /\ u \in uids[w]
        /\ Counts(w, o, u) <=> o = g /\ u \in uids[w]
        /\ Serves(w, o, u)' <=> o = g /\ u \in uids[w] /\ u # m
        /\ Counts(w, o, u)' <=> o = g /\ u \in uids[w] /\ u # m
    BY <1>1, <2>1, <2>6 DEF Serves, Counts
  <2> QED
    BY <1>2, <1>3, <1>5, <2>4, <2>5, <2>7 DEF Once, Pending, ToCount
<1> QED
  BY <1>4, <1>5 DEF FanOut

LEMMA ConsumeStays ==
  ASSUME Typed, Committed, RunConsume, NEW o \in Offsets, NEW u \in Users, Once(o, u)
  PROVE  /\ Once(o, u)'
         /\ Pending(o, u)' => Pending(o, u)
         /\ ToCount(o, u)' => ToCount(o, u)
<1>1. PICK p : p = position
  OBVIOUS
<1> DEFINE t == Task("handle", p, NoUser, 0)
<1>2. /\ p \in Offsets /\ position' = p + 1 /\ tasks_' = Append(tasks_, t)
      /\ UNCHANGED <<pc, job, uids>>
  BY <1>1 DEF RunConsume, Consume, wvars
<1>3. Len(Topic) \in Nat /\ p \in Nat /\ o \in Nat
  BY <1>2, TopicAssumption DEF Offsets
<1>4. t \in Queued /\ (Carries(t, o, u) <=> o = p)
  BY <1>2, <1>3 DEF Task, Queued, AnyTask, Offsets, Carries
<1> HIDE DEF t
<1>5. /\ InQueue(o, u)' <=> InQueue(o, u) \/ Carries(t, o, u)
      /\ QueuedOnce(o, u) /\ ~(InQueue(o, u) /\ Carries(t, o, u)) => QueuedOnce(o, u)'
  BY <1>2, <1>4, CarriedAppend DEF Typed
<1>6. InTopic(o)' <=> InTopic(o) /\ o # p
  BY <1>1, <1>2, <1>3 DEF InTopic
<1>7. o = p => InTopic(o)
  BY <1>1, <1>3 DEF InTopic
<1>8. \A v \in Workers : /\ Serves(v, o, u)' <=> Serves(v, o, u)
                         /\ Counts(v, o, u)' <=> Counts(v, o, u)
  BY <1>2 DEF Serves, Counts
<1> QED
  BY <1>4, <1>5, <1>6, <1>7, <1>8 DEF Once, Pending, ToCount

\* Without a crash nobody is served again: what is pending was pending.
LEMMA OnceStays ==
  ASSUME Typed, Committed, [Next]_vars, ~Crash, NEW o \in Offsets, NEW u \in Users, Once(o, u)
  PROVE  /\ Once(o, u)'
         /\ Pending(o, u)' => Pending(o, u)
         /\ ToCount(o, u)' => ToCount(o, u)
<1> DEFINE Goal == /\ Once(o, u)'
                   /\ Pending(o, u)' => Pending(o, u)
                   /\ ToCount(o, u)' => ToCount(o, u)
<1> USE DEF consumervars, wvars, cassvars
<1>t. tasks_ \in Seq(Queued) /\ Len(Topic) \in Nat
  BY TopicAssumption DEF Typed
<1>q. QueuedOnce(o, u)
  BY DEF Once
<1>1. CASE RunConsume
  BY <1>1, ConsumeStays
<1>2. CASE UNCHANGED <<position, tasks_, pc, job, uids>>
  <2>1. /\ InTopic(o)' <=> InTopic(o)
        /\ InQueue(o, u)' <=> InQueue(o, u)
        /\ QueuedOnce(o, u)' <=> QueuedOnce(o, u)
    BY <1>2 DEF InTopic, InQueue, QueuedOnce
  <2> QED
    BY <1>2, <1>q, <2>1, QueueStays
<1>3. ASSUME NEW t \in {Task("error", 0, NoUser, 0), Task("delete", 0, NoUser, 0)},
             tasks_' = Append(tasks_, t), UNCHANGED <<position, pc, job, uids>>
      PROVE  Goal
  <2>1. t \in Queued /\ ~Carries(t, o, u)
    BY <1>3, <1>t DEF Task, Queued, AnyTask, Carries
  <2>2. (InQueue(o, u)' <=> InQueue(o, u)) /\ QueuedOnce(o, u)'
    BY <1>3, <1>t, <1>q, <2>1, CarriedAppend
  <2>3. InTopic(o)' <=> InTopic(o)
    BY <1>3 DEF InTopic
  <2> QED
    BY <1>3, <2>2, <2>3, QueueStays
<1>4. CASE Restart
  <2>1. Forget /\ committed = position
    BY <1>4 DEF Restart, Committed
  <2>2. committed <= o <=> InTopic(o)
    BY <2>1 DEF InTopic
  <2> QED
    BY <2>1, <2>2, ForgetOnce DEF Pending, ToCount
<1>5. ASSUME NEW w \in Workers, Work(w) PROVE Goal
  <2>1. CASE Dequeue(w)
    BY <2>1, DequeueStays
  <2>2. CASE FanOut(w)
    BY <2>2, TypedNext, FanOutStays
  <2>3. CASE ~Dequeue(w) /\ ~FanOut(w)
    <3>1. UNCHANGED <<position, tasks_>>
      BY <1>5, <2>3
      DEF Work, HandleMessage, SelectMembers, SelectFails, Incr, IncrFails, WriteInbox, AsyncPush
    <3>2. \A v \in Workers \ {w} : pc'[v] = pc[v] /\ job'[v] = job[v] /\ uids'[v] = uids[v]
      BY <1>5, <2>3
      DEF Work, HandleMessage, SelectMembers, SelectFails, Incr, IncrFails, WriteInbox, AsyncPush, Goto, Return,
          Typed
    <3>3. (Serves(w, o, u)' => Serves(w, o, u)) /\ (Counts(w, o, u)' => Counts(w, o, u))
      <4>1. CASE Return(w) \/ WriteInbox(w)
        <5>1. pc'[w] \in {"idle", "push"}
          BY <4>1 DEF Return, WriteInbox, Goto, Typed
        <5> QED
          BY <5>1 DEF Serves, Counts
      <4>2. CASE HandleMessage(w) /\ ~Return(w)
        <5>1. pc[w] = "handle" /\ job'[w].msg = job[w].msg
          BY <4>2 DEF HandleMessage, Typed, AnyTask
        <5>2. pc'[w] \in {"select", "incr"}
          BY <4>2 DEF HandleMessage, Goto, Typed
        <5> QED
          BY <5>1, <5>2 DEF Serves, Counts
      <4>3. CASE Incr(w)
        <5>1. /\ pc[w] = "incr" /\ pc'[w] = "inbox"
              /\ job'[w].msg = job[w].msg /\ job'[w].uid = job[w].uid
          BY <4>3 DEF Incr, Goto, Typed, AnyTask
        <5> QED
          BY <5>1 DEF Serves, Counts
      <4>4. CASE SelectMembers(w)
        <5>1. pc[w] = "select" /\ pc'[w] = "fan" /\ job' = job
          BY <4>4 DEF SelectMembers, Goto, Typed
        <5> QED
          BY <5>1 DEF Serves, Counts
      <4> QED
        BY <1>5, <2>3, <4>1, <4>2, <4>3, <4>4
        DEF Work, SelectFails, IncrFails, AsyncPush
    <3> QED
      BY <3>1, <3>2, <3>3, WorkerStays
  <2> QED
    BY <2>1, <2>2, <2>3
<1>6. \/ RunConsumeError
      \/ \E p \in pushes : PushOk(p)
      => /\ UNCHANGED <<position, pc, job, uids>>
         /\ \E t \in {Task("error", 0, NoUser, 0), Task("delete", 0, NoUser, 0)} :
              tasks_' = Append(tasks_, t)
  BY DEF RunConsumeError, ConsumeError, PushOk
<1>7. \/ RunAutoCommit \/ RunClose \/ WriteFails \/ UNCHANGED vars
      \/ \E m \in msgwrites : WriteMessageOk(m)
      \/ \E x \in boxwrites : WriteInboxOk(x)
      \/ \E p \in pushes : PushFails(p)
      => UNCHANGED <<position, tasks_, pc, job, uids>>
  BY DEF RunAutoCommit, AutoCommit, RunClose, Close, WriteFails, WriteMessageOk, WriteInboxOk,
         PushFails, vars
<1> QED
  BY <1>1, <1>2, <1>3, <1>4, <1>5, <1>6, <1>7 DEF Next, Complete

OnceInv == \A o \in Offsets, u \in Users : Once(o, u)

LEMMA OnceInit == Init => OnceInv
<1> SUFFICES ASSUME Init, NEW o \in Offsets, NEW u \in Users PROVE Once(o, u)
  BY DEF OnceInv
<1>1. \A w \in Workers : ~Serves(w, o, u)
  BY DEF Init, Serves, Counts
<1>2. ~InQueue(o, u) /\ QueuedOnce(o, u)
  BY DEF Init, ConsumerInit, InQueue, QueuedOnce
<1> QED
  BY <1>1, <1>2 DEF Once

LEMMA OnceNext == Typed /\ Committed /\ OnceInv /\ [Next]_vars => OnceInv'
<1> SUFFICES ASSUME Typed, Committed, OnceInv, [Next]_vars, NEW o \in Offsets, NEW u \in Users
             PROVE  Once(o, u)'
  BY DEF OnceInv
<1>1. CASE Crash
  BY <1>1, ForgetOnce DEF Crash
<1>2. CASE ~Crash
  BY <1>2, OnceStays DEF OnceInv
<1> QED
  BY <1>1, <1>2

\* Who has taken the seq, and who has written the inbox, was the only one to do
\* so.
LEMMA ServedOnce ==
  ASSUME Typed, NEW w \in Workers, NEW o \in Offsets, NEW u \in Users, Once(o, u),
         o = job[w].msg, u = job[w].uid
  PROVE  /\ WriteInbox(w) => Pending(o, u) /\ ~Pending(o, u)'
         /\ Incr(w) \/ IncrFails(w) => ToCount(o, u) /\ ~ToCount(o, u)'
<1>1. ASSUME WriteInbox(w) \/ Incr(w) \/ IncrFails(w)
      PROVE  /\ UNCHANGED <<position, tasks_>>
             /\ \A v \in Workers \ {w} : pc'[v] = pc[v] /\ job'[v] = job[v] /\ uids'[v] = uids[v]
  BY <1>1 DEF WriteInbox, Incr, IncrFails, Goto, Return, Typed, consumervars
<1>2. ASSUME WriteInbox(w) \/ Incr(w) \/ IncrFails(w), Serves(w, o, u)
      PROVE  /\ ~InTopic(o)' /\ ~InQueue(o, u)'
             /\ \A v \in Workers \ {w} : ~Serves(v, o, u)' /\ ~Counts(v, o, u)'
  <2>1. ~InTopic(o) /\ ~InQueue(o, u) /\ \A v \in Workers \ {w} : ~Serves(v, o, u)
    BY <1>2 DEF Once
  <2>2. ~InTopic(o)' /\ ~InQueue(o, u)'
    BY <1>1, <1>2, <2>1 DEF InTopic, InQueue
  <2>3. \A v \in Workers \ {w} : ~Serves(v, o, u)'
    BY <1>1, <1>2, <2>1 DEF Serves, Counts
  <2> QED
    BY <2>2, <2>3 DEF Serves
<1>3. WriteInbox(w) => Serves(w, o, u) /\ ~Serves(w, o, u)'
  BY DEF WriteInbox, Serves, Counts, Goto, Typed
<1>4. Incr(w) \/ IncrFails(w) => Counts(w, o, u) /\ ~Counts(w, o, u)'
  BY DEF Incr, IncrFails, Counts, Goto, Return, Typed
<1>5. Counts(w, o, u) => Serves(w, o, u)
  BY DEF Serves
<1> QED
  BY <1>2, <1>3, <1>4, <1>5 DEF Pending, ToCount

-----------------------------------------------------------------------------
(***************************************************************************)
(* Copies in the inbox: one, and one more for each fault.                   *)
(***************************************************************************)

\* The rows of message o for user u, stored or on their way.
Copies(o, u) == {r \in inbox \cup boxwrites : r.msg = o /\ r.uid = u}

CopyInv ==
  \A o \in Offsets, u \in Users :
    /\ IsFiniteSet(Copies(o, u))
    /\ Cardinality(Copies(o, u)) + (IF Pending(o, u) THEN 1 ELSE 0) <= 1 + faults

LEMMA CopiesSteps ==
  ASSUME Typed, [Next]_vars, NEW o \in Offsets, NEW u \in Users
  PROVE  \/ Copies(o, u)' \subseteq Copies(o, u)
         \/ \E w \in Workers : /\ WriteInbox(w) /\ job[w].msg = o /\ job[w].uid = u
                               /\ Copies(o, u)' \subseteq Copies(o, u) \cup {InHand(w)}
<1> USE DEF consumervars, wvars, cassvars
<1>1. ASSUME inbox' \cup boxwrites' \subseteq inbox \cup boxwrites
      PROVE  Copies(o, u)' \subseteq Copies(o, u)
  BY <1>1 DEF Copies
<1>2. ASSUME NEW w \in Workers, WriteInbox(w)
      PROVE  \/ Copies(o, u)' \subseteq Copies(o, u)
             \/ /\ job[w].msg = o /\ job[w].uid = u
                /\ Copies(o, u)' \subseteq Copies(o, u) \cup {InHand(w)}
  <2>1. inbox' \cup boxwrites' = inbox \cup boxwrites \cup {InHand(w)}
    BY <1>2 DEF WriteInbox, InHand
  <2>2. InHand(w).msg = job[w].msg /\ InHand(w).uid = job[w].uid
    BY DEF InHand, Row
  <2> QED
    BY <2>1, <2>2 DEF Copies
<1>3. ASSUME NEW w \in Workers, Work(w), ~WriteInbox(w) PROVE UNCHANGED <<inbox, boxwrites>>
  BY <1>3 DEF Work, Dequeue, OnPushSuccess, HandleMessage, SelectMembers, SelectFails, FanOut, Incr, IncrFails,
              AsyncPush
<1>4. Complete => inbox' \cup boxwrites' \subseteq inbox \cup boxwrites
  BY DEF Complete, WriteMessageOk, WriteInboxOk, WriteFails, PushOk, PushFails
<1>5. RunConsume \/ RunConsumeError \/ RunAutoCommit \/ RunClose \/ UNCHANGED vars
        => UNCHANGED <<inbox, boxwrites>>
  BY DEF RunConsume, RunConsumeError, RunAutoCommit, RunClose, vars
<1>6. Restart \/ Crash => inbox' \cup boxwrites' \subseteq inbox \cup boxwrites
  BY DEF Restart, Crash, Forget
<1> QED
  BY <1>1, <1>2, <1>3, <1>4, <1>5, <1>6 DEF Next

LEMMA CopyInit == Init => CopyInv
<1> SUFFICES ASSUME Init, NEW o \in Offsets, NEW u \in Users
             PROVE  /\ IsFiniteSet(Copies(o, u))
                    /\ Cardinality(Copies(o, u)) + (IF Pending(o, u) THEN 1 ELSE 0) <= 1 + faults
  BY DEF CopyInv
<1>1. Copies(o, u) = {} /\ faults = 0
  BY DEF Init, ConsumerInit, Copies
<1> QED
  BY <1>1, FS_EmptySet

LEMMA CopyNext == Typed /\ Committed /\ OnceInv /\ CopyInv /\ [Next]_vars => CopyInv'
<1> SUFFICES ASSUME Typed, Committed, OnceInv, CopyInv, [Next]_vars,
                    NEW o \in Offsets, NEW u \in Users
             PROVE  /\ IsFiniteSet(Copies(o, u)')
                    /\ Cardinality(Copies(o, u)') + (IF Pending(o, u)' THEN 1 ELSE 0) <= 1 + faults'
  BY DEF CopyInv
<1> DEFINE c == Cardinality(Copies(o, u))
<1>1. /\ IsFiniteSet(Copies(o, u)) /\ c \in Nat
      /\ c + (IF Pending(o, u) THEN 1 ELSE 0) <= 1 + faults
  BY FS_CardinalityType DEF CopyInv
<1>2. faults \in Nat /\ faults' \in Nat /\ faults <= faults' /\ (Crash => faults' = faults + 1)
  BY FaultsGrow
<1>3. CASE Copies(o, u)' \subseteq Copies(o, u)
  <2>1. /\ IsFiniteSet(Copies(o, u)') /\ Cardinality(Copies(o, u)') \in Nat
        /\ Cardinality(Copies(o, u)') <= c
    BY <1>1, <1>3, FS_Subset, FS_CardinalityType
  <2>2. CASE Crash
    BY <1>1, <1>2, <2>1, <2>2
  <2>3. CASE ~Crash
    <3>1. Pending(o, u)' => Pending(o, u)
      BY <2>3, OnceStays DEF OnceInv
    <3> QED
      BY <1>1, <1>2, <2>1, <3>1
  <2> QED
    BY <2>2, <2>3
<1>4. ASSUME NEW w \in Workers, WriteInbox(w), job[w].msg = o, job[w].uid = u,
             Copies(o, u)' \subseteq Copies(o, u) \cup {InHand(w)}
      PROVE  /\ IsFiniteSet(Copies(o, u)')
             /\ Cardinality(Copies(o, u)') + (IF Pending(o, u)' THEN 1 ELSE 0) <= 1 + faults'
  <2>1. Pending(o, u) /\ ~Pending(o, u)'
    BY <1>4, ServedOnce DEF OnceInv
  <2>2. /\ IsFiniteSet(Copies(o, u) \cup {InHand(w)})
        /\ Cardinality(Copies(o, u) \cup {InHand(w)}) \in Nat
        /\ Cardinality(Copies(o, u) \cup {InHand(w)}) <= c + 1
    <3>1. PICK x : x = InHand(w)
      OBVIOUS
    <3>2. /\ IsFiniteSet(Copies(o, u) \cup {x})
          /\ Cardinality(Copies(o, u) \cup {x}) =
               IF x \in Copies(o, u) THEN Cardinality(Copies(o, u)) ELSE Cardinality(Copies(o, u)) + 1
      BY <1>1, FS_AddElement
    <3> QED
      BY <1>1, <3>1, <3>2
  <2>3. /\ IsFiniteSet(Copies(o, u)') /\ Cardinality(Copies(o, u)') \in Nat
        /\ Cardinality(Copies(o, u)') <= Cardinality(Copies(o, u) \cup {InHand(w)})
    BY <1>4, <2>2, FS_Subset, FS_CardinalityType
  <2> QED
    BY <1>1, <1>2, <2>1, <2>2, <2>3
<1> QED
  BY <1>3, <1>4, CopiesSteps

\* A message reaches an inbox once, and once more for each fault at most: the
\* topic, the queue and the workers of the pool never hold it twice for a user,
\* however its group was fanned out and wherever a crash interrupted it.
THEOREM CopiesBoundedCorrect == Spec => []CopiesBounded
<1>1. Committed /\ CopyInv => CopiesBounded
  <2> SUFFICES ASSUME Committed, CopyInv, NEW o \in Offsets, NEW u \in Users
               PROVE  Cardinality({r \in inbox : r.msg = o /\ r.uid = u}) <= 1 + faults
    BY DEF CopiesBounded
  <2> DEFINE S == {r \in inbox : r.msg = o /\ r.uid = u}
  <2>1. /\ IsFiniteSet(Copies(o, u)) /\ Cardinality(Copies(o, u)) \in Nat
        /\ Cardinality(Copies(o, u)) + (IF Pending(o, u) THEN 1 ELSE 0) <= 1 + faults
        /\ faults \in Nat
    <3>1. faults \in Nat
      BY ConsumerAssumption DEF Committed
    <3> QED
      BY <3>1, FS_CardinalityType DEF CopyInv
  <2>2. S \in SUBSET Copies(o, u)
    BY DEF Copies
  <2> HIDE DEF S
  <2>3. IsFiniteSet(S) /\ Cardinality(S) \in Nat /\ Cardinality(S) <= Cardinality(Copies(o, u))
    BY <2>1, <2>2, FS_Subset, FS_CardinalityType
  <2>4. Cardinality(S) <= 1 + faults
    BY <2>1, <2>3
  <2> QED
    BY <2>4 DEF S
<1> QED
  BY <1>1, TypedInit, TypedNext, CommittedInit, CommittedNext, OnceInit, OnceNext, CopyInit, CopyNext,
     PTL DEF Spec

-----------------------------------------------------------------------------
(***************************************************************************)
(* Seqs: a user gets at most one for each message of the topic, and as many *)
(* again for each fault.                                                    *)
(***************************************************************************)

\* The messages that may still take a seq of user u.
Uncounted(u) == {o \in Offsets : ToCount(o, u)}

CountInv ==
  \A u \in Users : seqs[u] + Cardinality(Uncounted(u)) <= Len(Topic) * (faults + 1)

LEMMA UncountedFinite ==
  ASSUME NEW S \in SUBSET Offsets
  PROVE  IsFiniteSet(S) /\ Cardinality(S) \in Nat /\ Cardinality(S) <= Len(Topic)
<1>1. Len(Topic) \in Nat /\ Len(Topic) \in Int /\ 1 \in Int
  BY TopicAssumption
<1>2. IsFiniteSet(Offsets) /\ Cardinality(Offsets) = Len(Topic)
  BY <1>1, FS_Interval DEF Offsets
<1> QED
  BY <1>2, FS_Subset, FS_CardinalityType

LEMMA ProductGrows ==
  ASSUME NEW m \in Nat, NEW a \in Nat, NEW b \in Nat, a <= b
  PROVE  /\ m * (a + 1) \in Nat /\ m * (a + 1) <= m * (b + 1)
         /\ m * (a + 1 + 1) = m * (a + 1) + m
<1>1. PICK d \in Nat : b = a + d
  <2>1. b - a \in Nat /\ b = a + (b - a)
    OBVIOUS
  <2> QED
    BY <2>1
<1>2. m * (b + 1) = m * (a + 1) + m * d /\ m * d \in Nat /\ m * (a + 1) \in Nat
  BY <1>1
<1> QED
  BY <1>2

\* A seq is taken by a worker that had yet to take it.
LEMMA SeqSteps ==
  ASSUME Typed, [Next]_vars, NEW u \in Users
  PROVE  \/ seqs'[u] = seqs[u]
         \/ \E w \in Workers : /\ Incr(w) \/ IncrFails(w)
                               /\ job[w].uid = u /\ job[w].msg \in Offsets
                               /\ seqs'[u] = seqs[u] + 1
<1> USE DEF consumervars, wvars, cassvars
<1>1. ASSUME NEW w \in Workers, Incr(w) \/ IncrFails(w)
      PROVE  \/ seqs'[u] = seqs[u]
             \/ job[w].uid = u /\ job[w].msg \in Offsets /\ seqs'[u] = seqs[u] + 1
  <2>1. job[w].msg \in Offsets
    BY <1>1 DEF Incr, IncrFails, Typed
  <2>2. UNCHANGED seqs \/ seqs' = [seqs EXCEPT ![job[w].uid] = seqs[job[w].uid] + 1]
    BY <1>1 DEF Incr, IncrFails
  <2> QED
    BY <2>1, <2>2 DEF Typed
<1>2. ASSUME NEW w \in Workers, Work(w), ~Incr(w), ~IncrFails(w) PROVE UNCHANGED seqs
  BY <1>2 DEF Work, Dequeue, HandleMessage, SelectMembers, SelectFails, FanOut, WriteInbox, AsyncPush
<1>3. Complete => UNCHANGED seqs
  BY DEF Complete, WriteMessageOk, WriteInboxOk, WriteFails, PushOk, PushFails
<1>4. RunConsume \/ RunConsumeError \/ RunAutoCommit \/ RunClose \/ UNCHANGED vars => UNCHANGED seqs
  BY DEF RunConsume, RunConsumeError, RunAutoCommit, RunClose, vars
<1>5. Restart \/ Crash => UNCHANGED seqs
  BY DEF Restart, Crash, Forget
<1> QED
  BY <1>1, <1>2, <1>3, <1>4, <1>5 DEF Next

LEMMA CountInit == Init => CountInv
<1> SUFFICES ASSUME Init, NEW u \in Users
             PROVE  seqs[u] + Cardinality(Uncounted(u)) <= Len(Topic) * (faults + 1)
  BY DEF CountInv
<1>1. seqs[u] = 0 /\ faults = 0
  BY DEF Init, ConsumerInit
<1>2. Cardinality(Uncounted(u)) \in Nat /\ Cardinality(Uncounted(u)) <= Len(Topic)
  BY UncountedFinite DEF Uncounted
<1>3. Len(Topic) \in Nat
  BY TopicAssumption
<1> QED
  BY <1>1, <1>2, <1>3

LEMMA CountNext == Typed /\ Committed /\ OnceInv /\ CountInv /\ [Next]_vars => CountInv'
<1> SUFFICES ASSUME Typed, Committed, OnceInv, CountInv, [Next]_vars, NEW u \in Users
             PROVE  seqs'[u] + Cardinality(Uncounted(u)') <= Len(Topic) * (faults' + 1)
  BY DEF CountInv
<1> DEFINE c == Cardinality(Uncounted(u))
           d == Cardinality(Uncounted(u)')
           n == Len(Topic)
<1>0. Uncounted(u) \in SUBSET Offsets /\ Uncounted(u)' \in SUBSET Offsets
  BY DEF Uncounted
<1>1. /\ IsFiniteSet(Uncounted(u)) /\ c \in Nat /\ d \in Nat /\ d <= n /\ n \in Nat
      /\ seqs[u] \in Nat /\ seqs[u] + c <= n * (faults + 1)
  BY <1>0, UncountedFinite, TopicAssumption DEF CountInv, Typed
<1>2. faults \in Nat /\ faults' \in Nat /\ faults <= faults' /\ (Crash => faults' = faults + 1)
  BY FaultsGrow
<1>3. /\ n * (faults + 1) \in Nat /\ n * (faults' + 1) \in Nat
      /\ n * (faults + 1) <= n * (faults' + 1)
      /\ Crash => n * (faults' + 1) = n * (faults + 1) + n
  BY <1>1, <1>2, ProductGrows
<1>4. CASE Crash
  <2>1. seqs'[u] = seqs[u]
    BY <1>4 DEF Crash, Forget
  <2> HIDE DEF c, d, n
  <2> QED
    BY <1>1, <1>3, <1>4, <2>1 DEF d, n
<1>5. CASE ~Crash
  <2>1. Uncounted(u)' \subseteq Uncounted(u)
    BY <1>5, OnceStays DEF Uncounted, OnceInv
  <2>2. CASE seqs'[u] = seqs[u]
    <3>1. d <= c
      BY <1>1, <2>1, FS_Subset
    <3> HIDE DEF c, d, n
    <3> QED
      BY <1>1, <1>3, <2>2, <3>1 DEF d, n
  <2>3. ASSUME NEW w \in Workers, Incr(w) \/ IncrFails(w),
               job[w].uid = u, job[w].msg \in Offsets, seqs'[u] = seqs[u] + 1
        PROVE  seqs'[u] + d <= n * (faults' + 1)
    <3>1. PICK o \in Offsets : o = job[w].msg
      BY <2>3
    <3>2. ToCount(o, u) /\ ~ToCount(o, u)'
      BY <2>3, <3>1, ServedOnce DEF OnceInv
    <3>3. o \in Uncounted(u) /\ Uncounted(u)' \in SUBSET (Uncounted(u) \ {o})
      BY <2>1, <3>2 DEF Uncounted
    <3>4. /\ IsFiniteSet(Uncounted(u) \ {o})
          /\ Cardinality(Uncounted(u) \ {o}) = c - 1
      BY <1>1, <3>3, FS_RemoveElement
    <3>5. d <= c - 1
      BY <3>3, <3>4, FS_Subset
    <3> HIDE DEF c, d, n
    <3> QED
      BY <1>1, <1>3, <2>3, <3>5
  <2> QED
    BY <2>2, <2>3, SeqSteps
<1> QED
  BY <1>4, <1>5

\* Types, with the bound of the seqs: Redis hands out no more of them to a user
\* than messages of the topic times deliveries, one and one more for each fault.
THEOREM TypeCorrect == Spec => []TypeOK
<1>1. Typed /\ Committed /\ SeqInv /\ CountInv => TypeOK
  <2> SUFFICES ASSUME Typed, Committed, SeqInv, CountInv PROVE TypeOK
    OBVIOUS
  <2>1. \A u \in Users : seqs[u] \in 0..MaxSeq
    <3> SUFFICES ASSUME NEW u \in Users PROVE seqs[u] \in 0..MaxSeq
      OBVIOUS
    <3>1. /\ seqs[u] \in Nat /\ Len(Topic) \in Nat /\ faults \in Nat /\ MaxFaults \in Nat
          /\ faults <= MaxFaults
      BY TopicAssumption, ConsumerAssumption DEF Typed, Committed
    <3>2. Cardinality(Uncounted(u)) \in Nat
      BY UncountedFinite DEF Uncounted
    <3>3. /\ Len(Topic) * (faults + 1) \in Nat /\ Len(Topic) * (MaxFaults + 1) \in Nat
          /\ Len(Topic) * (faults + 1) <= Len(Topic) * (MaxFaults + 1)
      BY <3>1, ProductGrows
    <3>4. seqs[u] + Cardinality(Uncounted(u)) <= Len(Topic) * (faults + 1)
      BY DEF CountInv
    <3> QED
      BY <3>1, <3>2, <3>3, <3>4 DEF MaxSeq
  <2>2. MaxSeq \in Nat
    BY TopicAssumption, ConsumerAssumption DEF MaxSeq
  <2>3. Issued \subseteq Rows
    <3> SUFFICES ASSUME NEW x \in Issued PROVE x \in Rows
      OBVIOUS
    <3>1. x \in AnyRow /\ 1 <= x.seq /\ x.seq <= seqs[x.uid]
      BY IssuedRows DEF SeqInv, Below
    <3>2. x.uid \in Users /\ x.seq \in Nat /\ seqs[x.uid] \in 0..MaxSeq
      BY <2>1, <3>1 DEF AnyRow
    <3>3. x.seq \in 1..MaxSeq
      BY <2>2, <3>1, <3>2
    <3> QED
      BY <3>1, <3>3 DEF AnyRow, Rows
  <2>4. boxwrites \subseteq Rows /\ inbox \subseteq Rows /\ pushes \subseteq Rows /\ pushed \subseteq Rows
    BY <2>3 DEF Issued
  <2>5. seqs \in [Users -> 0..MaxSeq]
    BY <2>1 DEF Typed
  <2>6. \A i \in DOMAIN tasks_ : tasks_[i].do \in {"handle", "error", "member", "delete"}
    BY LenProperties, ElementOfSeq DEF Typed, Queued, AnyTask
  <2> QED
    BY <2>4, <2>5, <2>6 DEF Typed, Committed, TypeOK
<1> QED
  BY <1>1, TypedInit, TypedNext, CommittedInit, CommittedNext, OnceInit, OnceNext, SeqInit, SeqNext,
     CountInit, CountNext, PTL DEF Spec
=============================================================================
