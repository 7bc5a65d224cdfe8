------------------------- MODULE CassandraTransfer -------------------------
(***************************************************************************)
(* transfer/cassandra: for each message of the topic, write the message,    *)
(* take the next seq of every recipient from Redis, write the recipient's   *)
(* inbox and ask the push server to deliver.  A group message is fanned out *)
(* to one pool task per member.  The Cassandra statements are asynchronous: *)
(* they complete, or fail, after the handler has gone on.                   *)
(*                                                                          *)
(* The process may crash at any point; Redis and Cassandra survive, the     *)
(* pool and the calls in flight do not, and the consumer starts again at    *)
(* the committed offset.                                                    *)
(***************************************************************************)
EXTENDS KafkaConsumer

CONSTANTS Users,
          NoUser     \* no recipient yet

Kinds == {"user", "group", "bad"}

\* A record has one recipient, or is sent to a group with these members, or
\* does not parse (or has another key than its msgid).
ASSUME TopicAssumption ==
  /\ NoUser \notin Users /\ IsFiniteSet(Users)
  /\ Topic \in Seq([kind : Kinds, to : SUBSET Users])
  /\ \A o \in Offsets : Topic[o].kind = "user" => Cardinality(Topic[o].to) = 1

VARIABLES pc, job,   \* each worker: its next step, and the task it runs
          uids,      \* each worker: the members it has still to queue a task for
          seqs,      \* Redis: the field seq of each user
          msgwrites, \* Cassandra INSERTs in flight, into messages ...
          boxwrites, \* ... and into user_inbox
          messages,  \* ychat.messages: offsets
          inbox,     \* ychat.user_inbox: rows [uid, seq, msg]
          pushes,    \* Push calls in flight
          pushed     \* deliveries the push server confirmed

wvars == <<pc, job, uids>>
cassvars == <<msgwrites, boxwrites, messages, inbox>>
vars == <<consumervars, wvars, seqs, cassvars, pushes, pushed>>

Task(do, o, u, s) == [do |-> do, msg |-> o, uid |-> u, seq |-> s]
NoTask == Task("none", 0, NoUser, 0)
Row(u, s, o) == [uid |-> u, seq |-> s, msg |-> o]

MaxSeq == Len(Topic) * (MaxFaults + 1)
Rows == [uid : Users, seq : 1..MaxSeq, msg : Offsets]

TypeOK ==
  /\ position \in 1..Len(Topic) + 1 /\ committed \in 1..position
  /\ stop_ \in BOOLEAN /\ closed \in BOOLEAN
  /\ faults \in 0..MaxFaults
  /\ \A i \in DOMAIN tasks_ : tasks_[i].do \in {"handle", "error", "member", "delete"}
  /\ pc \in [Workers -> {"idle", "handle", "select", "fan", "incr", "inbox", "push"}]
  /\ uids \in [Workers -> SUBSET Users]
  /\ seqs \in [Users -> 0..MaxSeq]
  /\ msgwrites \subseteq Offsets /\ messages \subseteq Offsets
  /\ boxwrites \subseteq Rows /\ inbox \subseteq Rows
  /\ pushes \subseteq Rows /\ pushed \subseteq Rows

Init ==
  /\ ConsumerInit
  /\ pc = [w \in Workers |-> "idle"]
  /\ job = [w \in Workers |-> NoTask]
  /\ uids = [w \in Workers |-> {}]
  /\ seqs = [u \in Users |-> 0]
  /\ msgwrites = {} /\ boxwrites = {} /\ messages = {} /\ inbox = {}
  /\ pushes = {} /\ pushed = {}

Goto(w, place) == pc' = [pc EXCEPT ![w] = place]

\* The end of a task; the variables of its frame are gone.
Return(w) ==
  /\ Goto(w, "idle")
  /\ job' = [job EXCEPT ![w] = NoTask]
  /\ uids' = [uids EXCEPT ![w] = {}]

-----------------------------------------------------------------------------
(***************************************************************************)
(* The consumer and its restarts.                                           *)
(***************************************************************************)

RunConsume ==
  /\ Consume(Task("handle", position, NoUser, 0))
  /\ UNCHANGED <<wvars, seqs, cassvars, pushes, pushed>>

RunConsumeError ==
  /\ ConsumeError(Task("error", 0, NoUser, 0))
  /\ UNCHANGED <<wvars, seqs, cassvars, pushes, pushed>>

RunAutoCommit ==
  /\ AutoCommit
  /\ UNCHANGED <<wvars, seqs, cassvars, pushes, pushed>>

RunClose ==
  /\ Close
  /\ UNCHANGED <<wvars, seqs, cassvars, pushes, pushed>>

\* What a restart loses; statements in flight may or may not have been sent.
Forget ==
  /\ Restarted
  /\ pc' = [w \in Workers |-> "idle"]
  /\ job' = [w \in Workers |-> NoTask]
  /\ uids' = [w \in Workers |-> {}]
  /\ pushes' = {}
  /\ msgwrites' \in SUBSET msgwrites /\ boxwrites' \in SUBSET boxwrites
  /\ UNCHANGED <<seqs, messages, inbox, pushed>>

\* The loop has ended and the pool has drained; somebody starts the process
\* again.  (It may have to be killed: the destructor of PushClient joins a
\* thread that never ends.)
Restart ==
  /\ closed /\ tasks_ = <<>> /\ \A w \in Workers : pc[w] = "idle"
  /\ Forget
  /\ UNCHANGED faults

Crash ==
  /\ Fault("crash")
  /\ Forget

-----------------------------------------------------------------------------
(***************************************************************************)
(* The pool: Consumer::Consume, CassandraHandle and OnPushSuccess.          *)
(***************************************************************************)

Dequeue_Kept(w) ==
  /\ pc[w] = "idle" /\ tasks_ # <<>>
  /\ Head(tasks_).do \in {"handle", "member"}
  /\ job' = [job EXCEPT ![w] = Head(tasks_)]
  /\ Goto(w, IF Head(tasks_).do = "handle" THEN "handle" ELSE "incr")
  /\ UNCHANGED <<consumervars, uids, seqs, cassvars, pushes, pushed>>

\* The DELETE names a column user_id, which user_inbox does not have: the
\* statement fails, and the failure is logged.
OnPushSuccess == UNCHANGED cassvars

\* A worker takes a task.  That of a failed consume only sets stop_.
Dequeue(w) ==
  /\ pc[w] = "idle" /\ tasks_ # <<>>
  /\ tasks_' = Tail(tasks_)
  /\ LET task == Head(tasks_) IN
       \/ /\ task.do = "error"
          /\ stop_' = TRUE
          /\ UNCHANGED <<wvars, cassvars>>
       \/ /\ task.do = "delete"
          /\ OnPushSuccess
          /\ UNCHANGED <<stop_, wvars>>
       \/ /\ task.do \in {"handle", "member"}
          /\ job' = [job EXCEPT ![w] = task]
          /\ Goto(w, IF task.do = "handle" THEN "handle" ELSE "incr")
          /\ UNCHANGED <<stop_, uids, cassvars>>
  /\ UNCHANGED <<position, committed, closed, faults, seqs, pushes, pushed>>

\* Parse the message, check its key, start writing it.
HandleMessage(w) ==
  /\ pc[w] = "handle"
  /\ LET o == job[w].msg
         record == Topic[o]
     IN \/ /\ record.kind = "bad"
           /\ Return(w)
           /\ UNCHANGED msgwrites
        \/ /\ record.kind = "group"
           /\ msgwrites' = msgwrites \cup {o}
           /\ Goto(w, "select") /\ UNCHANGED <<job, uids>>
        \/ /\ record.kind = "user"
           /\ msgwrites' = msgwrites \cup {o}
           /\ \E u \in record.to : job' = [job EXCEPT ![w].uid = u]
           /\ Goto(w, "incr") /\ UNCHANGED uids
  /\ UNCHANGED <<consumervars, seqs, boxwrites, messages, inbox, pushes, pushed>>

\* SELECT the members of the group ...
SelectMembers(w) ==
  /\ pc[w] = "select"
  /\ uids' = [uids EXCEPT ![w] = Topic[job[w].msg].to]
  /\ Goto(w, "fan")
  /\ UNCHANGED <<consumervars, job, seqs, cassvars, pushes, pushed>>

\* ... and queue a task for each, one at a time, in the order MySQL has chosen.
FanOut(w) ==
  /\ pc[w] = "fan"
  /\ \/ \E u \in uids[w] :
          /\ tasks_' = Append(tasks_, Task("member", job[w].msg, u, 0))
          /\ uids' = [uids EXCEPT ![w] = @ \ {u}]
          /\ UNCHANGED <<pc, job>>
     \/ uids[w] = {} /\ Return(w) /\ UNCHANGED tasks_
  /\ UNCHANGED <<position, committed, stop_, closed, faults, seqs, cassvars, pushes, pushed>>

\* The query fails: the message stays without a reader.
SelectFails(w) ==
  /\ pc[w] = "select"
  /\ Fault("mysql")
  /\ Return(w)
  /\ UNCHANGED <<position, committed, stop_, closed, tasks_, seqs, cassvars, pushes, pushed>>

Incr_NotAtomic(w) ==
  /\ pc[w] = "incr"
  /\ job' = [job EXCEPT ![w].seq = seqs[job[w].uid] + 1]
  /\ Goto(w, "inbox")
  /\ UNCHANGED <<consumervars, uids, seqs, cassvars, pushes, pushed>>

\* HINCRBY seq 1: the next seq of the recipient.
Incr(w) ==
  /\ pc[w] = "incr"
  /\ LET u == job[w].uid IN
       /\ seqs' = [seqs EXCEPT ![u] = @ + 1]
       /\ job' = [job EXCEPT ![w].seq = seqs[u] + 1]
  /\ Goto(w, "inbox")
  /\ UNCHANGED <<consumervars, uids, cassvars, pushes, pushed>>

\* Redis throws, before or after it counted; the task's future swallows it.
IncrFails(w) ==
  /\ pc[w] = "incr"
  /\ Fault("redis")
  /\ \/ UNCHANGED seqs
     \/ seqs' = [seqs EXCEPT ![job[w].uid] = @ + 1]
  /\ Return(w)
  /\ UNCHANGED <<position, committed, stop_, closed, tasks_, cassvars, pushes, pushed>>

\* Start writing the inbox ...
WriteInbox(w) ==
  /\ pc[w] = "inbox"
  /\ boxwrites' = boxwrites \cup {Row(job[w].uid, job[w].seq, job[w].msg)}
  /\ Goto(w, "push")
  /\ UNCHANGED <<consumervars, job, uids, seqs, msgwrites, messages, inbox, pushes, pushed>>

AsyncPush_IfStored(w) ==
  /\ pc[w] = "push"
  /\ LET p == Row(job[w].uid, job[w].seq, job[w].msg)
     IN pushes' = IF p \in inbox THEN pushes \cup {p} ELSE pushes
  /\ Return(w)
  /\ UNCHANGED <<consumervars, seqs, cassvars, pushed>>

\* ... and start the push, without waiting for the write.
AsyncPush(w) ==
  /\ pc[w] = "push"
  /\ pushes' = pushes \cup {Row(job[w].uid, job[w].seq, job[w].msg)}
  /\ Return(w)
  /\ UNCHANGED <<consumervars, seqs, cassvars, pushed>>

-----------------------------------------------------------------------------
(***************************************************************************)
(* Cassandra (external) and PushClient::AsyncRpcComplete.                   *)
(***************************************************************************)

\* An INSERT is an upsert: it replaces the row with the same key.
WriteMessageOk(o) ==
  /\ o \in msgwrites
  /\ msgwrites' = msgwrites \ {o}
  /\ messages' = messages \cup {o}
  /\ UNCHANGED <<consumervars, wvars, seqs, boxwrites, inbox, pushes, pushed>>

WriteInboxOk(x) ==
  /\ x \in boxwrites
  /\ boxwrites' = boxwrites \ {x}
  /\ inbox' = {r \in inbox : r.uid # x.uid \/ r.seq # x.seq} \cup {x}
  /\ UNCHANGED <<consumervars, wvars, seqs, msgwrites, messages, pushes, pushed>>

\* The callback of a failed write only logs.
WriteFails ==
  /\ Fault("cassandra")
  /\ \/ \E o \in msgwrites : msgwrites' = msgwrites \ {o} /\ UNCHANGED boxwrites
     \/ \E x \in boxwrites : boxwrites' = boxwrites \ {x} /\ UNCHANGED msgwrites
  /\ UNCHANGED <<position, committed, stop_, closed, tasks_, wvars, seqs, messages,
                 inbox, pushes, pushed>>

\* The push succeeded: OnPushSuccess is queued.  Its task reads the call
\* context, which may be deleted by then; whatever uid and seq it reads, its
\* DELETE has no effect, and if the read faults that is a Crash.
PushOk(p) ==
  /\ p \in pushes
  /\ pushes' = pushes \ {p}
  /\ pushed' = pushed \cup {p}
  /\ tasks_' = Append(tasks_, Task("delete", 0, NoUser, 0))
  /\ UNCHANGED <<position, committed, stop_, closed, faults, wvars, seqs, cassvars>>

PushFails(p) ==
  /\ p \in pushes
  /\ Fault("push")
  /\ pushes' = pushes \ {p}
  /\ UNCHANGED <<position, committed, stop_, closed, tasks_, wvars, seqs, cassvars, pushed>>

-----------------------------------------------------------------------------
Work(w) ==
  \/ Dequeue(w) \/ HandleMessage(w) \/ SelectMembers(w) \/ SelectFails(w) \/ FanOut(w)
  \/ Incr(w) \/ IncrFails(w) \/ WriteInbox(w) \/ AsyncPush(w)

Complete == \/ \E o \in msgwrites : WriteMessageOk(o)
            \/ \E x \in boxwrites : WriteInboxOk(x)
            \/ WriteFails
            \/ \E p \in pushes : PushOk(p) \/ PushFails(p)

Next ==
  \/ RunConsume \/ RunConsumeError \/ RunAutoCommit \/ RunClose
  \/ Restart \/ Crash
  \/ \E w \in Workers : Work(w)
  \/ Complete

Spec == Init /\ [][Next]_vars

\* The loop, the workers, Cassandra and the push server make progress.
Fairness ==
  /\ WF_vars(RunConsume)
  /\ \A w \in Workers : WF_vars(Work(w))
  /\ WF_vars(Complete)

FairSpec == Spec /\ Fairness

-----------------------------------------------------------------------------
\* Every seq ever given out for a user, wherever it went.
Issued ==
  boxwrites \cup inbox \cup pushes \cup pushed
    \cup {Row(job[w].uid, job[w].seq, job[w].msg) :
            w \in {v \in Workers : pc[v] \in {"inbox", "push"}}}

\* A seq names one message of its user for good, across workers, redelivery and
\* restarts: no upsert into user_inbox replaces another message, and what a
\* client was pushed under a seq is what the inbox holds under it.
SeqNamesOneMessage ==
  \A x, y \in Issued : x.uid = y.uid /\ x.seq = y.seq => x.msg = y.msg

\* A message reaches an inbox twice only because a crash made Kafka deliver it
\* again, and then under another seq.
CopiesBounded ==
  \A o \in Offsets, u \in Users :
    Cardinality({r \in inbox : r.msg = o /\ r.uid = u}) <= 1 + faults

Addressed(o, u) == Topic[o].kind # "bad" /\ u \in Topic[o].to
Stored(o, u) == \E r \in inbox : r.msg = o /\ r.uid = u

\* Without a fault every message reaches the inbox of each recipient, and the
\* push server confirms it.
DeliveredWithoutFault ==
  \A o \in Offsets, u \in Users :
    Addressed(o, u) =>
      <>((o \in messages /\ Stored(o, u) /\ \E r \in pushed : r.msg = o /\ r.uid = u)
          \/ faults > 0)
=============================================================================
