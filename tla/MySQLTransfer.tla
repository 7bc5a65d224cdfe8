--------------------------- MODULE MySQLTransfer ---------------------------
(***************************************************************************)
(* transfer/mysql: for each message of the topic, INSERT it into messages   *)
(* and then INSERT a row into group_box or user_box.  The two statements    *)
(* are not one transaction, and the primary key and the unique keys of      *)
(* script/mysql.sql decide which of them succeed.  An offset stands for the *)
(* message with its msgid; the slot of a record is the value of the unique  *)
(* key (from_uid, to_uid, sendtime), which two messages sent between the    *)
(* same users in the same millisecond share.                                *)
(***************************************************************************)
EXTENDS KafkaConsumer

CONSTANT Slots

\* A record that does not parse or has another key than its msgid is "bad";
\* "known" says whether both users exist, as the foreign keys of user_box ask.
ASSUME RecordsAssumption ==
  Topic \in Seq([kind : {"user", "group", "bad"}, slot : Slots, known : BOOLEAN])

VARIABLES pc, job,   \* each worker: its next step, and the offset it handles
          messages,  \* the table messages
          box        \* the messages with a row in group_box or user_box

wvars == <<pc, job>>
tables == <<messages, box>>
vars == <<consumervars, wvars, tables>>

NoMsg == 0
ErrorTask == 0

TypeOK ==
  /\ position \in 1..Len(Topic) + 1 /\ committed \in 1..position
  /\ stop_ \in BOOLEAN /\ closed \in BOOLEAN
  /\ faults \in 0..MaxFaults
  /\ tasks_ \in Seq(Offsets \cup {ErrorTask})
  /\ pc \in [Workers -> {"idle", "message", "box"}]
  /\ job \in [Workers -> Offsets \cup {NoMsg}]
  /\ \A w \in Workers : pc[w] # "idle" => job[w] \in Offsets
  /\ messages \subseteq Offsets /\ box \subseteq Offsets

Init ==
  /\ ConsumerInit
  /\ pc = [w \in Workers |-> "idle"]
  /\ job = [w \in Workers |-> NoMsg]
  /\ messages = {} /\ box = {}

Goto(w, place) == pc' = [pc EXCEPT ![w] = place]
Return(w) == pc' = [pc EXCEPT ![w] = "idle"] /\ job' = [job EXCEPT ![w] = NoMsg]

-----------------------------------------------------------------------------
(***************************************************************************)
(* The consumer and its restarts; MySQL survives them.                      *)
(***************************************************************************)

RunConsume == Consume(position) /\ UNCHANGED <<wvars, tables>>
RunConsumeError == ConsumeError(ErrorTask) /\ UNCHANGED <<wvars, tables>>
RunAutoCommit == AutoCommit /\ UNCHANGED <<wvars, tables>>
RunClose == Close /\ UNCHANGED <<wvars, tables>>

Forget ==
  /\ Restarted
  /\ pc' = [w \in Workers |-> "idle"]
  /\ job' = [w \in Workers |-> NoMsg]
  /\ UNCHANGED tables

\* main returns when the pool has drained; the process is started again.
Restart ==
  /\ closed /\ tasks_ = <<>> /\ \A w \in Workers : pc[w] = "idle"
  /\ Forget /\ UNCHANGED faults

Crash == Fault("crash") /\ Forget

-----------------------------------------------------------------------------
(***************************************************************************)
(* Consumer::Consume and MySQLHandle.                                       *)
(***************************************************************************)

\* The task of a failed consume sets stop_; a bad message is dropped.
Dequeue(w) ==
  /\ pc[w] = "idle" /\ tasks_ # <<>>
  /\ tasks_' = Tail(tasks_)
  /\ LET o == Head(tasks_) IN
       \/ o = ErrorTask /\ stop_' = TRUE /\ UNCHANGED wvars
       \/ o \in Offsets /\ Topic[o].kind = "bad" /\ UNCHANGED <<stop_, wvars>>
       \/ /\ o \in Offsets /\ Topic[o].kind # "bad"
          /\ job' = [job EXCEPT ![w] = o]
          /\ Goto(w, "message")
          /\ UNCHANGED stop_
  /\ UNCHANGED <<position, committed, closed, faults, tables>>

InsertMessage_GroupReturns(w) ==
  /\ pc[w] = "message"
  /\ job[w] \notin messages
  /\ messages' = messages \cup {job[w]}
  /\ \/ Topic[job[w]].kind = "group" /\ Return(w)
     \/ Topic[job[w]].kind = "user" /\ Goto(w, "box") /\ UNCHANGED job
  /\ UNCHANGED <<consumervars, box>>

\* INSERT INTO messages.
InsertMessage(w) ==
  /\ pc[w] = "message"
  /\ job[w] \notin messages
  /\ messages' = messages \cup {job[w]}
  /\ Goto(w, "box")
  /\ UNCHANGED <<consumervars, job, box>>

\* The msgid is there already, from an earlier delivery: the exception ends
\* the handler, and the second statement is not run.
InsertMessageDuplicate(w) ==
  /\ pc[w] = "message"
  /\ job[w] \in messages
  /\ Return(w)
  /\ UNCHANGED <<consumervars, tables>>

InsertAllowed_NoKey(o) == Topic[o].kind = "group" \/ Topic[o].known

InsertAllowed_AnyKind(o) ==
  /\ o \notin box /\ Topic[o].known
  /\ \A p \in box : Topic[p].slot # Topic[o].slot

\* The keys of group_box and user_box.
InsertAllowed(o) ==
  /\ o \notin box
  /\ Topic[o].kind = "user" =>
       /\ Topic[o].known
       /\ \A p \in box : Topic[p].kind = "user" => Topic[p].slot # Topic[o].slot

\* INSERT INTO group_box or user_box; an exception is caught and logged.
InsertBox(w) ==
  /\ pc[w] = "box"
  /\ box' = IF InsertAllowed(job[w]) THEN box \cup {job[w]} ELSE box
  /\ Return(w)
  /\ UNCHANGED <<consumervars, messages>>

\* The database fails either statement: caught and logged.
InsertFails(w) ==
  /\ pc[w] \in {"message", "box"}
  /\ Fault("mysql")
  /\ Return(w)
  /\ UNCHANGED <<position, committed, stop_, closed, tasks_, tables>>

-----------------------------------------------------------------------------
Work(w) == \/ Dequeue(w) \/ InsertMessage(w) \/ InsertMessageDuplicate(w)
           \/ InsertBox(w) \/ InsertFails(w)

Next ==
  \/ RunConsume \/ RunConsumeError \/ RunAutoCommit \/ RunClose
  \/ Restart \/ Crash
  \/ \E w \in Workers : Work(w)

Spec == Init /\ [][Next]_vars

\* The loop and the workers make progress.
Fairness ==
  /\ WF_vars(RunConsume)
  /\ \A w \in Workers : WF_vars(Work(w))

FairSpec == Spec /\ Fairness

-----------------------------------------------------------------------------
Accepted(o) == Topic[o].kind # "bad"
SlotTaken(o) == \E p \in box \ {o} : /\ Topic[o].kind = "user" /\ Topic[p].kind = "user"
                                     /\ Topic[p].slot = Topic[o].slot

\* However messages of one slot interleave, and whichever is delivered again,
\* one of them at most is in user_box, and every boxed message has its data:
\* a reader of a box always finds the message it names.
BoxIsConsistent ==
  /\ box \subseteq messages
  /\ \A o \in box : ~SlotTaken(o)

\* A message whose data is stored but that no box names, and that no worker is
\* about to box, is explained by a fault, by a message of the same millisecond
\* or by a user that does not exist.
UnboxedIsExplained ==
  \A o \in messages \ box :
    \/ \E w \in Workers : pc[w] = "box" /\ job[w] = o
    \/ faults > 0
    \/ SlotTaken(o)
    \/ ~Topic[o].known

\* Every accepted message is written, and boxed if its keys allow it, unless
\* something fails on the way.
WrittenWithoutFault ==
  \A o \in Offsets :
    Accepted(o) => <>((o \in messages /\ (o \in box \/ SlotTaken(o) \/ ~Topic[o].known))
                        \/ faults > 0)
=============================================================================
