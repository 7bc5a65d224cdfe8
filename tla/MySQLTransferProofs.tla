------------------------ MODULE MySQLTransferProofs ------------------------
(***************************************************************************)
(* Proofs about MySQLTransfer, for every topic, every number of workers and *)
(* every set of faults.                                                     *)
(***************************************************************************)
EXTENDS MySQLTransfer, TLAPS

\* The types of the transfer's variables, with the bounds on the offsets.
THEOREM TypeCorrect == Spec => []TypeOK
<1>0. Len(Topic) \in Nat
  BY RecordsAssumption
<1>a. <<>> \in Seq(Offsets \cup {ErrorTask})
  OBVIOUS
<1>b. /\ [w \in Workers |-> "idle"] \in [Workers -> {"idle", "message", "box"}]
      /\ [w \in Workers |-> NoMsg] \in [Workers -> Offsets \cup {NoMsg}]
      /\ \A w \in Workers : [v \in Workers |-> "idle"][w] = "idle"
  OBVIOUS
<1>1. Init => TypeOK
  <2>1. ASSUME Init PROVE TypeOK
    <3>1. /\ position \in 1..Len(Topic) + 1 /\ committed \in 1..position
          /\ faults \in 0..MaxFaults
      BY <1>0, <2>1, ConsumerAssumption DEF Init, ConsumerInit
    <3> QED
      BY <1>a, <1>b, <2>1, <3>1 DEF Init, ConsumerInit, TypeOK
  <2> QED
    BY <2>1
<1>2. TypeOK /\ [Next]_vars => TypeOK'
  <2> SUFFICES ASSUME TypeOK, [Next]_vars PROVE TypeOK'
    OBVIOUS
  <2> USE <1>0, ConsumerAssumption
  <2> USE DEF TypeOK, Offsets, NoMsg, ErrorTask, consumervars, wvars, tables
  <2>1. CASE RunConsume
    BY <2>1 DEF RunConsume, Consume
  <2>2. CASE RunConsumeError
    BY <2>2 DEF RunConsumeError, ConsumeError, Fault
  <2>3. CASE RunAutoCommit
    BY <2>3 DEF RunAutoCommit, AutoCommit
  <2>4. CASE RunClose
    BY <2>4 DEF RunClose, Close
  <2>5. CASE Restart \/ Crash
    <3>1. faults' \in 0..MaxFaults
      BY <2>5 DEF Restart, Crash, Fault
    <3>2. Forget
      BY <2>5 DEF Restart, Crash
    <3>3. position' = committed /\ committed' = committed /\ tasks_' = <<>>
      BY <3>2 DEF Forget, Restarted
    <3>4. position' \in 1..Len(Topic) + 1 /\ committed' \in 1..position'
      BY <1>0, <3>3
    <3>5. /\ pc' \in [Workers -> {"idle", "message", "box"}]
          /\ job' \in [Workers -> Offsets \cup {NoMsg}]
          /\ \A w \in Workers : pc'[w] = "idle"
      BY <1>b, <3>2 DEF Forget
    <3> QED
      BY <1>a, <3>1, <3>2, <3>3, <3>4, <3>5 DEF Forget, Restarted
  <2>6. ASSUME NEW w \in Workers, Work(w) PROVE TypeOK'
    <3>1. CASE Dequeue(w)
      <4>1. tasks_' \in Seq(Offsets \cup {ErrorTask})
        BY <3>1 DEF Dequeue
      <4> QED
        BY <3>1, <4>1 DEF Dequeue, Goto
    <3>2. CASE InsertMessage(w)
      BY <3>2 DEF InsertMessage, Goto
    <3>3. CASE InsertMessageDuplicate(w)
      BY <3>3 DEF InsertMessageDuplicate, Return
    <3>4. CASE InsertBox(w)
      BY <3>4 DEF InsertBox, Return
    <3>5. CASE InsertFails(w)
      BY <3>5 DEF InsertFails, Return, Fault
    <3> QED
      BY <2>6, <3>1, <3>2, <3>3, <3>4, <3>5 DEF Work
  <2>7. CASE UNCHANGED vars
    BY <2>7 DEF vars
  <2> QED
    BY <2>1, <2>2, <2>3, <2>4, <2>5, <2>6, <2>7 DEF Next
<1> QED
  BY <1>1, <1>2, PTL DEF Spec

-----------------------------------------------------------------------------
\* What makes the two properties inductive: a worker that is about to write a
\* box row has written the data of its message.
BoxAfterMessage == \A w \in Workers : pc[w] = "box" => job[w] \in messages

Inv == BoxAfterMessage /\ BoxIsConsistent /\ UnboxedIsExplained

LEMMA InvInit == Init => Inv
BY DEF Init, ConsumerInit, Inv, BoxAfterMessage, BoxIsConsistent, UnboxedIsExplained, SlotTaken

\* A step that leaves the tables alone and takes no worker away from its box
\* row, or counts a fault, keeps the invariant.
LEMMA InvKept ==
  ASSUME TypeOK, TypeOK', Inv, UNCHANGED tables,
         \A w \in Workers : pc'[w] = "box" => pc[w] = "box" /\ job'[w] = job[w],
         \/ faults' > 0
         \/ /\ faults' = faults
            /\ \A w \in Workers : pc[w] = "box" => pc'[w] = "box"
  PROVE  Inv'
<1>1. BoxAfterMessage'
  BY DEF Inv, BoxAfterMessage, tables
<1>2. BoxIsConsistent'
  BY DEF Inv, BoxIsConsistent, SlotTaken, tables
<1>3. UnboxedIsExplained'
  BY DEF Inv, UnboxedIsExplained, SlotTaken, tables
<1> QED
  BY <1>1, <1>2, <1>3 DEF Inv

LEMMA InvNext == TypeOK /\ TypeOK' /\ Inv /\ [Next]_vars => Inv'
<1> SUFFICES ASSUME TypeOK, TypeOK', Inv, [Next]_vars PROVE Inv'
  OBVIOUS
<1>1. CASE RunConsume \/ RunAutoCommit \/ RunClose \/ UNCHANGED vars
  BY <1>1, InvKept
  DEF RunConsume, Consume, RunAutoCommit, AutoCommit, RunClose, Close, vars, consumervars, wvars,
      tables
<1>2. CASE RunConsumeError
  BY <1>2, InvKept DEF RunConsumeError, ConsumeError, Fault, wvars, TypeOK
<1>3. CASE Restart
  BY <1>3, InvKept DEF Restart, Forget
<1>4. CASE Crash
  BY <1>4, InvKept DEF Crash, Forget, Fault, TypeOK
<1>5. ASSUME NEW w \in Workers, Work(w) PROVE Inv'
  <2>1. CASE Dequeue(w)
    BY <2>1, InvKept DEF Dequeue, Goto, wvars, TypeOK
  <2>2. CASE InsertMessage(w)
    <3>1. BoxAfterMessage'
      BY <2>2 DEF InsertMessage, Goto, Inv, BoxAfterMessage, TypeOK
    <3>2. BoxIsConsistent'
      BY <2>2 DEF InsertMessage, Inv, BoxIsConsistent, SlotTaken
    <3>3. UnboxedIsExplained'
      BY <2>2 DEF InsertMessage, Goto, Inv, UnboxedIsExplained, SlotTaken, TypeOK, consumervars
    <3> QED
      BY <3>1, <3>2, <3>3 DEF Inv
  <2>3. CASE InsertMessageDuplicate(w)
    BY <2>3, InvKept DEF InsertMessageDuplicate, Return, TypeOK, consumervars
  <2>4. CASE InsertBox(w)
    <3>1. job[w] \in messages
      BY <2>4 DEF InsertBox, Inv, BoxAfterMessage
    <3>2. BoxAfterMessage'
      BY <2>4 DEF InsertBox, Return, Inv, BoxAfterMessage, TypeOK
    <3>3. BoxIsConsistent'
      BY <2>4, <3>1 DEF InsertBox, InsertAllowed, Inv, BoxIsConsistent, SlotTaken
    <3>4. UnboxedIsExplained'
      BY <2>4, <3>1
      DEF InsertBox, InsertAllowed, Return, Inv, UnboxedIsExplained, SlotTaken, TypeOK, consumervars
    <3> QED
      BY <3>2, <3>3, <3>4 DEF Inv
  <2>5. CASE InsertFails(w)
    BY <2>5, InvKept DEF InsertFails, Return, Fault, TypeOK
  <2> QED
    BY <1>5, <2>1, <2>2, <2>3, <2>4, <2>5 DEF Work
<1> QED
  BY <1>1, <1>2, <1>3, <1>4, <1>5 DEF Next

\* A boxed message has its data, and no two boxed messages share a slot of
\* user_box, through every interleaving, crash and redelivery.
THEOREM BoxConsistent == Spec => []BoxIsConsistent
<1> QED
  BY TypeCorrect, InvInit, InvNext, PTL DEF Spec, Inv

\* A stored message that is in no box is accounted for by a worker, a fault or
\* the keys of the schema.
THEOREM UnboxedExplained == Spec => []UnboxedIsExplained
<1> QED
  BY TypeCorrect, InvInit, InvNext, PTL DEF Spec, Inv
=============================================================================
