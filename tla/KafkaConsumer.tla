--------------------------- MODULE KafkaConsumer ---------------------------
(***************************************************************************)
(* transfer::Consumer: the loop that takes messages from one partition of   *)
(* the topic and gives each to the thread pool, and librdkafka's automatic  *)
(* offset commit (the code sets neither enable.auto.commit nor              *)
(* enable.auto.offset.store): the offset that is committed is the one after *)
(* the last message RETURNED by consume, handled or not.                    *)
(*                                                                          *)
(* The consumers of the two databases extend this module and add what their *)
(* handler does; the actions here change only the variables of this module. *)
(* Timeouts and partition ends, whose task does nothing, are left out.  The *)
(* group has committed an offset before the run: where a new group starts   *)
(* (auto.offset.reset, which the code leaves at its default) is left out.   *)
(*                                                                          *)
(* stop_ is a plain bool that a worker writes and the loop reads without a  *)
(* lock.  The loop may be inside consume, or read the old value, when it is *)
(* set, so consume may go on returning messages until the loop has seen it. *)
(***************************************************************************)
EXTENDS Integers, Sequences, FiniteSets

CONSTANTS Topic,      \* the records of the partition, in order
          Workers,    \* threads of the pool
          FaultKinds, \* what may go wrong in a run ...
          MaxFaults   \* ... and how often

ASSUME ConsumerAssumption == MaxFaults \in Nat

Offsets == 1..Len(Topic)

VARIABLES position,   \* the next offset consume returns
          committed,  \* the offset a restarted consumer starts from
          stop_,      \* set by the task of a failed consume
          closed,     \* Run has left its loop and closed the consumer
          tasks_,     \* the pool's FIFO
          faults      \* faults so far

consumervars == <<position, committed, stop_, closed, tasks_, faults>>

ConsumerInit ==
  /\ position = 1 /\ committed = 1
  /\ stop_ = FALSE /\ closed = FALSE
  /\ tasks_ = <<>>
  /\ faults = 0

Fault(kind) ==
  /\ kind \in FaultKinds /\ faults < MaxFaults
  /\ faults' = faults + 1

Consume_PastEnd(task) ==
  /\ ~closed
  /\ tasks_' = Append(tasks_, task)
  /\ position' = position + 1
  /\ UNCHANGED <<committed, stop_, closed, faults>>

\* Run: consume returns a message, its task is queued.
Consume(task) ==
  /\ ~closed /\ position \in Offsets
  /\ tasks_' = Append(tasks_, task)
  /\ position' = position + 1
  /\ UNCHANGED <<committed, stop_, closed, faults>>

\* Run: consume returns an error, which becomes a task too.
ConsumeError(task) ==
  /\ ~closed
  /\ Fault("consume")
  /\ tasks_' = Append(tasks_, task)
  /\ UNCHANGED <<position, committed, stop_, closed>>

\* librdkafka's background commit.
AutoCommit ==
  /\ ~closed /\ committed < position
  /\ committed' = position
  /\ UNCHANGED <<position, stop_, closed, tasks_, faults>>

\* Run sees stop_ and closes the consumer, which commits.
Close ==
  /\ stop_ /\ ~closed
  /\ closed' = TRUE
  /\ committed' = position
  /\ UNCHANGED <<position, stop_, tasks_, faults>>

\* The process starts again at the committed offset.
Restarted ==
  /\ position' = committed
  /\ stop_' = FALSE /\ closed' = FALSE
  /\ tasks_' = <<>>
  /\ UNCHANGED committed
=============================================================================
