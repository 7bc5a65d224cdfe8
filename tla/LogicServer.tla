---------------------------- MODULE LogicServer ----------------------------
(***************************************************************************)
(* msg_logic: the asynchronous gRPC server that turns each Handle call into *)
(* a Kafka message and answers the call when Kafka reports its delivery.    *)
(*                                                                          *)
(* Threads: the Run loop (the only reader of the completion queue cq_), the *)
(* Workers of the thread pool (Handle, Produce and the delivery callback    *)
(* dr_cb, which librdkafka calls from inside poll), and librdkafka's own    *)
(* broker thread.  One RpcContext object serves one call; Contexts are the  *)
(* objects the run may allocate, and no address is used twice.  A msgid     *)
(* (milliseconds, uid and eight random characters) is taken to be unique,   *)
(* so a context also stands for the msgid its response carries.             *)
(***************************************************************************)
EXTENDS Integers, Sequences, FiniteSets

CONSTANTS Contexts,    \* RpcContext objects: a bound on the calls of a run
          Workers,     \* threads of the pool
          Requests,    \* kinds of request the gates send
          QueueMax,    \* queue.buffering.max.messages of librdkafka
          MayDie,      \* the calls whose gate may vanish before the answer
          NoContext,
          NoRequest

Kinds == {"FriendCtrl", "Inputing", "OtherState", "FriendMsg", "SystemNotify",
          "GroupCtrl", "GroupMsg", "Pull", "Login", "Logout", "Kickout", "Other"}

ASSUME ConstantsAssumption ==
  /\ NoContext \notin Contexts /\ IsFiniteSet(Contexts)
  /\ Requests \subseteq Kinds
  /\ NoRequest \notin Kinds
  /\ MayDie \subseteq Contexts
  /\ QueueMax \in Nat \ {0}

VARIABLES
  up,            \* the process runs: no GPR_ASSERT has failed
  life,          \* each context: "fresh" (not allocated), "live", "deleted"
  req_, resp_,   \* the fields of each context ...
  done_,         \* ... and the contexts whose done_ is true
  armed,         \* the context passed to RequestHandle and not yet called
  cq_,           \* tags waiting in the completion queue
  tasks_,        \* the pool's FIFO of contexts to Handle
  pc, cur,       \* each worker: its place in the code, the context it Handles
  found,         \* each worker: the context dr_cb took out of rpc_contexts_
  batch,         \* each worker: the reports its poll(0) is delivering
  rpc_contexts_, \* contexts that wait for a delivery report
  outq,          \* messages librdkafka holds and has not reported on
  reports,       \* reports that wait for a poll
  err,           \* messages reported as failed
  topic,         \* messages in the Kafka topic
  finished,      \* how often Finish was called on each context
  dead           \* calls that died before they were answered

ctxvars == <<life, req_, resp_, done_, finished>>
loopvars == <<armed, cq_>>
wvars == <<pc, cur, found, batch>>
kafkavars == <<outq, reports, err, topic>>
vars == <<up, ctxvars, loopvars, tasks_, wvars, rpc_contexts_, kafkavars, dead>>

Responses == {"none", "ok", "invalid_request", "Produce_error", "kafka_error"}
Places == {"idle", "handle", "produce", "erase", "failed", "poll", "serve", "finish"}

TypeOK ==
  /\ up \in BOOLEAN
  /\ life \in [Contexts -> {"fresh", "live", "deleted"}]
  /\ req_ \in [Contexts -> Requests \cup {NoRequest}]
  /\ resp_ \in [Contexts -> Responses]
  /\ done_ \subseteq Contexts
  /\ finished \in [Contexts -> Nat]
  /\ armed \in Contexts \cup {NoContext}
  /\ cq_ \subseteq Contexts
  /\ tasks_ \in Seq(Contexts)
  /\ pc \in [Workers -> Places]
  /\ cur \in [Workers -> Contexts \cup {NoContext}]
  /\ found \in [Workers -> Contexts \cup {NoContext}]
  /\ batch \in [Workers -> SUBSET Contexts]
  /\ rpc_contexts_ \subseteq Contexts
  /\ outq \subseteq Contexts
  /\ reports \subseteq Contexts
  /\ err \subseteq Contexts
  /\ topic \subseteq Contexts
  /\ dead \subseteq Contexts

\* Run up to its loop: the first context is allocated and armed.
Init ==
  /\ up = TRUE
  /\ armed \in Contexts
  /\ life = [c \in Contexts |-> IF c = armed THEN "live" ELSE "fresh"]
  /\ req_ = [c \in Contexts |-> NoRequest]
  /\ resp_ = [c \in Contexts |-> "none"]
  /\ done_ = {}
  /\ finished = [c \in Contexts |-> 0]
  /\ cq_ = {}
  /\ tasks_ = <<>>
  /\ pc = [w \in Workers |-> "idle"]
  /\ cur = [w \in Workers |-> NoContext]
  /\ found = [w \in Workers |-> NoContext]
  /\ batch = [w \in Workers |-> {}]
  /\ rpc_contexts_ = {}
  /\ outq = {} /\ reports = {} /\ err = {} /\ topic = {}
  /\ dead = {}

-----------------------------------------------------------------------------
(***************************************************************************)
(* The gates.                                                               *)
(***************************************************************************)

\* A gate's call fills the armed context; its tag enters the queue.
Call(k) ==
  /\ up
  /\ armed # NoContext
  /\ req_' = [req_ EXCEPT ![armed] = k]
  /\ cq_' = cq_ \cup {armed}
  /\ armed' = NoContext
  /\ UNCHANGED <<up, life, resp_, done_, finished, tasks_, wvars, rpc_contexts_,
                 kafkavars, dead>>

\* The gate of an unanswered call crashes, cancels or loses its channel.
CallDies(c) ==
  /\ up
  /\ c \in MayDie \ dead
  /\ life[c] = "live" /\ req_[c] # NoRequest /\ finished[c] = 0
  /\ dead' = dead \cup {c}
  /\ UNCHANGED <<up, ctxvars, loopvars, tasks_, wvars, rpc_contexts_, kafkavars>>

-----------------------------------------------------------------------------
(***************************************************************************)
(* LogicServer::Run.                                                        *)
(***************************************************************************)

RunAccept_WrongTask(c) ==
  /\ up /\ c \in cq_ /\ c \notin done_
  /\ cq_' = cq_ \ {c}
  /\ tasks_' = Append(tasks_, armed)
  /\ \E n \in Contexts : /\ life[n] = "fresh"
                         /\ life' = [life EXCEPT ![n] = "live"]
                         /\ armed' = n
  /\ UNCHANGED <<up, req_, resp_, done_, finished, wvars, rpc_contexts_,
                 kafkavars, dead>>

\* A new call: arm another context (while the bound leaves one) and queue
\* the Handle task.
RunAccept(c) ==
  /\ up
  /\ c \in cq_ /\ c \notin done_
  /\ cq_' = cq_ \ {c}
  /\ \/ \E n \in Contexts : /\ life[n] = "fresh"
                            /\ life' = [life EXCEPT ![n] = "live"]
                            /\ armed' = n
     \/ /\ \A n \in Contexts : life[n] # "fresh"
        /\ UNCHANGED <<life, armed>>
  /\ tasks_' = Append(tasks_, c)
  /\ UNCHANGED <<up, req_, resp_, done_, finished, wvars, rpc_contexts_,
                 kafkavars, dead>>

RunDelete_NoDelete(c) ==
  /\ up /\ c \in cq_ /\ c \in done_ /\ c \notin dead
  /\ cq_' = cq_ \ {c}
  /\ UNCHANGED <<up, ctxvars, armed, tasks_, wvars, rpc_contexts_, kafkavars, dead>>

\* A Finish completed: the context is deleted.
RunDelete(c) ==
  /\ up
  /\ c \in cq_ /\ c \in done_ /\ c \notin dead
  /\ cq_' = cq_ \ {c}
  /\ life' = [life EXCEPT ![c] = "deleted"]
  /\ UNCHANGED <<up, req_, resp_, done_, finished, armed, tasks_, wvars,
                 rpc_contexts_, kafkavars, dead>>

\* A Finish on a dead call completes with ok = false: GPR_ASSERT(ok) aborts.
RunAbort(c) ==
  /\ up
  /\ c \in cq_ /\ c \in done_ /\ c \in dead
  /\ up' = FALSE
  /\ UNCHANGED <<ctxvars, loopvars, tasks_, wvars, rpc_contexts_, kafkavars, dead>>

-----------------------------------------------------------------------------
(***************************************************************************)
(* The workers: Handle and Produce.                                         *)
(***************************************************************************)

Goto(w, place) == pc' = [pc EXCEPT ![w] = place]

\* Set the response and done_, and pass the context to Finish.
Finish(c, resp) ==
  /\ resp_' = [resp_ EXCEPT ![c] = resp]
  /\ done_' = done_ \cup {c}
  /\ finished' = [finished EXCEPT ![c] = @ + 1]
  /\ cq_' = cq_ \cup {c}
  /\ UNCHANGED <<life, req_, armed>>

Dequeue(w) ==
  /\ up
  /\ pc[w] = "idle" /\ tasks_ # <<>>
  /\ cur' = [cur EXCEPT ![w] = Head(tasks_)]
  /\ tasks_' = Tail(tasks_)
  /\ Goto(w, "handle")
  /\ UNCHANGED <<up, ctxvars, loopvars, found, batch, rpc_contexts_, kafkavars, dead>>

\* The requests for which the switch of Handle can leave ok = true, and those
\* for which it can leave ok = false.  The result of FriendCtrlHandle (or its
\* exception) is the subject of FriendCtrl.
Publishable == {"FriendCtrl", "Inputing", "FriendMsg", "GroupMsg"}
Refusable == Kinds \ {"Inputing", "FriendMsg", "GroupMsg", "Login"}

\* A login skips Kafka (the jump to no_send_kafka).
HandleLogin(w) ==
  /\ up
  /\ pc[w] = "handle" /\ req_[cur[w]] = "Login"
  /\ Finish(cur[w], "ok")
  /\ Goto(w, "idle")
  /\ cur' = [cur EXCEPT ![w] = NoContext]
  /\ UNCHANGED <<up, tasks_, found, batch, rpc_contexts_, kafkavars, dead>>

HandleReject(w) ==
  /\ up
  /\ pc[w] = "handle" /\ req_[cur[w]] \in Refusable
  /\ Finish(cur[w], "invalid_request")
  /\ Goto(w, "idle")
  /\ cur' = [cur EXCEPT ![w] = NoContext]
  /\ UNCHANGED <<up, tasks_, found, batch, rpc_contexts_, kafkavars, dead>>

HandleAccept_NotRegistered(w) ==
  /\ up /\ pc[w] = "handle" /\ req_[cur[w]] \in Publishable
  /\ resp_' = [resp_ EXCEPT ![cur[w]] = "ok"]
  /\ Goto(w, "produce")
  /\ UNCHANGED <<up, life, req_, done_, finished, loopvars, tasks_, cur, found,
                 batch, rpc_contexts_, kafkavars, dead>>

\* The context is registered, under lock_, before its message is produced.
HandleAccept(w) ==
  /\ up
  /\ pc[w] = "handle" /\ req_[cur[w]] \in Publishable
  /\ resp_' = [resp_ EXCEPT ![cur[w]] = "ok"]
  /\ rpc_contexts_' = rpc_contexts_ \cup {cur[w]}
  /\ Goto(w, "produce")
  /\ UNCHANGED <<up, life, req_, done_, finished, loopvars, tasks_, cur, found,
                 batch, kafkavars, dead>>

\* Messages that count against QueueMax: librdkafka frees a message when
\* its delivery callback has returned.
Queued == outq \cup reports \cup UNION {batch[w] : w \in Workers}

\* producer_->produce takes the message.
ProduceOk(w) ==
  /\ up
  /\ pc[w] = "produce"
  /\ Cardinality(Queued) < QueueMax
  /\ outq' = outq \cup {cur[w]}
  /\ Goto(w, "poll")
  /\ UNCHANGED <<up, ctxvars, loopvars, tasks_, cur, found, batch, rpc_contexts_,
                 reports, err, topic, dead>>

ProduceFail_NoReturn(w) ==
  /\ up /\ pc[w] = "produce"
  /\ Goto(w, "poll")
  /\ UNCHANGED <<up, ctxvars, loopvars, tasks_, cur, found, batch, rpc_contexts_,
                 kafkavars, dead>>

ProduceFail_Queued(w) ==
  /\ up /\ pc[w] = "produce"
  /\ outq' = outq \cup {cur[w]}
  /\ Goto(w, "erase")
  /\ UNCHANGED <<up, ctxvars, loopvars, tasks_, cur, found, batch, rpc_contexts_,
                 reports, err, topic, dead>>

\* producer_->produce refuses it (queue full, unknown topic or partition, too
\* large): Produce returns before its poll.
ProduceFail(w) ==
  /\ up
  /\ pc[w] = "produce"
  /\ Goto(w, "erase")
  /\ UNCHANGED <<up, ctxvars, loopvars, tasks_, cur, found, batch, rpc_contexts_,
                 kafkavars, dead>>

HandleErase_Kept(w) ==
  /\ up /\ pc[w] = "erase"
  /\ Goto(w, "failed")
  /\ UNCHANGED <<up, ctxvars, loopvars, tasks_, cur, found, batch, rpc_contexts_,
                 kafkavars, dead>>

\* Handle takes the context of a failed Produce out of rpc_contexts_ ...
HandleErase(w) ==
  /\ up
  /\ pc[w] = "erase"
  /\ rpc_contexts_' = rpc_contexts_ \ {cur[w]}
  /\ Goto(w, "failed")
  /\ UNCHANGED <<up, ctxvars, loopvars, tasks_, cur, found, batch, kafkavars, dead>>

HandleFailed_NoFinish(w) ==
  /\ up /\ pc[w] = "failed"
  /\ Goto(w, "idle")
  /\ cur' = [cur EXCEPT ![w] = NoContext]
  /\ UNCHANGED <<up, ctxvars, loopvars, tasks_, found, batch, rpc_contexts_,
                 kafkavars, dead>>

\* ... and answers it.
HandleFailed(w) ==
  /\ up
  /\ pc[w] = "failed"
  /\ Finish(cur[w], "Produce_error")
  /\ Goto(w, "idle")
  /\ cur' = [cur EXCEPT ![w] = NoContext]
  /\ UNCHANGED <<up, tasks_, found, batch, rpc_contexts_, kafkavars, dead>>

\* poll(0) takes all the reports that wait; Handle uses its context no more.
Poll(w) ==
  /\ up
  /\ pc[w] = "poll"
  /\ batch' = [batch EXCEPT ![w] = reports]
  /\ reports' = {}
  /\ cur' = [cur EXCEPT ![w] = NoContext]
  /\ Goto(w, "serve")
  /\ UNCHANGED <<up, ctxvars, loopvars, tasks_, found, rpc_contexts_, outq, err,
                 topic, dead>>

-----------------------------------------------------------------------------
(***************************************************************************)
(* ReportCb::dr_cb, called by poll for each report of the batch.            *)
(***************************************************************************)

\* Under lock_: look the context up and take it out of rpc_contexts_; a
\* report whose context is not there is dropped.
DrFind(w, c) ==
  /\ up
  /\ pc[w] = "serve" /\ c \in batch[w]
  /\ rpc_contexts_' = rpc_contexts_ \ {c}
  /\ IF c \in rpc_contexts_
       THEN /\ found' = [found EXCEPT ![w] = c]
            /\ Goto(w, "finish")
            /\ UNCHANGED batch
       ELSE /\ batch' = [batch EXCEPT ![w] = @ \ {c}]
            /\ UNCHANGED <<pc, found>>
  /\ UNCHANGED <<up, ctxvars, loopvars, tasks_, cur, kafkavars, dead>>

DrFinish_IgnoresErr(w) ==
  /\ up /\ pc[w] = "finish"
  /\ Finish(found[w], resp_[found[w]])
  /\ batch' = [batch EXCEPT ![w] = @ \ {found[w]}]
  /\ found' = [found EXCEPT ![w] = NoContext]
  /\ Goto(w, "serve")
  /\ UNCHANGED <<up, tasks_, cur, rpc_contexts_, kafkavars, dead>>

\* After the unlock: answer the call, and librdkafka frees the message.
DrFinish(w) ==
  /\ up
  /\ pc[w] = "finish"
  /\ Finish(found[w], IF found[w] \in err THEN "kafka_error" ELSE resp_[found[w]])
  /\ batch' = [batch EXCEPT ![w] = @ \ {found[w]}]
  /\ found' = [found EXCEPT ![w] = NoContext]
  /\ Goto(w, "serve")
  /\ UNCHANGED <<up, tasks_, cur, rpc_contexts_, kafkavars, dead>>

\* The batch is served: poll, Produce and Handle return.
ServeDone(w) ==
  /\ up
  /\ pc[w] = "serve" /\ batch[w] = {}
  /\ Goto(w, "idle")
  /\ UNCHANGED <<up, ctxvars, loopvars, tasks_, cur, found, batch, rpc_contexts_,
                 kafkavars, dead>>

-----------------------------------------------------------------------------
(***************************************************************************)
(* Kafka, seen through librdkafka (external).  The broker may store a       *)
(* message whose acknowledgement is lost, or that was in flight when        *)
(* message.timeout.ms expired: a failure report says nothing about topic.   *)
(***************************************************************************)

BrokerStore(c) ==
  /\ up
  /\ c \in (outq \cup err) \ topic
  /\ topic' = topic \cup {c}
  /\ UNCHANGED <<up, ctxvars, loopvars, tasks_, wvars, rpc_contexts_, outq,
                 reports, err, dead>>

BrokerAck(c) ==
  /\ up
  /\ c \in outq \cap topic
  /\ outq' = outq \ {c}
  /\ reports' = reports \cup {c}
  /\ UNCHANGED <<up, ctxvars, loopvars, tasks_, wvars, rpc_contexts_, err, topic, dead>>

BrokerFail(c) ==
  /\ up
  /\ c \in outq
  /\ outq' = outq \ {c}
  /\ reports' = reports \cup {c}
  /\ err' = err \cup {c}
  /\ UNCHANGED <<up, ctxvars, loopvars, tasks_, wvars, rpc_contexts_, topic, dead>>

-----------------------------------------------------------------------------
Run(c) == RunAccept(c) \/ RunDelete(c) \/ RunAbort(c)

Work(w) ==
  \/ Dequeue(w)
  \/ HandleLogin(w) \/ HandleReject(w) \/ HandleAccept(w)
  \/ ProduceOk(w) \/ ProduceFail(w) \/ HandleErase(w) \/ HandleFailed(w)
  \/ Poll(w) \/ (\E c \in Contexts : DrFind(w, c)) \/ DrFinish(w) \/ ServeDone(w)

Report(c) == BrokerAck(c) \/ BrokerFail(c)

Next ==
  \/ \E k \in Requests : Call(k)
  \/ \E c \in Contexts : CallDies(c) \/ Run(c) \/ BrokerStore(c) \/ Report(c)
  \/ \E w \in Workers : Work(w)

Spec == Init /\ [][Next]_vars

\* The threads run, and librdkafka reports on every message within
\* message.timeout.ms.  Nothing makes the gates call.
Fairness ==
  /\ \A c \in Contexts : WF_vars(Run(c)) /\ WF_vars(Report(c))
  /\ \A w \in Workers : WF_vars(Work(w))

FairSpec == Spec /\ Fairness

-----------------------------------------------------------------------------
(***************************************************************************)
(* Safety.                                                                  *)
(***************************************************************************)

\* Handle, a failed Produce and dr_cb each call Finish on a context, from
\* different threads: whatever the interleaving, no context is finished twice
\* (gRPC aborts the process on a second Finish).
FinishOnce == \A c \in Contexts : finished[c] <= 1

\* The worker w will still dereference the context c.
Holds(w, c) ==
  \/ pc[w] \in {"handle", "produce", "erase", "failed"} /\ cur[w] = c
  \/ pc[w] = "finish" /\ found[w] = c

\* Run deletes a context as soon as its Finish completes.  By then no thread,
\* queue or table of the server leads to it any more: the object is never
\* used after the delete, and never deleted twice.
NoUseAfterDelete ==
  \A c \in Contexts :
    life[c] # "live" => /\ armed # c /\ c \notin cq_ /\ c \notin rpc_contexts_
                        /\ \A i \in 1..Len(tasks_) : tasks_[i] # c
                        /\ \A w \in Workers : ~Holds(w, c)

\* dr_cb runs on whichever worker polls, possibly before the worker that
\* produced the message returns from produce: the context of every report is
\* registered when the report is delivered, so "can not found context" never
\* drops an answer.
ReportFindsContext ==
  /\ outq \cup reports \subseteq rpc_contexts_
  /\ \A w \in Workers : \A c \in batch[w] :
       c \in rpc_contexts_ \/ (pc[w] = "finish" /\ found[w] = c)

\* No path forgets a context: a live context is armed, or queued, or held by a
\* worker, or registered with a message whose report will come.  A context
\* that is in none of these places is leaked, and its call never answered.
NoContextForgotten ==
  \A c \in Contexts :
    life[c] = "live" => \/ armed = c
                        \/ c \in cq_
                        \/ \E i \in 1..Len(tasks_) : tasks_[i] = c
                        \/ \E w \in Workers : Holds(w, c)
                        \/ c \in rpc_contexts_ \cap Queued

(***************************************************************************)
(* The promise to the gates.                                                *)
(***************************************************************************)

AnswerOf(c) ==
  IF finished[c] = 0 THEN "none"
  ELSE CASE resp_[c] = "ok" -> "accepted"
         [] resp_[c] \in {"invalid_request", "Produce_error"} -> "rejected"
         [] OTHER -> "unknown"

Service == INSTANCE PublishService
             WITH Calls <- Contexts, Unlogged <- {"Login"},
                  Never <- Kinds \ Publishable,
                  asked <- req_, answer <- [c \in Contexts |-> AnswerOf(c)]

\* The server implements the abstract service: an answer without error is only
\* given to a message Kafka has, "invalid_request" and "Produce_error" only to
\* a message Kafka will never have.
ImplementsService == Service!Spec

(***************************************************************************)
(* A full producer queue.                                                   *)
(***************************************************************************)

\* librdkafka's queue is full of reports and nobody is on the way to a poll.
Wedged ==
  /\ Cardinality(reports) >= QueueMax
  /\ \A w \in Workers : pc[w] \notin {"poll", "serve", "finish"}

\* Produce returns before poll when the queue is full, and only poll makes
\* room: once full of reports, the queue stays full, whatever the gates and
\* the broker do.  Every later message is refused, and the calls whose reports
\* wait are never answered.
WedgedForever == [][Wedged => Wedged']_vars

(***************************************************************************)
(* Liveness.                                                                *)
(***************************************************************************)

Answered(c) == finished[c] > 0

\* Every call is answered, or its report is ready and waits for the next poll
\* (or a dead call has aborted the server).
AnsweredOrReported ==
  \A c \in Contexts :
    req_[c] # NoRequest ~> Answered(c) \/ c \in reports \/ ~up

\* A poll that finds a report answers its call and the context is freed.
PollAnswers ==
  \A c \in Contexts, w \in Workers :
    c \in reports /\ pc[w] = "poll" ~> life[c] = "deleted" \/ ~up

\* What kafka_producer.h says of Produce ("synchronously produce the message"):
\* every call is answered.
EveryCallAnswered ==
  \A c \in Contexts : req_[c] # NoRequest ~> Answered(c) \/ ~up
=============================================================================
