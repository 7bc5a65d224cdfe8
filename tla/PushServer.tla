----------------------------- MODULE PushServer -----------------------------
(***************************************************************************)
(* push: the server between the transfers and the gates.  A Push call is    *)
(* looked up in Redis, forwarded to the gate of its user and answered with  *)
(* the gate's status.                                                       *)
(*                                                                          *)
(* Threads: the Run loop, which reads the server's completion queue cq_;    *)
(* the Workers of the pool, which look up the gate and start the call; and  *)
(* the thread of GateClient::AsyncRpcComplete.  The table of stubs is       *)
(* locked for a look-up and for an insertion, but not between them, and the *)
(* iterator is used after the lock is released.                             *)
(*                                                                          *)
(* Contexts are PushContext objects, one for each call; none is ever        *)
(* deleted.  A stub is named by the worker that made it and a number.       *)
(* NewStub never returns null (it is a new expression in the generated      *)
(* code), so the branch for a null stub is not modelled.                    *)
(***************************************************************************)
EXTENDS Integers, Sequences

CONSTANTS Contexts,   \* PushContext objects: a bound on the calls of a run
          Workers,    \* threads of the pool
          Gates,      \* addresses Redis may hold for a user
          MayDie,     \* the calls whose transfer may vanish before the answer
          NoContext, NoGate, NoStub

Stubs == Workers \X (Nat \ {0})

ASSUME PushAssumption ==
  /\ NoContext \notin Contexts
  /\ NoGate \notin Gates
  /\ NoStub \notin Stubs
  /\ MayDie \subseteq Contexts

VARIABLES
  up,        \* the process runs
  stage,     \* where each context is (see Stages)
  done,      \* the contexts whose done flag is set
  cq_,       \* tags waiting in the server's completion queue
  tasks_,    \* the pool's queue
  pc,        \* each worker's next statement
  context,   \* the context of each worker's task
  gate,      \* the gate address each worker has read
  stubs_,    \* GateClient's stub for each gate
  stub,      \* the stub each worker has in hand
  made,      \* how many stubs each worker has made for each gate
  freed,     \* the stubs that were destroyed
  status,    \* the gate's status of each forwarded call
  reached,   \* the pushes a gate has sent
  answer,    \* what each call was answered
  dead       \* calls that died before they were answered

loopvars == <<cq_, tasks_, done>>
wvars == <<pc, context, gate, stub>>
stubvars == <<stubs_, made, freed>>
vars == <<up, stage, loopvars, wvars, stubvars, status, reached, answer, dead>>

\* fresh: not allocated; armed: waiting for a call; called: its tag is in cq_;
\* queued, worker: a task of the pool; calling: forwarded to a gate; replied:
\* in the completion queue of the gate client; finished: Finish was called; lost:
\* its look-up threw, and nothing names it any more.
Stages == {"fresh", "armed", "called", "queued", "worker", "calling", "replied",
           "finished", "lost"}
Places == {"idle", "hget", "find", "create", "insert", "load", "prepare", "start"}
Answers == {"none", "ok", "failed"}
\* The gate's own answers, and UNAVAILABLE from a channel that broke.
Statuses == {"none", "ok", "not_found", "unavailable"}

\* With the values that each statement of a task relies on: no call is made
\* through end() or before its gate is known.
TypeOK ==
  /\ up \in BOOLEAN
  /\ stage \in [Contexts -> Stages]
  /\ done \subseteq Contexts
  /\ cq_ \subseteq Contexts
  /\ tasks_ \in Seq(Contexts)
  /\ pc \in [Workers -> Places]
  /\ context \in [Workers -> Contexts \cup {NoContext}]
  /\ gate \in [Workers -> Gates \cup {NoGate}]
  /\ stubs_ \in [Gates -> Stubs \cup {NoStub}]
  /\ stub \in [Workers -> Stubs \cup {NoStub}]
  /\ made \in [Gates -> [Workers -> Nat]]
  /\ freed \subseteq Gates \X Stubs
  /\ status \in [Contexts -> Statuses]
  /\ reached \subseteq Contexts
  /\ answer \in [Contexts -> Answers]
  /\ dead \subseteq Contexts
  /\ \A w \in Workers :
       /\ pc[w] # "idle" => context[w] \in Contexts
       /\ pc[w] \notin {"idle", "hget"} => gate[w] \in Gates
       /\ pc[w] \in {"insert", "prepare", "start"} => stub[w] \in Stubs

\* Run up to its loop: the first context is armed.
Init ==
  /\ up = TRUE
  /\ \E first \in Contexts :
       stage = [c \in Contexts |-> IF c = first THEN "armed" ELSE "fresh"]
  /\ done = {} /\ cq_ = {} /\ tasks_ = <<>>
  /\ pc = [w \in Workers |-> "idle"]
  /\ context = [w \in Workers |-> NoContext]
  /\ gate = [w \in Workers |-> NoGate]
  /\ stubs_ = [g \in Gates |-> NoStub]
  /\ stub = [w \in Workers |-> NoStub]
  /\ made = [g \in Gates |-> [w \in Workers |-> 0]]
  /\ freed = {}
  /\ status = [c \in Contexts |-> "none"]
  /\ reached = {}
  /\ answer = [c \in Contexts |-> "none"]
  /\ dead = {}

Goto(w, place) == pc' = [pc EXCEPT ![w] = place]
Move(c, to) == stage' = [stage EXCEPT ![c] = to]

\* The end of a task; the variables of its frame are gone.
Return(w) ==
  /\ Goto(w, "idle")
  /\ context' = [context EXCEPT ![w] = NoContext]
  /\ gate' = [gate EXCEPT ![w] = NoGate]
  /\ stub' = [stub EXCEPT ![w] = NoStub]

\* done = true and responder.Finish: the tag comes back through cq_.
Finish(c, a) ==
  /\ done' = done \cup {c}
  /\ answer' = [answer EXCEPT ![c] = a]
  /\ cq_' = cq_ \cup {c}
  /\ Move(c, "finished")

-----------------------------------------------------------------------------
(***************************************************************************)
(* The transfers.                                                           *)
(***************************************************************************)

Call(c) ==
  /\ up /\ stage[c] = "armed"
  /\ Move(c, "called")
  /\ cq_' = cq_ \cup {c}
  /\ UNCHANGED <<up, tasks_, done, wvars, stubvars, status, reached, answer, dead>>

\* The transfer of an unanswered call crashes or loses its channel.
CallDies(c) ==
  /\ up /\ c \in MayDie \ dead
  /\ stage[c] \notin {"fresh", "armed", "finished"}
  /\ dead' = dead \cup {c}
  /\ UNCHANGED <<up, stage, loopvars, wvars, stubvars, status, reached, answer>>

-----------------------------------------------------------------------------
(***************************************************************************)
(* PushServer::Run.                                                         *)
(***************************************************************************)

\* A new call: arm another context (while the bound leaves one), queue it.
RunAccept(c) ==
  /\ up /\ c \in cq_ /\ c \notin done
  /\ cq_' = cq_ \ {c}
  /\ tasks_' = Append(tasks_, c)
  /\ \/ \E n \in Contexts :
          /\ stage[n] = "fresh"
          /\ stage' = [stage EXCEPT ![c] = "queued", ![n] = "armed"]
     \/ /\ \A n \in Contexts : stage[n] # "fresh"
        /\ Move(c, "queued")
  /\ UNCHANGED <<up, done, wvars, stubvars, status, reached, answer, dead>>

\* An answered call: its context is only logged, and kept.
RunDone(c) ==
  /\ up /\ c \in cq_ \cap done /\ c \notin dead
  /\ cq_' = cq_ \ {c}
  /\ UNCHANGED <<up, stage, tasks_, done, wvars, stubvars, status, reached, answer, dead>>

\* The Finish of a dead call completes with ok = false: GPR_ASSERT(ok).
RunAbort(c) ==
  /\ up /\ c \in cq_ \cap done \cap dead
  /\ up' = FALSE
  /\ UNCHANGED <<stage, loopvars, wvars, stubvars, status, reached, answer, dead>>

-----------------------------------------------------------------------------
(***************************************************************************)
(* The task of a worker, with GateClient::Push.                             *)
(***************************************************************************)

Dequeue(w) ==
  /\ up /\ pc[w] = "idle" /\ tasks_ # <<>>
  /\ context' = [context EXCEPT ![w] = Head(tasks_)]
  /\ tasks_' = Tail(tasks_)
  /\ Move(Head(tasks_), "worker")
  /\ Goto(w, "hget")
  /\ UNCHANGED <<up, cq_, done, gate, stub, stubvars, status, reached, answer, dead>>

\* Redis names a gate for the user ...
HGetOnline(w, g) ==
  /\ up /\ pc[w] = "hget"
  /\ gate' = [gate EXCEPT ![w] = g]
  /\ Goto(w, "find")
  /\ UNCHANGED <<up, stage, loopvars, context, stub, stubvars, status, reached, answer, dead>>

HGetOffline_Silent(w) ==
  /\ up /\ pc[w] = "hget"
  /\ Return(w)
  /\ UNCHANGED <<up, stage, loopvars, stubvars, status, reached, answer, dead>>

\* ... or none: the call is answered NOT_FOUND.
HGetOffline(w) ==
  /\ up /\ pc[w] = "hget"
  /\ Finish(context[w], "failed")
  /\ Return(w)
  /\ UNCHANGED <<up, tasks_, stubvars, status, reached, dead>>

\* Redis throws: the exception ends in the task's future, which nobody reads.
HGetThrows(w) ==
  /\ up /\ pc[w] = "hget"
  /\ Move(context[w], "lost")
  /\ Return(w)
  /\ UNCHANGED <<up, loopvars, stubvars, status, reached, answer, dead>>

Find_Never(w) ==
  /\ up /\ pc[w] = "find"
  /\ Goto(w, "create")
  /\ UNCHANGED <<up, stage, loopvars, context, gate, stub, stubvars, status, reached,
                 answer, dead>>

Find_Untested(w) ==
  /\ up /\ pc[w] = "find"
  /\ Goto(w, "load")
  /\ UNCHANGED <<up, stage, loopvars, context, gate, stub, stubvars, status, reached,
                 answer, dead>>

\* stubs_.find under stub_lock_.  The comparison with end() after the unlock
\* cannot change: neither end() nor an iterator of a std::map moves.
Find(w) ==
  /\ up /\ pc[w] = "find"
  /\ Goto(w, IF stubs_[gate[w]] = NoStub THEN "create" ELSE "load")
  /\ UNCHANGED <<up, stage, loopvars, context, gate, stub, stubvars, status, reached,
                 answer, dead>>

\* A channel and a stub of its own, and the call prepared on it.
Create(w) ==
  /\ up /\ pc[w] = "create"
  /\ LET g == gate[w]
         n == made[g][w] + 1
     IN /\ made' = [made EXCEPT ![g][w] = n]
        /\ stub' = [stub EXCEPT ![w] = <<w, n>>]
  /\ Goto(w, "insert")
  /\ UNCHANGED <<up, stage, loopvars, context, gate, stubs_, freed, status, reached,
                 answer, dead>>

\* stubs_[gate_address] = move(stub) under the lock: a stub that another worker
\* has inserted since the look-up is destroyed.
Insert(w) ==
  /\ up /\ pc[w] = "insert"
  /\ LET g == gate[w] IN
       /\ freed' = IF stubs_[g] = NoStub THEN freed ELSE freed \cup {<<g, stubs_[g]>>}
       /\ stubs_' = [stubs_ EXCEPT ![g] = stub[w]]
  /\ Goto(w, "start")
  /\ UNCHANGED <<up, stage, loopvars, context, gate, stub, made, status, reached, answer,
                 dead>>

\* iter->second, read without the lock ...
Load(w) ==
  /\ up /\ pc[w] = "load"
  /\ stub' = [stub EXCEPT ![w] = stubs_[gate[w]]]
  /\ Goto(w, "prepare")
  /\ UNCHANGED <<up, stage, loopvars, context, gate, stubvars, status, reached, answer, dead>>

\* ... and the call prepared through it.  The memory of a stub that was
\* destroyed in between may still serve ...
Prepare(w) ==
  /\ up /\ pc[w] = "prepare"
  /\ Goto(w, "start")
  /\ UNCHANGED <<up, stage, loopvars, context, gate, stub, stubvars, status, reached,
                 answer, dead>>

\* ... or end the process.
PrepareCrashes(w) ==
  /\ up /\ pc[w] = "prepare" /\ <<gate[w], stub[w]>> \in freed
  /\ up' = FALSE
  /\ UNCHANGED <<stage, loopvars, wvars, stubvars, status, reached, answer, dead>>

\* StartCall and Finish on the reader: the call is on its way.
StartCall(w) ==
  /\ up /\ pc[w] = "start"
  /\ Move(context[w], "calling")
  /\ Return(w)
  /\ UNCHANGED <<up, loopvars, stubvars, status, reached, answer, dead>>

-----------------------------------------------------------------------------
(***************************************************************************)
(* The gates, seen from here (see GateSessions), and AsyncRpcComplete.      *)
(***************************************************************************)

\* A gate sends the push to the user's socket.  Its task does not ask whether
\* the call is alive, so it may come to this after the channel has broken and
\* the transfer has had its answer.
GateSends(c) ==
  /\ stage[c] = "calling" \/ status[c] = "unavailable"
  /\ c \notin reached
  /\ reached' = reached \cup {c}
  /\ UNCHANGED <<up, stage, loopvars, wvars, stubvars, status, answer, dead>>

\* The status of a forwarded call: OK from a gate that has sent it, NOT_FOUND
\* from one that has not and will not, or UNAVAILABLE from the channel, which
\* says nothing of what the gate has done or will do.
GateReplies(c) ==
  /\ stage[c] = "calling"
  /\ \E s \in Statuses \ {"none"} :
       /\ s = "ok" => c \in reached
       /\ s = "not_found" => c \notin reached
       /\ status' = [status EXCEPT ![c] = s]
  /\ Move(c, "replied")
  /\ UNCHANGED <<up, loopvars, wvars, stubvars, reached, answer, dead>>

Complete_AlwaysOk(c) ==
  /\ up /\ stage[c] = "replied"
  /\ Finish(c, "ok")
  /\ UNCHANGED <<up, tasks_, wvars, stubvars, status, reached, dead>>

\* AsyncRpcComplete answers the transfer with the gate's status.
Complete(c) ==
  /\ up /\ stage[c] = "replied"
  /\ Finish(c, IF status[c] = "ok" THEN "ok" ELSE "failed")
  /\ UNCHANGED <<up, tasks_, wvars, stubvars, status, reached, dead>>

-----------------------------------------------------------------------------
Run(c) == RunAccept(c) \/ RunDone(c) \/ RunAbort(c)

Work(w) ==
  \/ Dequeue(w) \/ HGetOffline(w) \/ HGetThrows(w) \/ (\E g \in Gates : HGetOnline(w, g))
  \/ Find(w) \/ Create(w) \/ Insert(w) \/ Load(w) \/ Prepare(w) \/ PrepareCrashes(w)
  \/ StartCall(w)

Next ==
  \/ \E c \in Contexts :
       \/ Call(c) \/ CallDies(c) \/ Run(c)
       \/ GateSends(c) \/ GateReplies(c) \/ Complete(c)
  \/ \E w \in Workers : Work(w)

Spec == Init /\ [][Next]_vars

\* The threads run, and every forwarded call gets a status (a gate answers
\* every push it takes, and a broken channel is reported as UNAVAILABLE).
Fairness ==
  /\ \A c \in Contexts : WF_vars(Run(c)) /\ WF_vars(GateReplies(c)) /\ WF_vars(Complete(c))
  /\ \A w \in Workers : WF_vars(Work(w))

FairSpec == Spec /\ Fairness

-----------------------------------------------------------------------------
Service == INSTANCE PushService
             WITH Calls <- Contexts,
                  called <- {c \in Contexts : stage[c] \notin {"fresh", "armed"}}

\* The push server implements the abstract service: one answer for each push,
\* and OK only for a push that a gate has sent.
ImplementsPush == Service!Spec

\* Between the look-up and the insertion the table is unlocked, so a gate can
\* get several stubs, each destroying the one before it.  But a worker makes
\* at most one for a gate, however many pushes it handles.
OneStubPerWorker ==
  \A g \in Gates, w \in Workers : made[g][w] <= 1

\* g has a stub and nobody is about to put another in its place.
Settled(g) ==
  /\ stubs_[g] # NoStub
  /\ \A w \in Workers : pc[w] \in {"create", "insert"} => gate[w] # g

\* A settled stub stays: no later push replaces or destroys it, so the
\* unlocked reads are harmless from then on.
SettledForever ==
  [][\A g \in Gates : Settled(g) => Settled(g)' /\ stubs_'[g] = stubs_[g]]_vars

\* Every push is answered, unless the server goes down or Redis threw at its
\* look-up: the transfer's call has no deadline and waits for this.
PushAnswered ==
  \A c \in Contexts : stage[c] = "called" ~> answer[c] # "none" \/ stage[c] = "lost" \/ ~up
=============================================================================
