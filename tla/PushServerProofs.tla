-------------------------- MODULE PushServerProofs --------------------------
(***************************************************************************)
(* Proofs about PushServer: its types, the table of stubs, and that it      *)
(* implements PushService, for any number of calls, workers and gates.      *)
(***************************************************************************)
EXTENDS PushServer, TLAPS

\* The type invariant is not inductive alone: an entry that a worker has found
\* is still there when it is read, since none is ever removed.
Found ==
  \A w \in Workers : pc[w] = "load" => stubs_[gate[w]] \in Stubs

Typed == TypeOK /\ Found

LEMMA TypedInit == Init => Typed
<1> SUFFICES ASSUME Init PROVE Typed
  OBVIOUS
<1>1. tasks_ \in Seq(Contexts) /\ stage \in [Contexts -> Stages]
  BY DEF Init, Stages
<1> QED
  BY <1>1 DEF Init, Typed, TypeOK, Found, Places, Answers, Statuses

LEMMA TypedNext == Typed /\ [Next]_vars => Typed'
<1> SUFFICES ASSUME Typed, [Next]_vars PROVE Typed'
  OBVIOUS
<1> USE DEF Typed, TypeOK, Found, wvars, stubvars, loopvars
<1>1. ASSUME NEW c \in Contexts,
             Call(c) \/ CallDies(c) \/ RunDone(c) \/ RunAbort(c)
      PROVE  Typed'
  BY <1>1 DEF Call, CallDies, RunDone, RunAbort, Move, Stages
<1>2. ASSUME NEW c \in Contexts, RunAccept(c) PROVE Typed'
  <2>1. tasks_' \in Seq(Contexts)
    BY <1>2 DEF RunAccept
  <2>2. stage' \in [Contexts -> Stages]
    BY <1>2 DEF RunAccept, Move, Stages
  <2> QED
    BY <1>2, <2>1, <2>2 DEF RunAccept
<1>3. ASSUME NEW c \in Contexts, GateSends(c) \/ GateReplies(c) \/ Complete(c) PROVE Typed'
  BY <1>3 DEF GateSends, GateReplies, Complete, Finish, Move, Stages, Answers, Statuses
<1>4. ASSUME NEW w \in Workers, Dequeue(w) PROVE Typed'
  <2>1. Head(tasks_) \in Contexts /\ tasks_' \in Seq(Contexts)
    BY <1>4 DEF Dequeue
  <2> QED
    BY <1>4, <2>1 DEF Dequeue, Goto, Move, Stages, Places
<1>5. ASSUME NEW w \in Workers, NEW g \in Gates, HGetOnline(w, g) PROVE Typed'
  BY <1>5 DEF HGetOnline, Goto, Places
<1>6. ASSUME NEW w \in Workers, HGetOffline(w) \/ HGetThrows(w) \/ StartCall(w) PROVE Typed'
  <2>1. context[w] \in Contexts
    BY <1>6 DEF HGetOffline, HGetThrows, StartCall
  <2>2. /\ stage' \in [Contexts -> Stages] /\ done' \subseteq Contexts /\ cq_' \subseteq Contexts
        /\ answer' \in [Contexts -> Answers]
    BY <1>6, <2>1 DEF HGetOffline, HGetThrows, StartCall, Finish, Move, Stages, Answers
  <2>3. Return(w)
    BY <1>6 DEF HGetOffline, HGetThrows, StartCall
  <2>4. /\ pc' \in [Workers -> Places]
        /\ context' \in [Workers -> Contexts \cup {NoContext}]
        /\ gate' \in [Workers -> Gates \cup {NoGate}]
        /\ stub' \in [Workers -> Stubs \cup {NoStub}]
    BY <2>3 DEF Return, Goto, Places
  <2>5. \A v \in Workers :
          pc'[v] # "idle" => /\ pc'[v] = pc[v] /\ context'[v] = context[v]
                             /\ gate'[v] = gate[v] /\ stub'[v] = stub[v]
    BY <2>3 DEF Return, Goto
  <2> QED
    BY <1>6, <2>2, <2>4, <2>5 DEF HGetOffline, HGetThrows, StartCall
<1>7. ASSUME NEW w \in Workers, Find(w) \/ Prepare(w) \/ PrepareCrashes(w) PROVE Typed'
  BY <1>7 DEF Find, Prepare, PrepareCrashes, Goto, Places
<1>8. ASSUME NEW w \in Workers, Create(w) PROVE Typed'
  <2>0. gate[w] \in Gates
    BY <1>8 DEF Create
  <2>1. gate[w] \in Gates /\ made[gate[w]] \in [Workers -> Nat] /\ made[gate[w]][w] + 1 \in Nat \ {0}
    BY <2>0
  <2>2. <<w, made[gate[w]][w] + 1>> \in Stubs
    BY <2>1 DEF Stubs
  <2>3. made' \in [Gates -> [Workers -> Nat]]
    BY <1>8, <2>1 DEF Create
  <2> QED
    BY <1>8, <2>2, <2>3 DEF Create, Goto, Places
<1>9. ASSUME NEW w \in Workers, Insert(w) PROVE Typed'
  <2>1. gate[w] \in Gates /\ stub[w] \in Stubs
    BY <1>9 DEF Insert
  <2>2. freed' \subseteq Gates \X Stubs
    BY <1>9, <2>1 DEF Insert
  <2>3. stubs_' \in [Gates -> Stubs \cup {NoStub}]
    BY <1>9, <2>1 DEF Insert
  <2> QED
    BY <1>9, <2>2, <2>3 DEF Insert, Goto, Places
<1>10. ASSUME NEW w \in Workers, Load(w) PROVE Typed'
  BY <1>10 DEF Load, Goto, Places
<1>11. CASE UNCHANGED vars
  BY <1>11 DEF vars
<1> QED
  BY <1>1, <1>2, <1>3, <1>4, <1>5, <1>6, <1>7, <1>8, <1>9, <1>10, <1>11 DEF Next, Run, Work

\* The types of the push server's variables.
THEOREM TypeCorrect == Spec => []TypeOK
<1> QED
  BY TypedInit, TypedNext, PTL DEF Spec, Typed

-----------------------------------------------------------------------------
\* A worker that has made a stub for a gate has put it in the table or is about
\* to, and an entry is never removed: it does not make another.
StubInv ==
  \A g \in Gates, w \in Workers :
    /\ made[g][w] <= 1
    /\ made[g][w] # 0 => stubs_[g] # NoStub \/ (pc[w] = "insert" /\ gate[w] = g)
    /\ pc[w] = "create" /\ gate[w] = g => made[g][w] = 0

LEMMA StubNext == Typed /\ StubInv /\ [Next]_vars => StubInv'
<1> SUFFICES ASSUME Typed, StubInv, [Next]_vars PROVE StubInv'
  OBVIOUS
<1> USE DEF Typed, TypeOK, Found, StubInv, wvars, stubvars, loopvars
<1>1. ASSUME NEW c \in Contexts,
             \/ Call(c) \/ CallDies(c) \/ Run(c)
             \/ GateSends(c) \/ GateReplies(c) \/ Complete(c)
      PROVE  StubInv'
  BY <1>1
  DEF Call, CallDies, Run, RunAccept, RunDone, RunAbort, GateSends, GateReplies, Complete
<1>2. ASSUME NEW w \in Workers,
             \/ Dequeue(w) \/ HGetOffline(w) \/ HGetThrows(w) \/ (\E g \in Gates : HGetOnline(w, g))
             \/ Load(w) \/ Prepare(w) \/ PrepareCrashes(w) \/ StartCall(w)
      PROVE  StubInv'
  BY <1>2
  DEF Dequeue, HGetOffline, HGetThrows, HGetOnline, Load, Prepare, PrepareCrashes, StartCall,
      Return, Goto
<1>3. ASSUME NEW w \in Workers, Find(w) PROVE StubInv'
  BY <1>3 DEF Find, Goto
<1>4. ASSUME NEW w \in Workers, Create(w) PROVE StubInv'
  <2>1. gate[w] \in Gates /\ made[gate[w]][w] = 0
    BY <1>4 DEF Create
  <2>2. \A g \in Gates, v \in Workers :
          made'[g][v] = IF g = gate[w] /\ v = w THEN 1 ELSE made[g][v]
    BY <1>4, <2>1 DEF Create
  <2>3. /\ pc' = [pc EXCEPT ![w] = "insert"] /\ pc[w] = "create"
        /\ gate' = gate /\ stubs_' = stubs_
    BY <1>4 DEF Create, Goto
  <2> QED
    BY <2>1, <2>2, <2>3
<1>5. ASSUME NEW w \in Workers, Insert(w) PROVE StubInv'
  <2>1. stub[w] # NoStub /\ gate[w] \in Gates
    BY <1>5, PushAssumption DEF Insert
  <2> QED
    BY <1>5, <2>1 DEF Insert, Goto
<1>6. CASE UNCHANGED vars
  BY <1>6 DEF vars
<1> QED
  BY <1>1, <1>2, <1>3, <1>4, <1>5, <1>6 DEF Next, Work

\* A worker makes at most one stub for a gate, although the look-up and the
\* insertion take the lock one after the other.
THEOREM OneStubPerWorkerCorrect == Spec => []OneStubPerWorker
<1>1. Init => StubInv
  BY DEF Init, StubInv
<1>2. StubInv => OneStubPerWorker
  BY DEF StubInv, OneStubPerWorker
<1> QED
  BY <1>1, <1>2, TypedInit, TypedNext, StubNext, PTL DEF Spec

\* Once a gate has a stub and no worker is about to insert another, that stub
\* is never replaced or destroyed.
THEOREM SettledForeverCorrect == Spec => SettledForever
<1> DEFINE Stays == \A g \in Gates : Settled(g) => Settled(g)' /\ stubs_'[g] = stubs_[g]
<1>1. Typed /\ [Next]_vars => Stays
  <2> SUFFICES ASSUME Typed, [Next]_vars, NEW g \in Gates, Settled(g)
               PROVE  Settled(g)' /\ stubs_'[g] = stubs_[g]
    OBVIOUS
  <2> USE DEF Typed, TypeOK, Found, Settled, wvars, stubvars, loopvars
  <2>1. ASSUME NEW c \in Contexts,
               \/ Call(c) \/ CallDies(c) \/ Run(c)
               \/ GateSends(c) \/ GateReplies(c) \/ Complete(c)
        PROVE  Settled(g)' /\ stubs_'[g] = stubs_[g]
    BY <2>1
    DEF Call, CallDies, Run, RunAccept, RunDone, RunAbort, GateSends, GateReplies, Complete
  <2>2. ASSUME NEW w \in Workers, Work(w)
        PROVE  Settled(g)' /\ stubs_'[g] = stubs_[g]
    <3>1. CASE \/ Dequeue(w) \/ HGetOffline(w) \/ HGetThrows(w) \/ (\E h \in Gates : HGetOnline(w, h))
               \/ Load(w) \/ Prepare(w) \/ PrepareCrashes(w) \/ StartCall(w)
      BY <3>1
      DEF Dequeue, HGetOffline, HGetThrows, HGetOnline, Load, Prepare, PrepareCrashes, StartCall,
          Return, Goto
    <3>2. CASE Find(w)
      BY <3>2 DEF Find, Goto
    <3>3. CASE Create(w)
      BY <3>3 DEF Create, Goto
    <3>4. CASE Insert(w)
      BY <3>4 DEF Insert, Goto
    <3> QED
      BY <2>2, <3>1, <3>2, <3>3, <3>4 DEF Work
  <2>3. CASE UNCHANGED vars
    BY <2>3 DEF vars
  <2> QED
    BY <2>1, <2>2, <2>3 DEF Next
<1> QED
  BY <1>1, TypedInit, TypedNext, PTL DEF Spec, SettledForever
-----------------------------------------------------------------------------
(***************************************************************************)
(* The refinement.  A context is in one place at a time, so that nothing    *)
(* but its one owner moves it on.                                           *)
(***************************************************************************)

\* A tag in the completion queue that is not done is a new call.
LoopOwns == \A c \in cq_ \ done : stage[c] = "called"

\* A queued context is queued once.
QueueOwns ==
  /\ \A i \in DOMAIN tasks_ : stage[tasks_[i]] = "queued"
  /\ \A i, j \in DOMAIN tasks_ : tasks_[i] = tasks_[j] => i = j

\* A context in a task has one worker.
WorkerOwns ==
  \A w \in Workers :
    pc[w] # "idle" =>
      /\ stage[context[w]] = "worker"
      /\ \A v \in Workers : pc[v] # "idle" /\ context[v] = context[w] => v = w

\* Only a finished call has an answer, and a gate says OK of what it has sent.
AnswersOwned ==
  \A c \in Contexts :
    /\ c \in done <=> stage[c] = "finished"
    /\ stage[c] # "finished" => answer[c] = "none"
    /\ stage[c] = "replied" => status[c] # "none"
    /\ status[c] # "none" => stage[c] \in {"replied", "finished"}
    /\ status[c] = "ok" => c \in reached

Owned == LoopOwns /\ QueueOwns /\ WorkerOwns /\ AnswersOwned

\* A queue without its head is its other elements, one place further up.
LEMMA HeadTail ==
  ASSUME NEW S, NEW s \in Seq(S), s # <<>>
  PROVE  /\ 1 \in DOMAIN s /\ Head(s) = s[1] /\ Head(s) \in S
         /\ \A i \in DOMAIN Tail(s) :
              /\ i \in Nat \ {0} /\ i + 1 \in DOMAIN s
              /\ Tail(s)[i] = s[i + 1] /\ Tail(s)[i] \in S
OBVIOUS

\* A queue with a new element at its end.
LEMMA Appended ==
  ASSUME NEW S, NEW s \in Seq(S), NEW e \in S
  PROVE  \A i \in DOMAIN Append(s, e) :
           \/ i \in DOMAIN s /\ Append(s, e)[i] = s[i] /\ s[i] \in S
           \/ i = Len(s) + 1 /\ Append(s, e)[i] = e /\ i \notin DOMAIN s
OBVIOUS

LEMMA OwnedInit == Init => Owned
BY DEF Init, Owned, LoopOwns, QueueOwns, WorkerOwns, AnswersOwned

LEMMA OwnedNext == Typed /\ Owned /\ [Next]_vars => Owned'
<1> SUFFICES ASSUME Typed, Owned, [Next]_vars PROVE Owned'
  OBVIOUS
<1> USE DEF Typed, TypeOK, Found, Owned, wvars, stubvars, loopvars
<1>1. ASSUME NEW c \in Contexts, Call(c) PROVE Owned'
  <2>1. LoopOwns'
    BY <1>1 DEF Call, Move, LoopOwns
  <2>2. QueueOwns'
    BY <1>1 DEF Call, Move, QueueOwns
  <2>3. WorkerOwns'
    BY <1>1 DEF Call, Move, WorkerOwns
  <2>4. AnswersOwned'
    BY <1>1 DEF Call, Move, AnswersOwned
  <2> QED
    BY <2>1, <2>2, <2>3, <2>4
<1>2. ASSUME NEW c \in Contexts, CallDies(c) \/ RunDone(c) \/ RunAbort(c) PROVE Owned'
  BY <1>2 DEF CallDies, RunDone, RunAbort, LoopOwns, QueueOwns, WorkerOwns, AnswersOwned
<1>3. ASSUME NEW c \in Contexts, RunAccept(c) PROVE Owned'
  <2>0. stage[c] = "called"
    BY <1>3 DEF RunAccept, LoopOwns
  <2>1. /\ stage'[c] = "queued"
        /\ \A d \in Contexts \ {c} : stage'[d] = stage[d] \/ (stage[d] = "fresh" /\ stage'[d] = "armed")
    BY <1>3, <2>0 DEF RunAccept, Move
  <2>2. LoopOwns'
    BY <1>3, <2>1 DEF RunAccept, LoopOwns
  <2>3. QueueOwns'
    <3>1. tasks_' = Append(tasks_, c)
      BY <1>3 DEF RunAccept
    <3>2. \A i \in DOMAIN tasks_' :
            \/ i \in DOMAIN tasks_ /\ tasks_'[i] = tasks_[i] /\ tasks_[i] \in Contexts
            \/ i = Len(tasks_) + 1 /\ tasks_'[i] = c /\ i \notin DOMAIN tasks_
      BY <3>1, Appended
    <3>3. \A i \in DOMAIN tasks_ : stage[tasks_[i]] = "queued" /\ tasks_[i] # c
      BY <2>0 DEF QueueOwns
    <3>4. \A i \in DOMAIN tasks_' : stage'[tasks_'[i]] = "queued"
      BY <2>1, <3>2, <3>3
    <3>5. \A i, j \in DOMAIN tasks_' : tasks_'[i] = tasks_'[j] => i = j
      <4> SUFFICES ASSUME NEW i \in DOMAIN tasks_', NEW j \in DOMAIN tasks_',
                          tasks_'[i] = tasks_'[j]
                   PROVE  i = j
        OBVIOUS
      <4>1. \/ i \in DOMAIN tasks_ /\ tasks_'[i] = tasks_[i]
            \/ i = Len(tasks_) + 1 /\ tasks_'[i] = c
        BY <3>2
      <4>2. \/ j \in DOMAIN tasks_ /\ tasks_'[j] = tasks_[j]
            \/ j = Len(tasks_) + 1 /\ tasks_'[j] = c
        BY <3>2
      <4>3. \A k, m \in DOMAIN tasks_ : tasks_[k] = tasks_[m] => k = m
        BY DEF QueueOwns
      <4> QED
        BY <3>3, <4>1, <4>2, <4>3, Zenon
    <3> QED
      BY <3>4, <3>5 DEF QueueOwns
  <2>4. WorkerOwns'
    BY <1>3, <2>0, <2>1 DEF RunAccept, WorkerOwns
  <2>5. AnswersOwned'
    BY <1>3, <2>0, <2>1 DEF RunAccept, AnswersOwned
  <2> QED
    BY <2>2, <2>3, <2>4, <2>5
<1>4. ASSUME NEW w \in Workers, Dequeue(w) PROVE Owned'
  <2> DEFINE c == Head(tasks_)
  <2>1. /\ tasks_ # <<>> /\ tasks_' = Tail(tasks_)
        /\ 1 \in DOMAIN tasks_ /\ c = tasks_[1] /\ c \in Contexts
        /\ \A i \in DOMAIN tasks_' :
             /\ i \in Nat \ {0} /\ i + 1 \in DOMAIN tasks_
             /\ tasks_'[i] = tasks_[i + 1] /\ tasks_'[i] \in Contexts
    BY <1>4, HeadTail DEF Dequeue
  <2> HIDE DEF c
  <2>2. stage[c] = "queued"
    BY <2>1 DEF QueueOwns
  <2>3. stage'[c] = "worker" /\ \A d \in Contexts \ {c} : stage'[d] = stage[d]
    BY <1>4, <2>1 DEF Dequeue, Move, c
  <2>4. LoopOwns'
    BY <1>4, <2>2, <2>3 DEF Dequeue, LoopOwns
  <2>5. QueueOwns'
    <3>1. \A i \in DOMAIN tasks_' : tasks_'[i] # c
      BY <2>1 DEF QueueOwns
    <3>2. \A i \in DOMAIN tasks_' : stage'[tasks_'[i]] = "queued"
      BY <2>1, <2>3, <3>1 DEF QueueOwns
    <3>3. \A i, j \in DOMAIN tasks_' : tasks_'[i] = tasks_'[j] => i = j
      BY <2>1 DEF QueueOwns
    <3> QED
      BY <3>2, <3>3 DEF QueueOwns
  <2>6. WorkerOwns'
    <3>1. /\ pc' = [pc EXCEPT ![w] = "hget"] /\ pc[w] = "idle"
          /\ context' = [context EXCEPT ![w] = c]
      BY <1>4 DEF Dequeue, Goto, c
    <3>2. \A v \in Workers : pc[v] # "idle" => context[v] # c
      BY <2>2 DEF WorkerOwns
    <3> QED
      BY <2>3, <3>1, <3>2 DEF WorkerOwns
  <2>7. AnswersOwned'
    BY <1>4, <2>2, <2>3 DEF Dequeue, AnswersOwned
  <2> QED
    BY <2>4, <2>5, <2>6, <2>7
<1>5. ASSUME NEW w \in Workers,
             \/ (\E g \in Gates : HGetOnline(w, g)) \/ Find(w) \/ Create(w) \/ Insert(w) \/ Load(w)
             \/ Prepare(w) \/ PrepareCrashes(w)
      PROVE  Owned'
  <2>1. /\ stage' = stage /\ cq_' = cq_ /\ tasks_' = tasks_ /\ done' = done /\ context' = context
        /\ status' = status /\ reached' = reached /\ answer' = answer
    BY <1>5 DEF HGetOnline, Find, Create, Insert, Load, Prepare, PrepareCrashes
  <2>2. \A v \in Workers : pc'[v] # "idle" => pc[v] # "idle"
    BY <1>5 DEF HGetOnline, Find, Create, Insert, Load, Prepare, PrepareCrashes, Goto
  <2> QED
    BY <2>1, <2>2 DEF LoopOwns, QueueOwns, WorkerOwns, AnswersOwned
<1>6. ASSUME NEW w \in Workers, HGetOffline(w) \/ HGetThrows(w) \/ StartCall(w) PROVE Owned'
  <2> DEFINE c == context[w]
  <2>1. c \in Contexts /\ stage[c] = "worker"
    BY <1>6 DEF HGetOffline, HGetThrows, StartCall, WorkerOwns
  <2>2. /\ stage'[c] \in {"finished", "lost", "calling"}
        /\ stage'[c] = "finished" <=> HGetOffline(w)
        /\ \A d \in Contexts \ {c} : stage'[d] = stage[d]
    BY <1>6, <2>1 DEF HGetOffline, HGetThrows, StartCall, Finish, Move
  <2>3. /\ tasks_' = tasks_ /\ status' = status /\ reached' = reached
        /\ done' = IF HGetOffline(w) THEN done \cup {c} ELSE done
        /\ cq_' = IF HGetOffline(w) THEN cq_ \cup {c} ELSE cq_
        /\ \A d \in Contexts \ {c} : answer'[d] = answer[d]
        /\ ~HGetOffline(w) => answer' = answer
    BY <1>6, <2>1 DEF HGetOffline, HGetThrows, StartCall, Finish
  <2>4. LoopOwns'
    BY <2>1, <2>2, <2>3 DEF LoopOwns
  <2>5. QueueOwns'
    BY <2>1, <2>2, <2>3 DEF QueueOwns
  <2>6. WorkerOwns'
    <3>1. \A v \in Workers : pc'[v] # "idle" => v # w /\ pc[v] # "idle" /\ context'[v] = context[v]
      BY <1>6 DEF HGetOffline, HGetThrows, StartCall, Return, Goto
    <3>2. \A v \in Workers : pc'[v] # "idle" => context[v] # c
      BY <1>6, <3>1 DEF HGetOffline, HGetThrows, StartCall, WorkerOwns
    <3> QED
      BY <2>2, <3>1, <3>2 DEF WorkerOwns
  <2>7. AnswersOwned'
    BY <2>1, <2>2, <2>3 DEF AnswersOwned
  <2> QED
    BY <2>4, <2>5, <2>6, <2>7
<1>7. ASSUME NEW c \in Contexts, GateSends(c) PROVE Owned'
  BY <1>7 DEF GateSends, LoopOwns, QueueOwns, WorkerOwns, AnswersOwned
<1>8. ASSUME NEW c \in Contexts, GateReplies(c) \/ Complete(c) PROVE Owned'
  <2>1. stage[c] \in {"calling", "replied"}
    BY <1>8 DEF GateReplies, Complete
  <2>2. /\ stage'[c] \in {"replied", "finished"}
        /\ \A d \in Contexts \ {c} : stage'[d] = stage[d]
        /\ tasks_' = tasks_ /\ pc' = pc /\ context' = context
    BY <1>8 DEF GateReplies, Complete, Finish, Move
  <2>3. LoopOwns'
    BY <1>8, <2>1, <2>2 DEF GateReplies, Complete, Finish, LoopOwns
  <2>4. QueueOwns'
    BY <2>1, <2>2 DEF QueueOwns
  <2>5. WorkerOwns'
    BY <2>1, <2>2 DEF WorkerOwns
  <2>6. AnswersOwned'
    BY <1>8 DEF GateReplies, Complete, Finish, Move, AnswersOwned
  <2> QED
    BY <2>3, <2>4, <2>5, <2>6
<1>9. CASE UNCHANGED vars
  BY <1>9 DEF vars, LoopOwns, QueueOwns, WorkerOwns, AnswersOwned
<1> QED
  BY <1>1, <1>2, <1>3, <1>4, <1>5, <1>6, <1>7, <1>8, <1>9 DEF Next, Run, Work

Called == {c \in Contexts : stage[c] \notin {"fresh", "armed"}}

\* An answer given to an open call is a step of the abstract service.
LEMMA FinishAnswers ==
  ASSUME Typed, NEW c \in Contexts, NEW a \in {"ok", "failed"},
         Finish(c, a), UNCHANGED reached,
         stage[c] \in {"worker", "replied"}, answer[c] = "none", a = "ok" => c \in reached
  PROVE  Service!Next
<1>1. c \in Called
  BY DEF Called
<1>2. Called' = Called
  BY DEF Called, Finish, Move, Typed, TypeOK
<1>3. Service!Answer(c, a)
  BY <1>1, <1>2 DEF Service!Answer, Finish, Called
<1> QED
  BY <1>3 DEF Service!Next

\* A step that answers and sends nothing and moves no context into or out of
\* a call is a stutter.
LEMMA Stutters ==
  ASSUME UNCHANGED <<reached, answer>>, Called' = Called
  PROVE  UNCHANGED Service!vars
BY DEF Service!vars, Called

\* Every step of the server is a step of the abstract service or a stutter.
LEMMA StepSimulation == Typed /\ Owned /\ [Next]_vars => [Service!Next]_(Service!vars)
<1> SUFFICES ASSUME Typed, Owned, [Next]_vars PROVE Service!Next \/ UNCHANGED Service!vars
  OBVIOUS
<1> USE DEF Typed, TypeOK, Found, Owned, wvars, stubvars, loopvars
<1>1. ASSUME NEW c \in Contexts, Call(c) PROVE Service!Next
  <2>1. Called' = Called \cup {c}
    BY <1>1 DEF Called, Call, Move
  <2>2. Service!Call(c)
    BY <1>1, <2>1 DEF Call, Called, Service!Call
  <2> QED
    BY <2>2 DEF Service!Next
<1>2. ASSUME NEW c \in Contexts, GateSends(c) PROVE Service!Next
  <2>1. c \in Called /\ Called' = Called
    BY <1>2 DEF Called, GateSends, AnswersOwned
  <2>2. Service!Reach(c)
    BY <1>2, <2>1 DEF GateSends, Called, Service!Reach
  <2> QED
    BY <2>2 DEF Service!Next
<1>3. ASSUME NEW c \in Contexts, Complete(c) PROVE Service!Next
  <2> DEFINE a == IF status[c] = "ok" THEN "ok" ELSE "failed"
  <2>1. /\ a \in {"ok", "failed"}
        /\ a = "ok" => c \in reached
        /\ answer[c] = "none" /\ stage[c] = "replied"
    BY <1>3 DEF Complete, AnswersOwned
  <2>2. Finish(c, a) /\ UNCHANGED reached
    BY <1>3 DEF Complete
  <2> HIDE DEF a
  <2> QED
    BY <2>1, <2>2, FinishAnswers
<1>4. ASSUME NEW w \in Workers, HGetOffline(w) PROVE Service!Next
  <2>1. context[w] \in Contexts /\ stage[context[w]] = "worker" /\ answer[context[w]] = "none"
    BY <1>4 DEF HGetOffline, WorkerOwns, AnswersOwned
  <2>2. Finish(context[w], "failed") /\ UNCHANGED reached
    BY <1>4 DEF HGetOffline
  <2> QED
    BY <2>1, <2>2, FinishAnswers
<1>5. ASSUME NEW c \in Contexts, CallDies(c) \/ Run(c) \/ GateReplies(c)
      PROVE  UNCHANGED Service!vars
  <2>1. UNCHANGED <<reached, answer>>
    BY <1>5 DEF CallDies, Run, RunAccept, RunDone, RunAbort, GateReplies
  <2>2. CASE RunAccept(c)
    <3>1. stage[c] = "called"
      BY <2>2 DEF RunAccept, LoopOwns
    <3>2. /\ stage'[c] = "queued"
          /\ \A d \in Contexts \ {c} : stage'[d] = stage[d] \/ (stage[d] = "fresh" /\ stage'[d] = "armed")
      BY <2>2, <3>1 DEF RunAccept, Move
    <3> QED
      BY <2>1, <3>1, <3>2, Stutters DEF Called
  <2>3. CASE CallDies(c) \/ RunDone(c) \/ RunAbort(c) \/ GateReplies(c)
    <3>1. Called' = Called
      BY <2>3 DEF CallDies, RunDone, RunAbort, GateReplies, Move, Called
    <3> QED
      BY <2>1, <3>1, Stutters
  <2> QED
    BY <1>5, <2>2, <2>3 DEF Run
<1>6. ASSUME NEW w \in Workers, Dequeue(w) PROVE UNCHANGED Service!vars
  <2>1. 1 \in DOMAIN tasks_ /\ Head(tasks_) = tasks_[1] /\ Head(tasks_) \in Contexts
    BY <1>6, HeadTail DEF Dequeue
  <2>2. stage[Head(tasks_)] = "queued"
    BY <2>1 DEF QueueOwns
  <2>3. Called' = Called /\ UNCHANGED <<reached, answer>>
    BY <1>6, <2>1, <2>2 DEF Dequeue, Move, Called
  <2> QED
    BY <2>3, Stutters
<1>7. ASSUME NEW w \in Workers, HGetThrows(w) \/ StartCall(w) PROVE UNCHANGED Service!vars
  <2>1. context[w] \in Contexts /\ stage[context[w]] = "worker"
    BY <1>7 DEF HGetThrows, StartCall, WorkerOwns
  <2>2. Called' = Called /\ UNCHANGED <<reached, answer>>
    BY <1>7, <2>1 DEF HGetThrows, StartCall, Move, Called
  <2> QED
    BY <2>2, Stutters
<1>8. ASSUME NEW w \in Workers,
             \/ (\E g \in Gates : HGetOnline(w, g)) \/ Find(w) \/ Create(w) \/ Insert(w) \/ Load(w)
             \/ Prepare(w) \/ PrepareCrashes(w)
      PROVE  UNCHANGED Service!vars
  <2>1. Called' = Called /\ UNCHANGED <<reached, answer>>
    BY <1>8 DEF HGetOnline, Find, Create, Insert, Load, Prepare, PrepareCrashes, Called
  <2> QED
    BY <2>1, Stutters
<1>9. CASE UNCHANGED vars
  <2>1. Called' = Called /\ UNCHANGED <<reached, answer>>
    BY <1>9 DEF vars, Called
  <2> QED
    BY <2>1, Stutters
<1> QED
  BY <1>1, <1>2, <1>3, <1>4, <1>5, <1>6, <1>7, <1>8, <1>9 DEF Next, Work

\* The push server implements the push service: a push is answered at most
\* once, and OK is said only of one that a gate has sent.
THEOREM ImplementsPushCorrect == Spec => ImplementsPush
<1>1. ASSUME Init PROVE Service!Init
  <2>1. \A c \in Contexts : stage[c] \in {"fresh", "armed"}
    BY <1>1 DEF Init
  <2>2. {c \in Contexts : stage[c] \notin {"fresh", "armed"}} = {}
    BY <2>1
  <2> QED
    BY <1>1, <2>2 DEF Init, Service!Init
<1> QED
  BY <1>1, TypedInit, TypedNext, OwnedInit, OwnedNext, StepSimulation, PTL
  DEF Spec, ImplementsPush, Service!Spec
=============================================================================
