------------------------- MODULE LogicServerProofs -------------------------
(***************************************************************************)
(* Proofs about LogicServer, for every set of contexts and workers, every   *)
(* mix of requests and every queue size.                                    *)
(*                                                                          *)
(* The safety properties are not inductive one by one: that a context is    *)
(* finished once depends on which thread owns it, and ownership moves       *)
(* between the queues, the threads, the table and librdkafka.  The          *)
(* inductive invariant says that there is a map st from the contexts to     *)
(* the stages of a call such that every structure of the server holds       *)
(* exactly the contexts of its stage, together with what is known of a      *)
(* context's fields at each stage.                                          *)
(***************************************************************************)
EXTENDS LogicServer, FiniteSetTheorems, TLAPS

Stages == {"fresh", "armed", "cq", "task", "work", "out", "report", "batch",
           "finish", "deleted"}

\* Where a worker owns the context it Handles, where that context is in the
\* table, and where its response is made.
WorkPlaces == {"handle", "produce", "erase", "failed"}
TablePlaces == {"produce", "erase"}

InLoop(st) ==
  /\ \A c \in Contexts : armed = c <=> st[c] = "armed"
  /\ \A c \in Contexts : c \in cq_ <=> st[c] = "cq"
  /\ \A c \in Contexts : life[c] = "fresh" <=> st[c] = "fresh"
  /\ \A c \in Contexts : life[c] = "deleted" <=> st[c] = "deleted"

\* The loop has one RequestHandle outstanding at a time: it arms a context when
\* it takes the call of the one before.
OneArmed ==
  \A c, d \in cq_ \ done_ : armed = NoContext /\ c = d

InTasks(st) ==
  /\ \A i \in 1..Len(tasks_) : st[tasks_[i]] = "task"
  /\ \A i, j \in 1..Len(tasks_) : tasks_[i] = tasks_[j] => i = j
  /\ \A c \in Contexts : st[c] = "task" => \E i \in 1..Len(tasks_) : tasks_[i] = c

InHandle(st) ==
  /\ \A w \in Workers : pc[w] \in WorkPlaces => cur[w] \in Contexts /\ st[cur[w]] = "work"
  /\ \A v, w \in Workers :
       pc[v] \in WorkPlaces /\ pc[w] \in WorkPlaces /\ cur[v] = cur[w] => v = w
  /\ \A c \in Contexts :
       st[c] = "work" => \E w \in Workers : pc[w] \in WorkPlaces /\ cur[w] = c

InKafka(st) ==
  /\ \A c \in Contexts : c \in outq <=> st[c] = "out"
  /\ \A c \in Contexts : c \in reports <=> st[c] = "report"

InDr(st) ==
  /\ \A w \in Workers : pc[w] \notin {"serve", "finish"} => batch[w] = {}
  /\ \A w \in Workers : pc[w] = "finish" => found[w] \in batch[w]
  /\ \A w \in Workers : \A c \in batch[w] :
       st[c] = IF pc[w] = "finish" /\ found[w] = c THEN "finish" ELSE "batch"
  /\ \A v, w \in Workers : \A c \in Contexts : c \in batch[v] /\ c \in batch[w] => v = w
  /\ \A c \in Contexts :
       st[c] \in {"batch", "finish"} => \E w \in Workers : c \in batch[w]

Registered(st) ==
  \A c \in Contexts :
    c \in rpc_contexts_ <=> \/ st[c] \in {"out", "report", "batch"}
                            \/ \E w \in Workers : pc[w] \in TablePlaces /\ cur[w] = c

\* A context has been finished exactly when it is done_, and then it is in the
\* completion queue for the second time, or deleted.
Counted(st) ==
  \A c \in Contexts :
    /\ finished[c] = IF c \in done_ THEN 1 ELSE 0
    /\ st[c] = "deleted" => c \in done_
    /\ c \in done_ => st[c] \in {"cq", "deleted"}
    /\ req_[c] = NoRequest <=> st[c] \in {"fresh", "armed"}

\* What the response of a context may say, given where its message is.
Truth(st) ==
  /\ \A c \in Contexts : st[c] \in {"out", "report", "batch", "finish"} =>
       resp_[c] = "ok" /\ req_[c] \in Publishable
  /\ \A c \in Contexts : st[c] \in {"report", "batch", "finish"} => c \in topic \cup err
  /\ \A w \in Workers : pc[w] \in {"produce", "erase", "failed"} =>
       resp_[cur[w]] = "ok" /\ req_[cur[w]] \in Publishable
  /\ \A c \in Contexts : c \in done_ /\ resp_[c] = "ok" => c \in topic \/ req_[c] = "Login"
  /\ \A c \in topic \cup err : \/ st[c] \in {"out", "report", "batch", "finish"}
                               \/ c \in done_ /\ resp_[c] \in {"ok", "kafka_error"}
  /\ \A c \in topic \cup err : req_[c] \in Publishable
  /\ \A c \in err : st[c] # "out"

Sites(st) ==
  /\ InLoop(st)
  /\ OneArmed
  /\ InTasks(st)
  /\ InHandle(st)
  /\ InKafka(st)
  /\ InDr(st)
  /\ Registered(st)
  /\ Counted(st)
  /\ Truth(st)

IndInv == TypeOK /\ \E st \in [Contexts -> Stages] : Sites(st)

-----------------------------------------------------------------------------

\* A worker inside Handle owns its context alone: nothing has been produced or
\* answered for it.
LEMMA WorkFacts ==
  ASSUME TypeOK, NEW st \in [Contexts -> Stages], Sites(st),
         NEW w \in Workers, pc[w] \in WorkPlaces
  PROVE  /\ cur[w] \in Contexts /\ st[cur[w]] = "work"
         /\ cur[w] \notin done_
         /\ cur[w] \notin topic \cup err
         /\ \A v \in Workers : pc[v] \in WorkPlaces /\ cur[v] = cur[w] => v = w
<1>1. /\ cur[w] \in Contexts /\ st[cur[w]] = "work"
      /\ \A v \in Workers : pc[v] \in WorkPlaces /\ cur[v] = cur[w] => v = w
  BY DEF Sites, InHandle
<1>2. cur[w] \notin done_
  BY <1>1 DEF Sites, Counted
<1>3. cur[w] \notin topic \cup err
  BY <1>1, <1>2 DEF Sites, Truth
<1> QED
  BY <1>1, <1>2, <1>3

\* A worker inside dr_cb owns the context it took out of the table.
LEMMA FoundFacts ==
  ASSUME TypeOK, NEW st \in [Contexts -> Stages], Sites(st),
         NEW w \in Workers, pc[w] = "finish"
  PROVE  /\ found[w] \in Contexts /\ found[w] \in batch[w]
         /\ st[found[w]] = "finish" /\ found[w] \notin done_
         /\ resp_[found[w]] = "ok" /\ found[w] \in topic \cup err
<1>1. found[w] \in batch[w] /\ st[found[w]] = "finish"
  BY DEF Sites, InDr
<1>2. found[w] \in Contexts
  BY <1>1 DEF TypeOK
<1>3. found[w] \notin done_
  BY <1>1, <1>2 DEF Sites, Counted
<1>4. resp_[found[w]] = "ok" /\ found[w] \in topic \cup err
  BY <1>1, <1>2 DEF Sites, Truth
<1> QED
  BY <1>1, <1>2, <1>3, <1>4

\* A step that leaves the pool's queue alone, and moves no context into or out
\* of it.
LEMMA TasksKept ==
  ASSUME TypeOK, NEW st \in [Contexts -> Stages], NEW s \in [Contexts -> Stages],
         InTasks(st), tasks_' = tasks_,
         \A c \in Contexts : st[c] = "task" <=> s[c] = "task"
  PROVE  InTasks(s)'
BY DEF TypeOK, InTasks

\* A call moves the armed context to the completion queue.
LEMMA CallStep ==
  ASSUME TypeOK, NEW st \in [Contexts -> Stages], Sites(st), NEW k \in Requests, Call(k)
  PROVE  IndInv'
<1> USE ConstantsAssumption DEF Call, Goto, ctxvars, loopvars, wvars, kafkavars
<1>a. PICK a \in Contexts : a = armed
  BY DEF TypeOK
<1> DEFINE s == [st EXCEPT ![a] = "cq"]
<1>0. "cq" \in Stages
  BY DEF Stages, Responses, Places
<1>1. /\ st[a] = "armed" /\ s \in [Contexts -> Stages] /\ k # NoRequest
      /\ \A w \in Workers : pc[w] \in WorkPlaces => cur[w] # a
  BY <1>a, <1>0 DEF TypeOK, Sites, InLoop, InHandle
<1>2. TypeOK'
  BY <1>a, <1>0, <1>1 DEF TypeOK
<1>3. InLoop(s)'
  BY <1>a, <1>0, <1>1 DEF TypeOK, Sites, InLoop
<1>4. OneArmed'
  BY <1>a, <1>0, <1>1 DEF TypeOK, Sites, OneArmed
<1>5. InTasks(s)'
  BY <1>a, <1>0, <1>1, TasksKept DEF Sites
<1>6. InHandle(s)'
  BY <1>a, <1>0, <1>1 DEF TypeOK, Sites, InHandle
<1>7. InKafka(s)'
  BY <1>a, <1>0, <1>1 DEF TypeOK, Sites, InKafka
<1>8. InDr(s)'
  BY <1>a, <1>0, <1>1 DEF TypeOK, Sites, InDr
<1>9. Registered(s)'
  BY <1>a, <1>0, <1>1 DEF TypeOK, Sites, Registered, WorkPlaces, TablePlaces
<1>10. Counted(s)'
  BY <1>a, <1>0, <1>1 DEF TypeOK, Sites, Counted
<1>11. Truth(s)'
  <2>1. a \notin topic \cup err /\ a \notin done_
    BY <1>1 DEF Sites, Truth, Counted
  <2>2. \A w \in Workers : pc[w] \in {"produce", "erase", "failed"} =>
          resp_[cur[w]] = "ok" /\ req_'[cur[w]] \in Publishable
    BY <1>a, <1>1 DEF TypeOK, Sites, Truth, WorkPlaces
  <2> QED
    BY <1>a, <1>1, <2>1, <2>2 DEF TypeOK, Sites, Truth
<1> QED
  BY <1>1, <1>2, <1>3, <1>4, <1>5, <1>6, <1>7, <1>8, <1>9, <1>10, <1>11 DEF IndInv, Sites

\* A dying call moves no context.
LEMMA CallDiesStep ==
  ASSUME TypeOK, NEW st \in [Contexts -> Stages], Sites(st), NEW c \in Contexts, CallDies(c)
  PROVE  IndInv'
<1> USE ConstantsAssumption DEF CallDies, Goto, ctxvars, loopvars, wvars, kafkavars
<1>1. c \in Contexts
  BY DEF TypeOK
<1>2. TypeOK'
  BY <1>1 DEF TypeOK
<1>3. InLoop(st)'
  BY <1>1 DEF TypeOK, Sites, InLoop
<1>4. OneArmed'
  BY <1>1 DEF TypeOK, Sites, OneArmed
<1>5. InTasks(st)'
  BY <1>1, TasksKept DEF Sites
<1>6. InHandle(st)'
  BY <1>1 DEF TypeOK, Sites, InHandle
<1>7. InKafka(st)'
  BY <1>1 DEF TypeOK, Sites, InKafka
<1>8. InDr(st)'
  BY <1>1 DEF TypeOK, Sites, InDr
<1>9. Registered(st)'
  BY <1>1 DEF TypeOK, Sites, Registered
<1>10. Counted(st)'
  BY <1>1 DEF TypeOK, Sites, Counted
<1>11. Truth(st)'
  BY <1>1 DEF TypeOK, Sites, Truth
<1> QED
  BY <1>1, <1>2, <1>3, <1>4, <1>5, <1>6, <1>7, <1>8, <1>9, <1>10, <1>11 DEF IndInv, Sites

\* Run deletes a context whose Finish completed.
LEMMA RunDeleteStep ==
  ASSUME TypeOK, NEW st \in [Contexts -> Stages], Sites(st), NEW c \in Contexts, RunDelete(c)
  PROVE  IndInv'
<1> USE ConstantsAssumption DEF RunDelete, Goto, ctxvars, loopvars, wvars, kafkavars
<1> DEFINE s == [st EXCEPT ![c] = "deleted"]
<1>0. "deleted" \in Stages
  BY DEF Stages, Responses, Places
<1>1. st[c] = "cq" /\ s \in [Contexts -> Stages]
  BY <1>0 DEF TypeOK, Sites, InLoop
<1>2. TypeOK'
  BY <1>0, <1>1 DEF TypeOK
<1>3. InLoop(s)'
  BY <1>0, <1>1 DEF TypeOK, Sites, InLoop
<1>4. OneArmed'
  BY <1>0, <1>1 DEF TypeOK, Sites, OneArmed
<1>5. InTasks(s)'
  BY <1>0, <1>1, TasksKept DEF Sites
<1>6. InHandle(s)'
  BY <1>0, <1>1 DEF TypeOK, Sites, InHandle
<1>7. InKafka(s)'
  BY <1>0, <1>1 DEF TypeOK, Sites, InKafka
<1>8. InDr(s)'
  BY <1>0, <1>1 DEF TypeOK, Sites, InDr
<1>9. Registered(s)'
  BY <1>0, <1>1 DEF TypeOK, Sites, Registered, InHandle, WorkPlaces, TablePlaces
<1>10. Counted(s)'
  BY <1>0, <1>1 DEF TypeOK, Sites, Counted
<1>11. Truth(s)'
  BY <1>0, <1>1 DEF TypeOK, Sites, Truth, InHandle, WorkPlaces
<1> QED
  BY <1>1, <1>2, <1>3, <1>4, <1>5, <1>6, <1>7, <1>8, <1>9, <1>10, <1>11 DEF IndInv, Sites

\* An abort moves no context.
LEMMA RunAbortStep ==
  ASSUME TypeOK, NEW st \in [Contexts -> Stages], Sites(st), NEW c \in Contexts, RunAbort(c)
  PROVE  IndInv'
<1> USE ConstantsAssumption DEF RunAbort, Goto, ctxvars, loopvars, wvars, kafkavars
<1>1. c \in Contexts
  BY DEF TypeOK
<1>2. TypeOK'
  BY <1>1 DEF TypeOK
<1>3. InLoop(st)'
  BY <1>1 DEF TypeOK, Sites, InLoop
<1>4. OneArmed'
  BY <1>1 DEF TypeOK, Sites, OneArmed
<1>5. InTasks(st)'
  BY <1>1, TasksKept DEF Sites
<1>6. InHandle(st)'
  BY <1>1 DEF TypeOK, Sites, InHandle
<1>7. InKafka(st)'
  BY <1>1 DEF TypeOK, Sites, InKafka
<1>8. InDr(st)'
  BY <1>1 DEF TypeOK, Sites, InDr
<1>9. Registered(st)'
  BY <1>1 DEF TypeOK, Sites, Registered
<1>10. Counted(st)'
  BY <1>1 DEF TypeOK, Sites, Counted
<1>11. Truth(st)'
  BY <1>1 DEF TypeOK, Sites, Truth
<1> QED
  BY <1>1, <1>2, <1>3, <1>4, <1>5, <1>6, <1>7, <1>8, <1>9, <1>10, <1>11 DEF IndInv, Sites

\* A login is answered at once.
LEMMA HandleLoginStep ==
  ASSUME TypeOK, NEW st \in [Contexts -> Stages], Sites(st), NEW w \in Workers, HandleLogin(w)
  PROVE  IndInv'
<1> USE ConstantsAssumption DEF HandleLogin, Goto, ctxvars, loopvars, wvars, kafkavars, Finish
<1>a. PICK a \in Contexts : a = cur[w]
  BY WorkFacts DEF TypeOK, WorkPlaces
<1> DEFINE s == [st EXCEPT ![a] = "cq"]
<1>0. "cq" \in Stages /\ "ok" \in Responses /\ "idle" \in Places
  BY DEF Stages, Responses, Places
<1>1. /\ st[a] = "work" /\ a \notin done_ /\ a \notin topic \cup err
      /\ \A v \in Workers : pc[v] \in WorkPlaces /\ cur[v] = a => v = w
      /\ s \in [Contexts -> Stages]
  BY <1>a, <1>0, WorkFacts DEF WorkPlaces
<1>p. /\ \A v \in Workers : /\ pc'[v] \in WorkPlaces <=> pc[v] \in WorkPlaces /\ v # w
                            /\ pc'[v] \in TablePlaces <=> pc[v] \in TablePlaces /\ v # w
                            /\ v # w => cur'[v] = cur[v]
      /\ pc[w] \notin TablePlaces
  BY DEF TypeOK, WorkPlaces, TablePlaces
<1>2. TypeOK'
  BY <1>a, <1>0, <1>1 DEF TypeOK
<1>3. InLoop(s)'
  BY <1>a, <1>0, <1>1 DEF TypeOK, Sites, InLoop
<1>4. OneArmed'
  BY <1>a, <1>0, <1>1 DEF TypeOK, Sites, OneArmed, Counted, InLoop
<1>5. InTasks(s)'
  BY <1>a, <1>0, <1>1, TasksKept DEF Sites
<1>6. InHandle(s)'
  BY <1>a, <1>0, <1>1, <1>p DEF TypeOK, Sites, InHandle
<1>7. InKafka(s)'
  BY <1>a, <1>0, <1>1 DEF TypeOK, Sites, InKafka
<1>8. InDr(s)'
  BY <1>a, <1>0, <1>1 DEF TypeOK, Sites, InDr
<1>9. Registered(s)'
  BY <1>a, <1>0, <1>1, <1>p DEF TypeOK, Sites, Registered
<1>10. Counted(s)'
  BY <1>a, <1>0, <1>1 DEF TypeOK, Sites, Counted
<1>11. Truth(s)'
  BY <1>a, <1>0, <1>1 DEF TypeOK, Sites, Truth, Counted, WorkPlaces
<1> QED
  BY <1>1, <1>2, <1>3, <1>4, <1>5, <1>6, <1>7, <1>8, <1>9, <1>10, <1>11 DEF IndInv, Sites

\* A refused request is answered at once.
LEMMA HandleRejectStep ==
  ASSUME TypeOK, NEW st \in [Contexts -> Stages], Sites(st), NEW w \in Workers, HandleReject(w)
  PROVE  IndInv'
<1> USE ConstantsAssumption DEF HandleReject, Goto, ctxvars, loopvars, wvars, kafkavars, Finish
<1>a. PICK a \in Contexts : a = cur[w]
  BY WorkFacts DEF TypeOK, WorkPlaces
<1> DEFINE s == [st EXCEPT ![a] = "cq"]
<1>0. "cq" \in Stages /\ "invalid_request" \in Responses /\ "idle" \in Places
  BY DEF Stages, Responses, Places
<1>1. /\ st[a] = "work" /\ a \notin done_ /\ a \notin topic \cup err
      /\ \A v \in Workers : pc[v] \in WorkPlaces /\ cur[v] = a => v = w
      /\ s \in [Contexts -> Stages]
  BY <1>a, <1>0, WorkFacts DEF WorkPlaces
<1>p. /\ \A v \in Workers : /\ pc'[v] \in WorkPlaces <=> pc[v] \in WorkPlaces /\ v # w
                            /\ pc'[v] \in TablePlaces <=> pc[v] \in TablePlaces /\ v # w
                            /\ v # w => cur'[v] = cur[v]
      /\ pc[w] \notin TablePlaces
  BY DEF TypeOK, WorkPlaces, TablePlaces
<1>2. TypeOK'
  BY <1>a, <1>0, <1>1 DEF TypeOK
<1>3. InLoop(s)'
  BY <1>a, <1>0, <1>1 DEF TypeOK, Sites, InLoop
<1>4. OneArmed'
  BY <1>a, <1>0, <1>1 DEF TypeOK, Sites, OneArmed, Counted, InLoop
<1>5. InTasks(s)'
  BY <1>a, <1>0, <1>1, TasksKept DEF Sites
<1>6. InHandle(s)'
  BY <1>a, <1>0, <1>1, <1>p DEF TypeOK, Sites, InHandle
<1>7. InKafka(s)'
  BY <1>a, <1>0, <1>1 DEF TypeOK, Sites, InKafka
<1>8. InDr(s)'
  BY <1>a, <1>0, <1>1 DEF TypeOK, Sites, InDr
<1>9. Registered(s)'
  BY <1>a, <1>0, <1>1, <1>p DEF TypeOK, Sites, Registered
<1>10. Counted(s)'
  BY <1>a, <1>0, <1>1 DEF TypeOK, Sites, Counted
<1>11. Truth(s)'
  BY <1>a, <1>0, <1>1 DEF TypeOK, Sites, Truth, Counted, WorkPlaces
<1> QED
  BY <1>1, <1>2, <1>3, <1>4, <1>5, <1>6, <1>7, <1>8, <1>9, <1>10, <1>11 DEF IndInv, Sites

\* A context whose Produce failed is answered.
LEMMA HandleFailedStep ==
  ASSUME TypeOK, NEW st \in [Contexts -> Stages], Sites(st), NEW w \in Workers, HandleFailed(w)
  PROVE  IndInv'
<1> USE ConstantsAssumption DEF HandleFailed, Goto, ctxvars, loopvars, wvars, kafkavars, Finish
<1>a. PICK a \in Contexts : a = cur[w]
  BY WorkFacts DEF TypeOK, WorkPlaces
<1> DEFINE s == [st EXCEPT ![a] = "cq"]
<1>0. "cq" \in Stages /\ "Produce_error" \in Responses /\ "idle" \in Places
  BY DEF Stages, Responses, Places
<1>1. /\ st[a] = "work" /\ a \notin done_ /\ a \notin topic \cup err
      /\ \A v \in Workers : pc[v] \in WorkPlaces /\ cur[v] = a => v = w
      /\ s \in [Contexts -> Stages]
  BY <1>a, <1>0, WorkFacts DEF WorkPlaces
<1>p. /\ \A v \in Workers : /\ pc'[v] \in WorkPlaces <=> pc[v] \in WorkPlaces /\ v # w
                            /\ pc'[v] \in TablePlaces <=> pc[v] \in TablePlaces /\ v # w
                            /\ v # w => cur'[v] = cur[v]
      /\ pc[w] \notin TablePlaces
  BY DEF TypeOK, WorkPlaces, TablePlaces
<1>2. TypeOK'
  BY <1>a, <1>0, <1>1 DEF TypeOK
<1>3. InLoop(s)'
  BY <1>a, <1>0, <1>1 DEF TypeOK, Sites, InLoop
<1>4. OneArmed'
  BY <1>a, <1>0, <1>1 DEF TypeOK, Sites, OneArmed, Counted, InLoop
<1>5. InTasks(s)'
  BY <1>a, <1>0, <1>1, TasksKept DEF Sites
<1>6. InHandle(s)'
  BY <1>a, <1>0, <1>1, <1>p DEF TypeOK, Sites, InHandle
<1>7. InKafka(s)'
  BY <1>a, <1>0, <1>1 DEF TypeOK, Sites, InKafka
<1>8. InDr(s)'
  BY <1>a, <1>0, <1>1 DEF TypeOK, Sites, InDr
<1>9. Registered(s)'
  BY <1>a, <1>0, <1>1, <1>p DEF TypeOK, Sites, Registered
<1>10. Counted(s)'
  BY <1>a, <1>0, <1>1 DEF TypeOK, Sites, Counted
<1>11. Truth(s)'
  BY <1>a, <1>0, <1>1 DEF TypeOK, Sites, Truth, Counted, WorkPlaces
<1> QED
  BY <1>1, <1>2, <1>3, <1>4, <1>5, <1>6, <1>7, <1>8, <1>9, <1>10, <1>11 DEF IndInv, Sites

\* An accepted request is registered and stays with its worker.
LEMMA HandleAcceptStep ==
  ASSUME TypeOK, NEW st \in [Contexts -> Stages], Sites(st), NEW w \in Workers, HandleAccept(w)
  PROVE  IndInv'
<1> USE ConstantsAssumption DEF HandleAccept, Goto, ctxvars, loopvars, wvars, kafkavars
<1>a. PICK a \in Contexts : a = cur[w]
  BY WorkFacts DEF TypeOK, WorkPlaces
<1>0. "ok" \in Responses /\ "produce" \in Places
  BY DEF Stages, Responses, Places
<1>1. /\ st[a] = "work" /\ a \notin done_ /\ a \notin topic \cup err
      /\ \A v \in Workers : pc[v] \in WorkPlaces /\ cur[v] = a => v = w
  BY <1>a, <1>0, WorkFacts DEF WorkPlaces
<1>2. TypeOK'
  BY <1>a, <1>0, <1>1 DEF TypeOK
<1>3. InLoop(st)'
  BY <1>a, <1>0, <1>1 DEF TypeOK, Sites, InLoop
<1>4. OneArmed'
  BY <1>a, <1>0, <1>1 DEF TypeOK, Sites, OneArmed
<1>5. InTasks(st)'
  BY <1>a, <1>0, <1>1, TasksKept DEF Sites
<1>6. InHandle(st)'
  BY <1>a, <1>0, <1>1 DEF TypeOK, Sites, InHandle, WorkPlaces
<1>7. InKafka(st)'
  BY <1>a, <1>0, <1>1 DEF TypeOK, Sites, InKafka
<1>8. InDr(st)'
  BY <1>a, <1>0, <1>1 DEF TypeOK, Sites, InDr
<1>9. Registered(st)'
  BY <1>a, <1>0, <1>1 DEF TypeOK, Sites, Registered, InHandle, WorkPlaces, TablePlaces
<1>10. Counted(st)'
  BY <1>a, <1>0, <1>1 DEF TypeOK, Sites, Counted
<1>11. Truth(st)'
  BY <1>a, <1>0, <1>1 DEF TypeOK, Sites, Truth, Counted, WorkPlaces
<1> QED
  BY <1>1, <1>2, <1>3, <1>4, <1>5, <1>6, <1>7, <1>8, <1>9, <1>10, <1>11 DEF IndInv, Sites

\* produce hands the message to librdkafka.
LEMMA ProduceOkStep ==
  ASSUME TypeOK, NEW st \in [Contexts -> Stages], Sites(st), NEW w \in Workers, ProduceOk(w)
  PROVE  IndInv'
<1> USE ConstantsAssumption DEF ProduceOk, Goto, ctxvars, loopvars, wvars, kafkavars
<1>a. PICK a \in Contexts : a = cur[w]
  BY WorkFacts DEF TypeOK, WorkPlaces
<1> DEFINE s == [st EXCEPT ![a] = "out"]
<1>0. "out" \in Stages /\ "poll" \in Places
  BY DEF Stages, Responses, Places
<1>1. /\ st[a] = "work" /\ a \notin done_ /\ a \notin topic \cup err
      /\ \A v \in Workers : pc[v] \in WorkPlaces /\ cur[v] = a => v = w
      /\ s \in [Contexts -> Stages]
  BY <1>a, <1>0, WorkFacts DEF WorkPlaces
<1>p. \A v \in Workers : /\ pc'[v] \in WorkPlaces <=> pc[v] \in WorkPlaces /\ v # w
                         /\ pc'[v] \in TablePlaces <=> pc[v] \in TablePlaces /\ v # w
                         /\ v # w => cur'[v] = cur[v]
  BY DEF TypeOK, WorkPlaces, TablePlaces
<1>2. TypeOK'
  BY <1>a, <1>0, <1>1 DEF TypeOK
<1>3. InLoop(s)'
  BY <1>a, <1>0, <1>1 DEF TypeOK, Sites, InLoop
<1>4. OneArmed'
  BY <1>a, <1>0, <1>1 DEF TypeOK, Sites, OneArmed, Counted, InLoop
<1>5. InTasks(s)'
  BY <1>a, <1>0, <1>1, TasksKept DEF Sites
<1>6. InHandle(s)'
  BY <1>a, <1>0, <1>1, <1>p DEF TypeOK, Sites, InHandle
<1>7. InKafka(s)'
  BY <1>a, <1>0, <1>1 DEF TypeOK, Sites, InKafka
<1>8. InDr(s)'
  BY <1>a, <1>0, <1>1 DEF TypeOK, Sites, InDr
<1>9. Registered(s)'
  BY <1>a, <1>0, <1>1, <1>p DEF TypeOK, Sites, Registered, WorkPlaces, TablePlaces
<1>10. Counted(s)'
  BY <1>a, <1>0, <1>1 DEF TypeOK, Sites, Counted
<1>11. Truth(s)'
  BY <1>a, <1>0, <1>1 DEF TypeOK, Sites, Truth, Counted, WorkPlaces
<1> QED
  BY <1>1, <1>2, <1>3, <1>4, <1>5, <1>6, <1>7, <1>8, <1>9, <1>10, <1>11 DEF IndInv, Sites

\* A refused message stays with its worker.
LEMMA ProduceFailStep ==
  ASSUME TypeOK, NEW st \in [Contexts -> Stages], Sites(st), NEW w \in Workers, ProduceFail(w)
  PROVE  IndInv'
<1> USE ConstantsAssumption DEF ProduceFail, Goto, ctxvars, loopvars, wvars, kafkavars
<1>a. PICK a \in Contexts : a = cur[w]
  BY WorkFacts DEF TypeOK, WorkPlaces
<1>0. "erase" \in Places
  BY DEF Stages, Responses, Places
<1>1. /\ st[a] = "work" /\ a \notin done_ /\ a \notin topic \cup err
      /\ \A v \in Workers : pc[v] \in WorkPlaces /\ cur[v] = a => v = w
  BY <1>a, <1>0, WorkFacts DEF WorkPlaces
<1>2. TypeOK'
  BY <1>a, <1>0, <1>1 DEF TypeOK
<1>3. InLoop(st)'
  BY <1>a, <1>0, <1>1 DEF TypeOK, Sites, InLoop
<1>4. OneArmed'
  BY <1>a, <1>0, <1>1 DEF TypeOK, Sites, OneArmed
<1>5. InTasks(st)'
  BY <1>a, <1>0, <1>1, TasksKept DEF Sites
<1>6. InHandle(st)'
  BY <1>a, <1>0, <1>1 DEF TypeOK, Sites, InHandle, WorkPlaces
<1>7. InKafka(st)'
  BY <1>a, <1>0, <1>1 DEF TypeOK, Sites, InKafka
<1>8. InDr(st)'
  BY <1>a, <1>0, <1>1 DEF TypeOK, Sites, InDr
<1>9. Registered(st)'
  BY <1>a, <1>0, <1>1 DEF TypeOK, Sites, Registered, InHandle, WorkPlaces, TablePlaces
<1>10. Counted(st)'
  BY <1>a, <1>0, <1>1 DEF TypeOK, Sites, Counted
<1>11. Truth(st)'
  BY <1>a, <1>0, <1>1 DEF TypeOK, Sites, Truth, WorkPlaces
<1> QED
  BY <1>1, <1>2, <1>3, <1>4, <1>5, <1>6, <1>7, <1>8, <1>9, <1>10, <1>11 DEF IndInv, Sites

\* The context of a refused message leaves the table.
LEMMA HandleEraseStep ==
  ASSUME TypeOK, NEW st \in [Contexts -> Stages], Sites(st), NEW w \in Workers, HandleErase(w)
  PROVE  IndInv'
<1> USE ConstantsAssumption DEF HandleErase, Goto, ctxvars, loopvars, wvars, kafkavars
<1>a. PICK a \in Contexts : a = cur[w]
  BY WorkFacts DEF TypeOK, WorkPlaces
<1>0. "failed" \in Places
  BY DEF Stages, Responses, Places
<1>1. /\ st[a] = "work" /\ a \notin done_ /\ a \notin topic \cup err
      /\ \A v \in Workers : pc[v] \in WorkPlaces /\ cur[v] = a => v = w
  BY <1>a, <1>0, WorkFacts DEF WorkPlaces
<1>2. TypeOK'
  BY <1>a, <1>0, <1>1 DEF TypeOK
<1>3. InLoop(st)'
  BY <1>a, <1>0, <1>1 DEF TypeOK, Sites, InLoop
<1>4. OneArmed'
  BY <1>a, <1>0, <1>1 DEF TypeOK, Sites, OneArmed
<1>5. InTasks(st)'
  BY <1>a, <1>0, <1>1, TasksKept DEF Sites
<1>6. InHandle(st)'
  BY <1>a, <1>0, <1>1 DEF TypeOK, Sites, InHandle, WorkPlaces
<1>7. InKafka(st)'
  BY <1>a, <1>0, <1>1 DEF TypeOK, Sites, InKafka
<1>8. InDr(st)'
  BY <1>a, <1>0, <1>1 DEF TypeOK, Sites, InDr
<1>9. Registered(st)'
  BY <1>a, <1>0, <1>1 DEF TypeOK, Sites, Registered, InHandle, WorkPlaces, TablePlaces
<1>10. Counted(st)'
  BY <1>a, <1>0, <1>1 DEF TypeOK, Sites, Counted
<1>11. Truth(st)'
  BY <1>a, <1>0, <1>1 DEF TypeOK, Sites, Truth, WorkPlaces
<1> QED
  BY <1>1, <1>2, <1>3, <1>4, <1>5, <1>6, <1>7, <1>8, <1>9, <1>10, <1>11 DEF IndInv, Sites

\* poll moves the waiting reports to the batch of its worker.
LEMMA PollStep ==
  ASSUME TypeOK, NEW st \in [Contexts -> Stages], Sites(st), NEW w \in Workers, Poll(w)
  PROVE  IndInv'
<1> USE ConstantsAssumption DEF Poll, Goto, ctxvars, loopvars, wvars, kafkavars
<1>a. PICK R \in SUBSET Contexts : R = reports
  BY DEF TypeOK
<1> DEFINE s == [c \in Contexts |-> IF c \in R THEN "batch" ELSE st[c]]
<1>0. "batch" \in Stages /\ "serve" \in Places
  BY DEF Stages, Responses, Places
<1>1. /\ s \in [Contexts -> Stages] /\ batch[w] = {}
      /\ \A c \in R : st[c] = "report"
  BY <1>a, <1>0 DEF TypeOK, Sites, InDr, InKafka
<1>p. \A v \in Workers : /\ pc'[v] \in WorkPlaces <=> pc[v] \in WorkPlaces
                         /\ pc'[v] \in TablePlaces <=> pc[v] \in TablePlaces
                         /\ pc[v] \in WorkPlaces => v # w /\ cur'[v] = cur[v]
  BY DEF TypeOK, WorkPlaces, TablePlaces
<1>2. TypeOK'
  BY <1>a, <1>0, <1>1 DEF TypeOK
<1>3. InLoop(s)'
  BY <1>a, <1>0, <1>1 DEF TypeOK, Sites, InLoop
<1>4. OneArmed'
  BY <1>a, <1>0, <1>1 DEF TypeOK, Sites, OneArmed
<1>5. InTasks(s)'
  BY <1>a, <1>0, <1>1, TasksKept DEF Sites
<1>6. InHandle(s)'
  BY <1>a, <1>0, <1>1, <1>p DEF TypeOK, Sites, InHandle
<1>7. InKafka(s)'
  BY <1>a, <1>0, <1>1 DEF TypeOK, Sites, InKafka
<1>8. InDr(s)'
  BY <1>a, <1>0, <1>1 DEF TypeOK, Sites, InDr, InKafka
<1>9. Registered(s)'
  BY <1>a, <1>0, <1>1, <1>p DEF TypeOK, Sites, Registered, InKafka, WorkPlaces, TablePlaces
<1>10. Counted(s)'
  BY <1>a, <1>0, <1>1 DEF TypeOK, Sites, Counted
<1>11. Truth(s)'
  BY <1>a, <1>0, <1>1 DEF TypeOK, Sites, Truth, Counted, InHandle, WorkPlaces
<1> QED
  BY <1>1, <1>2, <1>3, <1>4, <1>5, <1>6, <1>7, <1>8, <1>9, <1>10, <1>11 DEF IndInv, Sites

\* dr_cb finds the context of its report and takes it out of the table.
LEMMA DrFindStep ==
  ASSUME TypeOK, NEW st \in [Contexts -> Stages], Sites(st), NEW w \in Workers, NEW c \in Contexts, DrFind(w, c)
  PROVE  IndInv'
<1> USE ConstantsAssumption DEF Goto, ctxvars, loopvars, wvars, kafkavars
<1> DEFINE s == [st EXCEPT ![c] = "finish"]
<1>0. "finish" \in Stages /\ "finish" \in Places
  BY DEF Stages, Responses, Places
<1>1. /\ s \in [Contexts -> Stages] /\ st[c] = "batch" /\ c \in rpc_contexts_
      /\ c \in batch[w] /\ pc[w] = "serve" /\ batch' = batch
      /\ found' = [found EXCEPT ![w] = c] /\ pc' = [pc EXCEPT ![w] = "finish"]
      /\ rpc_contexts_' = rpc_contexts_ \ {c}
      /\ UNCHANGED <<up, ctxvars, loopvars, tasks_, cur, kafkavars, dead>>
  BY <1>0 DEF TypeOK, Sites, InDr, Registered, DrFind
<1>p. \A v \in Workers : /\ pc'[v] \in WorkPlaces <=> pc[v] \in WorkPlaces
                         /\ pc'[v] \in TablePlaces <=> pc[v] \in TablePlaces
                         /\ pc[v] \in WorkPlaces => v # w /\ cur'[v] = cur[v]
  BY <1>1 DEF TypeOK, WorkPlaces, TablePlaces
<1>2. TypeOK'
  BY <1>0, <1>1 DEF TypeOK
<1>3. InLoop(s)'
  BY <1>0, <1>1 DEF TypeOK, Sites, InLoop
<1>4. OneArmed'
  BY <1>0, <1>1 DEF TypeOK, Sites, OneArmed
<1>5. InTasks(s)'
  BY <1>0, <1>1, TasksKept DEF Sites
<1>6. InHandle(s)'
  BY <1>0, <1>1, <1>p DEF TypeOK, Sites, InHandle
<1>7. InKafka(s)'
  BY <1>0, <1>1 DEF TypeOK, Sites, InKafka
<1>8. InDr(s)'
  BY <1>0, <1>1 DEF TypeOK, Sites, InDr
<1>9. Registered(s)'
  BY <1>0, <1>1, <1>p DEF TypeOK, Sites, Registered, InHandle, WorkPlaces, TablePlaces
<1>10. Counted(s)'
  BY <1>0, <1>1 DEF TypeOK, Sites, Counted
<1>11. Truth(s)'
  BY <1>0, <1>1 DEF TypeOK, Sites, Truth, Counted, WorkPlaces
<1> QED
  BY <1>1, <1>2, <1>3, <1>4, <1>5, <1>6, <1>7, <1>8, <1>9, <1>10, <1>11 DEF IndInv, Sites

\* dr_cb answers the call whose context it took.
LEMMA DrFinishStep ==
  ASSUME TypeOK, NEW st \in [Contexts -> Stages], Sites(st), NEW w \in Workers, DrFinish(w)
  PROVE  IndInv'
<1> USE ConstantsAssumption DEF DrFinish, Goto, ctxvars, loopvars, wvars, kafkavars, Finish
<1>a. PICK a \in Contexts : a = found[w]
  BY FoundFacts DEF TypeOK, WorkPlaces
<1> DEFINE s == [st EXCEPT ![a] = "cq"]
<1>0. /\ "cq" \in Stages /\ "serve" \in Places
      /\ "ok" \in Responses /\ "kafka_error" \in Responses
  BY DEF Stages, Responses, Places
<1>1. /\ a \in batch[w] /\ st[a] = "finish" /\ s \in [Contexts -> Stages]
      /\ a \notin done_ /\ resp_[a] = "ok" /\ a \in topic \cup err
  BY <1>a, <1>0, FoundFacts DEF TypeOK
<1>p. \A v \in Workers : /\ pc'[v] \in WorkPlaces <=> pc[v] \in WorkPlaces
                         /\ pc'[v] \in TablePlaces <=> pc[v] \in TablePlaces
                         /\ pc[v] \in WorkPlaces => v # w /\ cur'[v] = cur[v]
  BY DEF TypeOK, WorkPlaces, TablePlaces
<1>2. TypeOK'
  BY <1>a, <1>0, <1>1 DEF TypeOK
<1>3. InLoop(s)'
  BY <1>a, <1>0, <1>1 DEF TypeOK, Sites, InLoop
<1>4. OneArmed'
  BY <1>a, <1>0, <1>1 DEF TypeOK, Sites, OneArmed
<1>5. InTasks(s)'
  BY <1>a, <1>0, <1>1, TasksKept DEF Sites
<1>6. InHandle(s)'
  BY <1>a, <1>0, <1>1, <1>p DEF TypeOK, Sites, InHandle
<1>7. InKafka(s)'
  BY <1>a, <1>0, <1>1 DEF TypeOK, Sites, InKafka
<1>8. InDr(s)'
  BY <1>a, <1>0, <1>1 DEF TypeOK, Sites, InDr
<1>9. Registered(s)'
  BY <1>a, <1>0, <1>1, <1>p DEF TypeOK, Sites, Registered, WorkPlaces, TablePlaces
<1>10. Counted(s)'
  BY <1>a, <1>0, <1>1 DEF TypeOK, Sites, Counted
<1>11. Truth(s)'
  BY <1>a, <1>0, <1>1 DEF TypeOK, Sites, Truth, Counted, WorkPlaces, InHandle
<1> QED
  BY <1>1, <1>2, <1>3, <1>4, <1>5, <1>6, <1>7, <1>8, <1>9, <1>10, <1>11 DEF IndInv, Sites

\* The end of a poll moves no context.
LEMMA ServeDoneStep ==
  ASSUME TypeOK, NEW st \in [Contexts -> Stages], Sites(st), NEW w \in Workers, ServeDone(w)
  PROVE  IndInv'
<1> USE ConstantsAssumption DEF ServeDone, Goto, ctxvars, loopvars, wvars, kafkavars
<1>0. "idle" \in Places
  BY DEF Stages, Responses, Places
<1>1. batch[w] = {}
  BY <1>0 DEF TypeOK
<1>p. \A v \in Workers : /\ pc'[v] \in WorkPlaces <=> pc[v] \in WorkPlaces
                         /\ pc'[v] \in TablePlaces <=> pc[v] \in TablePlaces
                         /\ pc[v] \in WorkPlaces => v # w /\ cur'[v] = cur[v]
  BY DEF TypeOK, WorkPlaces, TablePlaces
<1>2. TypeOK'
  BY <1>0, <1>1 DEF TypeOK
<1>3. InLoop(st)'
  BY <1>0, <1>1 DEF TypeOK, Sites, InLoop
<1>4. OneArmed'
  BY <1>0, <1>1 DEF TypeOK, Sites, OneArmed
<1>5. InTasks(st)'
  BY <1>0, <1>1, TasksKept DEF Sites
<1>6. InHandle(st)'
  BY <1>0, <1>1, <1>p DEF TypeOK, Sites, InHandle
<1>7. InKafka(st)'
  BY <1>0, <1>1 DEF TypeOK, Sites, InKafka
<1>8. InDr(st)'
  BY <1>0, <1>1 DEF TypeOK, Sites, InDr
<1>9. Registered(st)'
  BY <1>0, <1>1, <1>p DEF TypeOK, Sites, Registered, WorkPlaces, TablePlaces
<1>10. Counted(st)'
  BY <1>0, <1>1 DEF TypeOK, Sites, Counted
<1>11. Truth(st)'
  BY <1>0, <1>1 DEF TypeOK, Sites, Truth, Counted, WorkPlaces
<1> QED
  BY <1>1, <1>2, <1>3, <1>4, <1>5, <1>6, <1>7, <1>8, <1>9, <1>10, <1>11 DEF IndInv, Sites

\* The broker stores a message.
LEMMA BrokerStoreStep ==
  ASSUME TypeOK, NEW st \in [Contexts -> Stages], Sites(st), NEW c \in Contexts, BrokerStore(c)
  PROVE  IndInv'
<1> USE ConstantsAssumption DEF BrokerStore, Goto, ctxvars, loopvars, wvars, kafkavars
<1>1. c \in outq => st[c] = "out"
  BY DEF TypeOK, Sites, InKafka
<1>2. TypeOK'
  BY <1>1 DEF TypeOK
<1>3. InLoop(st)'
  BY <1>1 DEF TypeOK, Sites, InLoop
<1>4. OneArmed'
  BY <1>1 DEF TypeOK, Sites, OneArmed
<1>5. InTasks(st)'
  BY <1>1, TasksKept DEF Sites
<1>6. InHandle(st)'
  BY <1>1 DEF TypeOK, Sites, InHandle
<1>7. InKafka(st)'
  BY <1>1 DEF TypeOK, Sites, InKafka
<1>8. InDr(st)'
  BY <1>1 DEF TypeOK, Sites, InDr
<1>9. Registered(st)'
  BY <1>1 DEF TypeOK, Sites, Registered
<1>10. Counted(st)'
  BY <1>1 DEF TypeOK, Sites, Counted
<1>11. Truth(st)'
  BY <1>1 DEF TypeOK, Sites, Truth, Counted
<1> QED
  BY <1>1, <1>2, <1>3, <1>4, <1>5, <1>6, <1>7, <1>8, <1>9, <1>10, <1>11 DEF IndInv, Sites

\* A report that says acknowledged becomes ready.
LEMMA BrokerAckStep ==
  ASSUME TypeOK, NEW st \in [Contexts -> Stages], Sites(st), NEW c \in Contexts, BrokerAck(c)
  PROVE  IndInv'
<1> USE ConstantsAssumption DEF BrokerAck, Goto, ctxvars, loopvars, wvars, kafkavars
<1> DEFINE s == [st EXCEPT ![c] = "report"]
<1>0. "report" \in Stages
  BY DEF Stages, Responses, Places
<1>1. s \in [Contexts -> Stages] /\ st[c] = "out"
  BY <1>0 DEF TypeOK, Sites, InKafka
<1>2. TypeOK'
  BY <1>0, <1>1 DEF TypeOK
<1>3. InLoop(s)'
  BY <1>0, <1>1 DEF TypeOK, Sites, InLoop
<1>4. OneArmed'
  BY <1>0, <1>1 DEF TypeOK, Sites, OneArmed
<1>5. InTasks(s)'
  BY <1>0, <1>1, TasksKept DEF Sites
<1>6. InHandle(s)'
  BY <1>0, <1>1 DEF TypeOK, Sites, InHandle
<1>7. InKafka(s)'
  BY <1>0, <1>1 DEF TypeOK, Sites, InKafka
<1>8. InDr(s)'
  BY <1>0, <1>1 DEF TypeOK, Sites, InDr
<1>9. Registered(s)'
  BY <1>0, <1>1 DEF TypeOK, Sites, Registered, InHandle, WorkPlaces, TablePlaces
<1>10. Counted(s)'
  BY <1>0, <1>1 DEF TypeOK, Sites, Counted
<1>11. Truth(s)'
  BY <1>0, <1>1 DEF TypeOK, Sites, Truth, Counted, InHandle, WorkPlaces
<1> QED
  BY <1>1, <1>2, <1>3, <1>4, <1>5, <1>6, <1>7, <1>8, <1>9, <1>10, <1>11 DEF IndInv, Sites

\* A report that says failed becomes ready.
LEMMA BrokerFailStep ==
  ASSUME TypeOK, NEW st \in [Contexts -> Stages], Sites(st), NEW c \in Contexts, BrokerFail(c)
  PROVE  IndInv'
<1> USE ConstantsAssumption DEF BrokerFail, Goto, ctxvars, loopvars, wvars, kafkavars
<1> DEFINE s == [st EXCEPT ![c] = "report"]
<1>0. "report" \in Stages
  BY DEF Stages, Responses, Places
<1>1. s \in [Contexts -> Stages] /\ st[c] = "out"
  BY <1>0 DEF TypeOK, Sites, InKafka
<1>2. TypeOK'
  BY <1>0, <1>1 DEF TypeOK
<1>3. InLoop(s)'
  BY <1>0, <1>1 DEF TypeOK, Sites, InLoop
<1>4. OneArmed'
  BY <1>0, <1>1 DEF TypeOK, Sites, OneArmed
<1>5. InTasks(s)'
  BY <1>0, <1>1, TasksKept DEF Sites
<1>6. InHandle(s)'
  BY <1>0, <1>1 DEF TypeOK, Sites, InHandle
<1>7. InKafka(s)'
  BY <1>0, <1>1 DEF TypeOK, Sites, InKafka
<1>8. InDr(s)'
  BY <1>0, <1>1 DEF TypeOK, Sites, InDr
<1>9. Registered(s)'
  BY <1>0, <1>1 DEF TypeOK, Sites, Registered, InHandle, WorkPlaces, TablePlaces
<1>10. Counted(s)'
  BY <1>0, <1>1 DEF TypeOK, Sites, Counted
<1>11. Truth(s)'
  BY <1>0, <1>1 DEF TypeOK, Sites, Truth, Counted, InHandle, WorkPlaces
<1> QED
  BY <1>1, <1>2, <1>3, <1>4, <1>5, <1>6, <1>7, <1>8, <1>9, <1>10, <1>11 DEF IndInv, Sites

\* Nor does a stuttering step.
LEMMA StutterStep ==
  ASSUME TypeOK, NEW st \in [Contexts -> Stages], Sites(st), UNCHANGED vars
  PROVE  IndInv'
<1> USE ConstantsAssumption DEF vars, ctxvars, loopvars, wvars, kafkavars
<1>1. vars' = vars
  BY DEF TypeOK
<1>2. TypeOK'
  BY <1>1 DEF TypeOK
<1>3. InLoop(st)'
  BY <1>1 DEF TypeOK, Sites, InLoop
<1>4. OneArmed'
  BY <1>1 DEF TypeOK, Sites, OneArmed
<1>5. InTasks(st)'
  BY <1>1, TasksKept DEF Sites
<1>6. InHandle(st)'
  BY <1>1 DEF TypeOK, Sites, InHandle
<1>7. InKafka(st)'
  BY <1>1 DEF TypeOK, Sites, InKafka
<1>8. InDr(st)'
  BY <1>1 DEF TypeOK, Sites, InDr
<1>9. Registered(st)'
  BY <1>1 DEF TypeOK, Sites, Registered
<1>10. Counted(st)'
  BY <1>1 DEF TypeOK, Sites, Counted
<1>11. Truth(st)'
  BY <1>1 DEF TypeOK, Sites, Truth
<1> QED
  BY <1>1, <1>2, <1>3, <1>4, <1>5, <1>6, <1>7, <1>8, <1>9, <1>10, <1>11 DEF IndInv, Sites

\* An accepted tag is queued for the pool, and another context is armed if the
\* bound leaves one.
LEMMA RunAcceptStep ==
  ASSUME TypeOK, NEW st \in [Contexts -> Stages], Sites(st), NEW c \in Contexts, RunAccept(c)
  PROVE  IndInv'
<1> USE ConstantsAssumption DEF wvars, kafkavars
<1>1. PICK N \in SUBSET Contexts :
        /\ \A n \in N : life[n] = "fresh"
        /\ life' = [n \in Contexts |-> IF n \in N THEN "live" ELSE life[n]]
        /\ (N = {} /\ armed' = armed) \/ (\E n \in N : N = {n} /\ armed' = n)
  <2>1. CASE \E n \in Contexts : /\ life[n] = "fresh"
                                 /\ life' = [life EXCEPT ![n] = "live"]
                                 /\ armed' = n
    <3>1. PICK n \in Contexts : /\ life[n] = "fresh"
                                /\ life' = [life EXCEPT ![n] = "live"]
                                /\ armed' = n
      BY <2>1
    <3>2. life' = [m \in Contexts |-> IF m \in {n} THEN "live" ELSE life[m]]
      BY <3>1 DEF TypeOK
    <3> WITNESS {n} \in SUBSET Contexts
    <3> QED
      BY <3>1, <3>2
  <2>2. CASE UNCHANGED <<life, armed>>
    <3>1. life' = [m \in Contexts |-> IF m \in {} THEN "live" ELSE life[m]]
      BY <2>2 DEF TypeOK
    <3> WITNESS {} \in SUBSET Contexts
    <3> QED
      BY <2>2, <3>1
  <2> QED
    BY <2>1, <2>2 DEF RunAccept
<1> DEFINE s == [n \in Contexts |-> IF n = c THEN "task" ELSE IF n \in N THEN "armed" ELSE st[n]]
<1>2. /\ cq_' = cq_ \ {c} /\ tasks_' = Append(tasks_, c)
      /\ UNCHANGED <<up, req_, resp_, done_, finished, wvars, rpc_contexts_, kafkavars, dead>>
  BY DEF RunAccept
<1>3. /\ st[c] = "cq" /\ c \notin N /\ c \notin done_ /\ armed = NoContext
      /\ cq_ \ done_ = {c}
      /\ \A n \in N : st[n] = "fresh"
  BY <1>1 DEF RunAccept, TypeOK, Sites, InLoop, OneArmed
<1>4. s \in [Contexts -> Stages]
  BY DEF Stages
<1>5. TypeOK'
  <2>1. "live" \in {"fresh", "live", "deleted"}
    OBVIOUS
  <2>2. life' \in [Contexts -> {"fresh", "live", "deleted"}]
    BY <1>1, <2>1 DEF TypeOK
  <2>3. armed' \in Contexts \cup {NoContext} /\ tasks_' \in Seq(Contexts)
    BY <1>1, <1>2 DEF TypeOK
  <2> QED
    BY <1>2, <2>2, <2>3 DEF TypeOK
<1>6. InLoop(s)'
  BY <1>1, <1>2, <1>3 DEF TypeOK, Sites, InLoop
<1>7. OneArmed'
  BY <1>2, <1>3 DEF Sites, OneArmed
<1>8. InTasks(s)'
  <2>1. /\ Len(tasks_') = Len(tasks_) + 1 /\ tasks_'[Len(tasks_) + 1] = c
        /\ \A i \in 1..Len(tasks_) : tasks_'[i] = tasks_[i] /\ tasks_[i] \in Contexts
        /\ Len(tasks_) \in Nat
    BY <1>2 DEF TypeOK
  <2>2. \A i \in 1..Len(tasks_) : tasks_[i] # c /\ tasks_[i] \notin N
    BY <1>3 DEF Sites, InTasks
  <2>3. \A i \in 1..Len(tasks_') : i = Len(tasks_) + 1 \/ i \in 1..Len(tasks_)
    BY <2>1
  <2>4. \A i \in 1..Len(tasks_') : s[tasks_'[i]] = "task"
    BY <2>1, <2>2, <2>3 DEF Sites, InTasks
  <2>5. \A i, j \in 1..Len(tasks_') : tasks_'[i] = tasks_'[j] => i = j
    BY <2>1, <2>2, <2>3 DEF Sites, InTasks
  <2>6. \A d \in Contexts : s[d] = "task" => \E i \in 1..Len(tasks_') : tasks_'[i] = d
    <3> SUFFICES ASSUME NEW d \in Contexts, s[d] = "task"
                 PROVE  \E i \in 1..Len(tasks_') : tasks_'[i] = d
      OBVIOUS
    <3>1. CASE d = c
      BY <2>1, <3>1
    <3>2. CASE d # c
      <4>1. PICK i \in 1..Len(tasks_) : tasks_[i] = d
        BY <3>2 DEF Sites, InTasks
      <4> QED
        BY <2>1, <4>1
    <3> QED
      BY <3>1, <3>2
  <2> QED
    BY <2>4, <2>5, <2>6 DEF InTasks
<1>9. InHandle(s)'
  BY <1>2, <1>3 DEF TypeOK, Sites, InHandle
<1>10. InKafka(s)'
  BY <1>2, <1>3 DEF TypeOK, Sites, InKafka
<1>11. InDr(s)'
  BY <1>2, <1>3 DEF TypeOK, Sites, InDr
<1>12. Registered(s)'
  BY <1>2, <1>3 DEF TypeOK, Sites, Registered
<1>13. Counted(s)'
  BY <1>2, <1>3 DEF TypeOK, Sites, Counted
<1>14. Truth(s)'
  BY <1>2, <1>3 DEF TypeOK, Sites, Truth, Counted
<1> QED
  BY <1>4, <1>5, <1>6, <1>7, <1>8, <1>9, <1>10, <1>11, <1>12, <1>13, <1>14 DEF IndInv, Sites

\* A worker takes the first context of the pool's queue.
LEMMA DequeueStep ==
  ASSUME TypeOK, NEW st \in [Contexts -> Stages], Sites(st), NEW w \in Workers, Dequeue(w)
  PROVE  IndInv'
<1> USE ConstantsAssumption DEF Dequeue, Goto, ctxvars, loopvars, kafkavars
<1>a. PICK a \in Contexts : a = tasks_[1]
  BY DEF TypeOK
<1> DEFINE s == [st EXCEPT ![a] = "work"]
<1>1. /\ Len(tasks_) \in Nat \ {0} /\ Head(tasks_) = a
      /\ Len(tasks_') = Len(tasks_) - 1
      /\ \A i \in 1..Len(tasks_') : tasks_'[i] = tasks_[i + 1] /\ i + 1 \in 1..Len(tasks_)
      /\ tasks_' \in Seq(Contexts)
  BY <1>a DEF TypeOK
<1>2. /\ st[a] = "task" /\ s \in [Contexts -> Stages] /\ "handle" \in Places
      /\ \A v \in Workers : pc[v] \in WorkPlaces => cur[v] # a
  BY <1>a, <1>1 DEF Sites, InTasks, InHandle, Stages, Places
<1>p. /\ \A v \in Workers : /\ pc'[v] \in WorkPlaces <=> pc[v] \in WorkPlaces \/ v = w
                            /\ pc'[v] \in TablePlaces <=> pc[v] \in TablePlaces
                            /\ cur'[v] = IF v = w THEN a ELSE cur[v]
      /\ pc[w] \notin WorkPlaces /\ pc[w] \notin TablePlaces
  BY <1>1 DEF TypeOK, WorkPlaces, TablePlaces
<1>3. TypeOK'
  BY <1>a, <1>1, <1>2 DEF TypeOK
<1>4. InLoop(s)'
  BY <1>a, <1>2 DEF TypeOK, Sites, InLoop
<1>5. OneArmed'
  BY DEF Sites, OneArmed
<1>6. InTasks(s)'
  <2>1. \A i \in 1..Len(tasks_') : tasks_'[i] # a /\ tasks_'[i] \in Contexts
    BY <1>a, <1>1 DEF Sites, InTasks, TypeOK
  <2>2. \A i \in 1..Len(tasks_') : s[tasks_'[i]] = "task"
    BY <1>1, <2>1 DEF Sites, InTasks
  <2>3. \A i, j \in 1..Len(tasks_') : tasks_'[i] = tasks_'[j] => i = j
    BY <1>1 DEF Sites, InTasks
  <2>4. \A d \in Contexts : s[d] = "task" => \E i \in 1..Len(tasks_') : tasks_'[i] = d
    <3> SUFFICES ASSUME NEW d \in Contexts, s[d] = "task"
                 PROVE  \E i \in 1..Len(tasks_') : tasks_'[i] = d
      OBVIOUS
    <3>1. d # a /\ st[d] = "task"
      OBVIOUS
    <3>2. PICK i \in 1..Len(tasks_) : tasks_[i] = d
      BY <3>1 DEF Sites, InTasks
    <3>3. i # 1 /\ i - 1 \in 1..Len(tasks_') /\ (i - 1) + 1 = i
      BY <1>a, <1>1, <3>1, <3>2
    <3> QED
      BY <1>1, <3>2, <3>3
  <2> QED
    BY <2>2, <2>3, <2>4 DEF InTasks
<1>7. InHandle(s)'
  BY <1>2, <1>p DEF TypeOK, Sites, InHandle
<1>8. InKafka(s)'
  BY <1>2 DEF TypeOK, Sites, InKafka
<1>9. InDr(s)'
  BY <1>2 DEF TypeOK, Sites, InDr
<1>10. Registered(s)'
  BY <1>2, <1>p DEF TypeOK, Sites, Registered
<1>11. Counted(s)'
  BY <1>2 DEF TypeOK, Sites, Counted
<1>12. Truth(s)'
  BY <1>2 DEF TypeOK, Sites, Truth, Counted
<1> QED
  BY <1>2, <1>3, <1>4, <1>5, <1>6, <1>7, <1>8, <1>9, <1>10, <1>11, <1>12 DEF IndInv, Sites

-----------------------------------------------------------------------------
\* After Run has armed its first context, the server satisfies the invariant.
LEMMA InitInv == Init => IndInv
<1> SUFFICES ASSUME Init PROVE IndInv
  OBVIOUS
<1> USE ConstantsAssumption
<1>1. PICK a \in Contexts : a = armed
  BY DEF Init
<1> DEFINE s == [c \in Contexts |-> IF c = a THEN "armed" ELSE "fresh"]
<1>2. s \in [Contexts -> Stages]
  BY DEF Stages
<1>3. TypeOK
  BY DEF Init, TypeOK, Responses, Places
<1>4. InLoop(s) /\ OneArmed /\ InTasks(s)
  BY <1>1 DEF Init, InLoop, OneArmed, InTasks
<1>5. InHandle(s) /\ InKafka(s) /\ InDr(s)
  BY <1>1 DEF Init, InHandle, InKafka, InDr, WorkPlaces
<1>6. Registered(s) /\ Counted(s) /\ Truth(s)
  BY <1>1 DEF Init, Registered, Counted, Truth, TablePlaces
<1> QED
  BY <1>2, <1>3, <1>4, <1>5, <1>6 DEF IndInv, Sites

\* Every step of Run, of a worker, of a gate or of the broker preserves it.
LEMMA NextInv == IndInv /\ [Next]_vars => IndInv'
<1> SUFFICES ASSUME IndInv, [Next]_vars PROVE IndInv'
  OBVIOUS
<1>0. PICK st \in [Contexts -> Stages] : TypeOK /\ Sites(st)
  BY DEF IndInv
<1>1. ASSUME NEW k \in Requests, Call(k) PROVE IndInv'
  BY <1>0, <1>1, CallStep
<1>2. ASSUME NEW c \in Contexts, CallDies(c) PROVE IndInv'
  BY <1>0, <1>2, CallDiesStep
<1>3. ASSUME NEW c \in Contexts, Run(c) PROVE IndInv'
  BY <1>0, <1>3, RunAcceptStep, RunDeleteStep, RunAbortStep DEF Run
<1>4. ASSUME NEW c \in Contexts, BrokerStore(c) PROVE IndInv'
  BY <1>0, <1>4, BrokerStoreStep
<1>5. ASSUME NEW c \in Contexts, Report(c) PROVE IndInv'
  BY <1>0, <1>5, BrokerAckStep, BrokerFailStep DEF Report
<1>6. ASSUME NEW w \in Workers, Work(w) PROVE IndInv'
  BY <1>0, <1>6, DequeueStep, HandleLoginStep, HandleRejectStep, HandleAcceptStep,
     ProduceOkStep, ProduceFailStep, HandleEraseStep, HandleFailedStep, PollStep,
     DrFindStep, DrFinishStep, ServeDoneStep DEF Work
<1>7. CASE UNCHANGED vars
  BY <1>0, <1>7, StutterStep
<1> QED
  BY <1>1, <1>2, <1>3, <1>4, <1>5, <1>6, <1>7 DEF Next

\* Hence it holds throughout every run of the server.
LEMMA Inductive == Spec => []IndInv
<1>1. Init => IndInv
  BY InitInv
<1>2. IndInv /\ [Next]_vars => IndInv'
  BY NextInv
<1> QED
  BY <1>1, <1>2, PTL DEF Spec

-----------------------------------------------------------------------------
\* Every variable of the server keeps its type, for every number of contexts
\* and workers.
THEOREM TypeCorrect == Spec => []TypeOK
<1>1. IndInv => TypeOK
  BY DEF IndInv
<1> QED
  BY <1>1, Inductive, PTL

\* No interleaving of Handle, Run and the delivery callbacks calls Finish twice
\* on one context.
THEOREM FinishedOnce == Spec => []FinishOnce
<1>1. IndInv => FinishOnce
  BY DEF IndInv, Sites, Counted, FinishOnce
<1> QED
  BY <1>1, Inductive, PTL

\* When Run deletes a context, nothing in the server refers to it.
THEOREM NeverUsedAfterDelete == Spec => []NoUseAfterDelete
<1> SUFFICES ASSUME IndInv PROVE NoUseAfterDelete
  BY Inductive, PTL
<1>1. PICK st \in [Contexts -> Stages] : TypeOK /\ Sites(st)
  BY DEF IndInv
<1> SUFFICES ASSUME NEW c \in Contexts, life[c] # "live"
             PROVE  /\ armed # c /\ c \notin cq_ /\ c \notin rpc_contexts_
                    /\ \A i \in 1..Len(tasks_) : tasks_[i] # c
                    /\ \A w \in Workers : ~Holds(w, c)
  BY DEF NoUseAfterDelete
<1>2. st[c] \in {"fresh", "deleted"}
  BY <1>1 DEF TypeOK, Sites, InLoop
<1>3. armed # c /\ c \notin cq_
  BY <1>1, <1>2 DEF Sites, InLoop
<1>4. \A i \in 1..Len(tasks_) : tasks_[i] # c
  BY <1>1, <1>2 DEF Sites, InTasks
<1>5. \A w \in Workers : pc[w] \in WorkPlaces => cur[w] # c
  BY <1>1, <1>2 DEF Sites, InHandle
<1>6. \A w \in Workers : pc[w] = "finish" => found[w] # c
  BY <1>1, <1>2 DEF Sites, InDr
<1>7. c \notin rpc_contexts_
  BY <1>1, <1>2, <1>5 DEF Sites, Registered, WorkPlaces, TablePlaces
<1> QED
  BY <1>3, <1>4, <1>5, <1>6, <1>7 DEF Holds, WorkPlaces

\* The context of every message that librdkafka holds, or is reporting on, is
\* in the table: dr_cb never drops a report.
THEOREM ReportsFindContexts == Spec => []ReportFindsContext
<1> SUFFICES ASSUME IndInv PROVE ReportFindsContext
  BY Inductive, PTL
<1>1. PICK st \in [Contexts -> Stages] : TypeOK /\ Sites(st)
  BY DEF IndInv
<1>2. outq \cup reports \subseteq rpc_contexts_
  BY <1>1 DEF TypeOK, Sites, InKafka, Registered
<1>3. ASSUME NEW w \in Workers, NEW c \in batch[w]
      PROVE  c \in rpc_contexts_ \/ (pc[w] = "finish" /\ found[w] = c)
  <2>1. c \in Contexts
    BY <1>1 DEF TypeOK
  <2> QED
    BY <1>1, <2>1 DEF Sites, InDr, Registered
<1> QED
  BY <1>2, <1>3 DEF ReportFindsContext

\* A live context is at one of the stages between its allocation and its delete.
LEMMA LiveIsHeld ==
  ASSUME IndInv
  PROVE  NoContextForgotten
<1>1. PICK st \in [Contexts -> Stages] : TypeOK /\ Sites(st)
  BY DEF IndInv
<1> SUFFICES ASSUME NEW c \in Contexts, life[c] = "live"
             PROVE  \/ armed = c
                    \/ c \in cq_
                    \/ \E i \in 1..Len(tasks_) : tasks_[i] = c
                    \/ \E w \in Workers : Holds(w, c)
                    \/ c \in rpc_contexts_ \cap Queued
  BY DEF NoContextForgotten
<1>2. st[c] \in {"armed", "cq", "task", "work", "out", "report", "batch", "finish"}
  BY <1>1 DEF Sites, InLoop, Stages
<1>3. CASE st[c] \in {"armed", "cq"}
  BY <1>1, <1>3 DEF Sites, InLoop
<1>4. CASE st[c] = "task"
  BY <1>1, <1>4 DEF Sites, InTasks
<1>5. CASE st[c] = "work"
  BY <1>1, <1>5 DEF Sites, InHandle, Holds, WorkPlaces
<1>6. CASE st[c] \in {"out", "report"}
  BY <1>1, <1>6 DEF Sites, InKafka, Registered, Queued
<1>7. CASE st[c] \in {"batch", "finish"}
  <2>1. PICK w \in Workers : c \in batch[w]
    BY <1>1, <1>7 DEF Sites, InDr
  <2>2. CASE pc[w] = "finish" /\ found[w] = c
    BY <2>2 DEF Holds
  <2>3. CASE ~(pc[w] = "finish" /\ found[w] = c)
    <3>1. st[c] = "batch"
      BY <1>1, <2>1, <2>3 DEF Sites, InDr
    <3>2. c \in rpc_contexts_
      BY <1>1, <3>1 DEF Sites, Registered
    <3> QED
      BY <2>1, <3>2 DEF Queued
  <2> QED
    BY <2>2, <2>3
<1> QED
  BY <1>2, <1>3, <1>4, <1>5, <1>6, <1>7

\* Every live context is still on its way to an answer and a delete.
THEOREM NothingForgotten == Spec => []NoContextForgotten
BY Inductive, LiveIsHeld, PTL

-----------------------------------------------------------------------------
(***************************************************************************)
(* The server implements PublishService.                                    *)
(***************************************************************************)

\* The refinement mapping of the answers.
Replies == [c \in Contexts |-> AnswerOf(c)]

\* A Finish is an abstract answer, true because of what the invariant knows of
\* the response.
LEMMA FinishAnswers ==
  ASSUME TypeOK, NEW c \in Contexts, NEW r \in Responses \ {"none"},
         Finish(c, r), UNCHANGED topic,
         finished[c] = 0, req_[c] # NoRequest,
         r = "ok" => c \in topic \/ req_[c] = "Login",
         r \in {"invalid_request", "Produce_error"} => c \notin topic
  PROVE  Service!Next
<1> DEFINE a == CASE r = "ok" -> "accepted"
                  [] r \in {"invalid_request", "Produce_error"} -> "rejected"
                  [] OTHER -> "unknown"
<1>1. a \in Service!Answers /\ a # "none"
  BY DEF Service!Answers, Responses
<1>2. Replies[c] = "none"
  BY DEF Replies, AnswerOf
<1>3. finished' = [finished EXCEPT ![c] = 1] /\ resp_' = [resp_ EXCEPT ![c] = r]
  BY DEF Finish, TypeOK
<1>4. Replies' = [Replies EXCEPT ![c] = a]
  <2>1. AnswerOf(c)' = a
    BY <1>3 DEF AnswerOf, TypeOK
  <2>2. ASSUME NEW d \in Contexts, d # c PROVE AnswerOf(d)' = AnswerOf(d)
    BY <1>3, <2>2 DEF AnswerOf, TypeOK
  <2> QED
    BY <2>1, <2>2 DEF Replies
<1>5. Service!Truthful(c, a)
  BY DEF Service!Truthful, Responses
<1>6. UNCHANGED req_
  BY DEF Finish
<1>7. Service!Answer(c, a)
  BY <1>1, <1>2, <1>4, <1>5, <1>6 DEF Service!Answer, Replies
<1> QED
  BY <1>1, <1>7 DEF Service!Next

\* The steps that are no step of the abstract service.
LEMMA Stutters ==
  ASSUME UNCHANGED <<req_, finished, topic>>,
         \A c \in Contexts : finished[c] # 0 => resp_'[c] = resp_[c]
  PROVE  UNCHANGED Service!vars
BY DEF Service!vars, AnswerOf

\* Every step of the server is a step of the abstract service or a stutter.
LEMMA StepSimulation == IndInv /\ [Next]_vars => [Service!Next]_(Service!vars)
<1> SUFFICES ASSUME IndInv, [Next]_vars PROVE Service!Next \/ UNCHANGED Service!vars
  OBVIOUS
<1> USE ConstantsAssumption DEF ctxvars, loopvars, wvars, kafkavars
<1>0. PICK st \in [Contexts -> Stages] : TypeOK /\ Sites(st)
  BY DEF IndInv
<1>a. \A c \in Contexts : finished[c] = 0 <=> c \notin done_
  BY <1>0 DEF Sites, Counted
<1>b. /\ "ok" \in Responses \ {"none"} /\ "invalid_request" \in Responses \ {"none"}
      /\ "Produce_error" \in Responses \ {"none"} /\ "kafka_error" \in Responses \ {"none"}
  BY DEF Responses
<1>1. ASSUME NEW k \in Requests, Call(k) PROVE Service!Next
  <2>1. armed \in Contexts /\ req_[armed] = NoRequest
    BY <1>0, <1>1 DEF Call, TypeOK, Sites, InLoop, Counted
  <2>2. Service!Ask(armed, k)
    BY <1>1, <2>1 DEF Call, Service!Ask, AnswerOf
  <2> QED
    BY <2>1, <2>2 DEF Service!Next
<1>2. ASSUME NEW c \in Contexts, BrokerStore(c) PROVE Service!Next
  <2>1. req_[c] \in Publishable /\ req_[c] \in Requests
    BY <1>0, <1>2 DEF BrokerStore, TypeOK, Sites, InKafka, Truth, Publishable, Kinds
  <2>2. req_[c] \notin {"Login"} \cup (Kinds \ Publishable)
    BY <2>1 DEF Publishable
  <2>3. c \in done_ => resp_[c] \in {"ok", "kafka_error"}
    BY <1>0, <1>2 DEF BrokerStore, Sites, InKafka, Counted, Truth
  <2>4. AnswerOf(c) # "rejected"
    BY <1>a, <2>3 DEF AnswerOf
  <2>5. Service!Record(c)
    BY <1>2, <2>1, <2>2, <2>4 DEF BrokerStore, Service!Record, AnswerOf
  <2> QED
    BY <2>5 DEF Service!Next
<1>3. ASSUME NEW w \in Workers, pc[w] \in WorkPlaces
      PROVE  /\ cur[w] \in Contexts /\ finished[cur[w]] = 0
             /\ req_[cur[w]] # NoRequest /\ cur[w] \notin topic
  <2>1. cur[w] \in Contexts /\ st[cur[w]] = "work" /\ cur[w] \notin done_ /\ cur[w] \notin topic
    BY <1>0, <1>3, WorkFacts
  <2>2. req_[cur[w]] # NoRequest
    BY <1>0, <2>1 DEF Sites, Counted
  <2> QED
    BY <1>a, <2>1, <2>2
<1>4. ASSUME NEW w \in Workers, HandleLogin(w) \/ HandleReject(w) \/ HandleFailed(w)
      PROVE  Service!Next
  <2>1. pc[w] \in WorkPlaces /\ UNCHANGED topic
    BY <1>4 DEF HandleLogin, HandleReject, HandleFailed, WorkPlaces
  <2>2. CASE HandleLogin(w)
    BY <1>0, <1>b, <1>3, <2>1, <2>2, FinishAnswers DEF HandleLogin
  <2>3. CASE HandleReject(w)
    BY <1>0, <1>b, <1>3, <2>1, <2>3, FinishAnswers DEF HandleReject
  <2>4. CASE HandleFailed(w)
    BY <1>0, <1>b, <1>3, <2>1, <2>4, FinishAnswers DEF HandleFailed
  <2> QED
    BY <1>4, <2>2, <2>3, <2>4
<1>5. ASSUME NEW w \in Workers, DrFinish(w) PROVE Service!Next
  <2>1. /\ found[w] \in Contexts /\ st[found[w]] = "finish" /\ found[w] \notin done_
        /\ resp_[found[w]] = "ok" /\ found[w] \in topic \cup err
    BY <1>0, <1>5, FoundFacts DEF DrFinish
  <2>2. finished[found[w]] = 0 /\ req_[found[w]] # NoRequest
    BY <1>0, <1>a, <2>1 DEF Sites, Counted
  <2>3. PICK r \in Responses \ {"none"} :
          /\ Finish(found[w], r)
          /\ r = IF found[w] \in err THEN "kafka_error" ELSE "ok"
    BY <1>5, <1>b, <2>1 DEF DrFinish
  <2>4. UNCHANGED topic
    BY <1>5 DEF DrFinish
  <2> QED
    BY <1>0, <2>1, <2>2, <2>3, <2>4, FinishAnswers
<1>6. ASSUME NEW w \in Workers, HandleAccept(w) PROVE UNCHANGED Service!vars
  <2>1. \A c \in Contexts : finished[c] # 0 => resp_'[c] = resp_[c]
    BY <1>0, <1>3, <1>6 DEF HandleAccept, WorkPlaces, TypeOK
  <2> QED
    BY <1>6, <2>1, Stutters DEF HandleAccept
<1>7. ASSUME UNCHANGED <<req_, resp_, finished, topic>> PROVE UNCHANGED Service!vars
  BY <1>7, Stutters
<1>8. ASSUME NEW c \in Contexts, CallDies(c) \/ Run(c) \/ Report(c)
      PROVE  UNCHANGED Service!vars
  BY <1>7, <1>8 DEF CallDies, Run, RunAccept, RunDelete, RunAbort, Report, BrokerAck, BrokerFail
<1>9. ASSUME NEW w \in Workers,
             \/ Dequeue(w) \/ ProduceOk(w) \/ ProduceFail(w) \/ HandleErase(w)
             \/ Poll(w) \/ (\E c \in Contexts : DrFind(w, c)) \/ ServeDone(w)
      PROVE  UNCHANGED Service!vars
  BY <1>7, <1>9 DEF Dequeue, ProduceOk, ProduceFail, HandleErase, Poll, DrFind, ServeDone
<1>10. CASE UNCHANGED vars
  BY <1>7, <1>10 DEF vars
<1> QED
  BY <1>1, <1>2, <1>4, <1>5, <1>6, <1>8, <1>9, <1>10 DEF Next, Work

\* msg_logic implements the abstract publishing service: each call is answered
\* at most once, and the answer tells the truth about the Kafka topic.
THEOREM Refinement == Spec => ImplementsService
<1>1. Init => Service!Init
  BY DEF Init, Service!Init, AnswerOf
<1>2. IndInv /\ [Next]_vars => [Service!Next]_(Service!vars)
  BY StepSimulation
<1> QED
  BY <1>1, <1>2, Inductive, PTL DEF Spec, ImplementsService, Service!Spec

-----------------------------------------------------------------------------
\* Once librdkafka's queue is full of reports that no worker is about to poll,
\* it is so for ever: Produce gives up before the only poll of the program.
THEOREM FullQueueStaysFull == Spec => WedgedForever
<1>1. ASSUME IndInv, Wedged, [Next]_vars PROVE Wedged'
  <2> USE ConstantsAssumption, <1>1 DEF Goto, ctxvars, loopvars, wvars, kafkavars
  <2>0. TypeOK
    BY DEF IndInv
  <2>1. IsFiniteSet(Contexts) /\ \A S \in SUBSET Contexts : IsFiniteSet(S)
    BY FS_Subset
  <2>2. ASSUME reports \subseteq reports', reports' \subseteq Contexts,
               \A w \in Workers : pc'[w] \notin {"poll", "serve", "finish"}
        PROVE  Wedged'
    <3>1. Cardinality(reports) <= Cardinality(reports')
      BY <2>1, <2>2, FS_Subset
    <3>2. Cardinality(reports) \in Int /\ Cardinality(reports') \in Int /\ QueueMax \in Int
      BY <2>0, <2>1, <2>2, FS_CardinalityType DEF TypeOK
    <3> QED
      BY <2>2, <3>1, <3>2 DEF Wedged
  <2>3. ~(Cardinality(Queued) < QueueMax)
    <3>1. reports \subseteq Queued /\ Queued \subseteq Contexts
      BY <2>0 DEF Queued, TypeOK
    <3>2. Cardinality(reports) <= Cardinality(Queued)
      BY <2>1, <3>1, FS_Subset
    <3>3. Cardinality(reports) \in Int /\ Cardinality(Queued) \in Int /\ QueueMax \in Int
      BY <2>0, <2>1, <3>1, FS_CardinalityType DEF TypeOK
    <3> QED
      BY <3>2, <3>3 DEF Wedged
  <2>4. ASSUME UNCHANGED <<reports, pc>> PROVE Wedged'
    BY <2>0, <2>2, <2>4 DEF TypeOK, Wedged
  <2>5. ASSUME NEW k \in Requests, Call(k) PROVE Wedged'
    BY <2>4, <2>5 DEF Call
  <2>6. ASSUME NEW c \in Contexts, CallDies(c) \/ Run(c) \/ BrokerStore(c) PROVE Wedged'
    BY <2>4, <2>6 DEF CallDies, Run, RunAccept, RunDelete, RunAbort, BrokerStore
  <2>7. ASSUME NEW c \in Contexts, Report(c) PROVE Wedged'
    BY <2>0, <2>2, <2>7 DEF Report, BrokerAck, BrokerFail, TypeOK, Wedged
  <2>8. ASSUME NEW w \in Workers, Work(w) PROVE Wedged'
    <3>1. pc[w] \notin {"poll", "serve", "finish"}
      BY DEF Wedged
    <3>2. CASE Dequeue(w)
      BY <2>0, <2>2, <3>2 DEF Dequeue, TypeOK, Wedged
    <3>3. CASE HandleLogin(w) \/ HandleReject(w) \/ HandleAccept(w)
      BY <2>0, <2>2, <3>3 DEF HandleLogin, HandleReject, HandleAccept, TypeOK, Wedged
    <3>4. CASE ProduceOk(w)
      BY <2>3, <3>4 DEF ProduceOk
    <3>5. CASE ProduceFail(w) \/ HandleErase(w) \/ HandleFailed(w)
      BY <2>0, <2>2, <3>5 DEF ProduceFail, HandleErase, HandleFailed, TypeOK, Wedged
    <3>6. CASE Poll(w) \/ (\E c \in Contexts : DrFind(w, c)) \/ DrFinish(w) \/ ServeDone(w)
      BY <3>1, <3>6 DEF Poll, DrFind, DrFinish, ServeDone
    <3> QED
      BY <2>8, <3>2, <3>3, <3>4, <3>5, <3>6 DEF Work
  <2>9. CASE UNCHANGED vars
    BY <2>4, <2>9 DEF vars
  <2> QED
    BY <2>5, <2>6, <2>7, <2>8, <2>9 DEF Next
<1> QED
  BY <1>1, Inductive, PTL DEF Spec, WedgedForever
=============================================================================
