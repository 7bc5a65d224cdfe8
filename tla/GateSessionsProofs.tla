------------------------- MODULE GateSessionsProofs -------------------------
(***************************************************************************)
(* Proofs about GateSessions, for any number of users, workers, addresses,  *)
(* tokens, connections, messages and faults.                                *)
(*                                                                          *)
(* The invariant is in three parts: Typed, types with what the frames of    *)
(* the workers hold; Linked, how connections, addresses, tokens and tasks   *)
(* belong together in every run; and Explained, what the two tables of      *)
(* sessions (sockets_ and the gate fields) say as long as no task has acted *)
(* on what is not its own.                                                  *)
(***************************************************************************)
EXTENDS GateSessions, SequenceTheorems, FiniteSetTheorems, TLAPS

AnyConn == [user : Users, token : 1..MaxTokens, ws : Addresses, open : BOOLEAN]
AnyTask == [kind : Kinds, own : 1..MaxConns] \cup [kind : {"push"}, user : Users]
Frame == [place : {"idle", "hset", "del", "uid", "add", "message", "hdel", "erase", "get", "send"},
          own : 0..MaxConns, ws : Addresses \cup {NoAddress}, user : Users \cup {NoUser}]

\* The tasks that wait, in whatever order.
Waiting == {tasks_[i] : i \in DOMAIN tasks_}

T(kind, c) == [kind |-> kind, own |-> c]

\* A worker runs a task of connection c and is at one of these places.
At(c, places) == \E w \in Workers : at[w].own = c /\ at[w].place \in places

\* What is left to do for connection c.
LoginLeft(c) == T("login", c) \in Waiting \/ At(c, {"hset"})
TokenLeft(c) == T("login", c) \in Waiting \/ At(c, {"hset", "del"})
OpenLeft(c) == T("open", c) \in Waiting \/ At(c, {"uid", "add"})
HDelLeft(c) == T("close", c) \in Waiting \/ At(c, {"hdel"})
CloseLeft(c) == T("close", c) \in Waiting \/ At(c, {"hdel", "erase"})
AnyLeft(c) == (\E k \in Kinds : T(k, c) \in Waiting) \/ (\E w \in Workers : at[w].own = c)

-----------------------------------------------------------------------------
NoTaskPlaces == {"idle", "get", "send"}
SocketPlaces == {"uid", "add", "message", "hdel", "erase"}

\* What the variables of worker w are good for where it is.
FrameOK(w) ==
  /\ IF at[w].place \in NoTaskPlaces THEN at[w].own = 0 ELSE at[w].own \in DOMAIN conns
  /\ at[w].place \in SocketPlaces => at[w].ws \in Addresses /\ uid[at[w].ws] \in Users
  /\ at[w].place \in {"add", "get", "send"} => at[w].user \in Users
  /\ at[w].place = "send" => at[w].ws \in Addresses

Typed ==
  /\ issued \in Seq(Users) /\ Len(issued) <= MaxTokens
  /\ token \in [Users -> 0..Len(issued)]
  /\ gate \subseteq Users
  /\ conns \in Seq(AnyConn) /\ Len(conns) <= MaxConns
  /\ holder \in [Addresses -> 0..Len(conns)]
  /\ uid \in [Addresses -> Users \cup {NoUser}]
  /\ sockets_ \in [Users -> Addresses \cup {NoAddress}]
  /\ tasks_ \in Seq(AnyTask)
  /\ at \in [Workers -> Frame]
  /\ calls \in [Users -> Nat]
  /\ reply \in [user : Users \cup {NoUser}, ws : Addresses \cup {NoAddress}]
  /\ reply.user # NoUser => reply.ws \in Addresses
  /\ sends \in 0..MaxSends /\ faults \in 0..MaxFaults
  /\ overlap \subseteq Users /\ late \subseteq Users
  /\ failed \subseteq Users /\ crashed \in BOOLEAN
  /\ stray \in BOOLEAN
  /\ \A w \in Workers : FrameOK(w)
  /\ \A t \in Waiting : t.kind \in Kinds => t.own \in DOMAIN conns

\* Messages on their way to msg_logic.
MessageTasks == {i \in DOMAIN tasks_ : tasks_[i].kind = "message"}
MessageWorkers == {w \in Workers : at[w].place = "message"}

\* A call to msg_logic was a message first.
CallsBounded ==
  /\ IsFiniteSet(MessageWorkers)
  /\ \A u \in Users :
       calls[u] + Cardinality(MessageTasks) + Cardinality(MessageWorkers) <= sends

-----------------------------------------------------------------------------
\* An address is known by the last connection there, and an open connection is
\* the last one at its address.
HolderOK ==
  /\ \A a \in Addresses : holder[a] # 0 => conns[holder[a]].ws = a
  /\ \A c \in DOMAIN conns : conns[c].open => holder[conns[c].ws] = c

\* A connection whose CloseHandle is to come has closed.
ClosedFirst == \A c \in DOMAIN conns : CloseLeft(c) => ~conns[c].open

\* A token belongs to one user.
TokensOwned ==
  /\ \A u \in Users : token[u] # 0 => issued[token[u]] = u
  /\ \A c \in DOMAIN conns :
       conns[c].token \in DOMAIN issued /\ issued[conns[c].token] = conns[c].user

\* Of a user whose sockets never overlapped only the last one is in use.
OneInUse ==
  \A c, d \in DOMAIN conns :
    c < d /\ conns[c].user = conns[d].user /\ conns[c].user \notin overlap =>
      ~conns[c].open /\ ~AnyLeft(c)

Linked == HolderOK /\ ClosedFirst /\ TokensOwned /\ OneInUse

-----------------------------------------------------------------------------
\* The uid at an address is that of its connection, and an open task holds the
\* user of its own.
UidOK ==
  /\ \A a \in Addresses : holder[a] # 0 => uid[a] = conns[holder[a]].user
  /\ \A w \in Workers : at[w].place = "add" => at[w].user = conns[at[w].own].user

\* Address a was, or is, that of a socket of u.
HadSocket(u, a) == \E c \in DOMAIN conns : conns[c].user = u /\ conns[c].ws = a

\* The table and the sends in hand name sockets of the right user.
Rightful ==
  /\ \A u \in Users : sockets_[u] # NoAddress => HadSocket(u, sockets_[u])
  /\ \A x \in InHand : HadSocket(x.user, x.ws)

\* An entry has a connection that will clear it away.
EntryHeld ==
  \A u \in Users \ (late \cup failed) :
    sockets_[u] # NoAddress =>
      \E c \in DOMAIN conns :
        conns[c].user = u /\ conns[c].ws = sockets_[u] /\ (conns[c].open \/ CloseLeft(c))

\* So has a gate field, but for a crash.
GateHeld ==
  \A u \in gate \ (late \cup failed) :
    ~crashed => \E c \in DOMAIN conns : conns[c].user = u /\ (conns[c].open \/ HDelLeft(c))

\* An open connection whose tasks are done is in both tables.
Entered ==
  \A c \in DOMAIN conns :
    conns[c].open /\ conns[c].user \notin overlap \cup failed =>
      /\ ~LoginLeft(c) => conns[c].user \in gate
      /\ ~OpenLeft(c) => sockets_[conns[c].user] = conns[c].ws

\* A token is gone once the login task of a connection it has admitted is done.
TokenSpent ==
  \A c \in DOMAIN conns :
    ~crashed /\ conns[c].user \notin failed /\ ~TokenLeft(c) =>
      token[conns[c].user] # conns[c].token

Explained == UidOK /\ Rightful /\ EntryHeld /\ GateHeld /\ Entered /\ TokenSpent

IndInv == Typed /\ CallsBounded /\ Linked /\ (stray \/ Explained)

-----------------------------------------------------------------------------
(***************************************************************************)
(* The queue, as the set of the tasks that wait.                            *)
(***************************************************************************)

LEMMA QueueAppend ==
  ASSUME tasks_ \in Seq(AnyTask), NEW x \in AnyTask, tasks_' = Append(tasks_, x)
  PROVE  tasks_' \in Seq(AnyTask) /\ Waiting' = Waiting \cup {x}
<1>1. /\ tasks_' \in Seq(AnyTask) /\ Len(tasks_') = Len(tasks_) + 1
      /\ \A i \in 1..Len(tasks_) : tasks_'[i] = tasks_[i]
      /\ tasks_'[Len(tasks_) + 1] = x
  BY AppendProperties
<1>2. DOMAIN tasks_ = 1..Len(tasks_) /\ DOMAIN tasks_' = 1..Len(tasks_) + 1 /\ Len(tasks_) \in Nat
  BY <1>1, LenProperties
<1> QED
  BY <1>1, <1>2 DEF Waiting

LEMMA QueueAppendTwo ==
  ASSUME tasks_ \in Seq(AnyTask), NEW x \in AnyTask, NEW y \in AnyTask,
         tasks_' = tasks_ \o <<x, y>>
  PROVE  tasks_' \in Seq(AnyTask) /\ Waiting' = Waiting \cup {x, y}
<1>1. <<x, y>> \in Seq(AnyTask) /\ Len(<<x, y>>) = 2 /\ <<x, y>>[1] = x /\ <<x, y>>[2] = y
  OBVIOUS
<1>2. /\ tasks_' \in Seq(AnyTask) /\ Len(tasks_') = Len(tasks_) + 2
      /\ \A i \in 1 .. Len(tasks_) + 2 :
           tasks_'[i] = IF i <= Len(tasks_) THEN tasks_[i] ELSE <<x, y>>[i - Len(tasks_)]
  BY <1>1, ConcatProperties
<1>3. DOMAIN tasks_ = 1..Len(tasks_) /\ DOMAIN tasks_' = 1..Len(tasks_) + 2 /\ Len(tasks_) \in Nat
  BY <1>2, LenProperties
<1>4. \A i \in 1..Len(tasks_) : tasks_'[i] = tasks_[i]
  BY <1>2, <1>3
<1>5. tasks_'[Len(tasks_) + 1] = x /\ tasks_'[Len(tasks_) + 2] = y
  BY <1>1, <1>2, <1>3
<1>6. Waiting' = Waiting \cup {x, y}
  <2>1. Waiting' \subseteq Waiting \cup {x, y}
    <3>1. \A i \in DOMAIN tasks_' :
            i \in DOMAIN tasks_ \/ i = Len(tasks_) + 1 \/ i = Len(tasks_) + 2
      BY <1>3
    <3> QED
      BY <3>1, <1>3, <1>4, <1>5 DEF Waiting
  <2>2. Waiting \subseteq Waiting'
    BY <1>3, <1>4 DEF Waiting
  <2>3. x \in Waiting' /\ y \in Waiting'
    <3>1. Len(tasks_) + 1 \in DOMAIN tasks_' /\ Len(tasks_) + 2 \in DOMAIN tasks_'
      BY <1>3
    <3> QED
      BY <3>1, <1>5 DEF Waiting
  <2> QED
    BY <2>1, <2>2, <2>3
<1> QED
  BY <1>2, <1>6

LEMMA QueueTail ==
  ASSUME tasks_ \in Seq(AnyTask), tasks_ # <<>>, tasks_' = Tail(tasks_)
  PROVE  /\ tasks_' \in Seq(AnyTask)
         /\ Head(tasks_) \in Waiting /\ Head(tasks_) \in AnyTask
         /\ Waiting' \subseteq Waiting /\ Waiting \subseteq Waiting' \cup {Head(tasks_)}
<1>1. /\ Head(tasks_) \in AnyTask /\ tasks_' \in Seq(AnyTask)
      /\ Len(tasks_') = Len(tasks_) - 1 /\ Len(tasks_) \in Nat \ {0}
      /\ \A i \in 1..Len(tasks_') : tasks_'[i] = tasks_[i + 1]
  BY HeadTailProperties, EmptySeq
<1>2. DOMAIN tasks_ = 1..Len(tasks_) /\ DOMAIN tasks_' = 1..Len(tasks_) - 1
  BY <1>1, LenProperties
<1>3. Head(tasks_) = tasks_[1]
  OBVIOUS
<1>4. Head(tasks_) \in Waiting
  BY <1>1, <1>2, <1>3 DEF Waiting
<1>5. Waiting' \subseteq Waiting
  BY <1>1, <1>2 DEF Waiting
<1>6. ASSUME NEW i \in DOMAIN tasks_ PROVE tasks_[i] \in Waiting' \cup {Head(tasks_)}
  <2>1. CASE i = 1
    BY <2>1, <1>3
  <2>2. CASE i # 1
    <3>1. i - 1 \in DOMAIN tasks_' /\ tasks_'[i - 1] = tasks_[i]
      BY <1>1, <1>2, <2>2
    <3> QED
      BY <3>1 DEF Waiting
  <2> QED
    BY <2>1, <2>2
<1> QED
  BY <1>1, <1>4, <1>5, <1>6 DEF Waiting

LEMMA WaitingTyped == tasks_ \in Seq(AnyTask) => Waiting \subseteq AnyTask
BY ElementOfSeq, LenProperties DEF Waiting

-----------------------------------------------------------------------------
(***************************************************************************)
(* Types.                                                                   *)
(***************************************************************************)

LEMMA TypedInit == Init => Typed
<1> SUFFICES ASSUME Init PROVE Typed
  OBVIOUS
<1>1. Idle \in Frame
  BY GateAssumption DEF Idle, Frame
<1>2. Waiting = {}
  BY DEF Init, Waiting
<1>3. \A w \in Workers : FrameOK(w)
  BY DEF Init, FrameOK, Idle, NoTaskPlaces, SocketPlaces
<1>4. /\ issued \in Seq(Users) /\ Len(issued) = 0 /\ conns \in Seq(AnyConn) /\ Len(conns) = 0
      /\ tasks_ \in Seq(AnyTask)
  BY DEF Init
<1>5. /\ token \in [Users -> 0..Len(issued)] /\ holder \in [Addresses -> 0..Len(conns)]
      /\ Len(issued) <= MaxTokens /\ Len(conns) <= MaxConns
      /\ sends \in 0..MaxSends /\ faults \in 0..MaxFaults
  BY <1>4, GateAssumption DEF Init
<1>6. /\ reply \in [user : Users \cup {NoUser}, ws : Addresses \cup {NoAddress}]
      /\ reply.user = NoUser
  BY DEF Init
<1> QED
  BY <1>1, <1>2, <1>3, <1>4, <1>5, <1>6 DEF Init, Typed

\* What a frame needs of the other variables is not taken away by a step that
\* keeps the connections and the uids.
LEMMA FrameKept ==
  ASSUME NEW w \in Workers, FrameOK(w), at'[w] = at[w],
         DOMAIN conns \subseteq DOMAIN conns',
         \A a \in Addresses : uid[a] \in Users => uid'[a] \in Users
  PROVE  FrameOK(w)'
BY DEF FrameOK

\* What every worker's step does to the frames.
LEMMA ReturnTypes ==
  ASSUME at \in [Workers -> Frame], NEW w \in Workers, Return(w)
  PROVE  /\ at' \in [Workers -> Frame]
         /\ at'[w] = Idle /\ \A v \in Workers \ {w} : at'[v] = at[v]
         /\ at'[w].place = "idle" /\ at'[w].own = 0
         /\ at'[w].ws = NoAddress /\ at'[w].user = NoUser
<1>1. Idle \in Frame
  BY GateAssumption DEF Idle, Frame
<1> QED
  BY <1>1 DEF Return, Idle

LEMMA GotoTypes ==
  ASSUME at \in [Workers -> Frame], NEW w \in Workers,
         NEW place \in {"del", "erase"}, Goto(w, place)
  PROVE  /\ at' \in [Workers -> Frame]
         /\ \A v \in Workers \ {w} : at'[v] = at[v]
         /\ at'[w].place = place /\ at'[w].own = at[w].own
         /\ at'[w].ws = at[w].ws /\ at'[w].user = at[w].user
<1>1. at[w] \in Frame
  OBVIOUS
<1>2. at' = [at EXCEPT ![w] = [at[w] EXCEPT !.place = place]]
  BY DEF Goto
<1>3. [at[w] EXCEPT !.place = place] \in Frame
  BY <1>1 DEF Frame
<1> QED
  BY <1>1, <1>2, <1>3 DEF Frame

LEMMA OpenUidTypes ==
  ASSUME Typed, NEW w \in Workers, OpenUid(w)
  PROVE  /\ at' \in [Workers -> Frame]
         /\ \A v \in Workers \ {w} : at'[v] = at[v]
         /\ at'[w].place = "add" /\ at'[w].own = at[w].own
         /\ at'[w].ws = at[w].ws /\ at'[w].user = uid[at[w].ws]
         /\ uid[at[w].ws] \in Users /\ at[w].ws \in Addresses
<1>1. at[w] \in Frame /\ at \in [Workers -> Frame]
  BY DEF Typed
<1>2. uid[at[w].ws] \in Users /\ at[w].ws \in Addresses
  BY DEF Typed, FrameOK, OpenUid, SocketPlaces
<1>3. at' = [at EXCEPT ![w] = [at[w] EXCEPT !.user = uid[at[w].ws], !.place = "add"]]
  BY <1>1 DEF OpenUid
<1>4. [at[w] EXCEPT !.user = uid[at[w].ws], !.place = "add"] \in Frame
  BY <1>1, <1>2 DEF Frame
<1> QED
  BY <1>1, <1>2, <1>3, <1>4 DEF Frame

\* A worker takes a push, or a task of a connection with the socket it sees.
LEMMA DequeueTypes ==
  ASSUME Typed, NEW w \in Workers, Dequeue(w)
  PROVE  /\ at' \in [Workers -> Frame]
         /\ \A v \in Workers \ {w} : at'[v] = at[v]
         /\ tasks_' \in Seq(AnyTask)
         /\ at[w].own = 0
         /\ Waiting' \subseteq Waiting
         /\ \/ /\ at'[w].place = "get" /\ at'[w].own = 0 /\ at'[w].user \in Users
               /\ Head(tasks_).kind = "push"
               /\ \A k \in Kinds : \A c : T(k, c) \in Waiting => T(k, c) \in Waiting'
            \/ \E k \in Kinds, c \in DOMAIN conns :
                 /\ T(k, c) \in Waiting
                 /\ Head(tasks_).kind = k
                 /\ Waiting \subseteq Waiting' \cup {T(k, c)}
                 /\ at'[w].place = First[k] /\ at'[w].own = c
                 /\ k # "login" => at'[w].ws \in Addresses /\ uid[at'[w].ws] \in Users
<1> DEFINE t == Head(tasks_)
<1>1. /\ tasks_' \in Seq(AnyTask)
      /\ t \in Waiting /\ t \in AnyTask
      /\ Waiting' \subseteq Waiting /\ Waiting \subseteq Waiting' \cup {t}
  BY QueueTail DEF Typed, Dequeue
<1>2. at \in [Workers -> Frame] /\ at[w] = Idle /\ at[w].own = 0
  <2>1. at[w] = Idle
    BY DEF Dequeue
  <2> QED
    BY <2>1 DEF Typed, Idle
<1>3. CASE t.kind = "push"
  <2>1. t.user \in Users
    BY <1>1, <1>3 DEF AnyTask, Kinds
  <2>2. at' = [at EXCEPT ![w] = [place |-> "get", own |-> 0, ws |-> NoAddress, user |-> t.user]]
    BY <1>3 DEF Dequeue, Idle
  <2>3. [place |-> "get", own |-> 0, ws |-> NoAddress, user |-> t.user] \in Frame
    BY <2>1, GateAssumption DEF Frame
  <2>4. \A k \in Kinds : \A c : T(k, c) # t
    BY <1>3 DEF T, Kinds
  <2> QED
    BY <1>1, <1>2, <1>3, <2>1, <2>2, <2>3, <2>4
<1>4. CASE t.kind # "push"
  <2>1. t \in [kind : Kinds, own : 1..MaxConns]
    BY <1>1, <1>4 DEF AnyTask
  <2>2. t.kind \in Kinds /\ t.own \in 1..MaxConns /\ t = T(t.kind, t.own)
    BY <2>1 DEF T
  <2>3. t.own \in DOMAIN conns
    BY <1>1, <2>2 DEF Typed
  <2>4. PICK a \in SeenSockets(t) :
          at' = [at EXCEPT ![w] = [place |-> First[t.kind], own |-> t.own, ws |-> a,
                                   user |-> NoUser]]
    <3>1. \E a \in SeenSockets(t) :
            at' = [at EXCEPT ![w] = [Idle EXCEPT !.place = First[t.kind], !.own = t.own, !.ws = a]]
      BY <1>4 DEF Dequeue
    <3> QED
      BY <3>1 DEF Idle
  <2>5. a \in Addresses \cup {NoAddress} /\ (t.kind # "login" => a \in Addresses /\ uid[a] \in Users)
    BY <2>4 DEF SeenSockets, Typed
  <2>6. First[t.kind] \in {"hset", "uid", "message", "hdel"}
    BY <2>2 DEF First, Kinds
  <2>7. [place |-> First[t.kind], own |-> t.own, ws |-> a, user |-> NoUser] \in Frame
    BY <2>2, <2>5, <2>6, GateAssumption DEF Frame
  <2>8. /\ at' \in [Workers -> Frame]
        /\ \A v \in Workers \ {w} : at'[v] = at[v]
        /\ at'[w].place = First[t.kind] /\ at'[w].own = t.own /\ at'[w].ws = a
    BY <1>2, <2>4, <2>7
  <2>9. T(t.kind, t.own) \in Waiting /\ Waiting \subseteq Waiting' \cup {T(t.kind, t.own)}
    BY <1>1, <2>2
  <2> QED
    BY <1>1, <1>2, <2>2, <2>3, <2>5, <2>8, <2>9
<1> QED
  BY <1>3, <1>4

\* The rest of Typed, for a step of a worker that leaves the queue alone or
\* takes a task from it.
LEMMA WorkTyped ==
  ASSUME Typed, NEW w \in Workers,
         at' \in [Workers -> Frame], \A v \in Workers \ {w} : at'[v] = at[v], FrameOK(w)',
         UNCHANGED <<issued, conns, holder, reply, sends>>,
         token' \in [Users -> 0..Len(issued)], gate' \subseteq Users,
         uid' \in [Addresses -> Users \cup {NoUser}],
         \A a \in Addresses : uid[a] \in Users => uid'[a] \in Users,
         sockets_' \in [Users -> Addresses \cup {NoAddress}],
         tasks_' \in Seq(AnyTask), Waiting' \subseteq Waiting,
         calls' \in [Users -> Nat], faults' \in 0..MaxFaults,
         overlap' \subseteq Users, late' \subseteq Users, failed' \subseteq Users,
         crashed' \in BOOLEAN, stray' \in BOOLEAN
  PROVE  Typed'
<1>1. \A v \in Workers : FrameOK(v)'
  <2> SUFFICES ASSUME NEW v \in Workers PROVE FrameOK(v)'
    OBVIOUS
  <2>1. CASE v # w
    <3>1. FrameOK(v) /\ at'[v] = at[v] /\ DOMAIN conns \subseteq DOMAIN conns'
      BY <2>1 DEF Typed
    <3> QED
      BY <3>1, FrameKept
  <2> QED
    BY <2>1
<1>2. \A t \in Waiting' : t.kind \in Kinds => t.own \in DOMAIN conns'
  BY DEF Typed
<1> QED
  BY <1>1, <1>2 DEF Typed

LEMMA WaitingKept == UNCHANGED tasks_ => Waiting' = Waiting
BY DEF Waiting

LEMMA ConnTypes ==
  ASSUME Typed
  PROVE  /\ DOMAIN conns = 1..Len(conns) /\ Len(conns) \in Nat
         /\ \A c \in DOMAIN conns :
              /\ conns[c] \in AnyConn /\ conns[c].user \in Users /\ conns[c].ws \in Addresses
              /\ conns[c].token \in 1..MaxTokens /\ conns[c].open \in BOOLEAN
              /\ c \in 1..MaxConns
         /\ DOMAIN issued = 1..Len(issued) /\ Len(issued) \in Nat
         /\ \A i \in DOMAIN issued : issued[i] \in Users
<1>1. conns \in Seq(AnyConn) /\ issued \in Seq(Users) /\ Len(conns) <= MaxConns
  BY DEF Typed
<1>2. DOMAIN conns = 1..Len(conns) /\ Len(conns) \in Nat /\ \A c \in DOMAIN conns : conns[c] \in AnyConn
  BY <1>1, LenProperties, ElementOfSeq
<1>3. DOMAIN issued = 1..Len(issued) /\ Len(issued) \in Nat /\ \A i \in DOMAIN issued : issued[i] \in Users
  BY <1>1, LenProperties, ElementOfSeq
<1>4. \A c \in DOMAIN conns : c \in 1..MaxConns
  BY <1>1, <1>2, GateAssumption
<1> QED
  BY <1>2, <1>3, <1>4 DEF AnyConn

LEMMA WorkStepTyped ==
  ASSUME Typed, NEW w \in Workers, Work(w)
  PROVE  Typed'
<1> USE DEF redisvars, loopvars, sendvars, ghosts
<1>t. /\ at \in [Workers -> Frame] /\ tasks_ \in Seq(AnyTask)
      /\ token \in [Users -> 0..Len(issued)] /\ gate \subseteq Users
      /\ uid \in [Addresses -> Users \cup {NoUser}]
      /\ sockets_ \in [Users -> Addresses \cup {NoAddress}]
      /\ calls \in [Users -> Nat] /\ faults \in 0..MaxFaults
      /\ overlap \subseteq Users /\ late \subseteq Users
      /\ failed \subseteq Users /\ crashed \in BOOLEAN /\ stray \in BOOLEAN
      /\ FrameOK(w)
  BY DEF Typed
<1>s. SeenUids(w) \subseteq Users \cup {NoUser} \/ at[w].own \notin DOMAIN conns
  BY ConnTypes DEF SeenUids
<1>o. at[w].place \in {"hset", "del", "uid", "add", "message", "hdel", "erase"} =>
        at[w].own \in DOMAIN conns /\ conns[at[w].own].user \in Users
  BY <1>t, ConnTypes DEF FrameOK, NoTaskPlaces
<1>i. at'[w].place = "idle" /\ at'[w].own = 0 => FrameOK(w)'
  BY DEF FrameOK, NoTaskPlaces, SocketPlaces
<1>1. CASE Dequeue(w)
  <2>1. FrameOK(w)'
    <3>1. DOMAIN conns' = DOMAIN conns /\ uid' = uid
      BY <1>1 DEF Dequeue
    <3> QED
      BY <1>1, <3>1, DequeueTypes
      DEF FrameOK, NoTaskPlaces, SocketPlaces, Kinds, First
  <2>2. /\ at' \in [Workers -> Frame] /\ \A v \in Workers \ {w} : at'[v] = at[v]
        /\ tasks_' \in Seq(AnyTask) /\ Waiting' \subseteq Waiting
    BY <1>1, DequeueTypes
  <2> QED
    BY <1>1, <2>1, <2>2, <1>t, WorkTyped DEF Dequeue
<1>2. CASE HSet(w)
  <2>1. Goto(w, "del")
    BY <1>2 DEF HSet
  <2>2. FrameOK(w)'
    BY <1>2, <2>1, <1>t, GotoTypes DEF HSet, FrameOK, NoTaskPlaces, SocketPlaces
  <2>3. gate' \subseteq Users /\ late' \subseteq Users /\ stray' \in BOOLEAN
    BY <1>2, <1>t, <1>s, <1>o DEF HSet
  <2> QED
    BY <1>2, <2>1, <2>2, <2>3, <1>t, GotoTypes, WaitingKept, WorkTyped DEF HSet
<1>3. CASE Del(w)
  <2>1. Return(w)
    BY <1>3 DEF Del
  <2>2. token' \in [Users -> 0..Len(issued)] /\ stray' \in BOOLEAN
    BY <1>3, <1>t, <1>s, <1>o, ConnTypes DEF Del
  <2> QED
    BY <1>3, <2>1, <2>2, <1>t, <1>i, ReturnTypes, WaitingKept, WorkTyped DEF Del
<1>4. CASE OpenUid(w)
  <2>1. FrameOK(w)'
    BY <1>4, <1>t, OpenUidTypes DEF OpenUid, FrameOK, NoTaskPlaces, SocketPlaces
  <2>2. stray' \in BOOLEAN
    BY <1>4, <1>t DEF OpenUid, IsStray
  <2> QED
    BY <1>4, <2>1, <2>2, <1>t, OpenUidTypes, WaitingKept, WorkTyped DEF OpenUid
<1>5. CASE AddWS(w)
  <2>1. Return(w) /\ at[w].user \in Users /\ at[w].ws \in Addresses
    BY <1>5, <1>t DEF AddWS, FrameOK, SocketPlaces
  <2>2. /\ uid' \in [Addresses -> Users \cup {NoUser}]
        /\ \A a \in Addresses : uid[a] \in Users => uid'[a] \in Users
        /\ sockets_' \in [Users -> Addresses \cup {NoAddress}]
    BY <1>5, <1>t, <2>1 DEF AddWS
  <2>3. stray' \in BOOLEAN /\ late' \subseteq Users
    BY <1>5, <1>t, <2>1 DEF AddWS, IsStray
  <2> QED
    BY <1>5, <2>1, <2>2, <2>3, <1>t, <1>i, ReturnTypes, WaitingKept, WorkTyped DEF AddWS
<1>6. CASE MessageDrop(w)
  <2>1. Return(w)
    BY <1>6 DEF MessageDrop
  <2> QED
    BY <1>6, <2>1, <1>t, <1>i, ReturnTypes, WaitingKept, WorkTyped DEF MessageDrop
<1>7. CASE MessageForward(w)
  <2>1. Return(w) /\ uid[at[w].ws] \in Users
    BY <1>7, <1>t DEF MessageForward, FrameOK, SocketPlaces
  <2>2. calls' \in [Users -> Nat] /\ stray' \in BOOLEAN
    BY <1>7, <1>t, <2>1 DEF MessageForward, IsStray
  <2> QED
    BY <1>7, <2>1, <2>2, <1>t, <1>i, ReturnTypes, WaitingKept, WorkTyped DEF MessageForward
<1>8. CASE HDel(w)
  <2>1. Goto(w, "erase")
    BY <1>8 DEF HDel
  <2>2. FrameOK(w)'
    BY <1>8, <2>1, <1>t, GotoTypes DEF HDel, FrameOK, NoTaskPlaces, SocketPlaces
  <2>3. gate' \subseteq Users /\ stray' \in BOOLEAN
    BY <1>8, <1>t DEF HDel, IsStray
  <2> QED
    BY <1>8, <2>1, <2>2, <2>3, <1>t, GotoTypes, WaitingKept, WorkTyped DEF HDel
<1>9. CASE DelWS(w)
  <2>1. Return(w) /\ uid[at[w].ws] \in Users
    BY <1>9, <1>t DEF DelWS, FrameOK, SocketPlaces
  <2>2. sockets_' \in [Users -> Addresses \cup {NoAddress}] /\ stray' \in BOOLEAN
    BY <1>9, <1>t, <2>1 DEF DelWS, IsStray
  <2> QED
    BY <1>9, <2>1, <2>2, <1>t, <1>i, ReturnTypes, WaitingKept, WorkTyped DEF DelWS
<1>10. CASE PushGet(w)
  <2>0. at[w] \in Frame /\ at[w].user \in Users /\ at[w].own = 0
    BY <1>10, <1>t DEF PushGet, FrameOK, NoTaskPlaces
  <2>1. CASE sockets_[at[w].user] = NoAddress
    <3>1. Return(w)
      BY <1>10, <2>1 DEF PushGet
    <3> QED
      BY <1>10, <3>1, <1>t, <1>i, ReturnTypes, WaitingKept, WorkTyped DEF PushGet
  <2>2. CASE sockets_[at[w].user] # NoAddress
    <3> DEFINE a == sockets_[at[w].user]
    <3>1. at' = [at EXCEPT ![w] = [at[w] EXCEPT !.ws = a, !.place = "send"]]
      BY <1>10, <1>t, <2>2 DEF PushGet
    <3>2. a \in Addresses
      BY <1>t, <2>0, <2>2
    <3>3. [at[w] EXCEPT !.ws = a, !.place = "send"] \in Frame
      BY <2>0, <3>2 DEF Frame
    <3>4. /\ at' \in [Workers -> Frame] /\ \A v \in Workers \ {w} : at'[v] = at[v]
          /\ at'[w].place = "send" /\ at'[w].own = 0 /\ at'[w].ws = a /\ at'[w].user \in Users
      BY <3>1, <3>3, <2>0, <1>t DEF Frame
    <3>5. FrameOK(w)'
      BY <3>4, <3>2 DEF FrameOK, NoTaskPlaces, SocketPlaces
    <3> QED
      BY <1>10, <3>4, <3>5, <1>t, WaitingKept, WorkTyped DEF PushGet
  <2> QED
    BY <2>1, <2>2
<1>11. CASE PushSend(w)
  <2>1. Return(w)
    BY <1>11 DEF PushSend
  <2> QED
    BY <1>11, <2>1, <1>t, <1>i, ReturnTypes, WaitingKept, WorkTyped DEF PushSend
<1>12. CASE RedisFails(w)
  <2>1. Return(w)
    BY <1>12 DEF RedisFails
  <2>2. faults' \in 0..MaxFaults /\ failed' \subseteq Users
    BY <1>12, <1>t, <1>o, GateAssumption DEF RedisFails
  <2> QED
    BY <1>12, <2>1, <2>2, <1>t, <1>i, ReturnTypes, WaitingKept, WorkTyped DEF RedisFails
<1> QED
  BY <1>1, <1>2, <1>3, <1>4, <1>5, <1>6, <1>7, <1>8, <1>9, <1>10, <1>11, <1>12 DEF Work

\* Dispatch appends the token it stores.
LEMMA DispatchTypes ==
  ASSUME Typed, NEW u \in Users, Dispatch(u)
  PROVE  /\ issued' \in Seq(Users) /\ Len(issued') = Len(issued) + 1
         /\ Len(issued) + 1 <= MaxTokens
         /\ DOMAIN issued' = DOMAIN issued \cup {Len(issued) + 1}
         /\ \A i \in DOMAIN issued : issued'[i] = issued[i]
         /\ issued'[Len(issued) + 1] = u
         /\ token' \in [Users -> 0..Len(issued')]
         /\ token'[u] = Len(issued) + 1 /\ \A v \in Users \ {u} : token'[v] = token[v]
<1>1. /\ issued \in Seq(Users) /\ token \in [Users -> 0..Len(issued)]
      /\ issued' = Append(issued, u) /\ token' = [token EXCEPT ![u] = Len(issued) + 1]
      /\ Len(issued) < MaxTokens
  BY DEF Typed, Dispatch
<1>2. /\ issued' \in Seq(Users) /\ Len(issued') = Len(issued) + 1
      /\ \A i \in 1..Len(issued) : issued'[i] = issued[i]
      /\ issued'[Len(issued) + 1] = u
  BY <1>1, AppendProperties
<1>3. DOMAIN issued = 1..Len(issued) /\ DOMAIN issued' = 1..Len(issued) + 1 /\ Len(issued) \in Nat
  BY <1>1, <1>2, LenProperties
<1> QED
  BY <1>1, <1>2, <1>3, GateAssumption

\* Upgrade appends a connection and its two tasks.
LEMMA UpgradeTypes ==
  ASSUME Typed, NEW u \in Users, NEW t \in 0..Len(issued), NEW a \in Addresses, Upgrade(u, t, a)
  PROVE  LET c == Len(conns) + 1 IN
         /\ conns' \in Seq(AnyConn) /\ Len(conns') = c
         /\ c <= MaxConns /\ c \in 1..MaxConns /\ c \notin DOMAIN conns
         /\ DOMAIN conns' = DOMAIN conns \cup {c}
         /\ \A d \in DOMAIN conns : conns'[d] = conns[d]
         /\ conns'[c].user = u /\ conns'[c].token = t /\ conns'[c].ws = a /\ conns'[c].open = TRUE
         /\ \A d \in DOMAIN conns : d < c
         /\ tasks_' \in Seq(AnyTask)
         /\ Waiting' = Waiting \cup {T("login", c), T("open", c)}
         /\ holder' \in [Addresses -> 0..Len(conns')]
         /\ holder'[a] = c /\ \A b \in Addresses \ {a} : holder'[b] = holder[b]
         /\ uid' \in [Addresses -> Users \cup {NoUser}]
         /\ uid'[a] = u /\ \A b \in Addresses \ {a} : uid'[b] = uid[b]
         /\ t # 0 /\ t = token[u]
<1> DEFINE c == Len(conns) + 1
           e == [user |-> u, token |-> t, ws |-> a, open |-> TRUE]
<1>1. /\ conns \in Seq(AnyConn) /\ conns' = Append(conns, e) /\ Len(conns) < MaxConns
      /\ holder \in [Addresses -> 0..Len(conns)] /\ holder' = [holder EXCEPT ![a] = c]
      /\ uid \in [Addresses -> Users \cup {NoUser}] /\ uid' = [uid EXCEPT ![a] = u]
      /\ tasks_ \in Seq(AnyTask) /\ tasks_' = tasks_ \o <<T("login", c), T("open", c)>>
      /\ t # 0 /\ t = token[u] /\ Len(issued) <= MaxTokens
  BY DEF Typed, Upgrade, Accepts, UpgradeTasks, T
<1>2. Len(conns) \in Nat /\ DOMAIN conns = 1..Len(conns) /\ Len(issued) \in Nat
  BY ConnTypes
<1>3. c \in 1..MaxConns /\ c <= MaxConns /\ c \notin DOMAIN conns /\ \A d \in DOMAIN conns : d < c
  BY <1>1, <1>2, GateAssumption
<1>4. e \in AnyConn
  BY <1>1, <1>2, GateAssumption DEF AnyConn
<1>5. /\ conns' \in Seq(AnyConn) /\ Len(conns') = c
      /\ \A d \in 1..Len(conns) : conns'[d] = conns[d]
      /\ conns'[c] = e
  BY <1>1, <1>4, AppendProperties
<1>6. DOMAIN conns' = 1..c
  BY <1>5, LenProperties
<1>7. T("login", c) \in AnyTask /\ T("open", c) \in AnyTask
  BY <1>3 DEF T, AnyTask, Kinds
<1>8. tasks_' \in Seq(AnyTask) /\ Waiting' = Waiting \cup {T("login", c), T("open", c)}
  BY <1>1, <1>7, QueueAppendTwo
<1>9. /\ holder' \in [Addresses -> 0..Len(conns')]
      /\ holder'[a] = c /\ \A b \in Addresses \ {a} : holder'[b] = holder[b]
  BY <1>1, <1>2, <1>5
<1>10. /\ uid' \in [Addresses -> Users \cup {NoUser}]
       /\ uid'[a] = u /\ \A b \in Addresses \ {a} : uid'[b] = uid[b]
  BY <1>1
<1>11. DOMAIN conns' = DOMAIN conns \cup {c}
  BY <1>2, <1>6
<1> QED
  BY <1>1, <1>2, <1>3, <1>5, <1>8, <1>9, <1>10, <1>11

\* Close only marks its connection and queues CloseHandle.
LEMMA CloseTypes ==
  ASSUME Typed, NEW c \in DOMAIN conns, Close(c)
  PROVE  /\ conns' \in Seq(AnyConn) /\ DOMAIN conns' = DOMAIN conns /\ Len(conns') = Len(conns)
         /\ \A d \in DOMAIN conns : /\ conns'[d].user = conns[d].user
                                    /\ conns'[d].token = conns[d].token
                                    /\ conns'[d].ws = conns[d].ws
                                    /\ conns'[d].open = (d # c /\ conns[d].open)
         /\ tasks_' \in Seq(AnyTask)
         /\ Waiting' = Waiting \cup {T("close", c)}
<1>1. /\ conns \in Seq(AnyConn) /\ conns[c] \in AnyConn /\ c \in 1..Len(conns) /\ c \in 1..MaxConns
      /\ Len(conns) \in Nat /\ DOMAIN conns = 1..Len(conns)
      /\ \A d \in DOMAIN conns : conns[d].open \in BOOLEAN
  BY ConnTypes DEF Typed
<1>2. conns' = [conns EXCEPT ![c] = [conns[c] EXCEPT !.open = FALSE]]
  BY DEF Close
<1>3. [conns[c] EXCEPT !.open = FALSE] \in AnyConn
  BY <1>1 DEF AnyConn
<1>4. /\ conns' \in Seq(AnyConn) /\ Len(conns') = Len(conns)
      /\ \A d \in 1..Len(conns) : conns'[d] = IF d = c THEN [conns[c] EXCEPT !.open = FALSE]
                                                       ELSE conns[d]
  BY <1>1, <1>2, <1>3, ExceptSeq
<1>5. DOMAIN conns' = DOMAIN conns
  BY <1>2
<1>6. \A d \in DOMAIN conns : /\ conns'[d].user = conns[d].user
                              /\ conns'[d].token = conns[d].token
                              /\ conns'[d].ws = conns[d].ws
                              /\ conns'[d].open = (d # c /\ conns[d].open)
  BY <1>1, <1>4 DEF AnyConn
<1>7. T("close", c) \in AnyTask
  BY <1>1 DEF T, AnyTask, Kinds
<1>8. tasks_' \in Seq(AnyTask) /\ Waiting' = Waiting \cup {T("close", c)}
  <2>1. tasks_ \in Seq(AnyTask) /\ tasks_' = Append(tasks_, T("close", c))
    BY DEF Typed, Close, T
  <2> QED
    BY <1>7, <2>1, QueueAppend
<1> QED
  BY <1>4, <1>5, <1>6, <1>8

LEMMA MessageTypes ==
  ASSUME Typed, NEW c \in DOMAIN conns, Message(c)
  PROVE  tasks_' \in Seq(AnyTask) /\ Waiting' = Waiting \cup {T("message", c)}
<1>1. T("message", c) \in AnyTask
  BY ConnTypes DEF T, AnyTask, Kinds
<1>2. tasks_ \in Seq(AnyTask) /\ tasks_' = Append(tasks_, T("message", c))
  BY DEF Typed, Message, T
<1> QED
  BY <1>1, <1>2, QueueAppend

LEMMA PushTypes ==
  ASSUME Typed, NEW u \in Users, Push(u)
  PROVE  /\ tasks_' \in Seq(AnyTask)
         /\ Waiting' = Waiting \cup {[kind |-> "push", user |-> u]}
         /\ \A k \in Kinds : \A c : T(k, c) \in Waiting' <=> T(k, c) \in Waiting
<1>1. [kind |-> "push", user |-> u] \in AnyTask
  BY DEF AnyTask
<1>2. tasks_ \in Seq(AnyTask) /\ tasks_' = Append(tasks_, [kind |-> "push", user |-> u])
  BY DEF Typed, Push
<1>3. \A k \in Kinds : \A c : T(k, c) # [kind |-> "push", user |-> u]
  BY DEF T, Kinds
<1> QED
  BY <1>1, <1>2, <1>3, QueueAppend

LEMMA CrashTypes ==
  ASSUME Typed, Crash
  PROVE  /\ conns' \in Seq(AnyConn) /\ DOMAIN conns' = DOMAIN conns /\ Len(conns') = Len(conns)
         /\ \A d \in DOMAIN conns : /\ conns'[d].user = conns[d].user
                                    /\ conns'[d].token = conns[d].token
                                    /\ conns'[d].ws = conns[d].ws
                                    /\ conns'[d].open = FALSE
         /\ tasks_' \in Seq(AnyTask) /\ Waiting' = {}
         /\ at' \in [Workers -> Frame]
         /\ \A w \in Workers : at'[w].place = "idle" /\ at'[w].own = 0
<1>1. /\ Len(conns) \in Nat /\ DOMAIN conns = 1..Len(conns)
      /\ \A c \in DOMAIN conns : conns[c] \in AnyConn
  BY ConnTypes
<1>2. conns' = [c \in 1..Len(conns) |-> [conns[c] EXCEPT !.open = FALSE]]
  BY <1>1 DEF Crash
<1>3. \A c \in 1..Len(conns) : [conns[c] EXCEPT !.open = FALSE] \in AnyConn
  BY <1>1 DEF AnyConn
<1>4. conns' \in Seq(AnyConn) /\ Len(conns') = Len(conns) /\ DOMAIN conns' = DOMAIN conns
  BY <1>1, <1>2, <1>3
<1>5. \A d \in DOMAIN conns : /\ conns'[d].user = conns[d].user
                              /\ conns'[d].token = conns[d].token
                              /\ conns'[d].ws = conns[d].ws
                              /\ conns'[d].open = FALSE
  BY <1>1, <1>2 DEF AnyConn
<1>6. tasks_' \in Seq(AnyTask) /\ Waiting' = {}
  BY DEF Crash, Waiting
<1>7. Idle \in Frame
  BY GateAssumption DEF Idle, Frame
<1> QED
  BY <1>4, <1>5, <1>6, <1>7 DEF Crash, Idle

\* A step of the loop or of the completion thread leaves the frames alone.
LEMMA LoopTyped ==
  ASSUME Typed, UNCHANGED at, DOMAIN conns \subseteq DOMAIN conns',
         \A a \in Addresses : uid[a] \in Users => uid'[a] \in Users,
         \A t \in Waiting' : t \in Waiting \/ (t.kind \in Kinds => t.own \in DOMAIN conns')
  PROVE  /\ \A w \in Workers : FrameOK(w)'
         /\ \A t \in Waiting' : t.kind \in Kinds => t.own \in DOMAIN conns'
<1>1. \A w \in Workers : FrameOK(w)'
  BY FrameKept DEF Typed
<1> QED
  BY <1>1 DEF Typed

LEMMA TypedNext == Typed /\ [Next]_vars => Typed'
<1> SUFFICES ASSUME Typed, [Next]_vars PROVE Typed'
  OBVIOUS
<1> USE DEF redisvars, loopvars, sendvars, ghosts
<1>1. ASSUME NEW u \in Users, Dispatch(u) PROVE Typed'
  <2>1. Waiting' = Waiting
    BY <1>1, WaitingKept DEF Dispatch
  <2>2. /\ \A w \in Workers : FrameOK(w)'
        /\ \A t \in Waiting' : t.kind \in Kinds => t.own \in DOMAIN conns'
    BY <1>1, <2>1, LoopTyped DEF Dispatch
  <2> QED
    BY <1>1, <2>2, DispatchTypes DEF Dispatch, Typed
<1>2. ASSUME NEW u \in Users, Expire(u) PROVE Typed'
  <2>1. Waiting' = Waiting
    BY <1>2, WaitingKept DEF Expire
  <2>2. /\ \A w \in Workers : FrameOK(w)'
        /\ \A t \in Waiting' : t.kind \in Kinds => t.own \in DOMAIN conns'
    BY <1>2, <2>1, LoopTyped DEF Expire
  <2>3. token' \in [Users -> 0..Len(issued)]
    BY <1>2, ConnTypes DEF Expire, Typed
  <2> QED
    BY <1>2, <2>2, <2>3 DEF Expire, Typed
<1>3. ASSUME NEW u \in Users, NEW t \in 0..Len(issued), NEW a \in Addresses, Upgrade(u, t, a)
      PROVE  Typed'
  <2> DEFINE c == Len(conns) + 1
  <2>1. /\ DOMAIN conns' = DOMAIN conns \cup {c}
        /\ Waiting' = Waiting \cup {T("login", c), T("open", c)}
        /\ uid'[a] = u /\ \A b \in Addresses \ {a} : uid'[b] = uid[b]
    BY <1>3, UpgradeTypes
  <2>2. T("login", c).own = c /\ T("open", c).own = c
    BY DEF T
  <2>3. /\ \A w \in Workers : FrameOK(w)'
        /\ \A x \in Waiting' : x.kind \in Kinds => x.own \in DOMAIN conns'
    <3>1. /\ DOMAIN conns \subseteq DOMAIN conns'
          /\ \A b \in Addresses : uid[b] \in Users => uid'[b] \in Users
          /\ \A x \in Waiting' : x \in Waiting \/ (x.kind \in Kinds => x.own \in DOMAIN conns')
      BY <2>1, <2>2
    <3>2. UNCHANGED at
      BY <1>3 DEF Upgrade
    <3> QED
      BY <3>1, <3>2, LoopTyped
  <2>4. overlap' \subseteq Users
    BY <1>3 DEF Upgrade, Typed
  <2>5. /\ conns' \in Seq(AnyConn) /\ Len(conns') <= MaxConns
        /\ holder' \in [Addresses -> 0..Len(conns')]
        /\ uid' \in [Addresses -> Users \cup {NoUser}] /\ tasks_' \in Seq(AnyTask)
    BY <1>3, UpgradeTypes
  <2> QED
    BY <1>3, <2>3, <2>4, <2>5 DEF Upgrade, Typed
<1>4. ASSUME NEW c \in DOMAIN conns, Message(c) PROVE Typed'
  <2>1. tasks_' \in Seq(AnyTask) /\ Waiting' = Waiting \cup {T("message", c)}
    BY <1>4, MessageTypes
  <2>2. T("message", c).own = c
    BY DEF T
  <2>3. /\ \A w \in Workers : FrameOK(w)'
        /\ \A x \in Waiting' : x.kind \in Kinds => x.own \in DOMAIN conns'
    BY <1>4, <2>1, <2>2, LoopTyped DEF Message
  <2>4. sends' \in 0..MaxSends
    BY <1>4, GateAssumption DEF Message, Typed
  <2> QED
    BY <1>4, <2>1, <2>3, <2>4 DEF Message, Typed
<1>5. ASSUME NEW c \in DOMAIN conns, Close(c) PROVE Typed'
  <2>1. /\ conns' \in Seq(AnyConn) /\ DOMAIN conns' = DOMAIN conns /\ Len(conns') = Len(conns)
        /\ tasks_' \in Seq(AnyTask) /\ Waiting' = Waiting \cup {T("close", c)}
    BY <1>5, CloseTypes
  <2>2. T("close", c).own = c
    BY DEF T
  <2>3. /\ \A w \in Workers : FrameOK(w)'
        /\ \A x \in Waiting' : x.kind \in Kinds => x.own \in DOMAIN conns'
    BY <1>5, <2>1, <2>2, LoopTyped DEF Close
  <2> QED
    BY <1>5, <2>1, <2>3 DEF Close, Typed
<1>6. ASSUME NEW u \in Users, Push(u) PROVE Typed'
  <2>1. tasks_' \in Seq(AnyTask) /\ Waiting' = Waiting \cup {[kind |-> "push", user |-> u]}
    BY <1>6, PushTypes
  <2>2. [kind |-> "push", user |-> u].kind \notin Kinds
    BY DEF Kinds
  <2>3. /\ \A w \in Workers : FrameOK(w)'
        /\ \A x \in Waiting' : x.kind \in Kinds => x.own \in DOMAIN conns'
    BY <1>6, <2>1, <2>2, LoopTyped DEF Push
  <2>4. sends' \in 0..MaxSends
    BY <1>6, GateAssumption DEF Push, Typed
  <2> QED
    BY <1>6, <2>1, <2>3, <2>4 DEF Push, Typed
<1>7. ASSUME NEW u \in Users, ReplyGet(u) PROVE Typed'
  <2>1. Waiting' = Waiting
    BY <1>7, WaitingKept DEF ReplyGet
  <2>2. /\ \A w \in Workers : FrameOK(w)'
        /\ \A t \in Waiting' : t.kind \in Kinds => t.own \in DOMAIN conns'
    BY <1>7, <2>1, LoopTyped DEF ReplyGet
  <2>3. calls' \in [Users -> Nat]
    BY <1>7 DEF ReplyGet, Typed
  <2>4. /\ reply' \in [user : Users \cup {NoUser}, ws : Addresses \cup {NoAddress}]
        /\ reply'.user # NoUser => reply'.ws \in Addresses
    BY <1>7 DEF ReplyGet, Typed
  <2> QED
    BY <1>7, <2>2, <2>3, <2>4 DEF ReplyGet, Typed
<1>8. ASSUME ReplySend PROVE Typed'
  <2>1. Waiting' = Waiting
    BY <1>8, WaitingKept DEF ReplySend
  <2>2. /\ \A w \in Workers : FrameOK(w)'
        /\ \A t \in Waiting' : t.kind \in Kinds => t.own \in DOMAIN conns'
    BY <1>8, <2>1, LoopTyped DEF ReplySend
  <2> QED
    BY <1>8, <2>2 DEF ReplySend, Typed
<1>9. ASSUME Crash PROVE Typed'
  <2>1. \A w \in Workers : FrameOK(w)'
    BY <1>9, CrashTypes DEF FrameOK, NoTaskPlaces, SocketPlaces
  <2>2. faults' \in 0..MaxFaults
    BY <1>9, GateAssumption DEF Crash, Typed
  <2>3. holder' \in [Addresses -> 0..Len(conns')]
    BY <1>9, CrashTypes, ConnTypes DEF Crash
  <2> QED
    BY <1>9, <2>1, <2>2, <2>3, CrashTypes DEF Crash, Typed
<1>10. ASSUME UNCHANGED vars PROVE Typed'
  BY <1>10 DEF vars, Typed, FrameOK, Waiting
<1> QED
  BY <1>1, <1>2, <1>3, <1>4, <1>5, <1>6, <1>7, <1>8, <1>9, <1>10, WorkStepTyped DEF Next

-----------------------------------------------------------------------------
(***************************************************************************)
(* Calls to msg_logic, bounded by the messages.                             *)
(***************************************************************************)

LEMMA MessagesFinite ==
  ASSUME tasks_ \in Seq(AnyTask)
  PROVE  IsFiniteSet(MessageTasks) /\ Cardinality(MessageTasks) \in Nat
<1>1. Len(tasks_) \in Int /\ 1 \in Int /\ DOMAIN tasks_ = 1..Len(tasks_)
  BY LenProperties
<1>2. IsFiniteSet(1..Len(tasks_))
  BY <1>1, FS_Interval
<1>3. MessageTasks \in SUBSET (1..Len(tasks_))
  BY <1>1 DEF MessageTasks
<1>4. IsFiniteSet(MessageTasks)
  BY <1>2, <1>3, FS_Subset
<1> QED
  BY <1>4, FS_CardinalityType

\* A task that is queued counts if it is a message ...
LEMMA MessagesAppend ==
  ASSUME tasks_ \in Seq(AnyTask), NEW x \in AnyTask, tasks_' = Append(tasks_, x)
  PROVE  Cardinality(MessageTasks') =
           Cardinality(MessageTasks) + (IF x.kind = "message" THEN 1 ELSE 0)
<1> DEFINE n == Len(tasks_) + 1
<1>1. /\ Len(tasks_') = n
      /\ \A i \in 1..Len(tasks_) : tasks_'[i] = tasks_[i]
      /\ tasks_'[n] = x /\ tasks_' \in Seq(AnyTask)
  BY AppendProperties
<1>2. /\ DOMAIN tasks_ = 1..Len(tasks_) /\ DOMAIN tasks_' = 1..n /\ Len(tasks_) \in Nat
      /\ DOMAIN tasks_' = DOMAIN tasks_ \cup {n} /\ n \notin DOMAIN tasks_
  BY <1>1, LenProperties
<1>3. MessageTasks' = IF x.kind = "message" THEN MessageTasks \cup {n} ELSE MessageTasks
  BY <1>1, <1>2 DEF MessageTasks
<1>4. n \notin MessageTasks
  BY <1>2 DEF MessageTasks
<1>5. IsFiniteSet(MessageTasks) /\ Cardinality(MessageTasks) \in Nat
  BY MessagesFinite
<1>6. Cardinality(MessageTasks \cup {n}) = Cardinality(MessageTasks) + 1
  BY <1>4, <1>5, FS_AddElement
<1> QED
  BY <1>3, <1>5, <1>6

\* ... and so does one that is taken.
LEMMA MessagesTail ==
  ASSUME tasks_ \in Seq(AnyTask), tasks_ # <<>>, tasks_' = Tail(tasks_)
  PROVE  Cardinality(MessageTasks) =
           Cardinality(MessageTasks') + (IF Head(tasks_).kind = "message" THEN 1 ELSE 0)
<1> DEFINE R == MessageTasks \ {1}
           f == [i \in R |-> i - 1]
<1>1. /\ tasks_' \in Seq(AnyTask) /\ Len(tasks_') = Len(tasks_) - 1 /\ Len(tasks_) \in Nat \ {0}
      /\ \A i \in 1..Len(tasks_') : tasks_'[i] = tasks_[i + 1]
      /\ Head(tasks_) = tasks_[1]
  BY HeadTailProperties, EmptySeq
<1>2. DOMAIN tasks_ = 1..Len(tasks_) /\ DOMAIN tasks_' = 1..Len(tasks_) - 1
  BY <1>1, LenProperties
<1>3. \A i \in R : i - 1 \in MessageTasks' /\ i \in Int
  BY <1>1, <1>2 DEF MessageTasks
<1>4. \A j \in MessageTasks' : j + 1 \in R /\ j \in Int
  <2> SUFFICES ASSUME NEW j \in MessageTasks' PROVE j + 1 \in R /\ j \in Int
    OBVIOUS
  <2>1. j \in 1..Len(tasks_) - 1 /\ tasks_'[j].kind = "message"
    BY <1>2 DEF MessageTasks
  <2>2. j + 1 \in DOMAIN tasks_ /\ j + 1 # 1 /\ tasks_[j + 1].kind = "message"
    BY <1>1, <1>2, <2>1
  <2> QED
    BY <2>1, <2>2 DEF MessageTasks
<1>5. f \in Bijection(R, MessageTasks')
  <2>1. f \in [R -> MessageTasks']
    BY <1>3
  <2>2. \A i, j \in R : f[i] = f[j] => i = j
    BY <1>3
  <2>3. \A j \in MessageTasks' : \E i \in R : f[i] = j
    <3> SUFFICES ASSUME NEW j \in MessageTasks' PROVE f[j + 1] = j /\ j + 1 \in R
      OBVIOUS
    <3> QED
      BY <1>4
  <2> QED
    BY <2>1, <2>2, <2>3 DEF Bijection, Injection, Surjection, IsInjective
<1>6. ExistsBijection(R, MessageTasks')
  BY <1>5 DEF ExistsBijection
<1>7. /\ IsFiniteSet(R)
      /\ Cardinality(R) = IF 1 \in MessageTasks THEN Cardinality(MessageTasks) - 1
                                                ELSE Cardinality(MessageTasks)
  BY MessagesFinite, FS_RemoveElement
<1>8. Cardinality(MessageTasks') = Cardinality(R)
  BY <1>6, <1>7, FS_Bijection
<1>9. 1 \in MessageTasks <=> Head(tasks_).kind = "message"
  BY <1>1, <1>2 DEF MessageTasks
<1> QED
  BY <1>7, <1>8, <1>9, MessagesFinite

\* A step that neither adds a message nor a call, and keeps the count of sends.
LEMMA CallsKept ==
  ASSUME Typed, CallsBounded, UNCHANGED <<calls, tasks_>>, sends' \in Nat, sends <= sends',
         MessageWorkers' \subseteq MessageWorkers
  PROVE  CallsBounded'
<1>1. MessageTasks' = MessageTasks
  BY DEF MessageTasks
<1>2. IsFiniteSet(MessageWorkers) /\ MessageWorkers' \in SUBSET MessageWorkers
  BY DEF CallsBounded
<1>3. /\ IsFiniteSet(MessageWorkers')
      /\ Cardinality(MessageWorkers') <= Cardinality(MessageWorkers)
      /\ Cardinality(MessageWorkers') \in Nat /\ Cardinality(MessageWorkers) \in Nat
  BY <1>2, FS_Subset, FS_CardinalityType
<1>4. calls \in [Users -> Nat] /\ sends \in Nat /\ Cardinality(MessageTasks) \in Nat
  BY MessagesFinite, GateAssumption DEF Typed
<1> QED
  <2> SUFFICES ASSUME NEW u \in Users
               PROVE  calls[u] + Cardinality(MessageTasks) + Cardinality(MessageWorkers') <= sends'
    BY <1>1, <1>3 DEF CallsBounded
  <2>1. calls[u] + Cardinality(MessageTasks) + Cardinality(MessageWorkers) <= sends /\ calls[u] \in Nat
    BY <1>4 DEF CallsBounded
  <2> QED
    BY <2>1, <1>3, <1>4

LEMMA MessagesUpgrade ==
  ASSUME tasks_ \in Seq(AnyTask), NEW x \in AnyTask, NEW y \in AnyTask,
         tasks_' = tasks_ \o <<x, y>>, x.kind # "message", y.kind # "message"
  PROVE  MessageTasks' = MessageTasks
<1>1. <<x, y>> \in Seq(AnyTask) /\ Len(<<x, y>>) = 2 /\ <<x, y>>[1] = x /\ <<x, y>>[2] = y
  OBVIOUS
<1>2. /\ tasks_' \in Seq(AnyTask) /\ Len(tasks_') = Len(tasks_) + 2
      /\ \A i \in 1 .. Len(tasks_) + 2 :
           tasks_'[i] = IF i <= Len(tasks_) THEN tasks_[i] ELSE <<x, y>>[i - Len(tasks_)]
  BY <1>1, ConcatProperties
<1>3. DOMAIN tasks_ = 1..Len(tasks_) /\ DOMAIN tasks_' = 1..Len(tasks_) + 2 /\ Len(tasks_) \in Nat
  BY <1>2, LenProperties
<1>4. \A i \in 1..Len(tasks_) : tasks_'[i] = tasks_[i]
  BY <1>2, <1>3
<1>5. tasks_'[Len(tasks_) + 1] = x /\ tasks_'[Len(tasks_) + 2] = y
  BY <1>1, <1>2, <1>3
<1>6. \A i \in DOMAIN tasks_' :
        i \in DOMAIN tasks_ \/ i = Len(tasks_) + 1 \/ i = Len(tasks_) + 2
  BY <1>3
<1>7. DOMAIN tasks_ \subseteq DOMAIN tasks_'
  BY <1>3
<1> QED
  BY <1>3, <1>4, <1>5, <1>6, <1>7 DEF MessageTasks

\* Where a worker step leaves its worker.
LEMMA WorkPlaces ==
  ASSUME Typed, NEW w \in Workers, Work(w)
  PROVE  /\ \A v \in Workers \ {w} : at'[v] = at[v]
         /\ ~Dequeue(w) => at'[w].place # "message"
<1>t. at \in [Workers -> Frame]
  BY DEF Typed
<1>1. CASE Dequeue(w)
  BY <1>1, DequeueTypes
<1>2. CASE HSet(w) \/ HDel(w)
  BY <1>2, <1>t, GotoTypes DEF HSet, HDel
<1>3. CASE OpenUid(w)
  BY <1>3, OpenUidTypes
<1>4. CASE PushGet(w)
  <2>1. CASE Return(w)
    BY <2>1, <1>t, ReturnTypes
  <2>2. CASE at' = [at EXCEPT ![w].ws = sockets_[at[w].user], ![w].place = "send"]
    BY <2>2, <1>t DEF Frame
  <2> QED
    BY <1>4, <2>1, <2>2 DEF PushGet
<1>5. CASE Return(w)
  BY <1>5, <1>t, ReturnTypes
<1> QED
  BY <1>1, <1>2, <1>3, <1>4, <1>5
  DEF Work, Del, AddWS, MessageDrop, MessageForward, DelWS, PushSend, RedisFails

LEMMA CallsInit == Init => CallsBounded
<1> SUFFICES ASSUME Init PROVE CallsBounded
  OBVIOUS
<1>1. MessageTasks = {} /\ MessageWorkers = {}
  BY DEF Init, MessageTasks, MessageWorkers, Idle
<1> QED
  BY <1>1, FS_EmptySet DEF Init, CallsBounded

LEMMA CallsNext == Typed /\ CallsBounded /\ [Next]_vars => CallsBounded'
<1> SUFFICES ASSUME Typed, CallsBounded, [Next]_vars PROVE CallsBounded'
  OBVIOUS
<1> USE DEF redisvars, loopvars, sendvars, ghosts
<1>t. /\ tasks_ \in Seq(AnyTask) /\ calls \in [Users -> Nat] /\ sends \in Nat /\ sends' \in Nat
      /\ IsFiniteSet(MessageWorkers) /\ Cardinality(MessageWorkers) \in Nat
      /\ Cardinality(MessageTasks) \in Nat
  BY TypedNext, MessagesFinite, FS_CardinalityType, GateAssumption DEF Typed, CallsBounded
<1>m. UNCHANGED at => MessageWorkers' = MessageWorkers
  BY DEF MessageWorkers
<1>1. ASSUME NEW u \in Users, Dispatch(u) \/ Expire(u) PROVE CallsBounded'
  BY <1>1, <1>t, <1>m, CallsKept DEF Dispatch, Expire
<1>2. ASSUME NEW u \in Users, NEW t \in 0..Len(issued), NEW a \in Addresses, Upgrade(u, t, a)
      PROVE  CallsBounded'
  <2> DEFINE c == Len(conns) + 1
  <2>1. tasks_' = tasks_ \o <<T("login", c), T("open", c)>>
    BY <1>2 DEF Upgrade, UpgradeTasks, T
  <2>2. /\ T("login", c) \in AnyTask /\ T("open", c) \in AnyTask
        /\ T("login", c).kind # "message" /\ T("open", c).kind # "message"
    BY <1>2, UpgradeTypes DEF T, AnyTask, Kinds
  <2>3. MessageTasks' = MessageTasks
    BY <1>t, <2>1, <2>2, MessagesUpgrade
  <2> QED
    BY <1>2, <1>m, <2>3 DEF Upgrade, CallsBounded
<1>3. ASSUME NEW c \in DOMAIN conns, Message(c) PROVE CallsBounded'
  <2>1. T("message", c) \in AnyTask /\ T("message", c).kind = "message"
    BY ConnTypes DEF T, AnyTask, Kinds
  <2>2. tasks_' = Append(tasks_, T("message", c))
    BY <1>3 DEF Message, T
  <2>3. Cardinality(MessageTasks') = Cardinality(MessageTasks) + 1
    BY <1>t, <2>1, <2>2, MessagesAppend
  <2> QED
    BY <1>3, <1>m, <1>t, <2>3 DEF Message, CallsBounded
<1>4. ASSUME NEW c \in DOMAIN conns, Close(c) PROVE CallsBounded'
  <2>1. T("close", c) \in AnyTask /\ T("close", c).kind # "message"
    BY ConnTypes DEF T, AnyTask, Kinds
  <2>2. tasks_' = Append(tasks_, T("close", c))
    BY <1>4 DEF Close, T
  <2>3. Cardinality(MessageTasks') = Cardinality(MessageTasks)
    BY <1>t, <2>1, <2>2, MessagesAppend
  <2> QED
    BY <1>4, <1>m, <1>t, <2>3 DEF Close, CallsBounded
<1>5. ASSUME NEW u \in Users, Push(u) PROVE CallsBounded'
  <2> DEFINE x == [kind |-> "push", user |-> u]
  <2>1. x \in AnyTask /\ x.kind # "message"
    BY DEF AnyTask
  <2>2. tasks_' = Append(tasks_, x)
    BY <1>5 DEF Push
  <2>3. Cardinality(MessageTasks') = Cardinality(MessageTasks)
    BY <1>t, <2>1, <2>2, MessagesAppend
  <2> QED
    BY <1>5, <1>m, <1>t, <2>3 DEF Push, CallsBounded
<1>6. ASSUME NEW u \in Users, ReplyGet(u) PROVE CallsBounded'
  <2>1. MessageTasks' = MessageTasks
    BY <1>6 DEF ReplyGet, MessageTasks
  <2>2. \A v \in Users : calls'[v] \in Nat /\ calls'[v] <= calls[v]
    BY <1>6, <1>t DEF ReplyGet
  <2> QED
    BY <1>6, <1>m, <1>t, <2>1, <2>2 DEF ReplyGet, CallsBounded
<1>7. ASSUME ReplySend \/ UNCHANGED vars PROVE CallsBounded'
  BY <1>7, <1>t, <1>m, CallsKept DEF ReplySend, vars
<1>8. ASSUME Crash PROVE CallsBounded'
  <2>1. MessageTasks' = {} /\ MessageWorkers' = {}
    BY <1>8, CrashTypes DEF Crash, MessageTasks, MessageWorkers
  <2>2. \A u \in Users : calls'[u] = 0
    BY <1>8 DEF Crash
  <2> QED
    BY <1>8, <1>t, <2>1, <2>2, FS_EmptySet DEF Crash, CallsBounded
<1>9. ASSUME NEW w \in Workers, Work(w) PROVE CallsBounded'
  <2>1. CASE Dequeue(w)
    <3>0. at \in [Workers -> Frame] /\ at[w].place = "idle"
      <4>1. at[w] = Idle
        BY <2>1 DEF Dequeue
      <4> QED
        BY <4>1 DEF Idle, Typed
    <3>1. Cardinality(MessageTasks) =
            Cardinality(MessageTasks') + (IF Head(tasks_).kind = "message" THEN 1 ELSE 0)
      BY <1>t, <2>1, MessagesTail DEF Dequeue
    <3>2. at'[w].place = "message" <=> Head(tasks_).kind = "message"
      BY <2>1, DequeueTypes DEF First, Kinds
    <3>3. MessageWorkers' = IF Head(tasks_).kind = "message" THEN MessageWorkers \cup {w}
                                                             ELSE MessageWorkers
      BY <2>1, <3>0, <3>2, DequeueTypes DEF MessageWorkers
    <3>4. w \notin MessageWorkers
      BY <3>0 DEF MessageWorkers
    <3>5. /\ IsFiniteSet(MessageWorkers \cup {w})
          /\ Cardinality(MessageWorkers \cup {w}) = Cardinality(MessageWorkers) + 1
      BY <1>t, <3>4, FS_AddElement
    <3>6. calls' = calls /\ sends' = sends
      BY <2>1 DEF Dequeue
    <3>7. Cardinality(MessageTasks') \in Nat
      <4>1. Typed'
        BY TypedNext
      <4>2. tasks_' \in Seq(AnyTask)
        BY <4>1 DEF Typed
      <4>3. IsFiniteSet(MessageTasks')
        <5>1. DOMAIN tasks_' = 1..Len(tasks_') /\ Len(tasks_') \in Int /\ 1 \in Int
          BY <4>2, LenProperties
        <5>2. IsFiniteSet(1..Len(tasks_')) /\ MessageTasks' \in SUBSET (1..Len(tasks_'))
          BY <5>1, FS_Interval DEF MessageTasks
        <5> QED
          BY <5>2, FS_Subset
      <4> QED
        BY <4>3, FS_CardinalityType
    <3>8. /\ IsFiniteSet(MessageWorkers')
          /\ Cardinality(MessageTasks') + Cardinality(MessageWorkers') =
               Cardinality(MessageTasks) + Cardinality(MessageWorkers)
          /\ Cardinality(MessageWorkers') \in Nat
      <4>1. CASE Head(tasks_).kind = "message"
        BY <4>1, <1>t, <3>1, <3>3, <3>5, <3>7
      <4>2. CASE Head(tasks_).kind # "message"
        BY <4>2, <1>t, <3>1, <3>3, <3>7
      <4> QED
        BY <4>1, <4>2
    <3> QED
      BY <1>t, <3>6, <3>7, <3>8 DEF CallsBounded
  <2>2. CASE MessageForward(w)
    <3>1. w \in MessageWorkers /\ MessageWorkers' = MessageWorkers \ {w}
      BY <1>9, <2>2, WorkPlaces, ReturnTypes DEF MessageForward, MessageWorkers, Typed
    <3>2. /\ IsFiniteSet(MessageWorkers')
          /\ Cardinality(MessageWorkers') = Cardinality(MessageWorkers) - 1
      BY <3>1, <1>t, FS_RemoveElement
    <3>3. \A u \in Users : calls'[u] \in Nat /\ calls'[u] <= calls[u] + 1
      BY <2>2, <1>t DEF MessageForward
    <3>4. MessageTasks' = MessageTasks /\ sends' = sends
      BY <2>2 DEF MessageForward, MessageTasks
    <3> QED
      BY <1>t, <3>2, <3>3, <3>4 DEF CallsBounded
  <2>3. CASE ~Dequeue(w) /\ ~MessageForward(w)
    <3>1. MessageWorkers' \subseteq MessageWorkers
      BY <1>9, <2>3, WorkPlaces DEF MessageWorkers
    <3>2. UNCHANGED <<calls, tasks_, sends>>
      BY <1>9, <2>3
      DEF Work, HSet, Del, OpenUid, AddWS, MessageDrop, HDel, DelWS, PushGet, PushSend, RedisFails
    <3> QED
      BY <1>t, <3>1, <3>2, CallsKept
  <2> QED
    BY <2>1, <2>2, <2>3
<1> QED
  BY <1>1, <1>2, <1>3, <1>4, <1>5, <1>6, <1>7, <1>8, <1>9 DEF Next

\* The types of the gate, with the bounds of its counters: a call in flight to
\* msg_logic was a message, whatever crashed or was dropped between.
THEOREM TypeCorrect == Spec => []TypeOK
<1>1. Typed /\ CallsBounded => TypeOK
  <2> SUFFICES ASSUME Typed, CallsBounded PROVE TypeOK
    OBVIOUS
  <2>1. \A u \in Users : calls[u] \in 0..MaxSends
    <3> SUFFICES ASSUME NEW u \in Users PROVE calls[u] \in 0..MaxSends
      OBVIOUS
    <3>1. /\ calls[u] \in Nat /\ sends \in Nat /\ sends <= MaxSends
          /\ Cardinality(MessageTasks) \in Nat /\ Cardinality(MessageWorkers) \in Nat
      BY MessagesFinite, FS_CardinalityType, GateAssumption DEF Typed, CallsBounded
    <3>2. calls[u] + Cardinality(MessageTasks) + Cardinality(MessageWorkers) <= sends
      BY DEF CallsBounded
    <3> QED
      BY <3>1, <3>2, GateAssumption
  <2>2. calls \in [Users -> 0..MaxSends]
    BY <2>1 DEF Typed
  <2>3. /\ token \in [Users -> 0..MaxTokens] /\ holder \in [Addresses -> 0..MaxConns]
    BY ConnTypes, GateAssumption DEF Typed
  <2> QED
    BY <2>2, <2>3 DEF Typed, TypeOK, AnyConn, AnyTask, Frame
<1> QED
  BY <1>1, TypedInit, TypedNext, CallsInit, CallsNext, PTL DEF Spec

-----------------------------------------------------------------------------
(***************************************************************************)
(* What a step leaves to do.                                                *)
(***************************************************************************)

\* The properties' own words for it.
LEMMA BusyIsLeft ==
  ASSUME Typed, NEW c \in DOMAIN conns
  PROVE  /\ Busy(c) <=> AnyLeft(c)
         /\ LoginPending(c) <=> TokenLeft(c)
         /\ Cleared(c) <=> ~conns[c].open /\ T("close", c) \notin Waiting
<1>1. \A i \in DOMAIN tasks_ : tasks_[i] \in AnyTask
  BY WaitingTyped DEF Waiting, Typed
<1>2. \A i \in DOMAIN tasks_ :
        tasks_[i].kind \in Kinds /\ tasks_[i].own = c <=> \E k \in Kinds : tasks_[i] = T(k, c)
  BY <1>1 DEF AnyTask, T, Kinds
<1>3. Busy(c) <=> AnyLeft(c)
  BY <1>2 DEF Busy, AnyLeft, Waiting
<1> QED
  BY <1>3 DEF LoginPending, TokenLeft, Cleared, Queued, Waiting, T, At

\* Taking a task from the queue only moves it.
LEMMA DequeueLeft ==
  ASSUME Typed, NEW w \in Workers, Dequeue(w), NEW c \in DOMAIN conns
  PROVE  /\ AnyLeft(c)' => AnyLeft(c)
         /\ LoginLeft(c)' <=> LoginLeft(c)
         /\ TokenLeft(c)' <=> TokenLeft(c)
         /\ OpenLeft(c)' <=> OpenLeft(c)
         /\ HDelLeft(c)' <=> HDelLeft(c)
         /\ CloseLeft(c)' <=> CloseLeft(c)
<1>0. c # 0 /\ at[w].own = 0 /\ \A v \in Workers \ {w} : at'[v] = at[v]
  BY ConnTypes, DequeueTypes
<1>1. CASE /\ at'[w].own = 0 /\ Waiting' \subseteq Waiting
           /\ \A k \in Kinds : \A d : T(k, d) \in Waiting => T(k, d) \in Waiting'
  BY <1>0, <1>1 DEF AnyLeft, LoginLeft, TokenLeft, OpenLeft, HDelLeft, CloseLeft, At, Kinds
<1>2. ASSUME NEW k \in Kinds, NEW d \in DOMAIN conns,
             T(k, d) \in Waiting, Waiting' \subseteq Waiting, Waiting \subseteq Waiting' \cup {T(k, d)},
             at'[w].place = First[k], at'[w].own = d
      PROVE  /\ AnyLeft(c)' => AnyLeft(c)
             /\ LoginLeft(c)' <=> LoginLeft(c)
             /\ TokenLeft(c)' <=> TokenLeft(c)
             /\ OpenLeft(c)' <=> OpenLeft(c)
             /\ HDelLeft(c)' <=> HDelLeft(c)
             /\ CloseLeft(c)' <=> CloseLeft(c)
  <2>1. \A j \in Kinds : T(j, c) = T(k, d) <=> j = k /\ c = d
    BY DEF T
  <2>2. AnyLeft(c)' => AnyLeft(c)
    BY <1>0, <1>2, <2>1 DEF AnyLeft
  <2>3. \A P : At(c, P)' <=> At(c, P) \/ (c = d /\ First[k] \in P)
    BY <1>0, <1>2 DEF At
  <2>4. \A j \in Kinds : T(j, c) \in Waiting <=> T(j, c) \in Waiting' \/ (j = k /\ c = d)
    BY <1>2, <2>1
  <2>5. First[k] = CASE k = "login" -> "hset" [] k = "open" -> "uid"
                     [] k = "message" -> "message" [] k = "close" -> "hdel"
    BY <1>2 DEF First, Kinds
  <2> QED
    BY <1>2, <2>2, <2>3, <2>4, <2>5 DEF LoginLeft, TokenLeft, OpenLeft, HDelLeft, CloseLeft, Kinds
<1> QED
  BY <1>1, <1>2, DequeueTypes

\* What a task does is done by its worker alone ...
LEMMA WorkKeeps ==
  ASSUME NEW w \in Workers, Work(w)
  PROVE  UNCHANGED <<issued, conns, holder, reply, overlap, crashed>>
BY DEF Work, Dequeue, HSet, Del, OpenUid, AddWS, MessageDrop, MessageForward, HDel, DelWS,
       PushGet, PushSend, RedisFails, redisvars, loopvars, sendvars, ghosts

\* ... and the queue is left as it is: the worker goes on or its task ends.
LEMMA WorkMoves ==
  ASSUME Typed, NEW w \in Workers, Work(w), ~Dequeue(w)
  PROVE  /\ Waiting' = Waiting
         /\ \A v \in Workers \ {w} : at'[v] = at[v]
         /\ \/ at'[w].own = 0
            \/ at'[w].own = at[w].own /\ HSet(w) /\ at'[w].place = "del"
            \/ at'[w].own = at[w].own /\ OpenUid(w) /\ at'[w].place = "add"
            \/ at'[w].own = at[w].own /\ HDel(w) /\ at'[w].place = "erase"
<1>t. at \in [Workers -> Frame]
  BY DEF Typed
<1>q. Waiting' = Waiting
  <2>1. UNCHANGED tasks_
    BY DEF Work, HSet, Del, OpenUid, AddWS, MessageDrop, MessageForward, HDel, DelWS,
           PushGet, PushSend, RedisFails, redisvars, loopvars, sendvars, ghosts
  <2> QED
    BY <2>1, WaitingKept
<1>1. CASE HSet(w) \/ HDel(w)
  BY <1>1, <1>t, <1>q, GotoTypes DEF HSet, HDel
<1>2. CASE OpenUid(w)
  BY <1>2, <1>q, OpenUidTypes
<1>3. CASE Return(w)
  BY <1>3, <1>t, <1>q, ReturnTypes
<1>4. CASE PushGet(w)
  <2>1. CASE at' = [at EXCEPT ![w].ws = sockets_[at[w].user], ![w].place = "send"]
    <3>1. at[w].own = 0
      BY <1>4 DEF PushGet, Typed, FrameOK, NoTaskPlaces
    <3> QED
      BY <2>1, <3>1, <1>t, <1>q DEF Frame
  <2> QED
    BY <1>3, <1>4, <2>1 DEF PushGet
<1> QED
  BY <1>1, <1>2, <1>3, <1>4
  DEF Work, Del, AddWS, MessageDrop, MessageForward, DelWS, PushSend, RedisFails

\* A part of a connection's work is only done by the statement that does it, or
\* lost with an error of Redis.
LEMMA WorkLeft ==
  ASSUME Typed, NEW w \in Workers, Work(w), NEW c \in DOMAIN conns
  PROVE  /\ AnyLeft(c)' => AnyLeft(c)
         /\ HDelLeft(c)' => HDelLeft(c)
         /\ CloseLeft(c)' => CloseLeft(c)
         /\ LoginLeft(c) /\ ~LoginLeft(c)' => at[w].own = c /\ (HSet(w) \/ RedisFails(w))
         /\ TokenLeft(c) /\ ~TokenLeft(c)' => at[w].own = c /\ (Del(w) \/ RedisFails(w))
         /\ OpenLeft(c) /\ ~OpenLeft(c)' => at[w].own = c /\ AddWS(w)
         /\ HDelLeft(c) /\ ~HDelLeft(c)' => at[w].own = c /\ (HDel(w) \/ RedisFails(w))
         /\ CloseLeft(c) /\ ~CloseLeft(c)' => at[w].own = c /\ (DelWS(w) \/ RedisFails(w))
<1>1. CASE Dequeue(w)
  BY <1>1, DequeueLeft
<1>2. CASE ~Dequeue(w)
  <2>0. c # 0
    BY ConnTypes
  <2>1. /\ Waiting' = Waiting
        /\ \A v \in Workers \ {w} : at'[v] = at[v]
    BY <1>2, WorkMoves
  <2>2. CASE at'[w].own = 0
    <3>1. \A P : At(c, P)' => At(c, P)
      BY <2>0, <2>1, <2>2 DEF At
    <3>2. \A P : At(c, P) /\ ~At(c, P)' => at[w].own = c /\ at[w].place \in P
      BY <2>1 DEF At
    <3>3. AnyLeft(c)' => AnyLeft(c)
      BY <2>0, <2>1, <2>2 DEF AnyLeft
    <3>4. /\ at[w].place = "hset" => HSet(w) \/ RedisFails(w)
          /\ at[w].place = "del" => Del(w) \/ RedisFails(w)
          /\ at[w].place = "uid" => OpenUid(w)
          /\ at[w].place = "add" => AddWS(w)
          /\ at[w].place = "hdel" => HDel(w) \/ RedisFails(w)
          /\ at[w].place = "erase" => DelWS(w)
      BY <1>2
      DEF Work, HSet, Del, OpenUid, AddWS, MessageDrop, MessageForward, HDel, DelWS, PushGet,
          PushSend, RedisFails
    <3>5. (~HSet(w) /\ ~OpenUid(w) /\ ~HDel(w)) \/ at[w].own # c
      BY <2>0, <2>2, GotoTypes, OpenUidTypes DEF HSet, HDel, Typed
    <3> QED
      BY <2>1, <3>1, <3>2, <3>3, <3>4, <3>5
      DEF LoginLeft, TokenLeft, OpenLeft, HDelLeft, CloseLeft
  <2>3. CASE at'[w].own = at[w].own /\ HSet(w) /\ at'[w].place = "del"
    <3>1. at[w].place = "hset"
      BY <2>3 DEF HSet
    <3>2. AnyLeft(c)' => AnyLeft(c)
      BY <2>1, <2>3 DEF AnyLeft
    <3>3. \A P : At(c, P) /\ ~At(c, P)' => at[w].own = c /\ at[w].place \in P /\ "del" \notin P
      BY <2>1, <2>3 DEF At
    <3>4. \A P : At(c, P)' /\ ~At(c, P) => "del" \in P
      BY <2>1, <2>3 DEF At
    <3> QED
      BY <2>1, <2>3, <3>1, <3>2, <3>3, <3>4
      DEF LoginLeft, TokenLeft, OpenLeft, HDelLeft, CloseLeft
  <2>4. CASE at'[w].own = at[w].own /\ OpenUid(w) /\ at'[w].place = "add"
    <3>1. at[w].place = "uid"
      BY <2>4 DEF OpenUid
    <3>2. AnyLeft(c)' => AnyLeft(c)
      BY <2>1, <2>4 DEF AnyLeft
    <3>3. \A P : At(c, P) /\ ~At(c, P)' => at[w].own = c /\ at[w].place \in P /\ "add" \notin P
      BY <2>1, <2>4 DEF At
    <3>4. \A P : At(c, P)' /\ ~At(c, P) => "add" \in P
      BY <2>1, <2>4 DEF At
    <3> QED
      BY <2>1, <2>4, <3>1, <3>2, <3>3, <3>4
      DEF LoginLeft, TokenLeft, OpenLeft, HDelLeft, CloseLeft
  <2>5. CASE at'[w].own = at[w].own /\ HDel(w) /\ at'[w].place = "erase"
    <3>1. at[w].place = "hdel"
      BY <2>5 DEF HDel
    <3>2. AnyLeft(c)' => AnyLeft(c)
      BY <2>1, <2>5 DEF AnyLeft
    <3>3. \A P : At(c, P) /\ ~At(c, P)' => at[w].own = c /\ at[w].place \in P /\ "erase" \notin P
      BY <2>1, <2>5 DEF At
    <3>4. \A P : At(c, P)' /\ ~At(c, P) =>
                   at[w].own = c /\ "erase" \in P /\ "hdel" \notin P
      BY <2>1, <2>5, <3>1 DEF At
    <3> QED
      BY <2>1, <2>5, <3>1, <3>2, <3>3, <3>4
      DEF LoginLeft, TokenLeft, OpenLeft, HDelLeft, CloseLeft
  <2> QED
    BY <1>2, <2>2, <2>3, <2>4, <2>5, WorkMoves
<1> QED
  BY <1>1, <1>2

\* A callback adds to what is left what it queues.
LEMMA QueuedLeft ==
  ASSUME UNCHANGED at, NEW c, NEW K \in SUBSET Kinds,
         \A k \in Kinds : T(k, c) \in Waiting' <=> T(k, c) \in Waiting \/ k \in K
  PROVE  /\ LoginLeft(c)' <=> LoginLeft(c) \/ "login" \in K
         /\ TokenLeft(c)' <=> TokenLeft(c) \/ "login" \in K
         /\ OpenLeft(c)' <=> OpenLeft(c) \/ "open" \in K
         /\ HDelLeft(c)' <=> HDelLeft(c) \/ "close" \in K
         /\ CloseLeft(c)' <=> CloseLeft(c) \/ "close" \in K
         /\ AnyLeft(c)' <=> AnyLeft(c) \/ K # {}
<1>1. /\ T("login", c) \in Waiting' <=> T("login", c) \in Waiting \/ "login" \in K
      /\ T("open", c) \in Waiting' <=> T("open", c) \in Waiting \/ "open" \in K
      /\ T("close", c) \in Waiting' <=> T("close", c) \in Waiting \/ "close" \in K
  BY DEF Kinds
<1>2. \A P : At(c, P)' <=> At(c, P)
  BY DEF At
<1>3. AnyLeft(c)' <=> AnyLeft(c) \/ K # {}
  BY DEF AnyLeft
<1> QED
  BY <1>1, <1>2, <1>3 DEF LoginLeft, TokenLeft, OpenLeft, HDelLeft, CloseLeft

\* Steps that are none of a session: of route, of pushes and of answers.
Aside ==
  \/ \E u \in Users : Dispatch(u) \/ Expire(u) \/ Push(u) \/ ReplyGet(u)
  \/ ReplySend \/ UNCHANGED vars

LEMMA AsideKeeps ==
  ASSUME Typed, Aside
  PROVE  /\ UNCHANGED <<conns, holder, uid, sockets_, gate, at, ghosts>>
         /\ \A c : /\ LoginLeft(c)' <=> LoginLeft(c)
                   /\ TokenLeft(c)' <=> TokenLeft(c)
                   /\ OpenLeft(c)' <=> OpenLeft(c)
                   /\ HDelLeft(c)' <=> HDelLeft(c)
                   /\ CloseLeft(c)' <=> CloseLeft(c)
                   /\ AnyLeft(c)' <=> AnyLeft(c)
<1>1. UNCHANGED <<conns, holder, uid, sockets_, gate, at, ghosts>>
  BY DEF Aside, Dispatch, Expire, Push, ReplyGet, ReplySend, vars, redisvars, loopvars, sendvars,
         ghosts
<1>2. \A k \in Kinds : \A c : T(k, c) \in Waiting' <=> T(k, c) \in Waiting
  <2>1. CASE \E u \in Users : Push(u)
    BY <2>1, PushTypes
  <2>2. CASE UNCHANGED tasks_
    BY <2>2, WaitingKept
  <2> QED
    BY <2>1, <2>2 DEF Aside, Dispatch, Expire, ReplyGet, ReplySend, vars
<1>3. ASSUME NEW c
      PROVE  /\ LoginLeft(c)' <=> LoginLeft(c)
             /\ TokenLeft(c)' <=> TokenLeft(c)
             /\ OpenLeft(c)' <=> OpenLeft(c)
             /\ HDelLeft(c)' <=> HDelLeft(c)
             /\ CloseLeft(c)' <=> CloseLeft(c)
             /\ AnyLeft(c)' <=> AnyLeft(c)
  <2>1. \A k \in Kinds : T(k, c) \in Waiting' <=> T(k, c) \in Waiting \/ k \in {}
    BY <1>2
  <2>2. UNCHANGED at /\ {} \in SUBSET Kinds
    BY <1>1
  <2> QED
    BY <2>1, <2>2, QueuedLeft
<1> QED
  BY <1>1, <1>3

\* An upgrade queues the login and open tasks of the new connection.
LEMMA UpgradeLeft ==
  ASSUME Typed, NEW u \in Users, NEW t \in 0..Len(issued), NEW a \in Addresses, Upgrade(u, t, a),
         NEW n, n = Len(conns) + 1
  PROVE  /\ LoginLeft(n)' /\ TokenLeft(n)' /\ OpenLeft(n)' /\ ~HDelLeft(n)' /\ ~CloseLeft(n)'
         /\ \A c \in DOMAIN conns :
              /\ LoginLeft(c)' <=> LoginLeft(c)
              /\ TokenLeft(c)' <=> TokenLeft(c)
              /\ OpenLeft(c)' <=> OpenLeft(c)
              /\ HDelLeft(c)' <=> HDelLeft(c)
              /\ CloseLeft(c)' <=> CloseLeft(c)
              /\ AnyLeft(c)' <=> AnyLeft(c)
<1>1. /\ n \notin DOMAIN conns /\ Waiting' = Waiting \cup {T("login", n), T("open", n)}
      /\ UNCHANGED at /\ n # 0
  <2>1. n \notin DOMAIN conns /\ Waiting' = Waiting \cup {T("login", n), T("open", n)}
    BY UpgradeTypes
  <2> QED
    BY <2>1, ConnTypes DEF Upgrade
<1>2. \A c, k : /\ T(k, c) = T("login", n) <=> k = "login" /\ c = n
                /\ T(k, c) = T("open", n) <=> k = "open" /\ c = n
  BY DEF T
<1>3. ~HDelLeft(n) /\ ~CloseLeft(n)
  <2>1. \A k \in Kinds : T(k, n).kind \in Kinds /\ T(k, n).own = n
    BY DEF T
  <2>2. \A k \in Kinds : T(k, n) \notin Waiting
    BY <1>1, <2>1 DEF Typed
  <2>3. \A w \in Workers : at[w].own # n
    BY <1>1 DEF Typed, FrameOK
  <2> QED
    BY <2>2, <2>3 DEF HDelLeft, CloseLeft, At, Kinds
<1>4. \A k \in Kinds : T(k, n) \in Waiting' <=> T(k, n) \in Waiting \/ k \in {"login", "open"}
  BY <1>1, <1>2
<1>5. {"login", "open"} \in SUBSET Kinds /\ "close" \notin {"login", "open"}
  BY DEF Kinds
<1>6. /\ LoginLeft(n)' /\ TokenLeft(n)' /\ OpenLeft(n)' /\ ~HDelLeft(n)' /\ ~CloseLeft(n)'
  BY <1>1, <1>3, <1>4, <1>5, QueuedLeft
<1>7. ASSUME NEW c \in DOMAIN conns
      PROVE  /\ LoginLeft(c)' <=> LoginLeft(c)
             /\ TokenLeft(c)' <=> TokenLeft(c)
             /\ OpenLeft(c)' <=> OpenLeft(c)
             /\ HDelLeft(c)' <=> HDelLeft(c)
             /\ CloseLeft(c)' <=> CloseLeft(c)
             /\ AnyLeft(c)' <=> AnyLeft(c)
  <2>1. \A k \in Kinds : T(k, c) \in Waiting' <=> T(k, c) \in Waiting \/ k \in {}
    BY <1>1, <1>2
  <2>2. UNCHANGED at /\ {} \in SUBSET Kinds
    BY <1>1
  <2> QED
    BY <2>1, <2>2, QueuedLeft
<1> QED
  BY <1>6, <1>7

\* Message and Close queue a task of their connection.
LEMMA CallbackLeft ==
  ASSUME Typed, NEW d \in DOMAIN conns, Message(d) \/ Close(d), NEW c \in DOMAIN conns
  PROVE  /\ LoginLeft(c)' <=> LoginLeft(c)
         /\ TokenLeft(c)' <=> TokenLeft(c)
         /\ OpenLeft(c)' <=> OpenLeft(c)
         /\ HDelLeft(c)' <=> HDelLeft(c) \/ (Close(d) /\ c = d)
         /\ CloseLeft(c)' <=> CloseLeft(c) \/ (Close(d) /\ c = d)
         /\ AnyLeft(c)' /\ c # d => AnyLeft(c)
<1> DEFINE K(k) == IF c = d THEN {k} ELSE {}
<1>1. UNCHANGED at
  BY DEF Message, Close
<1>2. \A k, j : T(k, c) = T(j, d) <=> k = j /\ c = d
  BY DEF T
<1>3. "message" \in Kinds /\ "close" \in Kinds
  BY DEF Kinds
<1>4. CASE Message(d)
  <2>1. \A k \in Kinds : T(k, c) \in Waiting' <=> T(k, c) \in Waiting \/ k \in K("message")
    BY <1>2, <1>4, MessageTypes
  <2>2. ~Close(d)
    BY <1>4 DEF Message, Close, Typed
  <2>3. K("message") \in SUBSET Kinds /\ (c # d => K("message") = {})
    BY <1>3
  <2>4. "login" \notin K("message") /\ "open" \notin K("message") /\ "close" \notin K("message")
    OBVIOUS
  <2> HIDE DEF K
  <2> QED
    BY <1>1, <2>1, <2>2, <2>3, <2>4, QueuedLeft
<1>5. CASE Close(d)
  <2>1. \A k \in Kinds : T(k, c) \in Waiting' <=> T(k, c) \in Waiting \/ k \in K("close")
    BY <1>2, <1>5, CloseTypes
  <2>3. K("close") \in SUBSET Kinds /\ (c # d => K("close") = {})
    BY <1>3
  <2>4. "login" \notin K("close") /\ "open" \notin K("close") /\ ("close" \in K("close") <=> c = d)
    OBVIOUS
  <2> HIDE DEF K
  <2> QED
    BY <1>1, <1>5, <2>1, <2>3, <2>4, QueuedLeft
<1> QED
  BY <1>4, <1>5

LEMMA CrashLeft ==
  ASSUME Typed, Crash, NEW c \in DOMAIN conns
  PROVE  ~AnyLeft(c)' /\ ~CloseLeft(c)' /\ ~HDelLeft(c)'
BY CrashTypes, ConnTypes DEF AnyLeft, CloseLeft, HDelLeft, At

LEMMA StepKinds ==
  ASSUME [Next]_vars
  PROVE  \/ Aside
         \/ \E u \in Users, t \in 0..Len(issued), a \in Addresses : Upgrade(u, t, a)
         \/ \E c \in DOMAIN conns : Message(c)
         \/ \E c \in DOMAIN conns : Close(c)
         \/ \E w \in Workers : Work(w)
         \/ Crash
BY DEF Next, Aside

-----------------------------------------------------------------------------
(***************************************************************************)
(* Linked.                                                                  *)
(***************************************************************************)

LEMMA LinkedInit == Init => Linked
BY DEF Init, Linked, HolderOK, ClosedFirst, TokensOwned, OneInUse

LEMMA HolderNext == Typed /\ HolderOK /\ [Next]_vars => HolderOK'
<1> SUFFICES ASSUME Typed, HolderOK, [Next]_vars PROVE HolderOK'
  OBVIOUS
<1>h. \A a \in Addresses : holder[a] # 0 => holder[a] \in DOMAIN conns
  BY ConnTypes DEF Typed
<1>1. CASE UNCHANGED <<conns, holder>>
  BY <1>1 DEF HolderOK
<1>2. ASSUME NEW u \in Users, NEW t \in 0..Len(issued), NEW a \in Addresses, Upgrade(u, t, a)
      PROVE  HolderOK'
  <2> DEFINE n == Len(conns) + 1
  <2>1. /\ n \notin DOMAIN conns /\ DOMAIN conns' = DOMAIN conns \cup {n}
        /\ \A d \in DOMAIN conns : conns'[d] = conns[d]
        /\ conns'[n].ws = a /\ holder'[a] = n
        /\ \A b \in Addresses \ {a} : holder'[b] = holder[b]
    BY <1>2, UpgradeTypes
  <2>2. \A d \in DOMAIN conns : conns[d].open => conns[d].ws # a
    BY <1>2, ConnTypes DEF HolderOK, Upgrade, Free
  <2> HIDE DEF n
  <2>3. \A b \in Addresses : holder'[b] # 0 => conns'[holder'[b]].ws = b
    BY <1>h, <2>1 DEF HolderOK
  <2>4. \A c \in DOMAIN conns' : conns'[c].open => holder'[conns'[c].ws] = c
    BY <2>1, <2>2, ConnTypes DEF HolderOK
  <2> QED
    BY <2>3, <2>4 DEF HolderOK
<1>3. ASSUME NEW c \in DOMAIN conns, Close(c) PROVE HolderOK'
  BY <1>3, <1>h, CloseTypes DEF HolderOK, Close
<1>4. CASE Crash
  BY <1>4, CrashTypes DEF HolderOK, Crash
<1>5. (\E w \in Workers : Work(w)) \/ Aside \/ (\E c \in DOMAIN conns : Message(c))
        => UNCHANGED <<conns, holder>>
  BY WorkKeeps, AsideKeeps DEF Message
<1> QED
  BY <1>1, <1>2, <1>3, <1>4, <1>5, StepKinds

LEMMA ClosedNext == Typed /\ ClosedFirst /\ [Next]_vars => ClosedFirst'
<1> SUFFICES ASSUME Typed, ClosedFirst, [Next]_vars, NEW c \in DOMAIN conns', CloseLeft(c)'
             PROVE  ~conns'[c].open
  BY DEF ClosedFirst
<1>1. CASE Aside
  BY <1>1, AsideKeeps DEF ClosedFirst
<1>2. ASSUME NEW u \in Users, NEW t \in 0..Len(issued), NEW a \in Addresses, Upgrade(u, t, a)
      PROVE  ~conns'[c].open
  <2>1. c # Len(conns) + 1
    BY <1>2, UpgradeLeft
  <2>2. c \in DOMAIN conns /\ conns'[c] = conns[c]
    <3>1. /\ DOMAIN conns' = DOMAIN conns \cup {Len(conns) + 1}
          /\ \A d \in DOMAIN conns : conns'[d] = conns[d]
      BY <1>2, UpgradeTypes
    <3> QED
      BY <2>1, <3>1
  <2>3. CloseLeft(c)
    BY <1>2, <2>2, ConnTypes, UpgradeLeft
  <2> QED
    BY <2>2, <2>3 DEF ClosedFirst
<1>3. ASSUME NEW d \in DOMAIN conns, Message(d) PROVE ~conns'[c].open
  <2>1. conns' = conns /\ ~Close(d)
    BY <1>3 DEF Message, Close
  <2> QED
    BY <1>3, <2>1, CallbackLeft DEF ClosedFirst
<1>4. ASSUME NEW d \in DOMAIN conns, Close(d) PROVE ~conns'[c].open
  BY <1>4, CloseTypes, CallbackLeft DEF ClosedFirst
<1>5. ASSUME NEW w \in Workers, Work(w) PROVE ~conns'[c].open
  BY <1>5, WorkKeeps, WorkLeft DEF ClosedFirst
<1>6. CASE Crash
  BY <1>6, CrashTypes
<1> QED
  BY <1>1, <1>2, <1>3, <1>4, <1>5, <1>6, StepKinds

\* Only Dispatch gives a user a token.
LEMMA TokenKept ==
  ASSUME Typed, [Next]_vars, ~(\E u \in Users : Dispatch(u))
  PROVE  issued' = issued /\ \A u \in Users : token'[u] \in {0, token[u]}
<1> USE DEF redisvars, loopvars, sendvars, ghosts
<1>t. token \in [Users -> 0..Len(issued)]
  BY DEF Typed
<1>1. CASE UNCHANGED <<issued, token>>
  BY <1>1
<1>2. ASSUME NEW u \in Users, Expire(u) PROVE issued' = issued /\ \A v \in Users : token'[v] \in {0, token[v]}
  BY <1>2, <1>t DEF Expire
<1>3. ASSUME NEW w \in Workers, Del(w)
      PROVE  issued' = issued /\ \A v \in Users : token'[v] \in {0, token[v]}
  <2>1. PICK u \in SeenUids(w) : token' = [v \in Users |-> IF v = u THEN 0 ELSE token[v]]
    BY <1>3 DEF Del
  <2> QED
    BY <1>3, <1>t, <2>1 DEF Del
<1>4. \/ UNCHANGED <<issued, token>>
      \/ \E u \in Users : Expire(u)
      \/ \E w \in Workers : Del(w)
  BY DEF Next, Push, ReplyGet, Upgrade, Message, Close, ReplySend, Crash, vars, Work, Dequeue,
         HSet, OpenUid, AddWS, MessageDrop, MessageForward, HDel, DelWS, PushGet, PushSend,
         RedisFails
<1> QED
  BY <1>1, <1>2, <1>3, <1>4

\* The connections of a step: all that there were, and the one of an upgrade.
LEMMA ConnsKept ==
  ASSUME Typed, [Next]_vars, ~(\E u \in Users, t \in 0..Len(issued), a \in Addresses : Upgrade(u, t, a))
  PROVE  /\ DOMAIN conns' = DOMAIN conns /\ Len(conns') = Len(conns)
         /\ \A c \in DOMAIN conns : /\ conns'[c].user = conns[c].user
                                    /\ conns'[c].token = conns[c].token
                                    /\ conns'[c].ws = conns[c].ws
                                    /\ conns'[c].open => conns[c].open
<1>1. CASE UNCHANGED conns
  BY <1>1
<1>2. CASE \E c \in DOMAIN conns : Close(c)
  BY <1>2, CloseTypes
<1>3. CASE Crash
  BY <1>3, CrashTypes
<1>4. (\E w \in Workers : Work(w)) \/ Aside \/ (\E c \in DOMAIN conns : Message(c))
        => UNCHANGED conns
  BY WorkKeeps, AsideKeeps DEF Message
<1> QED
  BY <1>1, <1>2, <1>3, <1>4, StepKinds

LEMMA TokensNext == Typed /\ TokensOwned /\ [Next]_vars => TokensOwned'
<1> SUFFICES ASSUME Typed, TokensOwned, [Next]_vars PROVE TokensOwned'
  OBVIOUS
<1>t. /\ \A u \in Users : token[u] # 0 => token[u] \in DOMAIN issued
      /\ \A c \in DOMAIN conns : conns[c].user \in Users
  BY ConnTypes DEF Typed
<1>1. ASSUME NEW u \in Users, Dispatch(u) PROVE TokensOwned'
  <2>1. /\ DOMAIN issued \subseteq DOMAIN issued'
        /\ \A i \in DOMAIN issued : issued'[i] = issued[i]
        /\ issued'[token'[u]] = u /\ \A v \in Users \ {u} : token'[v] = token[v]
    BY <1>1, DispatchTypes
  <2>2. conns' = conns
    BY <1>1 DEF Dispatch, loopvars
  <2>3. \A v \in Users : token'[v] # 0 => issued'[token'[v]] = v
    BY <1>t, <2>1 DEF TokensOwned
  <2> QED
    BY <1>t, <2>1, <2>2, <2>3 DEF TokensOwned
<1>2. ASSUME NEW u \in Users, NEW t \in 0..Len(issued), NEW a \in Addresses, Upgrade(u, t, a)
      PROVE  TokensOwned'
  <2> DEFINE n == Len(conns) + 1
  <2>1. /\ DOMAIN conns' = DOMAIN conns \cup {n}
        /\ \A d \in DOMAIN conns : conns'[d] = conns[d]
        /\ conns'[n].user = u /\ conns'[n].token = t /\ t # 0 /\ t = token[u]
    BY <1>2, UpgradeTypes
  <2>2. UNCHANGED <<issued, token>>
    BY <1>2 DEF Upgrade, redisvars
  <2> HIDE DEF n
  <2> QED
    BY <1>t, <2>1, <2>2 DEF TokensOwned
<1>3. CASE /\ ~(\E u \in Users : Dispatch(u))
           /\ ~(\E u \in Users, t \in 0..Len(issued), a \in Addresses : Upgrade(u, t, a))
  <2>1. issued' = issued /\ \A u \in Users : token'[u] \in {0, token[u]}
    BY <1>3, TokenKept
  <2>2. /\ DOMAIN conns' = DOMAIN conns
        /\ \A c \in DOMAIN conns : conns'[c].user = conns[c].user /\ conns'[c].token = conns[c].token
    BY <1>3, ConnsKept
  <2> QED
    BY <2>1, <2>2 DEF TokensOwned
<1> QED
  BY <1>1, <1>2, <1>3

LEMMA OneInUseNext == Typed /\ OneInUse /\ [Next]_vars => OneInUse'
<1> SUFFICES ASSUME Typed, OneInUse, [Next]_vars,
                    NEW c \in DOMAIN conns', NEW d \in DOMAIN conns',
                    c < d, conns'[c].user = conns'[d].user, conns'[c].user \notin overlap'
             PROVE  ~conns'[c].open /\ ~AnyLeft(c)'
  BY DEF OneInUse
<1>u. ASSUME NEW u \in Users, NEW t \in 0..Len(issued), NEW a \in Addresses, Upgrade(u, t, a)
      PROVE  ~conns'[c].open /\ ~AnyLeft(c)'
  <2> DEFINE n == Len(conns) + 1
  <2>1. /\ DOMAIN conns' = DOMAIN conns \cup {n} /\ n \notin DOMAIN conns
        /\ \A e \in DOMAIN conns : conns'[e] = conns[e] /\ e < n
        /\ conns'[n].user = u
    BY <1>u, UpgradeTypes
  <2>2. overlap' = IF \E e \in DOMAIN conns : conns[e].user = u /\ (conns[e].open \/ Busy(e))
                     THEN overlap \cup {u} ELSE overlap
    BY <1>u DEF Upgrade
  <2>n. n \in Nat /\ \A e \in DOMAIN conns : e \in Nat
    BY ConnTypes
  <2> HIDE DEF n
  <2>3. c \in DOMAIN conns
    BY <2>1, <2>n
  <2>4. conns'[c] = conns[c] /\ (AnyLeft(c)' <=> AnyLeft(c))
    BY <1>u, <2>1, <2>3, ConnTypes, UpgradeLeft
  <2>5. CASE d = n
    BY <2>1, <2>2, <2>3, <2>4, <2>5, BusyIsLeft
  <2>6. CASE d \in DOMAIN conns
    BY <2>1, <2>2, <2>3, <2>4, <2>6 DEF OneInUse
  <2> QED
    BY <2>1, <2>5, <2>6
<1>k. CASE ~(\E u \in Users, t \in 0..Len(issued), a \in Addresses : Upgrade(u, t, a))
  <2>1. /\ c \in DOMAIN conns /\ d \in DOMAIN conns
        /\ conns[c].user = conns[d].user /\ conns'[c].user = conns[c].user
        /\ conns'[c].open => conns[c].open
    BY <1>k, ConnsKept
  <2>2. overlap' = overlap
    BY <1>k, StepKinds, AsideKeeps, WorkKeeps DEF Message, Close, Crash, ghosts
  <2>3. ~conns[c].open /\ ~AnyLeft(c)
    BY <2>1, <2>2 DEF OneInUse
  <2>4. ~AnyLeft(c)'
    <3>1. CASE Aside
      BY <2>3, <3>1, AsideKeeps
    <3>2. ASSUME NEW e \in DOMAIN conns, Message(e) \/ Close(e) PROVE ~AnyLeft(c)'
      BY <2>1, <2>3, <3>2, CallbackLeft DEF Message, Close
    <3>3. ASSUME NEW w \in Workers, Work(w) PROVE ~AnyLeft(c)'
      BY <2>1, <2>3, <3>3, WorkLeft
    <3>4. CASE Crash
      BY <2>1, <3>4, CrashLeft
    <3> QED
      BY <1>k, <3>1, <3>2, <3>3, <3>4, StepKinds
  <2> QED
    BY <2>1, <2>3, <2>4
<1> QED
  BY <1>u, <1>k

LEMMA LinkedNext == Typed /\ Linked /\ [Next]_vars => Linked'
BY HolderNext, ClosedNext, TokensNext, OneInUseNext DEF Linked

-----------------------------------------------------------------------------
(***************************************************************************)
(* Explained.                                                               *)
(***************************************************************************)

\* What explains an inconsistency is never forgotten.
LEMMA GhostsGrow ==
  ASSUME Typed, [Next]_vars
  PROVE  /\ overlap \subseteq overlap' /\ late \subseteq late' /\ failed \subseteq failed'
         /\ crashed => crashed'
         /\ stray => stray'
<1>1. CASE Aside
  BY <1>1, AsideKeeps DEF ghosts
<1>2. CASE \E u \in Users, t \in 0..Len(issued), a \in Addresses : Upgrade(u, t, a)
  BY <1>2 DEF Upgrade
<1>3. CASE \E c \in DOMAIN conns : Message(c) \/ Close(c)
  BY <1>3 DEF Message, Close, ghosts
<1>4. ASSUME NEW w \in Workers, Work(w)
      PROVE  /\ overlap \subseteq overlap' /\ late \subseteq late' /\ failed \subseteq failed'
             /\ crashed => crashed'
             /\ stray => stray'
  <2>1. /\ overlap \subseteq overlap' /\ late \subseteq late' /\ failed \subseteq failed'
    BY <1>4
    DEF Work, Dequeue, HSet, Del, OpenUid, AddWS, MessageDrop, MessageForward, HDel, DelWS,
        PushGet, PushSend, RedisFails, ghosts
  <2>2. crashed' = crashed
    BY <1>4, WorkKeeps
  <2>3. ASSUME stray PROVE stray'
    <3>1. CASE stray' = stray
      BY <2>3, <3>1
    <3>2. CASE \E X : stray' = (stray \/ X)
      BY <2>3, <3>2
    <3>3. stray' = stray \/ \E X : stray' = (stray \/ X)
      <4>1. CASE Dequeue(w) \/ MessageDrop(w) \/ PushGet(w) \/ PushSend(w) \/ RedisFails(w)
        BY <4>1 DEF Dequeue, MessageDrop, PushGet, PushSend, RedisFails, ghosts
      <4>2. CASE HSet(w) \/ Del(w)
        BY <4>2, Zenon DEF HSet, Del
      <4>3. CASE OpenUid(w) \/ AddWS(w) \/ MessageForward(w) \/ HDel(w) \/ DelWS(w)
        BY <4>3, Zenon DEF OpenUid, AddWS, MessageForward, HDel, DelWS
      <4> QED
        BY <1>4, <4>1, <4>2, <4>3 DEF Work
    <3> QED
      BY <3>1, <3>2, <3>3
  <2> QED
    BY <2>1, <2>2, <2>3
<1>5. CASE Crash
  BY <1>5 DEF Crash
<1> QED
  BY <1>1, <1>2, <1>3, <1>4, <1>5, StepKinds

\* A worker that has not strayed acts on the socket of its own connection.
LEMMA OwnSocket ==
  ASSUME Typed, HolderOK, UidOK, NEW w \in Workers, at[w].place \in SocketPlaces, ~IsStray(w)
  PROVE  /\ at[w].own \in DOMAIN conns /\ at[w].ws \in Addresses
         /\ holder[at[w].ws] = at[w].own
         /\ conns[at[w].own].ws = at[w].ws
         /\ uid[at[w].ws] = conns[at[w].own].user
<1>1. at[w].own \in DOMAIN conns /\ at[w].ws \in Addresses
  BY DEF Typed, FrameOK, SocketPlaces, NoTaskPlaces
<1>2. at[w].own # 0
  BY <1>1, ConnTypes
<1> QED
  BY <1>1, <1>2 DEF IsStray, HolderOK, UidOK

\* A login task has its connection, and the uid of that one if it has not
\* strayed.
LEMMA OwnUser ==
  ASSUME Typed, NEW w \in Workers, HSet(w) \/ Del(w) \/ RedisFails(w)
  PROVE  /\ at[w].own \in DOMAIN conns
         /\ HSet(w) /\ ~stray' => gate' = gate \cup {conns[at[w].own].user}
         /\ Del(w) /\ ~stray' => token' = [token EXCEPT ![conns[at[w].own].user] = 0]
<1>1. at[w].own \in DOMAIN conns
  BY DEF Typed, FrameOK, NoTaskPlaces, HSet, Del, RedisFails
<1>2. conns[at[w].own].user \in Users /\ token \in [Users -> 0..Len(issued)]
  BY <1>1, ConnTypes DEF Typed
<1>3. HSet(w) /\ ~stray' => gate' = gate \cup {conns[at[w].own].user}
  BY <1>2, GateAssumption DEF HSet
<1>4. Del(w) /\ ~stray' => token' = [token EXCEPT ![conns[at[w].own].user] = 0]
  BY <1>2 DEF Del
<1> QED
  BY <1>1, <1>3, <1>4

\* Steps on a socket.
LEMMA OwnSteps ==
  ASSUME Typed, HolderOK, UidOK, ~stray', NEW w \in Workers,
         OpenUid(w) \/ AddWS(w) \/ HDel(w) \/ DelWS(w)
  PROVE  /\ at[w].own \in DOMAIN conns /\ at[w].ws \in Addresses
         /\ holder[at[w].ws] = at[w].own
         /\ conns[at[w].own].ws = at[w].ws
         /\ uid[at[w].ws] = conns[at[w].own].user
<1>1. at[w].place \in SocketPlaces /\ ~IsStray(w)
  BY DEF OpenUid, AddWS, HDel, DelWS, SocketPlaces
<1> QED
  BY <1>1, OwnSocket

\* Where a worker comes to "add" and to "send" from.
LEMMA WorkArrives ==
  ASSUME Typed, NEW w \in Workers, Work(w)
  PROVE  /\ at'[w].place = "add" => OpenUid(w)
         /\ at'[w].place = "send" =>
              /\ PushGet(w) /\ at'[w].user = at[w].user /\ at[w].user \in Users
              /\ at'[w].ws = sockets_[at[w].user] /\ sockets_[at[w].user] # NoAddress
<1>t. at \in [Workers -> Frame] /\ FrameOK(w)
  BY DEF Typed
<1>1. CASE Dequeue(w)
  BY <1>1, DequeueTypes DEF First, Kinds
<1>2. CASE HSet(w) \/ HDel(w)
  BY <1>2, <1>t, GotoTypes DEF HSet, HDel
<1>3. CASE OpenUid(w)
  BY <1>3, OpenUidTypes
<1>4. CASE Return(w)
  BY <1>4, <1>t, ReturnTypes
<1>5. CASE PushGet(w) /\ ~Return(w)
  <2>1. /\ at' = [at EXCEPT ![w].ws = sockets_[at[w].user], ![w].place = "send"]
        /\ sockets_[at[w].user] # NoAddress /\ at[w].user \in Users
    BY <1>5, <1>t DEF PushGet, FrameOK
  <2> QED
    BY <1>5, <2>1, <1>t DEF Frame
<1> QED
  BY <1>1, <1>2, <1>3, <1>4, <1>5
  DEF Work, Del, AddWS, MessageDrop, MessageForward, DelWS, PushSend, RedisFails

\* How the table changes: an entry goes, or a worker enters its socket.
LEMMA TableSteps ==
  ASSUME Typed, [Next]_vars, NEW u \in Users
  PROVE  \/ sockets_'[u] \in {NoAddress, sockets_[u]}
         \/ \E w \in Workers : AddWS(w) /\ at[w].user = u /\ sockets_'[u] = at[w].ws
<1>t. sockets_ \in [Users -> Addresses \cup {NoAddress}]
  BY DEF Typed
<1>1. CASE UNCHANGED sockets_
  BY <1>1
<1>2. CASE \E w \in Workers : AddWS(w)
  BY <1>2, <1>t DEF AddWS
<1>3. CASE \E w \in Workers : DelWS(w)
  BY <1>3, <1>t DEF DelWS
<1>4. CASE Crash
  BY <1>4 DEF Crash
<1>5. (\E w \in Workers : Work(w)) =>
        UNCHANGED sockets_ \/ (\E w \in Workers : AddWS(w)) \/ (\E w \in Workers : DelWS(w))
  BY DEF Work, Dequeue, HSet, Del, OpenUid, MessageDrop, MessageForward, HDel, PushGet, PushSend,
         RedisFails
<1>6. \/ Aside
      \/ \E v \in Users, t \in 0..Len(issued), a \in Addresses : Upgrade(v, t, a)
      \/ \E c \in DOMAIN conns : Message(c) \/ Close(c)
      => UNCHANGED sockets_
  BY AsideKeeps DEF Upgrade, Message, Close
<1> QED
  BY <1>1, <1>2, <1>3, <1>4, <1>5, <1>6, StepKinds

\* The gate fields: set by a login task, deleted by CloseHandle.
LEMMA GateSteps ==
  ASSUME Typed, [Next]_vars, NEW u \in Users
  PROVE  /\ u \in gate' /\ u \notin gate => \E w \in Workers : HSet(w)
         /\ u \in gate /\ u \notin gate' => \E w \in Workers : HDel(w) /\ uid[at[w].ws] = u
<1>1. CASE UNCHANGED gate
  BY <1>1
<1>2. CASE \E w \in Workers : HSet(w)
  BY <1>2 DEF HSet
<1>3. CASE \E w \in Workers : HDel(w)
  BY <1>3 DEF HDel
<1>4. (\E w \in Workers : Work(w)) =>
        UNCHANGED gate \/ (\E w \in Workers : HSet(w)) \/ (\E w \in Workers : HDel(w))
  BY DEF Work, Dequeue, Del, OpenUid, AddWS, MessageDrop, MessageForward, DelWS, PushGet, PushSend,
         RedisFails, redisvars
<1>5. \/ Aside
      \/ \E v \in Users, t \in 0..Len(issued), a \in Addresses : Upgrade(v, t, a)
      \/ \E c \in DOMAIN conns : Message(c) \/ Close(c)
      \/ Crash
      => UNCHANGED gate
  BY AsideKeeps DEF Upgrade, Message, Close, Crash, redisvars
<1> QED
  BY <1>1, <1>2, <1>3, <1>4, <1>5, StepKinds

LEMMA UidNext ==
  ASSUME Typed, HolderOK, UidOK, [Next]_vars, ~stray'
  PROVE  UidOK'
<1>h. \A a \in Addresses : holder[a] # 0 => holder[a] \in DOMAIN conns
  BY ConnTypes DEF Typed
<1>o. \A w \in Workers : at[w].place = "add" => at[w].own \in DOMAIN conns
  BY DEF Typed, FrameOK, NoTaskPlaces
<1>1. ASSUME NEW u \in Users, NEW t \in 0..Len(issued), NEW a \in Addresses, Upgrade(u, t, a)
      PROVE  UidOK'
  <2> DEFINE n == Len(conns) + 1
  <2>1. /\ \A d \in DOMAIN conns : conns'[d] = conns[d]
        /\ conns'[n].user = u
        /\ holder'[a] = n /\ \A b \in Addresses \ {a} : holder'[b] = holder[b]
        /\ uid'[a] = u /\ \A b \in Addresses \ {a} : uid'[b] = uid[b]
    BY <1>1, UpgradeTypes
  <2>2. at' = at
    BY <1>1 DEF Upgrade
  <2> HIDE DEF n
  <2> QED
    BY <1>h, <1>o, <2>1, <2>2 DEF UidOK
<1>2. ASSUME NEW c \in DOMAIN conns, Close(c) PROVE UidOK'
  BY <1>2, <1>h, <1>o, CloseTypes DEF UidOK, Close
<1>3. CASE Crash
  BY <1>3, CrashTypes DEF UidOK, Crash
<1>4. CASE UNCHANGED <<conns, holder, uid, at>>
  BY <1>4 DEF UidOK
<1>5. ASSUME NEW w \in Workers, Work(w) PROVE UidOK'
  <2>1. UNCHANGED <<conns, holder>>
    BY <1>5, WorkKeeps
  <2>2. \A a \in Addresses : holder[a] # 0 => uid'[a] = conns[holder[a]].user
    <3>1. CASE AddWS(w)
      <4>1. at[w].ws \in Addresses /\ holder[at[w].ws] = at[w].own
        BY <3>1, OwnSteps
      <4>2. uid' = [uid EXCEPT ![at[w].ws] = at[w].user] /\ at[w].user = conns[at[w].own].user
        BY <3>1 DEF AddWS, UidOK
      <4> QED
        BY <4>1, <4>2 DEF UidOK, Typed
    <3>2. CASE ~AddWS(w)
      <4>1. uid' = uid
        BY <1>5, <3>2
        DEF Work, Dequeue, HSet, Del, OpenUid, MessageDrop, MessageForward, HDel, DelWS, PushGet,
            PushSend, RedisFails
      <4> QED
        BY <4>1 DEF UidOK
    <3> QED
      BY <3>1, <3>2
  <2>3. \A v \in Workers : at'[v].place = "add" => at'[v].user = conns[at'[v].own].user
    <3>1. \A v \in Workers \ {w} : at'[v] = at[v]
      BY <1>5, WorkPlaces
    <3>2. CASE OpenUid(w)
      <4>1. /\ at'[w].own = at[w].own /\ at'[w].user = uid[at[w].ws]
            /\ uid[at[w].ws] = conns[at[w].own].user
        BY <3>2, OpenUidTypes, OwnSteps
      <4> QED
        BY <3>1, <4>1 DEF UidOK
    <3>3. CASE ~OpenUid(w)
      BY <1>5, <3>1, <3>3, WorkArrives DEF UidOK
    <3> QED
      BY <3>2, <3>3
  <2> QED
    BY <2>1, <2>2, <2>3 DEF UidOK
<1>6. Aside \/ (\E c \in DOMAIN conns : Message(c)) => UNCHANGED <<conns, holder, uid, at>>
  BY AsideKeeps DEF Message
<1> QED
  BY <1>1, <1>2, <1>3, <1>4, <1>5, <1>6, StepKinds

LEMMA HadSocketStays ==
  ASSUME Typed, [Next]_vars, NEW u, NEW a, HadSocket(u, a)
  PROVE  HadSocket(u, a)'
<1>1. \A c \in DOMAIN conns :
        c \in DOMAIN conns' /\ conns'[c].user = conns[c].user /\ conns'[c].ws = conns[c].ws
  <2>1. CASE \E v \in Users, t \in 0..Len(issued), b \in Addresses : Upgrade(v, t, b)
    BY <2>1, UpgradeTypes
  <2>2. CASE ~(\E v \in Users, t \in 0..Len(issued), b \in Addresses : Upgrade(v, t, b))
    BY <2>2, ConnsKept
  <2> QED
    BY <2>1, <2>2
<1> QED
  BY <1>1 DEF HadSocket

\* The sends of workers and the one of the completion thread.
LEMMA InHandIs ==
  Rightful <=>
    /\ \A u \in Users : sockets_[u] # NoAddress => HadSocket(u, sockets_[u])
    /\ \A w \in Workers : at[w].place = "send" => HadSocket(at[w].user, at[w].ws)
    /\ reply.user # NoUser => HadSocket(reply.user, reply.ws)
<1>1. (\A x \in InHand : HadSocket(x.user, x.ws)) <=>
        /\ \A w \in Workers : at[w].place = "send" => HadSocket(at[w].user, at[w].ws)
        /\ reply.user # NoUser => HadSocket(reply.user, reply.ws)
  <2>1. \A w \in Workers :
          at[w].place = "send" => [user |-> at[w].user, ws |-> at[w].ws] \in InHand
    BY DEF InHand
  <2>2. reply.user # NoUser => reply \in InHand
    BY DEF InHand
  <2>3. \A x \in InHand :
          \/ x = reply /\ reply.user # NoUser
          \/ \E w \in Workers : at[w].place = "send" /\ x.user = at[w].user /\ x.ws = at[w].ws
    BY DEF InHand
  <2>4. \A w \in Workers : /\ [user |-> at[w].user, ws |-> at[w].ws].user = at[w].user
                           /\ [user |-> at[w].user, ws |-> at[w].ws].ws = at[w].ws
    OBVIOUS
  <2>5. ASSUME \A x \in InHand : HadSocket(x.user, x.ws), NEW w \in Workers, at[w].place = "send"
        PROVE  HadSocket(at[w].user, at[w].ws)
    BY <2>1, <2>4, <2>5 DEF HadSocket
  <2> QED
    BY <2>2, <2>3, <2>5 DEF HadSocket
<1> QED
  BY <1>1, Zenon DEF Rightful

LEMMA RightfulNext ==
  ASSUME Typed, HolderOK, UidOK, Rightful, [Next]_vars, ~stray'
  PROVE  Rightful'
<1>0. /\ \A u \in Users : sockets_[u] # NoAddress => HadSocket(u, sockets_[u])
      /\ \A w \in Workers : at[w].place = "send" => HadSocket(at[w].user, at[w].ws)
      /\ reply.user # NoUser => HadSocket(reply.user, reply.ws)
  BY InHandIs
<1>1. ASSUME NEW u \in Users, NEW a, a = sockets_'[u], a # NoAddress
      PROVE  HadSocket(u, a)'
  <2>1. CASE a = sockets_[u]
    BY <1>0, <1>1, <2>1, HadSocketStays
  <2>2. ASSUME NEW w \in Workers, AddWS(w), at[w].user = u, a = at[w].ws
        PROVE  HadSocket(u, a)'
    <3>1. at[w].own \in DOMAIN conns /\ conns[at[w].own].ws = a
      BY <2>2, OwnSteps
    <3>2. conns[at[w].own].user = u
      BY <2>2 DEF AddWS, UidOK
    <3>3. HadSocket(u, a)
      BY <3>1, <3>2 DEF HadSocket
    <3> QED
      BY <3>3, HadSocketStays
  <2> QED
    BY <1>1, <2>1, <2>2, TableSteps
<1>2. ASSUME NEW w \in Workers, NEW u, NEW a, at'[w].place = "send", at'[w].user = u, at'[w].ws = a
      PROVE  HadSocket(u, a)'
  <2>1. CASE at'[w] = at[w]
    BY <1>0, <1>2, <2>1, HadSocketStays
  <2>2. CASE Work(w)
    <3>1. CASE PushGet(w)
      <4>1. u \in Users /\ a = sockets_[u] /\ a # NoAddress
        BY <1>2, <2>2, WorkArrives
      <4> QED
        BY <1>0, <4>1, HadSocketStays
    <3> QED
      BY <1>2, <2>2, <3>1, WorkArrives
  <2>3. CASE Crash
    BY <1>2, <2>3, CrashTypes
  <2>4. (\E v \in Workers : Work(v)) => at'[w] = at[w] \/ Work(w)
    BY WorkPlaces
  <2>5. \/ Aside
        \/ \E v \in Users, t \in 0..Len(issued), b \in Addresses : Upgrade(v, t, b)
        \/ \E c \in DOMAIN conns : Message(c) \/ Close(c)
        => at'[w] = at[w]
    BY AsideKeeps DEF Upgrade, Message, Close
  <2> QED
    BY <2>1, <2>2, <2>3, <2>4, <2>5, StepKinds
<1>3. ASSUME NEW u, NEW a, reply'.user = u, reply'.ws = a, u # NoUser
      PROVE  HadSocket(u, a)'
  <2>1. CASE reply' = reply
    BY <1>0, <1>3, <2>1, HadSocketStays
  <2>2. ASSUME NEW v \in Users, ReplyGet(v), reply' # reply PROVE HadSocket(u, a)'
    <3>1. reply' = [user |-> v, ws |-> sockets_[v]] /\ sockets_[v] # NoAddress
      BY <2>2 DEF ReplyGet
    <3>2. u = v /\ a = sockets_[v]
      BY <1>3, <3>1
    <3> QED
      BY <1>0, <3>1, <3>2, HadSocketStays
  <2>3. ReplySend \/ Crash => reply'.user = NoUser
    BY DEF ReplySend, Crash
  <2>4. reply' = reply \/ (\E v \in Users : ReplyGet(v)) \/ ReplySend \/ Crash
    <3>1. (\E w \in Workers : Work(w)) => reply' = reply
      BY WorkKeeps
    <3> QED
      BY <3>1 DEF Next, Dispatch, Expire, Push, Upgrade, Message, Close, vars, sendvars
  <2> QED
    BY <1>3, <2>1, <2>2, <2>3, <2>4
<1>4. \A u \in Users : sockets_'[u] # NoAddress => HadSocket(u, sockets_[u])'
  BY <1>1
<1>5. \A w \in Workers : at'[w].place = "send" => HadSocket(at[w].user, at[w].ws)'
  BY <1>2
<1>6. reply'.user # NoUser => HadSocket(reply.user, reply.ws)'
  BY <1>3
<1>7. (\A x \in InHand : HadSocket(x.user, x.ws))'
  BY <1>5, <1>6 DEF InHand, HadSocket
<1> QED
  BY <1>4, <1>7 DEF Rightful

\* A task that ends in an error of Redis is recorded for its user.
LEMMA FailedOwn ==
  ASSUME NEW w \in Workers, RedisFails(w)
  PROVE  conns[at[w].own].user \in failed'
BY DEF RedisFails

\* A connection that will clear an entry away goes on to do so, but for a crash
\* or for the statement that clears it.
LEMMA ClosingStays ==
  ASSUME Typed, [Next]_vars, ~Crash, NEW c \in DOMAIN conns
  PROVE  /\ c \in DOMAIN conns' /\ conns'[c].user = conns[c].user /\ conns'[c].ws = conns[c].ws
         /\ conns[c].open \/ CloseLeft(c) =>
              \/ conns'[c].open \/ CloseLeft(c)'
              \/ \E w \in Workers : at[w].own = c /\ (DelWS(w) \/ RedisFails(w))
         /\ conns[c].open \/ HDelLeft(c) =>
              \/ conns'[c].open \/ HDelLeft(c)'
              \/ \E w \in Workers : at[w].own = c /\ (HDel(w) \/ RedisFails(w))
<1>1. CASE Aside
  BY <1>1, AsideKeeps
<1>2. ASSUME NEW u \in Users, NEW t \in 0..Len(issued), NEW a \in Addresses, Upgrade(u, t, a)
      PROVE  /\ c \in DOMAIN conns' /\ conns'[c] = conns[c]
             /\ CloseLeft(c)' <=> CloseLeft(c)
             /\ HDelLeft(c)' <=> HDelLeft(c)
  <2>1. c \in DOMAIN conns' /\ conns'[c] = conns[c]
    BY <1>2, UpgradeTypes
  <2>2. \E n : n = Len(conns) + 1
    OBVIOUS
  <2> QED
    BY <1>2, <2>1, <2>2, UpgradeLeft
<1>3. ASSUME NEW d \in DOMAIN conns, Message(d)
      PROVE  conns' = conns /\ (CloseLeft(c)' <=> CloseLeft(c)) /\ (HDelLeft(c)' <=> HDelLeft(c))
  <2>1. conns' = conns /\ ~Close(d)
    BY <1>3 DEF Message, Close
  <2> QED
    BY <1>3, <2>1, CallbackLeft
<1>4. ASSUME NEW d \in DOMAIN conns, Close(d)
      PROVE  /\ c \in DOMAIN conns' /\ conns'[c].user = conns[c].user /\ conns'[c].ws = conns[c].ws
             /\ conns[c].open \/ CloseLeft(c) => conns'[c].open \/ CloseLeft(c)'
             /\ conns[c].open \/ HDelLeft(c) => conns'[c].open \/ HDelLeft(c)'
  BY <1>4, CloseTypes, CallbackLeft
<1>5. ASSUME NEW w \in Workers, Work(w)
      PROVE  /\ conns' = conns
             /\ CloseLeft(c) /\ ~CloseLeft(c)' => at[w].own = c /\ (DelWS(w) \/ RedisFails(w))
             /\ HDelLeft(c) /\ ~HDelLeft(c)' => at[w].own = c /\ (HDel(w) \/ RedisFails(w))
  BY <1>5, WorkKeeps, WorkLeft
<1> QED
  BY <1>1, <1>2, <1>3, <1>4, <1>5, StepKinds

LEMMA EntryNext ==
  ASSUME Typed, HolderOK, UidOK, EntryHeld, [Next]_vars, ~stray'
  PROVE  EntryHeld'
<1> SUFFICES ASSUME NEW u \in Users, u \notin late' \cup failed', NEW a, a = sockets_'[u], a # NoAddress
             PROVE  \E c \in DOMAIN conns' :
                      conns'[c].user = u /\ conns'[c].ws = a /\ (conns'[c].open \/ CloseLeft(c)')
  BY DEF EntryHeld
<1>0. u \notin late \cup failed
  BY GhostsGrow
<1>1. ~Crash
  BY DEF Crash
<1>2. CASE a = sockets_[u]
  <2>1. PICK c \in DOMAIN conns :
          conns[c].user = u /\ conns[c].ws = a /\ (conns[c].open \/ CloseLeft(c))
    BY <1>0, <1>2 DEF EntryHeld
  <2>2. ASSUME NEW w \in Workers, at[w].own = c, DelWS(w) PROVE FALSE
    <3>1. uid[at[w].ws] = u
      BY <2>1, <2>2, OwnSteps
    <3> QED
      BY <2>2, <3>1 DEF DelWS, Typed
  <2>3. ASSUME NEW w \in Workers, at[w].own = c, RedisFails(w) PROVE FALSE
    BY <2>1, <2>3, FailedOwn
  <2> QED
    BY <1>1, <2>1, <2>2, <2>3, ClosingStays
<1>3. ASSUME NEW w \in Workers, AddWS(w), at[w].user = u, a = at[w].ws
      PROVE  \E c \in DOMAIN conns' :
               conns'[c].user = u /\ conns'[c].ws = a /\ (conns'[c].open \/ CloseLeft(c)')
  <2>1. PICK c : c = at[w].own
    OBVIOUS
  <2>2. c \in DOMAIN conns /\ conns[c].ws = a
    BY <1>3, <2>1, OwnSteps
  <2>3. conns[c].user = u
    BY <1>3, <2>1 DEF AddWS, UidOK
  <2>4. ~Cleared(c)
    BY <1>3, <2>1 DEF AddWS
  <2>5. conns[c].open \/ CloseLeft(c)
    BY <2>2, <2>4, BusyIsLeft DEF CloseLeft
  <2>6. Work(w) /\ ~DelWS(w) /\ ~RedisFails(w)
    BY <1>3 DEF Work, AddWS, DelWS, RedisFails
  <2>7. conns' = conns /\ (CloseLeft(c) => CloseLeft(c)')
    BY <2>2, <2>6, WorkKeeps, WorkLeft
  <2> QED
    BY <2>2, <2>3, <2>5, <2>7
<1> QED
  BY <1>2, <1>3, TableSteps

LEMMA GateNext ==
  ASSUME Typed, HolderOK, UidOK, GateHeld, [Next]_vars, ~stray'
  PROVE  GateHeld'
<1> SUFFICES ASSUME NEW u \in gate', u \notin late' \cup failed', ~crashed'
             PROVE  \E c \in DOMAIN conns' :
                      conns'[c].user = u /\ (conns'[c].open \/ HDelLeft(c)')
  BY DEF GateHeld
<1>0. u \notin late \cup failed /\ ~crashed /\ u \in Users
  BY GhostsGrow, TypedNext DEF Typed
<1>1. ~Crash
  BY DEF Crash
<1>2. CASE u \in gate
  <2>1. PICK c \in DOMAIN conns : conns[c].user = u /\ (conns[c].open \/ HDelLeft(c))
    BY <1>0, <1>2 DEF GateHeld
  <2>2. ASSUME NEW w \in Workers, at[w].own = c, HDel(w) PROVE FALSE
    <3>1. uid[at[w].ws] = u
      BY <2>1, <2>2, OwnSteps
    <3> QED
      BY <2>2, <3>1 DEF HDel
  <2>3. ASSUME NEW w \in Workers, at[w].own = c, RedisFails(w) PROVE FALSE
    BY <2>1, <2>3, FailedOwn
  <2> QED
    BY <1>1, <2>1, <2>2, <2>3, ClosingStays
<1>3. CASE u \notin gate
  <2>0. PICK w \in Workers : HSet(w)
    BY <1>0, <1>3, GateSteps
  <2>1. PICK c : c = at[w].own
    OBVIOUS
  <2>2. c \in DOMAIN conns /\ conns[c].user = u
    BY <1>3, <2>0, <2>1, OwnUser
  <2>4. ~Cleared(c)
    BY <2>0, <2>1, <2>2 DEF HSet
  <2>5. conns[c].open \/ HDelLeft(c)
    BY <2>2, <2>4, BusyIsLeft DEF HDelLeft
  <2>6. Work(w) /\ ~HDel(w)
    BY <2>0 DEF Work, HSet, HDel
  <2>7. conns' = conns /\ (HDelLeft(c) => HDelLeft(c)' \/ RedisFails(w))
    BY <2>2, <2>6, WorkKeeps, WorkLeft
  <2>8. ~RedisFails(w)
    BY <2>1, <2>2, FailedOwn
  <2> QED
    BY <2>2, <2>5, <2>7, <2>8
<1> QED
  BY <1>2, <1>3

\* Nobody else works for the user of an open connection without overlap.
LEMMA OnlyOne ==
  ASSUME Typed, OneInUse, NEW c \in DOMAIN conns, NEW w \in Workers, at[w].own \in DOMAIN conns,
         conns[c].open, conns[c].user \notin overlap, conns[at[w].own].user = conns[c].user
  PROVE  at[w].own = c
<1>1. PICK d \in DOMAIN conns : d = at[w].own
  OBVIOUS
<1>2. AnyLeft(d)
  BY <1>1 DEF AnyLeft
<1>3. c \in Nat /\ d \in Nat
  BY ConnTypes
<1>4. ~(c < d) /\ ~(d < c)
  BY <1>1, <1>2 DEF OneInUse
<1> QED
  BY <1>1, <1>3, <1>4

LEMMA EnteredNext ==
  ASSUME Typed, Linked, UidOK, Entered, [Next]_vars, ~stray'
  PROVE  Entered'
<1> USE DEF Linked
<1> SUFFICES ASSUME NEW c \in DOMAIN conns', conns'[c].open,
                    NEW u, u = conns'[c].user, u \notin overlap' \cup failed'
             PROVE  /\ ~LoginLeft(c)' => u \in gate'
                    /\ ~OpenLeft(c)' => sockets_'[u] = conns'[c].ws
  BY DEF Entered
<1>0. u \notin overlap \cup failed
  BY GhostsGrow
<1>1. ASSUME NEW v \in Users, NEW t \in 0..Len(issued), NEW a \in Addresses, Upgrade(v, t, a)
      PROVE  /\ ~LoginLeft(c)' => u \in gate'
             /\ ~OpenLeft(c)' => sockets_'[u] = conns'[c].ws
  <2>1. UNCHANGED <<gate, sockets_>>
    BY <1>1 DEF Upgrade, redisvars
  <2>2. CASE c = Len(conns) + 1
    BY <1>1, <2>2, UpgradeLeft
  <2>3. CASE c # Len(conns) + 1
    <3>1. /\ DOMAIN conns' = DOMAIN conns \cup {Len(conns) + 1}
          /\ \A d \in DOMAIN conns : conns'[d] = conns[d]
      BY <1>1, UpgradeTypes
    <3>2. c \in DOMAIN conns /\ conns'[c] = conns[c]
      BY <2>3, <3>1
    <3>3. \E n : n = Len(conns) + 1
      OBVIOUS
    <3>4. (LoginLeft(c)' <=> LoginLeft(c)) /\ (OpenLeft(c)' <=> OpenLeft(c))
      BY <1>1, <3>2, <3>3, UpgradeLeft
    <3> QED
      BY <1>0, <2>1, <3>2, <3>4 DEF Entered
  <2> QED
    BY <2>2, <2>3
<1>2. CASE Aside
  BY <1>0, <1>2, AsideKeeps DEF Entered
<1>3. ASSUME NEW d \in DOMAIN conns, Message(d) \/ Close(d)
      PROVE  /\ ~LoginLeft(c)' => u \in gate'
             /\ ~OpenLeft(c)' => sockets_'[u] = conns'[c].ws
  <2>1. UNCHANGED <<gate, sockets_>>
    BY <1>3 DEF Message, Close, redisvars
  <2>2. c \in DOMAIN conns /\ conns[c].user = u /\ conns'[c].ws = conns[c].ws /\ conns[c].open
    <3>1. CASE Message(d)
      BY <3>1 DEF Message
    <3>2. CASE Close(d)
      BY <3>2, CloseTypes
    <3> QED
      BY <1>3, <3>1, <3>2
  <2>3. (LoginLeft(c)' <=> LoginLeft(c)) /\ (OpenLeft(c)' <=> OpenLeft(c))
    BY <1>3, <2>2, CallbackLeft
  <2> QED
    BY <1>0, <2>1, <2>2, <2>3 DEF Entered
<1>4. CASE Crash
  BY <1>4, CrashTypes
<1>5. ASSUME NEW w \in Workers, Work(w)
      PROVE  /\ ~LoginLeft(c)' => u \in gate'
             /\ ~OpenLeft(c)' => sockets_'[u] = conns'[c].ws
  <2>1. conns' = conns /\ c \in DOMAIN conns /\ conns[c].user = u /\ conns[c].open /\ u \in Users
    BY <1>5, WorkKeeps, ConnTypes
  <2>2. ASSUME NEW v \in Workers, at[v].own = c, RedisFails(v) PROVE FALSE
    BY <2>1, <2>2, FailedOwn
  <2>c. ASSUME NEW v \in Workers, HDel(v) \/ DelWS(v), uid[at[v].ws] = u PROVE FALSE
    <3>1. at[v].own \in DOMAIN conns /\ conns[at[v].own].user = u
      BY <2>c, OwnSteps
    <3>2. at[v].own = c
      BY <1>0, <2>1, <3>1, OnlyOne
    <3>3. CloseLeft(c)
      BY <2>c, <3>2 DEF HDel, DelWS, CloseLeft, At
    <3> QED
      BY <2>1, <3>3 DEF ClosedFirst
  <2>3. ASSUME ~LoginLeft(c)' PROVE u \in gate'
    <3>1. CASE LoginLeft(c)
      <4>1. at[w].own = c /\ HSet(w)
        BY <1>5, <2>1, <2>2, <2>3, <3>1, WorkLeft
      <4> QED
        BY <2>1, <4>1, OwnUser
    <3>2. CASE ~LoginLeft(c)
      <4>1. u \in gate
        BY <1>0, <2>1, <3>2 DEF Entered
      <4> QED
        BY <2>1, <2>c, <4>1, GateSteps
    <3> QED
      BY <3>1, <3>2
  <2>4. ASSUME ~OpenLeft(c)' PROVE sockets_'[u] = conns[c].ws
    <3>1. ASSUME NEW v \in Workers, AddWS(v), at[v].user = u PROVE sockets_'[u] = conns[c].ws
      <4>1. at[v].own \in DOMAIN conns /\ conns[at[v].own].ws = at[v].ws
        BY <3>1, OwnSteps
      <4>2. conns[at[v].own].user = u
        BY <3>1 DEF AddWS, UidOK
      <4>3. at[v].own = c
        BY <1>0, <2>1, <4>1, <4>2, OnlyOne
      <4> QED
        BY <2>1, <3>1, <4>1, <4>3 DEF AddWS, Typed
    <3>2. CASE OpenLeft(c)
      <4>1. at[w].own = c /\ AddWS(w)
        BY <1>5, <2>1, <2>4, <3>2, WorkLeft
      <4>2. at[w].user = u
        BY <2>1, <4>1 DEF AddWS, UidOK
      <4> QED
        BY <3>1, <4>1, <4>2
    <3>3. CASE ~OpenLeft(c)
      <4>1. sockets_[u] = conns[c].ws
        BY <1>0, <2>1, <3>3 DEF Entered
      <4>2. CASE AddWS(w)
        <5>1. CASE at[w].user = u
          BY <3>1, <4>2, <5>1
        <5>2. CASE at[w].user # u
          BY <2>1, <4>1, <4>2, <5>2 DEF AddWS, Typed
        <5> QED
          BY <5>1, <5>2
      <4>3. CASE DelWS(w)
        BY <2>1, <2>c, <4>1, <4>3 DEF DelWS, Typed
      <4>4. CASE ~AddWS(w) /\ ~DelWS(w)
        BY <1>5, <4>1, <4>4
        DEF Work, Dequeue, HSet, Del, OpenUid, MessageDrop, MessageForward, HDel, PushGet, PushSend,
            RedisFails
      <4> QED
        BY <4>2, <4>3, <4>4
    <3> QED
      BY <3>2, <3>3
  <2> QED
    BY <2>1, <2>3, <2>4
<1> QED
  BY <1>1, <1>2, <1>3, <1>4, <1>5, StepKinds

LEMMA SpentNext ==
  ASSUME Typed, TokensOwned, TokenSpent, [Next]_vars, ~stray'
  PROVE  TokenSpent'
<1> SUFFICES ASSUME NEW c \in DOMAIN conns', ~crashed', NEW u, u = conns'[c].user, u \notin failed',
                    ~TokenLeft(c)'
             PROVE  token'[u] # conns'[c].token
  BY DEF TokenSpent
<1>0. ~crashed /\ u \notin failed
  BY GhostsGrow
<1>1. ASSUME NEW v \in Users, NEW t \in 0..Len(issued), NEW a \in Addresses, Upgrade(v, t, a)
      PROVE  token'[u] # conns'[c].token
  <2>1. token' = token
    BY <1>1 DEF Upgrade, redisvars
  <2>2. c # Len(conns) + 1
    BY <1>1, UpgradeLeft
  <2>3. /\ DOMAIN conns' = DOMAIN conns \cup {Len(conns) + 1}
        /\ \A d \in DOMAIN conns : conns'[d] = conns[d]
    BY <1>1, UpgradeTypes
  <2>4. c \in DOMAIN conns /\ conns'[c] = conns[c]
    BY <2>2, <2>3
  <2>5. \E n : n = Len(conns) + 1
    OBVIOUS
  <2>6. ~TokenLeft(c)
    BY <1>1, <2>4, <2>5, UpgradeLeft
  <2> QED
    BY <1>0, <2>1, <2>4, <2>6 DEF TokenSpent
<1>2. CASE ~(\E v \in Users, t \in 0..Len(issued), a \in Addresses : Upgrade(v, t, a))
  <2>1. /\ c \in DOMAIN conns /\ conns[c].user = u /\ conns'[c].token = conns[c].token
        /\ u \in Users /\ conns[c].token \in DOMAIN issued /\ conns[c].token # 0
    BY <1>2, ConnsKept, ConnTypes DEF TokensOwned
  <2>2. CASE ~TokenLeft(c)
    <3>1. token[u] # conns[c].token
      BY <1>0, <2>1, <2>2 DEF TokenSpent
    <3>2. ASSUME NEW v \in Users, Dispatch(v) PROVE token'[u] # conns'[c].token
      <4>1. conns[c].token # Len(issued) + 1
        BY <2>1, ConnTypes
      <4>2. token'[u] \in {Len(issued) + 1, token[u]}
        BY <2>1, <3>2, DispatchTypes
      <4> QED
        BY <2>1, <3>1, <4>1, <4>2
    <3>3. CASE ~(\E v \in Users : Dispatch(v))
      BY <2>1, <3>1, <3>3, TokenKept
    <3> QED
      BY <3>2, <3>3
  <2>3. CASE TokenLeft(c)
    <3>1. ~Aside /\ (\A d \in DOMAIN conns : ~Message(d) /\ ~Close(d)) /\ ~Crash
      BY <2>1, <2>3, AsideKeeps, CallbackLeft DEF Crash
    <3>2. PICK w \in Workers : Work(w)
      BY <1>2, <3>1, StepKinds
    <3>3. at[w].own = c /\ (Del(w) \/ RedisFails(w))
      BY <2>1, <2>3, <3>2, WorkLeft
    <3>4. ~RedisFails(w)
      BY <2>1, <3>3, FailedOwn
    <3>5. token' = [token EXCEPT ![u] = 0]
      BY <2>1, <3>3, <3>4, OwnUser
    <3> QED
      BY <2>1, <3>5 DEF Typed
  <2> QED
    BY <2>2, <2>3
<1> QED
  BY <1>1, <1>2

LEMMA ExplainedInit == Init => Explained
<1> SUFFICES ASSUME Init PROVE Explained
  OBVIOUS
<1>1. InHand = {}
  BY DEF Init, InHand, Idle
<1> QED
  BY <1>1
  DEF Init, Explained, UidOK, Rightful, EntryHeld, GateHeld, Entered, TokenSpent, Idle

LEMMA ExplainedNext ==
  ASSUME Typed, Linked, stray \/ Explained, [Next]_vars
  PROVE  stray' \/ Explained'
<1> SUFFICES ASSUME ~stray' PROVE Explained'
  OBVIOUS
<1>1. Explained
  BY GhostsGrow
<1> QED
  BY <1>1, UidNext, RightfulNext, EntryNext, GateNext, EnteredNext, SpentNext DEF Explained, Linked

\* The whole invariant.
LEMMA Inductive == Spec => []IndInv
<1>1. Init => IndInv
  BY TypedInit, CallsInit, LinkedInit, ExplainedInit DEF IndInv
<1>2. IndInv /\ [Next]_vars => IndInv'
  BY TypedNext, CallsNext, LinkedNext, ExplainedNext DEF IndInv
<1> QED
  BY <1>1, <1>2, PTL DEF Spec

-----------------------------------------------------------------------------
(***************************************************************************)
(* What it says of the sessions.                                            *)
(***************************************************************************)

\* What is left for a connection in particular is left at all.
LEMMA LeftAtAll ==
  \A c : LoginLeft(c) \/ OpenLeft(c) \/ HDelLeft(c) \/ CloseLeft(c) => AnyLeft(c)
BY DEF LoginLeft, OpenLeft, HDelLeft, CloseLeft, AnyLeft, At, Kinds

\* The socket of an open connection is that of its user.
LEMMA OpenIsSocket ==
  ASSUME Typed, HolderOK, NEW c \in DOMAIN conns, conns[c].open
  PROVE  IsSocketOf(conns[c].user, conns[c].ws)
BY ConnTypes DEF HolderOK, IsSocketOf

\* Whoever has an open socket is found by pushes once his tasks are done, in
\* whatever order UpgradeHandle's, OpenHandle's and CloseHandle's tasks ran.
THEOREM ConnectedIsReachableCorrect == Spec => []ConnectedIsReachable
<1>1. IndInv => ConnectedIsReachable
  <2> SUFFICES ASSUME Typed, Linked, stray \/ Explained,
                      NEW u \in Users, Quiet(u), ~Disturbed(u),
                      NEW c \in DOMAIN conns, conns[c].user = u, conns[c].open
               PROVE  u \in gate /\ IsSocketOf(u, sockets_[u])
    BY DEF IndInv, ConnectedIsReachable
  <2>1. Entered /\ u \notin overlap \cup failed
    BY DEF Disturbed, Explained
  <2>2. ~LoginLeft(c) /\ ~OpenLeft(c)
    BY BusyIsLeft, LeftAtAll DEF Quiet
  <2>3. u \in gate /\ sockets_[u] = conns[c].ws
    BY <2>1, <2>2 DEF Entered
  <2> QED
    BY <2>3, OpenIsSocket DEF Linked
<1> QED
  BY <1>1, Inductive, PTL

\* Whoever has no socket is in neither table once his tasks are done.
THEOREM GoneIsForgottenCorrect == Spec => []GoneIsForgotten
<1>1. IndInv => GoneIsForgotten
  <2> SUFFICES ASSUME Typed, Linked, stray \/ Explained,
                      NEW u \in Users, Quiet(u), ~Disturbed(u),
                      \A c \in DOMAIN conns : conns[c].user = u => ~conns[c].open
               PROVE  sockets_[u] = NoAddress /\ (u \in gate => crashed)
    BY DEF IndInv, GoneIsForgotten
  <2>1. EntryHeld /\ GateHeld /\ u \notin late \cup failed
    BY DEF Disturbed, Explained
  <2>2. \A c \in DOMAIN conns : conns[c].user = u => ~CloseLeft(c) /\ ~HDelLeft(c)
    BY BusyIsLeft, LeftAtAll DEF Quiet
  <2> QED
    BY <2>1, <2>2 DEF EntryHeld, GateHeld
<1> QED
  BY <1>1, Inductive, PTL

\* The table outlives a socket only until its CloseHandle, and what is sent to
\* a stranger's socket was meant for a closed one at the same address.
THEOREM StaleSocketExplainedCorrect == Spec => []StaleSocketExplained
<1>1. IndInv => StaleSocketExplained
  <2> SUFFICES ASSUME Typed, HolderOK, stray \/ Explained PROVE StaleSocketExplained
    BY DEF IndInv, Linked
  <2>1. ASSUME NEW u \in Users, sockets_[u] # NoAddress, ~IsSocketOf(u, sockets_[u]),
               u \notin late \cup failed, ~stray
        PROVE  \E c \in DOMAIN conns : WasSocketOf(c, u, sockets_[u]) /\ Busy(c)
    <3>1. PICK c \in DOMAIN conns :
            conns[c].user = u /\ conns[c].ws = sockets_[u] /\ (conns[c].open \/ CloseLeft(c))
      BY <2>1 DEF Explained, EntryHeld
    <3>2. ~conns[c].open
      BY <2>1, <3>1, OpenIsSocket
    <3>3. Busy(c)
      BY <3>1, <3>2, BusyIsLeft, LeftAtAll
    <3> QED
      BY <3>1, <3>2, <3>3 DEF WasSocketOf
  <2>2. ASSUME NEW x \in InHand, ~stray, ~IsSocketOf(x.user, x.ws)
        PROVE  \E c \in DOMAIN conns : WasSocketOf(c, x.user, x.ws)
    <3>1. PICK c \in DOMAIN conns : conns[c].user = x.user /\ conns[c].ws = x.ws
      BY <2>2 DEF Explained, Rightful, HadSocket
    <3>2. ~conns[c].open
      BY <2>2, <3>1, OpenIsSocket
    <3> QED
      BY <3>1, <3>2 DEF WasSocketOf
  <2> QED
    BY <2>1, <2>2 DEF StaleSocketExplained
<1> QED
  BY <1>1, Inductive, PTL

\* UpgradeHandle lets nobody in with a token whose login task is done.
THEOREM SpentTokenRefusedCorrect == Spec => SpentTokenRefused
<1>1. ASSUME IndInv, [Next]_vars
      PROVE  Len(conns') > Len(conns) =>
               \A c \in DOMAIN conns :
                 conns[c].token = conns'[Len(conns')].token =>
                   LoginPending(c) \/ stray \/ crashed \/ conns[c].user \in failed
  <2> SUFFICES ASSUME Len(conns') > Len(conns), NEW c \in DOMAIN conns, ~stray,
                      conns[c].token = conns'[Len(conns')].token
               PROVE  LoginPending(c) \/ crashed \/ conns[c].user \in failed
    OBVIOUS
  <2>t. Typed /\ TokensOwned /\ TokenSpent
    BY <1>1 DEF IndInv, Linked, Explained
  <2>1. PICK u \in Users, t \in 0..Len(issued), a \in Addresses : Upgrade(u, t, a)
    BY <1>1, <2>t, ConnsKept, ConnTypes
  <2>2. conns[c].token = token[u] /\ token[u] # 0
    <3>1. /\ Len(conns') = Len(conns) + 1 /\ conns'[Len(conns) + 1].token = t
          /\ t # 0 /\ t = token[u]
      BY <2>t, <2>1, UpgradeTypes
    <3> QED
      BY <3>1
  <2>3. conns[c].user = u
    BY <2>t, <2>2 DEF TokensOwned
  <2>4. TokenLeft(c) \/ crashed \/ conns[c].user \in failed
    BY <2>t, <2>2, <2>3 DEF TokenSpent
  <2> QED
    BY <2>t, <2>4, BusyIsLeft
<1> QED
  BY <1>1, Inductive, PTL DEF Spec, SpentTokenRefused
=============================================================================
