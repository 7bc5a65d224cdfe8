---------------------------- MODULE GateSessions ----------------------------
(***************************************************************************)
(* msg_gate's sessions: how a user logs in with the token route has given   *)
(* out, how his socket enters and leaves the table sockets_ and the gate    *)
(* field in Redis, and what the gate sends to which socket.                 *)
(*                                                                          *)
(* The uWS loop is one thread.  It checks the token itself; everything else *)
(* its callbacks do is a task of the pool.  The tasks' lambdas capture by   *)
(* reference what lives in the callback's frame, so a worker that runs late *)
(* reads what the loop's later callbacks have put there: the argument of    *)
(* its own callback or that of any other, or bytes that are no user's uid   *)
(* (a key that nobody reads) or no socket's address (which ends the         *)
(* process, see Crash).  uWS frees a socket after its close callback, and a *)
(* new socket may get the same address; the freed object keeps its bytes    *)
(* until then.                                                              *)
(*                                                                          *)
(* Connections are numbered in the order of their upgrade; addresses are    *)
(* what the code sees.  A callback is one step: of the shared state it      *)
(* touches only Redis, once, and the queue.                                 *)
(***************************************************************************)
EXTENDS Integers, Sequences, FiniteSets

CONSTANTS Users, Workers,
          Addresses,    \* where the allocator places sockets
          MaxTokens,    \* bound on the tokens given out
          MaxConns,     \* bound on the connections of a run
          MaxSends,     \* bound on the messages and pushes of a run
          MaxFaults,    \* bound on the faults and the errors of Redis
          NoUser, NoAddress

ASSUME GateAssumption ==
  /\ NoUser \notin Users /\ NoAddress \notin Addresses
  /\ MaxTokens \in Nat /\ MaxConns \in Nat /\ MaxSends \in Nat /\ MaxFaults \in Nat

VARIABLES
  issued,    \* the user each token was given to; tokens are 1..Len(issued)
  token,     \* Redis: the token of each user, 0 if there is none
  gate,      \* Redis: the users whose gate field names this gate
  conns,     \* each connection: its user, token, address, and whether it is open
  holder,    \* the connection that is, or was last, at each address (0: none)
  uid,       \* the uid in the UserData at each address
  sockets_,  \* UserManager's table
  tasks_,    \* the pool's queue
  at,        \* each worker: its next statement and the variables of its task
  calls,     \* calls to msg_logic in flight, as the uids of their contexts
  reply,     \* the completion thread: the uid and socket it is about to answer
  sends,     \* messages and pushes so far
  faults,    \* faults of the gate and errors of Redis so far
  \* What explains an inconsistency, recorded for the properties only:
  overlap,   \* users who opened a socket before an older one was cleared away
  late,      \* users whose login or open task ran when the socket had closed
  stray,     \* a task acted on a socket or a uid that is not its own
  failed,    \* users for whom a task ended in an error of Redis
  crashed    \* the gate has crashed

redisvars == <<token, gate>>
loopvars == <<conns, holder>>
sendvars == <<calls, reply, sends>>
ghosts == <<overlap, late, stray, failed, crashed>>
vars == <<issued, redisvars, loopvars, uid, sockets_, tasks_, at, sendvars, faults, ghosts>>

Kinds == {"login", "open", "message", "close"}
Idle == [place |-> "idle", own |-> 0, ws |-> NoAddress, user |-> NoUser]

TypeOK ==
  /\ issued \in Seq(Users) /\ Len(issued) <= MaxTokens
  /\ token \in [Users -> 0..MaxTokens]
  /\ gate \subseteq Users
  /\ conns \in Seq([user : Users, token : 1..MaxTokens, ws : Addresses, open : BOOLEAN])
  /\ holder \in [Addresses -> 0..MaxConns]
  /\ uid \in [Addresses -> Users \cup {NoUser}]
  /\ sockets_ \in [Users -> Addresses \cup {NoAddress}]
  /\ tasks_ \in Seq([kind : Kinds, own : 1..MaxConns] \cup [kind : {"push"}, user : Users])
  /\ at \in [Workers -> [place : {"idle", "hset", "del", "uid", "add", "message", "hdel",
                                  "erase", "get", "send"},
                         own : 0..MaxConns, ws : Addresses \cup {NoAddress},
                         user : Users \cup {NoUser}]]
  /\ calls \in [Users -> 0..MaxSends]
  /\ reply \in [user : Users \cup {NoUser}, ws : Addresses \cup {NoAddress}]
  /\ sends \in 0..MaxSends /\ faults \in 0..MaxFaults
  /\ overlap \subseteq Users /\ late \subseteq Users
  /\ failed \subseteq Users /\ crashed \in BOOLEAN
  /\ stray \in BOOLEAN

Init ==
  /\ issued = <<>>
  /\ token = [u \in Users |-> 0] /\ gate = {}
  /\ conns = <<>> /\ holder = [a \in Addresses |-> 0]
  /\ uid = [a \in Addresses |-> NoUser]
  /\ sockets_ = [u \in Users |-> NoAddress]
  /\ tasks_ = <<>> /\ at = [w \in Workers |-> Idle]
  /\ calls = [u \in Users |-> 0] /\ reply = [user |-> NoUser, ws |-> NoAddress]
  /\ sends = 0 /\ faults = 0
  /\ overlap = {} /\ late = {} /\ stray = FALSE
  /\ failed = {} /\ crashed = FALSE

-----------------------------------------------------------------------------
Queued(t) == \E i \in DOMAIN tasks_ : tasks_[i] = t

\* A task of connection c waits or runs.
Busy(c) ==
  \/ \E i \in DOMAIN tasks_ : tasks_[i].kind \in Kinds /\ tasks_[i].own = c
  \/ \E w \in Workers : at[w].own = c

\* Connection c is closed and its CloseHandle has begun.
Cleared(c) == ~conns[c].open /\ ~Queued([kind |-> "close", own |-> c])

LoginPending(c) ==
  \/ Queued([kind |-> "login", own |-> c])
  \/ \E w \in Workers : at[w].own = c /\ at[w].place \in {"hset", "del"}

(***************************************************************************)
(* Tokens: a login at the HTTP server makes route store one for the user.   *)
(***************************************************************************)

Dispatch(u) ==
  /\ Len(issued) < MaxTokens
  /\ issued' = Append(issued, u)
  /\ token' = [token EXCEPT ![u] = Len(issued) + 1]
  /\ UNCHANGED <<gate, loopvars, uid, sockets_, tasks_, at, sendvars, faults, ghosts>>

\* The 60 seconds of setex are over.
Expire(u) ==
  /\ token[u] # 0
  /\ token' = [token EXCEPT ![u] = 0]
  /\ UNCHANGED <<issued, gate, loopvars, uid, sockets_, tasks_, at, sendvars, faults, ghosts>>

-----------------------------------------------------------------------------
(***************************************************************************)
(* The callbacks, on the uWS loop.                                          *)
(***************************************************************************)

Free(a) == ~(holder[a] # 0 /\ conns[holder[a]].open)

Accepts_EmptyToken(u, t) == t = token[u]

\* The checks of UpgradeHandle: a token, and the one Redis has for the uid.
Accepts(u, t) == t # 0 /\ t = token[u]

UpgradeTasks_OpenOnly(c) == <<[kind |-> "open", own |-> c]>>

\* UpgradeHandle queues the login task, and the upgrade runs the open callback.
UpgradeTasks(c) == <<[kind |-> "login", own |-> c], [kind |-> "open", own |-> c]>>

\* UpgradeHandle with the right token.  Any other leaves no trace: the request
\* is closed.
Upgrade(u, t, a) ==
  /\ Len(conns) < MaxConns /\ Free(a)
  /\ Accepts(u, t)
  /\ LET c == Len(conns) + 1 IN
       /\ conns' = Append(conns, [user |-> u, token |-> t, ws |-> a, open |-> TRUE])
       /\ holder' = [holder EXCEPT ![a] = c]
       /\ uid' = [uid EXCEPT ![a] = u]
       /\ tasks_' = tasks_ \o UpgradeTasks(c)
  /\ overlap' = IF \E c \in DOMAIN conns : conns[c].user = u /\ (conns[c].open \/ Busy(c))
                  THEN overlap \cup {u} ELSE overlap
  /\ UNCHANGED <<issued, redisvars, sockets_, at, sendvars, faults, late, stray, failed, crashed>>

\* A binary message arrives.
Message(c) ==
  /\ conns[c].open /\ sends < MaxSends
  /\ sends' = sends + 1
  /\ tasks_' = Append(tasks_, [kind |-> "message", own |-> c])
  /\ UNCHANGED <<issued, redisvars, conns, holder, uid, sockets_, at, calls, reply,
                 faults, ghosts>>

\* The socket closes, and its memory is free for the next one.
Close(c) ==
  /\ conns[c].open
  /\ conns' = [conns EXCEPT ![c].open = FALSE]
  /\ tasks_' = Append(tasks_, [kind |-> "close", own |-> c])
  /\ UNCHANGED <<issued, redisvars, holder, uid, sockets_, at, sendvars, faults,
                 ghosts>>

-----------------------------------------------------------------------------
(***************************************************************************)
(* The tasks, on the workers.                                               *)
(***************************************************************************)

Goto(w, place) == at' = [at EXCEPT ![w].place = place]
Return(w) == at' = [at EXCEPT ![w] = Idle]

\* What a worker finds in the captured variables of its task.
SeenUids(w) ==
  {conns[at[w].own].user, NoUser} \cup {issued[t] : t \in DOMAIN issued}
SeenSockets(t) ==
  IF t.kind = "login" THEN {NoAddress} ELSE {a \in Addresses : uid[a] # NoUser}

\* Worker w acts on the socket at its ws: is that its task's own socket?
IsStray(w) == holder[at[w].ws] # at[w].own

First == [login |-> "hset", open |-> "uid", message |-> "message", close |-> "hdel"]

Dequeue(w) ==
  /\ at[w] = Idle /\ tasks_ # <<>>
  /\ LET t == Head(tasks_) IN
       IF t.kind = "push"
         THEN at' = [at EXCEPT ![w] = [Idle EXCEPT !.place = "get", !.user = t.user]]
         ELSE \E a \in SeenSockets(t) :
                at' = [at EXCEPT ![w] = [Idle EXCEPT !.place = First[t.kind], !.own = t.own,
                                                     !.ws = a]]
  /\ tasks_' = Tail(tasks_)
  /\ UNCHANGED <<issued, redisvars, loopvars, uid, sockets_, sendvars, faults, ghosts>>

\* The login task records the gate of the user ...
HSet(w) ==
  /\ at[w].place = "hset"
  /\ \E u \in SeenUids(w) :
       /\ gate' = gate \cup ({u} \ {NoUser})
       /\ stray' = (stray \/ u # conns[at[w].own].user)
  /\ late' = IF Cleared(at[w].own) THEN late \cup {conns[at[w].own].user} ELSE late
  /\ Goto(w, "del")
  /\ UNCHANGED <<issued, token, loopvars, uid, sockets_, tasks_, sendvars, faults, overlap,
                 failed, crashed>>

Del_Kept(w) ==
  /\ at[w].place = "del"
  /\ Return(w)
  /\ UNCHANGED <<issued, redisvars, loopvars, uid, sockets_, tasks_, sendvars, faults, overlap,
                 late, stray, failed, crashed>>

\* ... and deletes the user's token, whichever it is by now.
Del(w) ==
  /\ at[w].place = "del"
  /\ \E u \in SeenUids(w) :
       /\ token' = [v \in Users |-> IF v = u THEN 0 ELSE token[v]]
       /\ stray' = (stray \/ u # conns[at[w].own].user)
  /\ Return(w)
  /\ UNCHANGED <<issued, gate, loopvars, uid, sockets_, tasks_, sendvars, faults, overlap,
                 late, failed, crashed>>

\* OpenHandle reads the uid of its socket ...
OpenUid(w) ==
  /\ at[w].place = "uid"
  /\ at' = [at EXCEPT ![w].user = uid[at[w].ws], ![w].place = "add"]
  /\ stray' = (stray \/ IsStray(w))
  /\ UNCHANGED <<issued, redisvars, loopvars, uid, sockets_, tasks_, sendvars, faults,
                 overlap, late, failed, crashed>>

\* ... and AddWS, under the lock, enters the socket and writes the uid back.
AddWS(w) ==
  /\ at[w].place = "add"
  /\ sockets_' = [sockets_ EXCEPT ![at[w].user] = at[w].ws]
  /\ uid' = [uid EXCEPT ![at[w].ws] = at[w].user]
  /\ stray' = (stray \/ IsStray(w))
  /\ late' = IF Cleared(at[w].own) THEN late \cup {at[w].user} ELSE late
  /\ Return(w)
  /\ UNCHANGED <<issued, redisvars, loopvars, tasks_, sendvars, faults, overlap, failed, crashed>>

\* MessageHandle: what is not forwarded has no effect but perhaps an error
\* response on the task's own socket ...
MessageDrop(w) ==
  /\ at[w].place = "message"
  /\ Return(w)
  /\ UNCHANGED <<issued, redisvars, loopvars, uid, sockets_, tasks_, sendvars, faults, ghosts>>

\* ... and SendToLogic keeps the uid for the answer.
MessageForward(w) ==
  /\ at[w].place = "message"
  /\ calls' = [calls EXCEPT ![uid[at[w].ws]] = @ + 1]
  /\ stray' = (stray \/ IsStray(w))
  /\ Return(w)
  /\ UNCHANGED <<issued, redisvars, loopvars, uid, sockets_, tasks_, reply, sends, faults,
                 overlap, late, failed, crashed>>

HDel_Returns(w) ==
  /\ at[w].place = "hdel"
  /\ gate' = gate \ {uid[at[w].ws]}
  /\ stray' = (stray \/ IsStray(w))
  /\ Return(w)
  /\ UNCHANGED <<issued, token, loopvars, uid, sockets_, tasks_, sendvars, faults, overlap,
                 late, failed, crashed>>

\* CloseHandle deletes the gate field of the socket's user ...
HDel(w) ==
  /\ at[w].place = "hdel"
  /\ gate' = gate \ {uid[at[w].ws]}
  /\ stray' = (stray \/ IsStray(w))
  /\ Goto(w, "erase")
  /\ UNCHANGED <<issued, token, loopvars, uid, sockets_, tasks_, sendvars, faults, overlap,
                 late, failed, crashed>>

\* ... and, reading the uid again, DelWS erases its entry, whichever socket it
\* names.
DelWS(w) ==
  /\ at[w].place = "erase"
  /\ sockets_' = [sockets_ EXCEPT ![uid[at[w].ws]] = NoAddress]
  /\ stray' = (stray \/ IsStray(w))
  /\ Return(w)
  /\ UNCHANGED <<issued, redisvars, loopvars, uid, tasks_, sendvars, faults, overlap, late,
                 failed, crashed>>

-----------------------------------------------------------------------------
(***************************************************************************)
(* Sending: pushes on a worker, msg_logic's answers on their own thread.    *)
(***************************************************************************)

\* GateServer::Run takes a Push call, which the push server makes to this gate
\* when it has read its name in Redis at some time.
Push(u) ==
  /\ sends < MaxSends
  /\ sends' = sends + 1
  /\ tasks_' = Append(tasks_, [kind |-> "push", user |-> u])
  /\ UNCHANGED <<issued, redisvars, loopvars, uid, sockets_, at, calls, reply, faults, ghosts>>

\* GetWS under the lock; without an entry the call is answered NOT_FOUND.
PushGet(w) ==
  /\ at[w].place = "get"
  /\ LET a == sockets_[at[w].user] IN
       IF a = NoAddress THEN Return(w)
       ELSE at' = [at EXCEPT ![w].ws = a, ![w].place = "send"]
  /\ UNCHANGED <<issued, redisvars, loopvars, uid, sockets_, tasks_, sendvars, faults, ghosts>>

\* ws->send, and OK to the push server.
PushSend(w) ==
  /\ at[w].place = "send"
  /\ Return(w)
  /\ UNCHANGED <<issued, redisvars, loopvars, uid, sockets_, tasks_, sendvars, faults, ghosts>>

\* AsyncRpcComplete takes a completed call and looks up its user ...
ReplyGet(u) ==
  /\ calls[u] > 0 /\ reply.user = NoUser
  /\ calls' = [calls EXCEPT ![u] = @ - 1]
  /\ reply' = IF sockets_[u] = NoAddress THEN reply ELSE [user |-> u, ws |-> sockets_[u]]
  /\ UNCHANGED <<issued, redisvars, loopvars, uid, sockets_, tasks_, at, sends, faults, ghosts>>

\* ... and sends the response.
ReplySend ==
  /\ reply.user # NoUser
  /\ reply' = [user |-> NoUser, ws |-> NoAddress]
  /\ UNCHANGED <<issued, redisvars, loopvars, uid, sockets_, tasks_, at, calls, sends, faults,
                 ghosts>>

\* An exception of Redis ends the task: what is left of it is not done.
RedisFails(w) ==
  /\ faults < MaxFaults
  /\ at[w].place \in {"hset", "del", "hdel"}
  /\ faults' = faults + 1
  /\ failed' = failed \cup {conns[at[w].own].user}
  /\ Return(w)
  /\ UNCHANGED <<issued, redisvars, loopvars, uid, sockets_, tasks_, sendvars, overlap, late,
                 stray, crashed>>

\* The gate dies (a failed GPR_ASSERT, a garbage pointer, a kill) and starts
\* again: its sockets, table and tasks are gone, Redis is as it was.
Crash ==
  /\ faults < MaxFaults
  /\ faults' = faults + 1
  /\ crashed' = TRUE
  /\ conns' = [c \in DOMAIN conns |-> [conns[c] EXCEPT !.open = FALSE]]
  /\ holder' = [a \in Addresses |-> 0]
  /\ uid' = [a \in Addresses |-> NoUser]
  /\ sockets_' = [u \in Users |-> NoAddress]
  /\ tasks_' = <<>> /\ at' = [w \in Workers |-> Idle]
  /\ calls' = [u \in Users |-> 0] /\ reply' = [user |-> NoUser, ws |-> NoAddress]
  /\ UNCHANGED <<issued, redisvars, sends, overlap, late, stray, failed>>

Work(w) ==
  \/ Dequeue(w) \/ HSet(w) \/ Del(w) \/ OpenUid(w) \/ AddWS(w)
  \/ MessageDrop(w) \/ MessageForward(w) \/ HDel(w) \/ DelWS(w) \/ PushGet(w) \/ PushSend(w)
  \/ RedisFails(w)

Next ==
  \/ \E u \in Users :
       \/ Dispatch(u) \/ Expire(u) \/ Push(u) \/ ReplyGet(u)
       \/ \E t \in 0..Len(issued), a \in Addresses : Upgrade(u, t, a)   \* 0: empty
  \/ \E c \in DOMAIN conns : Message(c) \/ Close(c)
  \/ \E w \in Workers : Work(w)
  \/ ReplySend \/ Crash

Spec == Init /\ [][Next]_vars

-----------------------------------------------------------------------------
Quiet(u) == \A c \in DOMAIN conns : conns[c].user = u => ~Busy(c)

\* The ways a session of u can go wrong.
Disturbed(u) == u \in overlap \cup late \cup failed \/ stray

\* u's open socket is the one at address a.
IsSocketOf(u, a) ==
  /\ a \in Addresses /\ holder[a] # 0
  /\ conns[holder[a]].open /\ conns[holder[a]].user = u

\* A user with an open socket can be reached once the tasks are done: he is in
\* the table and Redis sends pushes here.  The tasks of login, open and close
\* run in any order on any worker and name users and not sockets; still it
\* takes a reconnect before the old socket is cleared away, a login or open task
\* overtaken by the close, a task cut short by Redis, or one that acts on
\* another's socket or uid to lose a user, and a crash is not enough.
ConnectedIsReachable ==
  \A u \in Users :
    Quiet(u) /\ ~Disturbed(u) /\ (\E c \in DOMAIN conns : conns[c].user = u /\ conns[c].open)
      => u \in gate /\ IsSocketOf(u, sockets_[u])

\* A user without a socket is not offered pushes, under the same conditions
\* (after a crash Redis may still name the gate, but the table does not).
GoneIsForgotten ==
  \A u \in Users :
    Quiet(u) /\ ~Disturbed(u) /\ (\A c \in DOMAIN conns : conns[c].user = u => ~conns[c].open)
      => sockets_[u] = NoAddress /\ (u \in gate => crashed)

\* c was a socket of u at address a.
WasSocketOf(c, u, a) == conns[c].user = u /\ conns[c].ws = a /\ ~conns[c].open

\* The sends in hand: of pushes on the workers and of msg_logic's answer.
InHand ==
  {[user |-> at[w].user, ws |-> at[w].ws] : w \in {v \in Workers : at[v].place = "send"}}
    \cup {x \in {reply} : x.user # NoUser}

\* A socket is freed while the table or a send in hand still names it, and its
\* address may pass to another user.  An entry outlives its socket only while
\* that socket's CloseHandle is to come (or came first, or was cut short); and
\* what is about to be sent to somebody else's socket was meant for a closed
\* one of the right user.
StaleSocketExplained ==
  /\ \A u \in Users :
       sockets_[u] # NoAddress /\ ~IsSocketOf(u, sockets_[u]) =>
         \/ \E c \in DOMAIN conns : WasSocketOf(c, u, sockets_[u]) /\ Busy(c)
         \/ u \in late \cup failed \/ stray
  /\ \A x \in InHand :
       IsSocketOf(x.user, x.ws) \/ stray \/ \E c \in DOMAIN conns : WasSocketOf(c, x.user, x.ws)

\* A token admits no socket after the login task of one it has admitted is done
\* (until then it admits any number), unless that task deleted another's token
\* or was cut short.
SpentTokenRefused ==
  [][Len(conns') > Len(conns) =>
       \A c \in DOMAIN conns :
         conns[c].token = conns'[Len(conns')].token =>
           LoginPending(c) \/ stray \/ crashed \/ conns[c].user \in failed]_vars
=============================================================================
