# A verification project for CPP-IM

CPP-IM is an instant-messaging back end: a WebSocket gate, a logic server that
publishes requests to Kafka, two consumers that store them and push them to the
recipients, and helper services for login, routing and e-mail codes. This
directory holds TLA+ models of its core, TLC configurations that check them on
small instances and TLAPS proofs of the main results for all instances.

## The system

```
client --ws--> msg_gate --Handle--> msg_logic --Kafka topic ychat--+--> transfer/mysql
   ^               ^                                                +--> transfer/cassandra
   +------ws-------+<------Push------- push <--------Push---------------------+
login (HTTP), route and varify (e-mail codes) stand beside this pipeline.
```

| Component | State | Operations | What is hard | What makes it correct |
|---|---|---|---|---|
| msg_logic, calls | call contexts, completion queue, pool, `rpc_contexts_`, librdkafka's queue | `Run`, `Handle`, `Produce`, `dr_cb` | contexts pass between the loop, the workers and a callback on any worker; reports are served only inside `Produce` | each call answered once and truthfully; no context used after its delete, none leaked; calls are answered |
| msg_logic, friends | MySQL `friend`, `friend_action_log` | request, delete, accept, reject | check-then-act over several statements; the publication may fail afterwards | no request to a friend, bounded duplicates, a published request is applied |
| transfer, consumer | position, committed offset, pool | `Run`, `Consume` | offsets are committed before the messages are handled | nothing is lost but by a fault |
| transfer/cassandra | Redis seqs, `messages`, `user_inbox`, statements and pushes in flight | `CassandraHandle`, writes, `AsyncPush`, `OnPushSuccess` | asynchronous writes, fan-out, redelivery | a seq names one message; bounded copies; delivery |
| transfer/mysql | `messages`, `user_box`, `group_box` | `MySQLHandle` | two statements, unique keys, redelivery | boxes name stored messages; missing rows are explained |
| msg_gate | Redis gate fields and tokens, uid to socket table, sockets, tasks, calls in flight | upgrade, open, message, close, `Push`, answers | tasks run in any order and capture the loop's variables by reference; sockets close under them | a connected user is reached, a gone one is forgotten, a token admits nobody once its login is recorded |
| push | gate stubs, contexts | `Push`, completions | the stub table is unlocked between look-up and insertion | every push answered once and truthfully; stubs settle |
| varify | Redis codes, SMTP and Redis pools | `GetVarifyCode`, `Send` | connections lost in failures, two codes for one address | the mailed code works; no connection is lost but by a failed call |
| login | accounts, gRPC client pool | code request, register, login | count-then-insert, a deadline against a starving varify | an owner had the code of his address; the result told is true |
| route | server and uid tables | heartbeat, dispatch, look-up | two locks, iterator of a new server | whoever is listed at a server is routed to it |
| thread and connection pools | queues | enqueue, acquire, release | blocking, exceptions that end in a future nobody reads | no lost task, no lost connection |

The hazards found while reading the code are listed, with their lines, in
`PROJECT.json` ("hazards"); each names the properties that cover it, or why none
does.

## Modules

**`PublishService`** is the abstract promise of msg_logic to a gate: a call is
answered at most once; "accepted" is only said of a message that is in the topic
(or of a login), "rejected" only of one that is not in it and never will be.

**`LogicServer`** models msg_logic's threads. A `Contexts` element is an
`RpcContext` object, and also stands for the msgid in its response: msgids are
milliseconds, uid and eight random characters, and are taken to be unique.
`RunAccept`, `RunDelete` and `RunAbort` are the branches of the `Run` loop.
`Dequeue`, `HandleLogin/Reject/Accept/Erase/Failed` and `ProduceOk/ProduceFail`
are `Handle` and `Produce`, cut at each lock, library call and hand-over to
another thread. `Poll`, `DrFind`, `DrFinish` and `ServeDone` are `poll(0)` with
the delivery callback, which runs on whichever worker polls. The broker
(`BrokerStore/Ack/Fail`) is external and pessimistic: it may store a message
whose report says failure. A message counts against the queue's limit until its
callback has returned. `CallDies` is a gate that vanishes before its answer.

**`FriendCtrl`** models `FriendCtrlHandle`: one action per SQL statement or
transaction, for each worker. `friend` is a set of pairs and `friend_action_log`
a sequence of rows in id order. `DbError` is a Poco exception. Whether a
published request reaches Kafka is nondeterministic here (`LogicServer` models
why). Notes on friends are left out; nothing in the code inserts into `friend`.

**`KafkaConsumer`** is `transfer::Consumer`: the loop, the pool's queue,
librdkafka's automatic commit (the default, which the code does not change) and
restarts. One partition; no rebalancing; the group has a committed offset, so
`auto.offset.reset` plays no part. `stop_` is a plain `bool` that a worker sets
and the loop reads without a lock, so the loop may consume after it was set and
before it closes. Its actions are parts that the two consumers extend.

**`CassandraTransfer`** extends it with `CassandraHandle`: a worker's steps are
`HandleMessage`, `SelectMembers` (the group's members, or `SelectFails`),
`FanOut` (one task per member, queued one at a time in any order), `Incr` (Redis
HINCRBY), `WriteInbox` and `AsyncPush`. Cassandra statements are in flight in
`msgwrites` and `boxwrites` until they complete or fail; at a crash any subset
of them may never have been sent. `OnPushSuccess` changes nothing, because its
DELETE names a column the table does not have; its task also reads a context
that may be freed, which cannot change the tables either.

**`MySQLTransfer`** extends it with `MySQLHandle`: `InsertMessage`, then
`InsertBox`, under the keys of `script/mysql.sql` (`InsertAllowed`). A slot is a
value of the unique key (from_uid, to_uid, sendtime).

**`PushService`** is the promise of push to the transfers: each push is answered
at most once, and OK only if a gate has sent it to a socket. A failure promises
nothing: the gate may have sent the push, or send it later.

**`PushServer`** models push. A context goes from `Call` through the loop
(`RunAccept`), the pool (`Dequeue`), the Redis look-up (`HGetOnline`,
`HGetOffline`, `HGetThrows`) and `GateClient::Push` to a gate and back through
`AsyncRpcComplete` (`Complete`). `Find`, `Create`, `Insert`, `Load` and
`Prepare` are the places where the stub table's lock is taken, released or
missing: two workers can both miss a gate and the second destroys the stub of
the first, which a third may be using (`PrepareCrashes`). A Redis exception ends
in the future of the task, and its call is then never answered (stage `lost`).
The gates appear by their task (`GateSends`, `GateReplies`): it sends the push
or not, and never asks whether the call is still alive, so after a broken
channel (`unavailable`) the push may be sent when the transfer was already told
that it failed. `TypeOK` also says what a worker holds at each statement, so
that no call is made through `end()`.

**`GateSessions`** models msg_gate, with the tokens that route stores. The
callbacks of the uWS loop (`Upgrade`, which opens the socket in the same
callback, `Message` and `Close`) are one step each; they queue tasks, which the
workers run statement by statement (`HSet`, `Del`, `OpenUid`, `AddWS`, `HDel`,
`DelWS`, ...). The tasks capture local variables of the callback by reference,
so what they read is a choice (`SeenUids`, `SeenSockets`) among the values that
memory may hold by then, a uid that is nobody's (a key no code reads) included.
An address is a `WebSocket` pointer, which a later socket may reuse.
`RedisFails` cuts a task short, `Crash` restarts the gate with Redis as it was.
Variables in `ghosts` only record why a session went wrong: two sockets of a
user at once, a login or open task overtaken by its close, a task that acted on
another's socket or uid (`stray`), a failed task, a crash.

**`Varify`** is `GetVarifyCode`, each call a thread, over the code store and the
two connection pools. Connections of a pool are interchangeable, so a pool is
the number it holds. **`Account`** extends it with the two handlers of login
that use it: the code request with its three-second deadline, and the
registration, whose check of the code, count and insert are separate steps.

**`Route`** is route's server table: the flag, split by `Split`, and heartbeats,
whose two critical sections are two steps. The `observed` location of a
heartbeat is never assigned, so all of them name one server, `Nameless`. The
first of them dereferences `end()`: `BeatNew` with a user ends the process.

The `MC` modules give the constants; definitions named `X_Something` are
mutations of `X` that show that a property can fail.

The modules named `...Proofs` hold the theorems about the module of that name.

## Runs

| Run | Bounds | Shows |
|---|---|---|
| `LogicSafety` | 3 calls, 2 workers, queue of 2, any call may die | types; `FinishOnce`, `NoUseAfterDelete`, `ReportFindsContext`, `NoContextForgotten`; the refinement of `PublishService`; `WedgedForever` |
| `LogicLive` | 2 calls, 2 workers | a call is answered or its report waits for a poll; a poll answers what it finds |
| `LogicSilence` (violation) | 2 calls, 1 worker | the last call is never answered |
| `FriendSafety` | 2 users, 2 workers, 4 requests | no request to a friend, at most one duplicate per worker, published is applied |
| `FriendAuth` (violation) | 2 users, 1 worker, 2 requests | the decision on a pending request is refused |
| `InboxSafety` | a group of 2 and a message to a member, 2 workers, 1 fault (consumer, MySQL or push); 474 615 states | every message reaches its inboxes when nothing fails |
| `InboxRestart` | 3 records, 2 workers, 1 crash or fault of Redis or Cassandra; 1 057 047 states | a seq names one message and copies are bounded across redelivery |
| `BoxSafety` | 5 records, 2 workers, 2 faults; 96 800 states | boxes are consistent, gaps are explained, everything is written without faults |
| `PushSafety` | 3 pushes, 2 workers, 1 gate, one call may die; 161 510 states | the refinement of `PushService`; a worker makes one stub per gate; a settled stub stays; pushes are answered |
| `GateSafety` | 2 users, 2 connections, 2 addresses, 2 tokens, 2 workers, 1 push or message, 1 fault; 1 046 082 states | who is reachable, who is forgotten, which sockets are stale, when a token is spent |
| `AccountSafety` | 2 code requests and 2 registrations of one address, pools of 1; 562 676 states | codes, pools, the race of two registrations, and that code requests are answered |
| `RouteSafety` | every flag of up to 4 characters (of 3), 2 users, 2 heartbeats; 50 939 states | `Split` against a reference; whoever is listed is routed |

Why the bounds are enough. The races are between two workers and a callback, so
two workers meet them; three calls are needed for one to find the queue (of two)
full of the others' reports. The three request kinds used cover every way
through `Handle`: the model distinguishes kinds only by membership in
`Publishable`, `Refusable` and login. In the consumers two messages to one user
meet every race for a seq or a key, and one crash shows redelivery. Three pushes
let two race for a gate's stub while a third uses it. Two connections make a
reconnect, and with two users the reuse of an address by somebody else. A pool
of one is emptied by one failure. Four characters put a delimiter at both ends,
twice in a row and alone. All calls or requests of a run are used up in the end,
so deadlock is not checked. Symmetry (of contexts, users, workers and addresses,
which every property treats alike) is used only with invariants and action
properties, never for liveness. `GateSafety` stops at states where a task has
acted on another's socket or uid (`Sound`): every property but the types excuses
them, and what follows from such a state is arbitrary.

Fairness. `LogicLive` assumes that threads run (the loop blocks only in `Next`,
workers only on an empty queue) and that librdkafka reports on each message
(`message.timeout.ms` is 3000), and nothing of the gates: the code has no timer
that would make them call again, which is what `LogicSilence` shows. The
consumers assume that the loop and the workers run and that Cassandra and the
push server answer. `PushSafety` assumes that the threads run and that every
forwarded call gets a status, which gRPC gives it at the latest when the channel
breaks. `AccountSafety` assumes that the threads of login and varify run and
that a call ends by its answer or its deadline; it assumes nothing of the pools,
and indeed varify may wait for ever. A restart is never assumed.

## Proofs

The theorems hold for every value of the constants that satisfies the named
assumptions of the modules (`ConstantsAssumption`, `PushAssumption`, ...):
distinct "none" values, finite sets where cardinalities matter, a topic that is
a sequence of records. Each is the theorem of a property that a run checks.

`LogicServerProofs` proves, for any number of calls and workers, any queue
length and any set of calls that may die (`ConstantsAssumption`):

- `TypeCorrect`, `FinishedOnce`, `NeverUsedAfterDelete`, `ReportsFindContexts`
  and `NothingForgotten`: the safety invariants of `LogicSafety`;
- `Refinement`: `LogicServer` implements `PublishService`;
- `FullQueueStaysFull`: once the producer queue is full of reports nobody is
  about to poll, it stays so.

None of the invariants is inductive. They follow from one that is, `IndInv`: a
function `st` gives each context the one place that owns it (fresh, armed,
queued in the pool, at a worker, with librdkafka, in a poll's batch, in the
callback, completed, deleted), and `Sites` says what the variables are for a
context in each place. Ownership is exclusive because a context has one stage;
each action moves at most one context (or one batch) to the next stage, so every
action has a short lemma, `...Step`, and `NextInv` puts them together. The
refinement needs `IndInv` too: that a refused message was never given to
librdkafka is what makes "rejected" true, and that a reported message without
error is in the topic is what makes "accepted" true. `FullQueueStaysFull` uses
only cardinality: reports are only added while nobody polls.

`MySQLTransferProofs` (types, `BoxConsistent`, `UnboxedExplained`): the missing
piece is that a worker between the two inserts has its message stored; with it
the invariants are inductive, because no action deletes a row.

`FriendCtrlProofs` (types, `NoRequestToFriendCorrect`, `PublishedIsAppliedCorrect`,
`DuplicatesBoundedCorrect`): a worker past its friendship check still deals with
strangers, because nothing in the code inserts into `friend`; and the pending
rows of a pair are counted together with the workers about to insert one, of
which each pair has at most as many as there are workers, since a worker finds
no pending row when it starts.

`PushServerProofs` (types, `OneStubPerWorkerCorrect`, `SettledForeverCorrect`,
`ImplementsPushCorrect`): a context is in exactly one place, the loop's queue,
the pool's, a worker, a gate's call or the answered ones, so it is answered by
one thread, with the status its gate or channel gave. In the refinement `Call`
is the abstract call, `GateSends` the reach, `HGetOffline` and `Complete` the
answers, and all other steps stutter. A worker that has made a stub for a gate
finds that gate in the table ever after, which bounds the stubs it makes.

`AccountProofs` (types, `PoolsAccountedCorrect`, `MailedCodeWorksCorrect`,
`OwnerHadCodeCorrect`, `ToldTheTruthCorrect`): the bounds of the pools follow only
together with their accounts. A code works because whoever replaces it is a call
that had found none while its maker had not returned (`Overtaken`); a registration
past its check holds a code that was mailed, whatever Redis holds later.

`CassandraTransferProofs` (types, `SeqNamesOneMessageCorrect`,
`CopiesBoundedCorrect`): no seq above a user's counter has been given to a worker,
a pending write or a row, so the next HINCRBY gives a new one; redelivery takes
new seqs, and crashes only remove holders. The copies need more. A message can be
on its way to a user from three places: the topic beyond the position, the pool's
queue and the workers (as a group to fan out or as a task for a member).
`OnceInv` says that together they hold it at most once for a user. While one of
them does, another copy is to come, and `CopyInv` bounds the rows, stored or in
flight, with that one by one more than the faults: only a crash puts a message
back, and it removes the queue and the workers in the same step. Offsets that are committed are never
above the position and equal to it once the consumer has closed (`Committed`),
which is what makes a stop without a crash deliver nothing again. The bound of
the seqs, part of the types, counts in the same way: the seqs a user has been
given and the messages that have not asked for one yet are at most the messages
of the topic for each delivery (`CountInv`).

`GateSessionsProofs` (types, `ConnectedIsReachableCorrect`,
`GoneIsForgottenCorrect`, `StaleSocketExplainedCorrect`, `SpentTokenRefusedCorrect`):
the invariant `IndInv` has four parts. `Typed` says what a worker's local
variables are good for at the place where it is. `CallsBounded` counts a call to
msg_logic with the message tasks and workers it comes from. `Linked` holds in
every run: an address is known by its last connection and an open connection is
the last at its address, a close task has a closed connection, a token belongs to
one user, and of a user whose sockets never overlapped all connections but the
last are closed and have no task left. `Explained` says what the two session
tables hold, for each connection by the tasks that are left of it: an entry of the
socket table has a connection that is open or whose close task will clear it
(`EntryHeld`), a gate field likewise (`GateHeld`), an open connection without its
open and login tasks is in both (`Entered`), and a token whose login task is done
is no longer stored (`TokenSpent`). It holds only as long as no task has acted on
another's socket or uid, so it stands as `stray \/ Explained`: after such a step
the code gives no promise, and the properties excuse it too. The rest of what the
properties excuse (an overlap, an overtaken task, a failure, a crash) is part of
the conjuncts of `Explained` one by one, which shows which of them each table
depends on.

`RouteProofs` (types, `ListedIsRoutedCorrect`, `SplitRightCorrect`): once a
heartbeat has routed a user to the nameless server nothing routes him elsewhere,
whoever takes the second lock first. `SplitRight` is about what a recursive
function computes, and is proved by induction on the length of the flag. The
induction theorems of the library take an operator, which the provers cannot
instantiate; `InductionOnSet` states induction for a set of naturals instead and
follows from the well-foundedness of `<`. It gives the existence of the functions
that the loop of `Split` and `Join` define (`Unfolds`, `JoinUnfolds`), and then
that every turn of the loop finds one field and leaves the fields of a shorter
rest (`FirstField`, `StepGood`). The types of route need it too: the servers are
the fields that `Split` returns.

Only model-checked: the liveness properties (`AnsweredOrReported`,
`PollAnswers`, `DeliveredWithoutFault`, `WrittenWithoutFault`, `PushAnswered`,
`CodeRequestAnswered`), because temporal proofs under fairness are outside what
the prover does. Every invariant, action property and refinement that a passing
run checks is a theorem.

## Findings

The two violation runs are disagreements between the code and what its comments
and its tests say; `PROJECT.json` ("findings") quotes both sides. The models
show other behaviour worth knowing, which their actions state and their
properties allow for:

- an assertion on `ok` aborts msg_logic, push and msg_gate when a caller dies
  before its answer (`RunAbort`, `Crash`);
- offsets are committed before messages are handled, so a crash loses them;
- the DELETE after a confirmed push names a column that `user_inbox` lacks;
- two messages of one pair in one millisecond share a key of `user_box`, and the
  second is in no box;
- the first heartbeat of a server with users dereferences `end()`;
- a Redis exception in push leaves the transfer's call, which has no deadline,
  unanswered;
- a failed mail or Redis call takes its connection with it, and varify then waits
  for a pool that nothing fills;
- a reconnect before the old socket has closed leaves the user unreachable.

## Not modelled

- Generated protobuf and gRPC code, more than four fifths of the C++ lines: it
  has no logic of this system.
- The MongoDB consumer, a stub; configuration, logging and HTTP routing.
- The comparison of passwords and the JWTs, which keep no state; `TokenVerifier`,
  which is constructed and never asked; route's `Login`, which always says OK.
- Shutdown and destructors of servers and pools, which run only at exit.
- Kafka partitions and rebalancing: the code sets a callback that accepts every
  assignment, and nothing it keeps depends on the partition.
- The text of messages, notes on friends, and pull requests, which msg_logic
  refuses.

## Plan

1. Done: msg_logic, friend control, the consumers, push, the gate's sessions,
varify with login's handlers, and route, each with its runs and its proofs. 2.
The safety halves of the liveness properties: what a step on the way to an
answer may never undo. 3. `Pipeline`: `PublishService`, an abstract consumer and
`PushService` together:    what a gate's "accepted" means for the recipient. 4.
The thread pool's shutdown against tasks that enqueue tasks.
