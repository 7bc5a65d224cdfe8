------------------------------- MODULE Varify -------------------------------
(***************************************************************************)
(* varify: GetVarifyCode looks for a code in Redis, or makes one, mails it  *)
(* and stores it for 180 seconds.  Each call runs on a thread of the gRPC   *)
(* server; the threads share two connection pools, of Redis clients and of  *)
(* SMTP sessions.  A connection that is not given back is lost for good: no *)
(* code makes another one.                                                  *)
(*                                                                          *)
(* A code is named by the call that made it: the six random digits of two   *)
(* calls are taken to differ.  Connections of a pool are interchangeable,   *)
(* so a pool is the number it holds.  if_send is true in every call: login, *)
(* the only caller, passes nothing else.                                    *)
(***************************************************************************)
EXTENDS Integers, FiniteSets

CONSTANTS Calls,        \* calls of GetVarifyCode
          Emails,
          MaxSessions,  \* SMTP sessions (max_smtp_seesions)
          MaxClients,   \* Redis clients (max_redis_clients)
          NoEmail, NoCode

ASSUME VarifyAssumption ==
  /\ NoCode \notin Calls /\ NoEmail \notin Emails
  /\ \A x \in {"internal", "unknown"} : x \notin Calls
  /\ MaxSessions \in Nat /\ MaxClients \in Nat
  /\ IsFiniteSet(Calls)

Tries == 3

VARIABLES
  up,         \* the process runs
  code,       \* Redis: the code stored for each address
  sessions,   \* idle SMTP sessions
  clients,    \* idle Redis clients
  pc,         \* each call's next statement
  email,      \* each call's address
  tries,      \* failed attempts of each call to send
  answer,     \* what each call returned: a code or an error
  mailed,     \* the pairs of an address and a code mailed to it
  \* For the properties only:
  expired,    \* codes that have expired in Redis
  unset,      \* the calls that had not returned when a call found no code
  nosession,  \* the calls that lost their session
  noclient    \* the calls that lost their Redis client

pools == <<sessions, clients, nosession, noclient>>
callvars == <<email, unset>>
varifyvars == <<up, code, pools, callvars, pc, tries, answer, mailed, expired>>

Places == {"none", "get_acquire", "get", "smtp_acquire", "send", "set_acquire", "set", "done"}
Errors == {"internal", "unknown"}

VarifyTypeOK ==
  /\ up \in BOOLEAN
  /\ code \in [Emails -> Calls \cup {NoCode}]
  /\ sessions \in 0..MaxSessions /\ clients \in 0..MaxClients
  /\ pc \in [Calls -> Places]
  /\ email \in [Calls -> Emails \cup {NoEmail}]
  /\ tries \in [Calls -> 0..Tries]
  /\ answer \in [Calls -> Calls \cup {NoCode} \cup Errors]
  /\ mailed \subseteq Emails \X Calls
  /\ expired \subseteq Calls
  /\ unset \in [Calls -> SUBSET Calls]
  /\ nosession \subseteq Calls /\ noclient \subseteq Calls

VarifyInit ==
  /\ up = TRUE
  /\ code = [e \in Emails |-> NoCode]
  /\ sessions = MaxSessions /\ clients = MaxClients
  /\ pc = [r \in Calls |-> "none"]
  /\ email = [r \in Calls |-> NoEmail]
  /\ tries = [r \in Calls |-> 0]
  /\ answer = [r \in Calls |-> NoCode]
  /\ mailed = {} /\ expired = {}
  /\ unset = [r \in Calls |-> {}]
  /\ nosession = {} /\ noclient = {}

Goto(r, place) == pc' = [pc EXCEPT ![r] = place]
Return(r, a) == answer' = [answer EXCEPT ![r] = a] /\ Goto(r, "done")

-----------------------------------------------------------------------------
\* A call of GetVarifyCode arrives.
VarifyCall(r, e) ==
  /\ up /\ pc[r] = "none"
  /\ email' = [email EXCEPT ![r] = e]
  /\ Goto(r, "get_acquire")
  /\ UNCHANGED <<up, code, pools, unset, tries, answer, mailed, expired>>

\* RedisPool::Acquire waits for a client; TryGetKey and SetEx both begin so.
AcquireClient(r) ==
  /\ up /\ clients > 0
  /\ \/ pc[r] = "get_acquire" /\ Goto(r, "get")
     \/ pc[r] = "set_acquire" /\ Goto(r, "set")
  /\ clients' = clients - 1
  /\ UNCHANGED <<up, code, sessions, nosession, noclient, callvars, tries, answer, mailed,
                 expired>>

\* TryGetKey finds a code, which is returned and not mailed again ...
GetHit(r) ==
  /\ up /\ pc[r] = "get" /\ code[email[r]] # NoCode
  /\ clients' = clients + 1
  /\ Return(r, code[email[r]])
  /\ UNCHANGED <<up, code, sessions, nosession, noclient, callvars, tries, mailed, expired>>

GetMiss_Always(r) ==
  /\ up /\ pc[r] = "get"
  /\ clients' = clients + 1
  /\ unset' = [unset EXCEPT ![r] = {q \in Calls : pc[q] # "done"}]
  /\ Goto(r, "smtp_acquire")
  /\ UNCHANGED <<up, code, sessions, nosession, noclient, email, tries, answer, mailed, expired>>

\* ... or none: a new one is made to be mailed.
GetMiss(r) ==
  /\ up /\ pc[r] = "get" /\ code[email[r]] = NoCode
  /\ clients' = clients + 1
  /\ unset' = [unset EXCEPT ![r] = {q \in Calls : pc[q] # "done"}]
  /\ Goto(r, "smtp_acquire")
  /\ UNCHANGED <<up, code, sessions, nosession, noclient, email, tries, answer, mailed, expired>>

\* Redis throws between Acquire and Release, perhaps after it has stored the
\* code: the client is destroyed with the frame, and the handler ends with
\* UNKNOWN.
RedisThrows(r) ==
  /\ up /\ pc[r] \in {"get", "set"}
  /\ noclient' = noclient \cup {r}
  /\ \/ UNCHANGED code
     \/ pc[r] = "set" /\ code' = [code EXCEPT ![email[r]] = r]
  /\ Return(r, "unknown")
  /\ UNCHANGED <<up, sessions, clients, nosession, callvars, tries, mailed, expired>>

\* SmtpPoll::Send waits for a session.
AcquireSession(r) ==
  /\ up /\ pc[r] = "smtp_acquire" /\ sessions > 0
  /\ sessions' = sessions - 1
  /\ Goto(r, "send")
  /\ UNCHANGED <<up, code, clients, nosession, noclient, callvars, tries, answer, mailed,
                 expired>>

SendOk_Kept(r) ==
  /\ up /\ pc[r] = "send" /\ tries[r] < Tries
  /\ mailed' = mailed \cup {<<email[r], r>>}
  /\ Goto(r, "set_acquire")
  /\ UNCHANGED <<up, code, pools, callvars, tries, answer, expired>>

\* sendMessage returns: the session goes back to the pool.
SendOk(r) ==
  /\ up /\ pc[r] = "send" /\ tries[r] < Tries
  /\ mailed' = mailed \cup {<<email[r], r>>}
  /\ sessions' = sessions + 1
  /\ Goto(r, "set_acquire")
  /\ UNCHANGED <<up, code, clients, nosession, noclient, callvars, tries, answer, expired>>

\* sendMessage throws, perhaps after the mail server took the mail.  After an
\* SMTPException the session is replaced by a new one, after another exception
\* it is tried again: either way the call still has one.
SendThrows(r) ==
  /\ up /\ pc[r] = "send" /\ tries[r] < Tries
  /\ tries' = [tries EXCEPT ![r] = @ + 1]
  /\ mailed' \in {mailed, mailed \cup {<<email[r], r>>}}
  /\ UNCHANGED <<up, code, pools, callvars, pc, answer, expired>>

\* CreateConnection cannot reach or log in to the mail server: exit(1).
ReconnectExits(r) ==
  /\ up /\ pc[r] = "send" /\ tries[r] < Tries
  /\ up' = FALSE
  /\ UNCHANGED <<code, pools, callvars, pc, tries, answer, mailed, expired>>

\* Three attempts have failed, or close() in the handler throws: the session is
\* not given back.
SendFails(r) ==
  /\ up /\ pc[r] = "send" /\ tries[r] > 0
  /\ nosession' = nosession \cup {r}
  /\ \/ tries[r] = Tries /\ Return(r, "internal")
     \/ Return(r, "unknown")
  /\ UNCHANGED <<up, code, sessions, clients, noclient, callvars, tries, mailed, expired>>

\* SetEx stores the code over any other, and the call returns it.
SetEx(r) ==
  /\ up /\ pc[r] = "set"
  /\ code' = [code EXCEPT ![email[r]] = r]
  /\ clients' = clients + 1
  /\ Return(r, r)
  /\ UNCHANGED <<up, sessions, nosession, noclient, callvars, tries, mailed, expired>>

\* The 180 seconds are over.
Expire(e) ==
  /\ code[e] # NoCode
  /\ expired' = expired \cup {code[e]}
  /\ code' = [code EXCEPT ![e] = NoCode]
  /\ UNCHANGED <<up, pools, callvars, pc, tries, answer, mailed>>

GetVarifyCode(r) ==
  \/ AcquireClient(r) \/ GetHit(r) \/ GetMiss(r) \/ RedisThrows(r)
  \/ AcquireSession(r) \/ SendOk(r) \/ SendThrows(r) \/ ReconnectExits(r) \/ SendFails(r)
  \/ SetEx(r)

-----------------------------------------------------------------------------
\* A call that mailed and stored its code has given the user a code that works,
\* until it expires, unless another call for the address had found no code
\* before this one stored its own: then the later of the two mails counts, or
\* the earlier, by the order of the SetEx.
MailedCodeWorks ==
  \A r \in Calls :
    answer[r] = r /\ r \notin expired /\ code[email[r]] # r =>
      \E q \in Calls \ {r} : <<email[r], q>> \in mailed /\ r \in unset[q]

Using(places) == {r \in Calls : pc[r] \in places}

\* No connection is gained, and one is lost only with a call that failed: each
\* is idle, or used by one call, or lost with one.
PoolsAccounted ==
  /\ sessions + Cardinality(Using({"send"})) + Cardinality(nosession) = MaxSessions
  /\ clients + Cardinality(Using({"get", "set"})) + Cardinality(noclient) = MaxClients
=============================================================================
