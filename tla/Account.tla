------------------------------ MODULE Account ------------------------------
(***************************************************************************)
(* The HTTP server login, as far as it makes accounts: a user asks for a    *)
(* code (GetVerifyCodeHandler, which calls varify with a deadline of three  *)
(* seconds) and registers with it (RegisterHandler, over Redis and MySQL).  *)
(* Handlers run concurrently.  Composed with Varify: the k-th request for a *)
(* code makes the call of that name.                                        *)
(*                                                                          *)
(* Names and passwords are left out: a registration whose fields are        *)
(* missing or whose passwords differ ends before any state is read.         *)
(***************************************************************************)
EXTENDS Varify

CONSTANTS Regs,      \* registrations
          MaxRpc,    \* clients in the gRPC pool of login
          NoReg

ASSUME AccountAssumption == NoReg \notin Regs /\ MaxRpc \in Nat

VARIABLES
  http,      \* each code request: "none", "waiting", "calling", "sent", "failed"
  rpc,       \* idle clients of the gRPC pool
  place,     \* each registration's next statement
  form,      \* its address and code
  result,    \* what each registration was told
  user,      \* MySQL: the registration that made the account of an address
  dberror    \* registrations that met an error of MySQL

regvars == <<place, form, result, user, dberror>>
accountvars == <<http, rpc, regvars>>
vars == <<varifyvars, accountvars>>

Results == {"none", "ok", "code_error", "exists", "busy"}

TypeOK ==
  /\ VarifyTypeOK
  /\ http \in [Calls -> {"none", "waiting", "calling", "sent", "failed"}]
  /\ rpc \in 0..MaxRpc
  /\ place \in [Regs -> {"none", "count", "insert", "done"}]
  /\ form \in [Regs -> [email : Emails \cup {NoEmail}, code : Calls \cup {NoCode}]]
  /\ result \in [Regs -> Results]
  /\ user \in [Emails -> Regs \cup {NoReg}]
  /\ dberror \subseteq Regs

Init ==
  /\ VarifyInit
  /\ http = [r \in Calls |-> "none"]
  /\ rpc = MaxRpc
  /\ place = [g \in Regs |-> "none"]
  /\ form = [g \in Regs |-> [email |-> NoEmail, code |-> NoCode]]
  /\ result = [g \in Regs |-> "none"]
  /\ user = [e \in Emails |-> NoReg]
  /\ dberror = {}

-----------------------------------------------------------------------------
(***************************************************************************)
(* GetVerifyCodeHandler.                                                    *)
(***************************************************************************)

RequestCode(r) ==
  /\ http[r] = "none"
  /\ http' = [http EXCEPT ![r] = "waiting"]
  /\ UNCHANGED <<varifyvars, rpc, regvars>>

\* GRPCClientPool.Get waits for a client; then the call goes out.
CallVarify(r, e) ==
  /\ http[r] = "waiting" /\ rpc > 0
  /\ rpc' = rpc - 1
  /\ http' = [http EXCEPT ![r] = "calling"]
  /\ VarifyCall(r, e)
  /\ UNCHANGED regvars

\* varify is down: the call fails at once.
CallFails(r) ==
  /\ http[r] = "waiting" /\ rpc > 0 /\ ~up
  /\ http' = [http EXCEPT ![r] = "failed"]
  /\ UNCHANGED <<varifyvars, rpc, regvars>>

\* varify has answered; the deferred Put gives the client back.
VarifyAnswers(r) ==
  /\ http[r] = "calling" /\ pc[r] = "done"
  /\ http' = [http EXCEPT ![r] = IF answer[r] \in Calls THEN "sent" ELSE "failed"]
  /\ rpc' = rpc + 1
  /\ UNCHANGED <<varifyvars, regvars>>

CallTimesOut_KeepsClient(r) ==
  /\ http[r] = "calling"
  /\ http' = [http EXCEPT ![r] = "failed"]
  /\ UNCHANGED <<varifyvars, rpc, regvars>>

CallTimesOut_PutsTwice(r) ==
  /\ http[r] = "calling" /\ pc[r] = "done"
  /\ rpc' = rpc + 1
  /\ UNCHANGED <<varifyvars, http, regvars>>

\* Three seconds have passed, or varify went down.  varify goes on with the
\* call if it is up.
CallTimesOut(r) ==
  /\ http[r] = "calling"
  /\ http' = [http EXCEPT ![r] = "failed"]
  /\ rpc' = rpc + 1
  /\ UNCHANGED <<varifyvars, regvars>>

-----------------------------------------------------------------------------
(***************************************************************************)
(* RegisterHandler.                                                         *)
(***************************************************************************)

To(g, p) == place' = [place EXCEPT ![g] = p]
Tell(g, x) == result' = [result EXCEPT ![g] = x] /\ To(g, "done")

CodeMatches_AnyCode(e, k) == code[e] # NoCode

\* redis.GetVarifyCode finds a code and it is the one in the form.
CodeMatches(e, k) == code[e] # NoCode /\ k = code[e]

\* A registration with any code.  One that matches stays in Redis; any other,
\* or an error of Redis, is a code error.
Register(g, e, k) ==
  /\ place[g] = "none"
  /\ form' = [form EXCEPT ![g] = [email |-> e, code |-> k]]
  /\ \/ CodeMatches(e, k) /\ To(g, "count") /\ UNCHANGED result
     \/ Tell(g, "code_error")
  /\ UNCHANGED <<varifyvars, http, rpc, user, dberror>>

\* select count(user_id) from user where email = ?
CountUser(g) ==
  /\ place[g] = "count"
  /\ IF user[form[g].email] # NoReg
       THEN Tell(g, "exists")
       ELSE To(g, "insert") /\ UNCHANGED result
  /\ UNCHANGED <<varifyvars, http, rpc, form, user, dberror>>

InsertUser_Replaces(g) ==
  /\ place[g] = "insert"
  /\ user' = [user EXCEPT ![form[g].email] = g]
  /\ Tell(g, "ok")
  /\ UNCHANGED <<varifyvars, http, rpc, form, dberror>>

\* insert into user; idx_email refuses a second row of the address, which is
\* an error like any other to the handler.
InsertUser(g) ==
  /\ place[g] = "insert"
  /\ IF user[form[g].email] = NoReg
       THEN user' = [user EXCEPT ![form[g].email] = g] /\ Tell(g, "ok")
       ELSE Tell(g, "busy") /\ UNCHANGED user
  /\ UNCHANGED <<varifyvars, http, rpc, form, dberror>>

\* MySQL fails; an insert may have been carried out all the same.
DbFails(g) ==
  /\ place[g] \in {"count", "insert"}
  /\ dberror' = dberror \cup {g}
  /\ \/ UNCHANGED user
     \/ /\ place[g] = "insert" /\ user[form[g].email] = NoReg
        /\ user' = [user EXCEPT ![form[g].email] = g]
  /\ Tell(g, "busy")
  /\ UNCHANGED <<varifyvars, http, rpc, form>>

-----------------------------------------------------------------------------
Next ==
  \/ \E r \in Calls :
       \/ RequestCode(r) \/ (\E e \in Emails : CallVarify(r, e)) \/ CallFails(r)
       \/ VarifyAnswers(r) \/ CallTimesOut(r)
       \/ GetVarifyCode(r) /\ UNCHANGED accountvars
  \/ \E e \in Emails : Expire(e) /\ UNCHANGED accountvars
  \/ \E g \in Regs :
       \/ \E e \in Emails, k \in Calls \cup {NoCode} : Register(g, e, k)
       \/ CountUser(g) \/ InsertUser(g) \/ DbFails(g)

Spec == Init /\ [][Next]_vars

\* The handlers and varify's threads run, and a call ends by its answer or its
\* deadline.
Fairness ==
  \A r \in Calls :
    /\ WF_vars((\E e \in Emails : CallVarify(r, e)) \/ CallFails(r))
    /\ WF_vars(VarifyAnswers(r) \/ CallTimesOut(r))
    /\ WF_vars(GetVarifyCode(r) /\ UNCHANGED accountvars)

FairSpec == Spec /\ Fairness

-----------------------------------------------------------------------------
\* An account was made by somebody who had a code that was mailed to its
\* address, whatever expired or was replaced between the check and the insert.
OwnerHadCode ==
  \A e \in Emails :
    user[e] # NoReg => form[user[e]].email = e /\ <<e, form[user[e]].code>> \in mailed

\* "ok" is told once for an address, and only by the registration that owns the
\* account; "busy" without an error of MySQL is the one that lost the race
\* between its count and its insert.
ToldTheTruth ==
  \A g \in Regs :
    /\ result[g] = "ok" => user[form[g].email] = g
    /\ result[g] \in {"exists", "busy"} /\ g \notin dberror =>
         user[form[g].email] \notin {g, NoReg}

\* Every request for a code is answered, even when varify waits for a pool that
\* nothing will ever fill: the deadline frees the client for the next request.
CodeRequestAnswered ==
  \A r \in Calls : http[r] = "waiting" ~> http[r] \in {"sent", "failed"}
=============================================================================
