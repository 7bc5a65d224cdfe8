--------------------------- MODULE AccountProofs ---------------------------
(***************************************************************************)
(* Proofs about Account and Varify, for every number of calls, addresses,   *)
(* registrations and connections.                                           *)
(*                                                                          *)
(* The types of the pools' counters need their accounts (a pool is never    *)
(* given more than it had), so both are proved together, as Accounts.  The  *)
(* codes rest on Mails: what is stored was mailed, and a call that has      *)
(* found no code either knows every call that could still store one or has  *)
(* been overtaken.                                                          *)
(***************************************************************************)
EXTENDS Account, FiniteSetTheorems, TLAPS

\* TypeOK without the bounds of the counters.
Typed ==
  /\ up \in BOOLEAN
  /\ code \in [Emails -> Calls \cup {NoCode}]
  /\ sessions \in Int /\ clients \in Int /\ rpc \in Int
  /\ pc \in [Calls -> Places]
  /\ email \in [Calls -> Emails \cup {NoEmail}]
  /\ tries \in [Calls -> 0..Tries]
  /\ answer \in [Calls -> Calls \cup {NoCode} \cup Errors]
  /\ mailed \subseteq Emails \X Calls
  /\ expired \subseteq Calls
  /\ unset \in [Calls -> SUBSET Calls]
  /\ nosession \subseteq Calls /\ noclient \subseteq Calls
  /\ http \in [Calls -> {"none", "waiting", "calling", "sent", "failed"}]
  /\ place \in [Regs -> {"none", "count", "insert", "done"}]
  /\ form \in [Regs -> [email : Emails \cup {NoEmail}, code : Calls \cup {NoCode}]]
  /\ result \in [Regs -> Results]
  /\ user \in [Emails -> Regs \cup {NoReg}]
  /\ dberror \subseteq Regs
  /\ \A r \in Calls : pc[r] # "none" => email[r] \in Emails
  /\ \A g \in Regs : place[g] # "none" => form[g].email \in Emails

LEMMA TypedInit == Init => Typed
BY VarifyAssumption, AccountAssumption
DEF Init, VarifyInit, Typed, Places, Tries, Results

\* The steps of varify.
LEMMA TypedVarify ==
  ASSUME Typed, NEW r \in Calls, GetVarifyCode(r), UNCHANGED accountvars
  PROVE  Typed'
<1> USE VarifyAssumption DEF Typed, Places, Errors, accountvars, regvars, pools, callvars, Goto, Return
<1>1. CASE AcquireClient(r)
  BY <1>1 DEF AcquireClient
<1>2. CASE GetHit(r)
  BY <1>2 DEF GetHit
<1>3. CASE GetMiss(r)
  BY <1>3 DEF GetMiss
<1>4. CASE RedisThrows(r)
  BY <1>4 DEF RedisThrows
<1>5. CASE AcquireSession(r)
  BY <1>5 DEF AcquireSession
<1>6. CASE SendOk(r)
  BY <1>6 DEF SendOk
<1>7. CASE SendThrows(r)
  BY <1>7 DEF SendThrows, Tries
<1>8. CASE ReconnectExits(r)
  BY <1>8 DEF ReconnectExits
<1>9. CASE SendFails(r)
  BY <1>9 DEF SendFails
<1>10. CASE SetEx(r)
  BY <1>10 DEF SetEx
<1> QED
  BY <1>1, <1>2, <1>3, <1>4, <1>5, <1>6, <1>7, <1>8, <1>9, <1>10 DEF GetVarifyCode

LEMMA TypedNext == Typed /\ [Next]_vars => Typed'
<1> SUFFICES ASSUME Typed, [Next]_vars PROVE Typed'
  OBVIOUS
<1> USE VarifyAssumption, AccountAssumption
<1>1. ASSUME NEW r \in Calls, GetVarifyCode(r), UNCHANGED accountvars PROVE Typed'
  BY <1>1, TypedVarify
<1> USE DEF Typed, accountvars, varifyvars, regvars, pools, callvars
<1>2. ASSUME NEW r \in Calls, NEW e \in Emails, CallVarify(r, e) PROVE Typed'
  BY <1>2 DEF CallVarify, VarifyCall, Goto, Places
<1>3. ASSUME NEW r \in Calls,
             RequestCode(r) \/ CallFails(r) \/ VarifyAnswers(r) \/ CallTimesOut(r)
      PROVE  Typed'
  <2>1. CASE RequestCode(r)
    BY <2>1 DEF RequestCode
  <2>2. CASE CallFails(r)
    BY <2>2 DEF CallFails
  <2>3. CASE VarifyAnswers(r)
    BY <2>3 DEF VarifyAnswers
  <2>4. CASE CallTimesOut(r)
    BY <2>4 DEF CallTimesOut
  <2> QED
    BY <1>3, <2>1, <2>2, <2>3, <2>4
<1>4. ASSUME NEW e \in Emails, Expire(e), UNCHANGED accountvars PROVE Typed'
  BY <1>4 DEF Expire
<1>5. ASSUME NEW g \in Regs, NEW e \in Emails, NEW k \in Calls \cup {NoCode}, Register(g, e, k)
      PROVE  Typed'
  BY <1>5 DEF Register, Tell, To, Results
<1>6. ASSUME NEW g \in Regs, CountUser(g) \/ InsertUser(g) \/ DbFails(g) PROVE Typed'
  <2>1. CASE CountUser(g)
    BY <2>1 DEF CountUser, Tell, To, Results
  <2>2. CASE InsertUser(g)
    <3>1. form[g].email \in Emails
      BY <2>2 DEF InsertUser
    <3>2. CASE user[form[g].email] = NoReg
      <4>1. user' \in [Emails -> Regs \cup {NoReg}]
        BY <2>2, <3>1, <3>2 DEF InsertUser
      <4>2. /\ result' \in [Regs -> Results]
            /\ place' \in [Regs -> {"none", "count", "insert", "done"}]
            /\ \A h \in Regs : place'[h] # "none" => form[h].email \in Emails
        BY <2>2, <3>1, <3>2 DEF InsertUser, Tell, To, Results
      <4>3. UNCHANGED <<varifyvars, http, rpc, form, dberror>>
        BY <2>2 DEF InsertUser
      <4> QED
        BY <4>1, <4>2, <4>3
    <3>3. CASE user[form[g].email] # NoReg
      BY <2>2, <3>3 DEF InsertUser, Tell, To, Results
    <3> QED
      BY <3>2, <3>3
  <2>3. CASE DbFails(g)
    BY <2>3 DEF DbFails, Tell, To, Results
  <2> QED
    BY <1>6, <2>1, <2>2, <2>3
<1>7. CASE UNCHANGED vars
  BY <1>7 DEF vars
<1> QED
  BY <1>1, <1>2, <1>3, <1>4, <1>5, <1>6, <1>7 DEF Next
-----------------------------------------------------------------------------
(***************************************************************************)
(* The pools.                                                               *)
(***************************************************************************)

\* Sets of calls that differ in one call at most.
LEMMA OneApart ==
  ASSUME NEW A \in SUBSET Calls, NEW B \in SUBSET Calls, NEW r \in Calls,
         \A q \in Calls : q # r => (q \in A <=> q \in B)
  PROVE  /\ Cardinality(A) \in Nat
         /\ (r \in A <=> r \in B) => Cardinality(B) = Cardinality(A)
         /\ r \notin A /\ r \in B => Cardinality(B) = Cardinality(A) + 1
         /\ r \in A /\ r \notin B => Cardinality(B) = Cardinality(A) - 1
<1>1. IsFiniteSet(A) /\ Cardinality(A) \in Nat
  BY VarifyAssumption, FS_Subset, FS_CardinalityType
<1>2. (r \in A <=> r \in B) => B = A
  OBVIOUS
<1>3. r \notin A /\ r \in B => B = A \cup {r}
  OBVIOUS
<1>4. r \in A /\ r \notin B => B = A \ {r}
  OBVIOUS
<1> QED
  BY <1>1, <1>2, <1>3, <1>4, FS_AddElement, FS_RemoveElement

\* The accounts of the three pools, with what makes them inductive: a call
\* loses a connection by returning, so that none loses two of a kind.
Lost == \A r \in nosession \cup noclient : pc[r] = "done"
Calling == {r \in Calls : http[r] = "calling"}
RpcAccounted == rpc + Cardinality(Calling) = MaxRpc

Accounts ==
  /\ sessions \in Nat /\ clients \in Nat /\ rpc \in Nat
  /\ PoolsAccounted /\ RpcAccounted /\ Lost

InSend == Cardinality(Using({"send"}))
InRedis == Cardinality(Using({"get", "set"}))

\* A step of one call moves these two numbers.
LEMMA PcMoves ==
  ASSUME Typed, NEW r \in Calls, NEW x \in Places, pc' = [pc EXCEPT ![r] = x]
  PROVE  /\ InSend \in Nat /\ InRedis \in Nat
         /\ InSend' = InSend + (IF x = "send" THEN 1 ELSE 0) - (IF pc[r] = "send" THEN 1 ELSE 0)
         /\ InRedis' = InRedis + (IF x \in {"get", "set"} THEN 1 ELSE 0) - (IF pc[r] \in {"get", "set"} THEN 1 ELSE 0)
<1>1. pc'[r] = x /\ \A q \in Calls : q # r => pc'[q] = pc[q]
  BY DEF Typed
<1> DEFINE S == Using({"send"})
           R == Using({"get", "set"})
<1>2. /\ S \in SUBSET Calls /\ S' \in SUBSET Calls /\ R \in SUBSET Calls /\ R' \in SUBSET Calls
      /\ \A q \in Calls : q # r => (q \in S <=> q \in S') /\ (q \in R <=> q \in R')
      /\ r \in S <=> pc[r] = "send"
      /\ r \in S' <=> x = "send"
      /\ r \in R <=> pc[r] \in {"get", "set"}
      /\ r \in R' <=> x \in {"get", "set"}
  BY <1>1 DEF Using
<1> HIDE DEF S, R
<1>3. /\ Cardinality(S) \in Nat
      /\ (r \in S <=> r \in S') => Cardinality(S') = Cardinality(S)
      /\ r \notin S /\ r \in S' => Cardinality(S') = Cardinality(S) + 1
      /\ r \in S /\ r \notin S' => Cardinality(S') = Cardinality(S) - 1
  BY <1>2, OneApart
<1>4. /\ Cardinality(R) \in Nat
      /\ (r \in R <=> r \in R') => Cardinality(R') = Cardinality(R)
      /\ r \notin R /\ r \in R' => Cardinality(R') = Cardinality(R) + 1
      /\ r \in R /\ r \notin R' => Cardinality(R') = Cardinality(R) - 1
  BY <1>2, OneApart
<1>5. InSend = Cardinality(S) /\ InRedis = Cardinality(R)
  BY DEF InSend, InRedis, S, R
<1>6. InSend' = Cardinality(S') /\ InRedis' = Cardinality(R')
  BY DEF InSend, InRedis, S, R
<1> QED
  BY <1>2, <1>3, <1>4, <1>5, <1>6

\* A call that is lost for the first time.
LEMMA LosesOne ==
  ASSUME NEW S \in SUBSET Calls, NEW r \in Calls, r \notin S
  PROVE  Cardinality(S) \in Nat /\ Cardinality(S \cup {r}) = Cardinality(S) + 1
<1>1. IsFiniteSet(S)
  BY VarifyAssumption, FS_Subset
<1> QED
  BY <1>1, FS_AddElement, FS_CardinalityType

LEMMA AccountsInit == Init => Accounts
<1> SUFFICES ASSUME Init PROVE Accounts
  OBVIOUS
<1>1. Using({"send"}) = {} /\ Using({"get", "set"}) = {} /\ Calling = {}
  BY DEF Init, VarifyInit, Using, Calling
<1> QED
  <2>1. /\ Cardinality(Using({"send"})) = 0 /\ Cardinality(Using({"get", "set"})) = 0
        /\ Cardinality(Calling) = 0 /\ Cardinality({}) = 0
    BY <1>1, FS_EmptySet
  <2>2. sessions = MaxSessions /\ clients = MaxClients /\ rpc = MaxRpc /\ nosession = {} /\ noclient = {}
    BY DEF Init, VarifyInit
  <2> QED
    BY <2>1, <2>2, VarifyAssumption, AccountAssumption
    DEF Accounts, PoolsAccounted, RpcAccounted, Lost

LEMMA AccountsVarify ==
  ASSUME Typed, Accounts, NEW r \in Calls, GetVarifyCode(r), UNCHANGED accountvars
  PROVE  Accounts'
<1> DEFINE ns == Cardinality(nosession)
           nc == Cardinality(noclient)
<1>1. ns \in Nat /\ nc \in Nat
  BY VarifyAssumption, FS_Subset, FS_CardinalityType DEF Typed
<1>2. InSend \in Nat /\ InRedis \in Nat
  <2>1. Using({"send"}) \in SUBSET Calls /\ Using({"get", "set"}) \in SUBSET Calls
    BY DEF Using
  <2> QED
    BY <2>1, VarifyAssumption, FS_Subset, FS_CardinalityType DEF InSend, InRedis
<1>3. /\ sessions + InSend + ns = MaxSessions /\ clients + InRedis + nc = MaxClients
      /\ sessions \in Nat /\ clients \in Nat /\ Lost
  BY DEF Accounts, PoolsAccounted, InSend, InRedis
<1>4. SUFFICES /\ sessions' + InSend' + ns' = MaxSessions /\ clients' + InRedis' + nc' = MaxClients
               /\ sessions' \in Nat /\ clients' \in Nat /\ Lost'
  <2>1. RpcAccounted' /\ rpc' \in Nat
    BY DEF Accounts, RpcAccounted, accountvars, Calling
  <2> QED
    BY <1>4, <2>1 DEF Accounts, PoolsAccounted, InSend, InRedis
<1>5. pc[r] # "done" => r \notin nosession /\ r \notin noclient
  BY <1>3 DEF Lost
<1>6. /\ r \notin nosession => Cardinality(nosession \cup {r}) = ns + 1
      /\ r \notin noclient => Cardinality(noclient \cup {r}) = nc + 1
  BY LosesOne DEF Typed
<1> HIDE DEF ns, nc
<1> DEFINE Moved(x) == /\ pc' = [pc EXCEPT ![r] = x]
                       /\ InSend' = InSend + (IF x = "send" THEN 1 ELSE 0) - (IF pc[r] = "send" THEN 1 ELSE 0)
                       /\ InRedis' = InRedis + (IF x \in {"get", "set"} THEN 1 ELSE 0) - (IF pc[r] \in {"get", "set"} THEN 1 ELSE 0)
<1>7. ASSUME NEW x \in Places, Goto(r, x) PROVE Moved(x)
  BY <1>7, PcMoves DEF Goto
<1>8. \A x \in Places : Moved(x) /\ pc[r] # "done" /\ UNCHANGED <<nosession, noclient>> => Lost'
  BY <1>3 DEF Lost, Typed
<1> HIDE DEF Moved
<1> USE DEF pools, callvars, Return
<1>9. CASE AcquireClient(r)
  <2>1. CASE pc[r] = "get_acquire" /\ Goto(r, "get")
    <3>1. Moved("get")
      BY <2>1, <1>7 DEF Places
    <3>2. InSend' = InSend /\ InRedis' = InRedis + 1
      BY <1>2, <2>1, <3>1 DEF Moved
    <3>3. Lost'
      BY <1>8, <1>9, <2>1, <3>1 DEF AcquireClient, Places
    <3> QED
      BY <1>1, <1>2, <1>3, <1>9, <3>2, <3>3 DEF AcquireClient, ns, nc
  <2>2. CASE pc[r] = "set_acquire" /\ Goto(r, "set")
    <3>1. Moved("set")
      BY <2>2, <1>7 DEF Places
    <3>2. InSend' = InSend /\ InRedis' = InRedis + 1
      BY <1>2, <2>2, <3>1 DEF Moved
    <3>3. Lost'
      BY <1>8, <1>9, <2>2, <3>1 DEF AcquireClient, Places
    <3> QED
      BY <1>1, <1>2, <1>3, <1>9, <3>2, <3>3 DEF AcquireClient, ns, nc
  <2> QED
    BY <1>9, <2>1, <2>2 DEF AcquireClient
<1>10. CASE GetHit(r) \/ GetMiss(r) \/ SetEx(r)
  <2>1. PICK x \in {"done", "smtp_acquire"} : Goto(r, x)
    BY <1>10 DEF GetHit, GetMiss, SetEx
  <2>2. /\ pc[r] \in {"get", "set"} /\ clients' = clients + 1
        /\ UNCHANGED <<sessions, nosession, noclient>>
    BY <1>10 DEF GetHit, GetMiss, SetEx
  <2>3. Moved(x)
    BY <1>7, <2>1 DEF Places
  <2>4. InSend' = InSend /\ InRedis' = InRedis - 1
    BY <1>2, <2>2, <2>3 DEF Moved
  <2>5. Lost'
    BY <1>8, <2>2, <2>3 DEF Places
  <2> QED
    BY <1>1, <1>2, <1>3, <2>2, <2>4, <2>5 DEF ns, nc
<1>11. CASE RedisThrows(r)
  <2>1. /\ pc[r] \in {"get", "set"} /\ Goto(r, "done") /\ noclient' = noclient \cup {r}
        /\ UNCHANGED <<sessions, clients, nosession>>
    BY <1>11 DEF RedisThrows
  <2>2. Moved("done")
    BY <1>7, <2>1 DEF Places
  <2>3. InSend' = InSend /\ InRedis' = InRedis - 1
    BY <1>2, <2>1, <2>2 DEF Moved
  <2>4. Lost'
    BY <1>3, <2>1, <2>2 DEF Moved, Lost, Typed
  <2>5. nc' = nc + 1 /\ ns' = ns
    BY <1>5, <1>6, <2>1 DEF nc, ns
  <2> QED
    BY <1>1, <1>2, <1>3, <2>1, <2>3, <2>4, <2>5
<1>12. CASE AcquireSession(r)
  <2>1. /\ pc[r] = "smtp_acquire" /\ Goto(r, "send") /\ sessions > 0 /\ sessions' = sessions - 1
        /\ UNCHANGED <<clients, nosession, noclient>>
    BY <1>12 DEF AcquireSession
  <2>2. Moved("send")
    BY <1>7, <2>1 DEF Places
  <2>3. InSend' = InSend + 1 /\ InRedis' = InRedis
    BY <1>2, <2>1, <2>2 DEF Moved
  <2>4. Lost'
    BY <1>8, <2>1, <2>2 DEF Places
  <2> QED
    BY <1>1, <1>2, <1>3, <2>1, <2>3, <2>4 DEF ns, nc
<1>13. CASE SendOk(r)
  <2>1. /\ pc[r] = "send" /\ Goto(r, "set_acquire") /\ sessions' = sessions + 1
        /\ UNCHANGED <<clients, nosession, noclient>>
    BY <1>13 DEF SendOk
  <2>2. Moved("set_acquire")
    BY <1>7, <2>1 DEF Places
  <2>3. InSend' = InSend - 1 /\ InRedis' = InRedis
    BY <1>2, <2>1, <2>2 DEF Moved
  <2>4. Lost'
    BY <1>8, <2>1, <2>2 DEF Places
  <2> QED
    BY <1>1, <1>2, <1>3, <2>1, <2>3, <2>4 DEF ns, nc
<1>14. CASE SendThrows(r) \/ ReconnectExits(r)
  <2>1. UNCHANGED <<sessions, clients, nosession, noclient, pc>>
    BY <1>14 DEF SendThrows, ReconnectExits
  <2> QED
    BY <1>3, <2>1 DEF InSend, InRedis, Using, Lost, ns, nc
<1>15. CASE SendFails(r)
  <2>1. /\ pc[r] = "send" /\ Goto(r, "done") /\ nosession' = nosession \cup {r}
        /\ UNCHANGED <<sessions, clients, noclient>>
    BY <1>15 DEF SendFails
  <2>2. Moved("done")
    BY <1>7, <2>1 DEF Places
  <2>3. InSend' = InSend - 1 /\ InRedis' = InRedis
    BY <1>2, <2>1, <2>2 DEF Moved
  <2>4. Lost'
    BY <1>3, <2>1, <2>2 DEF Moved, Lost, Typed
  <2>5. ns' = ns + 1 /\ nc' = nc
    BY <1>5, <1>6, <2>1 DEF nc, ns
  <2> QED
    BY <1>1, <1>2, <1>3, <2>1, <2>3, <2>4, <2>5
<1> QED
  BY <1>9, <1>10, <1>11, <1>12, <1>13, <1>14, <1>15 DEF GetVarifyCode

LEMMA AccountsNext == Typed /\ Accounts /\ [Next]_vars => Accounts'
<1> SUFFICES ASSUME Typed, Accounts, [Next]_vars PROVE Accounts'
  OBVIOUS
<1>1. ASSUME NEW r \in Calls, GetVarifyCode(r), UNCHANGED accountvars PROVE Accounts'
  BY <1>1, AccountsVarify
<1>2. /\ Calling \in SUBSET Calls /\ Calling' \in SUBSET Calls
      /\ rpc \in Nat /\ rpc + Cardinality(Calling) = MaxRpc
  BY DEF Calling, Accounts, RpcAccounted
<1>3. ASSUME UNCHANGED <<sessions, clients, nosession, noclient, pc>>
      PROVE  /\ sessions' \in Nat /\ clients' \in Nat
             /\ PoolsAccounted' /\ Lost'
  BY <1>3 DEF Accounts, PoolsAccounted, Using, Lost
<1>4. ASSUME NEW r \in Calls,
             http' = [http EXCEPT ![r] = "calling"], http[r] # "calling",
             rpc > 0, rpc' = rpc - 1
      PROVE  RpcAccounted' /\ rpc' \in Nat
  <2>1. r \notin Calling /\ r \in Calling' /\ \A q \in Calls : q # r => (q \in Calling <=> q \in Calling')
    BY <1>4 DEF Calling, Typed
  <2>2. Cardinality(Calling) \in Nat /\ Cardinality(Calling') = Cardinality(Calling) + 1
    BY <1>2, <2>1, OneApart
  <2> QED
    BY <1>2, <1>4, <2>2 DEF RpcAccounted
<1>5. ASSUME NEW r \in Calls, NEW x \in {"sent", "failed"},
             http' = [http EXCEPT ![r] = x], http[r] = "calling", rpc' = rpc + 1
      PROVE  RpcAccounted' /\ rpc' \in Nat
  <2>1. r \in Calling /\ r \notin Calling' /\ \A q \in Calls : q # r => (q \in Calling <=> q \in Calling')
    BY <1>5 DEF Calling, Typed
  <2>2. Cardinality(Calling) \in Nat /\ Cardinality(Calling') = Cardinality(Calling) - 1
    BY <1>2, <2>1, OneApart
  <2> QED
    BY <1>2, <1>5, <2>2 DEF RpcAccounted
<1>6. ASSUME NEW r \in Calls, NEW e \in Emails, CallVarify(r, e) PROVE Accounts'
  <2>1. RpcAccounted' /\ rpc' \in Nat
    BY <1>4, <1>6 DEF CallVarify
  <2>2. /\ pc[r] = "none" /\ pc' = [pc EXCEPT ![r] = "get_acquire"]
        /\ UNCHANGED <<sessions, clients, nosession, noclient>>
    BY <1>6 DEF CallVarify, VarifyCall, Goto, pools
  <2>3. /\ Using({"send"})' = Using({"send"}) /\ Using({"get", "set"})' = Using({"get", "set"})
        /\ Lost'
    BY <2>2 DEF Using, Accounts, Lost, Typed
  <2> QED
    BY <2>1, <2>2, <2>3 DEF Accounts, PoolsAccounted
<1>7. ASSUME NEW r \in Calls, RequestCode(r) \/ CallFails(r) PROVE Accounts'
  <2>1. Calling' = Calling /\ rpc' = rpc
    BY <1>7 DEF RequestCode, CallFails, Calling, Typed
  <2>2. RpcAccounted' /\ rpc' \in Nat
    BY <1>2, <2>1 DEF RpcAccounted
  <2>3. UNCHANGED <<sessions, clients, nosession, noclient, pc>>
    BY <1>7 DEF RequestCode, CallFails, varifyvars, pools
  <2> QED
    BY <1>3, <2>2, <2>3 DEF Accounts
<1>8. ASSUME NEW r \in Calls, VarifyAnswers(r) \/ CallTimesOut(r) PROVE Accounts'
  <2>1. PICK x \in {"sent", "failed"} : http' = [http EXCEPT ![r] = x]
    BY <1>8 DEF VarifyAnswers, CallTimesOut
  <2>2. RpcAccounted' /\ rpc' \in Nat
    BY <1>5, <1>8, <2>1 DEF VarifyAnswers, CallTimesOut
  <2>3. UNCHANGED <<sessions, clients, nosession, noclient, pc>>
    BY <1>8 DEF VarifyAnswers, CallTimesOut, varifyvars, pools
  <2> QED
    BY <1>3, <2>2, <2>3 DEF Accounts
<1>9. ASSUME UNCHANGED <<sessions, clients, nosession, noclient, pc, http, rpc>> PROVE Accounts'
  <2>1. RpcAccounted' /\ rpc' \in Nat
    BY <1>2, <1>9 DEF RpcAccounted, Calling
  <2> QED
    BY <1>3, <1>9, <2>1 DEF Accounts
<1>10. ASSUME NEW e \in Emails, Expire(e), UNCHANGED accountvars PROVE Accounts'
  BY <1>9, <1>10 DEF Expire, accountvars, pools
<1>11. ASSUME NEW g \in Regs,
              \/ \E e \in Emails, k \in Calls \cup {NoCode} : Register(g, e, k)
              \/ CountUser(g) \/ InsertUser(g) \/ DbFails(g)
       PROVE  Accounts'
  BY <1>9, <1>11 DEF Register, CountUser, InsertUser, DbFails, varifyvars, pools
<1>12. CASE UNCHANGED vars
  BY <1>9, <1>12 DEF vars, varifyvars, accountvars, pools
<1> QED
  BY <1>1, <1>6, <1>7, <1>8, <1>10, <1>11, <1>12 DEF Next

\* The type invariant: among the rest, no pool ever holds more connections
\* than it was made with, or fewer than none.
THEOREM TypeCorrect == Spec => []TypeOK
<1>1. Typed /\ Accounts => TypeOK
  <2> SUFFICES ASSUME Typed, Accounts PROVE TypeOK
    OBVIOUS
  <2>1. /\ Using({"send"}) \in SUBSET Calls /\ Using({"get", "set"}) \in SUBSET Calls
        /\ Calling \in SUBSET Calls
        /\ nosession \in SUBSET Calls /\ noclient \in SUBSET Calls
    BY DEF Using, Calling, Typed
  <2>2. \A S \in SUBSET Calls : Cardinality(S) \in Nat
    BY VarifyAssumption, FS_Subset, FS_CardinalityType
  <2>3. sessions \in 0..MaxSessions /\ clients \in 0..MaxClients /\ rpc \in 0..MaxRpc
    BY <2>1, <2>2, VarifyAssumption, AccountAssumption DEF Accounts, PoolsAccounted, RpcAccounted
  <2> QED
    BY <2>3 DEF Typed, TypeOK, VarifyTypeOK
<1> QED
  BY <1>1, TypedInit, TypedNext, AccountsInit, AccountsNext, PTL DEF Spec

\* Every connection of varify's pools is idle, used by one call or lost with
\* one call: no path of GetVarifyCode gives one back twice.
THEOREM PoolsAccountedCorrect == Spec => []PoolsAccounted
<1>1. Accounts => PoolsAccounted
  BY DEF Accounts
<1> QED
  BY <1>1, TypedInit, TypedNext, AccountsInit, AccountsNext, PTL DEF Spec
-----------------------------------------------------------------------------
(***************************************************************************)
(* The codes.                                                               *)
(***************************************************************************)

\* The places of a call that has found no code and has not yet returned.
Missed == {"smtp_acquire", "send", "set_acquire", "set"}

\* What Redis holds was mailed to that address by a call that has returned.
Stored == \A e \in Emails : code[e] # NoCode => <<e, code[e]>> \in mailed /\ pc[code[e]] = "done"

\* A call that is about to store its code has mailed it.
Pending == \A r \in Calls : pc[r] \in {"set_acquire", "set"} => <<email[r], r>> \in mailed

\* A mailed code is its call's, and goes to that call's address.
Sent ==
  \A e \in Emails, q \in Calls :
    <<e, q>> \in mailed => email[q] = e /\ pc[q] \in {"send", "set_acquire", "set", "done"}

Returned == \A r \in Calls : answer[r] = r => pc[r] = "done"

\* A call that has found no code knows of all that may still store one ...
Aware == \A q, r \in Calls : pc[q] \in Missed /\ pc[r] # "done" => r \in unset[q]

Beaten(r) == \E q \in Calls \ {r} : <<email[r], q>> \in mailed /\ r \in unset[q]

\* ... and those it does not know of no longer count.
Overtaken ==
  \A q, r \in Calls :
    pc[q] \in Missed /\ email[q] = email[r] /\ answer[r] = r /\ r \notin unset[q] =>
      r \in expired \/ Beaten(r)

Works == \A r \in Calls : answer[r] = r /\ r \notin expired /\ code[email[r]] # r => Beaten(r)

Mails == Stored /\ Pending /\ Sent /\ Returned /\ Aware /\ Overtaken /\ Works

LEMMA MailsInit == Init => Mails
BY VarifyAssumption
DEF Init, VarifyInit, Mails, Stored, Pending, Sent, Returned, Aware, Overtaken, Works, Missed

\* Nothing takes back that a call was beaten.
LEMMA BeatenStays ==
  ASSUME Typed, Sent, NEW r \in Calls, Beaten(r),
         mailed \subseteq mailed', email'[r] = email[r],
         \A q \in Calls : unset'[q] = unset[q] \/ pc[q] = "get"
  PROVE  Beaten(r)'
<1>1. PICK q \in Calls \ {r} : <<email[r], q>> \in mailed /\ r \in unset[q]
  BY DEF Beaten
<1>2. email[r] \in Emails
  BY <1>1 DEF Typed
<1>3. pc[q] # "get"
  BY <1>1, <1>2 DEF Sent
<1> QED
  BY <1>1, <1>3 DEF Beaten

\* The steps that store and return nothing: a call arrives, waits, or mails.
LEMMA MailsQuiet ==
  ASSUME Typed, Mails, NEW r \in Calls, NEW x \in Places,
         pc' = [pc EXCEPT ![r] = x], pc[r] # "done", x # "done",
         x \in Missed => pc[r] \in Missed,
         UNCHANGED <<code, answer, expired, unset>>,
         pc[r] # "none" => email' = email,
         \A q \in Calls : q # r => email'[q] = email[q],
         mailed \subseteq mailed', mailed' \subseteq mailed \cup {<<email[r], r>>},
         x \in {"set_acquire", "set"} => <<email[r], r>> \in mailed' /\ pc[r] # "none",
         <<email[r], r>> \in mailed' => x \in {"send", "set_acquire", "set"} /\ pc[r] # "none"
  PROVE  Mails'
<1> USE DEF Mails, Typed
<1>1. pc'[r] = x /\ \A q \in Calls : q # r => pc'[q] = pc[q]
  OBVIOUS
<1>2. Stored'
  BY <1>1 DEF Stored
<1>3. Pending'
  BY <1>1 DEF Pending
<1>4. Sent'
  <2> SUFFICES ASSUME NEW e \in Emails, NEW q \in Calls, <<e, q>> \in mailed'
               PROVE  email'[q] = e /\ pc'[q] \in {"send", "set_acquire", "set", "done"}
    BY DEF Sent
  <2>1. CASE q # r
    <3>1. <<e, q>> \in mailed
      BY <2>1
    <3> QED
      BY <1>1, <2>1, <3>1 DEF Sent
  <2>2. CASE q = r
    <3>1. email[r] = e
      BY <2>2 DEF Sent
    <3> QED
      BY <1>1, <2>2, <3>1
  <2> QED
    BY <2>1, <2>2
<1>5. Returned'
  BY <1>1 DEF Returned
<1>6. Aware'
  BY <1>1 DEF Aware, Missed
<1>7. \A q \in Calls : answer[q] = q => q # r /\ email'[q] = email[q] /\ (Beaten(q) => Beaten(q)')
  BY BeatenStays DEF Returned
<1>8. Overtaken'
  <2>1. \A q \in Calls : pc'[q] \in Missed => pc[q] \in Missed /\ email'[q] = email[q]
    BY <1>1 DEF Missed
  <2> QED
    BY <1>7, <2>1 DEF Overtaken
<1>9. Works'
  BY <1>7 DEF Works
<1> QED
  BY <1>2, <1>3, <1>4, <1>5, <1>6, <1>8, <1>9

\* A call returns without having stored its code.
LEMMA MailsReturn ==
  ASSUME Typed, Mails, NEW r \in Calls, NEW a, a # r,
         pc[r] # "done", pc' = [pc EXCEPT ![r] = "done"], pc[r] \notin {"none", "smtp_acquire"},
         answer' = [answer EXCEPT ![r] = a],
         UNCHANGED <<code, expired, unset, email, mailed>>
  PROVE  Mails'
<1> USE DEF Mails, Typed
<1>1. pc'[r] = "done" /\ \A q \in Calls : q # r => pc'[q] = pc[q]
  OBVIOUS
<1>2. \A q \in Calls : answer'[q] = q => answer[q] = q
  OBVIOUS
<1>3. Stored'
  BY <1>1 DEF Stored
<1>4. Pending' /\ Sent'
  BY <1>1 DEF Pending, Sent
<1>5. Returned'
  BY <1>1, <1>2 DEF Returned
<1>6. Aware'
  BY <1>1 DEF Aware, Missed
<1>7. Overtaken' /\ Works'
  BY <1>1, <1>2 DEF Overtaken, Works, Beaten, Missed
<1> QED
  BY <1>3, <1>4, <1>5, <1>6, <1>7

\* A call stores its code over any other.
LEMMA MailsStore ==
  ASSUME Typed, Mails, NEW r \in Calls, NEW a,
         pc[r] = "set", pc' = [pc EXCEPT ![r] = "done"],
         code' = [code EXCEPT ![email[r]] = r],
         answer' = [answer EXCEPT ![r] = a],
         UNCHANGED <<expired, unset, email, mailed>>
  PROVE  Mails'
<1> USE DEF Mails, Typed
<1>1. pc'[r] = "done" /\ \A q \in Calls : q # r => pc'[q] = pc[q]
  OBVIOUS
<1>2. /\ email[r] \in Emails /\ <<email[r], r>> \in mailed
      /\ code'[email[r]] = r
      /\ \A e \in Emails : e # email[r] => code'[e] = code[e]
  BY DEF Pending
<1>3. Stored'
  <2> SUFFICES ASSUME NEW e \in Emails, code'[e] # NoCode
               PROVE  <<e, code'[e]>> \in mailed /\ pc'[code'[e]] = "done"
    BY DEF Stored
  <2>1. CASE e = email[r]
    BY <1>1, <1>2, <2>1
  <2>2. CASE e # email[r]
    BY <1>1, <1>2, <2>2 DEF Stored
  <2> QED
    BY <2>1, <2>2
<1>4. Pending' /\ Sent'
  BY <1>1 DEF Pending, Sent
<1>5. Returned'
  BY <1>1 DEF Returned
<1>6. Aware'
  BY <1>1 DEF Aware, Missed
<1>7. \A q \in Calls : Beaten(q) <=> Beaten(q)'
  BY DEF Beaten
<1>8. Overtaken'
  <2> SUFFICES ASSUME NEW q \in Calls, NEW s \in Calls,
                      pc'[q] \in Missed, email[q] = email[s], answer'[s] = s, s \notin unset[q]
               PROVE  s \in expired \/ Beaten(s)
    BY <1>7 DEF Overtaken
  <2>1. q # r /\ pc[q] \in Missed
    BY <1>1 DEF Missed
  <2>2. s # r
    BY <2>1 DEF Aware
  <2> QED
    BY <2>1, <2>2 DEF Overtaken
<1>9. Works'
  <2> SUFFICES ASSUME NEW s \in Calls, answer'[s] = s, s \notin expired, code'[email[s]] # s
               PROVE  Beaten(s)
    BY <1>7 DEF Works
  <2>1. s # r /\ answer[s] = s /\ email[s] \in Emails
    BY <1>2 DEF Returned
  <2>2. CASE email[s] # email[r]
    BY <1>2, <2>1, <2>2 DEF Works
  <2>3. CASE email[s] = email[r] /\ s \in unset[r]
    BY <1>2, <2>1, <2>3 DEF Beaten
  <2>4. CASE email[s] = email[r] /\ s \notin unset[r]
    BY <2>1, <2>4 DEF Overtaken, Missed
  <2> QED
    BY <2>2, <2>3, <2>4
<1> QED
  BY <1>3, <1>4, <1>5, <1>6, <1>8, <1>9

\* A call finds no code.
LEMMA MailsMiss ==
  ASSUME Typed, Mails, NEW r \in Calls, GetMiss(r)
  PROVE  Mails'
<1> USE VarifyAssumption DEF Mails, Typed
<1>1. /\ pc[r] = "get" /\ code[email[r]] = NoCode /\ pc' = [pc EXCEPT ![r] = "smtp_acquire"]
      /\ unset' = [unset EXCEPT ![r] = {q \in Calls : pc[q] # "done"}]
      /\ UNCHANGED <<code, expired, answer, email, mailed>>
  BY DEF GetMiss, Goto, callvars
<1>2. /\ pc'[r] = "smtp_acquire" /\ \A q \in Calls : q # r => pc'[q] = pc[q] /\ unset'[q] = unset[q]
      /\ \A q \in Calls : q \in unset'[r] <=> pc[q] # "done"
  BY <1>1
<1>3. Stored'
  BY <1>1, <1>2 DEF Stored
<1>4. Pending'
  BY <1>1, <1>2 DEF Pending
<1>5. Sent'
  BY <1>1, <1>2 DEF Sent
<1>6. Returned'
  BY <1>1, <1>2 DEF Returned
<1>7. Aware'
  BY <1>1, <1>2 DEF Aware
<1>8. \A q \in Calls : Beaten(q) => Beaten(q)'
  BY <1>1, <1>2, BeatenStays
<1>9. Works'
  BY <1>1, <1>8 DEF Works
<1>10. Overtaken'
  <2> SUFFICES ASSUME NEW q \in Calls, NEW s \in Calls,
                      pc'[q] \in Missed, email[q] = email[s], answer[s] = s, s \notin unset'[q]
               PROVE  s \in expired \/ Beaten(s)
    BY <1>1, <1>8 DEF Overtaken
  <2>1. CASE q = r
    BY <1>1, <2>1 DEF Works
  <2>2. CASE q # r
    BY <1>2, <2>2 DEF Overtaken
  <2> QED
    BY <2>1, <2>2
<1> QED
  BY <1>3, <1>4, <1>5, <1>6, <1>7, <1>9, <1>10

LEMMA MailsVarify ==
  ASSUME Typed, Mails, NEW r \in Calls, GetVarifyCode(r)
  PROVE  Mails'
<1> USE VarifyAssumption DEF Goto, Return, callvars, Places
<1>1. CASE AcquireClient(r)
  <2>1. /\ UNCHANGED <<code, answer, expired, unset, email, mailed>>
        /\ \/ pc[r] = "get_acquire" /\ pc' = [pc EXCEPT ![r] = "get"]
           \/ pc[r] = "set_acquire" /\ pc' = [pc EXCEPT ![r] = "set"]
    BY <1>1 DEF AcquireClient
  <2>2. email[r] \in Emails
    BY <2>1 DEF Typed
  <2>3. <<email[r], r>> \in mailed <=> pc[r] = "set_acquire"
    BY <2>1, <2>2 DEF Mails, Sent, Pending
  <2>4. CASE pc[r] = "get_acquire" /\ pc' = [pc EXCEPT ![r] = "get"]
    BY <2>1, <2>3, <2>4, MailsQuiet DEF Missed
  <2>5. CASE pc[r] = "set_acquire" /\ pc' = [pc EXCEPT ![r] = "set"]
    BY <2>1, <2>3, <2>5, MailsQuiet DEF Missed
  <2> QED
    BY <2>1, <2>4, <2>5
<1>2. CASE AcquireSession(r)
  <2>1. /\ UNCHANGED <<code, answer, expired, unset, email, mailed>>
        /\ pc[r] = "smtp_acquire" /\ pc' = [pc EXCEPT ![r] = "send"]
    BY <1>2 DEF AcquireSession
  <2> QED
    BY <2>1, MailsQuiet DEF Missed
<1>3. CASE SendOk(r)
  <2>1. /\ UNCHANGED <<code, answer, expired, unset, email>>
        /\ mailed' = mailed \cup {<<email[r], r>>}
        /\ pc[r] = "send" /\ pc' = [pc EXCEPT ![r] = "set_acquire"]
    BY <1>3 DEF SendOk
  <2> QED
    BY <2>1, MailsQuiet DEF Missed
<1>4. CASE SendThrows(r) \/ ReconnectExits(r)
  <2>1. /\ UNCHANGED <<code, answer, expired, unset, email>>
        /\ mailed' \in {mailed, mailed \cup {<<email[r], r>>}}
        /\ pc[r] = "send" /\ pc' = pc
    BY <1>4 DEF SendThrows, ReconnectExits
  <2>2. pc' = [pc EXCEPT ![r] = "send"]
    BY <2>1 DEF Typed
  <2> QED
    BY <2>1, <2>2, MailsQuiet DEF Missed
<1>5. CASE GetMiss(r)
  BY <1>5, MailsMiss
<1>6. CASE GetHit(r)
  <2>1. /\ UNCHANGED <<code, expired, unset, email, mailed>>
        /\ pc[r] = "get" /\ pc' = [pc EXCEPT ![r] = "done"]
        /\ answer' = [answer EXCEPT ![r] = code[email[r]]] /\ code[email[r]] # NoCode
    BY <1>6 DEF GetHit
  <2>2. code[email[r]] # r
    BY <2>1 DEF Typed, Mails, Stored
  <2> QED
    BY <2>1, <2>2, MailsReturn
<1>7. CASE SendFails(r)
  <2>1. PICK a \in {"internal", "unknown"} : answer' = [answer EXCEPT ![r] = a]
    BY <1>7 DEF SendFails
  <2>2. /\ UNCHANGED <<code, expired, unset, email, mailed>>
        /\ pc[r] = "send" /\ pc' = [pc EXCEPT ![r] = "done"]
    BY <1>7 DEF SendFails
  <2> QED
    BY <2>1, <2>2, MailsReturn
<1>8. CASE RedisThrows(r)
  <2>1. /\ UNCHANGED <<expired, unset, email, mailed>>
        /\ pc[r] \in {"get", "set"} /\ pc' = [pc EXCEPT ![r] = "done"]
        /\ answer' = [answer EXCEPT ![r] = "unknown"]
    BY <1>8 DEF RedisThrows
  <2>2. CASE UNCHANGED code
    BY <2>1, <2>2, MailsReturn
  <2>3. CASE pc[r] = "set" /\ code' = [code EXCEPT ![email[r]] = r]
    BY <2>1, <2>3, MailsStore
  <2> QED
    BY <1>8, <2>2, <2>3 DEF RedisThrows
<1>9. CASE SetEx(r)
  BY <1>9, MailsStore DEF SetEx
<1> QED
  BY <1>1, <1>2, <1>3, <1>4, <1>5, <1>6, <1>7, <1>8, <1>9 DEF GetVarifyCode

LEMMA MailsNext == Typed /\ Mails /\ [Next]_vars => Mails'
<1> SUFFICES ASSUME Typed, Mails, [Next]_vars PROVE Mails'
  OBVIOUS
<1>1. ASSUME NEW r \in Calls, GetVarifyCode(r), UNCHANGED accountvars PROVE Mails'
  BY <1>1, MailsVarify
<1>2. ASSUME NEW r \in Calls, NEW e \in Emails, CallVarify(r, e) PROVE Mails'
  <2>1. /\ pc[r] = "none" /\ pc' = [pc EXCEPT ![r] = "get_acquire"]
        /\ email' = [email EXCEPT ![r] = e]
        /\ UNCHANGED <<code, answer, expired, unset, mailed>>
    BY <1>2 DEF CallVarify, VarifyCall, Goto
  <2>2. \A q \in Calls : q # r => email'[q] = email[q]
    BY <2>1 DEF Typed
  <2>3. <<email[r], r>> \notin mailed
    BY <2>1 DEF Typed, Mails, Sent
  <2> QED
    BY <2>1, <2>2, <2>3, MailsQuiet DEF Missed, Places
<1>3. ASSUME NEW e \in Emails, Expire(e) PROVE Mails'
  <2> USE DEF Mails, Typed
  <2>1. /\ code[e] \in Calls /\ code' = [code EXCEPT ![e] = NoCode] /\ expired' = expired \cup {code[e]}
        /\ UNCHANGED <<pc, answer, unset, email, mailed>>
    BY <1>3 DEF Expire, callvars
  <2>2. Stored' /\ Pending' /\ Sent' /\ Returned' /\ Aware'
    BY <2>1 DEF Stored, Pending, Sent, Returned, Aware
  <2>3. \A q \in Calls : Beaten(q) <=> Beaten(q)'
    BY <2>1 DEF Beaten
  <2>4. Overtaken'
    BY <2>1, <2>3 DEF Overtaken
  <2>5. Works'
    <3> SUFFICES ASSUME NEW s \in Calls, answer[s] = s, s \notin expired', code'[email[s]] # s
                 PROVE  Beaten(s)
      BY <2>1, <2>3 DEF Works
    <3>1. email[s] \in Emails
      BY DEF Returned
    <3>2. code[email[s]] # s
      BY <2>1, <3>1
    <3> QED
      BY <2>1, <3>2 DEF Works
  <2> QED
    BY <2>2, <2>4, <2>5
<1>4. ASSUME UNCHANGED varifyvars PROVE Mails'
  BY <1>4
  DEF Mails, Stored, Pending, Sent, Returned, Aware, Overtaken, Works, Beaten, varifyvars, callvars
<1>5. ASSUME NEW r \in Calls,
             RequestCode(r) \/ CallFails(r) \/ VarifyAnswers(r) \/ CallTimesOut(r)
      PROVE  Mails'
  BY <1>4, <1>5 DEF RequestCode, CallFails, VarifyAnswers, CallTimesOut
<1>6. ASSUME NEW g \in Regs,
             \/ \E e \in Emails, k \in Calls \cup {NoCode} : Register(g, e, k)
             \/ CountUser(g) \/ InsertUser(g) \/ DbFails(g)
      PROVE  Mails'
  BY <1>4, <1>6 DEF Register, CountUser, InsertUser, DbFails
<1>7. CASE UNCHANGED vars
  BY <1>4, <1>7 DEF vars
<1> QED
  BY <1>1, <1>2, <1>3, <1>5, <1>6, <1>7 DEF Next

\* A code that was mailed and stored works until it expires, unless another
\* call found no code for the address before this one stored its own.
THEOREM MailedCodeWorksCorrect == Spec => []MailedCodeWorks
<1>1. Mails => MailedCodeWorks
  BY DEF Mails, Works, Beaten, MailedCodeWorks
<1> QED
  BY <1>1, TypedInit, TypedNext, MailsInit, MailsNext, PTL DEF Spec
-----------------------------------------------------------------------------
(***************************************************************************)
(* The accounts.                                                            *)
(***************************************************************************)

\* A registration whose code was right has a code that was mailed; it has no
\* account and was told nothing before it ends.
Running ==
  \A g \in Regs :
    /\ place[g] \in {"count", "insert"} => <<form[g].email, form[g].code>> \in mailed
    /\ place[g] # "done" => result[g] = "none" /\ \A e \in Emails : user[e] # g

Owners == Running /\ OwnerHadCode /\ ToldTheTruth

LEMMA OwnersInit == Init => Owners
BY AccountAssumption DEF Init, Owners, Running, OwnerHadCode, ToldTheTruth

LEMMA OwnersNext == Typed /\ Mails /\ Owners /\ [Next]_vars => Owners'
<1> SUFFICES ASSUME Typed, Mails, Owners, [Next]_vars PROVE Owners'
  OBVIOUS
<1> USE AccountAssumption DEF Owners, Results
<1>1. ASSUME UNCHANGED regvars, mailed \subseteq mailed' PROVE Owners'
  BY <1>1 DEF regvars, Running, OwnerHadCode, ToldTheTruth
<1>2. ASSUME NEW r \in Calls, GetVarifyCode(r), UNCHANGED accountvars PROVE Owners'
  <2>1. mailed \subseteq mailed'
    BY <1>2
    DEF GetVarifyCode, AcquireClient, GetHit, GetMiss, RedisThrows, AcquireSession, SendOk,
        SendThrows, ReconnectExits, SendFails, SetEx
  <2> QED
    BY <1>1, <1>2, <2>1 DEF accountvars
<1>3. ASSUME NEW r \in Calls,
             \/ RequestCode(r) \/ (\E e \in Emails : CallVarify(r, e)) \/ CallFails(r)
             \/ VarifyAnswers(r) \/ CallTimesOut(r)
      PROVE  Owners'
  BY <1>1, <1>3
  DEF RequestCode, CallVarify, VarifyCall, CallFails, VarifyAnswers, CallTimesOut, varifyvars
<1>4. ASSUME NEW e \in Emails, Expire(e), UNCHANGED accountvars PROVE Owners'
  BY <1>1, <1>4 DEF Expire, accountvars
<1>5. CASE UNCHANGED vars
  BY <1>1, <1>5 DEF vars, accountvars, varifyvars
<1>6. ASSUME NEW g \in Regs, NEW e \in Emails, NEW k \in Calls \cup {NoCode}, Register(g, e, k)
      PROVE  Owners'
  <2>1. /\ place[g] = "none" /\ form' = [form EXCEPT ![g] = [email |-> e, code |-> k]]
        /\ UNCHANGED <<user, dberror, mailed>>
        /\ \/ /\ <<e, k>> \in mailed /\ place' = [place EXCEPT ![g] = "count"] /\ result' = result
           \/ /\ result' = [result EXCEPT ![g] = "code_error"] /\ place' = [place EXCEPT ![g] = "done"]
    BY <1>6 DEF Register, CodeMatches, Tell, To, varifyvars, Mails, Stored
  <2>2. /\ form'[g].email = e /\ form'[g].code = k
        /\ \A h \in Regs : h # g => form'[h] = form[h] /\ result'[h] = result[h] /\ place'[h] = place[h]
        /\ result'[g] \in {"none", "code_error"} /\ place'[g] \in {"count", "done"}
        /\ place'[g] = "count" => result'[g] = "none" /\ <<e, k>> \in mailed
    <3>1. form'[g] = [email |-> e, code |-> k] /\ \A h \in Regs : h # g => form'[h] = form[h]
      BY <2>1 DEF Typed
    <3>2. result[g] = "none"
      BY <2>1 DEF Running
    <3>3. \A h \in Regs : h # g => result'[h] = result[h] /\ place'[h] = place[h]
      BY <2>1 DEF Typed
    <3>4. \/ <<e, k>> \in mailed /\ place'[g] = "count" /\ result'[g] = "none"
          \/ place'[g] = "done" /\ result'[g] = "code_error"
      BY <2>1, <3>2 DEF Typed
    <3> QED
      BY <3>1, <3>3, <3>4
  <2>3. \A d \in Emails : user[d] # g
    BY <2>1 DEF Running
  <2>4. Running'
    BY <2>1, <2>2, <2>3 DEF Running
  <2>5. OwnerHadCode'
    BY <2>1, <2>2, <2>3 DEF OwnerHadCode, Typed
  <2>6. ToldTheTruth'
    BY <2>1, <2>2 DEF ToldTheTruth, Typed
  <2> QED
    BY <2>4, <2>5, <2>6
<1>7. ASSUME NEW g \in Regs, CountUser(g) \/ InsertUser(g) \/ DbFails(g) PROVE Owners'
  <2> DEFINE e == form[g].email
  <2>1. /\ e \in Emails /\ <<e, form[g].code>> \in mailed
        /\ place[g] \in {"count", "insert"} /\ UNCHANGED <<form, mailed>>
    BY <1>7 DEF CountUser, InsertUser, DbFails, varifyvars, Running, Typed
  <2>2. \A d \in Emails : user[d] # g
    BY <2>1 DEF Running
  <2> HIDE DEF e
  <2>3. ASSUME UNCHANGED <<user, result>>, place' = [place EXCEPT ![g] = "insert"], dberror \subseteq dberror'
        PROVE  Owners'
    BY <2>1, <2>3 DEF Running, OwnerHadCode, ToldTheTruth, Typed
  <2>4. ASSUME UNCHANGED user, NEW x \in {"exists", "busy"},
               result' = [result EXCEPT ![g] = x], place' = [place EXCEPT ![g] = "done"],
               dberror \subseteq dberror', g \in dberror' \/ user[e] # NoReg
        PROVE  Owners'
    <3>1. Running' /\ OwnerHadCode'
      BY <2>1, <2>4 DEF Running, OwnerHadCode, Typed
    <3>2. ToldTheTruth'
      BY <2>1, <2>2, <2>4 DEF ToldTheTruth, Typed, e
    <3> QED
      BY <3>1, <3>2
  <2>5. ASSUME user[e] = NoReg, user' = [user EXCEPT ![e] = g], NEW x \in {"ok", "busy"},
               result' = [result EXCEPT ![g] = x], place' = [place EXCEPT ![g] = "done"],
               dberror \subseteq dberror', x = "busy" => g \in dberror'
        PROVE  Owners'
    <3>1. user'[e] = g /\ \A d \in Emails : d # e => user'[d] = user[d]
      BY <2>1, <2>5 DEF Typed
    <3>2. /\ result'[g] = x /\ place'[g] = "done"
          /\ \A h \in Regs : h # g => result'[h] = result[h] /\ place'[h] = place[h]
      BY <2>5 DEF Typed
    <3>3. Running'
      BY <2>1, <3>1, <3>2 DEF Running
    <3>4. OwnerHadCode'
      BY <2>1, <3>1 DEF OwnerHadCode, e
    <3>5. ToldTheTruth'
      <4> SUFFICES ASSUME NEW h \in Regs
                   PROVE  /\ result'[h] = "ok" => user'[form[h].email] = h
                          /\ result'[h] \in {"exists", "busy"} /\ h \notin dberror' =>
                               user'[form[h].email] \notin {h, NoReg}
        BY <2>1 DEF ToldTheTruth
      <4>1. CASE h = g
        BY <2>5, <3>1, <3>2, <4>1 DEF e
      <4>2. CASE h # g
        BY <2>5, <3>1, <3>2, <4>2 DEF ToldTheTruth
      <4> QED
        BY <4>1, <4>2
    <3> QED
      BY <3>3, <3>4, <3>5
  <2>6. CASE CountUser(g)
    <3>1. CASE user[e] = NoReg
      BY <2>3, <2>6, <3>1 DEF CountUser, Tell, To, e
    <3>2. CASE user[e] # NoReg
      BY <2>4, <2>6, <3>2 DEF CountUser, Tell, To, e
    <3> QED
      BY <3>1, <3>2
  <2>7. CASE InsertUser(g)
    <3>1. CASE user[e] = NoReg
      BY <2>5, <2>7, <3>1 DEF InsertUser, Tell, To, e
    <3>2. CASE user[e] # NoReg
      BY <2>4, <2>7, <3>2 DEF InsertUser, Tell, To, e
    <3> QED
      BY <3>1, <3>2
  <2>8. CASE DbFails(g)
    BY <2>4, <2>5, <2>8 DEF DbFails, Tell, To, e
  <2> QED
    BY <1>7, <2>6, <2>7, <2>8
<1> QED
  BY <1>2, <1>3, <1>4, <1>5, <1>6, <1>7 DEF Next

\* Whoever owns an account had a code that was mailed to its address.
THEOREM OwnerHadCodeCorrect == Spec => []OwnerHadCode
<1>1. Owners => OwnerHadCode
  BY DEF Owners
<1> QED
  BY <1>1, TypedInit, TypedNext, MailsInit, MailsNext, OwnersInit, OwnersNext, PTL DEF Spec

\* A registration is told "ok" only when the account is its own, and "exists"
\* or "busy", without an error of MySQL, only when it is another's.
THEOREM ToldTheTruthCorrect == Spec => []ToldTheTruth
<1>1. Owners => ToldTheTruth
  BY DEF Owners
<1> QED
  BY <1>1, TypedInit, TypedNext, MailsInit, MailsNext, OwnersInit, OwnersNext, PTL DEF Spec
=============================================================================
