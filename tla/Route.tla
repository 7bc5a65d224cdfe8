------------------------------- MODULE Route -------------------------------
(***************************************************************************)
(* route: the table of message servers, from the flag msg_gate_servers and  *)
(* from heartbeats, and which of them a user is sent to.  Handlers run      *)
(* concurrently; a heartbeat takes server_lock_ for the tables and then the *)
(* lock of the server for its users.                                        *)
(*                                                                          *)
(* A location is a sequence of characters, one of which separates the       *)
(* fields of the flag.  A server is known by its observed location; the one *)
(* MsgServerHeartBeat registers has the empty one, for observed is never    *)
(* assigned.  Loads are all 0: nothing writes them.  The token that         *)
(* DispatchMsgServer stores is modelled in GateSessions.                    *)
(***************************************************************************)
EXTENDS Integers, Sequences, SequencesExt

CONSTANTS Chars, Delim, MaxFlag,  \* the flag: at most MaxFlag characters
          Uids,
          Beats,                  \* heartbeats
          Nowhere                 \* of a user without a server

ASSUME RouteAssumption == Delim \in Chars /\ MaxFlag \in Nat /\ Nowhere # <<>>

VARIABLES
  up,         \* the process runs
  flag,       \* msg_gate_servers
  servers,    \* observed_to_msg_servers_: its keys
  users,      \* the users of each server
  routes,     \* uid_to_msg_servers_: each user's server
  place,      \* each heartbeat's next section
  uids,       \* the users it reports
  location    \* what DispatchMsgServer last told each user

vars == <<up, flag, servers, users, routes, place, uids, location>>

Nameless == <<>>

-----------------------------------------------------------------------------
\* The position of the delimiter in s, 0 if there is none (find).
FindDelim(s) ==
  IF \E i \in DOMAIN s : s[i] = Delim
    THEN CHOOSE i \in DOMAIN s : s[i] = Delim /\ \A j \in 1..i-1 : s[j] # Delim
    ELSE 0

Split_LosesLast(s, keep_empty) ==
  LET from[cur \in SeqOf(Chars, Len(s))] ==
        LET pos == FindDelim(cur)
            rest == SubSeq(cur, pos + 1, Len(cur))
            field == IF pos # 1 \/ keep_empty THEN <<SubSeq(cur, 1, pos - 1)>> ELSE <<>>
        IN IF pos = 0 \/ rest = <<>> THEN field ELSE field \o from[rest]
  IN IF s = <<>> THEN <<>> ELSE from[s]

\* Split: the field before each delimiter and the one after the last; empty
\* fields only if keep_empty.
Split(s, keep_empty) ==
  LET from[cur \in SeqOf(Chars, Len(s))] ==
        LET pos == FindDelim(cur)
            rest == SubSeq(cur, pos + 1, Len(cur))
            head == IF pos = 0 THEN cur ELSE SubSeq(cur, 1, pos - 1)
            field == IF pos # 1 \/ keep_empty THEN <<head>> ELSE <<>>
        IN CASE pos = 0 -> field
             [] pos # 0 /\ rest = <<>> -> field \o (IF keep_empty THEN <<(<<>>)>> ELSE <<>>)
             [] OTHER -> field \o from[rest]
  IN IF s = <<>> THEN <<>> ELSE from[s]

-----------------------------------------------------------------------------
TypeOK ==
  /\ up \in BOOLEAN
  /\ flag \in SeqOf(Chars, MaxFlag)
  /\ servers \subseteq SeqOf(Chars, MaxFlag)
  /\ users \in [servers -> SUBSET Uids]
  /\ routes \in [Uids -> servers \cup {Nowhere}]
  /\ place \in [Beats -> {"none", "users", "done"}]
  /\ uids \in [Beats -> SUBSET Uids]
  /\ location \in [Uids -> servers \cup {Nowhere}]

\* RouteServiceImpl(): a server for each field of the flag.
Init ==
  /\ up = TRUE
  /\ flag \in SeqOf(Chars, MaxFlag)
  /\ servers = ToSet(Split(flag, FALSE))
  /\ users = [s \in servers |-> {}]
  /\ routes = [u \in Uids |-> Nowhere]
  /\ place = [b \in Beats |-> "none"]
  /\ uids = [b \in Beats |-> {}]
  /\ location = [u \in Uids |-> Nowhere]

Dispatch_NoCheck(u) ==
  /\ up
  /\ \E s \in servers \cup {Nameless} : location' = [location EXCEPT ![u] = s]
  /\ UNCHANGED <<up, flag, servers, users, routes, place, uids>>

\* DispatchMsgServer: the server with the least load, so the first of the
\* table, in no particular order.  Without servers it is NOT_FOUND.
Dispatch(u) ==
  /\ up
  /\ \E s \in servers : location' = [location EXCEPT ![u] = s]
  /\ UNCHANGED <<up, flag, servers, users, routes, place, uids>>

BeatKnown_KeepsRoutes(b, us) ==
  /\ up /\ place[b] = "none"
  /\ Nameless \in servers
  /\ uids' = [uids EXCEPT ![b] = us]
  /\ place' = [place EXCEPT ![b] = "users"]
  /\ UNCHANGED <<up, flag, servers, users, routes, location>>

\* MsgServerHeartBeat under server_lock_, of a server in the table: its users
\* are routed to it.
BeatKnown(b, us) ==
  /\ up /\ place[b] = "none"
  /\ Nameless \in servers
  /\ routes' = [u \in Uids |-> IF u \in us THEN Nameless ELSE routes[u]]
  /\ uids' = [uids EXCEPT ![b] = us]
  /\ place' = [place EXCEPT ![b] = "users"]
  /\ UNCHANGED <<up, flag, servers, users, location>>

\* The same of a new one: it enters the table, but iter is still end(), and
\* the first user that is routed through it ends the process.
BeatNew(b, us) ==
  /\ up /\ place[b] = "none"
  /\ Nameless \notin servers
  /\ servers' = servers \cup {Nameless}
  /\ users' = [s \in servers' |-> IF s \in servers THEN users[s] ELSE {}]
  /\ up' = (us = {})
  /\ uids' = [uids EXCEPT ![b] = us]
  /\ place' = [place EXCEPT ![b] = "users"]
  /\ UNCHANGED <<flag, routes, location>>

\* The second section, under the server's lock: its users are replaced.
BeatUsers(b) ==
  /\ up /\ place[b] = "users"
  /\ users' = [users EXCEPT ![Nameless] = uids[b]]
  /\ place' = [place EXCEPT ![b] = "done"]
  /\ UNCHANGED <<up, flag, servers, routes, uids, location>>

Next ==
  \/ \E u \in Uids : Dispatch(u)
  \/ \E b \in Beats : (\E us \in SUBSET Uids : BeatKnown(b, us) \/ BeatNew(b, us)) \/ BeatUsers(b)

Spec == Init /\ [][Next]_vars

\* GetMsgServer: the user's server, or all of them.
GetMsgServer(u) == IF routes[u] # Nowhere THEN {routes[u]} ELSE servers

-----------------------------------------------------------------------------
\* The fields of s by their places: what lies between two delimiters (or an
\* end) with none in between.
FieldsOf(s) ==
  {SubSeq(s, q[1], q[2]) : q \in
     {p \in (1..Len(s)+1) \X (0..Len(s)) :
        /\ p[1] <= p[2] + 1
        /\ p[1] = 1 \/ s[p[1] - 1] = Delim
        /\ p[2] = Len(s) \/ s[p[2] + 1] = Delim
        /\ \A k \in p[1]..p[2] : s[k] # Delim}}

\* The fields of fs with a delimiter between each two.
Join[fs \in {x \in Seq(Seq(Chars)) : Len(x) <= MaxFlag + 1}] ==
  IF Len(fs) < 2 THEN Head(fs) ELSE Head(fs) \o <<Delim>> \o Join[Tail(fs)]

\* Split finds the fields of a flag, wherever its delimiters stand: at an end,
\* side by side or alone.  With keep_empty the fields in their order make up
\* the whole flag again; without, all but the empty ones are there.
SplitRight ==
  /\ ToSet(Split(flag, FALSE)) = FieldsOf(flag) \ {<<>>}
  /\ flag # <<>> =>
       /\ ToSet(Split(flag, TRUE)) = FieldsOf(flag)
       /\ Join[Split(flag, TRUE)] = flag

\* A heartbeat updates the two tables under two locks, and two heartbeats may
\* take them in different orders: still whoever is listed at a server is routed
\* to it, so GetMsgServer finds him there and nowhere else.
ListedIsRouted ==
  \A s \in servers : \A u \in users[s] : GetMsgServer(u) = {s}
=============================================================================
