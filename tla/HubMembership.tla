---------------------------- MODULE HubMembership ----------------------------
(***************************************************************************)
(* How a machine joins a team hub, stays a member and shares:              *)
(* core/hub/server.ts, client.ts, runtime.ts and storage/repos/hub.ts.     *)
(*                                                                         *)
(* The hub keeps a row for each user.  A client keeps one connection row   *)
(* and, in memory, a runtime: an object made at start and again for every  *)
(* change of the configuration.  A runtime starts with an exchange of      *)
(* requests, polls while it is pending, and asks again whenever the viewer *)
(* shows the hub's page.  Each of these flows reads the connection row,    *)
(* awaits the hub, and writes the whole row; the hub gives out a new token *)
(* with every answer to an active user and forgets the old one.  The flows *)
(* of a runtime go on after it has been stopped.                           *)
(*                                                                         *)
(* A handler of the hub runs alone once the body of its request is there.  *)
(* Requests and answers may be lost; a request that its client has given   *)
(* up may still arrive.  A token is its hash.  The name of a row is the     *)
(* nickname of the runtime that sent it.  Users share one memory each.     *)
(***************************************************************************)
EXTENDS Integers, FiniteSets

CONSTANTS
  Runtimes,    \* records with a client and its nickname (name); those of a client are
               \* numbered in the order in which it takes them
  MaxUsers,    \* bound on the users the hub ever creates
  MaxFlows,    \* bound on the exchanges under way at one time
  MaxEvents    \* bound on losses, crashes, shares and what administrators do

Clients == {r.client : r \in Runtimes}
Names   == {r.name : r \in Runtimes}
Users   == 1 .. MaxUsers    \* ids in the order they are created
None    == 0                \* the empty string: no user, no token, no key
Stale   == -1               \* a token the hub has forgotten
Tokens  == Users \cup {None, Stale}

NoRuntime == [client |-> "none"]

ASSUME HubAssumption ==
  /\ IsFiniteSet(Runtimes) /\ Names \subseteq Nat /\ NoRuntime \notin Runtimes
  /\ {MaxUsers, MaxFlows} \subseteq Nat \ {0} /\ MaxEvents \in Nat

VARIABLES
  user,      \* hub_users
  shared,    \* the users with a visible row in hub_shared_memories
  upload,    \* the users whose share or unshare request is being read
  conn,      \* client_hub_connection
  runtime,   \* hubRuntime of each client
  used,      \* the runtimes there have been
  polling,   \* the runtimes whose pendingPollTimer runs
  flow,      \* the frames of connect, refreshStatus and of a poll
  stray,     \* requests given up by their clients that have not arrived yet
  excused,   \* users removed during an upload, or approved or rejected after their removal
  events

hubVars == <<user, shared, upload, conn, runtime, used, polling, flow, stray, excused, events>>

Status == {"pending", "active", "rejected", "removed"}
Row    == [status : Status, name : Names, key : Users, token : Users \cup {None}]
NoRow  == [status |-> "none"]       \* not created yet
Gone   == [status |-> "lost"]       \* the hub's data has been lost

Conn   == [status : Status \cup {"none", "username_taken", "not_registered"},
           user : Users \cup {None}, key : Users \cup {None}, token : Tokens]
NoConn == [status |-> "none", user |-> None, key |-> None, token |-> None]

Flows   == {"start", "refresh", "poll"}
Stage   == {"idle", "check", "me", "recheck", "lastcheck", "join"}
Reply(why, u) == [status |-> why, user |-> u, key |-> None, token |-> None]
NoReply == Reply("awaited", None)
Idle    == [stage |-> "idle", copy |-> NoConn, reply |-> NoReply]
Asking(stage, copy) == [stage |-> stage, copy |-> copy, reply |-> NoReply]

HubInit ==
  /\ user = [u \in Users |-> NoRow]
  /\ shared = {} /\ upload = {}
  /\ conn = [c \in Clients |-> NoConn]
  /\ runtime = [c \in Clients |-> NoRuntime]
  /\ used = {} /\ polling = {}
  /\ flow = [r \in Runtimes |-> [f \in Flows |-> Idle]]
  /\ stray = {} /\ excused = {} /\ events = 0

Event == events < MaxEvents /\ events' = events + 1

-----------------------------------------------------------------------------
(* The hub.                                                                *)

Exists(u) == user[u] \notin {NoRow, Gone}
Unused    == {u \in Users : user[u] = NoRow /\ \A v \in 1 .. u - 1 : user[v] # NoRow}

\* findUserByUsername: the newest user of that name who has not been removed.
Named(name) ==
  LET all == {u \in Users : Exists(u) /\ user[u].name = name /\ user[u].status # "removed"}
  IN  {u \in all : \A v \in all : v <= u}

Keyed(key) == {u \in Users : Exists(u) /\ user[u].key = key}

\* The hub keeps one token of a user: once it has another, or none, whoever holds
\* the one before holds a stale one.
Staled(row, S) == [row EXCEPT !.token = IF @ \in S THEN Stale ELSE @]
StaledFlow(S) ==
  [r \in Runtimes |-> [f \in Flows |->
     [flow[r][f] EXCEPT !.copy = Staled(@, S), !.reply = Staled(@, S)]]]
StaledStray(all, S) == {[m EXCEPT !.copy = Staled(@, S)] : m \in all}
Forget(S) ==
  /\ conn' = [c \in Clients |-> Staled(conn[c], S)]
  /\ flow' = StaledFlow(S)
  /\ stray' = StaledStray(stray, S)

Refusal(why) == [table |-> user, reply |-> Reply(why, None)]

\* The row is written and the client hears its status; an active user gets a new
\* token.
Tell(u, row) ==
  LET token == IF row.status = "active" THEN u ELSE None
  IN  [table |-> [user EXCEPT ![u] = [row EXCEPT !.token = IF token = u THEN u ELSE @]],
       reply |-> [status |-> row.status, user |-> u, key |-> row.key, token |-> token]]

\* Mutant: a user is renamed without a look at the others.
CheckUnguarded(req) ==
  LET who == IF req.copy.user # None /\ Exists(req.copy.user)
             THEN {req.copy.user} ELSE Named(req.name)
  IN  IF who = {} THEN Refusal("not_found")
      ELSE LET u == CHOOSE v \in who : TRUE IN Tell(u, [user[u] EXCEPT !.name = req.name])

\* registration-status: the user of that id, under the name it has now, or else
\* the user of that name.
Check(req) ==
  LET known == req.copy.user # None /\ Exists(req.copy.user)
      who   == IF known THEN {req.copy.user} ELSE Named(req.name)
  IN  IF known /\ user[req.copy.user].name # req.name /\ Named(req.name) # {}
      THEN Refusal("username_taken")
      ELSE IF who = {} THEN Refusal("not_found")
      ELSE LET u == CHOOSE v \in who : TRUE IN Tell(u, [user[u] EXCEPT !.name = req.name])

\* handleJoin and respondExistingJoin: the user of that name, or of that identity
\* key, asks again; otherwise there is a new one.
Join(req) ==
  LET who == IF Named(req.name) # {} THEN Named(req.name) ELSE Keyed(req.copy.key)
      u   == CHOOSE v \in IF who = {} THEN Unused ELSE who : TRUE
      new == [status |-> "pending", name |-> req.name, token |-> None,
              key |-> IF req.copy.key = None THEN u ELSE req.copy.key]
      old == [user[u] EXCEPT !.name = req.name,
                !.status = IF @ = "active" THEN "active" ELSE "pending"]
  IN  Tell(u, IF who = {} THEN new ELSE old)

\* The user a bearer token authenticates.
Bearer(token) == {u \in Users : Exists(u) /\ user[u].status = "active" /\ token = u}

Me(req) ==
  IF Bearer(req.copy.token) = {} THEN Refusal("unauthorized")
  ELSE [table |-> user, reply |-> Reply("ok", req.copy.token)]

Answer(req) ==
  CASE req.stage = "me"   -> Me(req)
    [] req.stage = "join" -> Join(req)
    [] OTHER              -> Check(req)

Roomy(req) == req.stage = "join" => Unused # {}   \* bound

\* The request arrives; later, or never, its client reads the reply.
Handle(r, f) ==
  /\ flow[r][f].stage # "idle" /\ flow[r][f].reply = NoReply
  /\ LET req == [stage |-> flow[r][f].stage, copy |-> flow[r][f].copy, name |-> r.name]
         new == {Answer(req).reply.token} \ {None}
     IN  /\ Roomy(req)
         /\ user' = Answer(req).table
         /\ conn' = [c \in Clients |-> Staled(conn[c], new)]
         /\ flow' = [StaledFlow(new) EXCEPT ![r][f].reply = Answer(req).reply]
         /\ stray' = StaledStray(stray, new)
  /\ UNCHANGED <<shared, upload, runtime, used, polling, excused, events>>

HandleStray(req) ==
  /\ Roomy(req)
  /\ LET new == {Answer(req).reply.token} \ {None}
     IN  /\ user' = Answer(req).table
         /\ conn' = [c \in Clients |-> Staled(conn[c], new)]
         /\ flow' = StaledFlow(new)
         /\ stray' = StaledStray(stray \ {req}, new)
  /\ UNCHANGED <<shared, upload, runtime, used, polling, excused, events>>

\* A removed user is back, whoever has taken the name meanwhile.
Revived(u) == IF user[u].status = "removed" THEN excused \cup {u} ELSE excused

\* approveUser and rejectUser ask for no status.  (A user who waits is no event.)
Approve(u) ==
  /\ Exists(u)
  /\ IF user[u].status = "pending" THEN events' = events ELSE Event
  /\ user' = [user EXCEPT ![u].status = "active", ![u].token = u]
  /\ Forget({u})
  /\ excused' = Revived(u)
  /\ UNCHANGED <<shared, upload, runtime, used, polling>>

Reject(u) ==
  /\ Exists(u) /\ Event
  /\ user' = [user EXCEPT ![u].status = "rejected", ![u].token = None]
  /\ Forget({u})
  /\ excused' = Revived(u)
  /\ UNCHANGED <<shared, upload, runtime, used, polling>>

\* Mutant: what the user has shared stays.
HiddenNever(u) == shared

HiddenOf(u) == shared \ {u}

RemoveUser(u) ==
  /\ Exists(u) /\ Event
  /\ user' = [user EXCEPT ![u].status = "removed", ![u].token = None]
  /\ Forget({u})
  /\ shared' = HiddenOf(u)
  /\ excused' = IF u \in upload THEN excused \cup {u} ELSE excused
  /\ UNCHANGED <<upload, runtime, used, polling>>

\* A day is over, for the token of a user.
Expire(u) ==
  /\ Exists(u) /\ user[u].token # None /\ Event
  /\ user' = [user EXCEPT ![u].token = None]
  /\ Forget({u})
  /\ UNCHANGED <<shared, upload, runtime, used, polling, excused>>

\* The hub is set up anew.
Reset ==
  /\ Event
  /\ user' = [u \in Users |-> IF Exists(u) THEN Gone ELSE user[u]]
  /\ shared' = {} /\ upload' = {}
  /\ Forget(Users)
  /\ UNCHANGED <<runtime, used, polling, excused>>

-----------------------------------------------------------------------------
(* A runtime asks.                                                         *)

Calm == Cardinality({s \in Runtimes \X Flows : flow[s[1]][s[2]] # Idle}) < MaxFlows   \* bound

\* restartHubRuntime, or the start of the process: the old runtime is stopped,
\* which clears its timers, and connect reads the connection.
Begin(r) ==
  /\ {q \in Runtimes : q.client = r.client /\ q.name < r.name} \subseteq used
  /\ r \notin used /\ Calm
  /\ used' = used \cup {r}
  /\ runtime' = [runtime EXCEPT ![r.client] = r]
  /\ polling' = polling \ {runtime[r.client]}
  /\ flow' = [flow EXCEPT ![r]["start"] =
       Asking(IF conn[r.client].user = None THEN "join" ELSE "check", conn[r.client])]
  /\ UNCHANGED <<user, shared, upload, conn, stray, excused, events>>

Ask(r, f) ==
  /\ flow[r][f] = Idle /\ Calm /\ conn[r.client].user # None
  /\ flow' = [flow EXCEPT ![r][f] = Asking("check", conn[r.client])]
  /\ UNCHANGED <<user, shared, upload, conn, runtime, used, polling, stray, excused, events>>

\* The viewer asks the current runtime for the status.  (Bound: one at a time.)
Refresh(r) == r = runtime[r.client] /\ Ask(r, "refresh")

\* A poll is over before the next one: the timeout of a request is shorter.
Poll(r) == r \in polling /\ Ask(r, "poll")

-----------------------------------------------------------------------------
(* ... and hears.                                                          *)

\* Mutant: the token of the connection as it was read is kept.
CheckedKeepingToken(copy, reply) ==
  IF reply.status \in {"active", "pending"}
  THEN [status |-> reply.status, user |-> reply.user, key |-> reply.key, token |-> copy.token]
  ELSE [copy EXCEPT !.status = reply.status]

\* What checkRegistrationStatus makes of the connection row.
Checked(copy, reply) ==
  IF reply.status \in {"active", "pending"}
  THEN [status |-> reply.status, user |-> reply.user, key |-> reply.key, token |-> reply.token]
  ELSE [copy EXCEPT !.status = reply.status, !.token = None]

\* The flow goes on with another request, or is over; row is what it has written.
Goes(r, f, row, frame) ==
  /\ conn' = [conn EXCEPT ![r.client] = row]
  /\ flow' = [flow EXCEPT ![r][f] = frame]

Write(r, row, frame, armed) ==
  /\ Goes(r, "start", row, frame)
  /\ polling' = IF armed THEN polling \cup {r} ELSE polling

\* After the first check without a result.
Second(copy) == IF copy.token # None THEN Asking("me", copy) ELSE Asking("join", copy)

\* connect and start.
HearStart(r) ==
  LET frame == flow[r]["start"]   copy == frame.copy   reply == frame.reply
      same  == conn[r.client]
  IN  CASE frame.stage \in {"check", "recheck", "lastcheck", "join"}
             /\ reply.status \in {"active", "pending"} ->
             Write(r, Checked(copy, reply), Idle, reply.status = "pending")
        [] frame.stage = "check" /\ reply.status = "username_taken" ->
             Write(r, [copy EXCEPT !.status = "username_taken", !.token = None], Idle, FALSE)
        [] frame.stage = "check" /\ reply.status = "not_found" ->
             Write(r, [copy EXCEPT !.status = "not_registered", !.token = None], Second(copy), FALSE)
        [] frame.stage = "check" /\ reply.status \in {"rejected", "removed"} ->
             Write(r, Checked(copy, reply), Second(copy), FALSE)
        [] frame.stage = "me" /\ reply.status = "ok" ->
             Write(r, same, Asking("recheck", [copy EXCEPT !.user = reply.user, !.status = "active"]), FALSE)
        [] frame.stage = "me" /\ reply.status = "unauthorized" ->
             Write(r, same, Asking("lastcheck", [copy EXCEPT !.token = None]), FALSE)
        [] frame.stage = "recheck" /\ reply.status \in {"rejected", "removed"} ->
             Write(r, copy, Idle, FALSE)
        [] frame.stage = "lastcheck" /\ reply.status \in {"rejected", "removed"} ->
             Write(r, Checked(copy, reply), Asking("join", copy), FALSE)
        [] OTHER -> Write(r, same, Idle, FALSE)     \* start fails

\* refreshStatus and refreshActiveUser.
HearRefresh(r) ==
  LET frame == flow[r]["refresh"]   copy == frame.copy   reply == frame.reply
      same  == conn[r.client]
  IN  /\ CASE frame.stage = "me" /\ reply.status = "ok" ->
                Goes(r, "refresh", [copy EXCEPT !.user = reply.user, !.status = "active"], Idle)
           [] frame.stage = "check" /\ reply.status = "active" ->
                Goes(r, "refresh", Checked(copy, reply), Asking("me", Checked(copy, reply)))
           [] frame.stage = "check" /\ reply.status \in {"pending", "rejected", "removed"} ->
                Goes(r, "refresh", Checked(copy, reply), Idle)
           [] frame.stage = "check" /\ reply.status = "username_taken" ->
                Goes(r, "refresh", [copy EXCEPT !.status = "username_taken", !.token = None], Idle)
           [] OTHER -> Goes(r, "refresh", same, Idle)
      /\ polling' = IF reply.status = "active" THEN polling \ {r} ELSE polling

\* The callbacks of the poll timer.
HearPoll(r) ==
  LET reply == flow[r]["poll"].reply
      said  == reply.status \in Status
  IN  /\ Goes(r, "poll", IF said THEN Checked(flow[r]["poll"].copy, reply) ELSE conn[r.client], Idle)
      /\ polling' = IF reply.status = "active" THEN polling \ {r} ELSE polling

Hear(r, f) ==
  /\ flow[r][f].reply # NoReply
  /\ \/ f = "start" /\ HearStart(r)
     \/ f = "refresh" /\ HearRefresh(r)
     \/ f = "poll" /\ HearPoll(r)
  /\ UNCHANGED <<user, shared, upload, runtime, used, stray, excused, events>>

\* The request is lost, late, or its answer is; every flow ends with that.
Lose(r, f) ==
  /\ flow[r][f].stage # "idle" /\ Event
  /\ flow' = [flow EXCEPT ![r][f] = Idle]
  /\ stray' \in {stray} \cup
       (IF flow[r][f].reply # NoReply THEN {}
        ELSE {stray \cup {[stage |-> flow[r][f].stage, copy |-> flow[r][f].copy, name |-> r.name]}})
  /\ UNCHANGED <<user, shared, upload, conn, runtime, used, polling, excused>>

\* The process of a client ends.
Crash(c) ==
  /\ runtime[c] # NoRuntime /\ Event
  /\ runtime' = [runtime EXCEPT ![c] = NoRuntime]
  /\ polling' = {r \in polling : r.client # c}
  /\ flow' = [r \in Runtimes |-> IF r.client = c THEN [f \in Flows |-> Idle] ELSE flow[r]]
  /\ UNCHANGED <<user, shared, upload, conn, used, stray, excused>>

-----------------------------------------------------------------------------
(* Sharing.                                                                *)

\* The request is authenticated before its body is awaited.
Share(c) ==
  /\ runtime[c] # NoRuntime /\ Event
  /\ \E u \in Bearer(conn[c].token) : upload' = upload \cup {u}
  /\ UNCHANGED <<user, shared, conn, runtime, used, polling, flow, stray, excused>>

\* publishMemoryForUser or hideSharedMemoryBySource, or the body never comes.
EndShare(u) ==
  /\ u \in upload
  /\ upload' = upload \ {u}
  /\ shared' \in {shared \cup {u}, shared \ {u}, shared}
  /\ UNCHANGED <<user, conn, runtime, used, polling, flow, stray, excused, events>>

HubNext ==
  \/ \E r \in Runtimes :
       \/ Begin(r) \/ Refresh(r) \/ Poll(r)
       \/ \E f \in Flows : Handle(r, f) \/ Hear(r, f) \/ Lose(r, f)
  \/ \E req \in stray : HandleStray(req)
  \/ \E u \in Users : Approve(u) \/ Reject(u) \/ RemoveUser(u) \/ Expire(u) \/ EndShare(u)
  \/ \E c \in Clients : Crash(c) \/ Share(c)
  \/ Reset

HubSpec == HubInit /\ [][HubNext]_hubVars

-----------------------------------------------------------------------------
(* Properties.                                                             *)

HubTypeOK ==
  /\ user \in [Users -> Row \cup {NoRow, Gone}]
  /\ shared \subseteq Users /\ upload \subseteq Users /\ excused \subseteq Users
  /\ conn \in [Clients -> Conn]
  /\ runtime \in [Clients -> Runtimes \cup {NoRuntime}]
  /\ used \subseteq Runtimes /\ polling \subseteq used
  /\ \A r \in Runtimes, f \in Flows :
       flow[r][f].stage \in Stage /\ flow[r][f].copy.user \in Users \cup {None}
  /\ \A c \in Clients : conn[c].token # None => conn[c].user # None /\ conn[c].status = "active"
  /\ events \in 0 .. MaxEvents

\* The hub's tables agree with each other, whatever requests cross: a name stands
\* for one user, and nothing is shown of a user who has been removed.  Excused are
\* a removed user who is approved or rejected, and one removed in the middle of a
\* share.  (The invariant begins with the types.)
DirectorySound ==
  /\ HubTypeOK
  /\ \A u, v \in Users \ excused :
       Exists(u) /\ Exists(v) /\ user[u].name = user[v].name
         /\ user[u].status # "removed" /\ user[v].status # "removed" => u = v
  /\ \A u \in shared \ excused : Exists(u) /\ user[u].status # "removed"

\* What the client shows is what the hub says, and its token is the hub's.
Agrees(c) ==
  LET u == conn[c].user
  IN  u # None /\ Exists(u) /\ conn[c].status = user[u].status
        /\ (user[u].status = "active" => conn[c].token = user[u].token)

\* Nobody else goes by the user of c, and the hub has not forgotten the user or
\* given its name away.
OnItsOwn(c) ==
  LET u == conn[c].user
  IN  /\ conn[c].status # "username_taken"
      /\ u # None => Exists(u)
      /\ \A d \in Clients \ {c} : conn[d].user # u

\* The viewer asks the runtime again and again, and each time the exchange ends.
KeepsAsking(r) ==
  []<>(flow[r]["refresh"].stage # "idle") /\ []<>(flow[r]["refresh"].stage = "idle")

\* A client whose viewer keeps asking ends up in agreement with the hub, after all
\* that was lost, late, repeated or overlapped: no flow, of this runtime or of one
\* that was stopped, leaves a token or a status behind for ever.  (The premise asks
\* for all the fairness there is.)
ViewConverges ==
  \A r \in Runtimes : KeepsAsking(r) => []<>(OnItsOwn(r.client) => Agrees(r.client))
=============================================================================
