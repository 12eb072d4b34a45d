------------------------------ MODULE Accounts ------------------------------
(***************************************************************************)
(* User accounts and their sessions: auth/service.py, auth/sessions.py,    *)
(* web/routes/security.py and auth.py, the guards of web/app.py and        *)
(* web/deps.py, and the console's reset-password (service/cli.py).         *)
(*                                                                         *)
(* The gateway runs its handlers on one event loop, so a handler that has  *)
(* its form is not interleaved with another one.  Two things do come       *)
(* between its steps.  The database is in autocommit mode (isolation_level *)
(* None, db/store.py:45): an operation that needs several statements is a  *)
(* SEQUENCE OF COMMITS, between any two of which the process may die or    *)
(* the console, another process on the same file, may commit.  And a       *)
(* request is judged (session, user, role, password change) when it        *)
(* arrives, long before its body is read and its handler runs.             *)
(*                                                                         *)
(* Data abstracted: a password is who chose it (its owner, or somebody     *)
(* else); time is the nondeterministic end of a session (see LoginGate);   *)
(* validation of names, roles and passwords is a refusal without effect.   *)
(***************************************************************************)
EXTENDS Naturals, Sequences, FiniteSets

CONSTANTS
    Users,      \* account ids: AUTOINCREMENT, never used twice
    Veterans,   \* the accounts of a database that earlier runs have left
    Weak,       \* veterans whose hash has outdated parameters
    Tokens,     \* session cookies
    Reqs,       \* requests under way at a time
    OpsOf,      \* [Reqs -> the operations it may ask for]: bounds an instance
    Headers,    \* the requests that carry their CSRF token in a header
    Rescued,    \* the accounts the console is used for
    Nil

ASSUME AccountsAssumption ==
    /\ Veterans \subseteq Users /\ Weak \subseteq Veterans
    /\ Nil \notin Users /\ Nil \notin Tokens

VARIABLES
    acct,       \* [Users -> the row of the users table]
    sess,       \* [Tokens -> the row of the sessions table, or Nil]
    reqs,       \* [Reqs -> an admitted request, or Nil]
    gw,         \* the commits the gateway's running operation has left
    cli,        \* the commits the console's command has left
    up,         \* the gateway runs
    cut,        \* history: accounts on which an operation was cut or crossed
    misjudged   \* history: a handler acted on a row that had changed

vars == <<acct, sess, reqs, gw, cli, up, cut, misjudged>>

Roles == {"admin", "viewer"}
Choosers == {"owner", "other"}

Row == [life : {"free", "live", "gone"}, role : Roles, enabled : BOOLEAN,
        must : BOOLEAN, by : Choosers, weak : BOOLEAN]
Session == [user : Users, old : BOOLEAN]

\* The first two judge the target's row, and hold it over `await
\* request.form()` when the CSRF token came in a header.
JudgingOps == {"demote", "disable"}
AdminOps == JudgingOps \cup {"reset", "promote", "enable", "delete",
                             "createAdmin", "createViewer"}
OwnOps == {"change", "logout"}

Request == [op : AdminOps \cup OwnOps, who : Users, token : Tokens \cup {Nil},
            header : BOOLEAN, seen : BOOLEAN \cup {Nil}]

Deeds == {"password", "rehash", "must", "role", "enabled", "create", "delete",
          "drop", "open", "openLate", "close"}
Proper(c) ==
    /\ c.do \in {"password", "rehash"} => c.val \in Choosers
    /\ c.do \in {"role", "create"} => c.val \in Roles
    /\ c.do \in {"must", "enabled"} => c.val \in {"yes", "no"}
Commit ==
    {c \in [do : Deeds, user : Users,
            val : Choosers \cup Roles \cup {"yes", "no"} \cup Tokens \cup {Nil}] :
        Proper(c)}

Do(deed, u, v) == [do |-> deed, user |-> u, val |-> v]

TypeOK ==
    /\ acct \in [Users -> Row]
    /\ sess \in [Tokens -> Session \cup {Nil}]
    /\ reqs \in [Reqs -> Request \cup {Nil}]
    /\ gw \in Seq(Commit) /\ cli \in Seq(Commit)
    /\ up \in BOOLEAN /\ cut \subseteq Users /\ misjudged \in BOOLEAN

-----------------------------------------------------------------------------
\* The statements of db/store.py, each committed by itself.

\* Mutant: set_user_role stores the name of the column.
RowAfterRaw(a, c) == IF c.do = "role" THEN [a EXCEPT !.role = c.do] ELSE a

RowAfter(a, c) ==
    CASE c.do \in {"password", "rehash"} ->
            [a EXCEPT !.must = FALSE, !.by = c.val, !.weak = FALSE]
      [] c.do = "must"    -> [a EXCEPT !.must = (c.val = "yes")]
      [] c.do = "role"    -> [a EXCEPT !.role = c.val]
      [] c.do = "enabled" -> [a EXCEPT !.enabled = (c.val = "yes")]
      [] c.do = "delete"  -> [a EXCEPT !.life = "gone"]
      [] c.do = "create"  -> [life |-> "live", role |-> c.val, enabled |-> TRUE,
                              must |-> TRUE, by |-> "other", weak |-> FALSE]
      [] OTHER            -> a

\* An UPDATE or DELETE of a row that has gone changes nothing.
AcctAfter(c) ==
    [acct EXCEPT ![c.user] = IF @.life = "live" \/ c.do = "create"
                             THEN RowAfter(@, c) ELSE @]

\* "old" is history: the account's password was changed, or the account
\* disabled, since the session was opened.
Disables(c) == c.do = "enabled" /\ c.val = "no"
Outdates(c) == c.do = "password" \/ Disables(c)

SessionAfter(c, t) ==
    LET s    == sess[t]
        mine == s # Nil /\ s.user = c.user
    IN CASE c.do \in {"drop", "delete"} /\ mine -> Nil
         [] c.do = "close" /\ c.val = t -> Nil
         [] c.do \in {"open", "openLate"} /\ c.val = t ->
                [user |-> c.user, old |-> c.do = "openLate"]
         [] Outdates(c) /\ mine -> [s EXCEPT !.old = TRUE]
         [] OTHER -> s

SessAfter(c) == [t \in Tokens |-> SessionAfter(c, t)]

Concerns(todo, u) == \E i \in DOMAIN todo : todo[i].user = u

CutAfter(c, others) ==
    IF Concerns(others, c.user) THEN cut \cup {c.user}
    ELSE IF c.do = "password" THEN cut \ {c.user} ELSE cut

Halfway(todo) ==
    IF todo # <<>> /\ Head(todo).do \in {"must", "drop"} THEN {Head(todo).user} ELSE {}

-----------------------------------------------------------------------------
\* What each operation commits, in the order of the code.

\* Mutant: the flag is set before update_password, which clears it.
FlagFirst(u) == <<Do("must", u, "yes"), Do("password", u, "other"), Do("drop", u, Nil)>>
\* Mutant: disabling an account leaves its sessions.
DisableOnly(u) == <<Do("enabled", u, "no")>>

ResetPlan(u)   == <<Do("password", u, "other"), Do("must", u, "yes"), Do("drop", u, Nil)>>
ChangePlan(u)  == <<Do("password", u, "owner"), Do("drop", u, Nil)>>
DisablePlan(u) == <<Do("enabled", u, "no"), Do("drop", u, Nil)>>
DeletePlan(u)  == <<Do("drop", u, Nil), Do("delete", u, Nil)>>

Rehash(u) ==
    IF acct[u].weak
    THEN <<Do("rehash", u, acct[u].by), Do("must", u, IF acct[u].must THEN "yes" ELSE "no")>>
    ELSE <<>>
LoginPlan(u, t) == Append(Rehash(u), Do("open", u, t))

IsAdmin(u) == acct[u].role = "admin" /\ acct[u].enabled
Admins == {u \in Users : acct[u].life = "live" /\ IsAdmin(u)}

\* Mutant: accounts that are disabled are counted as administrators.
CountsDisabled(rowOfAdmin) ==
    rowOfAdmin /\ Cardinality({u \in Users : acct[u].life = "live" /\ acct[u].role = "admin"}) <= 1

\* list_users is read now; the row of the target may have been read earlier,
\* and all that is asked of it is whether it is an enabled administrator's.
WouldRemoveLastAdmin(rowOfAdmin) == rowOfAdmin /\ Cardinality(Admins) <= 1

-----------------------------------------------------------------------------
Init ==
    /\ \E there \in {{}, Veterans} :
         acct = [u \in Users |->
                   [life |-> IF u \in there THEN "live" ELSE "free", role |-> "admin",
                    enabled |-> TRUE, must |-> FALSE, by |-> "owner", weak |-> u \in Weak]]
    /\ sess = [t \in Tokens |-> Nil]
    /\ reqs = [r \in Reqs |-> Nil]
    /\ gw = <<>> /\ cli = <<>> /\ up = FALSE /\ cut = {} /\ misjudged = FALSE

LoopIsFree == up /\ gw = <<>>

\* GatewayRuntime.start: the first administrator, unless there are accounts.
Boot(u) ==
    /\ ~up /\ up' = TRUE
    /\ IF \E v \in Users : acct[v].life = "live"
       THEN gw' = <<>>
       ELSE acct[u].life = "free" /\ gw' = <<Do("create", u, "admin")>>
    /\ UNCHANGED <<acct, sess, reqs, cli, cut, misjudged>>

\* AuthService.login with the password in force: all reads come before the
\* first commit.
Login(u, t) ==
    /\ LoopIsFree
    /\ acct[u].life = "live" /\ acct[u].enabled
    /\ sess[t] = Nil /\ \A r \in Reqs : reqs[r] # Nil => reqs[r].token # t
    /\ gw' = LoginPlan(u, t)
    /\ UNCHANGED <<acct, sess, reqs, cli, up, cut, misjudged>>

\* A session that has run out is deleted when it is next used, or purged.
Expire(t) ==
    /\ LoopIsFree /\ sess[t] # Nil
    /\ sess' = [sess EXCEPT ![t] = Nil]
    /\ UNCHANGED <<acct, reqs, gw, cli, up, cut, misjudged>>

\* SessionManager.validate deletes the session of an account that is disabled.
TurnAway(t) ==
    /\ LoopIsFree /\ sess[t] # Nil /\ ~acct[sess[t].user].enabled
    /\ sess' = [sess EXCEPT ![t] = Nil]
    /\ UNCHANGED <<acct, reqs, gw, cli, up, cut, misjudged>>

\* The middleware and the dependencies judge the request on the rows they see.
Admit(r, t, op, x) ==
    /\ LoopIsFree /\ reqs[r] = Nil /\ sess[t] # Nil /\ op \in OpsOf[r]
    /\ LET me == acct[sess[t].user] IN
         /\ me.enabled
         /\ me.must => op \in OwnOps
         /\ op \in AdminOps => me.role = "admin"
         /\ op = "delete" => x # sess[t].user
         /\ op \in OwnOps => x = sess[t].user
    /\ reqs' = [reqs EXCEPT ![r] =
                  [op |-> op, who |-> x, token |-> IF op = "logout" THEN t ELSE Nil,
                   header |-> r \in Headers /\ op \in JudgingOps, seen |-> Nil]]
    /\ UNCHANGED <<acct, sess, gw, cli, up, cut, misjudged>>

\* With the token in a header the handler reads the target, then waits for
\* the body.
ReadTarget(r) ==
    /\ LoopIsFree /\ reqs[r] # Nil /\ reqs[r].header /\ reqs[r].seen = Nil
    /\ acct[reqs[r].who].life = "live"
    /\ reqs' = [reqs EXCEPT ![r].seen = IsAdmin(reqs[r].who)]
    /\ UNCHANGED <<acct, sess, gw, cli, up, cut, misjudged>>

\* What the handler commits, when it does not refuse.
Handled(q) ==
    LET u   == q.who
        row == IF q.seen = Nil THEN IsAdmin(u) ELSE q.seen
    IN CASE q.op = "reset"   -> ResetPlan(u)
         [] q.op = "promote" -> <<Do("role", u, "admin")>>
         [] q.op = "demote"  -> IF WouldRemoveLastAdmin(row) THEN <<>>
                                ELSE <<Do("role", u, "viewer")>>
         [] q.op = "enable"  -> <<Do("enabled", u, "yes")>>
         [] q.op = "disable" -> IF WouldRemoveLastAdmin(row) THEN <<>> ELSE DisablePlan(u)
         [] q.op = "delete"  -> IF WouldRemoveLastAdmin(row) THEN <<>> ELSE DeletePlan(u)
         [] q.op = "createAdmin"  -> <<Do("create", u, "admin")>>
         [] q.op = "createViewer" -> <<Do("create", u, "viewer")>>
         [] q.op = "change"  -> ChangePlan(u)
         [] q.op = "logout"  -> <<Do("close", u, q.token)>>

\* The handler runs on the row it read, now or before the body came.
Handle(r) ==
    LET q == reqs[r] IN
    /\ LoopIsFree /\ q # Nil
    /\ q.header => q.seen # Nil
    /\ IF q.op \in {"createAdmin", "createViewer"} THEN acct[q.who].life = "free"
       ELSE q.op \in AdminOps /\ ~q.header => acct[q.who].life = "live"
    /\ gw' = Handled(q)
    /\ misjudged' = (misjudged \/ (q.seen # Nil /\ q.seen # IsAdmin(q.who)))
    /\ reqs' = [reqs EXCEPT ![r] = Nil]
    /\ UNCHANGED <<acct, sess, cli, up, cut>>

\* A validation error, a wrong current password, a target not found.
Refuse(r) ==
    /\ LoopIsFree /\ reqs[r] # Nil
    /\ reqs' = [reqs EXCEPT ![r] = Nil]
    /\ UNCHANGED <<acct, sess, gw, cli, up, cut, misjudged>>

GatewayCommits ==
    /\ up /\ gw # <<>>
    /\ acct' = AcctAfter(Head(gw)) /\ sess' = SessAfter(Head(gw))
    /\ gw' = Tail(gw) /\ cut' = CutAfter(Head(gw), cli)
    /\ UNCHANGED <<reqs, cli, up, misjudged>>

\* `snap7-gateway reset-password`, whether or not the gateway runs.
ConsoleReset(u) ==
    /\ cli = <<>> /\ u \in Rescued /\ acct[u].life = "live"
    /\ cli' = ResetPlan(u)
    /\ UNCHANGED <<acct, sess, reqs, gw, up, cut, misjudged>>

\* A login under way has verified the password that is now replaced.
Late(c) ==
    [i \in DOMAIN gw |->
        IF c.do = "password" /\ gw[i].do = "open" /\ gw[i].user = c.user
        THEN [gw[i] EXCEPT !.do = "openLate"] ELSE gw[i]]

ConsoleCommits ==
    /\ cli # <<>>
    /\ acct' = AcctAfter(Head(cli)) /\ sess' = SessAfter(Head(cli))
    /\ gw' = Late(Head(cli))
    /\ cli' = Tail(cli) /\ cut' = CutAfter(Head(cli), gw)
    /\ UNCHANGED <<reqs, up, misjudged>>

\* The process dies; the rows stay.
Crash ==
    /\ up /\ up' = FALSE
    /\ gw' = <<>> /\ reqs' = [r \in Reqs |-> Nil]
    /\ cut' = cut \cup Halfway(gw)
    /\ UNCHANGED <<acct, sess, cli, misjudged>>

ConsoleKilled ==
    /\ cli # <<>> /\ cli' = <<>>
    /\ cut' = cut \cup Halfway(cli)
    /\ UNCHANGED <<acct, sess, reqs, gw, up, misjudged>>

Next ==
    \/ \E u \in Users : Boot(u) \/ ConsoleReset(u)
    \/ \E u \in Users, t \in Tokens : Login(u, t)
    \/ \E t \in Tokens : Expire(t) \/ TurnAway(t)
    \/ \E r \in Reqs, t \in Tokens, op \in AdminOps \cup OwnOps, x \in Users :
          Admit(r, t, op, x)
    \/ \E r \in Reqs : ReadTarget(r) \/ Handle(r) \/ Refuse(r)
    \/ GatewayCommits \/ ConsoleCommits
    \/ Crash \/ ConsoleKilled

Spec == Init /\ [][Next]_vars

-----------------------------------------------------------------------------
\* The second commit of an operation on u is the next one to come.
MustNext(todo, u) ==
    todo # <<>> /\ Head(todo).user = u /\ Head(todo).do = "must"

DropNext(todo, u) ==
    /\ todo # <<>> /\ Head(todo).user = u
    /\ \/ Head(todo).do = "drop"
       \/ Head(todo).do = "must" /\ Len(todo) > 1 /\ todo[2].do = "drop"

\* Once there is an account there is an enabled administrator, whatever the
\* requests, crashes and console commands in between: the only way to lose the
\* last one is a handler that judged a row which had changed since.
AdminRemains ==
    (\E u \in Users : acct[u].life # "free") => Admins # {} \/ misjudged

\* A password somebody else chose is in force only with must_change_password
\* set, except while the commit that sets it is the next one and on accounts
\* where an operation was cut by a crash or crossed by the console.
ForcedChange ==
    \A u \in Users :
        acct[u].life = "live" /\ acct[u].by = "other" /\ ~acct[u].must =>
            u \in cut \/ MustNext(gw, u) \/ MustNext(cli, u)

\* There is no session opened before the password was changed or the account
\* disabled, except while its deletion is next and on the accounts of `cut`.
SessionsRevoked ==
    \A t \in Tokens : sess[t] # Nil /\ sess[t].old =>
        \/ sess[t].user \in cut
        \/ DropNext(gw, sess[t].user) \/ DropNext(cli, sess[t].user)

\* Why an administrator remains.  A commit that is due and takes one away has
\* been judged when there was another, and concerns nobody else; the console
\* takes none away; sessions and requests come after the first account, which
\* is an administrator's.
Inhabited == \E u \in Users : acct[u].life # "free"

Removes(c) ==
    c.do = "delete" \/ (c.do = "role" /\ c.val = "viewer") \/ Disables(c)

DueInv(c) ==
    /\ Removes(c) => Admins \ {c.user} # {} \/ misjudged
    /\ c.do = "create" => acct[c.user].life = "free"
    /\ c.do \in {"open", "openLate"} \/ (c.do = "create" /\ c.val = "viewer") => Inhabited

OperationInv ==
    \A i \in DOMAIN gw :
        /\ DueInv(gw[i])
        /\ \A j \in DOMAIN gw : gw[j].user = gw[i].user
        /\ gw[i].do = "create" => Len(gw) = 1

ConsoleInv == \A i \in DOMAIN cli : cli[i].do \in {"password", "must", "drop"}

ArrivalInv ==
    (\E t \in Tokens : sess[t] # Nil) \/ (\E r \in Reqs : reqs[r] # Nil) => Inhabited

AdminInv == AdminRemains /\ OperationInv /\ ConsoleInv /\ ArrivalInv

\* A commit that only signing in has.
Signs(c) == c.do \in {"rehash", "open", "openLate"} \/ (c.do = "must" /\ c.val = "no")

\* Why a forced change and a revocation are lost on the accounts of `cut` only.
\* The commits of an operation stand in the order of the code, so the second
\* one is next as soon as it is due, and a crash or a crossing sees it.
Orderly(todo) ==
    \A i \in DOMAIN todo :
        /\ \A j \in DOMAIN todo : todo[j].user = todo[i].user
        /\ (todo[i].do = "password" /\ todo[i].val = "owner") \/ Disables(todo[i]) =>
              i + 1 \in DOMAIN todo /\ todo[i + 1].do = "drop"
        /\ todo[i].do = "password" /\ todo[i].val # "owner" =>
              /\ i + 1 \in DOMAIN todo /\ todo[i + 1].do = "must" /\ todo[i + 1].val = "yes"
              /\ i + 2 \in DOMAIN todo /\ todo[i + 2].do = "drop"
        /\ todo[i].do = "rehash" => i + 1 \in DOMAIN todo /\ todo[i + 1].do = "must"
        /\ Signs(todo[i]) => \A j \in DOMAIN todo : todo[j].do # "password"

\* A login that is to leave must_change_password clear has seen it clear on a
\* password of the owner's; one whose password was replaced is known.
SignInInv ==
    \A i \in DOMAIN gw :
        /\ gw[i].do = "must" /\ gw[i].val = "no" =>
              \/ gw[i].user \in cut \/ MustNext(cli, gw[i].user)
              \/ acct[gw[i].user].by = "owner"
                    /\ \A j \in DOMAIN gw : gw[j].do = "rehash" => gw[j].val = "owner"
        /\ gw[i].do = "openLate" => gw[i].user \in cut

ConsoleOrder ==
    \A i \in DOMAIN cli : ~Signs(cli[i]) /\ (cli[i].do = "password" => cli[i].val = "other")

PasswordInv ==
    /\ Orderly(gw) /\ Orderly(cli) /\ ConsoleOrder
    /\ ForcedChange /\ SessionsRevoked /\ SignInInv
    /\ up \/ gw = <<>>
=============================================================================
