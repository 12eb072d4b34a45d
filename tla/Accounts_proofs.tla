--------------------------- MODULE Accounts_proofs ---------------------------
(***************************************************************************)
(* For any accounts, sessions and requests: the rows are well typed, an    *)
(* enabled administrator remains, a password that somebody else chose must *)
(* be changed, and a changed password or a disabled account leaves no      *)
(* session, but for the accounts on which an operation was cut or crossed. *)
(***************************************************************************)
EXTENDS Accounts, FiniteSetTheorems, SequenceTheorems, TLAPS

LEMMA OneCommit ==
    ASSUME NEW S, NEW a \in S
    PROVE  /\ <<a>> \in Seq(S) /\ Len(<<a>>) = 1
           /\ \A i \in DOMAIN <<a>> : <<a>>[i] = a
  OBVIOUS

LEMMA TwoCommits ==
    ASSUME NEW S, NEW a \in S, NEW b \in S
    PROVE  /\ <<a, b>> \in Seq(S)
           /\ \A i \in DOMAIN <<a, b>> : <<a, b>>[i] = a \/ <<a, b>>[i] = b
  OBVIOUS

LEMMA ThreeCommits ==
    ASSUME NEW S, NEW a \in S, NEW b \in S, NEW c \in S
    PROVE  /\ <<a, b, c>> \in Seq(S)
           /\ \A i \in DOMAIN <<a, b, c>> :
                 <<a, b, c>>[i] = a \/ <<a, b, c>>[i] = b \/ <<a, b, c>>[i] = c
  OBVIOUS

LEMMA FunctionsAreSequences ==
    ASSUME NEW n \in Nat, NEW S, NEW f \in [1 .. n -> S]
    PROVE  f \in Seq(S) /\ Len(f) = n
  OBVIOUS

LEMMA OneMoreCommit ==
    ASSUME NEW S, NEW q \in Seq(S), NEW a \in S
    PROVE  /\ Append(q, a) \in Seq(S)
           /\ \A i \in DOMAIN Append(q, a) :
                 Append(q, a)[i] = a \/ \E j \in DOMAIN q : Append(q, a)[i] = q[j]
  <1>1. /\ Append(q, a) \in Seq(S) /\ Len(Append(q, a)) = Len(q) + 1
        /\ \A i \in 1 .. Len(q) : Append(q, a)[i] = q[i]
        /\ Append(q, a)[Len(q) + 1] = a
    BY AppendProperties
  <1>2. /\ Len(q) \in Nat /\ DOMAIN q = 1 .. Len(q)
        /\ DOMAIN Append(q, a) = 1 .. Len(q) + 1
    BY <1>1
  <1> QED BY <1>1, <1>2

LEMMA NoCommit == ASSUME NEW S PROVE <<>> \in Seq(S) /\ DOMAIN <<>> = {}
  OBVIOUS

LEMMA Tails ==
    ASSUME NEW S, NEW q \in Seq(S), q # <<>>
    PROVE  /\ Head(q) \in S /\ Tail(q) \in Seq(S) /\ Head(q) = q[1] /\ 1 \in DOMAIN q
           /\ Len(q) = 1 => DOMAIN Tail(q) = {}
           /\ \A i \in DOMAIN Tail(q) :
                 i + 1 \in DOMAIN q /\ Tail(q)[i] = q[i + 1] /\ q[i + 1] \in S
  <1>1. /\ Head(q) \in S /\ Tail(q) \in Seq(S) /\ Len(Tail(q)) = Len(q) - 1
        /\ \A i \in 1 .. Len(Tail(q)) : Tail(q)[i] = q[i + 1]
    BY HeadTailProperties
  <1>2. Len(q) \in Nat \ {0} /\ DOMAIN q = 1 .. Len(q) /\ Head(q) = q[1]
    OBVIOUS
  <1>3. DOMAIN Tail(q) = 1 .. Len(q) - 1
    BY <1>1
  <1>4. \A i \in 1 .. Len(q) : q[i] \in S
    OBVIOUS
  <1> QED BY <1>1, <1>2, <1>3, <1>4

-----------------------------------------------------------------------------
\* The rows after one commit.

LEMMA DoIsCommit ==
    ASSUME NEW deed \in Deeds, NEW u \in Users,
           NEW v \in Choosers \cup Roles \cup {"yes", "no"} \cup Tokens \cup {Nil},
           deed \in {"password", "rehash"} => v \in Choosers,
           deed \in {"role", "create"} => v \in Roles,
           deed \in {"must", "enabled"} => v \in {"yes", "no"}
    PROVE  /\ Do(deed, u, v) \in Commit /\ Do(deed, u, v).user = u
           /\ Do(deed, u, v).do = deed /\ Do(deed, u, v).val = v
  BY DEF Do, Commit, Proper

LEMMA CommitFields ==
    ASSUME NEW c \in Commit
    PROVE  c.do \in Deeds /\ c.user \in Users /\ Proper(c)
  BY DEF Commit

LEMMA RowFields ==
    ASSUME NEW a \in Row
    PROVE  /\ a.life \in {"free", "live", "gone"} /\ a.role \in Roles
           /\ a.enabled \in BOOLEAN /\ a.must \in BOOLEAN /\ a.by \in Choosers
           /\ a.weak \in BOOLEAN
  BY Zenon DEF Row

\* One row: what becomes of its type, of its life, and of an administrator.
LEMMA RowCommitted ==
    ASSUME NEW a \in Row, NEW c \in Commit
    PROVE  /\ RowAfter(a, c) \in Row
           /\ c.do = "create" => /\ RowAfter(a, c).life = "live" /\ RowAfter(a, c).enabled
                                 /\ RowAfter(a, c).role = c.val
           /\ c.do \notin {"create", "delete"} => RowAfter(a, c).life = a.life
           /\ c.do = "delete" => RowAfter(a, c).life = "gone"
           /\ ~Removes(c) /\ c.do # "create" /\ a.role = "admin" /\ a.enabled =>
                 RowAfter(a, c).role = "admin" /\ RowAfter(a, c).enabled
  <1>0. c.do \in Deeds /\ Proper(c)
    BY CommitFields
  <1>1. CASE c.do \in {"password", "rehash"}
    <2>1. c.val \in Choosers
      BY <1>0, <1>1 DEF Proper
    <2>2. RowAfter(a, c) = [a EXCEPT !.must = FALSE, !.by = c.val, !.weak = FALSE]
      BY <1>1 DEF RowAfter
    <2> QED BY <1>1, <2>1, <2>2 DEF Row
  <1>2. CASE c.do = "must"
    <2>1. RowAfter(a, c) = [a EXCEPT !.must = (c.val = "yes")]
      BY <1>2 DEF RowAfter
    <2>2. (c.val = "yes") \in BOOLEAN
      OBVIOUS
    <2> QED BY <1>2, <2>1, <2>2 DEF Row
  <1>3. CASE c.do = "role"
    <2>1. c.val \in Roles
      BY <1>0, <1>3 DEF Proper
    <2>2. RowAfter(a, c) = [a EXCEPT !.role = c.val]
      BY <1>3 DEF RowAfter
    <2> QED BY <1>3, <2>1, <2>2 DEF Row, Removes, Disables, Roles
  <1>4. CASE c.do = "enabled"
    <2>1. c.val \in {"yes", "no"}
      BY <1>0, <1>4 DEF Proper
    <2>2. RowAfter(a, c) = [a EXCEPT !.enabled = (c.val = "yes")]
      BY <1>4 DEF RowAfter
    <2>3. CASE c.val = "yes"
      BY <1>4, <2>2, <2>3 DEF Row, Removes, Disables
    <2>4. CASE c.val = "no"
      BY <1>4, <2>2, <2>4 DEF Row, Removes, Disables
    <2> QED BY <2>1, <2>3, <2>4
  <1>5. CASE c.do = "delete"
    <2>1. RowAfter(a, c) = [a EXCEPT !.life = "gone"]
      BY <1>5 DEF RowAfter
    <2> QED BY <1>5, <2>1 DEF Row, Removes, Disables
  <1>6. CASE c.do = "create"
    <2>1. c.val \in Roles
      BY <1>0, <1>6 DEF Proper
    <2>2. RowAfter(a, c) = [life |-> "live", role |-> c.val, enabled |-> TRUE,
                            must |-> TRUE, by |-> "other", weak |-> FALSE]
      BY <1>6 DEF RowAfter
    <2> QED BY <1>6, <2>1, <2>2 DEF Row, Choosers
  <1>7. CASE c.do \in {"drop", "open", "openLate", "close"}
    <2>1. RowAfter(a, c) = a
      BY <1>7 DEF RowAfter
    <2> QED BY <1>7, <2>1
  <1> QED BY <1>0, <1>1, <1>2, <1>3, <1>4, <1>5, <1>6, <1>7 DEF Deeds

LEMMA AdminsAre ==
    \A u : u \in Admins <=> /\ u \in Users /\ acct[u].life = "live"
                            /\ acct[u].role = "admin" /\ acct[u].enabled
  BY Zenon DEF Admins, IsAdmin

\* A commit changes the row it names and no other, ends no account but by
\* deletion, begins none but by creation, and only some take an administrator.
LEMMA Committed ==
    ASSUME TypeOK, NEW c \in Commit, acct' = AcctAfter(c),
           c.do = "create" => acct[c.user].life = "free"
    PROVE  /\ acct' \in [Users -> Row]
           /\ \A v \in Users : v # c.user => acct'[v] = acct[v]
           /\ \A v \in Users : acct[v].life # "free" => acct'[v].life # "free"
           /\ c.do # "create" =>
                 \A v \in Users : /\ acct'[v].life # "free" => acct[v].life # "free"
                                  /\ acct[v].life = "free" => acct'[v].life = "free"
           /\ Admins \ {c.user} \subseteq Admins'
           /\ ~Removes(c) => Admins \subseteq Admins'
           /\ c.do = "create" => acct'[c.user].life # "free"
           /\ c.do = "create" /\ c.val = "admin" => c.user \in Admins'
  <1>1. acct \in [Users -> Row] /\ c.user \in Users
    BY CommitFields DEF TypeOK
  <1> DEFINE u == c.user
             b == IF acct[u].life = "live" \/ c.do = "create"
                  THEN RowAfter(acct[u], c) ELSE acct[u]
  <1>2. acct' = [acct EXCEPT ![u] = b]
    BY DEF AcctAfter
  <1>3. acct[u] \in Row
    BY <1>1
  <1>4. /\ RowAfter(acct[u], c) \in Row
        /\ c.do = "create" => /\ RowAfter(acct[u], c).life = "live"
                              /\ RowAfter(acct[u], c).enabled
                              /\ RowAfter(acct[u], c).role = c.val
        /\ c.do \notin {"create", "delete"} => RowAfter(acct[u], c).life = acct[u].life
        /\ c.do = "delete" => RowAfter(acct[u], c).life = "gone"
        /\ ~Removes(c) /\ c.do # "create" /\ acct[u].role = "admin" /\ acct[u].enabled =>
              RowAfter(acct[u], c).role = "admin" /\ RowAfter(acct[u], c).enabled
    BY <1>3, RowCommitted, Zenon
  <1>5. b \in Row
    BY <1>3, <1>4, Zenon
  <1>6. /\ acct' \in [Users -> Row] /\ acct'[u] = b
        /\ \A v \in Users : v # u => acct'[v] = acct[v]
    <2> HIDE DEF b
    <2> QED BY <1>1, <1>2, <1>5, Zenon
  <1>7. /\ c.do = "create" => b.life = "live" /\ b.enabled /\ b.role = c.val
        /\ acct[u].life # "free" => b.life # "free"
        /\ c.do # "create" => (b.life = "free" <=> acct[u].life = "free")
        /\ ~Removes(c) /\ c.do # "create" /\ acct[u].life = "live" /\ acct[u].role = "admin"
              /\ acct[u].enabled => b.life = "live" /\ b.role = "admin" /\ b.enabled
    <2>1. CASE c.do = "create"
      BY <1>4, <2>1, Zenon
    <2>2. CASE c.do = "delete"
      <3>1. Removes(c)
        BY <2>2 DEF Removes, Disables
      <3> QED BY <1>4, <2>2, <3>1
    <2>3. CASE c.do \notin {"create", "delete"}
      <3>1. CASE acct[u].life = "live"
        <4>1. b = RowAfter(acct[u], c)
          BY <3>1, Zenon
        <4> QED BY <1>4, <2>3, <3>1, <4>1, Zenon
      <3>2. CASE acct[u].life # "live"
        <4>1. b = acct[u]
          BY <2>3, <3>2, Zenon
        <4> QED BY <2>3, <3>2, <4>1, Zenon
      <3> QED BY <3>1, <3>2
    <2> QED BY <2>1, <2>2, <2>3
  <1> HIDE DEF b
  <1>8. \A v : v \in Admins' <=> /\ v \in Users /\ acct'[v].life = "live"
                                 /\ acct'[v].role = "admin" /\ acct'[v].enabled
    BY Zenon DEF Admins, IsAdmin
  <1>9. Admins \ {u} \subseteq Admins'
    <2> SUFFICES ASSUME NEW v \in Admins, v # u PROVE v \in Admins'
      BY Zenon
    <2>1. v \in Users /\ acct[v].life = "live" /\ acct[v].role = "admin" /\ acct[v].enabled
      BY AdminsAre, Zenon
    <2>2. acct'[v] = acct[v]
      BY <1>6, <2>1, Zenon
    <2>3. /\ v \in Users /\ acct'[v].life = "live"
          /\ acct'[v].role = "admin" /\ acct'[v].enabled
      BY <2>1, <2>2
    <2> QED BY <1>8, <2>3
  <1>10. ~Removes(c) => Admins \subseteq Admins'
    <2> SUFFICES ASSUME ~Removes(c), u \in Admins PROVE u \in Admins'
      BY <1>9, Zenon
    <2>1. acct[u].life = "live" /\ acct[u].role = "admin" /\ acct[u].enabled
      BY AdminsAre, Zenon
    <2>2. c.do # "create"
      BY <2>1
    <2> QED BY <1>1, <1>6, <1>7, <1>8, <2>1, <2>2, Zenon
  <1>11. c.do = "create" /\ c.val = "admin" => u \in Admins'
    <2> SUFFICES ASSUME c.do = "create", c.val = "admin" PROVE u \in Admins'
      OBVIOUS
    <2>1. b.life = "live" /\ b.enabled /\ b.role = "admin"
      BY <1>7
    <2> QED BY <1>1, <1>6, <1>8, <2>1, Zenon
  <1>12. \A v \in Users : acct[v].life # "free" => acct'[v].life # "free"
    BY <1>6, <1>7, Zenon
  <1>13. c.do # "create" =>
            \A v \in Users : acct'[v].life = "free" <=> acct[v].life = "free"
    BY <1>6, <1>7, Zenon
  <1>14. c.do = "create" => acct'[u].life # "free"
    BY <1>6, <1>7
  <1> QED BY <1>6, <1>9, <1>10, <1>11, <1>12, <1>13, <1>14, Zenon

LEMMA RowsTyped ==
    ASSUME TypeOK, NEW c \in Commit PROVE AcctAfter(c) \in [Users -> Row]
  <1>1. acct \in [Users -> Row] /\ c.user \in Users
    BY CommitFields DEF TypeOK
  <1>2. acct[c.user] \in Row /\ RowAfter(acct[c.user], c) \in Row
    BY <1>1, RowCommitted
  <1> QED BY <1>1, <1>2, Zenon DEF AcctAfter

LEMMA SessionsTyped ==
    ASSUME TypeOK, NEW c \in Commit
    PROVE  /\ SessAfter(c) \in [Tokens -> Session \cup {Nil}]
           /\ \A t \in Tokens : SessAfter(c)[t] # Nil =>
                 sess[t] # Nil \/ c.do \in {"open", "openLate"}
  <1>1. c.user \in Users
    BY CommitFields
  <1>2. ASSUME NEW t \in Tokens
        PROVE  /\ SessionAfter(c, t) \in Session \cup {Nil}
               /\ SessionAfter(c, t) # Nil => sess[t] # Nil \/ c.do \in {"open", "openLate"}
    <2> DEFINE mine == sess[t] # Nil /\ sess[t].user = c.user
    <2>0. sess[t] \in Session \cup {Nil}
      BY <1>2 DEF TypeOK
    <2>1. CASE c.do \in {"drop", "delete"} /\ mine
      <3>1. SessionAfter(c, t) = Nil
        BY <2>1 DEF SessionAfter, Outdates, Disables
      <3> QED BY <3>1
    <2>2. CASE c.do = "close" /\ c.val = t
      <3>1. SessionAfter(c, t) = Nil
        BY <2>2 DEF SessionAfter, Outdates, Disables
      <3> QED BY <3>1
    <2>3. CASE c.do \in {"open", "openLate"} /\ c.val = t
      <3>1. SessionAfter(c, t) = [user |-> c.user, old |-> c.do = "openLate"]
        BY <2>3 DEF SessionAfter, Outdates, Disables
      <3> QED BY <1>1, <2>3, <3>1 DEF Session
    <2>4. CASE Outdates(c) /\ mine
      <3>1. SessionAfter(c, t) = [sess[t] EXCEPT !.old = TRUE]
        BY <2>4 DEF SessionAfter, Outdates, Disables
      <3>2. sess[t] \in Session
        BY <2>0, <2>4
      <3> QED BY <2>4, <3>1, <3>2 DEF Session
    <2>5. CASE /\ ~(c.do \in {"drop", "delete"} /\ mine) /\ ~(c.do = "close" /\ c.val = t)
               /\ ~(c.do \in {"open", "openLate"} /\ c.val = t) /\ ~(Outdates(c) /\ mine)
      <3>1. SessionAfter(c, t) = sess[t]
        BY <2>5 DEF SessionAfter
      <3> QED BY <2>0, <3>1
    <2> QED BY <2>1, <2>2, <2>3, <2>4, <2>5
  <1> QED BY <1>2, Zenon DEF SessAfter

-----------------------------------------------------------------------------
\* What the operations leave to commit.

Plan(plan, u, deeds) ==
    /\ plan \in Seq(Commit)
    /\ \A i \in DOMAIN plan : plan[i].user = u /\ plan[i].do \in deeds

LEMMA PlansAre ==
    ASSUME NEW u \in Users
    PROVE  /\ Plan(ResetPlan(u), u, {"password", "must", "drop"})
           /\ Plan(ChangePlan(u), u, {"password", "drop"})
           /\ Plan(DisablePlan(u), u, {"enabled", "drop"})
           /\ Plan(DeletePlan(u), u, {"drop", "delete"})
  <1> DEFINE p == Do("password", u, "other")
             o == Do("password", u, "owner")
             m == Do("must", u, "yes")
             d == Do("drop", u, Nil)
             e == Do("enabled", u, "no")
             x == Do("delete", u, Nil)
  <1>1. /\ p \in Commit /\ p.user = u /\ p.do = "password"
        /\ o \in Commit /\ o.user = u /\ o.do = "password"
    <2>1. "password" \in Deeds /\ "other" \in Choosers /\ "owner" \in Choosers
      BY DEF Deeds, Choosers
    <2> QED BY <2>1, DoIsCommit
  <1>2. /\ m \in Commit /\ m.user = u /\ m.do = "must"
        /\ d \in Commit /\ d.user = u /\ d.do = "drop"
    <2>1. "must" \in Deeds /\ "drop" \in Deeds
      BY DEF Deeds
    <2> QED BY <2>1, DoIsCommit
  <1>3. /\ e \in Commit /\ e.user = u /\ e.do = "enabled"
        /\ x \in Commit /\ x.user = u /\ x.do = "delete"
    <2>1. "enabled" \in Deeds /\ "delete" \in Deeds
      BY DEF Deeds
    <2> QED BY <2>1, DoIsCommit
  <1>4. /\ ResetPlan(u) = <<p, m, d>> /\ ChangePlan(u) = <<o, d>>
        /\ DisablePlan(u) = <<e, d>> /\ DeletePlan(u) = <<d, x>>
    BY DEF ResetPlan, ChangePlan, DisablePlan, DeletePlan
  <1> HIDE DEF p, o, m, d, e, x
  <1>5. Plan(<<p, m, d>>, u, {"password", "must", "drop"})
    <2>1. /\ <<p, m, d>> \in Seq(Commit)
          /\ \A i \in DOMAIN <<p, m, d>> :
                <<p, m, d>>[i] = p \/ <<p, m, d>>[i] = m \/ <<p, m, d>>[i] = d
      BY <1>1, <1>2, ThreeCommits
    <2> QED BY <1>1, <1>2, <2>1, Zenon DEF Plan
  <1>6. Plan(<<o, d>>, u, {"password", "drop"})
    <2>1. /\ <<o, d>> \in Seq(Commit)
          /\ \A i \in DOMAIN <<o, d>> : <<o, d>>[i] = o \/ <<o, d>>[i] = d
      BY <1>1, <1>2, TwoCommits
    <2> QED BY <1>1, <1>2, <2>1, Zenon DEF Plan
  <1>7. Plan(<<e, d>>, u, {"enabled", "drop"})
    <2>1. /\ <<e, d>> \in Seq(Commit)
          /\ \A i \in DOMAIN <<e, d>> : <<e, d>>[i] = e \/ <<e, d>>[i] = d
      BY <1>2, <1>3, TwoCommits
    <2> QED BY <1>2, <1>3, <2>1, Zenon DEF Plan
  <1>8. Plan(<<d, x>>, u, {"drop", "delete"})
    <2>1. /\ <<d, x>> \in Seq(Commit)
          /\ \A i \in DOMAIN <<d, x>> : <<d, x>>[i] = d \/ <<d, x>>[i] = x
      BY <1>2, <1>3, TwoCommits
    <2> QED BY <1>2, <1>3, <2>1, Zenon DEF Plan
  <1> QED BY <1>4, <1>5, <1>6, <1>7, <1>8, Zenon

LEMMA PlanOfOne ==
    ASSUME NEW deed \in Deeds, NEW u \in Users,
           NEW v \in Choosers \cup Roles \cup {"yes", "no"} \cup Tokens \cup {Nil},
           deed \in {"password", "rehash"} => v \in Choosers,
           deed \in {"role", "create"} => v \in Roles,
           deed \in {"must", "enabled"} => v \in {"yes", "no"}
    PROVE  /\ Plan(<<Do(deed, u, v)>>, u, {deed}) /\ Len(<<Do(deed, u, v)>>) = 1
           /\ \A i \in DOMAIN <<Do(deed, u, v)>> : <<Do(deed, u, v)>>[i].val = v
  <1> DEFINE c == Do(deed, u, v)
  <1>1. c \in Commit /\ c.user = u /\ c.do = deed /\ c.val = v
    BY DoIsCommit
  <1> HIDE DEF c
  <1>2. /\ <<c>> \in Seq(Commit) /\ Len(<<c>>) = 1
        /\ \A i \in DOMAIN <<c>> : <<c>>[i] = c
    BY <1>1, OneCommit
  <1>3. Plan(<<c>>, u, {deed}) /\ Len(<<c>>) = 1 /\ \A i \in DOMAIN <<c>> : <<c>>[i].val = v
    BY <1>1, <1>2, Zenon DEF Plan
  <1> QED BY <1>3 DEF c

LEMMA PlanOfNone ==
    ASSUME NEW u PROVE Plan(<<>>, u, {}) /\ DOMAIN <<>> = {}
  BY NoCommit DEF Plan

LEMMA LoginPlanIs ==
    ASSUME TypeOK, NEW u \in Users, NEW t \in Tokens
    PROVE  Plan(LoginPlan(u, t), u, {"rehash", "must", "open"})
  <1> DEFINE a == Do("rehash", u, acct[u].by)
             b == Do("must", u, IF acct[u].must THEN "yes" ELSE "no")
             c == Do("open", u, t)
  <1>1. acct[u].by \in Choosers
    <2>1. acct[u] \in Row
      BY DEF TypeOK
    <2> QED BY <2>1, RowFields
  <1>2. /\ a \in Commit /\ a.user = u /\ a.do = "rehash"
        /\ c \in Commit /\ c.user = u /\ c.do = "open"
    <2>1. "rehash" \in Deeds /\ "open" \in Deeds
      BY DEF Deeds
    <2> QED BY <1>1, <2>1, DoIsCommit
  <1>3. b \in Commit /\ b.user = u /\ b.do = "must"
    <2>1. (IF acct[u].must THEN "yes" ELSE "no") \in {"yes", "no"} /\ "must" \in Deeds
      BY DEF Deeds
    <2> QED BY <2>1, DoIsCommit
  <1>4. LoginPlan(u, t) = IF acct[u].weak THEN Append(<<a, b>>, c) ELSE Append(<<>>, c)
    BY Zenon DEF LoginPlan, Rehash
  <1> HIDE DEF a, b, c
  <1>5. /\ <<a, b>> \in Seq(Commit)
        /\ \A i \in DOMAIN <<a, b>> : <<a, b>>[i] = a \/ <<a, b>>[i] = b
    BY <1>2, <1>3, TwoCommits
  <1>6. <<>> \in Seq(Commit) /\ DOMAIN <<>> = {}
    BY NoCommit
  <1>7. Plan(Append(<<a, b>>, c), u, {"rehash", "must", "open"})
    <2>1. /\ Append(<<a, b>>, c) \in Seq(Commit)
          /\ \A i \in DOMAIN Append(<<a, b>>, c) :
                \/ Append(<<a, b>>, c)[i] = c
                \/ \E j \in DOMAIN <<a, b>> : Append(<<a, b>>, c)[i] = <<a, b>>[j]
      BY <1>2, <1>5, OneMoreCommit
    <2>2. \A i \in DOMAIN Append(<<a, b>>, c) :
             \/ Append(<<a, b>>, c)[i] = a \/ Append(<<a, b>>, c)[i] = b
             \/ Append(<<a, b>>, c)[i] = c
      BY <1>5, <2>1, Zenon
    <2> QED BY <1>2, <1>3, <2>1, <2>2, Zenon DEF Plan
  <1>8. Plan(Append(<<>>, c), u, {"rehash", "must", "open"})
    <2>1. /\ Append(<<>>, c) \in Seq(Commit)
          /\ \A i \in DOMAIN Append(<<>>, c) :
                \/ Append(<<>>, c)[i] = c
                \/ \E j \in DOMAIN <<>> : Append(<<>>, c)[i] = <<>>[j]
      BY <1>2, <1>6, OneMoreCommit, Zenon
    <2> QED BY <1>2, <1>6, <2>1, Zenon DEF Plan
  <1> QED BY <1>4, <1>7, <1>8, Zenon

\* What a handler may commit: operations on one account; an administrator is
\* taken away only on a judgement.
Judged(q) == IF q.seen = Nil THEN IsAdmin(q.who) ELSE q.seen

Fine(plan, q) ==
    /\ plan \in Seq(Commit)
    /\ \A i \in DOMAIN plan :
          /\ plan[i].user = q.who /\ plan[i].do \notin {"open", "openLate"}
          /\ plan[i].do = "create" =>
                q.op \in {"createAdmin", "createViewer"} /\ Len(plan) = 1
          /\ Removes(plan[i]) => ~WouldRemoveLastAdmin(Judged(q))

LEMMA FineNone == ASSUME NEW q PROVE Fine(<<>>, q)
  BY NoCommit DEF Fine

LEMMA FinePlan ==
    ASSUME NEW q, NEW plan, NEW deeds, Plan(plan, q.who, deeds),
           \A d \in deeds : d \notin {"open", "openLate", "create"},
           \/ ~WouldRemoveLastAdmin(Judged(q))
           \/ \A d \in deeds : d \notin {"delete", "role", "enabled"}
    PROVE  Fine(plan, q)
  <1>1. ASSUME NEW i \in DOMAIN plan
        PROVE  /\ plan[i].user = q.who /\ plan[i].do \notin {"open", "openLate"}
               /\ plan[i].do # "create"
               /\ Removes(plan[i]) => ~WouldRemoveLastAdmin(Judged(q))
    <2>1. plan[i].user = q.who /\ plan[i].do \in deeds
      BY <1>1 DEF Plan
    <2> QED BY <2>1 DEF Removes, Disables
  <1> QED BY <1>1, Zenon DEF Plan, Fine

LEMMA FineOne ==
    ASSUME NEW q \in Request, NEW deed \in {"role", "enabled", "create", "close"},
           NEW v \in Choosers \cup Roles \cup {"yes", "no"} \cup Tokens \cup {Nil},
           deed \in {"role", "create"} => v \in Roles,
           deed = "enabled" => v = "yes",
           deed = "create" => q.op \in {"createAdmin", "createViewer"},
           deed = "role" /\ v = "viewer" => ~WouldRemoveLastAdmin(Judged(q))
    PROVE  Fine(<<Do(deed, q.who, v)>>, q)
  <1> DEFINE plan == <<Do(deed, q.who, v)>>
  <1>1. /\ deed \in Deeds /\ deed \notin {"password", "rehash", "open", "openLate", "delete"}
        /\ q.who \in Users
    BY DEF Deeds, Request
  <1>2. /\ Plan(plan, q.who, {deed}) /\ Len(plan) = 1
        /\ \A i \in DOMAIN plan : plan[i].val = v
    BY <1>1, PlanOfOne
  <1> HIDE DEF plan
  <1>3. \A i \in DOMAIN plan : plan[i].user = q.who /\ plan[i].do = deed /\ plan[i].val = v
    BY <1>2 DEF Plan
  <1>4. \A i \in DOMAIN plan : Removes(plan[i]) => ~WouldRemoveLastAdmin(Judged(q))
    BY <1>1, <1>3 DEF Removes, Disables
  <1>5. Fine(plan, q)
    BY <1>1, <1>2, <1>3, <1>4 DEF Plan, Fine
  <1> QED BY <1>5 DEF plan

LEMMA HandledIsFine == ASSUME NEW q \in Request PROVE Fine(Handled(q), q)
  <1> DEFINE u == q.who
             refused == WouldRemoveLastAdmin(Judged(q))
  <1>1. /\ u \in Users /\ q.token \in Tokens \cup {Nil} /\ q.op \in AdminOps \cup OwnOps
    BY DEF Request
  <1>2. /\ Plan(ResetPlan(u), u, {"password", "must", "drop"})
        /\ Plan(ChangePlan(u), u, {"password", "drop"})
        /\ Plan(DisablePlan(u), u, {"enabled", "drop"})
        /\ Plan(DeletePlan(u), u, {"drop", "delete"})
    BY <1>1, PlansAre
  <1>3. Fine(<<>>, q)
    BY FineNone
  <1>4. "admin" \in Roles /\ "viewer" \in Roles
    BY DEF Roles
  <1>5. Judged(q) = IF q.seen = Nil THEN IsAdmin(u) ELSE q.seen
    BY DEF Judged
  <1>6. CASE q.op = "reset"
    <2>1. Handled(q) = ResetPlan(u)
      BY <1>6 DEF Handled
    <2>2. Fine(ResetPlan(u), q)
      BY <1>2, FinePlan
    <2> QED BY <2>1, <2>2, Zenon
  <1>7. CASE q.op = "change"
    <2>1. Handled(q) = ChangePlan(u)
      BY <1>7 DEF Handled
    <2>2. Fine(ChangePlan(u), q)
      BY <1>2, FinePlan
    <2> QED BY <2>1, <2>2, Zenon
  <1>8. CASE q.op = "promote"
    <2>1. Handled(q) = <<Do("role", u, "admin")>>
      BY <1>8 DEF Handled
    <2>2. Fine(<<Do("role", u, "admin")>>, q)
      BY <1>4, FineOne
    <2> QED BY <2>1, <2>2, Zenon
  <1>9. CASE q.op = "enable"
    <2>1. Handled(q) = <<Do("enabled", u, "yes")>>
      BY <1>9 DEF Handled
    <2>2. Fine(<<Do("enabled", u, "yes")>>, q)
      BY FineOne
    <2> QED BY <2>1, <2>2, Zenon
  <1>10. CASE q.op = "createAdmin"
    <2>1. Handled(q) = <<Do("create", u, "admin")>>
      BY <1>10 DEF Handled
    <2>2. Fine(<<Do("create", u, "admin")>>, q)
      BY <1>4, <1>10, FineOne
    <2> QED BY <2>1, <2>2, Zenon
  <1>11. CASE q.op = "createViewer"
    <2>1. Handled(q) = <<Do("create", u, "viewer")>>
      BY <1>11 DEF Handled
    <2>2. Fine(<<Do("create", u, "viewer")>>, q)
      BY <1>4, <1>11, FineOne
    <2> QED BY <2>1, <2>2, Zenon
  <1>12. CASE q.op = "logout"
    <2>1. Handled(q) = <<Do("close", u, q.token)>>
      BY <1>12 DEF Handled
    <2>2. Fine(<<Do("close", u, q.token)>>, q)
      BY <1>1, FineOne
    <2> QED BY <2>1, <2>2, Zenon
  <1>13. CASE q.op \in {"demote", "disable", "delete"} /\ refused
    <2>1. Handled(q) = <<>>
      BY <1>5, <1>13, Zenon DEF Handled
    <2> QED BY <1>3, <2>1, Zenon
  <1>14. CASE q.op = "demote" /\ ~refused
    <2>1. Handled(q) = <<Do("role", u, "viewer")>>
      BY <1>5, <1>14 DEF Handled
    <2>2. Fine(<<Do("role", u, "viewer")>>, q)
      BY <1>4, <1>14, FineOne
    <2> QED BY <2>1, <2>2, Zenon
  <1>15. CASE q.op = "disable" /\ ~refused
    <2>1. Handled(q) = DisablePlan(u)
      BY <1>5, <1>15 DEF Handled
    <2>2. Fine(DisablePlan(u), q)
      BY <1>2, <1>15, FinePlan
    <2> QED BY <2>1, <2>2, Zenon
  <1>16. CASE q.op = "delete" /\ ~refused
    <2>1. Handled(q) = DeletePlan(u)
      BY <1>5, <1>16 DEF Handled
    <2>2. Fine(DeletePlan(u), q)
      BY <1>2, <1>16, FinePlan
    <2> QED BY <2>1, <2>2, Zenon
  <1>17. q.op \in {"reset", "change", "promote", "enable", "createAdmin", "createViewer",
                   "logout", "demote", "disable", "delete"}
    BY <1>1 DEF AdminOps, OwnOps, JudgingOps
  <1> QED BY <1>6, <1>7, <1>8, <1>9, <1>10, <1>11, <1>12, <1>13, <1>14, <1>15, <1>16, <1>17

\* A commit of the console only marks a login that is under way.
LEMMA LateIs ==
    ASSUME TypeOK, NEW c \in Commit
    PROVE  /\ Late(c) \in Seq(Commit) /\ Len(Late(c)) = Len(gw)
           /\ DOMAIN Late(c) = DOMAIN gw
           /\ \A i \in DOMAIN gw :
                 /\ Late(c)[i].user = gw[i].user
                 /\ \/ Late(c)[i] = gw[i]
                    \/ /\ gw[i].do = "open" /\ Late(c)[i].do = "openLate"
                       /\ c.do = "password" /\ gw[i].user = c.user
  <1>1. gw \in Seq(Commit) /\ Len(gw) \in Nat /\ DOMAIN gw = 1 .. Len(gw)
    BY DEF TypeOK
  <1>2. ASSUME NEW i \in DOMAIN gw
        PROVE  /\ Late(c)[i] \in Commit /\ Late(c)[i].user = gw[i].user
               /\ \/ Late(c)[i] = gw[i]
                  \/ /\ gw[i].do = "open" /\ Late(c)[i].do = "openLate"
                     /\ c.do = "password" /\ gw[i].user = c.user
    <2>1. gw[i] \in Commit
      BY <1>1
    <2>2. CASE c.do = "password" /\ gw[i].do = "open" /\ gw[i].user = c.user
      <3> DEFINE g == gw[i]
      <3>1. Late(c)[i] = [g EXCEPT !.do = "openLate"]
        BY <2>2, Zenon DEF Late
      <3>2. g \in Commit /\ g.do = "open"
        BY <2>1, <2>2
      <3> HIDE DEF g
      <3>3. /\ [g EXCEPT !.do = "openLate"] \in Commit
            /\ [g EXCEPT !.do = "openLate"].user = g.user
            /\ [g EXCEPT !.do = "openLate"].do = "openLate"
        BY <3>2 DEF Commit, Proper, Deeds
      <3> QED BY <2>2, <3>1, <3>3 DEF g
    <2>3. CASE ~(c.do = "password" /\ gw[i].do = "open" /\ gw[i].user = c.user)
      <3>1. Late(c)[i] = gw[i]
        BY <2>3, Zenon DEF Late
      <3> QED BY <2>1, <3>1
    <2> QED BY <2>2, <2>3
  <1>3. DOMAIN Late(c) = DOMAIN gw /\ Late(c) = [i \in DOMAIN gw |-> Late(c)[i]]
    BY Zenon DEF Late
  <1> HIDE DEF Late
  <1>4. Late(c) \in [1 .. Len(gw) -> Commit]
    BY <1>1, <1>2, <1>3, Zenon
  <1>5. Late(c) \in Seq(Commit) /\ Len(Late(c)) = Len(gw)
    BY <1>1, <1>4, FunctionsAreSequences
  <1> QED BY <1>2, <1>3, <1>5, Zenon

-----------------------------------------------------------------------------
\* Types.

LEMMA TypesStart == Init => TypeOK
  <1> SUFFICES ASSUME Init PROVE TypeOK
    OBVIOUS
  <1>1. PICK there \in {{}, Veterans} :
           acct = [u \in Users |->
                     [life |-> IF u \in there THEN "live" ELSE "free", role |-> "admin",
                      enabled |-> TRUE, must |-> FALSE, by |-> "owner", weak |-> u \in Weak]]
    BY Zenon DEF Init
  <1>2. acct \in [Users -> Row]
    BY <1>1 DEF Row, Roles, Choosers
  <1>3. sess \in [Tokens -> Session \cup {Nil}] /\ reqs \in [Reqs -> Request \cup {Nil}]
    BY Zenon DEF Init
  <1>4. gw \in Seq(Commit) /\ cli \in Seq(Commit)
    BY NoCommit, Zenon DEF Init
  <1>5. up \in BOOLEAN /\ cut \subseteq Users /\ misjudged \in BOOLEAN
    BY Zenon DEF Init
  <1> QED BY <1>2, <1>3, <1>4, <1>5, Zenon DEF TypeOK

LEMMA CutIs ==
    ASSUME TypeOK, NEW c \in Commit, NEW others
    PROVE  CutAfter(c, others) \subseteq Users
  <1>1. c.user \in Users /\ cut \subseteq Users
    BY CommitFields DEF TypeOK
  <1> QED BY <1>1, Zenon DEF CutAfter

LEMMA HalfwayIs ==
    ASSUME NEW todo \in Seq(Commit) PROVE Halfway(todo) \subseteq Users
  <1>1. CASE todo # <<>>
    <2>1. Head(todo) \in Commit
      BY <1>1, Tails
    <2>2. Head(todo).user \in Users
      BY <2>1, CommitFields
    <2> QED BY <2>2, Zenon DEF Halfway
  <1>2. CASE todo = <<>>
    BY <1>2, Zenon DEF Halfway
  <1> QED BY <1>1, <1>2

LEMMA TypesGoOn ==
    ASSUME TypeOK, [Next]_vars PROVE TypeOK'
  <1>0. /\ acct \in [Users -> Row] /\ sess \in [Tokens -> Session \cup {Nil}]
        /\ reqs \in [Reqs -> Request \cup {Nil}] /\ gw \in Seq(Commit) /\ cli \in Seq(Commit)
        /\ up \in BOOLEAN /\ cut \subseteq Users /\ misjudged \in BOOLEAN
    BY Zenon DEF TypeOK
  <1>n. <<>> \in Seq(Commit)
    BY NoCommit
  <1>1. ASSUME NEW u \in Users, Boot(u) PROVE TypeOK'
    <2>1. gw' = <<>> \/ gw' = <<Do("create", u, "admin")>>
      BY <1>1, Zenon DEF Boot
    <2>2. <<Do("create", u, "admin")>> \in Seq(Commit)
      <3>1. "create" \in Deeds /\ "admin" \in Roles
        BY DEF Deeds, Roles
      <3> QED BY <3>1, PlanOfOne DEF Plan
    <2>3. gw' \in Seq(Commit)
      BY <1>n, <2>1, <2>2, Zenon
    <2> QED BY <1>0, <1>1, <2>3, Zenon DEF Boot, TypeOK
  <1>2. ASSUME NEW u \in Users, ConsoleReset(u) PROVE TypeOK'
    <2>1. cli' \in Seq(Commit)
      BY <1>2, PlansAre DEF ConsoleReset, Plan
    <2> QED BY <1>0, <1>2, <2>1, Zenon DEF ConsoleReset, TypeOK
  <1>3. ASSUME NEW u \in Users, NEW t \in Tokens, Login(u, t) PROVE TypeOK'
    <2>1. gw' \in Seq(Commit)
      BY <1>3, LoginPlanIs DEF Login, Plan
    <2> QED BY <1>0, <1>3, <2>1, Zenon DEF Login, TypeOK
  <1>4. ASSUME NEW t \in Tokens, Expire(t) \/ TurnAway(t) PROVE TypeOK'
    <2>1. sess' = [sess EXCEPT ![t] = Nil]
      BY <1>4, Zenon DEF Expire, TurnAway
    <2>2. sess' \in [Tokens -> Session \cup {Nil}]
      BY <1>0, <2>1, Zenon
    <2> QED BY <1>0, <1>4, <2>2, Zenon DEF Expire, TurnAway, TypeOK
  <1>5. ASSUME NEW r \in Reqs, NEW t \in Tokens, NEW op \in AdminOps \cup OwnOps,
               NEW x \in Users, Admit(r, t, op, x)
        PROVE  TypeOK'
    <2> DEFINE q == [op |-> op, who |-> x, token |-> IF op = "logout" THEN t ELSE Nil,
                     header |-> r \in Headers /\ op \in JudgingOps, seen |-> Nil]
    <2>1. reqs' = [reqs EXCEPT ![r] = q]
      BY <1>5, Zenon DEF Admit
    <2>2. q \in Request
      <3>1. (r \in Headers /\ op \in JudgingOps) \in BOOLEAN
        OBVIOUS
      <3>2. (IF op = "logout" THEN t ELSE Nil) \in Tokens \cup {Nil}
        OBVIOUS
      <3> QED BY <3>1, <3>2, Zenon DEF Request
    <2> HIDE DEF q
    <2>3. reqs' \in [Reqs -> Request \cup {Nil}]
      BY <1>0, <2>1, <2>2, Zenon
    <2> QED BY <1>0, <1>5, <2>3, Zenon DEF Admit, TypeOK
  <1>6. ASSUME NEW r \in Reqs, ReadTarget(r) PROVE TypeOK'
    <2> DEFINE q == reqs[r]
    <2>1. q \in Request /\ reqs' = [reqs EXCEPT ![r] = [q EXCEPT !.seen = IsAdmin(q.who)]]
      BY <1>0, <1>6 DEF ReadTarget
    <2>2. IsAdmin(q.who) \in BOOLEAN
      BY Zenon DEF IsAdmin
    <2> HIDE DEF q
    <2>3. [q EXCEPT !.seen = IsAdmin(q.who)] \in Request
      BY <2>1, <2>2 DEF Request
    <2>4. reqs' \in [Reqs -> Request \cup {Nil}]
      BY <1>0, <2>1, <2>3, Zenon
    <2> QED BY <1>0, <1>6, <2>4, Zenon DEF ReadTarget, TypeOK
  <1>7. ASSUME NEW r \in Reqs, Handle(r) PROVE TypeOK'
    <2>1. reqs[r] \in Request
      BY <1>0, <1>7, Zenon DEF Handle
    <2>2. gw' \in Seq(Commit)
      <3>1. gw' = Handled(reqs[r])
        BY <1>7, Zenon DEF Handle
      <3> QED BY <2>1, <3>1, HandledIsFine DEF Fine
    <2>3. reqs' \in [Reqs -> Request \cup {Nil}] /\ misjudged' \in BOOLEAN
      BY <1>0, <1>7, Zenon DEF Handle
    <2> QED BY <1>0, <1>7, <2>2, <2>3, Zenon DEF Handle, TypeOK
  <1>8. ASSUME NEW r \in Reqs, Refuse(r) PROVE TypeOK'
    <2>1. reqs' \in [Reqs -> Request \cup {Nil}]
      BY <1>0, <1>8, Zenon DEF Refuse
    <2> QED BY <1>0, <1>8, <2>1, Zenon DEF Refuse, TypeOK
  <1>9. CASE GatewayCommits
    <2> DEFINE c == Head(gw)
    <2>1. c \in Commit /\ Tail(gw) \in Seq(Commit)
      BY <1>0, <1>9, Tails DEF GatewayCommits
    <2>2. /\ acct' = AcctAfter(c) /\ sess' = SessAfter(c) /\ gw' = Tail(gw)
          /\ cut' = CutAfter(c, cli)
      BY <1>9, Zenon DEF GatewayCommits
    <2> HIDE DEF c
    <2>3. /\ acct' \in [Users -> Row] /\ sess' \in [Tokens -> Session \cup {Nil}]
          /\ cut' \subseteq Users /\ gw' \in Seq(Commit)
      BY <2>1, <2>2, RowsTyped, SessionsTyped, CutIs, Zenon
    <2> QED BY <1>0, <1>9, <2>3, Zenon DEF GatewayCommits, TypeOK
  <1>10. CASE ConsoleCommits
    <2> DEFINE c == Head(cli)
    <2>1. c \in Commit /\ Tail(cli) \in Seq(Commit)
      BY <1>0, <1>10, Tails DEF ConsoleCommits
    <2>2. /\ acct' = AcctAfter(c) /\ sess' = SessAfter(c) /\ gw' = Late(c)
          /\ cut' = CutAfter(c, gw) /\ cli' = Tail(cli)
      BY <1>10, Zenon DEF ConsoleCommits
    <2> HIDE DEF c
    <2>3. /\ acct' \in [Users -> Row] /\ sess' \in [Tokens -> Session \cup {Nil}]
          /\ cut' \subseteq Users /\ gw' \in Seq(Commit) /\ cli' \in Seq(Commit)
      BY <2>1, <2>2, RowsTyped, SessionsTyped, CutIs, LateIs, Zenon
    <2> QED BY <1>0, <1>10, <2>3, Zenon DEF ConsoleCommits, TypeOK
  <1>11. CASE Crash
    <2>1. cut' \subseteq Users
      <3>1. Halfway(gw) \subseteq Users
        BY <1>0, HalfwayIs
      <3> QED BY <1>0, <1>11, <3>1, Zenon DEF Crash
    <2>2. reqs' \in [Reqs -> Request \cup {Nil}]
      BY <1>11, Zenon DEF Crash
    <2> QED BY <1>0, <1>n, <1>11, <2>1, <2>2, Zenon DEF Crash, TypeOK
  <1>12. CASE ConsoleKilled
    <2>1. cut' \subseteq Users
      <3>1. Halfway(cli) \subseteq Users
        BY <1>0, HalfwayIs
      <3> QED BY <1>0, <1>12, <3>1, Zenon DEF ConsoleKilled
    <2> QED BY <1>0, <1>n, <1>12, <2>1, Zenon DEF ConsoleKilled, TypeOK
  <1>13. CASE UNCHANGED vars
    BY <1>0, <1>13, Zenon DEF vars, TypeOK
  <1> QED BY <1>1, <1>2, <1>3, <1>4, <1>5, <1>6, <1>7, <1>8, <1>9, <1>10, <1>11,
             <1>12, <1>13, Zenon DEF Next

\* Every row, request and commit is of its type, for any accounts, sessions and
\* requests (Database, AuthService).
THEOREM AccountTypes == Spec => []TypeOK
  <1>1. TypeOK /\ [Next]_vars => TypeOK'
    BY TypesGoOn
  <1> QED BY <1>1, TypesStart, PTL DEF Spec

-----------------------------------------------------------------------------
\* An administrator remains.

\* What must be shown of the commits that are due after a step.
LEMMA DuesGoOn ==
    ASSUME \A i \in DOMAIN gw' :
              /\ Removes(gw'[i]) => Admins' \ {gw'[i].user} # {} \/ misjudged'
              /\ gw'[i].do = "create" => acct'[gw'[i].user].life = "free" /\ Len(gw') = 1
              /\ gw'[i].do \in {"open", "openLate"}
                    \/ (gw'[i].do = "create" /\ gw'[i].val = "viewer") => Inhabited'
              /\ \A j \in DOMAIN gw' : gw'[j].user = gw'[i].user
    PROVE  OperationInv'
  BY Zenon DEF OperationInv, DueInv, Removes

LEMMA NothingDue == gw' = <<>> => OperationInv'
  <1> SUFFICES ASSUME gw' = <<>> PROVE OperationInv'
    OBVIOUS
  <1>1. DOMAIN gw' = {}
    OBVIOUS
  <1> QED BY <1>1, DuesGoOn, Zenon

\* While no row changes and no commit falls due, nothing is lost.
LEMMA RowsStay ==
    ASSUME acct' = acct, misjudged => misjudged'
    PROVE  /\ Admins' = Admins /\ (Inhabited' <=> Inhabited)
           /\ AdminRemains => AdminRemains'
           /\ OperationInv /\ gw' = gw => OperationInv'
  <1>1. Admins' = Admins /\ (Inhabited' <=> Inhabited)
    BY Zenon DEF Admins, IsAdmin, Inhabited
  <1>2. AdminRemains => AdminRemains'
    BY <1>1, Zenon DEF AdminRemains
  <1>3. OperationInv /\ gw' = gw => OperationInv'
    <2> SUFFICES ASSUME OperationInv, gw' = gw PROVE OperationInv'
      OBVIOUS
    <2>1. ASSUME NEW i \in DOMAIN gw
          PROVE  /\ Removes(gw[i]) => Admins' \ {gw[i].user} # {} \/ misjudged'
                 /\ gw[i].do = "create" => acct'[gw[i].user].life = "free" /\ Len(gw) = 1
                 /\ gw[i].do \in {"open", "openLate"}
                       \/ (gw[i].do = "create" /\ gw[i].val = "viewer") => Inhabited'
                 /\ \A j \in DOMAIN gw : gw[j].user = gw[i].user
      <3>1. /\ DueInv(gw[i]) /\ (gw[i].do = "create" => Len(gw) = 1)
            /\ \A j \in DOMAIN gw : gw[j].user = gw[i].user
        BY <2>1, Zenon DEF OperationInv
      <3> QED BY <1>1, <3>1, Zenon DEF DueInv
    <2> QED BY <2>1, DuesGoOn, Zenon
  <1> QED BY <1>1, <1>2, <1>3

LEMMA AdminStarts == Init => AdminInv
  <1> SUFFICES ASSUME Init PROVE AdminInv
    OBVIOUS
  <1>1. PICK there \in {{}, Veterans} :
           acct = [u \in Users |->
                     [life |-> IF u \in there THEN "live" ELSE "free", role |-> "admin",
                      enabled |-> TRUE, must |-> FALSE, by |-> "owner", weak |-> u \in Weak]]
    BY Zenon DEF Init
  <1>2. AdminRemains
    <2> SUFFICES ASSUME NEW u \in Users, acct[u].life # "free" PROVE Admins # {}
      BY Zenon DEF AdminRemains
    <2>1. acct[u].life = "live" /\ acct[u].role = "admin" /\ acct[u].enabled
      BY <1>1
    <2> QED BY <2>1, AdminsAre, Zenon
  <1>3. gw = <<>> /\ cli = <<>> /\ DOMAIN <<>> = {}
    BY NoCommit DEF Init
  <1>4. OperationInv /\ ConsoleInv
    BY <1>3, Zenon DEF OperationInv, ConsoleInv
  <1>5. ArrivalInv
    BY Zenon DEF Init, ArrivalInv
  <1> QED BY <1>2, <1>4, <1>5 DEF AdminInv

\* The commits of an operation, told apart by what they may do.
LEMMA PlanIsDue ==
    ASSUME NEW u, NEW deeds, Plan(gw', u, deeds),
           \A d \in deeds : d \notin {"delete", "role", "enabled", "create"},
           Inhabited'
    PROVE  OperationInv'
  <1>1. ASSUME NEW i \in DOMAIN gw'
        PROVE  /\ ~Removes(gw'[i]) /\ gw'[i].do # "create" /\ gw'[i].user = u
    <2>1. gw'[i].do \in deeds /\ gw'[i].user = u
      BY <1>1, Zenon DEF Plan
    <2> QED BY <2>1 DEF Removes, Disables
  <1> QED BY <1>1, DuesGoOn, Zenon

\* The handler counts before it takes one away: either another is left, or the
\* row it judged has changed.
LEMMA AnotherIsLeft ==
    ASSUME NEW q, AdminRemains, Inhabited, ~WouldRemoveLastAdmin(Judged(q)),
           ~misjudged, Judged(q) = IsAdmin(q.who)
    PROVE  Admins \ {q.who} # {}
  <1>1. CASE IsAdmin(q.who)
    <2>1. ~(Cardinality(Admins) <= 1)
      BY <1>1, Zenon DEF WouldRemoveLastAdmin
    <2> SUFFICES ASSUME Admins \ {q.who} = {} PROVE FALSE
      OBVIOUS
    <2>2. Admins \in SUBSET {q.who}
      BY Zenon
    <2>3. IsFiniteSet({q.who}) /\ Cardinality({q.who}) = 1
      BY FS_Singleton
    <2>4. IsFiniteSet(Admins) /\ Cardinality(Admins) <= Cardinality({q.who})
      BY <2>2, <2>3, FS_Subset
    <2> QED BY <2>1, <2>3, <2>4
  <1>2. CASE ~IsAdmin(q.who)
    <2>1. q.who \notin Admins
      BY <1>2, Zenon DEF Admins
    <2>2. Admins # {}
      BY Zenon DEF AdminRemains, Inhabited
    <2> QED BY <2>1, <2>2, Zenon
  <1> QED BY <1>1, <1>2

LEMMA GatewayKeepsAdmin ==
    ASSUME TypeOK, AdminInv, GatewayCommits PROVE AdminInv'
  <1> DEFINE c == Head(gw)
  <1>1. /\ gw # <<>> /\ acct' = AcctAfter(c) /\ sess' = SessAfter(c) /\ gw' = Tail(gw)
        /\ reqs' = reqs /\ cli' = cli /\ misjudged' = misjudged
    BY Zenon DEF GatewayCommits
  <1>2. /\ c \in Commit /\ c = gw[1] /\ 1 \in DOMAIN gw
        /\ Len(gw) = 1 => DOMAIN Tail(gw) = {}
        /\ \A i \in DOMAIN Tail(gw) :
              i + 1 \in DOMAIN gw /\ Tail(gw)[i] = gw[i + 1] /\ gw[i + 1] \in Commit
    <2>1. gw \in Seq(Commit)
      BY Zenon DEF TypeOK
    <2> QED BY <1>1, <2>1, Tails
  <1> HIDE DEF c
  <1>3. DueInv(c) /\ (c.do = "create" => Len(gw) = 1)
    BY <1>2, Zenon DEF AdminInv, OperationInv
  <1>4. /\ Admins \ {c.user} \subseteq Admins'
        /\ ~Removes(c) => Admins \subseteq Admins'
        /\ c.do = "create" => acct'[c.user].life # "free"
        /\ c.do = "create" /\ c.val = "admin" => c.user \in Admins'
        /\ \A v \in Users : acct[v].life # "free" => acct'[v].life # "free"
        /\ c.do # "create" =>
              \A v \in Users : /\ acct'[v].life # "free" => acct[v].life # "free"
                               /\ acct[v].life = "free" => acct'[v].life = "free"
    <2>1. c.do = "create" => acct[c.user].life = "free"
      BY <1>3, Zenon DEF DueInv
    <2> QED BY <1>1, <1>2, <2>1, Committed
  <1>5. /\ Inhabited => Inhabited'
        /\ c.do # "create" /\ Inhabited' => Inhabited
    BY <1>4, Zenon DEF Inhabited
  <1>6. AdminRemains'
    <2> SUFFICES ASSUME Inhabited', ~misjudged PROVE Admins' # {}
      BY <1>1, Zenon DEF AdminRemains, Inhabited
    <2>0. Inhabited => Admins # {}
      BY Zenon DEF AdminInv, AdminRemains, Inhabited
    <2>1. CASE c.do = "create" /\ c.val = "admin"
      BY <1>4, <2>1, Zenon
    <2>2. CASE c.do = "create" /\ c.val # "admin"
      <3>1. c.val \in Roles
        BY <1>2, <2>2, CommitFields DEF Proper
      <3>2. c.val = "viewer"
        BY <2>2, <3>1 DEF Roles
      <3>3. Inhabited
        BY <1>3, <2>2, <3>2, Zenon DEF DueInv
      <3>4. ~Removes(c)
        BY <2>2 DEF Removes, Disables
      <3> QED BY <1>4, <2>0, <3>3, <3>4, Zenon
    <2>3. CASE c.do # "create" /\ Removes(c)
      BY <1>3, <1>4, <2>3, Zenon DEF DueInv
    <2>4. CASE c.do # "create" /\ ~Removes(c)
      BY <1>4, <1>5, <2>0, <2>4, Zenon
    <2> QED BY <2>1, <2>2, <2>3, <2>4
  <1>7. OperationInv'
    <2>1. ASSUME NEW i \in DOMAIN gw'
          PROVE  /\ Removes(gw'[i]) => Admins' \ {gw'[i].user} # {} \/ misjudged'
                 /\ gw'[i].do # "create"
                 /\ gw'[i].do \in {"open", "openLate"} => Inhabited'
                 /\ \A j \in DOMAIN gw' : gw'[j].user = gw'[i].user
      <3>1. /\ Len(gw) # 1 /\ i + 1 \in DOMAIN gw /\ gw'[i] = gw[i + 1]
        BY <1>1, <1>2, <2>1, Zenon
      <3>2. /\ DueInv(gw[i + 1]) /\ gw[i + 1].do # "create"
            /\ \A j \in DOMAIN gw : gw[j].user = gw[i + 1].user
        BY <3>1, Zenon DEF AdminInv, OperationInv
      <3>3. c.user = gw'[i].user
        BY <1>2, <3>1, <3>2, Zenon
      <3>4. Removes(gw'[i]) => Admins' \ {gw'[i].user} # {} \/ misjudged'
        BY <1>1, <1>4, <3>1, <3>2, <3>3, Zenon DEF DueInv
      <3>5. gw'[i].do \in {"open", "openLate"} => Inhabited'
        BY <1>5, <3>1, <3>2, Zenon DEF DueInv
      <3>6. \A j \in DOMAIN gw' : gw'[j].user = gw'[i].user
        BY <1>1, <1>2, <3>1, <3>2, Zenon
      <3> QED BY <3>1, <3>2, <3>4, <3>5, <3>6, Zenon
    <2> QED BY <2>1, DuesGoOn, Zenon
  <1>8. ConsoleInv'
    BY <1>1, Zenon DEF AdminInv, ConsoleInv
  <1>9. ArrivalInv'
    <2>1. \A t \in Tokens : sess'[t] # Nil => sess[t] # Nil \/ c.do \in {"open", "openLate"}
      BY <1>1, <1>2, SessionsTyped, Zenon
    <2>2. c.do \in {"open", "openLate"} => Inhabited
      BY <1>3, Zenon DEF DueInv
    <2> QED BY <1>1, <1>5, <2>1, <2>2, Zenon DEF AdminInv, ArrivalInv
  <1> QED BY <1>6, <1>7, <1>8, <1>9, Zenon DEF AdminInv

LEMMA ConsoleKeepsAdmin ==
    ASSUME TypeOK, AdminInv, ConsoleCommits PROVE AdminInv'
  <1> DEFINE c == Head(cli)
  <1>1. /\ cli # <<>> /\ acct' = AcctAfter(c) /\ sess' = SessAfter(c) /\ gw' = Late(c)
        /\ cli' = Tail(cli) /\ reqs' = reqs /\ misjudged' = misjudged
    BY Zenon DEF ConsoleCommits
  <1>2. /\ c \in Commit /\ c = cli[1] /\ 1 \in DOMAIN cli
        /\ \A i \in DOMAIN Tail(cli) : i + 1 \in DOMAIN cli /\ Tail(cli)[i] = cli[i + 1]
    <2>1. cli \in Seq(Commit)
      BY Zenon DEF TypeOK
    <2> QED BY <1>1, <2>1, Tails
  <1> HIDE DEF c
  <1>3. c.do \in {"password", "must", "drop"}
    BY <1>2, Zenon DEF AdminInv, ConsoleInv
  <1>4. c.do # "create" /\ ~Removes(c) /\ c.do \notin {"open", "openLate"}
    BY <1>3 DEF Removes, Disables
  <1>5. /\ Admins \subseteq Admins'
        /\ \A v \in Users : /\ acct'[v].life # "free" => acct[v].life # "free"
                            /\ acct[v].life = "free" => acct'[v].life = "free"
        /\ \A v \in Users : acct[v].life # "free" => acct'[v].life # "free"
    BY <1>1, <1>2, <1>4, Committed
  <1>6. Inhabited' <=> Inhabited
    BY <1>5, Zenon DEF Inhabited
  <1>7. AdminRemains'
    BY <1>1, <1>5, <1>6, Zenon DEF AdminInv, AdminRemains, Inhabited
  <1>8. /\ Len(gw') = Len(gw) /\ DOMAIN gw' = DOMAIN gw
        /\ \A i \in DOMAIN gw :
              /\ gw'[i].user = gw[i].user
              /\ gw'[i] = gw[i] \/ (gw[i].do = "open" /\ gw'[i].do = "openLate")
    <2> DEFINE late == Late(c)
    <2>1. /\ Len(late) = Len(gw) /\ DOMAIN late = DOMAIN gw
          /\ \A i \in DOMAIN gw :
                /\ late[i].user = gw[i].user
                /\ late[i] = gw[i] \/ (gw[i].do = "open" /\ late[i].do = "openLate")
      BY <1>2, LateIs
    <2> HIDE DEF late
    <2>2. gw' = late
      BY <1>1 DEF late
    <2> QED BY <2>1, <2>2, Zenon
  <1>9. OperationInv'
    <2>1. ASSUME NEW i \in DOMAIN gw'
          PROVE  /\ Removes(gw'[i]) => Admins' \ {gw'[i].user} # {} \/ misjudged'
                 /\ gw'[i].do = "create" => acct'[gw'[i].user].life = "free" /\ Len(gw') = 1
                 /\ gw'[i].do \in {"open", "openLate"}
                       \/ (gw'[i].do = "create" /\ gw'[i].val = "viewer") => Inhabited'
                 /\ \A j \in DOMAIN gw' : gw'[j].user = gw'[i].user
      <3>1. /\ i \in DOMAIN gw /\ DueInv(gw[i]) /\ (gw[i].do = "create" => Len(gw) = 1)
            /\ \A j \in DOMAIN gw : gw[j].user = gw[i].user
        BY <1>8, <2>1, Zenon DEF AdminInv, OperationInv
      <3>2. gw[i].user \in Users
        <4>1. gw[i] \in Commit
          BY <3>1 DEF TypeOK
        <4> QED BY <4>1, CommitFields
      <3>3. \A j \in DOMAIN gw' : gw'[j].user = gw'[i].user
        BY <1>8, <3>1, Zenon
      <3>4. CASE gw'[i] = gw[i]
        BY <1>1, <1>5, <1>6, <1>8, <3>1, <3>2, <3>3, <3>4, Zenon DEF DueInv
      <3>5. CASE gw[i].do = "open" /\ gw'[i].do = "openLate"
        <4>1. ~Removes(gw'[i]) /\ gw'[i].do # "create"
          BY <3>5 DEF Removes, Disables
        <4>2. Inhabited'
          BY <1>6, <3>1, <3>5, Zenon DEF DueInv
        <4> QED BY <3>3, <4>1, <4>2, Zenon
      <3> QED BY <1>8, <3>1, <3>4, <3>5, Zenon
    <2> QED BY <2>1, DuesGoOn, Zenon
  <1>10. ConsoleInv'
    BY <1>1, <1>2, Zenon DEF AdminInv, ConsoleInv
  <1>11. ArrivalInv'
    <2>1. \A t \in Tokens : sess'[t] # Nil => sess[t] # Nil
      BY <1>1, <1>2, <1>4, SessionsTyped, Zenon
    <2> QED BY <1>1, <1>6, <2>1, Zenon DEF AdminInv, ArrivalInv
  <1> QED BY <1>7, <1>9, <1>10, <1>11, Zenon DEF AdminInv

LEMMA HandlerKeepsAdmin ==
    ASSUME TypeOK, AdminInv, NEW r \in Reqs, Handle(r) PROVE AdminInv'
  <1> DEFINE q == reqs[r]
  <1>1. /\ q \in Request /\ q # Nil
    BY Zenon DEF Handle, TypeOK
  <1>2. /\ q.op \in {"createAdmin", "createViewer"} => acct[q.who].life = "free"
        /\ gw' = Handled(q) /\ reqs' = [reqs EXCEPT ![r] = Nil]
        /\ misjudged' = (misjudged \/ (q.seen # Nil /\ q.seen # IsAdmin(q.who)))
        /\ acct' = acct /\ sess' = sess /\ cli' = cli
    BY Zenon DEF Handle
  <1>3. Fine(gw', q)
    BY <1>1, <1>2, HandledIsFine, Zenon
  <1>4. Inhabited
    BY <1>1, Zenon DEF AdminInv, ArrivalInv
  <1> HIDE DEF q
  <1>5. Admins' = Admins /\ (Inhabited' <=> Inhabited) /\ AdminRemains'
    BY <1>2, RowsStay, Zenon DEF AdminInv
  <1>6. ~WouldRemoveLastAdmin(Judged(q)) => Admins \ {q.who} # {} \/ misjudged'
    <2> SUFFICES ASSUME ~WouldRemoveLastAdmin(Judged(q)), ~misjudged'
                 PROVE  Admins \ {q.who} # {}
      OBVIOUS
    <2>1. ~misjudged /\ (q.seen # Nil => q.seen = IsAdmin(q.who))
      BY <1>2, Zenon
    <2>2. Judged(q) = IsAdmin(q.who)
      BY <2>1, Zenon DEF Judged
    <2> QED BY <1>4, <2>1, <2>2, AnotherIsLeft, Zenon DEF AdminInv
  <1>7. OperationInv'
    <2>1. ASSUME NEW i \in DOMAIN gw'
          PROVE  /\ Removes(gw'[i]) => Admins' \ {gw'[i].user} # {} \/ misjudged'
                 /\ gw'[i].do = "create" => acct'[gw'[i].user].life = "free" /\ Len(gw') = 1
                 /\ \A j \in DOMAIN gw' : gw'[j].user = gw'[i].user
      <3>1. /\ gw'[i].user = q.who /\ (\A j \in DOMAIN gw' : gw'[j].user = q.who)
            /\ gw'[i].do = "create" =>
                  q.op \in {"createAdmin", "createViewer"} /\ Len(gw') = 1
            /\ Removes(gw'[i]) => ~WouldRemoveLastAdmin(Judged(q))
        BY <1>3, <2>1, Zenon DEF Fine
      <3> QED BY <1>2, <1>5, <1>6, <3>1, Zenon
    <2> QED BY <1>4, <1>5, <2>1, DuesGoOn, Zenon
  <1>8. ConsoleInv'
    BY <1>2, Zenon DEF AdminInv, ConsoleInv
  <1>9. ArrivalInv'
    BY <1>4, <1>5, Zenon DEF ArrivalInv
  <1> QED BY <1>5, <1>7, <1>8, <1>9, Zenon DEF AdminInv

LEMMA AdminGoesOn ==
    ASSUME TypeOK, AdminInv, [Next]_vars PROVE AdminInv'
  <1>0. AdminRemains /\ OperationInv /\ ConsoleInv /\ ArrivalInv
    BY Zenon DEF AdminInv
  <1>1. ASSUME NEW u \in Users, Boot(u) PROVE AdminInv'
    <2>1. acct' = acct /\ sess' = sess /\ reqs' = reqs /\ cli' = cli /\ misjudged' = misjudged
      BY <1>1, Zenon DEF Boot
    <2>2. AdminRemains' /\ ConsoleInv' /\ ArrivalInv'
      BY <1>0, <2>1, RowsStay, Zenon DEF ConsoleInv, ArrivalInv
    <2>3. CASE gw' = <<>>
      BY <2>2, <2>3, NothingDue, Zenon DEF AdminInv
    <2>4. CASE gw' = <<Do("create", u, "admin")>> /\ acct[u].life = "free"
      <3>1. "create" \in Deeds /\ "admin" \in Roles
        BY DEF Deeds, Roles
      <3>2. /\ Plan(gw', u, {"create"}) /\ Len(gw') = 1
            /\ \A i \in DOMAIN gw' : gw'[i].val = "admin"
        BY <2>4, <3>1, PlanOfOne
      <3>3. \A i \in DOMAIN gw' :
               gw'[i].user = u /\ gw'[i].do = "create" /\ gw'[i].val = "admin"
        BY <3>2 DEF Plan
      <3>4. \A i \in DOMAIN gw' : ~Removes(gw'[i])
        BY <3>3 DEF Removes, Disables
      <3>5. OperationInv'
        <4>1. ASSUME NEW i \in DOMAIN gw'
              PROVE  /\ gw'[i].do \notin {"open", "openLate"} /\ gw'[i].val # "viewer"
                     /\ acct'[gw'[i].user].life = "free"
                     /\ \A j \in DOMAIN gw' : gw'[j].user = gw'[i].user
          BY <2>1, <2>4, <3>3, <4>1
        <4> QED BY <3>2, <3>4, <4>1, DuesGoOn, Zenon
      <3> QED BY <2>2, <3>5, Zenon DEF AdminInv
    <2> QED BY <1>1, <2>3, <2>4, Zenon DEF Boot
  <1>2. ASSUME NEW u \in Users, ConsoleReset(u) PROVE AdminInv'
    <2>1. /\ acct' = acct /\ sess' = sess /\ reqs' = reqs /\ gw' = gw /\ misjudged' = misjudged
          /\ cli' = ResetPlan(u)
      BY <1>2, Zenon DEF ConsoleReset
    <2>2. AdminRemains' /\ OperationInv' /\ ArrivalInv'
      BY <1>0, <2>1, RowsStay, Zenon DEF ArrivalInv
    <2>3. ConsoleInv'
      BY <2>1, PlansAre, Zenon DEF Plan, ConsoleInv
    <2> QED BY <2>2, <2>3, Zenon DEF AdminInv
  <1>3. ASSUME NEW u \in Users, NEW t \in Tokens, Login(u, t) PROVE AdminInv'
    <2>1. /\ acct' = acct /\ sess' = sess /\ reqs' = reqs /\ cli' = cli
          /\ misjudged' = misjudged /\ gw' = LoginPlan(u, t) /\ acct[u].life = "live"
      BY <1>3, Zenon DEF Login
    <2>2. AdminRemains' /\ ConsoleInv' /\ ArrivalInv' /\ (Inhabited' <=> Inhabited)
      BY <1>0, <2>1, RowsStay, Zenon DEF ConsoleInv, ArrivalInv
    <2>3. Inhabited
      BY <2>1 DEF Inhabited
    <2>4. Plan(gw', u, {"rehash", "must", "open"})
      BY <2>1, LoginPlanIs, Zenon
    <2>5. OperationInv'
      <3>1. \A d \in {"rehash", "must", "open"} : d \notin {"delete", "role", "enabled", "create"}
        OBVIOUS
      <3>2. Inhabited'
        BY <2>2, <2>3, Zenon
      <3> QED BY <2>4, <3>1, <3>2, PlanIsDue
    <2> QED BY <2>2, <2>5, Zenon DEF AdminInv
  <1>4. ASSUME NEW t \in Tokens, Expire(t) \/ TurnAway(t) PROVE AdminInv'
    <2>1. /\ acct' = acct /\ reqs' = reqs /\ gw' = gw /\ cli' = cli /\ misjudged' = misjudged
          /\ sess' = [sess EXCEPT ![t] = Nil] /\ sess[t] # Nil
      BY <1>4, Zenon DEF Expire, TurnAway
    <2>2. Inhabited
      BY <1>0, <2>1, Zenon DEF ArrivalInv
    <2> QED BY <1>0, <2>1, <2>2, RowsStay, Zenon DEF AdminInv, ConsoleInv, ArrivalInv
  <1>5. ASSUME NEW r \in Reqs, NEW t \in Tokens, NEW op \in AdminOps \cup OwnOps,
               NEW x \in Users, Admit(r, t, op, x)
        PROVE  AdminInv'
    <2>1. /\ acct' = acct /\ sess' = sess /\ gw' = gw /\ cli' = cli /\ misjudged' = misjudged
          /\ sess[t] # Nil
      BY <1>5, Zenon DEF Admit
    <2>2. Inhabited
      BY <1>0, <2>1, Zenon DEF ArrivalInv
    <2> QED BY <1>0, <2>1, <2>2, RowsStay, Zenon DEF AdminInv, ConsoleInv, ArrivalInv
  <1>6. ASSUME NEW r \in Reqs, ReadTarget(r) \/ Refuse(r) PROVE AdminInv'
    <2>1. /\ acct' = acct /\ sess' = sess /\ gw' = gw /\ cli' = cli /\ misjudged' = misjudged
          /\ reqs[r] # Nil
      BY <1>6, Zenon DEF ReadTarget, Refuse
    <2>2. Inhabited
      BY <1>0, <2>1, Zenon DEF ArrivalInv
    <2> QED BY <1>0, <2>1, <2>2, RowsStay, Zenon DEF AdminInv, ConsoleInv, ArrivalInv
  <1>7. ASSUME NEW r \in Reqs, Handle(r) PROVE AdminInv'
    BY <1>7, HandlerKeepsAdmin
  <1>8. CASE GatewayCommits
    BY <1>8, GatewayKeepsAdmin
  <1>9. CASE ConsoleCommits
    BY <1>9, ConsoleKeepsAdmin
  <1>10. CASE Crash
    <2>1. /\ acct' = acct /\ sess' = sess /\ gw' = <<>> /\ cli' = cli /\ misjudged' = misjudged
          /\ reqs' = [r \in Reqs |-> Nil]
      BY <1>10, Zenon DEF Crash
    <2>2. AdminRemains' /\ ConsoleInv' /\ (Inhabited' <=> Inhabited)
      BY <1>0, <2>1, RowsStay, Zenon DEF ConsoleInv
    <2>3. ArrivalInv'
      BY <1>0, <2>1, <2>2, Zenon DEF ArrivalInv
    <2> QED BY <2>1, <2>2, <2>3, NothingDue, Zenon DEF AdminInv
  <1>11. CASE ConsoleKilled
    <2>1. /\ acct' = acct /\ sess' = sess /\ reqs' = reqs /\ gw' = gw /\ misjudged' = misjudged
          /\ cli' = <<>>
      BY <1>11, Zenon DEF ConsoleKilled
    <2>2. DOMAIN cli' = {}
      BY <2>1
    <2> QED BY <1>0, <2>1, <2>2, RowsStay, Zenon DEF AdminInv, ConsoleInv, ArrivalInv
  <1>12. CASE UNCHANGED vars
    <2>1. /\ acct' = acct /\ sess' = sess /\ reqs' = reqs /\ gw' = gw /\ misjudged' = misjudged
          /\ cli' = cli
      BY <1>12, Zenon DEF vars
    <2> QED BY <1>0, <2>1, RowsStay, Zenon DEF AdminInv, ConsoleInv, ArrivalInv
  <1> QED BY <1>1, <1>2, <1>3, <1>4, <1>5, <1>6, <1>7, <1>8, <1>9, <1>10, <1>11, <1>12,
             Zenon DEF Next

\* The gateway never loses its last enabled administrator but by a handler that
\* judged a row which had changed since (AuthService.would_remove_last_admin and
\* its callers), for any accounts, sessions and requests.
THEOREM AnAdminRemains == Spec => []AdminRemains
  <1>1. TypeOK /\ AdminInv /\ [Next]_vars => TypeOK' /\ AdminInv'
    BY TypesGoOn, AdminGoesOn
  <1>2. AdminInv => AdminRemains
    BY Zenon DEF AdminInv
  <1> QED BY <1>1, <1>2, TypesStart, AdminStarts, PTL DEF Spec

-----------------------------------------------------------------------------
\* A forced change and a revocation are lost on the accounts of `cut` only.

\* A password that somebody else chose is in force and need not be changed.
Exposed(a) == a.life = "live" /\ a.by = "other" /\ ~a.must

LEMMA RowTold ==
    ASSUME NEW a \in Row, NEW c \in Commit
    PROVE  /\ c.do \in {"password", "rehash"} => RowAfter(a, c).by = c.val
           /\ c.do = "must" => /\ RowAfter(a, c).by = a.by
                               /\ RowAfter(a, c).must <=> c.val = "yes"
           /\ c.do = "create" => RowAfter(a, c).must
           /\ c.do \notin {"password", "rehash", "must", "create"} =>
                 /\ RowAfter(a, c).by = a.by /\ (RowAfter(a, c).must <=> a.must)
                 /\ RowAfter(a, c).life = "live" => a.life = "live"
  <1>0. c.do \in Deeds
    BY CommitFields
  <1>1. CASE c.do \in {"password", "rehash"}
    <2>1. RowAfter(a, c) = [a EXCEPT !.must = FALSE, !.by = c.val, !.weak = FALSE]
      BY <1>1 DEF RowAfter
    <2> QED BY <1>1, <2>1 DEF Row
  <1>2. CASE c.do = "must"
    <2>1. RowAfter(a, c) = [a EXCEPT !.must = (c.val = "yes")]
      BY <1>2 DEF RowAfter
    <2>2. RowAfter(a, c).by = a.by /\ RowAfter(a, c).must = (c.val = "yes")
      BY <2>1 DEF Row
    <2> QED BY <1>2, <2>2
  <1>3. CASE c.do = "create"
    <2>1. RowAfter(a, c) = [life |-> "live", role |-> c.val, enabled |-> TRUE,
                            must |-> TRUE, by |-> "other", weak |-> FALSE]
      BY <1>3 DEF RowAfter
    <2> QED BY <1>3, <2>1
  <1>4. CASE c.do = "role"
    <2>1. RowAfter(a, c) = [a EXCEPT !.role = c.val]
      BY <1>4 DEF RowAfter
    <2> QED BY <1>4, <2>1 DEF Row
  <1>5. CASE c.do = "enabled"
    <2>1. RowAfter(a, c) = [a EXCEPT !.enabled = (c.val = "yes")]
      BY <1>5 DEF RowAfter
    <2> QED BY <1>5, <2>1 DEF Row
  <1>6. CASE c.do = "delete"
    <2>1. RowAfter(a, c) = [a EXCEPT !.life = "gone"]
      BY <1>6 DEF RowAfter
    <2> QED BY <1>6, <2>1 DEF Row
  <1>7. CASE c.do \in {"drop", "open", "openLate", "close"}
    <2>1. RowAfter(a, c) = a
      BY <1>7 DEF RowAfter
    <2> QED BY <1>7, <2>1
  <1> QED BY <1>0, <1>1, <1>2, <1>3, <1>4, <1>5, <1>6, <1>7 DEF Deeds

\* Only the commit of a password, of the flag or of an account touches either.
LEMMA ExposedBy ==
    ASSUME TypeOK, NEW c \in Commit, acct' = AcctAfter(c)
    PROVE  /\ \A u \in Users : u # c.user => acct'[u] = acct[u]
           /\ Exposed(acct'[c.user]) =>
                 \/ c.do \in {"password", "rehash"} /\ c.val = "other"
                 \/ c.do = "must" /\ c.val = "no" /\ acct[c.user].by = "other"
                 \/ /\ c.do \notin {"password", "rehash", "must", "create"}
                    /\ Exposed(acct[c.user])
           /\ acct[c.user].by = "owner" /\ acct'[c.user].by # "owner" =>
                 c.do = "create" \/ (c.do \in {"password", "rehash"} /\ c.val # "owner")
  <1>1. acct \in [Users -> Row] /\ c.user \in Users /\ Proper(c)
    BY CommitFields DEF TypeOK
  <1> DEFINE u == c.user
             b == IF acct[u].life = "live" \/ c.do = "create"
                  THEN RowAfter(acct[u], c) ELSE acct[u]
  <1>2. acct' = [acct EXCEPT ![u] = b]
    BY DEF AcctAfter
  <1>3. acct[u] \in Row
    BY <1>1
  <1>4. acct'[u] = b /\ \A v \in Users : v # u => acct'[v] = acct[v]
    <2> HIDE DEF b
    <2> QED BY <1>1, <1>2, Zenon
  <1>5. CASE ~(acct[u].life = "live" \/ c.do = "create")
    <2>1. acct'[u] = acct[u]
      BY <1>4, <1>5
    <2>2. ~Exposed(acct'[u])
      BY <1>5, <2>1 DEF Exposed
    <2> QED BY <1>4, <2>1, <2>2
  <1>6. CASE acct[u].life = "live" \/ c.do = "create"
    <2> DEFINE a == acct[u]
               r == RowAfter(acct[u], c)
    <2>1. acct'[u] = r
      BY <1>4, <1>6
    <2>2. /\ c.do \in {"password", "rehash"} => r.by = c.val
          /\ c.do = "must" => r.by = a.by /\ (r.must <=> c.val = "yes")
          /\ c.do = "create" => r.must
          /\ c.do \notin {"password", "rehash", "must", "create"} =>
                r.by = a.by /\ (r.must <=> a.must) /\ (r.life = "live" => a.life = "live")
      BY <1>3, RowTold
    <2>3. /\ c.do = "must" => c.val \in {"yes", "no"}
          /\ c.do \in {"password", "rehash"} => c.val \in Choosers
      BY <1>1 DEF Proper
    <2> HIDE DEF a, r
    <2>4. Exposed(r) =>
             \/ c.do \in {"password", "rehash"} /\ c.val = "other"
             \/ c.do = "must" /\ c.val = "no" /\ a.by = "other"
             \/ c.do \notin {"password", "rehash", "must", "create"} /\ Exposed(a)
      BY <2>2, <2>3 DEF Exposed
    <2>5. a.by = "owner" /\ r.by # "owner" =>
             c.do = "create" \/ (c.do \in {"password", "rehash"} /\ c.val # "owner")
      BY <2>2
    <2>6. a = acct[u]
      BY DEF a
    <2> QED BY <1>4, <2>1, <2>4, <2>5, <2>6, Zenon
  <1> QED BY <1>5, <1>6

\* A session becomes old, or is opened old, by a commit on its account.
LEMMA OldBy ==
    ASSUME TypeOK, NEW c \in Commit, sess' = SessAfter(c), NEW t \in Tokens,
           sess'[t] # Nil, sess'[t].old
    PROVE  \/ c.do = "openLate" /\ sess'[t].user = c.user
           \/ /\ sess[t] # Nil /\ sess'[t].user = sess[t].user
              /\ sess[t].user = c.user => c.do \notin {"drop", "delete"}
              /\ sess[t].old \/ (Outdates(c) /\ sess[t].user = c.user)
  <1> DEFINE s == sess[t]
             mine == s # Nil /\ s.user = c.user
  <1>0. sess'[t] = SessionAfter(c, t) /\ s \in Session \cup {Nil}
    BY Zenon DEF TypeOK, SessAfter
  <1>1. CASE c.do \in {"drop", "delete"} /\ mine
    <2>1. SessionAfter(c, t) = Nil
      BY <1>1 DEF SessionAfter, Outdates, Disables
    <2> QED BY <1>0, <2>1
  <1>2. CASE c.do = "close" /\ c.val = t
    <2>1. SessionAfter(c, t) = Nil
      BY <1>2 DEF SessionAfter, Outdates, Disables
    <2> QED BY <1>0, <2>1
  <1>3. CASE c.do \in {"open", "openLate"} /\ c.val = t
    <2>1. SessionAfter(c, t) = [user |-> c.user, old |-> c.do = "openLate"]
      BY <1>3 DEF SessionAfter, Outdates, Disables
    <2> DEFINE late == c.do = "openLate"
    <2>2. sess'[t] = [user |-> c.user, old |-> late]
      BY <1>0, <2>1, Zenon
    <2> HIDE DEF late
    <2>3. sess'[t].user = c.user /\ sess'[t].old = late
      BY <2>2
    <2> QED BY <2>3, Zenon DEF late
  <1>4. CASE Outdates(c) /\ mine
    <2>1. SessionAfter(c, t) = [s EXCEPT !.old = TRUE]
      BY <1>4 DEF SessionAfter, Outdates, Disables
    <2>2. s \in Session
      BY <1>0, <1>4
    <2>3. sess'[t].user = s.user
      BY <1>0, <2>1, <2>2 DEF Session
    <2>4. c.do \notin {"drop", "delete"}
      BY <1>4 DEF Outdates, Disables
    <2> QED BY <1>4, <2>3, <2>4
  <1>5. CASE /\ ~(c.do \in {"drop", "delete"} /\ mine) /\ ~(c.do = "close" /\ c.val = t)
             /\ ~(c.do \in {"open", "openLate"} /\ c.val = t) /\ ~(Outdates(c) /\ mine)
    <2>1. SessionAfter(c, t) = s
      BY <1>5 DEF SessionAfter
    <2>2. sess'[t] = sess[t]
      BY <1>0, <2>1
    <2> QED BY <1>5, <2>2, Zenon
  <1> QED BY <1>1, <1>2, <1>3, <1>4, <1>5

LEMMA CutFacts ==
    ASSUME NEW c, NEW others, cut' = CutAfter(c, others)
    PROVE  /\ \A u : u # c.user => (u \in cut' <=> u \in cut)
           /\ Concerns(others, c.user) => c.user \in cut'
           /\ c.do # "password" /\ c.user \in cut => c.user \in cut'
  BY Zenon DEF CutAfter

\* What is left after the first commit is what stood behind it.
LEMMA TailIs ==
    ASSUME NEW S, NEW q \in Seq(S), q # <<>>
    PROVE  /\ DOMAIN q \subseteq Nat /\ 1 \in DOMAIN q /\ Head(q) = q[1]
           /\ \A i \in Nat : i \in DOMAIN Tail(q) <=> i >= 1 /\ i + 1 \in DOMAIN q
           /\ \A i \in DOMAIN Tail(q) : i \in Nat /\ Tail(q)[i] = q[i + 1]
           /\ 2 \in DOMAIN q => Tail(q) # <<>> /\ Head(Tail(q)) = q[2]
           /\ 2 \in DOMAIN q /\ 3 \in DOMAIN q => Len(Tail(q)) > 1 /\ Tail(q)[2] = q[3]
           /\ Len(q) > 1 => 2 \in DOMAIN q
  <1>1. /\ Tail(q) \in Seq(S) /\ Len(Tail(q)) = Len(q) - 1
        /\ \A i \in 1 .. Len(Tail(q)) : Tail(q)[i] = q[i + 1]
    BY HeadTailProperties
  <1>2. Len(q) \in Nat \ {0} /\ DOMAIN q = 1 .. Len(q) /\ Head(q) = q[1]
    OBVIOUS
  <1>3. DOMAIN Tail(q) = 1 .. Len(q) - 1
    BY <1>1
  <1>4. 2 \in DOMAIN q => Tail(q) # <<>> /\ Head(Tail(q)) = q[2]
    <2> SUFFICES ASSUME 2 \in DOMAIN q PROVE Tail(q) # <<>> /\ Head(Tail(q)) = q[2]
      OBVIOUS
    <2> DEFINE r == Tail(q)
    <2>1. r \in Seq(S) /\ Len(r) >= 1 /\ r[1] = q[2]
      BY <1>1, <1>2
    <2> HIDE DEF r
    <2>2. r # <<>> /\ Head(r) = r[1]
      BY <2>1
    <2> QED BY <2>1, <2>2 DEF r
  <1>5. 2 \in DOMAIN q /\ 3 \in DOMAIN q => Len(Tail(q)) > 1 /\ Tail(q)[2] = q[3]
    BY <1>1, <1>2
  <1> QED BY <1>1, <1>2, <1>3, <1>4, <1>5

LEMMA OrderlyTail ==
    ASSUME NEW q \in Seq(Commit), q # <<>>, Orderly(q) PROVE Orderly(Tail(q))
  <1> DEFINE p == Tail(q)
  <1>1. /\ \A i \in Nat : i \in DOMAIN p <=> i >= 1 /\ i + 1 \in DOMAIN q
        /\ \A i \in DOMAIN p : i \in Nat /\ p[i] = q[i + 1]
    BY TailIs
  <1> HIDE DEF p
  <1>2. ASSUME NEW i \in DOMAIN p
        PROVE  /\ \A j \in DOMAIN p : p[j].user = p[i].user
               /\ (p[i].do = "password" /\ p[i].val = "owner") \/ Disables(p[i]) =>
                     i + 1 \in DOMAIN p /\ p[i + 1].do = "drop"
               /\ p[i].do = "password" /\ p[i].val # "owner" =>
                     /\ i + 1 \in DOMAIN p /\ p[i + 1].do = "must" /\ p[i + 1].val = "yes"
                     /\ i + 2 \in DOMAIN p /\ p[i + 2].do = "drop"
               /\ p[i].do = "rehash" => i + 1 \in DOMAIN p /\ p[i + 1].do = "must"
               /\ Signs(p[i]) => \A j \in DOMAIN p : p[j].do # "password"
    <2> DEFINE k == i + 1
    <2>1. i \in Nat /\ k \in DOMAIN q /\ p[i] = q[k]
      BY <1>1, <1>2
    <2>2. /\ \A j \in DOMAIN q : q[j].user = q[k].user
          /\ (q[k].do = "password" /\ q[k].val = "owner") \/ Disables(q[k]) =>
                k + 1 \in DOMAIN q /\ q[k + 1].do = "drop"
          /\ q[k].do = "password" /\ q[k].val # "owner" =>
                /\ k + 1 \in DOMAIN q /\ q[k + 1].do = "must" /\ q[k + 1].val = "yes"
                /\ k + 2 \in DOMAIN q /\ q[k + 2].do = "drop"
          /\ q[k].do = "rehash" => k + 1 \in DOMAIN q /\ q[k + 1].do = "must"
          /\ Signs(q[k]) => \A j \in DOMAIN q : q[j].do # "password"
      <3> HIDE DEF k
      <3> QED BY <2>1, Zenon DEF Orderly
    <2>3. /\ k + 1 \in DOMAIN q => i + 1 \in DOMAIN p /\ p[i + 1] = q[k + 1]
          /\ k + 2 \in DOMAIN q => i + 2 \in DOMAIN p /\ p[i + 2] = q[k + 2]
      <3> DEFINE m == i + 1
                 n == i + 2
      <3>1. m \in Nat /\ m >= 1 /\ m + 1 = k + 1 /\ n \in Nat /\ n >= 1 /\ n + 1 = k + 2
        BY <2>1
      <3> HIDE DEF m, n, k
      <3>2. k + 1 \in DOMAIN q => m \in DOMAIN p /\ p[m] = q[k + 1]
        BY <1>1, <3>1
      <3>3. k + 2 \in DOMAIN q => n \in DOMAIN p /\ p[n] = q[k + 2]
        BY <1>1, <3>1
      <3> QED BY <3>2, <3>3 DEF m, n
    <2>4. \A j \in DOMAIN p : j + 1 \in DOMAIN q /\ p[j] = q[j + 1]
      BY <1>1
    <2> HIDE DEF k
    <2> QED BY <2>1, <2>2, <2>3, <2>4, Zenon
  <1>3. Orderly(p)
    BY <1>2, Zenon DEF Orderly
  <1> QED BY <1>3 DEF p

\* A login that is found late stands where it stood.
LEMMA OrderlyLate ==
    ASSUME TypeOK, NEW c \in Commit, Orderly(gw) PROVE Orderly(Late(c))
  <1> DEFINE p == Late(c)
  <1>1. /\ DOMAIN p = DOMAIN gw
        /\ \A i \in DOMAIN gw :
              /\ p[i].user = gw[i].user
              /\ p[i] = gw[i] \/ (gw[i].do = "open" /\ p[i].do = "openLate")
    BY LateIs
  <1> HIDE DEF p
  <1>2. ASSUME NEW i \in DOMAIN gw
        PROVE  /\ p[i].do \in {"password", "rehash", "must", "enabled", "drop"} => p[i] = gw[i]
               /\ gw[i].do \in {"password", "rehash", "must", "enabled", "drop"} => p[i] = gw[i]
               /\ Signs(p[i]) <=> Signs(gw[i])
    <2>1. CASE p[i] = gw[i]
      BY <2>1, Zenon
    <2>2. CASE gw[i].do = "open" /\ p[i].do = "openLate"
      BY <2>2 DEF Signs
    <2> QED BY <1>1, <1>2, <2>1, <2>2, Zenon
  <1>3. ASSUME NEW i \in DOMAIN p
        PROVE  /\ \A j \in DOMAIN p : p[j].user = p[i].user
               /\ (p[i].do = "password" /\ p[i].val = "owner") \/ Disables(p[i]) =>
                     i + 1 \in DOMAIN p /\ p[i + 1].do = "drop"
               /\ p[i].do = "password" /\ p[i].val # "owner" =>
                     /\ i + 1 \in DOMAIN p /\ p[i + 1].do = "must" /\ p[i + 1].val = "yes"
                     /\ i + 2 \in DOMAIN p /\ p[i + 2].do = "drop"
               /\ p[i].do = "rehash" => i + 1 \in DOMAIN p /\ p[i + 1].do = "must"
               /\ Signs(p[i]) => \A j \in DOMAIN p : p[j].do # "password"
    <2>0. i \in DOMAIN gw
      BY <1>1, <1>3
    <2>1. /\ \A j \in DOMAIN gw : gw[j].user = gw[i].user
          /\ (gw[i].do = "password" /\ gw[i].val = "owner") \/ Disables(gw[i]) =>
                i + 1 \in DOMAIN gw /\ gw[i + 1].do = "drop"
          /\ gw[i].do = "password" /\ gw[i].val # "owner" =>
                /\ i + 1 \in DOMAIN gw /\ gw[i + 1].do = "must" /\ gw[i + 1].val = "yes"
                /\ i + 2 \in DOMAIN gw /\ gw[i + 2].do = "drop"
          /\ gw[i].do = "rehash" => i + 1 \in DOMAIN gw /\ gw[i + 1].do = "must"
          /\ Signs(gw[i]) => \A j \in DOMAIN gw : gw[j].do # "password"
      BY <2>0, Zenon DEF Orderly
    <2>2. ASSUME NEW j \in DOMAIN p PROVE p[j].user = p[i].user
      <3>1. j \in DOMAIN gw /\ p[j].user = gw[j].user /\ p[i].user = gw[i].user
        BY <1>1, <2>0, <2>2
      <3>2. gw[j].user = gw[i].user
        BY <2>1, <3>1
      <3> QED BY <3>1, <3>2
    <2>3. p[i].do \in {"password", "rehash"} \/ Disables(p[i]) => p[i] = gw[i]
      BY <1>2, <2>0 DEF Disables
    <2>4. \A j \in DOMAIN gw : gw[j].do \in {"must", "drop"} => p[j] = gw[j]
      BY <1>2
    <2>5. (p[i].do = "password" /\ p[i].val = "owner") \/ Disables(p[i]) =>
             i + 1 \in DOMAIN p /\ p[i + 1].do = "drop"
      BY <1>1, <2>1, <2>3, <2>4
    <2>6. p[i].do = "password" /\ p[i].val # "owner" =>
             /\ i + 1 \in DOMAIN p /\ p[i + 1].do = "must" /\ p[i + 1].val = "yes"
             /\ i + 2 \in DOMAIN p /\ p[i + 2].do = "drop"
      BY <1>1, <2>1, <2>3, <2>4
    <2>7. p[i].do = "rehash" => i + 1 \in DOMAIN p /\ p[i + 1].do = "must"
      BY <1>1, <2>1, <2>3, <2>4
    <2>8. Signs(p[i]) => \A j \in DOMAIN p : p[j].do # "password"
      <3>1. \A j \in DOMAIN gw : p[j].do = "password" => gw[j].do = "password"
        BY <1>2
      <3> QED BY <1>1, <1>2, <2>0, <2>1, <3>1, Zenon
    <2> QED BY <2>2, <2>5, <2>6, <2>7, <2>8, Zenon
  <1>4. Orderly(p)
    BY <1>3, Zenon DEF Orderly
  <1> QED BY <1>4 DEF p

\* The operations of a request and of the console: in order, and no sign-in.
Steady(plan) == Orderly(plan) /\ \A i \in DOMAIN plan : ~Signs(plan[i])

LEMMA PlainIsOrderly ==
    ASSUME NEW plan, NEW u, NEW deeds, Plan(plan, u, deeds),
           \A i \in DOMAIN plan :
              plan[i].do \notin {"password", "rehash"} /\ ~Disables(plan[i])
    PROVE  Orderly(plan)
  <1>1. ASSUME NEW i \in DOMAIN plan
        PROVE  /\ \A j \in DOMAIN plan : plan[j].user = plan[i].user /\ plan[j].do # "password"
               /\ plan[i].do # "password" /\ plan[i].do # "rehash" /\ ~Disables(plan[i])
    BY <1>1 DEF Plan
  <1> QED BY <1>1, Zenon DEF Orderly

LEMMA PlainIsSteady ==
    ASSUME NEW plan, NEW u, NEW deeds, Plan(plan, u, deeds),
           \A d \in deeds : d \in {"role", "enabled", "create", "delete", "drop", "close"},
           \A i \in DOMAIN plan : ~Disables(plan[i])
    PROVE  Steady(plan)
  <1>1. ASSUME NEW i \in DOMAIN plan
        PROVE  plan[i].do \notin {"password", "rehash"} /\ ~Signs(plan[i])
    <2>1. plan[i].do \in deeds
      BY <1>1, Zenon DEF Plan
    <2>2. plan[i].do \in {"role", "enabled", "create", "delete", "drop", "close"}
      BY <2>1
    <2> QED BY <2>2 DEF Signs
  <1> QED BY <1>1, PlainIsOrderly DEF Steady

\* Two commits, or three, with the second and the third where they belong.
LEMMA SteadyPair ==
    ASSUME NEW u, NEW a, NEW d, a.user = u, d.user = u, d.do = "drop",
           (a.do = "password" /\ a.val = "owner") \/ Disables(a)
    PROVE  Steady(<<a, d>>)
  <1> DEFINE p == <<a, d>>
  <1>1. DOMAIN p = {1, 2} /\ p[1] = a /\ p[2] = d
    OBVIOUS
  <1> HIDE DEF p
  <1>2. /\ ~Signs(a) /\ ~Signs(d) /\ ~Disables(d) /\ d.do \notin {"password", "rehash"}
        /\ a.do # "rehash" /\ (a.do = "password" => a.val = "owner")
    BY DEF Signs, Disables
  <1>3. \A i \in DOMAIN p : p[i].user = u /\ ~Signs(p[i])
    BY <1>1, <1>2, Zenon
  <1>4. ASSUME NEW i \in DOMAIN p
        PROVE  /\ \A j \in DOMAIN p : p[j].user = p[i].user
               /\ (p[i].do = "password" /\ p[i].val = "owner") \/ Disables(p[i]) =>
                     i + 1 \in DOMAIN p /\ p[i + 1].do = "drop"
               /\ ~(p[i].do = "password" /\ p[i].val # "owner") /\ p[i].do # "rehash"
               /\ ~Signs(p[i])
    <2>1. CASE i = 1
      BY <1>1, <1>2, <1>3, <2>1
    <2>2. CASE i = 2
      BY <1>1, <1>2, <1>3, <2>2
    <2> QED BY <1>1, <1>4, <2>1, <2>2
  <1>5. Steady(p)
    BY <1>3, <1>4, Zenon DEF Steady, Orderly
  <1> QED BY <1>5 DEF p

LEMMA ResetIs ==
    ASSUME NEW u \in Users
    PROVE  /\ Steady(ResetPlan(u))
           /\ \A i \in DOMAIN ResetPlan(u) :
                 ResetPlan(u)[i].do = "password" => ResetPlan(u)[i].val = "other"
  <1> DEFINE a == Do("password", u, "other")
             m == Do("must", u, "yes")
             d == Do("drop", u, Nil)
             p == ResetPlan(u)
  <1>1. /\ a.user = u /\ a.do = "password" /\ a.val = "other"
        /\ m.user = u /\ m.do = "must" /\ m.val = "yes" /\ d.user = u /\ d.do = "drop"
    BY DEF Do
  <1>2. p = <<a, m, d>>
    BY DEF ResetPlan
  <1> HIDE DEF a, m, d, p
  <1>3. DOMAIN p = {1, 2, 3} /\ p[1] = a /\ p[2] = m /\ p[3] = d
    BY <1>2
  <1>4. /\ ~Signs(a) /\ ~Signs(m) /\ ~Signs(d)
        /\ ~Disables(a) /\ ~Disables(m) /\ ~Disables(d)
    BY <1>1 DEF Signs, Disables
  <1>5. \A i \in DOMAIN p : p[i].user = u /\ ~Signs(p[i]) /\ ~Disables(p[i])
    BY <1>1, <1>3, <1>4, Zenon
  <1>6. ASSUME NEW i \in DOMAIN p
        PROVE  /\ \A j \in DOMAIN p : p[j].user = p[i].user
               /\ ~((p[i].do = "password" /\ p[i].val = "owner") \/ Disables(p[i]))
               /\ p[i].do = "password" /\ p[i].val # "owner" =>
                     /\ i + 1 \in DOMAIN p /\ p[i + 1].do = "must" /\ p[i + 1].val = "yes"
                     /\ i + 2 \in DOMAIN p /\ p[i + 2].do = "drop"
               /\ p[i].do # "rehash" /\ ~Signs(p[i])
               /\ p[i].do = "password" => p[i].val = "other"
    <2>1. CASE i = 1
      BY <1>1, <1>3, <1>5, <2>1
    <2>2. CASE i \in {2, 3}
      BY <1>1, <1>3, <1>5, <2>2
    <2> QED BY <1>3, <1>6, <2>1, <2>2
  <1>7. Steady(p)
    BY <1>6, Zenon DEF Steady, Orderly
  <1> QED BY <1>6, <1>7, Zenon DEF p

LEMMA HandledIsSteady == ASSUME NEW q \in Request PROVE Steady(Handled(q))
  <1> DEFINE u == q.who
  <1>1. u \in Users /\ q.token \in Tokens \cup {Nil} /\ q.op \in AdminOps \cup OwnOps
    BY DEF Request
  <1>2. Steady(<<>>)
    <2>1. Plan(<<>>, u, {}) /\ DOMAIN <<>> = {}
      BY PlanOfNone
    <2> QED BY <2>1, PlainIsSteady, Zenon
  <1>3. ASSUME NEW deed \in {"role", "enabled", "create", "close"},
               NEW v \in Choosers \cup Roles \cup {"yes", "no"} \cup Tokens \cup {Nil},
               deed \in {"role", "create"} => v \in Roles,
               deed = "enabled" => v = "yes"
        PROVE  Steady(<<Do(deed, u, v)>>)
    <2> DEFINE plan == <<Do(deed, u, v)>>
    <2>1. /\ deed \in Deeds /\ deed \notin {"password", "rehash", "must"}
          /\ deed = "enabled" => v \in {"yes", "no"}
      BY <1>3 DEF Deeds
    <2>2. Plan(plan, u, {deed}) /\ \A i \in DOMAIN plan : plan[i].val = v
      BY <1>1, <1>3, <2>1, PlanOfOne
    <2> HIDE DEF plan
    <2>3. \A i \in DOMAIN plan : ~Disables(plan[i])
      BY <1>3, <2>2 DEF Plan, Disables
    <2>4. Steady(plan)
      BY <2>2, <2>3, PlainIsSteady
    <2> QED BY <2>4 DEF plan
  <1>4. Steady(ResetPlan(u))
    BY <1>1, ResetIs
  <1>5. Steady(ChangePlan(u)) /\ Steady(DisablePlan(u))
    <2> DEFINE o == Do("password", u, "owner")
               e == Do("enabled", u, "no")
               d == Do("drop", u, Nil)
    <2>1. /\ o.user = u /\ o.do = "password" /\ o.val = "owner"
          /\ e.user = u /\ Disables(e) /\ d.user = u /\ d.do = "drop"
      BY DEF Do, Disables
    <2>2. ChangePlan(u) = <<o, d>> /\ DisablePlan(u) = <<e, d>>
      BY DEF ChangePlan, DisablePlan
    <2> HIDE DEF o, e, d
    <2>3. Steady(<<o, d>>) /\ Steady(<<e, d>>)
      BY <2>1, SteadyPair
    <2> QED BY <2>2, <2>3, Zenon
  <1>6. Steady(DeletePlan(u))
    <2>1. Plan(DeletePlan(u), u, {"drop", "delete"})
      BY <1>1, PlansAre
    <2> DEFINE plan == DeletePlan(u)
    <2> HIDE DEF plan
    <2>2. \A i \in DOMAIN plan : ~Disables(plan[i])
      BY <2>1 DEF Plan, Disables, plan
    <2>3. Steady(plan)
      BY <2>1, <2>2, PlainIsSteady DEF plan
    <2> QED BY <2>3 DEF plan
  <1>7. "admin" \in Roles /\ "viewer" \in Roles
    BY DEF Roles
  <1>8. /\ Steady(<<Do("role", u, "admin")>>) /\ Steady(<<Do("role", u, "viewer")>>)
        /\ Steady(<<Do("enabled", u, "yes")>>) /\ Steady(<<Do("create", u, "admin")>>)
        /\ Steady(<<Do("create", u, "viewer")>>) /\ Steady(<<Do("close", u, q.token)>>)
    BY <1>1, <1>3, <1>7
  <1>9. \/ Handled(q) = <<>> \/ Handled(q) = ResetPlan(u) \/ Handled(q) = ChangePlan(u)
        \/ Handled(q) = DisablePlan(u) \/ Handled(q) = DeletePlan(u)
        \/ Handled(q) = <<Do("role", u, "admin")>> \/ Handled(q) = <<Do("role", u, "viewer")>>
        \/ Handled(q) = <<Do("enabled", u, "yes")>> \/ Handled(q) = <<Do("create", u, "admin")>>
        \/ Handled(q) = <<Do("create", u, "viewer")>>
        \/ Handled(q) = <<Do("close", u, q.token)>>
    <2>1. q.op \in {"reset", "change", "promote", "enable", "createAdmin", "createViewer",
                    "logout", "demote", "disable", "delete"}
      BY <1>1 DEF AdminOps, OwnOps, JudgingOps
    <2>2. CASE q.op = "reset"
      BY <2>2 DEF Handled
    <2>3. CASE q.op = "change"
      BY <2>3 DEF Handled
    <2>4. CASE q.op = "promote"
      BY <2>4 DEF Handled
    <2>5. CASE q.op = "enable"
      BY <2>5 DEF Handled
    <2>6. CASE q.op = "createAdmin"
      BY <2>6 DEF Handled
    <2>7. CASE q.op = "createViewer"
      BY <2>7 DEF Handled
    <2>8. CASE q.op = "logout"
      BY <2>8 DEF Handled
    <2>9. CASE q.op = "demote"
      BY <2>9 DEF Handled
    <2>10. CASE q.op = "disable"
      BY <2>10 DEF Handled
    <2>11. CASE q.op = "delete"
      BY <2>11 DEF Handled
    <2> QED BY <2>1, <2>2, <2>3, <2>4, <2>5, <2>6, <2>7, <2>8, <2>9, <2>10, <2>11
  <1> QED BY <1>2, <1>4, <1>5, <1>6, <1>8, <1>9, Zenon

\* A login: in order; what it leaves of the flag is what it found.
LEMMA LoginIsOrderly ==
    ASSUME TypeOK, NEW u \in Users, NEW t \in Tokens
    PROVE  /\ Orderly(LoginPlan(u, t))
           /\ \A i \in DOMAIN LoginPlan(u, t) :
                 /\ LoginPlan(u, t)[i].user = u /\ LoginPlan(u, t)[i].do # "openLate"
                 /\ LoginPlan(u, t)[i].do = "rehash" => LoginPlan(u, t)[i].val = acct[u].by
                 /\ LoginPlan(u, t)[i].do = "must" /\ LoginPlan(u, t)[i].val = "no" =>
                       ~acct[u].must
  <1> DEFINE a == Do("rehash", u, acct[u].by)
             m == Do("must", u, IF acct[u].must THEN "yes" ELSE "no")
             o == Do("open", u, t)
             p == LoginPlan(u, t)
  <1>1. /\ a.user = u /\ a.do = "rehash" /\ a.val = acct[u].by
        /\ m.user = u /\ m.do = "must" /\ (m.val = "no" => ~acct[u].must)
        /\ o.user = u /\ o.do = "open"
    BY DEF Do
  <1>2. p = (IF acct[u].weak THEN Append(<<a, m>>, o) ELSE Append(<<>>, o))
    BY Zenon DEF LoginPlan, Rehash
  <1> HIDE DEF a, m, o, p
  <1>3. /\ DOMAIN Append(<<a, m>>, o) = {1, 2, 3} /\ Append(<<a, m>>, o)[1] = a
        /\ Append(<<a, m>>, o)[2] = m /\ Append(<<a, m>>, o)[3] = o
        /\ DOMAIN Append(<<>>, o) = {1} /\ Append(<<>>, o)[1] = o
    <2> DEFINE S == {a, m, o}
    <2>1. ASSUME NEW q \in Seq(S)
          PROVE  /\ DOMAIN Append(q, o) = 1 .. Len(q) + 1 /\ Append(q, o)[Len(q) + 1] = o
                 /\ \A i \in 1 .. Len(q) : Append(q, o)[i] = q[i]
      <3>1. /\ Append(q, o) \in Seq(S) /\ Len(Append(q, o)) = Len(q) + 1
            /\ \A i \in 1 .. Len(q) : Append(q, o)[i] = q[i]
            /\ Append(q, o)[Len(q) + 1] = o
        BY <2>1, AppendProperties
      <3> QED BY <3>1
    <2>2. /\ <<a, m>> \in Seq(S) /\ Len(<<a, m>>) = 2 /\ <<a, m>>[1] = a /\ <<a, m>>[2] = m
          /\ <<>> \in Seq(S) /\ Len(<<>>) = 0
      OBVIOUS
    <2> HIDE DEF S
    <2>3. /\ DOMAIN Append(<<a, m>>, o) = 1 .. 3 /\ Append(<<a, m>>, o)[3] = o
          /\ Append(<<a, m>>, o)[1] = a /\ Append(<<a, m>>, o)[2] = m
      BY <2>1, <2>2
    <2>4. DOMAIN Append(<<>>, o) = 1 .. 1 /\ Append(<<>>, o)[1] = o
      BY <2>1, <2>2
    <2> QED BY <2>3, <2>4
  <1>4. ~Disables(a) /\ ~Disables(m) /\ ~Disables(o)
    BY <1>1 DEF Disables
  <1>5. \/ DOMAIN p = {1, 2, 3} /\ p[1] = a /\ p[2] = m /\ p[3] = o
        \/ DOMAIN p = {1} /\ p[1] = o
    BY <1>2, <1>3, Zenon
  <1>6. ASSUME NEW i \in DOMAIN p
        PROVE  /\ p[i] = a \/ p[i] = m \/ p[i] = o
               /\ p[i] = a => i + 1 \in DOMAIN p /\ p[i + 1] = m
    <2>1. CASE DOMAIN p = {1, 2, 3} /\ p[1] = a /\ p[2] = m /\ p[3] = o
      BY <1>1, <1>6, <2>1
    <2>2. CASE DOMAIN p = {1} /\ p[1] = o
      BY <1>1, <1>6, <2>2
    <2> QED BY <1>5, <2>1, <2>2
  <1>7. ASSUME NEW i \in DOMAIN p
        PROVE  /\ p[i].user = u /\ p[i].do # "openLate" /\ p[i].do # "password"
               /\ ~Disables(p[i])
               /\ p[i].do = "rehash" => /\ p[i].val = acct[u].by
                                        /\ i + 1 \in DOMAIN p /\ p[i + 1].do = "must"
               /\ p[i].do = "must" /\ p[i].val = "no" => ~acct[u].must
    <2>1. CASE p[i] = a
      BY <1>1, <1>4, <1>6, <1>7, <2>1
    <2>2. CASE p[i] = m
      BY <1>1, <1>4, <1>7, <2>2
    <2>3. CASE p[i] = o
      BY <1>1, <1>4, <1>7, <2>3
    <2> QED BY <1>6, <1>7, <2>1, <2>2, <2>3
  <1>8. Orderly(p)
    BY <1>7, Zenon DEF Orderly
  <1> QED BY <1>7, <1>8, Zenon DEF p

\* A second commit that is next is the head of commits on that account.
LEMMA NextIs ==
    ASSUME NEW q \in Seq(Commit), NEW u, MustNext(q, u) \/ DropNext(q, u)
    PROVE  q # <<>> /\ Head(q) = q[1] /\ 1 \in DOMAIN q /\ Head(q).user = u /\ Concerns(q, u)
  <1>1. q # <<>> /\ Head(q).user = u
    BY Zenon DEF MustNext, DropNext
  <1>2. Head(q) = q[1] /\ 1 \in DOMAIN q
    BY <1>1, Tails
  <1> QED BY <1>1, <1>2, Zenon DEF Concerns

LEMMA LateNext ==
    ASSUME TypeOK, NEW c \in Commit, NEW u
    PROVE  /\ MustNext(gw, u) => MustNext(Late(c), u)
           /\ DropNext(gw, u) => DropNext(Late(c), u)
  <1> DEFINE p == Late(c)
  <1>0. gw \in Seq(Commit)
    BY DEF TypeOK
  <1>1. /\ p \in Seq(Commit) /\ Len(p) = Len(gw) /\ DOMAIN p = DOMAIN gw
        /\ \A i \in DOMAIN gw :
              p[i] = gw[i] \/ (gw[i].do = "open" /\ p[i].do = "openLate")
    BY LateIs
  <1> HIDE DEF p
  <1>2. ASSUME MustNext(gw, u) \/ DropNext(gw, u)
        PROVE  p # <<>> /\ Head(p) = Head(gw)
    <2>1. gw # <<>> /\ Head(gw) = gw[1] /\ 1 \in DOMAIN gw
      BY <1>0, <1>2, NextIs
    <2>2. p # <<>>
      BY <1>1, <2>1
    <2>3. Head(p) = p[1]
      BY <1>1, <2>2, Tails
    <2>4. gw[1].do # "open"
      BY <1>2, <2>1 DEF MustNext, DropNext
    <2> QED BY <1>1, <2>1, <2>2, <2>3, <2>4
  <1>3. Len(gw) > 1 /\ gw[2].do = "drop" => Len(p) > 1 /\ p[2].do = "drop"
    <2>1. Len(gw) > 1 => 2 \in DOMAIN gw
      BY <1>0
    <2> QED BY <1>1, <2>1
  <1>4. /\ MustNext(gw, u) => MustNext(p, u)
        /\ DropNext(gw, u) => DropNext(p, u)
    BY <1>2, <1>3, Zenon DEF MustNext, DropNext
  <1> QED BY <1>4 DEF p

\* One commit of the gateway (`mine`), or of the console, beside what the other
\* has left (`theirs`, and `left` afterwards).
LEMMA CommitForces ==
    ASSUME TypeOK, NEW mine \in Seq(Commit), mine # <<>>, Orderly(mine),
           NEW theirs \in Seq(Commit), NEW left,
           \A u : MustNext(theirs, u) => MustNext(left, u),
           acct' = AcctAfter(Head(mine)), cut' = CutAfter(Head(mine), theirs),
           \A u \in Users :
              Exposed(acct[u]) => u \in cut \/ MustNext(mine, u) \/ MustNext(theirs, u),
           Head(mine).do = "rehash" => 2 \in DOMAIN mine,
           LET c == Head(mine) IN
              c.do = "must" /\ c.val = "no" =>
                 c.user \in cut \/ MustNext(theirs, c.user) \/ acct[c.user].by = "owner"
    PROVE  \A u \in Users :
              Exposed(acct'[u]) => u \in cut' \/ MustNext(Tail(mine), u) \/ MustNext(left, u)
  <1> DEFINE c == Head(mine)
             rest == Tail(mine)
  <1>1. /\ c \in Commit /\ c = mine[1] /\ 1 \in DOMAIN mine
        /\ 2 \in DOMAIN mine => rest # <<>> /\ Head(rest) = mine[2]
    BY Tails, TailIs
  <1>2. /\ c.do = "must" /\ c.val = "no" =>
              c.user \in cut \/ MustNext(theirs, c.user) \/ acct[c.user].by = "owner"
        /\ acct' = AcctAfter(c) /\ cut' = CutAfter(c, theirs)
        /\ c.do = "rehash" => 2 \in DOMAIN mine
    OBVIOUS
  <1>3. \A u : MustNext(mine, u) => c.user = u /\ c.do = "must"
    BY Zenon DEF MustNext
  <1>4. \A u : MustNext(theirs, u) => Concerns(theirs, u)
    BY NextIs
  <1> HIDE DEF c, rest
  <1>5. /\ \A u \in Users : u # c.user => acct'[u] = acct[u]
        /\ Exposed(acct'[c.user]) =>
              \/ c.do \in {"password", "rehash"} /\ c.val = "other"
              \/ c.do = "must" /\ c.val = "no" /\ acct[c.user].by = "other"
              \/ c.do \notin {"password", "rehash", "must", "create"} /\ Exposed(acct[c.user])
    BY <1>1, <1>2, ExposedBy
  <1>6. /\ \A u : u # c.user => (u \in cut' <=> u \in cut)
        /\ Concerns(theirs, c.user) => c.user \in cut'
        /\ c.do # "password" /\ c.user \in cut => c.user \in cut'
    BY <1>2, CutFacts
  <1>7. c.do \in {"password", "rehash"} /\ c.val = "other" => MustNext(rest, c.user)
    <2> SUFFICES ASSUME c.do \in {"password", "rehash"}, c.val = "other"
                 PROVE  MustNext(rest, c.user)
      OBVIOUS
    <2>1. /\ \A j \in DOMAIN mine : mine[j].user = c.user
          /\ c.do = "password" /\ c.val # "owner" =>
                1 + 1 \in DOMAIN mine /\ mine[1 + 1].do = "must"
          /\ c.do = "rehash" => 1 + 1 \in DOMAIN mine /\ mine[1 + 1].do = "must"
      BY <1>1, Zenon DEF Orderly
    <2>2. 2 \in DOMAIN mine /\ mine[2].do = "must" /\ mine[2].user = c.user
      BY <2>1
    <2> QED BY <1>1, <2>2 DEF MustNext
  <1>8. ASSUME NEW u \in Users, Exposed(acct'[u]), u \notin cut'
        PROVE  MustNext(rest, u) \/ MustNext(left, u)
    <2>1. CASE u # c.user
      BY <1>3, <1>5, <1>6, <1>8, <2>1, Zenon
    <2>2. CASE u = c.user
      <3>1. ~Concerns(theirs, u) /\ (u \in cut => c.do = "password")
        BY <1>6, <1>8, <2>2, Zenon
      <3>2. CASE c.do \in {"password", "rehash"} /\ c.val = "other"
        BY <1>7, <2>2, <3>2
      <3>3. CASE c.do = "must" /\ c.val = "no" /\ acct[u].by = "other"
        BY <1>2, <1>4, <2>2, <3>1, <3>3
      <3>4. CASE c.do \notin {"password", "rehash", "must", "create"} /\ Exposed(acct[u])
        BY <1>3, <1>4, <3>1, <3>4
      <3> QED BY <1>5, <1>8, <2>2, <3>2, <3>3, <3>4
    <2> QED BY <2>1, <2>2
  <1> QED BY <1>8 DEF rest

LEMMA CommitRevokes ==
    ASSUME TypeOK, NEW mine \in Seq(Commit), mine # <<>>, Orderly(mine),
           NEW theirs \in Seq(Commit), NEW left,
           \A u : DropNext(theirs, u) => DropNext(left, u),
           sess' = SessAfter(Head(mine)), cut' = CutAfter(Head(mine), theirs),
           \A t \in Tokens : sess[t] # Nil /\ sess[t].old =>
              \/ sess[t].user \in cut
              \/ DropNext(mine, sess[t].user) \/ DropNext(theirs, sess[t].user),
           LET c == Head(mine) IN c.do = "openLate" => c.user \in cut
    PROVE  \A t \in Tokens : sess'[t] # Nil /\ sess'[t].old =>
              \/ sess'[t].user \in cut'
              \/ DropNext(Tail(mine), sess'[t].user) \/ DropNext(left, sess'[t].user)
  <1> DEFINE c == Head(mine)
             rest == Tail(mine)
  <1>1. /\ c \in Commit /\ c = mine[1] /\ 1 \in DOMAIN mine
        /\ 2 \in DOMAIN mine => rest # <<>> /\ Head(rest) = mine[2]
        /\ 2 \in DOMAIN mine /\ 3 \in DOMAIN mine => Len(rest) > 1 /\ rest[2] = mine[3]
        /\ Len(mine) > 1 => 2 \in DOMAIN mine
    BY Tails, TailIs
  <1>2. /\ c.do = "openLate" => c.user \in cut
        /\ sess' = SessAfter(c) /\ cut' = CutAfter(c, theirs)
    OBVIOUS
  <1>3. \A u : DropNext(mine, u) =>
           /\ c.user = u
           /\ c.do = "drop" \/ (c.do = "must" /\ Len(mine) > 1 /\ mine[2].do = "drop")
    BY Zenon DEF DropNext
  <1>4. \A u : DropNext(theirs, u) => Concerns(theirs, u)
    BY NextIs
  <1> HIDE DEF c, rest
  <1>5. /\ \A u : u # c.user => (u \in cut' <=> u \in cut)
        /\ Concerns(theirs, c.user) => c.user \in cut'
        /\ c.do # "password" /\ c.user \in cut => c.user \in cut'
    BY <1>2, CutFacts
  <1>6. \A j \in DOMAIN mine : mine[j].user = c.user
    BY <1>1, Zenon DEF Orderly
  <1>7. Outdates(c) => DropNext(rest, c.user)
    <2> SUFFICES ASSUME Outdates(c) PROVE DropNext(rest, c.user)
      OBVIOUS
    <2>1. /\ (c.do = "password" /\ c.val = "owner") \/ Disables(c) =>
                1 + 1 \in DOMAIN mine /\ mine[1 + 1].do = "drop"
          /\ c.do = "password" /\ c.val # "owner" =>
                /\ 1 + 1 \in DOMAIN mine /\ mine[1 + 1].do = "must"
                /\ 1 + 2 \in DOMAIN mine /\ mine[1 + 2].do = "drop"
      BY <1>1, Zenon DEF Orderly
    <2>2. \/ 2 \in DOMAIN mine /\ mine[2].do = "drop"
          \/ /\ 2 \in DOMAIN mine /\ mine[2].do = "must"
             /\ 3 \in DOMAIN mine /\ mine[3].do = "drop"
      BY <2>1 DEF Outdates
    <2> QED BY <1>1, <1>6, <2>2 DEF DropNext
  <1>8. c.do = "must" /\ Len(mine) > 1 /\ mine[2].do = "drop" => DropNext(rest, c.user)
    BY <1>1, <1>6 DEF DropNext
  <1>9. ASSUME NEW t \in Tokens, sess'[t] # Nil, sess'[t].old, sess'[t].user \notin cut'
        PROVE  DropNext(rest, sess'[t].user) \/ DropNext(left, sess'[t].user)
    <2> DEFINE u == sess'[t].user
    <2>1. \/ c.do = "openLate" /\ u = c.user
          \/ /\ sess[t] # Nil /\ u = sess[t].user
             /\ u = c.user => c.do \notin {"drop", "delete"}
             /\ sess[t].old \/ (Outdates(c) /\ u = c.user)
      <3>1. \/ c.do = "openLate" /\ sess'[t].user = c.user
            \/ /\ sess[t] # Nil /\ sess'[t].user = sess[t].user
               /\ sess[t].user = c.user => c.do \notin {"drop", "delete"}
               /\ sess[t].old \/ (Outdates(c) /\ sess[t].user = c.user)
        BY <1>1, <1>2, <1>9, OldBy
      <3> QED BY <3>1
    <2>2. u \notin cut'
      BY <1>9
    <2>3. sess[t] # Nil /\ sess[t].old /\ u = sess[t].user =>
             u \in cut \/ DropNext(mine, u) \/ DropNext(theirs, u)
      <3> HIDE DEF u
      <3> QED BY Zenon
    <2> SUFFICES DropNext(rest, u) \/ DropNext(left, u)
      OBVIOUS
    <2> HIDE DEF u
    <2>4. CASE c.do = "openLate" /\ u = c.user
      BY <1>2, <1>5, <2>2, <2>4
    <2>5. CASE Outdates(c) /\ u = c.user
      BY <1>7, <2>5
    <2>6. CASE /\ sess[t] # Nil /\ u = sess[t].user /\ sess[t].old
               /\ u = c.user => c.do \notin {"drop", "delete"} /\ ~Outdates(c)
      <3>1. CASE u # c.user
        BY <1>3, <1>5, <2>2, <2>3, <2>6, <3>1, Zenon
      <3>2. CASE u = c.user
        <4>1. c.do # "password"
          BY <2>6, <3>2 DEF Outdates
        <4>2. u \notin cut /\ ~Concerns(theirs, u)
          BY <1>5, <2>2, <3>2, <4>1, Zenon
        <4>3. DropNext(mine, u)
          BY <1>4, <2>3, <2>6, <4>2, Zenon
        <4> QED BY <1>3, <1>8, <2>6, <3>2, <4>3
      <3> QED BY <3>1, <3>2
    <2> QED BY <2>1, <2>4, <2>5, <2>6, Zenon
  <1> QED BY <1>9 DEF rest

\* The invariants read commit by commit, account by account.
LEMMA NothingForgotten ==
    /\ ForcedChange <=>
          \A u \in Users : Exposed(acct[u]) => u \in cut \/ MustNext(gw, u) \/ MustNext(cli, u)
    /\ (\A u \in Users :
           Exposed(acct'[u]) => u \in cut' \/ MustNext(gw', u) \/ MustNext(cli', u))
          => ForcedChange'
    /\ (\A t \in Tokens : sess'[t] # Nil /\ sess'[t].old =>
           \/ sess'[t].user \in cut'
           \/ DropNext(gw', sess'[t].user) \/ DropNext(cli', sess'[t].user))
          => SessionsRevoked'
  BY Zenon DEF ForcedChange, SessionsRevoked, Exposed, MustNext, DropNext

LEMMA SignInGoesOn ==
    ASSUME \A i \in DOMAIN gw' :
              /\ gw'[i].do = "must" /\ gw'[i].val = "no" =>
                    \/ gw'[i].user \in cut' \/ MustNext(cli', gw'[i].user)
                    \/ /\ acct'[gw'[i].user].by = "owner"
                       /\ \A j \in DOMAIN gw' : gw'[j].do = "rehash" => gw'[j].val = "owner"
              /\ gw'[i].do = "openLate" => gw'[i].user \in cut'
    PROVE  SignInInv'
  BY Zenon DEF SignInInv, MustNext

LEMMA SteadySignIn == Steady(gw') => SignInInv'
  <1> SUFFICES ASSUME Steady(gw') PROVE SignInInv'
    OBVIOUS
  <1>1. ASSUME NEW i \in DOMAIN gw'
        PROVE  ~(gw'[i].do = "must" /\ gw'[i].val = "no") /\ gw'[i].do # "openLate"
    BY <1>1 DEF Steady, Signs
  <1> QED BY <1>1, SignInGoesOn, Zenon

\* A step that commits nothing and takes no due second commit away but into
\* `cut` loses neither property.
LEMMA NothingLost ==
    ASSUME ForcedChange, SessionsRevoked, acct' = acct, cut \subseteq cut',
           \A t \in Tokens : sess'[t] # Nil => sess'[t] = sess[t],
           \A u : MustNext(gw, u) => u \in cut' \/ MustNext(gw', u),
           \A u : MustNext(cli, u) => u \in cut' \/ MustNext(cli', u),
           \A u : DropNext(gw, u) => u \in cut' \/ DropNext(gw', u),
           \A u : DropNext(cli, u) => u \in cut' \/ DropNext(cli', u)
    PROVE  ForcedChange' /\ SessionsRevoked'
  <1>1. \A u \in Users :
           Exposed(acct'[u]) => u \in cut' \/ MustNext(gw', u) \/ MustNext(cli', u)
    BY NothingForgotten, Zenon
  <1>2. ASSUME NEW t \in Tokens, sess'[t] # Nil, sess'[t].old
        PROVE  \/ sess'[t].user \in cut'
               \/ DropNext(gw', sess'[t].user) \/ DropNext(cli', sess'[t].user)
    <2>1. sess'[t] = sess[t]
      BY <1>2
    <2>2. \/ sess[t].user \in cut
          \/ DropNext(gw, sess[t].user) \/ DropNext(cli, sess[t].user)
      BY <1>2, <2>1, Zenon DEF SessionsRevoked
    <2> QED BY <2>1, <2>2, Zenon
  <1> QED BY <1>1, <1>2, NothingForgotten, Zenon

LEMMA NothingNext == \A u : ~MustNext(<<>>, u) /\ ~DropNext(<<>>, u)
  BY Zenon DEF MustNext, DropNext

LEMMA CutHalfway ==
    ASSUME NEW todo, NEW u, MustNext(todo, u) \/ DropNext(todo, u)
    PROVE  u \in Halfway(todo)
  <1>1. todo # <<>> /\ Head(todo).user = u /\ Head(todo).do \in {"must", "drop"}
    BY DEF MustNext, DropNext
  <1> QED BY <1>1, Zenon DEF Halfway

LEMMA PasswordStarts == Init => PasswordInv
  <1> SUFFICES ASSUME Init PROVE PasswordInv
    OBVIOUS
  <1>1. PICK there \in {{}, Veterans} :
           acct = [u \in Users |->
                     [life |-> IF u \in there THEN "live" ELSE "free", role |-> "admin",
                      enabled |-> TRUE, must |-> FALSE, by |-> "owner", weak |-> u \in Weak]]
    BY Zenon DEF Init
  <1>2. ForcedChange
    <2>1. \A u \in Users : acct[u].by = "owner"
      BY <1>1
    <2> QED BY <2>1 DEF ForcedChange
  <1>3. gw = <<>> /\ cli = <<>> /\ DOMAIN <<>> = {} /\ sess = [t \in Tokens |-> Nil]
    BY NoCommit DEF Init
  <1>4. Orderly(gw) /\ Orderly(cli) /\ ConsoleOrder /\ SignInInv
    BY <1>3, Zenon DEF Orderly, ConsoleOrder, SignInInv
  <1>5. SessionsRevoked
    BY <1>3, Zenon DEF SessionsRevoked
  <1> QED BY <1>2, <1>3, <1>4, <1>5 DEF PasswordInv

LEMMA GatewayKeepsPasswords ==
    ASSUME TypeOK, AdminInv, PasswordInv, GatewayCommits PROVE PasswordInv'
  <1> DEFINE c == Head(gw)
             rest == Tail(gw)
  <1>0. /\ Orderly(gw) /\ Orderly(cli) /\ ConsoleOrder /\ ForcedChange /\ SessionsRevoked
        /\ SignInInv /\ OperationInv
    BY Zenon DEF PasswordInv, AdminInv
  <1>1. /\ gw # <<>> /\ acct' = AcctAfter(c) /\ sess' = SessAfter(c) /\ gw' = rest
        /\ cut' = CutAfter(c, cli) /\ cli' = cli /\ up' = up /\ up
    BY Zenon DEF GatewayCommits
  <1>2. gw \in Seq(Commit) /\ cli \in Seq(Commit)
    BY Zenon DEF TypeOK
  <1>3. /\ c \in Commit /\ c = gw[1] /\ 1 \in DOMAIN gw
        /\ \A i \in DOMAIN rest : i + 1 \in DOMAIN gw /\ rest[i] = gw[i + 1]
        /\ Len(gw) = 1 => DOMAIN rest = {}
    BY <1>1, <1>2, Tails
  <1>4. /\ c.do = "must" /\ c.val = "no" =>
              \/ c.user \in cut \/ MustNext(cli, c.user)
              \/ /\ acct[c.user].by = "owner"
                 /\ \A j \in DOMAIN gw : gw[j].do = "rehash" => gw[j].val = "owner"
        /\ c.do = "openLate" => c.user \in cut
        /\ c.do = "rehash" => 1 + 1 \in DOMAIN gw
        /\ c.do = "create" => Len(gw) = 1
        /\ \A j \in DOMAIN gw : gw[j].user = c.user
    <2> HIDE DEF c
    <2> QED BY <1>0, <1>3, Zenon DEF SignInInv, Orderly, OperationInv
  <1>5. Orderly(rest)
    BY <1>0, <1>1, <1>2, OrderlyTail
  <1>6. \A u \in Users :
           Exposed(acct'[u]) => u \in cut' \/ MustNext(rest, u) \/ MustNext(cli, u)
    <2>1. \A u \in Users :
             Exposed(acct[u]) => u \in cut \/ MustNext(gw, u) \/ MustNext(cli, u)
      BY <1>0, NothingForgotten, Zenon
    <2>2. c.do = "rehash" => 2 \in DOMAIN gw
      BY <1>4
    <2> QED BY <1>0, <1>1, <1>2, <1>4, <2>1, <2>2, CommitForces
  <1>7. \A t \in Tokens : sess'[t] # Nil /\ sess'[t].old =>
           \/ sess'[t].user \in cut'
           \/ DropNext(rest, sess'[t].user) \/ DropNext(cli, sess'[t].user)
    <2>1. \A t \in Tokens : sess[t] # Nil /\ sess[t].old =>
             \/ sess[t].user \in cut
             \/ DropNext(gw, sess[t].user) \/ DropNext(cli, sess[t].user)
      BY <1>0, Zenon DEF SessionsRevoked
    <2> QED BY <1>0, <1>1, <1>2, <1>4, <2>1, CommitRevokes
  <1> HIDE DEF c, rest
  <1>8. c.do # "password" /\ c.user \in cut => c.user \in cut'
    BY <1>1, CutFacts
  <1>9. acct[c.user].by = "owner" /\ acct'[c.user].by # "owner" =>
           c.do = "create" \/ (c.do \in {"password", "rehash"} /\ c.val # "owner")
    BY <1>1, <1>3, ExposedBy
  <1>10. ASSUME NEW i \in DOMAIN rest
         PROVE  /\ rest[i].do = "must" /\ rest[i].val = "no" =>
                      \/ rest[i].user \in cut' \/ MustNext(cli, rest[i].user)
                      \/ /\ acct'[rest[i].user].by = "owner"
                         /\ \A j \in DOMAIN rest : rest[j].do = "rehash" => rest[j].val = "owner"
                /\ rest[i].do = "openLate" => rest[i].user \in cut'
    <2> DEFINE x == gw[i + 1]
    <2>1. rest[i] = x /\ i + 1 \in DOMAIN gw /\ c.do # "create"
      BY <1>3, <1>4, <1>10, Zenon
    <2>2. /\ x.do = "must" /\ x.val = "no" =>
                \/ x.user \in cut \/ MustNext(cli, x.user)
                \/ /\ acct[x.user].by = "owner"
                   /\ \A j \in DOMAIN gw : gw[j].do = "rehash" => gw[j].val = "owner"
          /\ x.do = "openLate" => x.user \in cut
          /\ Signs(x) => c.do # "password"
          /\ x.user = c.user
      BY <1>0, <1>3, <1>4, <2>1, Zenon DEF SignInInv, Orderly
    <2> HIDE DEF x
    <2>3. CASE ~Signs(x)
      BY <2>1, <2>3 DEF Signs
    <2>4. CASE Signs(x)
      <3>1. x.user \in cut => x.user \in cut'
        BY <1>8, <2>2, <2>4, Zenon
      <3>2. ASSUME acct[x.user].by = "owner",
                   \A j \in DOMAIN gw : gw[j].do = "rehash" => gw[j].val = "owner"
            PROVE  /\ acct'[x.user].by = "owner"
                   /\ \A j \in DOMAIN rest : rest[j].do = "rehash" => rest[j].val = "owner"
        <4>1. c.do = "rehash" => c.val = "owner"
          BY <1>3, <3>2, Zenon
        <4>2. acct'[x.user].by = "owner"
          BY <1>9, <2>1, <2>2, <2>4, <3>2, <4>1
        <4>3. \A j \in DOMAIN rest : rest[j].do = "rehash" => rest[j].val = "owner"
          BY <1>3, <3>2, Zenon
        <4> QED BY <4>2, <4>3
      <3> QED BY <2>1, <2>2, <3>1, <3>2, Zenon
    <2> QED BY <2>3, <2>4
  <1>11. SignInInv'
    BY <1>1, <1>10, SignInGoesOn, Zenon
  <1>12. ForcedChange' /\ SessionsRevoked'
    BY <1>1, <1>6, <1>7, NothingForgotten, Zenon
  <1>13. Orderly(gw') /\ Orderly(cli') /\ ConsoleOrder' /\ (up' \/ gw' = <<>>)
    BY <1>0, <1>1, <1>5, Zenon DEF ConsoleOrder
  <1> QED BY <1>11, <1>12, <1>13, Zenon DEF PasswordInv, Orderly

LEMMA ConsoleKeepsPasswords ==
    ASSUME TypeOK, AdminInv, PasswordInv, ConsoleCommits PROVE PasswordInv'
  <1> DEFINE c == Head(cli)
             rest == Tail(cli)
             late == Late(Head(cli))
  <1>0. /\ Orderly(gw) /\ Orderly(cli) /\ ConsoleOrder /\ ForcedChange /\ SessionsRevoked
        /\ SignInInv /\ ConsoleInv /\ (up \/ gw = <<>>)
    BY Zenon DEF PasswordInv, AdminInv
  <1>1. /\ cli # <<>> /\ acct' = AcctAfter(c) /\ sess' = SessAfter(c) /\ gw' = late
        /\ cut' = CutAfter(c, gw) /\ cli' = rest /\ up' = up
    BY Zenon DEF ConsoleCommits
  <1>2. gw \in Seq(Commit) /\ cli \in Seq(Commit)
    BY Zenon DEF TypeOK
  <1>3. /\ c \in Commit /\ c = cli[1] /\ 1 \in DOMAIN cli
        /\ \A i \in DOMAIN rest : i + 1 \in DOMAIN cli /\ rest[i] = cli[i + 1]
    BY <1>1, <1>2, Tails
  <1>4. c.do \in {"password", "must", "drop"} /\ ~Signs(c)
    <2> HIDE DEF c
    <2> QED BY <1>0, <1>3, Zenon DEF ConsoleInv, ConsoleOrder
  <1>5. c.do # "rehash" /\ c.do # "openLate" /\ ~(c.do = "must" /\ c.val = "no")
        /\ c.do # "create"
    <2> HIDE DEF c
    <2> QED BY <1>4 DEF Signs
  <1>6. Orderly(rest) /\ Orderly(late)
    BY <1>0, <1>1, <1>2, <1>3, OrderlyTail, OrderlyLate
  <1>7. \A u : /\ MustNext(gw, u) => MustNext(late, u)
               /\ DropNext(gw, u) => DropNext(late, u)
    BY <1>3, LateNext
  <1>8. \A u \in Users :
           Exposed(acct'[u]) => u \in cut' \/ MustNext(rest, u) \/ MustNext(late, u)
    <2>1. \A u \in Users :
             Exposed(acct[u]) => u \in cut \/ MustNext(cli, u) \/ MustNext(gw, u)
      BY <1>0, NothingForgotten, Zenon
    <2> HIDE DEF late
    <2> QED BY <1>0, <1>1, <1>2, <1>5, <1>7, <2>1, CommitForces
  <1>9. \A t \in Tokens : sess'[t] # Nil /\ sess'[t].old =>
           \/ sess'[t].user \in cut'
           \/ DropNext(rest, sess'[t].user) \/ DropNext(late, sess'[t].user)
    <2>1. \A t \in Tokens : sess[t] # Nil /\ sess[t].old =>
             \/ sess[t].user \in cut
             \/ DropNext(cli, sess[t].user) \/ DropNext(gw, sess[t].user)
      BY <1>0, Zenon DEF SessionsRevoked
    <2> HIDE DEF late
    <2> QED BY <1>0, <1>1, <1>2, <1>5, <1>7, <2>1, CommitRevokes
  <1>10. /\ DOMAIN late = DOMAIN gw
         /\ \A i \in DOMAIN gw :
               /\ late[i].user = gw[i].user
               /\ \/ late[i] = gw[i]
                  \/ /\ gw[i].do = "open" /\ late[i].do = "openLate"
                     /\ c.do = "password" /\ gw[i].user = c.user
    BY <1>3, LateIs
  <1>11. \A u : MustNext(cli, u) => c.user = u
    BY Zenon DEF MustNext
  <1> HIDE DEF c, rest, late
  <1>12. /\ \A u : u # c.user => (u \in cut' <=> u \in cut)
         /\ Concerns(gw, c.user) => c.user \in cut'
    BY <1>1, CutFacts
  <1>13. \A u \in Users : u # c.user => acct'[u] = acct[u]
    BY <1>1, <1>3, ExposedBy
  <1>14. ASSUME NEW i \in DOMAIN late
         PROVE  /\ late[i].do = "must" /\ late[i].val = "no" =>
                      \/ late[i].user \in cut' \/ MustNext(rest, late[i].user)
                      \/ /\ acct'[late[i].user].by = "owner"
                         /\ \A j \in DOMAIN late : late[j].do = "rehash" => late[j].val = "owner"
                /\ late[i].do = "openLate" => late[i].user \in cut'
    <2> DEFINE v == gw[i].user
    <2>1. i \in DOMAIN gw /\ late[i].user = v /\ gw[i] \in Commit
      BY <1>2, <1>10, <1>14
    <2>2. v \in Users /\ Concerns(gw, v)
      BY <2>1, CommitFields, Zenon DEF Concerns
    <2>3. /\ gw[i].do = "must" /\ gw[i].val = "no" =>
                \/ v \in cut \/ MustNext(cli, v)
                \/ /\ acct[v].by = "owner"
                   /\ \A j \in DOMAIN gw : gw[j].do = "rehash" => gw[j].val = "owner"
          /\ gw[i].do = "openLate" => v \in cut
      BY <1>0, <2>1, Zenon DEF SignInInv
    <2> HIDE DEF v
    <2>4. CASE v = c.user
      BY <1>12, <2>1, <2>2, <2>4, Zenon
    <2>5. CASE v # c.user
      <3>1. \A j \in DOMAIN late : late[j].do = "rehash" => j \in DOMAIN gw /\ late[j] = gw[j]
        BY <1>10
      <3>2. late[i].do \in {"must", "openLate"} =>
               late[i] = gw[i] \/ (late[i].do = "openLate" /\ gw[i].user = c.user)
        BY <1>10, <2>1
      <3>3. late[i].do \in {"must", "openLate"} => late[i] = gw[i]
        BY <2>5, <3>2 DEF v
      <3>4. /\ v \in cut => v \in cut'
            /\ ~MustNext(cli, v) /\ acct'[v] = acct[v]
        BY <1>11, <1>12, <1>13, <2>2, <2>5, Zenon
      <3>5. late[i].do = "must" /\ late[i].val = "no" =>
               \/ v \in cut'
               \/ /\ acct'[v].by = "owner"
                  /\ \A j \in DOMAIN late : late[j].do = "rehash" => late[j].val = "owner"
        BY <2>3, <3>1, <3>3, <3>4
      <3>6. late[i].do = "openLate" => v \in cut'
        BY <2>3, <3>3, <3>4
      <3> QED BY <2>1, <3>5, <3>6
    <2> QED BY <2>4, <2>5
  <1>15. SignInInv'
    BY <1>1, <1>14, SignInGoesOn, Zenon
  <1>16. ForcedChange' /\ SessionsRevoked'
    BY <1>1, <1>8, <1>9, NothingForgotten, Zenon
  <1>17. ConsoleOrder'
    BY <1>0, <1>1, <1>3, Zenon DEF ConsoleOrder
  <1>18. up' \/ gw' = <<>>
    <2> SUFFICES ASSUME gw = <<>> PROVE gw' = <<>>
      BY <1>0, <1>1
    <2>1. Late(c) = <<>>
      BY DEF Late
    <2> QED BY <1>1, <2>1 DEF late, c
  <1>19. Orderly(gw') /\ Orderly(cli')
    BY <1>1, <1>6, Zenon
  <1> QED BY <1>15, <1>16, <1>17, <1>18, <1>19, Zenon DEF PasswordInv, Orderly

LEMMA LoginKeepsPasswords ==
    ASSUME TypeOK, PasswordInv, NEW u \in Users, NEW t \in Tokens, Login(u, t)
    PROVE  PasswordInv'
  <1> DEFINE p == LoginPlan(u, t)
  <1>0. /\ Orderly(cli) /\ ConsoleOrder /\ ForcedChange /\ SessionsRevoked
    BY Zenon DEF PasswordInv
  <1>1. /\ up /\ gw = <<>> /\ acct[u].life = "live" /\ gw' = p
        /\ acct' = acct /\ sess' = sess /\ cli' = cli /\ up' = up /\ cut' = cut
    BY Zenon DEF Login, LoopIsFree
  <1>2. /\ Orderly(p)
        /\ \A i \in DOMAIN p :
              /\ p[i].user = u /\ p[i].do # "openLate"
              /\ p[i].do = "rehash" => p[i].val = acct[u].by
              /\ p[i].do = "must" /\ p[i].val = "no" => ~acct[u].must
    BY LoginIsOrderly
  <1> HIDE DEF p
  <1>3. acct[u].by \in {"owner", "other"}
    <2>1. acct[u] \in Row
      BY DEF TypeOK
    <2> QED BY <2>1, RowFields DEF Choosers
  <1>4. ~acct[u].must => u \in cut \/ MustNext(cli, u) \/ acct[u].by = "owner"
    <2> SUFFICES ASSUME ~acct[u].must, acct[u].by = "other" PROVE u \in cut \/ MustNext(cli, u)
      BY <1>3
    <2>1. Exposed(acct[u])
      BY <1>1, Zenon DEF Exposed
    <2> QED BY <1>0, <1>1, <2>1, NothingForgotten, NothingNext, Zenon
  <1>5. SignInInv'
    <2>1. ASSUME NEW i \in DOMAIN gw'
          PROVE  /\ gw'[i].do = "must" /\ gw'[i].val = "no" =>
                       \/ gw'[i].user \in cut' \/ MustNext(cli', gw'[i].user)
                       \/ /\ acct'[gw'[i].user].by = "owner"
                          /\ \A j \in DOMAIN gw' : gw'[j].do = "rehash" => gw'[j].val = "owner"
                 /\ gw'[i].do = "openLate" => gw'[i].user \in cut'
      BY <1>1, <1>2, <1>4, <2>1, Zenon
    <2> QED BY <2>1, SignInGoesOn, Zenon
  <1>6. ForcedChange' /\ SessionsRevoked'
    <2>1. \A v : ~MustNext(gw, v) /\ ~DropNext(gw, v)
      BY <1>1, NothingNext, Zenon
    <2> QED BY <1>0, <1>1, <2>1, NothingLost, Zenon
  <1>7. ConsoleOrder' /\ Orderly(gw') /\ Orderly(cli')
    BY <1>0, <1>1, <1>2, Zenon DEF ConsoleOrder
  <1> QED BY <1>1, <1>5, <1>6, <1>7, Zenon DEF PasswordInv, Orderly

\* An operation begins while the loop is free.
LEMMA BeginningKeepsPasswords ==
    ASSUME PasswordInv, gw = <<>>, Steady(gw'), up',
           acct' = acct, sess' = sess, cli' = cli, cut' = cut
    PROVE  PasswordInv'
  <1>0. Orderly(cli) /\ ConsoleOrder /\ ForcedChange /\ SessionsRevoked
    BY Zenon DEF PasswordInv
  <1>1. ForcedChange' /\ SessionsRevoked'
    <2>1. \A v : ~MustNext(gw, v) /\ ~DropNext(gw, v)
      BY NothingNext, Zenon
    <2> QED BY <1>0, <2>1, NothingLost, Zenon
  <1>2. SignInInv'
    BY SteadySignIn
  <1>3. ConsoleOrder' /\ Orderly(gw') /\ Orderly(cli')
    BY <1>0, Zenon DEF ConsoleOrder, Steady
  <1> QED BY <1>1, <1>2, <1>3, Zenon DEF PasswordInv, Orderly

\* Sessions end and requests come and go while the rest stays.
LEMMA LeavingKeepsPasswords ==
    ASSUME PasswordInv, acct' = acct, gw' = gw, cli' = cli, cut' = cut, up' = up,
           \A t \in Tokens : sess'[t] # Nil => sess'[t] = sess[t]
    PROVE  PasswordInv'
  <1>0. /\ Orderly(gw) /\ Orderly(cli) /\ ConsoleOrder /\ ForcedChange /\ SessionsRevoked
        /\ SignInInv /\ (up \/ gw = <<>>)
    BY Zenon DEF PasswordInv
  <1>1. ForcedChange' /\ SessionsRevoked'
    BY <1>0, NothingLost, Zenon
  <1>2. SignInInv' /\ ConsoleOrder' /\ Orderly(gw') /\ Orderly(cli') /\ (up' \/ gw' = <<>>)
    BY <1>0, Zenon DEF SignInInv, ConsoleOrder, MustNext
  <1> QED BY <1>1, <1>2, Zenon DEF PasswordInv, Orderly

LEMMA PasswordGoesOn ==
    ASSUME TypeOK, AdminInv, PasswordInv, [Next]_vars PROVE PasswordInv'
  <1>0. /\ Orderly(gw) /\ Orderly(cli) /\ ConsoleOrder /\ ForcedChange /\ SessionsRevoked
        /\ SignInInv /\ (up \/ gw = <<>>)
    BY Zenon DEF PasswordInv
  <1>n. Steady(<<>>)
    <2>1. DOMAIN <<>> = {}
      BY NoCommit
    <2> QED BY <2>1, Zenon DEF Steady, Orderly
  <1>1. ASSUME NEW u \in Users, Boot(u) PROVE PasswordInv'
    <2>1. /\ gw = <<>> /\ up' /\ acct' = acct /\ sess' = sess /\ cli' = cli /\ cut' = cut
          /\ gw' = <<>> \/ gw' = <<Do("create", u, "admin")>>
      BY <1>0, <1>1, Zenon DEF Boot
    <2>2. Steady(<<Do("create", u, "admin")>>)
      <3> DEFINE plan == <<Do("create", u, "admin")>>
      <3>1. "create" \in Deeds /\ "admin" \in Roles
        BY DEF Deeds, Roles
      <3>2. Plan(plan, u, {"create"})
        BY <3>1, PlanOfOne
      <3> HIDE DEF plan
      <3>3. \A i \in DOMAIN plan : ~Disables(plan[i])
        BY <3>2 DEF Plan, Disables
      <3>4. Steady(plan)
        BY <3>2, <3>3, PlainIsSteady
      <3> QED BY <3>4 DEF plan
    <2>3. Steady(gw')
      BY <1>n, <2>1, <2>2, Zenon
    <2> QED BY <2>1, <2>3, BeginningKeepsPasswords
  <1>2. ASSUME NEW u \in Users, ConsoleReset(u) PROVE PasswordInv'
    <2> DEFINE p == ResetPlan(u)
    <2>1. /\ cli = <<>> /\ cli' = p /\ acct' = acct /\ sess' = sess /\ gw' = gw
          /\ up' = up /\ cut' = cut
      BY <1>2, Zenon DEF ConsoleReset
    <2>2. Steady(p) /\ \A i \in DOMAIN p : p[i].do = "password" => p[i].val = "other"
      BY ResetIs
    <2> HIDE DEF p
    <2>3. \A v : ~MustNext(cli, v) /\ ~DropNext(cli, v)
      BY <2>1, NothingNext, Zenon
    <2>4. ForcedChange' /\ SessionsRevoked'
      BY <1>0, <2>1, <2>3, NothingLost, Zenon
    <2>5. SignInInv'
      <3>1. ASSUME NEW i \in DOMAIN gw'
            PROVE  /\ gw'[i].do = "must" /\ gw'[i].val = "no" =>
                         \/ gw'[i].user \in cut' \/ MustNext(cli', gw'[i].user)
                         \/ /\ acct'[gw'[i].user].by = "owner"
                            /\ \A j \in DOMAIN gw' : gw'[j].do = "rehash" => gw'[j].val = "owner"
                   /\ gw'[i].do = "openLate" => gw'[i].user \in cut'
        BY <1>0, <2>1, <2>3, <3>1, Zenon DEF SignInInv
      <3> QED BY <3>1, SignInGoesOn, Zenon
    <2>6. ConsoleOrder' /\ Orderly(gw') /\ Orderly(cli') /\ (up' \/ gw' = <<>>)
      BY <1>0, <2>1, <2>2, Zenon DEF ConsoleOrder, Steady
    <2> QED BY <2>4, <2>5, <2>6, Zenon DEF PasswordInv, Orderly
  <1>3. ASSUME NEW u \in Users, NEW t \in Tokens, Login(u, t) PROVE PasswordInv'
    BY <1>3, LoginKeepsPasswords
  <1>4. ASSUME NEW t \in Tokens, Expire(t) \/ TurnAway(t) PROVE PasswordInv'
    <2>1. /\ acct' = acct /\ gw' = gw /\ cli' = cli /\ cut' = cut /\ up' = up
          /\ sess' = [sess EXCEPT ![t] = Nil]
      BY <1>4, Zenon DEF Expire, TurnAway
    <2>2. \A s \in Tokens : sess'[s] # Nil => sess'[s] = sess[s]
      BY <2>1, Zenon DEF TypeOK
    <2> QED BY <2>1, <2>2, LeavingKeepsPasswords
  <1>5. ASSUME NEW r \in Reqs, NEW t \in Tokens, NEW op \in AdminOps \cup OwnOps,
               NEW x \in Users, Admit(r, t, op, x)
        PROVE  PasswordInv'
    <2>1. /\ acct' = acct /\ gw' = gw /\ cli' = cli /\ cut' = cut /\ up' = up /\ sess' = sess
      BY <1>5, Zenon DEF Admit
    <2> QED BY <2>1, LeavingKeepsPasswords
  <1>6. ASSUME NEW r \in Reqs, ReadTarget(r) \/ Refuse(r) PROVE PasswordInv'
    <2>1. /\ acct' = acct /\ gw' = gw /\ cli' = cli /\ cut' = cut /\ up' = up /\ sess' = sess
      BY <1>6, Zenon DEF ReadTarget, Refuse
    <2> QED BY <2>1, LeavingKeepsPasswords
  <1>7. ASSUME NEW r \in Reqs, Handle(r) PROVE PasswordInv'
    <2>1. /\ gw = <<>> /\ up /\ up' = up /\ acct' = acct /\ sess' = sess /\ cli' = cli
          /\ cut' = cut /\ gw' = Handled(reqs[r]) /\ reqs[r] \in Request
      BY <1>7, Zenon DEF Handle, LoopIsFree, TypeOK
    <2>2. Steady(gw')
      BY <2>1, HandledIsSteady, Zenon
    <2> QED BY <2>1, <2>2, BeginningKeepsPasswords
  <1>8. CASE GatewayCommits
    BY <1>8, GatewayKeepsPasswords
  <1>9. CASE ConsoleCommits
    BY <1>9, ConsoleKeepsPasswords
  <1>10. CASE Crash
    <2>1. /\ acct' = acct /\ sess' = sess /\ gw' = <<>> /\ cli' = cli
          /\ cut' = cut \cup Halfway(gw)
      BY <1>10, Zenon DEF Crash
    <2>2. ForcedChange' /\ SessionsRevoked'
      <3>1. \A u : MustNext(gw, u) \/ DropNext(gw, u) => u \in cut'
        BY <2>1, CutHalfway, Zenon
      <3> QED BY <1>0, <2>1, <3>1, NothingLost, Zenon
    <2>3. SignInInv'
      BY <1>n, <2>1, SteadySignIn, Zenon
    <2>4. ConsoleOrder' /\ Orderly(gw') /\ Orderly(cli')
      BY <1>0, <1>n, <2>1, Zenon DEF ConsoleOrder, Steady
    <2> QED BY <2>1, <2>2, <2>3, <2>4, Zenon DEF PasswordInv, Orderly
  <1>11. CASE ConsoleKilled
    <2>1. /\ acct' = acct /\ sess' = sess /\ gw' = gw /\ cli' = <<>> /\ up' = up
          /\ cut' = cut \cup Halfway(cli)
      BY <1>11, Zenon DEF ConsoleKilled
    <2>2. \A u : MustNext(cli, u) \/ DropNext(cli, u) => u \in cut'
      BY <2>1, CutHalfway, Zenon
    <2>3. ForcedChange' /\ SessionsRevoked'
      BY <1>0, <2>1, <2>2, NothingLost, Zenon
    <2>4. SignInInv'
      <3>1. ASSUME NEW i \in DOMAIN gw'
            PROVE  /\ gw'[i].do = "must" /\ gw'[i].val = "no" =>
                         \/ gw'[i].user \in cut' \/ MustNext(cli', gw'[i].user)
                         \/ /\ acct'[gw'[i].user].by = "owner"
                            /\ \A j \in DOMAIN gw' : gw'[j].do = "rehash" => gw'[j].val = "owner"
                   /\ gw'[i].do = "openLate" => gw'[i].user \in cut'
        BY <1>0, <2>1, <2>2, <3>1, Zenon DEF SignInInv
      <3> QED BY <3>1, SignInGoesOn, Zenon
    <2>5. ConsoleOrder' /\ Orderly(gw') /\ Orderly(cli') /\ (up' \/ gw' = <<>>)
      <3>1. DOMAIN cli' = {}
        BY <2>1
      <3> QED BY <1>0, <1>n, <2>1, <3>1, Zenon DEF ConsoleOrder, Steady
    <2> QED BY <2>3, <2>4, <2>5, Zenon DEF PasswordInv, Orderly
  <1>12. CASE UNCHANGED vars
    <2>1. /\ acct' = acct /\ gw' = gw /\ cli' = cli /\ cut' = cut /\ up' = up /\ sess' = sess
      BY <1>12, Zenon DEF vars
    <2> QED BY <2>1, LeavingKeepsPasswords
  <1> QED BY <1>1, <1>2, <1>3, <1>4, <1>5, <1>6, <1>7, <1>8, <1>9, <1>10, <1>11, <1>12,
             Zenon DEF Next

LEMMA PasswordInvariant == Spec => []PasswordInv
  <1>1. TypeOK /\ AdminInv /\ PasswordInv /\ [Next]_vars => TypeOK' /\ AdminInv' /\ PasswordInv'
    BY TypesGoOn, AdminGoesOn, PasswordGoesOn
  <1> QED BY <1>1, TypesStart, AdminStarts, PasswordStarts, PTL DEF Spec

\* A password somebody else chose is in force only with must_change_password
\* set, but while the commit that sets it is the next one and where a crash or
\* the console cut an operation (AuthService.admin_reset_password, reset-password
\* of service/cli.py, the rehash of AuthService.login), for any accounts.
THEOREM ForcedChangeHolds == Spec => []ForcedChange
  <1>1. PasswordInv => ForcedChange
    BY Zenon DEF PasswordInv
  <1> QED BY <1>1, PasswordInvariant, PTL

\* No session outlives the change of its password or the disabling of its
\* account, but while its deletion is next and where a crash or the console cut
\* an operation (AuthService.change_password, admin_reset_password and
\* set_enabled), for any accounts and sessions.
THEOREM RevocationHolds == Spec => []SessionsRevoked
  <1>1. PasswordInv => SessionsRevoked
    BY Zenon DEF PasswordInv
  <1> QED BY <1>1, PasswordInvariant, PTL
=============================================================================
