-------------------------- MODULE OrgMembersProofs --------------------------
(***************************************************************************)
(* Proofs about OrgMembers, for any number of accounts, organizations,     *)
(* tokens and concurrent requests.                                         *)
(***************************************************************************)
EXTENDS OrgMembers, FiniteSetTheorems, TLAPS

\* The ranks of the four roles, and of everything that is none of them.
LEMMA Ranks ==
    /\ rank("owner") = 4 /\ rank("admin") = 3
    /\ rank("member") = 2 /\ rank("viewer") = 1
    /\ rank(NoRole) = 0 /\ rank(Bogus) = 0
  BY DEF rank, NoRole, Bogus

\* An effective role is a role or none: the caller is an account.
LEMMA EffectiveRoleType ==
    ASSUME NEW rows \in [Orgs -> [Users -> Roles \union {NoRole}]],
           NEW u \in Users, NEW o \in Orgs
    PROVE  RoleUnder(rows, u, o) \in Roles \union {NoRole}
  BY DEF RoleUnder, Roles

LEMMA IdleIsRequest == Idle \in Request /\ Idle.at = "idle"
  BY AccountAssumption DEF Idle, Request, Steps, Roles

-----------------------------------------------------------------------------
(* Type correctness.                                                       *)

LEMMA TypeInit == Init => TypeOK
  <1> SUFFICES ASSUME Init PROVE TypeOK
    OBVIOUS
  <1> USE AccountAssumption
  <1>1. /\ orgs \subseteq Orgs
        /\ role \in [Orgs -> [Users -> Roles \union {NoRole}]]
        /\ \A o \in Orgs, u \in Users : role[o][u] # NoRole => o \in orgs
    BY DEF Init, Roles, NoRole
  <1>2. /\ token \in [Tokens -> [org : Orgs \union {Absent}, revoked : BOOLEAN]]
        /\ \A k \in Tokens : token[k].org \in orgs \union {Absent}
    BY DEF Init
  <1>3. /\ req \in [Requests -> Request]
        /\ \A q \in Requests : req[q].at = "idle"
    BY IdleIsRequest DEF Init
  <1>4. held \in [Requests -> SUBSET (Roles \union {NoRole})] /\ orphaned \subseteq Orgs
    BY DEF Init
  <1> QED
    BY <1>1, <1>2, <1>3, <1>4 DEF TypeOK

LEMMA TypeHeld ==
    ASSUME TypeOK, TrackHeld,
           req' \in [Requests -> Request],
           role' \in [Orgs -> [Users -> Roles \union {NoRole}]]
    PROVE  held' \in [Requests -> SUBSET (Roles \union {NoRole})] /\ orphaned' \subseteq Orgs
  <1>1. ASSUME NEW q \in Requests
        PROVE  RoleUnder(role', req'[q].by, req'[q].org) \in Roles \union {NoRole}
    BY EffectiveRoleType DEF Request
  <1> QED
    BY <1>1 DEF TrackHeld, TypeOK

\* The part of TypeOK a step can disturb besides held.
RowsOK ==
    /\ orgs \subseteq Orgs
    /\ role \in [Orgs -> [Users -> Roles \union {NoRole}]]
    /\ token \in [Tokens -> [org : Orgs \union {Absent}, revoked : BOOLEAN]]
    /\ req \in [Requests -> Request]
    /\ \A o \in Orgs, u \in Users : role[o][u] # NoRole => o \in orgs
    /\ \A k \in Tokens : token[k].org \in orgs \union {Absent}
    /\ \A q \in Requests : req[q].at \notin {"idle", "naming"} => req[q].org \in orgs
    /\ \A q \in Requests : req[q].at \in {"adding", "changing"} => req[q].new \in Roles

\* Freeing a goroutine keeps the requests well formed.
LEMMA AnswerOK ==
    ASSUME TypeOK, NEW q \in Requests, Answer(q), orgs \subseteq orgs'
    PROVE  /\ req' \in [Requests -> Request]
           /\ \A p \in Requests : req'[p].at \notin {"idle", "naming"} => req'[p].org \in orgs'
           /\ \A p \in Requests : req'[p].at \in {"adding", "changing"} => req'[p].new \in Roles
  BY IdleIsRequest DEF Answer, TypeOK

\* Advancing a goroutine that serves an organization keeps them so as well.
LEMMA AdvanceOK ==
    ASSUME TypeOK, orgs' = orgs, NEW q \in Requests, NEW r \in Request,
           req[q].at \notin {"idle", "naming"}, r.org = req[q].org,
           r.at \in {"adding", "changing"} => r.new \in Roles,
           req' = [req EXCEPT ![q] = r]
    PROVE  /\ req' \in [Requests -> Request]
           /\ \A p \in Requests : req'[p].at \notin {"idle", "naming"} => req'[p].org \in orgs'
           /\ \A p \in Requests : req'[p].at \in {"adding", "changing"} => req'[p].new \in Roles
  BY DEF TypeOK

\* Setting a token's revoked flag keeps the table typed and moves no token.
LEMMA RevokeOK ==
    ASSUME NEW rows \in [Tokens -> [org : Orgs \union {Absent}, revoked : BOOLEAN]],
           NEW k \in Tokens, NEW b \in BOOLEAN
    PROVE  /\ [rows EXCEPT ![k].revoked = b]
                \in [Tokens -> [org : Orgs \union {Absent}, revoked : BOOLEAN]]
           /\ \A j \in Tokens : [rows EXCEPT ![k].revoked = b][j].org = rows[j].org
  OBVIOUS

\* Changing the step, target and role fields of a request gives a request.
LEMMA FieldsOK ==
    ASSUME NEW r \in Request, NEW s \in Steps, NEW t \in Users, NEW n \in Roles \union {Bogus}
    PROVE  /\ [r EXCEPT !.at = s, !.target = t, !.new = n] \in Request
           /\ [r EXCEPT !.at = s, !.target = t, !.new = n].org = r.org
           /\ [r EXCEPT !.at = s, !.target = t, !.new = n].at = s
           /\ [r EXCEPT !.at = s, !.target = t, !.new = n].new = n
           /\ [r EXCEPT !.at = s, !.target = t] \in Request
           /\ [r EXCEPT !.at = s, !.target = t].org = r.org
           /\ [r EXCEPT !.at = s, !.target = t].at = s
  BY DEF Request

LEMMA RowsStep == TypeOK /\ [Next]_vars => RowsOK'
  <1> SUFFICES ASSUME TypeOK, [Next]_vars PROVE RowsOK'
    OBVIOUS
  <1> USE AccountAssumption
  <1>1. ASSUME NEW q \in Requests, NEW u \in Users, NEW o \in Orgs, Route(q, u, o)
        PROVE  RowsOK'
    BY <1>1, IdleIsRequest DEF Route, TypeOK, RowsOK, Idle, Request, Steps
  <1>2. ASSUME NEW q \in Requests, ReadAuthority(q)
        PROVE  RowsOK'
    <2>1. req[q] \in Request
      BY DEF TypeOK
    <2>2. EffectiveRole(req[q].by, req[q].org) \in Roles \union {NoRole}
      BY <2>1, EffectiveRoleType DEF EffectiveRole, TypeOK, Request
    <2> QED
      BY <1>2, <2>1, <2>2 DEF ReadAuthority, TypeOK, RowsOK, Request, Steps
  <1>3. ASSUME NEW q \in Requests, NEW t \in Users, NEW new \in FormRoles,
               ReadExisting(q, t, new)
        PROVE  RowsOK'
    <2>1. CASE Answer(q)
      BY <1>3, <2>1, AnswerOK DEF ReadExisting, TypeOK, RowsOK
    <2>2. CASE req' = [req EXCEPT ![q].at = "existing", ![q].target = t, ![q].new = new]
      <3>a. req[q] \in Request /\ "existing" \in Steps /\ new \in Roles \union {Bogus}
        BY DEF TypeOK, Steps
      <3>1. /\ [req[q] EXCEPT !.at = "existing", !.target = t, !.new = new] \in Request
            /\ [req[q] EXCEPT !.at = "existing", !.target = t, !.new = new].org = req[q].org
            /\ [req[q] EXCEPT !.at = "existing", !.target = t, !.new = new].at = "existing"
        BY <3>a, FieldsOK DEF Request
      <3>2. req' = [req EXCEPT ![q] = [req[q] EXCEPT !.at = "existing", !.target = t, !.new = new]]
        BY <2>2 DEF TypeOK, Request
      <3> QED
        BY <1>3, <3>1, <3>2, AdvanceOK DEF ReadExisting, TypeOK, RowsOK
    <2> QED
      BY <1>3, <2>1, <2>2 DEF ReadExisting
  <1>4. ASSUME NEW q \in Requests, NEW t \in Users, NEW new \in Roles \union {Bogus},
               NEW next \in {"adding", "changing"},
               req[q].at \in {"form", "existing"}, CheckGrant(q, t, new, next)
        PROVE  RowsOK'
    <2>1. CASE Answer(q)
      BY <1>4, <2>1, AnswerOK DEF CheckGrant, TypeOK, RowsOK
    <2>2. CASE /\ canAssign(req[q].eff, new)
               /\ req' = [req EXCEPT ![q].at = next, ![q].target = t, ![q].new = new]
      <3>1. new \in Roles
        BY <2>2, Ranks DEF canAssign, Valid
      <3> DEFINE r == [req[q] EXCEPT !.at = next, !.target = t, !.new = new]
      <3>a. req[q] \in Request /\ next \in Steps
        BY DEF TypeOK, Steps
      <3>2. r \in Request /\ r.org = req[q].org /\ r.new \in Roles
        BY <3>1, <3>a, FieldsOK DEF Request
      <3>3. req' = [req EXCEPT ![q] = r]
        BY <2>2 DEF TypeOK, Request
      <3> QED
        BY <1>4, <3>2, <3>3, AdvanceOK DEF CheckGrant, TypeOK, RowsOK
    <2> QED
      BY <1>4, <2>1, <2>2 DEF CheckGrant
  <1>5. ASSUME NEW q \in Requests, NEW t \in Users, CheckRevoke(q, t)
        PROVE  RowsOK'
    <2>1. CASE Answer(q)
      BY <1>5, <2>1, AnswerOK DEF CheckRevoke, TypeOK, RowsOK
    <2>2. CASE req' = [req EXCEPT ![q].at = "revoking", ![q].target = t]
      <3>a. req[q] \in Request /\ "revoking" \in Steps
        BY DEF TypeOK, Steps
      <3>1. /\ [req[q] EXCEPT !.at = "revoking", !.target = t] \in Request
            /\ [req[q] EXCEPT !.at = "revoking", !.target = t].org = req[q].org
            /\ [req[q] EXCEPT !.at = "revoking", !.target = t].at = "revoking"
        BY <3>a, FieldsOK DEF Request
      <3>2. req' = [req EXCEPT ![q] = [req[q] EXCEPT !.at = "revoking", !.target = t]]
        BY <2>2 DEF TypeOK, Request
      <3> QED
        BY <1>5, <3>1, <3>2, AdvanceOK DEF CheckRevoke, TypeOK, RowsOK
    <2> QED
      BY <1>5, <2>1, <2>2 DEF CheckRevoke
  <1>6. ASSUME NEW q \in Requests, SetMembershipRole(q)
        PROVE  RowsOK'
    BY <1>6, AnswerOK DEF SetMembershipRole, TypeOK, RowsOK, Request
  <1>7. ASSUME NEW q \in Requests, RemoveMembershipGuarded(q)
        PROVE  RowsOK'
    BY <1>7, AnswerOK DEF RemoveMembershipGuarded, TypeOK, RowsOK, Request
  <1>8. ASSUME NEW q \in Requests, NEW k \in Tokens,
               CreateOrgToken(q, k) \/ RevokeIngestTokenInOrg(q, k)
        PROVE  RowsOK'
    <2>1. req[q].org \in Orgs /\ (req[q].at = "routed" => req[q].org \in orgs)
      BY DEF TypeOK, Request
    <2>2. CASE CreateOrgToken(q, k)
      BY <2>1, <2>2, AnswerOK DEF CreateOrgToken, TypeOK, RowsOK
    <2>3. CASE RevokeIngestTokenInOrg(q, k)
      <3>1. /\ token' \in [Tokens -> [org : Orgs \union {Absent}, revoked : BOOLEAN]]
            /\ \A j \in Tokens : token'[j].org = token[j].org
        BY <2>3, RevokeOK DEF RevokeIngestTokenInOrg, TypeOK
      <3> QED
        BY <2>3, <3>1, AnswerOK DEF RevokeIngestTokenInOrg, TypeOK, RowsOK
    <2> QED
      BY <1>8, <2>2, <2>3
  <1>9. ASSUME NEW o \in Orgs, NEW t \in Users, NEW new \in FormRoles,
               AddMembership(o, t, new)
        PROVE  RowsOK'
    <2>1. new \in Roles
      BY <1>9, Ranks DEF AddMembership, Valid
    <2> QED
      BY <1>9, <2>1 DEF AddMembership, TypeOK, RowsOK
  <1>10. ASSUME NEW o \in Orgs, NEW t \in Users, RemoveMembership(o, t)
         PROVE  RowsOK'
    BY <1>10 DEF RemoveMembership, TypeOK, RowsOK
  <1>11. ASSUME NEW q \in Requests, NEW u \in Users, NEW o \in Orgs, GetOrgByName(q, u, o)
         PROVE  RowsOK'
    BY <1>11, IdleIsRequest DEF GetOrgByName, TypeOK, RowsOK, Idle, Request, Steps
  <1>12. ASSUME NEW q \in Requests, CreateOrg(q)
         PROVE  RowsOK'
    BY <1>12, AnswerOK DEF CreateOrg, TypeOK, RowsOK, Request
  <1>13. ASSUME NEW o \in Orgs, NEW k \in Tokens,
                CreateIngestToken(o, k) \/ RevokeIngestToken(k)
         PROVE  RowsOK'
    <2>1. CASE CreateIngestToken(o, k)
      BY <2>1 DEF CreateIngestToken, TypeOK, RowsOK
    <2>2. CASE RevokeIngestToken(k)
      <3>1. /\ token' \in [Tokens -> [org : Orgs \union {Absent}, revoked : BOOLEAN]]
            /\ \A j \in Tokens : token'[j].org = token[j].org
        BY <2>2, RevokeOK DEF RevokeIngestToken, TypeOK
      <3> QED
        BY <2>2, <3>1 DEF RevokeIngestToken, TypeOK, RowsOK
    <2> QED
      BY <1>13, <2>1, <2>2
  <1>14. ASSUME NEW q \in Requests, SetRole(q)
         PROVE  RowsOK'
    <2>1. req[q].target \in Users /\ req[q].new \in Roles \union {Bogus}
      BY DEF TypeOK, Request
    <2> QED
      BY <1>14, <1>4, <2>1 DEF SetRole
  <1>15. ASSUME NEW q \in Requests, NEW t \in Users, NEW new \in FormRoles,
                AddMember(q, t, new)
         PROVE  RowsOK'
    BY <1>15, <1>4 DEF AddMember
  <1>16. CASE UNCHANGED vars
    BY <1>16 DEF vars, TypeOK, RowsOK
  <1> QED
    BY <1>1, <1>2, <1>3, <1>5, <1>6, <1>7, <1>8, <1>9, <1>10, <1>11, <1>12, <1>13,
       <1>14, <1>15, <1>16 DEF Next, SelfService, Operator

\* Every step that is not a stutter updates the history variable.
LEMMA NextTracksHeld == Next => TrackHeld
  BY DEF Next, SelfService, Operator, Route, ReadAuthority, ReadExisting, AddMember,
         SetRole, CheckGrant, CheckRevoke, SetMembershipRole, RemoveMembershipGuarded,
         CreateOrgToken, RevokeIngestTokenInOrg, AddMembership, RemoveMembership,
         GetOrgByName, CreateOrg, CreateIngestToken, RevokeIngestToken

LEMMA TypeStep == TypeOK /\ [Next]_vars => TypeOK'
  <1> SUFFICES ASSUME TypeOK, [Next]_vars PROVE TypeOK'
    OBVIOUS
  <1>1. RowsOK'
    BY RowsStep
  <1>2. held' \in [Requests -> SUBSET (Roles \union {NoRole})] /\ orphaned' \subseteq Orgs
    <2>1. CASE Next
      BY <1>1, <2>1, NextTracksHeld, TypeHeld DEF RowsOK
    <2>2. CASE UNCHANGED vars
      BY <2>2 DEF vars, TypeOK
    <2> QED
      BY <2>1, <2>2
  <1> QED
    BY <1>1, <1>2 DEF RowsOK, TypeOK

\* The tables, the foreign keys and the goroutines stay well formed.
THEOREM TypeCorrect == Spec => []TypeOK
  <1>1. Init => TypeOK
    BY TypeInit
  <1>2. TypeOK /\ [Next]_vars => TypeOK'
    BY TypeStep
  <1> QED
    BY <1>1, <1>2, PTL DEF Spec

-----------------------------------------------------------------------------
(* Ownership of the organizations.                                         *)

\* What a step may do to the memberships: nothing, one row behind the last-owner
\* check of the guarded transactions, or one row from /admin/users.
GuardedRow(o, t, n) ==
    /\ role' = [role EXCEPT ![o][t] = n]
    /\ n # "owner" => ~IsLastOwner(o, t)

OperatorRow(o, t, n) ==
    /\ OperatorEdits /\ req' = req
    /\ role' = [role EXCEPT ![o][t] = n]

LEMMA RoleStep ==
    ASSUME TypeOK, [Next]_vars
    PROVE  \/ role' = role
           \/ \E o \in Orgs, t \in Users, n \in Roles \union {NoRole} :
                GuardedRow(o, t, n) \/ OperatorRow(o, t, n)
  <1>1. ASSUME NEW q \in Requests, SetMembershipRole(q), role' # role
        PROVE  \E o \in Orgs, t \in Users, n \in Roles \union {NoRole} : GuardedRow(o, t, n)
    <2>1. /\ req[q].org \in Orgs /\ req[q].target \in Users
          /\ req[q].new \in Roles \union {NoRole}
      BY <1>1 DEF TypeOK, Request, SetMembershipRole
    <2>2. GuardedRow(req[q].org, req[q].target, req[q].new)
      BY <1>1 DEF SetMembershipRole, GuardedRow
    <2> QED
      BY <2>1, <2>2
  <1>2. ASSUME NEW q \in Requests, RemoveMembershipGuarded(q), role' # role
        PROVE  \E o \in Orgs, t \in Users, n \in Roles \union {NoRole} : GuardedRow(o, t, n)
    <2>1. req[q].org \in Orgs /\ req[q].target \in Users
      BY DEF TypeOK, Request
    <2>2. GuardedRow(req[q].org, req[q].target, NoRole)
      BY <1>2 DEF RemoveMembershipGuarded, GuardedRow
    <2> QED
      BY <2>1, <2>2
  <1>3. ASSUME NEW o \in Orgs, NEW t \in Users, NEW new \in FormRoles, AddMembership(o, t, new)
        PROVE  \E n \in Roles \union {NoRole} : OperatorRow(o, t, n)
    <2>1. new \in Roles
      BY <1>3, Ranks, AccountAssumption DEF AddMembership, Valid
    <2> QED
      BY <1>3, <2>1 DEF AddMembership, OperatorRow
  <1>4. ASSUME NEW o \in Orgs, NEW t \in Users, RemoveMembership(o, t)
        PROVE  OperatorRow(o, t, NoRole)
    BY <1>4 DEF RemoveMembership, OperatorRow
  <1>5. CASE Next
    BY <1>1, <1>2, <1>3, <1>4, <1>5
    DEF Next, SelfService, Operator, Route, ReadAuthority, ReadExisting, AddMember, SetRole,
        CheckGrant, CheckRevoke, CreateOrgToken, RevokeIngestTokenInOrg, GetOrgByName,
        CreateOrg, CreateIngestToken, RevokeIngestToken
  <1>6. CASE UNCHANGED vars
    BY <1>6 DEF vars
  <1> QED
    BY <1>5, <1>6

\* The owners after one row is written.
LEMMA OwnersAfter ==
    ASSUME TypeOK, NEW o \in Orgs, NEW t \in Users, NEW n \in Roles \union {NoRole},
           role' = [role EXCEPT ![o][t] = n]
    PROVE  /\ \A p \in Orgs \ {o} : Owners(p)' = Owners(p)
           /\ n = "owner" => Owners(o)' = Owners(o) \union {t}
           /\ n # "owner" => Owners(o)' = Owners(o) \ {t}
  <1>1. \A p \in Orgs, u \in Users :
          role'[p][u] = IF p = o /\ u = t THEN n ELSE role[p][u]
    BY DEF TypeOK
  <1> QED
    BY <1>1 DEF Owners

\* An owner who may be removed is not the only one.
LEMMA NotLast ==
    ASSUME NEW o \in Orgs, NEW t \in Users, ~IsLastOwner(o, t)
    PROVE  Owners(o) # {t}
  <1> SUFFICES ASSUME Owners(o) = {t} PROVE FALSE
    OBVIOUS
  <1>1. role[o][t] = "owner"
    BY DEF Owners
  <1>2. Cardinality(Owners(o)) = 1
    BY FS_Singleton
  <1> QED
    BY <1>1, <1>2 DEF IsLastOwner

\* A guarded row keeps every organization that has an owner owned.
LEMMA GuardedKeepsOwner ==
    ASSUME TypeOK, NEW o \in Orgs, NEW t \in Users, NEW n \in Roles \union {NoRole},
           GuardedRow(o, t, n), NEW p \in Orgs, Owners(p) # {}
    PROVE  Owners(p)' # {}
  <1>1. CASE p # o \/ n = "owner"
    BY <1>1, OwnersAfter DEF GuardedRow
  <1>2. CASE p = o /\ n # "owner"
    <2>1. Owners(o)' = Owners(o) \ {t} /\ Owners(o) # {t}
      BY <1>2, OwnersAfter, NotLast DEF GuardedRow
    <2>2. PICK u \in Owners(o) : u # t
      BY <1>2, <2>1
    <2>3. u \in Owners(o)'
      BY <2>1, <2>2
    <2> QED
      BY <1>2, <2>3
  <1> QED
    BY <1>1, <1>2

\* No interleaving of org-scoped requests orphans an organization: only a form of
\* /admin/users takes a last owner away.
THEOREM SelfServiceKeepsOwner == Spec => LastOwnerKept
  <1>1. ASSUME TypeOK, [Next]_vars
        PROVE  [\A o \in Orgs : Owners(o) # {} /\ Owners(o)' = {} => req' = req]_vars
    <2> SUFFICES ASSUME NEW o \in Orgs, Owners(o) # {}, Owners(o)' = {}
                 PROVE  req' = req
      OBVIOUS
    <2>1. CASE role' = role
      BY <2>1 DEF Owners
    <2>2. CASE \E p \in Orgs, t \in Users, n \in Roles \union {NoRole} : GuardedRow(p, t, n)
      BY <1>1, <2>2, GuardedKeepsOwner
    <2>3. CASE \E p \in Orgs, t \in Users, n \in Roles \union {NoRole} : OperatorRow(p, t, n)
      BY <2>3 DEF OperatorRow
    <2> QED
      BY <1>1, <2>1, <2>2, <2>3, RoleStep
  <1> QED
    BY <1>1, TypeCorrect, PTL DEF Spec, LastOwnerKept

\* Whatever requests run together, the default organization has an owner unless an
\* instance admin took the last one away on /admin/users.
THEOREM DefaultOrgStaysOwned == Spec => []DefaultOrgOwned
  <1> USE AccountAssumption
  <1>1. Init => DefaultOrgOwned
    BY DEF Init, DefaultOrgOwned, Owners
  <1>2. TypeOK /\ DefaultOrgOwned /\ [Next]_vars => DefaultOrgOwned'
    <2> SUFFICES ASSUME TypeOK, DefaultOrgOwned, [Next]_vars, DefaultOrg \notin orphaned'
                 PROVE  Owners(DefaultOrg)' # {}
      BY DEF DefaultOrgOwned
    <2>1. orphaned \subseteq orphaned'
      BY NextTracksHeld DEF TrackHeld, vars
    <2>2. Owners(DefaultOrg) # {}
      BY <2>1 DEF DefaultOrgOwned
    <2>3. CASE role' = role
      BY <2>2, <2>3 DEF Owners
    <2>4. CASE \E p \in Orgs, t \in Users, n \in Roles \union {NoRole} : GuardedRow(p, t, n)
      BY <2>2, <2>4, GuardedKeepsOwner
    <2>5. CASE role' # role /\ req' = req
      BY <2>2, <2>5, NextTracksHeld DEF TrackHeld, vars
    <2> QED
      BY <2>3, <2>4, <2>5, RoleStep DEF OperatorRow
  <1> QED
    BY <1>1, <1>2, TypeCorrect, PTL DEF Spec

\* What a step does to the history of orphaned organizations when it writes a row.
LEMMA OrphanedAfter ==
    ASSUME TypeOK, TrackHeld, NEW o \in Orgs, NEW t \in Users,
           NEW n \in Roles \union {NoRole}, role' = [role EXCEPT ![o][t] = n]
    PROVE  orphaned' = IF req' = req /\ n # "owner" /\ Owners(o) = {t}
                         THEN orphaned \union {o} ELSE orphaned
  <1>1. \A p \in Orgs : Owners(p) # {} /\ Owners(p)' = {}
                          <=> p = o /\ n # "owner" /\ Owners(o) = {t}
    <2>1. \A p \in Orgs \ {o} : Owners(p)' = Owners(p)
      BY OwnersAfter
    <2>2. CASE n = "owner"
      BY <2>1, <2>2, OwnersAfter
    <2>3. CASE n # "owner"
      <3>1. Owners(o)' = Owners(o) \ {t}
        BY <2>3, OwnersAfter
      <3>2. Owners(o) # {} /\ Owners(o)' = {} <=> Owners(o) = {t}
        BY <3>1
      <3> QED
        BY <2>1, <2>3, <3>2
    <2> QED
      BY <2>2, <2>3
  <1> QED
    BY <1>1 DEF TrackHeld

\* Seen through its owners alone, the system is a behaviour of OrgOwnership.
THEOREM ImplementsOwnership == Spec => OwnershipImplemented
  <1> DEFINE owners == [o \in Orgs |-> Owners(o)]
  <1>1. Init => Ownership!Init
    <2>1. ASSUME Init, NEW o \in Orgs
          PROVE  Owners(o) = IF o = DefaultOrg THEN {Founder} ELSE {}
      BY <2>1, AccountAssumption DEF Init, Owners, NoRole
    <2> QED
      BY <2>1 DEF Ownership!Init, Init
  <1>2. TypeOK /\ [Next]_vars => [Ownership!Next]_<<owners, orphaned>>
    <2> SUFFICES ASSUME TypeOK, Next PROVE [Ownership!Next]_<<owners, orphaned>>
      BY DEF vars, Owners
    <2>1. TrackHeld
      BY NextTracksHeld
    <2>2. CASE role' = role
      <3>1. owners' = owners /\ orphaned' = orphaned
        BY <2>1, <2>2 DEF Owners, TrackHeld
      <3> QED
        BY <3>1
    <2>3. ASSUME NEW o \in Orgs, NEW t \in Users, NEW n \in Roles \union {NoRole},
                 role' = [role EXCEPT ![o][t] = n]
          PROVE  IF n = "owner" THEN Ownership!Gain(o, t) ELSE Ownership!Lose(o, t)
      <3>1. owners' = [p \in Orgs |-> IF p # o THEN Owners(p)
                                      ELSE IF n = "owner" THEN Owners(o) \union {t}
                                      ELSE Owners(o) \ {t}]
        BY <2>3, OwnersAfter
      <3> QED
        BY <3>1 DEF Ownership!Gain, Ownership!Lose
    <2>4. ASSUME NEW o \in Orgs, NEW t \in Users, NEW n \in Roles \union {NoRole},
                 GuardedRow(o, t, n)
          PROVE  Ownership!SelfService(o, t)
      <3>1. n = "owner" \/ Owners(o) # {t}
        BY <2>4, NotLast DEF GuardedRow
      <3>2. orphaned' = orphaned
        BY <2>1, <2>4, <3>1, OrphanedAfter DEF GuardedRow
      <3> QED
        BY <2>3, <2>4, <3>1, <3>2 DEF GuardedRow, Ownership!SelfService
    <2>5. ASSUME NEW o \in Orgs, NEW t \in Users, NEW n \in Roles \union {NoRole},
                 OperatorRow(o, t, n)
          PROVE  Ownership!Operator(o, t)
      <3>1. orphaned' = IF n # "owner" /\ Owners(o) = {t}
                          THEN orphaned \union {o} ELSE orphaned
        BY <2>1, <2>5, OrphanedAfter DEF OperatorRow
      <3> QED
        BY <2>3, <2>5, <3>1 DEF OperatorRow, Ownership!Operator
    <2> QED
      BY <2>2, <2>4, <2>5, RoleStep DEF Ownership!Next
  <1> QED
    BY <1>1, <1>2, TypeCorrect, PTL DEF Spec, OwnershipImplemented, Ownership!Spec

-----------------------------------------------------------------------------
(* What the checks of a request still guarantee when it writes.            *)

ChecksAt(q) ==
    /\ req[q].at \notin {"idle", "naming"} => \E h \in held[q] : AtLeast(h, "admin")
    /\ req[q].at \notin {"idle", "naming", "routed"} => req[q].eff \in held[q]
    /\ req[q].at \in {"adding", "changing"} => canAssign(req[q].eff, req[q].new)

\* The history of a request in flight only grows, and has the caller's role in
\* the state the step leads to.
LEMMA HeldGrows ==
    ASSUME TrackHeld, NEW q \in Requests, req'[q].at # "idle"
    PROVE  /\ req[q].at # "idle" => held[q] \subseteq held'[q]
           /\ RoleUnder(role', req'[q].by, req'[q].org) \in held'[q]
  BY DEF TrackHeld

\* What one step may do to one request.
LEMMA RequestStep ==
    ASSUME TypeOK, Next, NEW q \in Requests
    PROVE  \/ req'[q] = req[q]
           \/ req'[q].at \in {"idle", "naming"}
           \/ \E u \in Users, o \in Orgs : Route(q, u, o)
           \/ ReadAuthority(q)
           \/ /\ req[q].at \in {"form", "existing"}
              /\ req'[q].eff = req[q].eff
              /\ req'[q].at \in {"existing", "adding", "changing", "revoking"}
              /\ req'[q].at \in {"adding", "changing"} => canAssign(req[q].eff, req'[q].new)
  <1> USE IdleIsRequest
  <1> DEFINE Advanced == /\ req[q].at \in {"form", "existing"}
                         /\ req'[q].eff = req[q].eff
                         /\ req'[q].at \in {"existing", "adding", "changing", "revoking"}
                         /\ req'[q].at \in {"adding", "changing"}
                              => canAssign(req[q].eff, req'[q].new)
             Goal == \/ req'[q] = req[q]
                     \/ req'[q].at \in {"idle", "naming"}
                     \/ \E u \in Users, o \in Orgs : Route(q, u, o)
                     \/ ReadAuthority(q)
                     \/ Advanced
  <1>1. ASSUME NEW p \in Requests, Answer(p)
        PROVE  Goal
    BY <1>1 DEF Answer, TypeOK
  <1>2. ASSUME NEW p \in Requests, NEW u \in Users, NEW o \in Orgs,
               Route(p, u, o) \/ GetOrgByName(p, u, o)
        PROVE  Goal
    <2>1. p # q => req'[q] = req[q]
      BY <1>2 DEF Route, GetOrgByName, TypeOK
    <2>2. GetOrgByName(q, u, o) => req'[q].at = "naming"
      BY DEF GetOrgByName, TypeOK, Idle
    <2> QED
      BY <1>2, <2>1, <2>2
  <1>3. ASSUME NEW p \in Requests, ReadAuthority(p)
        PROVE  Goal
    BY <1>3 DEF ReadAuthority, TypeOK
  <1>4. ASSUME NEW p \in Requests, NEW t \in Users, NEW new \in FormRoles, ReadExisting(p, t, new)
        PROVE  Goal
    <2>1. CASE req' = [req EXCEPT ![p].at = "existing", ![p].target = t, ![p].new = new]
      <3>1. p = q => req'[q].at = "existing" /\ req'[q].eff = req[q].eff
        BY <2>1 DEF TypeOK, Request
      <3>2. p # q => req'[q] = req[q]
        BY <2>1 DEF TypeOK
      <3> QED
        BY <1>4, <3>1, <3>2 DEF ReadExisting
    <2> QED
      BY <1>1, <1>4, <2>1 DEF ReadExisting
  <1>5. ASSUME NEW p \in Requests, NEW t, NEW new, NEW next \in {"adding", "changing"},
               req[p].at \in {"form", "existing"}, CheckGrant(p, t, new, next)
        PROVE  Goal
    <2>1. CASE /\ canAssign(req[p].eff, new)
               /\ req' = [req EXCEPT ![p].at = next, ![p].target = t, ![p].new = new]
      <3>1. p = q => /\ req'[q].at = next /\ req'[q].new = new /\ req'[q].eff = req[q].eff
        BY <2>1 DEF TypeOK, Request
      <3>2. p # q => req'[q] = req[q]
        BY <2>1 DEF TypeOK
      <3> QED
        BY <1>5, <2>1, <3>1, <3>2
    <2> QED
      BY <1>1, <1>5, <2>1 DEF CheckGrant
  <1>6. ASSUME NEW p \in Requests, NEW t \in Users, CheckRevoke(p, t)
        PROVE  Goal
    BY <1>1, <1>6 DEF CheckRevoke, TypeOK, Request
  <1> QED
    BY <1>1, <1>2, <1>3, <1>4, <1>5, <1>6
    DEF Next, SelfService, Operator, AddMember, SetRole, SetMembershipRole,
        RemoveMembershipGuarded, CreateOrgToken, RevokeIngestTokenInOrg, AddMembership,
        RemoveMembership, CreateOrg, CreateIngestToken, RevokeIngestToken

LEMMA ChecksStep ==
    ASSUME TypeOK, ChecksHold, [Next]_vars, NEW q \in Requests
    PROVE  ChecksAt(q)'
  <1>1. ChecksAt(q)
    BY DEF ChecksHold, ChecksAt
  <1>2. CASE UNCHANGED vars
    BY <1>1, <1>2 DEF ChecksAt, vars
  <1>3. CASE Next
    <2> USE NextTracksHeld, HeldGrows, <1>3
    <2>1. CASE req'[q].at \in {"idle", "naming"}
      BY <2>1 DEF ChecksAt
    <2>2. CASE req'[q] = req[q] /\ req[q].at # "idle"
      BY <1>1, <2>2 DEF ChecksAt
    <2>3. ASSUME NEW u \in Users, NEW o \in Orgs, Route(q, u, o)
          PROVE  ChecksAt(q)'
      <3>1. /\ req'[q].at = "routed" /\ req'[q].by = u /\ req'[q].org = o
            /\ role' = role
        BY <2>3 DEF Route, TypeOK, Idle
      <3>2. AtLeast(RoleUnder(role', u, o), "admin")
        BY <2>3, <3>1 DEF Route, CanManage, EffectiveRole
      <3> QED
        BY <3>1, <3>2 DEF ChecksAt
    <2>4. CASE ReadAuthority(q)
      <3>1. /\ req[q].at = "routed" /\ req'[q].at = "form" /\ role' = role
            /\ req'[q].by = req[q].by /\ req'[q].org = req[q].org
            /\ req'[q].eff = RoleUnder(role, req[q].by, req[q].org)
        BY <2>4 DEF ReadAuthority, EffectiveRole, TypeOK, Request
      <3> QED
        BY <1>1, <3>1 DEF ChecksAt
    <2>5. CASE /\ req[q].at \in {"form", "existing"}
               /\ req'[q].eff = req[q].eff
               /\ req'[q].at \in {"existing", "adding", "changing", "revoking"}
               /\ req'[q].at \in {"adding", "changing"} => canAssign(req[q].eff, req'[q].new)
      BY <1>1, <2>5 DEF ChecksAt
    <2> QED
      BY <2>1, <2>2, <2>3, <2>4, <2>5, RequestStep
  <1> QED
    BY <1>2, <1>3

\* The checks of every request in flight hold in every reachable state.
THEOREM ChecksAlwaysHold == Spec => []ChecksHold
  <1>1. Init => ChecksHold
    BY IdleIsRequest DEF Init, ChecksHold
  <1>2. TypeOK /\ ChecksHold /\ [Next]_vars => ChecksHold'
    BY ChecksStep DEF ChecksHold, ChecksAt
  <1> QED
    BY <1>1, <1>2, TypeCorrect, PTL DEF Spec

\* A step in which a request writes is that request's transaction, no other's.
LEMMA WriteIsOwn ==
    ASSUME TypeOK, [Next]_vars, NEW q \in Requests, NEW o \in Orgs, NEW t \in Users,
           ScopedWrite(q, o, t), role'[o][t] # NoRole
    PROVE  req[q].at \in {"adding", "changing"} /\ role'[o][t] = req[q].new
  <1> USE IdleIsRequest
  <1>1. CASE \E p \in Requests : SetMembershipRole(p) \/ RemoveMembershipGuarded(p)
    <2>1. PICK p \in Requests : SetMembershipRole(p) \/ RemoveMembershipGuarded(p)
      BY <1>1
    <2>2. p = q
      BY <2>1 DEF ScopedWrite, SetMembershipRole, RemoveMembershipGuarded, Answer, TypeOK
    <2>3. CASE SetMembershipRole(q)
      BY <2>3 DEF ScopedWrite, SetMembershipRole, TypeOK
    <2>4. CASE RemoveMembershipGuarded(q)
      BY <2>4 DEF ScopedWrite, RemoveMembershipGuarded, TypeOK
    <2> QED
      BY <2>1, <2>2, <2>3, <2>4
  <1>2. CASE role' = role \/ req' = req
    BY <1>2 DEF ScopedWrite
  <1> QED
    BY <1>1, <1>2
    DEF Next, SelfService, Operator, Route, ReadAuthority, ReadExisting, AddMember, SetRole,
        CheckGrant, CheckRevoke, CreateOrgToken, RevokeIngestTokenInOrg, GetOrgByName,
        CreateOrg, CreateIngestToken, RevokeIngestToken, AddMembership, RemoveMembership, vars

\* Nobody is lifted by someone who never had the rank to give: a written role was
\* checked against an authority the caller really had while the request ran.
THEOREM GrantsAreBacked == Spec => GrantsBacked
  <1>1. ASSUME TypeOK, ChecksHold, [Next]_vars, NEW q \in Requests, NEW o \in Orgs, NEW t \in Users,
               ScopedWrite(q, o, t)
        PROVE  /\ \E h \in held[q] : AtLeast(h, "admin")
               /\ role'[o][t] # NoRole => \E h \in held[q] : AtLeast(h, role'[o][t])
    <2>1. /\ \E h \in held[q] : AtLeast(h, "admin")
          /\ req[q].eff \in held[q]
          /\ req[q].at \in {"adding", "changing"} => AtLeast(req[q].eff, req[q].new)
      BY <1>1 DEF ChecksHold, ScopedWrite, canAssign
    <2>2. role'[o][t] # NoRole => /\ req[q].at \in {"adding", "changing"}
                                  /\ role'[o][t] = req[q].new
      BY <1>1, WriteIsOwn
    <2> QED
      BY <2>1, <2>2
  <1>2. ASSUME TypeOK, ChecksHold, [Next]_vars
        PROVE  [\A q \in Requests, o \in Orgs, t \in Users :
                  ScopedWrite(q, o, t) =>
                    /\ \E h \in held[q] : AtLeast(h, "admin")
                    /\ role'[o][t] # NoRole => \E h \in held[q] : AtLeast(h, role'[o][t])]_vars
    BY <1>1, <1>2
  <1> QED
    BY <1>2, TypeCorrect, ChecksAlwaysHold, PTL DEF Spec, GrantsBacked
-----------------------------------------------------------------------------
(* Requests that run one after the other.                                  *)

\* There is one goroutine: a request has no other beside it, and a form of
\* /admin/users waits until it is free.
OneAtATime == \A p, q \in Requests : p = q

\* The three rows a request has read are still what it read: its caller's authority,
\* the row of the target, and that row against the authority.
FreshAt(q) ==
    LET r == req[q]
        cur == role[r.org][r.target]
    IN  /\ r.at \in {"form", "existing", "adding", "changing", "revoking"}
             => r.eff = EffectiveRole(r.by, r.org)
        /\ r.at \in {"existing", "changing", "revoking"} => cur # NoRole
        /\ r.at \in {"adding", "changing", "revoking"} => cur = NoRole \/ canActOn(r.eff, cur)
Fresh == \A q \in Requests : FreshAt(q)

\* A read of the request that is under way.
LEMMA FreshRead ==
    ASSUME TypeOK, Fresh, role' = role, NEW q \in Requests,
           \/ ReadAuthority(q)
           \/ \E t \in Users, new \in FormRoles : ReadExisting(q, t, new) \/ AddMember(q, t, new)
           \/ SetRole(q)
           \/ \E t \in Users : CheckRevoke(q, t)
    PROVE  FreshAt(q)'
  <1> USE IdleIsRequest
  <1>1. req[q] \in Request /\ req \in [Requests -> Request] /\ FreshAt(q)
    BY DEF TypeOK, Fresh
  <1>2. CASE Answer(q)
    BY <1>1, <1>2 DEF Answer, FreshAt
  <1>3. CASE ReadAuthority(q)
    <2>1. /\ req'[q].at = "form" /\ req'[q].eff = EffectiveRole(req[q].by, req[q].org)
          /\ req'[q].by = req[q].by /\ req'[q].org = req[q].org
      BY <1>1, <1>3 DEF ReadAuthority, Request
    <2> QED
      BY <2>1 DEF FreshAt, EffectiveRole
  <1>4. ASSUME NEW t \in Users, NEW new \in FormRoles, ReadExisting(q, t, new), ~Answer(q)
        PROVE  FreshAt(q)'
    <2>1. /\ req[q].at = "form" /\ role[req[q].org][t] # NoRole
          /\ req' = [req EXCEPT ![q].at = "existing", ![q].target = t, ![q].new = new]
      BY <1>4 DEF ReadExisting
    <2>2. /\ req'[q].at = "existing" /\ req'[q].target = t /\ req'[q].eff = req[q].eff
          /\ req'[q].by = req[q].by /\ req'[q].org = req[q].org
      BY <1>1, <2>1 DEF Request
    <2> QED
      BY <1>1, <2>1, <2>2 DEF FreshAt, EffectiveRole
  <1>5. ASSUME NEW t, NEW new, NEW next \in {"adding", "changing"},
               CheckGrant(q, t, new, next), ~Answer(q), req[q].at \in {"form", "existing"},
               next = "changing" => role[req[q].org][t] # NoRole
        PROVE  FreshAt(q)'
    <2>1. /\ role[req[q].org][t] = NoRole \/ canActOn(req[q].eff, role[req[q].org][t])
          /\ req' = [req EXCEPT ![q].at = next, ![q].target = t, ![q].new = new]
      BY <1>5 DEF CheckGrant
    <2>2. /\ req'[q].at = next /\ req'[q].target = t /\ req'[q].eff = req[q].eff
          /\ req'[q].by = req[q].by /\ req'[q].org = req[q].org
      BY <1>1, <2>1 DEF Request
    <2> QED
      BY <1>1, <1>5, <2>1, <2>2 DEF FreshAt, EffectiveRole
  <1>6. ASSUME NEW t \in Users, CheckRevoke(q, t), ~Answer(q)
        PROVE  FreshAt(q)'
    <2>1. /\ req[q].at = "form" /\ role[req[q].org][t] # NoRole
          /\ canActOn(req[q].eff, role[req[q].org][t])
          /\ req' = [req EXCEPT ![q].at = "revoking", ![q].target = t]
      BY <1>6 DEF CheckRevoke
    <2>2. /\ req'[q].at = "revoking" /\ req'[q].target = t /\ req'[q].eff = req[q].eff
          /\ req'[q].by = req[q].by /\ req'[q].org = req[q].org
      BY <1>1, <2>1 DEF Request
    <2> QED
      BY <1>1, <2>1, <2>2 DEF FreshAt, EffectiveRole
  <1>7. CASE SetRole(q)
    <2>1. role[req[q].org][req[q].target] # NoRole
      BY <1>1, <1>7 DEF SetRole, FreshAt
    <2> QED
      BY <1>2, <1>5, <1>7, <2>1 DEF SetRole
  <1>8. ASSUME NEW t \in Users, NEW new \in FormRoles, AddMember(q, t, new)
        PROVE  FreshAt(q)'
    BY <1>2, <1>5, <1>8 DEF AddMember
  <1> QED
    BY <1>2, <1>3, <1>4, <1>6, <1>7, <1>8

\* With one goroutine nothing is written while a request is between its reads.
LEMMA FreshStep == OneAtATime /\ TypeOK /\ Fresh /\ [Next]_vars => Fresh'
  <1> SUFFICES ASSUME OneAtATime, TypeOK, Fresh, [Next]_vars, NEW q \in Requests
               PROVE  FreshAt(q)'
    BY DEF Fresh
  <1> USE IdleIsRequest
  <1>1. FreshAt(q) /\ req[q] \in Request /\ \A p \in Requests : p = q
    BY DEF Fresh, TypeOK, OneAtATime
  <1>2. CASE req'[q].at \in {"idle", "naming", "routed"}
    BY <1>2 DEF FreshAt
  <1>3. CASE role' = role /\ req' = req
    BY <1>1, <1>3 DEF FreshAt, EffectiveRole
  <1>4. CASE Next
    <2>1. CASE Answer(q)
      BY <1>2, <2>1 DEF Answer, TypeOK
    <2>2. CASE \E u \in Users, o \in Orgs : Route(q, u, o) \/ GetOrgByName(q, u, o)
      <3>1. \E u \in Users, o \in Orgs, at \in {"routed", "naming"} :
              req' = [req EXCEPT ![q] = [Idle EXCEPT !.at = at, !.by = u, !.org = o]]
        BY <2>2 DEF Route, GetOrgByName
      <3>2. req'[q].at \in {"routed", "naming"}
        BY <3>1 DEF TypeOK, Idle
      <3> QED
        BY <1>2, <3>2
    <2>3. CASE \/ ReadAuthority(q)
               \/ \E t \in Users, new \in FormRoles : ReadExisting(q, t, new) \/ AddMember(q, t, new)
               \/ SetRole(q)
               \/ \E t \in Users : CheckRevoke(q, t)
      <3>1. role' = role
        BY <2>3 DEF ReadAuthority, ReadExisting, AddMember, SetRole, CheckGrant, CheckRevoke
      <3> QED
        BY <2>3, <3>1, FreshRead
    <2>4. CASE \/ \E o \in Orgs, t \in Users, new \in FormRoles : AddMembership(o, t, new)
               \/ \E o \in Orgs, t \in Users : RemoveMembership(o, t)
      <3>1. req' = req /\ req[q].at = "idle"
        BY <1>1, <2>4 DEF AddMembership, RemoveMembership, FreeGoroutine
      <3> QED
        BY <1>2, <3>1
    <2>5. CASE \/ \E o \in Orgs, k \in Tokens : CreateIngestToken(o, k)
               \/ \E k \in Tokens : RevokeIngestToken(k)
      BY <1>3, <2>5 DEF CreateIngestToken, RevokeIngestToken
    <2>6. CASE SetMembershipRole(q) \/ RemoveMembershipGuarded(q) \/ CreateOrg(q)
               \/ \E k \in Tokens : CreateOrgToken(q, k) \/ RevokeIngestTokenInOrg(q, k)
      BY <2>1, <2>6 DEF SetMembershipRole, RemoveMembershipGuarded, CreateOrg,
                        CreateOrgToken, RevokeIngestTokenInOrg
    <2> QED
      BY <1>1, <1>4, <2>2, <2>3, <2>4, <2>5, <2>6 DEF Next, SelfService, Operator
  <1> QED
    BY <1>3, <1>4 DEF vars

LEMMA FreshAlways == OneAtATime /\ Spec => []Fresh
  <1>1. Init => Fresh
    BY IdleIsRequest DEF Init, Fresh, FreshAt
  <1>2. CASE OneAtATime
    BY <1>1, <1>2, FreshStep, TypeCorrect, PTL DEF Spec
  <1> QED
    BY <1>2

\* "can never act on a member whose current role outranks their own": true of every
\* write of a request that has no other beside it.
THEOREM RankIsRespected == OneAtATime /\ Spec => RankRespected
  <1>1. ASSUME TypeOK, Fresh, NEW q \in Requests, NEW o \in Orgs, NEW t \in Users,
               ScopedWrite(q, o, t)
        PROVE  rank(role[o][t]) <= rank(EffectiveRole(req[q].by, o))
    <2>1. /\ FreshAt(q) /\ req[q].at \in {"adding", "changing", "revoking"}
          /\ req[q].org = o /\ req[q].target = t
      BY <1>1 DEF Fresh, ScopedWrite
    <2>2. /\ req[q].eff = EffectiveRole(req[q].by, o)
          /\ role[o][t] = NoRole \/ canActOn(req[q].eff, role[o][t])
      BY <2>1 DEF FreshAt
    <2>3. rank(role[o][t]) \in Nat /\ rank(EffectiveRole(req[q].by, o)) \in Nat
      <3>1. \A r \in Roles \union {NoRole} : rank(r) \in Nat
        BY Ranks DEF Roles
      <3>2. role[o][t] \in Roles \union {NoRole}
            /\ EffectiveRole(req[q].by, o) \in Roles \union {NoRole}
        BY <1>1, EffectiveRoleType DEF TypeOK, Request, EffectiveRole
      <3> QED
        BY <3>1, <3>2
    <2>4. CASE role[o][t] = NoRole
      BY <2>3, <2>4, Ranks
    <2>5. CASE canActOn(req[q].eff, role[o][t])
      BY <2>2, <2>3, <2>5 DEF canActOn, AtLeast
    <2> QED
      BY <2>2, <2>4, <2>5
  <1>2. TypeOK /\ Fresh =>
          [\A q \in Requests, o \in Orgs, t \in Users :
             ScopedWrite(q, o, t) =>
               rank(role[o][t]) <= rank(EffectiveRole(req[q].by, o))]_vars
    BY <1>1
  <1> QED
    BY <1>2, TypeCorrect, FreshAlways, PTL DEF Spec, RankRespected

\* "setrole only changes an EXISTING member's role": true of a request that has no
\* other beside it.
THEOREM SetRoleAddsNobody == OneAtATime /\ Spec => SetRoleNeverAdds
  <1>1. ASSUME Fresh, NEW q \in Requests, NEW o \in Orgs, NEW t \in Users,
               ScopedWrite(q, o, t), req[q].at = "changing"
        PROVE  role[o][t] # NoRole
    BY <1>1 DEF Fresh, FreshAt, ScopedWrite
  <1>2. Fresh =>
          [\A q \in Requests, o \in Orgs, t \in Users :
             ScopedWrite(q, o, t) /\ req[q].at = "changing" => role[o][t] # NoRole]_vars
    BY <1>1
  <1> QED
    BY <1>2, FreshAlways, PTL DEF Spec, SetRoleNeverAdds

-----------------------------------------------------------------------------
(* Ingest tokens.                                                          *)

\* An id that no row has yet is not revoked.
UnusedTokens == \A k \in Tokens : token[k].org = Absent => ~token[k].revoked

\* What a step may do to a token: create it, or revoke it; and a request that takes
\* a step meanwhile serves the organization of that token.
TokenMoves(k) ==
    /\ \/ /\ token[k].org = Absent /\ token'[k].revoked = token[k].revoked
       \/ /\ token[k].org # Absent /\ token'[k].org = token[k].org /\ token'[k].revoked
    /\ token'[k].org \in Orgs
    /\ \A q \in Requests : req[q].at # req'[q].at =>
         req[q].at = "routed" /\ token'[k].org = req[q].org

LEMMA TokenStep ==
    ASSUME TypeOK, [Next]_vars, NEW k \in Tokens, token'[k] # token[k]
    PROVE  TokenMoves(k)
  <1> USE AccountAssumption
  <1>1. /\ token \in [Tokens -> [org : Orgs \union {Absent}, revoked : BOOLEAN]]
        /\ req \in [Requests -> Request]
    BY DEF TypeOK
  <1>2. ASSUME NEW q \in Requests, NEW j \in Tokens, CreateOrgToken(q, j)
        PROVE  TokenMoves(k)
    <2>1. /\ req[q].at = "routed" /\ req[q].org \in Orgs /\ token[j].org = Absent
          /\ token' = [token EXCEPT ![j].org = req[q].org]
          /\ \A p \in Requests : p # q => req'[p] = req[p]
      BY <1>1, <1>2 DEF CreateOrgToken, Answer, Request
    <2>2. j = k
      BY <1>1, <2>1
    <2> QED
      BY <1>1, <2>1, <2>2 DEF TokenMoves
  <1>3. ASSUME NEW q \in Requests, NEW j \in Tokens, RevokeIngestTokenInOrg(q, j)
        PROVE  TokenMoves(k)
    <2>1. /\ req[q].at = "routed" /\ req[q].org \in Orgs /\ token[j].org = req[q].org
          /\ token' = [token EXCEPT ![j].revoked = TRUE]
          /\ \A p \in Requests : p # q => req'[p] = req[p]
      BY <1>1, <1>3 DEF RevokeIngestTokenInOrg, Answer, Request
    <2>2. j = k
      BY <1>1, <2>1
    <2> QED
      BY <1>1, <2>1, <2>2 DEF TokenMoves
  <1>4. ASSUME NEW o \in Orgs, NEW j \in Tokens, CreateIngestToken(o, j)
        PROVE  TokenMoves(k)
    <2>1. token[j].org = Absent /\ token' = [token EXCEPT ![j].org = o] /\ req' = req
      BY <1>4 DEF CreateIngestToken
    <2>2. j = k
      BY <1>1, <2>1
    <2> QED
      BY <1>1, <2>1, <2>2 DEF TokenMoves
  <1>5. ASSUME NEW j \in Tokens, RevokeIngestToken(j)
        PROVE  TokenMoves(k)
    <2>1. token[j].org # Absent /\ token' = [token EXCEPT ![j].revoked = TRUE] /\ req' = req
      BY <1>5 DEF RevokeIngestToken
    <2>2. j = k
      BY <1>1, <2>1
    <2> QED
      BY <1>1, <2>1, <2>2 DEF TokenMoves
  <1>6. token' # token
    OBVIOUS
  <1> QED
    BY <1>2, <1>3, <1>4, <1>5, <1>6
    DEF Next, SelfService, Operator, Route, ReadAuthority, ReadExisting, AddMember, SetRole,
        CheckGrant, CheckRevoke, SetMembershipRole, RemoveMembershipGuarded, AddMembership,
        RemoveMembership, GetOrgByName, CreateOrg, vars

LEMMA UnusedAlways == Spec => []UnusedTokens
  <1>1. Init => UnusedTokens
    BY DEF Init, UnusedTokens
  <1>2. TypeOK /\ UnusedTokens /\ [Next]_vars => UnusedTokens'
    <2> SUFFICES ASSUME TypeOK, UnusedTokens, [Next]_vars, NEW k \in Tokens, token'[k].org = Absent
                 PROVE  ~token'[k].revoked
      BY DEF UnusedTokens
    <2>1. CASE token'[k] = token[k]
      BY <2>1 DEF UnusedTokens
    <2>2. CASE token'[k] # token[k]
      BY <2>2, TokenStep, AccountAssumption DEF TokenMoves
    <2> QED
      BY <2>1, <2>2
  <1> QED
    BY <1>1, <1>2, TypeCorrect, PTL DEF Spec

\* However requests interleave and whatever id they post, a request leaves the tokens
\* of every organization but its own alone, and a revoked token stays revoked.
THEOREM TokensAreConfined == Spec => TokensConfined
  <1>1. ASSUME TypeOK, ChecksHold, UnusedTokens, [Next]_vars, NEW k \in Tokens, token'[k] # token[k]
        PROVE  /\ ~token[k].revoked
               /\ token[k].org \in {Absent, token'[k].org}
               /\ \A q \in Requests : req[q].at # req'[q].at =>
                    token'[k].org = req[q].org /\ \E h \in held[q] : AtLeast(h, "admin")
    <2>1. TokenMoves(k) /\ token[k] \in [org : Orgs \union {Absent}, revoked : BOOLEAN]
      BY <1>1, TokenStep DEF TypeOK
    <2>2. ~token[k].revoked
      <3>1. CASE token[k].org = Absent
        BY <1>1, <3>1 DEF UnusedTokens
      <3>2. ASSUME token[k].org # Absent, token[k].revoked PROVE FALSE
        <4>1. /\ token'[k].org = token[k].org /\ token'[k].revoked = token[k].revoked
              /\ token'[k] \in [org : Orgs \union {Absent}, revoked : BOOLEAN]
          BY <1>1, <2>1, <3>2, RowsStep DEF TokenMoves, RowsOK
        <4> QED
          BY <1>1, <2>1, <4>1
      <3> QED
        BY <3>1, <3>2
    <2> QED
      BY <1>1, <2>1, <2>2 DEF TokenMoves, ChecksHold
  <1>2. ASSUME TypeOK, ChecksHold, UnusedTokens, [Next]_vars
        PROVE  [\A k \in Tokens : token'[k] # token[k] =>
                  /\ ~token[k].revoked
                  /\ token[k].org \in {Absent, token'[k].org}
                  /\ \A q \in Requests : req[q].at # req'[q].at =>
                       token'[k].org = req[q].org /\ \E h \in held[q] : AtLeast(h, "admin")]_vars
    BY <1>1, <1>2
  <1> QED
    BY <1>2, TypeCorrect, ChecksAlwaysHold, UnusedAlways, PTL DEF Spec, TokensConfined
=============================================================================
