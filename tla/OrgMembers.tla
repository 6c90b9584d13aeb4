----------------------------- MODULE OrgMembers -----------------------------
(***************************************************************************)
(* Organization membership and ingest-token administration.                *)
(*                                                                         *)
(* Every HTTP request runs in a goroutine of its own and reaches the       *)
(* SQLite store one statement (or one transaction) at a time, so a request *)
(* is a small program whose steps are its store calls.  A POST below       *)
(* /org/{id} passes requireOrgManager, reads the caller's authority again, *)
(* reads the target's row, and only then runs the transaction that writes; *)
(* other requests run between any two of these steps.  The forms of        *)
(* /admin/users and /admin/tokens write with one statement.                *)
(***************************************************************************)
EXTENDS Naturals, FiniteSets

CONSTANTS
    Users,         \* accounts: none is ever deleted, is_admin never changes
    Admins,        \* the instance administrators (users.is_admin = 1)
    Founder,       \* the administrator created by BootstrapAdmin
    Orgs,          \* organizations that exist or may be created
    DefaultOrg,    \* the organization BootstrapAdmin creates
    Tokens,        \* ingest-token row ids, used and not yet used
    Requests,      \* request goroutines that may be in flight together
    FormRoles,     \* the roles the forms submit (bounds the model)
    OperatorEdits  \* whether instance admins use the forms of /admin/users

Roles  == {"owner", "admin", "member", "viewer"}
NoRole == ""                       \* no membership row; also the empty model.Role
Bogus  == "bogus"                  \* any form value that is no role at all
Absent == "absent"                 \* an ingest-token id no row has yet

ASSUME AccountAssumption ==
    /\ Admins \subseteq Users
    /\ Founder \in Admins
    /\ DefaultOrg \in Orgs
    /\ IsFiniteSet(Users)
    /\ FormRoles \subseteq Roles \union {Bogus}
    /\ Absent \notin Orgs
    /\ OperatorEdits \in BOOLEAN

VARIABLES
    orgs,   \* ids in table organizations
    role,   \* role[o][u]: table memberships, NoRole where there is no row
    token,  \* token[k]: table ingest_tokens, the row's org and revoked flag
    req,    \* req[q]: the local variables of a request goroutine
    held,   \* history: the roles req[q].by has had over req[q].org since routed
    orphaned \* history: organizations that lost their last owner on /admin/users

vars == <<orgs, role, token, req, held, orphaned>>

-----------------------------------------------------------------------------
(* Role ranks and the authorization helpers built on them.                 *)

rank(r) == CASE r = "owner"  -> 4
             [] r = "admin"  -> 3
             [] r = "member" -> 2
             [] r = "viewer" -> 1
             [] OTHER        -> 0

AtLeast(r, min) == rank(r) >= rank(min) /\ rank(r) > 0
Valid(r)        == rank(r) > 0

canAssign_AnyRole(eff, newRole) == Valid(newRole)   \* a slip: no rank comparison

canAssign(eff, newRole)   == Valid(newRole) /\ AtLeast(eff, newRole)
canActOn(eff, targetRole) == AtLeast(eff, targetRole)

\* The effective role orgAuthority returns: instance admins act as owners.
RoleUnder(rows, u, o) == IF u \in Admins THEN "owner" ELSE rows[o][u]
EffectiveRole(u, o) == RoleUnder(role, u, o)

CanManage_AnyUser(u, o) == o \in orgs     \* a slip: the role orgAuthority found is ignored
CanManage(u, o) == AtLeast(EffectiveRole(u, o), "admin")

Owners(o) == {u \in Users : role[o][u] = "owner"}

IsLastOwner_OffByOne(o, u) == role[o][u] = "owner" /\ Cardinality(Owners(o)) < 1
IsLastOwner_AnyMember(o, u) ==
    role[o][u] = "owner" /\ Cardinality({v \in Users : role[o][v] # NoRole}) <= 1

\* The refusal both guarded transactions share: the owner count is <= 1.
IsLastOwner(o, u) == role[o][u] = "owner" /\ Cardinality(Owners(o)) <= 1

-----------------------------------------------------------------------------
(* Requests.  A goroutine not serving anything has the record Idle.        *)

Steps == {"idle", "routed", "form", "existing", "adding", "changing", "revoking",
          "naming"}

Request == [at : Steps, by : Users, org : Orgs, eff : Roles \union {NoRole},
            target : Users, new : Roles \union {Bogus}]

Idle == [at |-> "idle", by |-> Founder, org |-> DefaultOrg, eff |-> NoRole,
         target |-> Founder, new |-> "viewer"]

\* The handler answers: its goroutine is free again.
Answer(q) == req' = [req EXCEPT ![q] = Idle]

\* The history variables follow the memberships every in-flight request's caller
\* has in the state a step leads to, and the last owners taken away by a form of
\* /admin/users (a step that leaves every goroutine's state alone).
TrackHeld ==
    /\ held' = [q \in Requests |->
                  IF req'[q].at = "idle" THEN {}
                  ELSE (IF req[q].at = "idle" THEN {} ELSE held[q])
                       \union {RoleUnder(role', req'[q].by, req'[q].org)}]
    /\ orphaned' = orphaned \union
         {o \in Orgs : req' = req /\ Owners(o) # {} /\ Owners(o)' = {}}

Init ==
    /\ orgs  = {DefaultOrg}
    /\ role  = [o \in Orgs |-> [u \in Users |->
                  IF o = DefaultOrg /\ u = Founder THEN "owner" ELSE NoRole]]
    /\ token = [k \in Tokens |-> [org |-> Absent, revoked |-> FALSE]]
    /\ req   = [q \in Requests |-> Idle]
    /\ held  = [q \in Requests |-> {}]
    /\ orphaned = {}

-----------------------------------------------------------------------------
(* POST /org/{id}/members and POST /org/{id}/tokens.                       *)

\* requireOrgManager lets the caller through to the handler.
Route(q, u, o) ==
    /\ req[q].at = "idle"
    /\ o \in orgs
    /\ CanManage(u, o)
    /\ req' = [req EXCEPT ![q] = [Idle EXCEPT !.at = "routed", !.by = u, !.org = o]]
    /\ UNCHANGED <<orgs, role, token>>
    /\ TrackHeld

\* handleOrgMembersPost reads the authority again and drops canManage.
ReadAuthority(q) ==
    /\ req[q].at = "routed"
    /\ req' = [req EXCEPT ![q].at  = "form",
                          ![q].eff = EffectiveRole(req[q].by, req[q].org)]
    /\ UNCHANGED <<orgs, role, token>>
    /\ TrackHeld

\* action=setrole first requires that the member's row exists.
ReadExisting(q, t, new) ==
    /\ req[q].at = "form"
    /\ IF role[req[q].org][t] = NoRole
         THEN Answer(q)
         ELSE req' = [req EXCEPT ![q].at = "existing", ![q].target = t, ![q].new = new]
    /\ UNCHANGED <<orgs, role, token>>
    /\ TrackHeld

\* setMembership, up to its transaction: may the caller assign this role, and
\* act on the role the target has now?
CheckGrant(q, t, new, next) ==
    LET cur == role[req[q].org][t]
        eff == req[q].eff
    IN  /\ IF canAssign(eff, new) /\ (cur = NoRole \/ canActOn(eff, cur))
             THEN req' = [req EXCEPT ![q].at = next, ![q].target = t, ![q].new = new]
             ELSE Answer(q)
        /\ UNCHANGED <<orgs, role, token>>
        /\ TrackHeld

AddMember(q, t, new) == /\ req[q].at = "form"
                        /\ CheckGrant(q, t, new, "adding")
SetRole(q) == /\ req[q].at = "existing"
              /\ CheckGrant(q, req[q].target, req[q].new, "changing")

\* action=revoke, up to its transaction.
CheckRevoke(q, t) ==
    LET cur == role[req[q].org][t]
    IN  /\ req[q].at = "form"
        /\ IF cur # NoRole /\ canActOn(req[q].eff, cur)
             THEN req' = [req EXCEPT ![q].at = "revoking", ![q].target = t]
             ELSE Answer(q)
        /\ UNCHANGED <<orgs, role, token>>
        /\ TrackHeld

\* The two transactions: check the owner count and write, atomically.
SetMembershipRole(q) ==
    LET o == req[q].org
        t == req[q].target
    IN  /\ req[q].at \in {"adding", "changing"}
        /\ role' = IF IsLastOwner(o, t) /\ req[q].new # "owner"
                     THEN role                               \* ErrLastOwner
                     ELSE [role EXCEPT ![o][t] = req[q].new]
        /\ Answer(q)
        /\ UNCHANGED <<orgs, token>>
        /\ TrackHeld

RemoveMembershipGuarded(q) ==
    LET o == req[q].org
        t == req[q].target
    IN  /\ req[q].at = "revoking"
        /\ role' = IF IsLastOwner(o, t)
                     THEN role                               \* ErrLastOwner
                     ELSE [role EXCEPT ![o][t] = NoRole]
        /\ Answer(q)
        /\ UNCHANGED <<orgs, token>>
        /\ TrackHeld

\* handleOrgTokensPost: it re-reads the org but ignores the authority it gets.
CreateOrgToken(q, k) ==
    /\ req[q].at = "routed"
    /\ token[k].org = Absent
    /\ token' = [token EXCEPT ![k].org = req[q].org]
    /\ Answer(q)
    /\ UNCHANGED <<orgs, role>>
    /\ TrackHeld

\* A slip: UPDATE ... WHERE id=?, which crosses organizations.
RevokeIngestTokenInOrg_AnyOrg(q, k) ==
    /\ req[q].at = "routed"
    /\ token[k].org # Absent
    /\ token' = [token EXCEPT ![k].revoked = TRUE]
    /\ Answer(q)
    /\ UNCHANGED <<orgs, role>>
    /\ TrackHeld

\* UPDATE ... WHERE id=? AND org_id=?: any id may be posted, a foreign one is kept.
RevokeIngestTokenInOrg(q, k) ==
    /\ req[q].at = "routed"
    /\ token' = IF token[k].org = req[q].org
                  THEN [token EXCEPT ![k].revoked = TRUE]
                  ELSE token
    /\ Answer(q)
    /\ UNCHANGED <<orgs, role>>
    /\ TrackHeld

-----------------------------------------------------------------------------
(* The instance-admin forms (requireAdmin).  A post that is one statement  *)
(* is one step, taken by a goroutine that is free before and after it.     *)

FreeGoroutine == \E q \in Requests : req[q].at = "idle"

\* /admin/users, action=grant and action=revoke: no last-owner guard.
AddMembership(o, t, new) ==
    /\ OperatorEdits /\ FreeGoroutine
    /\ o \in orgs /\ Valid(new)
    /\ role' = [role EXCEPT ![o][t] = new]
    /\ UNCHANGED <<orgs, token, req>>
    /\ TrackHeld

RemoveMembership(o, t) ==
    /\ OperatorEdits /\ FreeGoroutine
    /\ role' = [role EXCEPT ![o][t] = NoRole]
    /\ UNCHANGED <<orgs, token, req>>
    /\ TrackHeld

\* /admin/tokens, action=create_org: look the name up, then insert the row.
GetOrgByName(q, u, o) ==
    /\ req[q].at = "idle"
    /\ u \in Admins
    /\ o \notin orgs
    /\ req' = [req EXCEPT ![q] = [Idle EXCEPT !.at = "naming", !.by = u, !.org = o]]
    /\ UNCHANGED <<orgs, role, token>>
    /\ TrackHeld

\* The INSERT; when another request took the name meanwhile it fails on UNIQUE.
CreateOrg(q) ==
    /\ req[q].at = "naming"
    /\ orgs' = orgs \union {req[q].org}
    /\ Answer(q)
    /\ UNCHANGED <<role, token>>
    /\ TrackHeld

\* /admin/tokens, action=create_token and action=revoke, for any organization.
CreateIngestToken(o, k) ==
    /\ FreeGoroutine
    /\ o \in orgs
    /\ token[k].org = Absent
    /\ token' = [token EXCEPT ![k].org = o]
    /\ UNCHANGED <<orgs, role, req>>
    /\ TrackHeld

RevokeIngestToken(k) ==
    /\ FreeGoroutine
    /\ token[k].org # Absent
    /\ token' = [token EXCEPT ![k].revoked = TRUE]
    /\ UNCHANGED <<orgs, role, req>>
    /\ TrackHeld

-----------------------------------------------------------------------------
(* One goroutine's org-scoped steps, the instance-admin steps, the system. *)

SelfService(q) ==
    \/ \E u \in Users, o \in Orgs : Route(q, u, o)
    \/ ReadAuthority(q)
    \/ \E t \in Users, new \in FormRoles : ReadExisting(q, t, new)
    \/ \E t \in Users, new \in FormRoles : AddMember(q, t, new)
    \/ SetRole(q)
    \/ \E t \in Users : CheckRevoke(q, t)
    \/ SetMembershipRole(q)
    \/ RemoveMembershipGuarded(q)
    \/ \E k \in Tokens : CreateOrgToken(q, k)
    \/ \E k \in Tokens : RevokeIngestTokenInOrg(q, k)

Operator ==
    \/ \E o \in Orgs, t \in Users, new \in FormRoles : AddMembership(o, t, new)
    \/ \E o \in Orgs, t \in Users : RemoveMembership(o, t)
    \/ \E q \in Requests, u \in Users, o \in Orgs : GetOrgByName(q, u, o)
    \/ \E q \in Requests : CreateOrg(q)
    \/ \E o \in Orgs, k \in Tokens : CreateIngestToken(o, k)
    \/ \E k \in Tokens : RevokeIngestToken(k)

Next == (\E q \in Requests : SelfService(q)) \/ Operator

Spec == Init /\ [][Next]_vars

-----------------------------------------------------------------------------
(* Properties.                                                             *)

\* The tables and the goroutines hold values of their types, memberships and
\* tokens refer to organizations that exist (the foreign keys), and only a
\* recognised role is about to be written or stored.
TypeOK ==
    /\ orgs \subseteq Orgs
    /\ role \in [Orgs -> [Users -> Roles \union {NoRole}]]
    /\ token \in [Tokens -> [org : Orgs \union {Absent}, revoked : BOOLEAN]]
    /\ req \in [Requests -> Request]
    /\ held \in [Requests -> SUBSET (Roles \union {NoRole})]
    /\ orphaned \subseteq Orgs
    /\ \A o \in Orgs, u \in Users : role[o][u] # NoRole => o \in orgs
    /\ \A k \in Tokens : token[k].org \in orgs \union {Absent}
    /\ \A q \in Requests : req[q].at \notin {"idle", "naming"} => req[q].org \in orgs
    /\ \A q \in Requests : req[q].at \in {"adding", "changing"} => req[q].new \in Roles

\* What a request in flight owes to its checks, whatever happened since: it was
\* routed for a manager, the authority it acts with is one its caller had, and
\* the role it is about to write does not exceed that authority.
ChecksHold ==
    \A q \in Requests :
      /\ req[q].at \notin {"idle", "naming"} => \E h \in held[q] : AtLeast(h, "admin")
      /\ req[q].at \notin {"idle", "naming", "routed"} => req[q].eff \in held[q]
      /\ req[q].at \in {"adding", "changing"} => canAssign(req[q].eff, req[q].new)

\* q's transaction changes the membership of t in o in this step.
ScopedWrite(q, o, t) ==
    /\ req[q].at \in {"adding", "changing", "revoking"} /\ req'[q].at = "idle"
    /\ req[q].org = o /\ req[q].target = t
    /\ role'[o][t] # role[o][t]

\* However the requests interleave, a step of an org-scoped request never takes
\* the last owner of an organization away: only a form of /admin/users (a step
\* that leaves every goroutine's state alone) may.  The owner count and the
\* write are one transaction in SetMembershipRole and RemoveMembershipGuarded.
LastOwnerKept ==
    [][\A o \in Orgs : Owners(o) # {} /\ Owners(o)' = {} => req' = req]_vars

\* The default organization always has an owner (store/orgadmin.go:145, "an org
\* always has >= 1 owner"), unless an instance admin takes the last one away on
\* /admin/users.
DefaultOrgOwned == DefaultOrg \notin orphaned => Owners(DefaultOrg) # {}

\* A role a request writes is one its caller had, or outranked, at some moment
\* since the request was routed, and the caller was a manager at some moment
\* since: nobody is lifted by someone who never had the rank to give.
GrantsBacked ==
    [][\A q \in Requests, o \in Orgs, t \in Users :
         ScopedWrite(q, o, t) =>
           /\ \E h \in held[q] : AtLeast(h, "admin")
           /\ role'[o][t] # NoRole => \E h \in held[q] : AtLeast(h, role'[o][t])]_vars

\* "can never act on a member whose current role outranks their own"
\* (server/orgadmin.go:23): at the moment of the write the target does not
\* outrank the caller.  True of requests that run one after the other; a target that is
\* promoted, or a caller who is demoted, after the checks makes it false.
RankRespected ==
    [][\A q \in Requests, o \in Orgs, t \in Users :
         ScopedWrite(q, o, t) =>
           rank(role[o][t]) <= rank(EffectiveRole(req[q].by, o))]_vars

\* "setrole only changes an EXISTING member's role; it is never a covert add"
\* (server/orgadmin.go:322): the row looked for before the transaction is still there
\* when SetMembershipRole upserts.
SetRoleNeverAdds ==
    [][\A q \in Requests, o \in Orgs, t \in Users :
         ScopedWrite(q, o, t) /\ req[q].at = "changing" => role[o][t] # NoRole]_vars

\* A request routed for one organization never creates, revokes or moves an
\* ingest token of another, whatever id it posts, and only acts for a caller who
\* was a manager while it ran; a revoked token is revoked for good.
TokensConfined ==
    [][\A k \in Tokens : token'[k] # token[k] =>
         /\ ~token[k].revoked
         /\ token[k].org \in {Absent, token'[k].org}
         /\ \A q \in Requests : req[q].at # req'[q].at =>
              token'[k].org = req[q].org /\ \E h \in held[q] : AtLeast(h, "admin")]_vars

\* The owners of the organizations behave as OrgOwnership promises: the whole
\* request machinery above implements it, roles and requests hidden.
Ownership == INSTANCE OrgOwnership WITH owners <- [o \in Orgs |-> Owners(o)]
OwnershipImplemented == Ownership!Spec
=============================================================================
