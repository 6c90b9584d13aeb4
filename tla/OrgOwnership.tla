---------------------------- MODULE OrgOwnership ----------------------------
(***************************************************************************)
(* What the membership subsystem promises about the owners of an           *)
(* organization, with every request, role below owner and authorization    *)
(* check forgotten: orgs gain and lose owners one account at a time, and   *)
(* self-service management never takes the last owner away.  Instance      *)
(* administrators editing /admin/users make no such promise.               *)
(***************************************************************************)
EXTENDS FiniteSets

CONSTANTS
    Users,         \* the accounts
    Orgs,          \* the organizations that exist or may be created
    DefaultOrg,    \* the organization BootstrapAdmin creates
    Founder,       \* the administrator BootstrapAdmin makes its owner
    OperatorEdits  \* whether instance admins edit memberships on /admin/users

VARIABLES
    owners,     \* owners[o]: the accounts holding the owner role in o
    orphaned    \* organizations whose last owner an instance admin took away

Init ==
    /\ owners = [o \in Orgs |-> IF o = DefaultOrg THEN {Founder} ELSE {}]
    /\ orphaned = {}

Gain(o, u) == owners' = [owners EXCEPT ![o] = @ \union {u}]
Lose(o, u) == owners' = [owners EXCEPT ![o] = @ \ {u}]

\* A manager of o adds an owner, or removes or downgrades one who is not the last.
SelfService(o, u) ==
    /\ Gain(o, u) \/ (Lose(o, u) /\ owners[o] # {u})
    /\ UNCHANGED orphaned

\* An instance administrator grants or revokes on /admin/users, unguarded.
Operator(o, u) ==
    /\ OperatorEdits
    /\ \/ Gain(o, u) /\ UNCHANGED orphaned
       \/ /\ Lose(o, u)
          /\ orphaned' = IF owners[o] = {u} THEN orphaned \union {o} ELSE orphaned

Next == \E o \in Orgs, u \in Users : SelfService(o, u) \/ Operator(o, u)

Spec == Init /\ [][Next]_<<owners, orphaned>>
=============================================================================
