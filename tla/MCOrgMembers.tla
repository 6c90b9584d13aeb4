---------------------------- MODULE MCOrgMembers ----------------------------
(* Instances of OrgMembers for TLC. *)
EXTENDS OrgMembers, TLC

\* Goroutines are interchangeable, and so are the accounts without is_admin.
Symmetric == Permutations(Requests) \union Permutations(Users \ Admins)
               \union Permutations(Tokens)

\* The memberships that are not as BootstrapAdmin left them.
Changed == {m \in Orgs \X Users :
              role[m[1]][m[2]] # IF m = <<DefaultOrg, Founder>> THEN "owner" ELSE NoRole}

\* What TLC explores: every membership while nobody uses /admin/tokens or the tokens of
\* an organization, and one changed membership (of either organization) once somebody
\* does.  Tokens and memberships meet only in who may manage, which one member shows.
Explored ==
    \/ /\ orgs = {DefaultOrg}
       /\ \A q \in Requests : req[q].at # "naming"
       /\ \A k \in Tokens : token[k].org = Absent
    \/ Cardinality(Changed) <= 1
=============================================================================
