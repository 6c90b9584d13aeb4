------------------------------ MODULE MCIngest ------------------------------
(* Instances of Ingest for TLC. *)
EXTENDS Ingest, TLC

Unassigned == 0      \* the organization of shared-token and open ingest

\* A token of organization 1 limited to one repository, an unlimited token of
\* organization 2, and the shared token.
OrgOf   == [k \in Keys |-> CASE k = "scoped" -> 1 [] k = "wide" -> 2 [] OTHER -> Unassigned]
ScopeOf == [k \in Keys |-> IF k = "scoped" THEN "acme/site" ELSE AnyRepo]

\* ToLower and EqualFold agree on the ASCII names of the instance.
LowerOf == [n \in Names |-> IF n = "Acme/Site" THEN "acme/site" ELSE n]
FoldOf  == LowerOf

Symmetric == Permutations(Posts)

\* Once the last run is stored no post can add another, and what the tables hold then
\* is also reached with the other post refused before: TLC need not go on with it.
Explored == stored = MaxRuns => \A p \in Posts : post[p] = Idle
=============================================================================
