------------------------------- MODULE Ingest -------------------------------
(***************************************************************************)
(* POST /ingest, the endpoint history it keeps and the pruning of both.    *)
(*                                                                         *)
(* A CI job posts a run: the endpoints its build reached.  The store keeps *)
(* the run and, per organization and repository, when each endpoint was    *)
(* first and last seen; an endpoint without such a row is drift.  Posts    *)
(* run concurrently and take their timestamp before the transaction that   *)
(* uses it.  The janitor deletes what is older than a cutoff it computed   *)
(* earlier.  Time counts in seconds, the precision of the stored times.    *)
(***************************************************************************)
EXTENDS Naturals, FiniteSets

CONSTANTS
    OrgIds,      \* organizations, and the id 0 of unassigned runs
    Keys,        \* what authorizes a post: stored tokens, the shared one, open ingest
    Tokens,      \* the stored tokens among them; only these can be revoked
    KeyOrg,      \* KeyOrg[k]: the organization runs posted with k belong to
    KeyScope,    \* KeyScope[k]: the repository k is limited to, or AnyRepo
    AnyRepo,
    Names,       \* repository names as clients spell them
    Lower,       \* Lower[n]: strings.ToLower
    Fold,        \* Fold[n]: what strings.EqualFold compares
    Endpoints,
    Posts,       \* request goroutines
    Windows,     \* retention windows in force at one time or another; 0 keeps all
    MaxTime,     \* bound: the clock
    MaxRuns      \* bound: how many runs are stored

ASSUME IngestAssumption ==
    /\ Tokens \subseteq Keys
    /\ KeyOrg \in [Keys -> OrgIds]
    /\ KeyScope \in [Keys -> Names \union {AnyRepo}]
    /\ Lower \in [Names -> Names] /\ Fold \in [Names -> Names]
    /\ Names # {} /\ Keys # {} /\ AnyRepo \notin Names
    /\ Windows \subseteq Nat
    /\ MaxTime \in Nat \ {0} /\ MaxRuns \in Nat

VARIABLES
    clock,     \* the time, in seconds
    revoked,   \* stored tokens that have been revoked
    runs,      \* table runs
    stored,    \* how many runs were ever inserted: ids are not reused
    seen,      \* table endpoints_seen: seen[o][r][e]; last = Never when absent
    post,      \* post[p]: the local variables of a request goroutine
    cutoff,    \* the janitor's cutoff; Never when it is not pruning
    inOrder    \* history: no run was stored after one with a later time

vars == <<clock, revoked, runs, stored, seen, post, cutoff, inOrder>>

-----------------------------------------------------------------------------

Never == 0
Times == 1..MaxTime
Repos == Names       \* what the repository column may hold; see TypeOK

Run == [id : 1..MaxRuns, org : OrgIds, repo : Repos, at : Times,
        eps : SUBSET Endpoints, new : SUBSET Endpoints]
Row == [first : Times \union {Never}, last : Times \union {Never}]
NoRow == [first |-> Never, last |-> Never]

Steps == {"idle", "authed", "accepted", "stamped"}
Post == [at : Steps, key : Keys, name : Names, eps : SUBSET Endpoints,
         now : Times \union {Never}]
Idle == [at |-> "idle", key |-> CHOOSE k \in Keys : TRUE,
         name |-> CHOOSE n \in Names : TRUE, eps |-> {}, now |-> Never]

Answer(p) == post' = [post EXCEPT ![p] = Idle]

Known_AnyOrg(o, r, e) == \E q \in OrgIds : seen[q][r][e].last # Never  \* a slip
Known(o, r, e) == seen[o][r][e].last # Never

Init ==
    /\ clock = 1
    /\ revoked = {}
    /\ runs = {} /\ stored = 0
    /\ seen = [o \in OrgIds |-> [r \in Repos |-> [e \in Endpoints |-> NoRow]]]
    /\ post = [p \in Posts |-> Idle]
    /\ cutoff = Never
    /\ inOrder = TRUE

Tick ==
    /\ clock < MaxTime
    /\ clock' = clock + 1
    /\ UNCHANGED <<revoked, runs, stored, seen, post, cutoff, inOrder>>

\* RevokeIngestToken, RevokeIngestTokenInOrg.
Revoke(k) ==
    /\ k \in Tokens \ revoked
    /\ revoked' = revoked \union {k}
    /\ UNCHANGED <<clock, runs, stored, seen, post, cutoff, inOrder>>

-----------------------------------------------------------------------------
(* handleIngest.                                                           *)

\* ingestCredential, from the headers alone, before the body is read.
ingestCredential(p, k) ==
    /\ post[p].at = "idle"
    /\ k \notin revoked
    /\ post' = [post EXCEPT ![p].at = "authed", ![p].key = k]
    /\ UNCHANGED <<clock, revoked, runs, stored, seen, cutoff, inOrder>>

\* The body cannot be read or is refused, the repository is out of the key's
\* scope, or the transaction fails and is rolled back.
Reject(p) ==
    /\ post[p].at # "idle"
    /\ Answer(p)
    /\ UNCHANGED <<clock, revoked, runs, stored, seen, cutoff, inOrder>>

\* repository == "" || strings.EqualFold(cred.repository, env.Run.Repository).
InScope(k, n) == KeyScope[k] \in {AnyRepo} \union {m \in Names : Fold[m] = Fold[n]}

\* The body is decoded: the repository must be in the key's scope.
Accept(p, n, eps) ==
    /\ post[p].at = "authed"
    /\ InScope(post[p].key, n)
    /\ post' = [post EXCEPT ![p].at = "accepted", ![p].name = n, ![p].eps = eps]
    /\ UNCHANGED <<clock, revoked, runs, stored, seen, cutoff, inOrder>>

\* InsertEnvelope takes the time, then waits for the one connection.
Stamp(p) ==
    /\ post[p].at = "accepted"
    /\ post' = [post EXCEPT ![p].at = "stamped", ![p].now = clock]
    /\ UNCHANGED <<clock, revoked, runs, stored, seen, cutoff, inOrder>>

\* upsertEndpoint: insert the row, or advance its last_seen.
upsertEndpoint_KeepLast(row, now) ==                              \* a slip
    IF row.last = Never THEN [first |-> now, last |-> now] ELSE row
upsertEndpoint(row, now) ==
    [first |-> IF row.last = Never THEN now ELSE row.first, last |-> now]

canonical(n) == Lower[n]

\* The transaction of InsertEnvelope: the run with its drift, and the history.
InsertEnvelope(p) ==
    LET o == KeyOrg[post[p].key]
        r == canonical(post[p].name)
    IN  /\ post[p].at = "stamped"
        /\ stored < MaxRuns
        /\ stored' = stored + 1
        /\ runs' = runs \union
             {[id |-> stored', org |-> o, repo |-> r, at |-> post[p].now,
               eps |-> post[p].eps, new |-> {e \in post[p].eps : ~Known(o, r, e)}]}
        /\ seen' = [seen EXCEPT ![o][r] = [e \in Endpoints |->
                      IF e \in post[p].eps THEN upsertEndpoint(@[e], post[p].now) ELSE @[e]]]
        /\ inOrder' = (inOrder /\ \A t \in runs : t.at <= post[p].now)
        /\ Answer(p)
        /\ UNCHANGED <<clock, revoked, cutoff>>

-----------------------------------------------------------------------------
(* The janitor, and the process.                                           *)

\* janitorPass: the cutoff, from the window in force (see Retention).
Cutoff(d) ==
    /\ cutoff = Never
    /\ d # 0 /\ d < clock          \* otherwise nothing can be older
    /\ cutoff' = clock - d
    /\ UNCHANGED <<clock, revoked, runs, stored, seen, post, inOrder>>

\* A slip: runs are deleted and their endpoints stay in the history.
PruneRunsBefore_RunsOnly ==
    /\ cutoff # Never
    /\ runs' = {r \in runs : r.at >= cutoff}
    /\ cutoff' = Never
    /\ UNCHANGED <<clock, revoked, stored, seen, post, inOrder>>

\* A slip: the history goes by first_seen, so that rows still in use are deleted.
PruneRunsBefore_FirstSeen ==
    /\ cutoff # Never
    /\ runs' = {r \in runs : r.at >= cutoff}
    /\ seen' = [o \in OrgIds |-> [r \in Repos |-> [e \in Endpoints |->
                  IF seen[o][r][e].first < cutoff THEN NoRow ELSE seen[o][r][e]]]]
    /\ cutoff' = Never
    /\ UNCHANGED <<clock, revoked, stored, post, inOrder>>

\* PruneRunsBefore, one transaction.
PruneRunsBefore ==
    /\ cutoff # Never
    /\ runs' = {r \in runs : r.at >= cutoff}
    /\ seen' = [o \in OrgIds |-> [r \in Repos |-> [e \in Endpoints |->
                  IF seen[o][r][e].last < cutoff THEN NoRow ELSE seen[o][r][e]]]]
    /\ cutoff' = Never
    /\ UNCHANGED <<clock, revoked, stored, post, inOrder>>

\* The transaction fails: it is logged, and the next pass is an hour away.
PruneFails ==
    /\ cutoff # Never
    /\ cutoff' = Never
    /\ UNCHANGED <<clock, revoked, runs, stored, seen, post, inOrder>>

\* The process dies and is started again; what was committed stays.
Crash ==
    /\ post' = [p \in Posts |-> Idle]
    /\ cutoff' = Never
    /\ UNCHANGED <<clock, revoked, runs, stored, seen, inOrder>>

-----------------------------------------------------------------------------

handleIngest(p) ==
    \/ \E k \in Keys : ingestCredential(p, k)
    \/ \E n \in Names, eps \in SUBSET Endpoints : Accept(p, n, eps)
    \/ Stamp(p)
    \/ InsertEnvelope(p)
    \/ Reject(p)

Next ==
    \/ Tick
    \/ \E k \in Keys : Revoke(k)
    \/ \E p \in Posts : handleIngest(p)
    \/ \E d \in Windows : Cutoff(d)
    \/ PruneRunsBefore
    \/ PruneFails
    \/ Crash

Spec == Init /\ [][Next]_vars

-----------------------------------------------------------------------------
(* What the repository page reads.  A viewer is the set of organizations   *)
(* whose rows it may see: its memberships, or all of them for an admin.    *)

RunsForRepo(viewer, n) == {r \in runs : r.org \in viewer /\ r.repo = Lower[n]}
RepoVisible(viewer, n) == RunsForRepo(viewer, n) # {}
EndpointsForRepo(viewer, n) ==
    {e \in Endpoints : \E o \in viewer : Known(o, Lower[n], e)}

\* The endpoints of the runs that are kept for a repository of an organization: under
\* this very name, and under any spelling of it (GitHub's names ignore the case).
Recorded(o, r) == UNION {s.eps : s \in {t \in runs : t.org = o /\ t.repo = r}}
RecordedAs(o, r) ==
    UNION {s.eps : s \in {t \in runs : t.org = o /\ Fold[t.repo] = Fold[r]}}

-----------------------------------------------------------------------------
(* Properties.                                                             *)

\* The tables and the goroutines hold values of their types; run ids are unique
\* and runs holds canonical repository names only.
TypeOK ==
    /\ clock \in Times
    /\ revoked \subseteq Tokens
    /\ runs \subseteq Run /\ stored \in 0..MaxRuns
    /\ \A r, s \in runs : r.id = s.id => r = s
    /\ \A r \in runs : r.repo \in {Lower[n] : n \in Names}
    /\ seen \in [OrgIds -> [Repos -> [Endpoints -> Row]]]
    /\ post \in [Posts -> Post]
    /\ cutoff \in Times \union {Never}
    /\ inOrder \in BOOLEAN

\* No two repository records differ by case only: InsertEnvelope stores the
\* canonical name (store.go:269) and every read looks for that one.
CaseMerged == \A r, s \in runs : Fold[r.repo] = Fold[s.repo] => r.repo = s.repo

\* Every stored run is one that some key may post: the scope check happens on the
\* decoded body, long after the key was authenticated from the headers.
RunsInScope ==
    \A r \in runs : \E k \in Keys, n \in Names :
        KeyOrg[k] = r.org /\ Lower[n] = r.repo /\ InScope(k, n)

\* What a viewer reads in the history of a repository comes from runs of its own
\* organizations it can see, so no other organization is heard of, and the history
\* never outlives the runs: deleted with them, whatever posts are under way.
HistoryBacked ==
    \A viewer \in SUBSET OrgIds, n \in Names :
        \A e \in EndpointsForRepo(viewer, n) :
            RepoVisible(viewer, n) /\ \E r \in RunsForRepo(viewer, n) : e \in r.eps

\* An endpoint that no kept run of the repository and organization has reached is
\* always reported as new: concurrent posts and pruning never hide drift, and nor
\* do the runs of another organization (upsertEndpoint).
NoMissedDrift ==
    [][\A r \in runs' \ runs : r.eps \ Recorded(r.org, r.repo) \subseteq r.new]_vars

\* The other way round: every endpoint of the runs a viewer sees is in the history
\* it sees.  PruneRunsBefore means to delete only rows whose last sighting is old.
HistoryCovers ==
    \A viewer \in SUBSET OrgIds, n \in Names :
        \A r \in RunsForRepo(viewer, n) : r.eps \subseteq EndpointsForRepo(viewer, n)

\* As long as runs are stored in the order of their times: nothing else, however
\* posts, prunings and crashes interleave, takes a row that a kept run still needs.
CoversInOrder == inOrder => HistoryCovers

\* Drift is exactly what no kept run has reached.  NoMissedDrift is one half; the
\* other is that nothing known is reported as new again, under no spelling of the
\* repository (store.go:269), although the janitor has pruned between a first and a
\* later run that reached it.  It needs the runs before to have been stored in the
\* order of their times: after LostHistory's inversion the next run reports twice.
DriftExact ==
    [][inOrder => \A r \in runs' \ runs : r.new = r.eps \ RecordedAs(r.org, r.repo)]_vars

\* last_seen is the time of the latest run that reached the endpoint, and not
\* before first_seen, as long as runs are stored in the order of their times.
LastSeenIsLatest ==
    inOrder => \A o \in OrgIds, r \in Repos, e \in Endpoints :
        /\ seen[o][r][e].first <= seen[o][r][e].last
        /\ \A s \in runs : s.org = o /\ s.repo = r /\ e \in s.eps =>
              s.at <= seen[o][r][e].last
=============================================================================
