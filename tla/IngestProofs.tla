---------------------------- MODULE IngestProofs ----------------------------
(***************************************************************************)
(* What holds of Ingest for every number of organizations, repositories,   *)
(* endpoints, keys and concurrent posts, and however long it runs.         *)
(***************************************************************************)
EXTENDS Ingest, TLAPS

-----------------------------------------------------------------------------
(* The inductive invariant.                                                *)

\* Ids are handed out in order, and a post that is about to insert has its time.
Numbered == \A r \in runs : r.id <= stored
Stamped  == \A p \in Posts : post[p].at = "stamped" => post[p].now \in Times

\* The scope was checked on the very name that will be stored.
Scoped == \A p \in Posts :
    post[p].at \in {"accepted", "stamped"} => InScope(post[p].key, post[p].name)

\* A row of the history was last written by a run that is still there.
Backed == \A o \in OrgIds, r \in Repos, e \in Endpoints :
    Known(o, r, e) => \E t \in runs :
        /\ t.org = o /\ t.repo = r /\ e \in t.eps
        /\ t.at = seen[o][r][e].last

IInv == TypeOK /\ Numbered /\ Stamped /\ Scoped /\ Backed /\ RunsInScope

\* The run a post stores, and what no step but InsertEnvelope can do.
NewRun(p) ==
    [id |-> stored + 1, org |-> KeyOrg[post[p].key], repo |-> canonical(post[p].name),
     at |-> post[p].now, eps |-> post[p].eps,
     new |-> {e \in post[p].eps : ~Known(KeyOrg[post[p].key], canonical(post[p].name), e)}]

-----------------------------------------------------------------------------
(* Facts about single steps.                                               *)

LEMMA IdleType == Idle \in Post
<1>1. (CHOOSE k \in Keys : TRUE) \in Keys
  BY IngestAssumption
<1>2. (CHOOSE n \in Names : TRUE) \in Names
  BY IngestAssumption
<1> QED
  BY <1>1, <1>2 DEF Idle, Post, Steps

\* The goroutines keep their types in every step.
LEMMA PostType ==
    ASSUME TypeOK, [Next]_vars
    PROVE  post' \in [Posts -> Post]
<1> USE DEF TypeOK
<1>1. CASE UNCHANGED vars
  BY <1>1 DEF vars
<1>2. CASE Tick
  BY <1>2 DEF Tick
<1>3. CASE \E k \in Keys : Revoke(k)
  BY <1>3 DEF Revoke
<1>4. CASE \E d \in Windows : Cutoff(d)
  BY <1>4 DEF Cutoff
<1>5. CASE PruneRunsBefore \/ PruneFails
  BY <1>5 DEF PruneRunsBefore, PruneFails
<1>6. CASE Crash
  BY <1>6, IdleType DEF Crash
<1>7. ASSUME NEW p \in Posts, handleIngest(p)
      PROVE  post' \in [Posts -> Post]
  <2>1. ASSUME NEW k \in Keys, ingestCredential(p, k)
        PROVE  post' \in [Posts -> Post]
    BY <2>1 DEF ingestCredential, Post, Steps
  <2>2. ASSUME NEW n \in Names, NEW eps \in SUBSET Endpoints, Accept(p, n, eps)
        PROVE  post' \in [Posts -> Post]
    <3>1. [post[p] EXCEPT !.at = "accepted", !.name = n, !.eps = eps] \in Post
      BY DEF Post, Steps
    <3>2. post' = [post EXCEPT ![p] = [post[p] EXCEPT !.at = "accepted", !.name = n, !.eps = eps]]
      BY <2>2 DEF Accept
    <3> QED
      BY <3>1, <3>2
  <2>3. CASE Stamp(p)
    BY <2>3 DEF Stamp, Post, Steps
  <2>4. CASE InsertEnvelope(p)
    BY <2>4, IdleType DEF InsertEnvelope, Answer
  <2>5. CASE Reject(p)
    BY <2>5, IdleType DEF Reject, Answer
  <2> QED
    BY <1>7, <2>1, <2>2, <2>3, <2>4, <2>5 DEF handleIngest
<1> QED
  BY <1>1, <1>2, <1>3, <1>4, <1>5, <1>6, <1>7 DEF Next

\* A stored run is one of the right type, and the only one with its id.
LEMMA NewRunType ==
    ASSUME IInv, NEW p \in Posts, InsertEnvelope(p)
    PROVE  /\ NewRun(p) \in Run /\ NewRun(p) \notin runs
           /\ runs' = runs \union {NewRun(p)} /\ stored' = stored + 1
           /\ NewRun(p).repo = Lower[post[p].name]
           /\ KeyOrg[post[p].key] \in OrgIds /\ Lower[post[p].name] \in Repos
<1> USE DEF IInv, TypeOK
<1>1. post[p] \in Post /\ post[p].at = "stamped" /\ stored < MaxRuns
  BY DEF InsertEnvelope
<1>2. post[p].now \in Times
  BY <1>1 DEF Stamped
<1>3. /\ post[p].key \in Keys /\ post[p].name \in Names
      /\ post[p].eps \in SUBSET Endpoints
  BY <1>1 DEF Post
<1>4. KeyOrg[post[p].key] \in OrgIds /\ Lower[post[p].name] \in Names
  BY <1>3, IngestAssumption
<1>5. stored + 1 \in 1..MaxRuns
  BY <1>1, IngestAssumption
<1>6. NewRun(p) \in Run
  BY <1>2, <1>3, <1>4, <1>5 DEF NewRun, Run, canonical, Repos
<1>7. NewRun(p) \notin runs
  <2> SUFFICES ASSUME NewRun(p) \in runs PROVE FALSE
    OBVIOUS
  <2>1. NewRun(p).id <= stored
    BY DEF Numbered
  <2>2. NewRun(p).id = stored + 1
    BY DEF NewRun
  <2> QED
    BY <2>1, <2>2
<1>8. runs' = runs \union {NewRun(p)} /\ stored' = stored + 1
  BY DEF InsertEnvelope, NewRun
<1> QED
  BY <1>4, <1>6, <1>7, <1>8 DEF NewRun, canonical, Repos

\* What InsertEnvelope does to each row of the history.
LEMMA InsertRows ==
    ASSUME IInv, NEW p \in Posts, InsertEnvelope(p),
           NEW o \in OrgIds, NEW r \in Repos, NEW e \in Endpoints
    PROVE  seen'[o][r][e] =
             IF o = KeyOrg[post[p].key] /\ r = Lower[post[p].name] /\ e \in post[p].eps
               THEN upsertEndpoint(seen[o][r][e], post[p].now) ELSE seen[o][r][e]
<1> DEFINE k == KeyOrg[post[p].key]
           n == Lower[post[p].name]
           rows == [x \in Endpoints |-> IF x \in post[p].eps
                      THEN upsertEndpoint(seen[k][n][x], post[p].now) ELSE seen[k][n][x]]
<1>1. k \in OrgIds /\ n \in Repos
  BY NewRunType
<1>2. seen \in [OrgIds -> [Repos -> [Endpoints -> Row]]]
  BY DEF IInv, TypeOK
<1>3. seen' = [seen EXCEPT ![k][n] = rows]
  BY DEF InsertEnvelope, canonical
<1> HIDE DEF k, n, rows
<1>4. seen'[o][r] = IF o = k /\ r = n THEN rows ELSE seen[o][r]
  BY <1>1, <1>2, <1>3
<1>5. rows[e] = IF e \in post[p].eps
        THEN upsertEndpoint(seen[k][n][e], post[p].now) ELSE seen[k][n][e]
  BY DEF rows
<1>6. CASE o = k /\ r = n
  BY <1>4, <1>5, <1>6 DEF k, n
<1>7. CASE ~(o = k /\ r = n)
  BY <1>4, <1>7 DEF k, n
<1> QED
  BY <1>6, <1>7

\* What PruneRunsBefore does to each row.
LEMMA PruneRows ==
    ASSUME PruneRunsBefore, NEW o \in OrgIds, NEW r \in Repos, NEW e \in Endpoints
    PROVE  seen'[o][r][e] = IF seen[o][r][e].last < cutoff THEN NoRow ELSE seen[o][r][e]
BY DEF PruneRunsBefore

\* Steps that are neither an insertion nor a pruning leave both tables alone.
LEMMA OtherSteps ==
    ASSUME [Next]_vars, ~PruneRunsBefore, \A p \in Posts : ~InsertEnvelope(p)
    PROVE  runs' = runs /\ stored' = stored /\ seen' = seen /\ inOrder' = inOrder
<1>1. ASSUME NEW p \in Posts, handleIngest(p)
      PROVE  runs' = runs /\ stored' = stored /\ seen' = seen /\ inOrder' = inOrder
  BY <1>1 DEF handleIngest, ingestCredential, Accept, Stamp, Reject
<1> QED
  BY <1>1 DEF Next, vars, Tick, Revoke, Cutoff, PruneFails, Crash

-----------------------------------------------------------------------------
(* The inductive invariant is preserved.                                   *)

\* The clock, the revocations and the janitor's cutoff.
LEMMA ScalarType ==
    ASSUME TypeOK, [Next]_vars
    PROVE  clock' \in Times /\ revoked' \subseteq Tokens /\ cutoff' \in Times \union {Never}
<1> USE DEF TypeOK
<1>1. CASE UNCHANGED vars
  BY <1>1 DEF vars
<1>2. CASE Tick
  BY <1>2, IngestAssumption DEF Tick, Times
<1>3. ASSUME NEW k \in Keys, Revoke(k)
      PROVE  clock' \in Times /\ revoked' \subseteq Tokens /\ cutoff' \in Times \union {Never}
  BY <1>3 DEF Revoke
<1>4. ASSUME NEW d \in Windows, Cutoff(d)
      PROVE  clock' \in Times /\ revoked' \subseteq Tokens /\ cutoff' \in Times \union {Never}
  <2>1. d \in Nat
    BY IngestAssumption
  <2>2. clock - d \in Times
    BY <1>4, <2>1, IngestAssumption DEF Cutoff, Times
  <2> QED
    BY <1>4, <2>2 DEF Cutoff
<1>5. CASE PruneRunsBefore \/ PruneFails
  BY <1>5 DEF PruneRunsBefore, PruneFails
<1>6. CASE Crash
  BY <1>6 DEF Crash
<1>7. ASSUME NEW p \in Posts, handleIngest(p)
      PROVE  clock' \in Times /\ revoked' \subseteq Tokens /\ cutoff' \in Times \union {Never}
  BY <1>7 DEF handleIngest, ingestCredential, Accept, Stamp, InsertEnvelope, Reject
<1> QED
  BY <1>1, <1>2, <1>3, <1>4, <1>5, <1>6, <1>7 DEF Next

LEMMA SeenType ==
    ASSUME IInv, [Next]_vars
    PROVE  seen' \in [OrgIds -> [Repos -> [Endpoints -> Row]]]
<1>1. seen \in [OrgIds -> [Repos -> [Endpoints -> Row]]]
  BY DEF IInv, TypeOK
<1>2. CASE PruneRunsBefore
  <2>1. NoRow \in Row
    BY DEF NoRow, Row
  <2>2. \A o \in OrgIds, r \in Repos, e \in Endpoints :
           (IF seen[o][r][e].last < cutoff THEN NoRow ELSE seen[o][r][e]) \in Row
    BY <1>1, <2>1
  <2> QED
    BY <1>2, <2>2 DEF PruneRunsBefore
<1>3. ASSUME NEW p \in Posts, InsertEnvelope(p)
      PROVE  seen' \in [OrgIds -> [Repos -> [Endpoints -> Row]]]
  <2> DEFINE k == KeyOrg[post[p].key]
             n == Lower[post[p].name]
             rows == [x \in Endpoints |-> IF x \in post[p].eps
                        THEN upsertEndpoint(seen[k][n][x], post[p].now) ELSE seen[k][n][x]]
  <2>1. k \in OrgIds /\ n \in Repos
    BY <1>3, NewRunType
  <2>2. post[p].now \in Times
    BY <1>3 DEF IInv, Stamped, InsertEnvelope
  <2>3. seen' = [seen EXCEPT ![k][n] = rows]
    BY <1>3 DEF InsertEnvelope, canonical
  <2>4. ASSUME NEW row \in Row
        PROVE  upsertEndpoint(row, post[p].now) \in Row
    BY <2>2 DEF upsertEndpoint, Row
  <2>5. rows \in [Endpoints -> Row]
    BY <1>1, <2>1, <2>4
  <2> HIDE DEF k, n, rows
  <2> QED
    BY <1>1, <2>1, <2>3, <2>5
<1>4. CASE ~PruneRunsBefore /\ \A p \in Posts : ~InsertEnvelope(p)
  BY <1>1, <1>4, OtherSteps
<1> QED
  BY <1>2, <1>3, <1>4

LEMMA TypeStep ==
    ASSUME IInv, [Next]_vars
    PROVE  TypeOK' /\ Numbered'
<1>1. /\ runs \subseteq Run /\ stored \in 0..MaxRuns /\ Numbered
      /\ \A r, s \in runs : r.id = s.id => r = s
      /\ \A r \in runs : r.repo \in {Lower[n] : n \in Names}
  BY DEF IInv, TypeOK
<1>2. /\ runs' \subseteq Run /\ stored' \in 0..MaxRuns /\ Numbered'
      /\ \A r, s \in runs' : r.id = s.id => r = s
      /\ \A r \in runs' : r.repo \in {Lower[n] : n \in Names}
  <2>1. CASE PruneRunsBefore
    BY <1>1, <2>1 DEF PruneRunsBefore, Numbered
  <2>2. ASSUME NEW p \in Posts, InsertEnvelope(p)
        PROVE  <1>2!:
    <3>1. /\ NewRun(p) \in Run /\ runs' = runs \union {NewRun(p)}
          /\ stored' = stored + 1 /\ NewRun(p).repo = Lower[post[p].name]
      BY <2>2, NewRunType
    <3>2. NewRun(p).id = stored + 1
      BY DEF NewRun
    <3>3. post[p].name \in Names /\ stored < MaxRuns
      BY <2>2 DEF IInv, TypeOK, Post, InsertEnvelope
    <3>4. stored' \in 0..MaxRuns
      BY <1>1, <3>1, <3>3, IngestAssumption
    <3>5. \A r \in runs : r.id \in Nat /\ r.id <= stored
      BY <1>1, IngestAssumption DEF Run, Numbered
    <3>6. Numbered'
      BY <1>1, <3>1, <3>2, <3>5 DEF Numbered
    <3>7. \A r, s \in runs' : r.id = s.id => r = s
      BY <1>1, <3>1, <3>2, <3>5
    <3> QED
      BY <1>1, <3>1, <3>3, <3>4, <3>6, <3>7
  <2>3. CASE ~PruneRunsBefore /\ \A p \in Posts : ~InsertEnvelope(p)
    BY <1>1, <2>3, OtherSteps DEF Numbered
  <2> QED
    BY <2>1, <2>2, <2>3
<1>3. TypeOK
  BY DEF IInv
<1>4. inOrder' \in BOOLEAN
  <2>1. CASE PruneRunsBefore
    BY <1>3, <2>1 DEF PruneRunsBefore, TypeOK
  <2>2. ASSUME NEW p \in Posts, InsertEnvelope(p) PROVE inOrder' \in BOOLEAN
    BY <2>2 DEF InsertEnvelope
  <2>3. CASE ~PruneRunsBefore /\ \A p \in Posts : ~InsertEnvelope(p)
    BY <1>3, <2>3, OtherSteps DEF TypeOK
  <2> QED
    BY <2>1, <2>2, <2>3
<1> QED
  BY <1>2, <1>3, <1>4, PostType, SeenType, ScalarType DEF TypeOK

\* Which goroutines change, and how a post comes to be accepted or stamped.
LEMMA PostStep ==
    ASSUME IInv, [Next]_vars
    PROVE  Stamped' /\ Scoped'
<1> USE DEF IInv, TypeOK
<1>1. CASE post' = post
  BY <1>1 DEF Stamped, Scoped
<1>2. CASE Crash
  BY <1>2 DEF Crash, Idle, Stamped, Scoped
<1>3. ASSUME NEW p \in Posts, handleIngest(p)
      PROVE  Stamped' /\ Scoped'
  <2>1. ASSUME NEW k \in Keys, ingestCredential(p, k)
        PROVE  Stamped' /\ Scoped'
    BY <2>1 DEF ingestCredential, Stamped, Scoped
  <2>2. ASSUME NEW n \in Names, NEW eps \in SUBSET Endpoints, Accept(p, n, eps)
        PROVE  Stamped' /\ Scoped'
    BY <2>2 DEF Accept, Stamped, Scoped
  <2>3. CASE Stamp(p)
    BY <2>3 DEF Stamp, Stamped, Scoped
  <2>4. CASE InsertEnvelope(p)
    BY <2>4 DEF InsertEnvelope, Answer, Idle, Stamped, Scoped
  <2>5. CASE Reject(p)
    BY <2>5 DEF Reject, Answer, Idle, Stamped, Scoped
  <2> QED
    BY <1>3, <2>1, <2>2, <2>3, <2>4, <2>5 DEF handleIngest
<1> QED
  BY <1>1, <1>2, <1>3 DEF Next, vars, Tick, Revoke, Cutoff, PruneRunsBefore, PruneFails

LEMMA ScopeStep ==
    ASSUME IInv, [Next]_vars
    PROVE  RunsInScope'
<1>1. RunsInScope
  BY DEF IInv
<1>2. CASE PruneRunsBefore
  BY <1>1, <1>2 DEF PruneRunsBefore, RunsInScope, InScope
<1>3. ASSUME NEW p \in Posts, InsertEnvelope(p)
      PROVE  RunsInScope'
  <2>1. /\ runs' = runs \union {NewRun(p)}
        /\ NewRun(p).repo = Lower[post[p].name] /\ NewRun(p).org = KeyOrg[post[p].key]
    BY <1>3, NewRunType DEF NewRun
  <2>2. post[p].key \in Keys /\ post[p].name \in Names
    BY DEF IInv, TypeOK, Post
  <2>3. InScope(post[p].key, post[p].name)
    BY <1>3 DEF IInv, Scoped, InsertEnvelope
  <2> QED
    BY <1>1, <2>1, <2>2, <2>3 DEF RunsInScope, InScope
<1>4. CASE ~PruneRunsBefore /\ \A p \in Posts : ~InsertEnvelope(p)
  BY <1>1, <1>4, OtherSteps DEF RunsInScope, InScope
<1> QED
  BY <1>2, <1>3, <1>4

\* Pruning deletes a row only if it deletes no younger sighting of it, because a
\* row is always dated like a run that wrote it.
LEMMA BackedStep ==
    ASSUME IInv, [Next]_vars
    PROVE  Backed'
<1> SUFFICES ASSUME NEW o \in OrgIds, NEW r \in Repos, NEW e \in Endpoints,
                    seen'[o][r][e].last # Never
             PROVE  \E t \in runs' : /\ t.org = o /\ t.repo = r /\ e \in t.eps
                                     /\ t.at = seen'[o][r][e].last
  BY DEF Backed, Known
<1>1. ASSUME seen[o][r][e].last # Never
      PROVE  \E t \in runs : /\ t.org = o /\ t.repo = r /\ e \in t.eps
                             /\ t.at = seen[o][r][e].last
  BY <1>1 DEF IInv, Backed, Known
<1>2. CASE PruneRunsBefore
  <2>1. seen[o][r][e].last \in Nat /\ cutoff \in Nat
    BY IngestAssumption DEF IInv, TypeOK, Row, Times, Never
  <2>2. ~(seen[o][r][e].last < cutoff) /\ seen'[o][r][e] = seen[o][r][e]
    BY <1>2, PruneRows DEF NoRow
  <2>3. PICK t \in runs : /\ t.org = o /\ t.repo = r /\ e \in t.eps
                          /\ t.at = seen[o][r][e].last
    BY <1>1, <2>2
  <2>4. t \in runs'
    BY <1>2, <2>1, <2>2, <2>3 DEF PruneRunsBefore
  <2> QED
    BY <2>2, <2>3, <2>4
<1>3. ASSUME NEW p \in Posts, InsertEnvelope(p)
      PROVE  \E t \in runs' : /\ t.org = o /\ t.repo = r /\ e \in t.eps
                              /\ t.at = seen'[o][r][e].last
  <2>1. runs' = runs \union {NewRun(p)} /\ NewRun(p).repo = Lower[post[p].name]
    BY <1>3, NewRunType
  <2>2. CASE o = KeyOrg[post[p].key] /\ r = Lower[post[p].name] /\ e \in post[p].eps
    <3>1. seen'[o][r][e] = upsertEndpoint(seen[o][r][e], post[p].now)
      BY <1>3, <2>2, InsertRows
    <3>2. seen'[o][r][e].last = post[p].now
      BY <3>1 DEF upsertEndpoint
    <3>3. /\ NewRun(p).org = o /\ NewRun(p).eps = post[p].eps
          /\ NewRun(p).at = post[p].now
      BY <2>2 DEF NewRun
    <3> QED
      BY <2>1, <2>2, <3>2, <3>3
  <2>3. CASE ~(o = KeyOrg[post[p].key] /\ r = Lower[post[p].name] /\ e \in post[p].eps)
    <3>1. seen'[o][r][e] = seen[o][r][e]
      BY <1>3, <2>3, InsertRows
    <3> QED
      BY <1>1, <2>1, <3>1
  <2> QED
    BY <2>2, <2>3
<1>4. CASE ~PruneRunsBefore /\ \A p \in Posts : ~InsertEnvelope(p)
  BY <1>1, <1>4, OtherSteps
<1> QED
  BY <1>2, <1>3, <1>4

\* IInv holds initially and every step preserves it.
THEOREM Invariance == Spec => []IInv
<1>1. Init => IInv
  <2> SUFFICES ASSUME Init PROVE IInv
    OBVIOUS
  <2>1. NoRow \in Row /\ 1 \in Times
    BY IngestAssumption DEF NoRow, Row, Times
  <2>2. TypeOK
    BY <2>1, IdleType, IngestAssumption DEF Init, TypeOK
  <2> QED
    BY <2>2 DEF Init, IInv, Numbered, Stamped, Scoped, Backed, Known, NoRow, RunsInScope, Idle
<1>2. IInv /\ [Next]_vars => IInv'
  BY TypeStep, PostStep, ScopeStep, BackedStep DEF IInv
<1> QED
  BY <1>1, <1>2, PTL DEF Spec

-----------------------------------------------------------------------------
(* What follows from it.                                                   *)

\* Tables and goroutines hold values of their types; stored names are canonical.
THEOREM TypeCorrect == Spec => []TypeOK
<1>1. IInv => TypeOK
  BY DEF IInv
<1> QED
  BY <1>1, Invariance, PTL

\* Every stored run is one that some key may post (server.go:277).
THEOREM ScopeRespected == Spec => []RunsInScope
<1>1. IInv => RunsInScope
  BY DEF IInv
<1> QED
  BY <1>1, Invariance, PTL

\* No viewer reads an endpoint that does not come from a run it can see.
THEOREM HistoryIsBacked == Spec => []HistoryBacked
<1>1. IInv => HistoryBacked
  <2> SUFFICES ASSUME IInv, NEW viewer \in SUBSET OrgIds, NEW n \in Names,
                      NEW e \in EndpointsForRepo(viewer, n)
               PROVE  RepoVisible(viewer, n) /\ \E r \in RunsForRepo(viewer, n) : e \in r.eps
    BY DEF HistoryBacked
  <2>1. PICK o \in viewer : Known(o, Lower[n], e)
    BY DEF EndpointsForRepo
  <2>2. Lower[n] \in Repos /\ e \in Endpoints
    BY IngestAssumption DEF Repos, EndpointsForRepo
  <2>3. PICK t \in runs : t.org = o /\ t.repo = Lower[n] /\ e \in t.eps
    BY <2>1, <2>2 DEF IInv, Backed
  <2> QED
    BY <2>3 DEF RepoVisible, RunsForRepo
<1> QED
  BY <1>1, Invariance, PTL

\* ToLower and EqualFold identify the same spellings, as they do on ASCII.
FoldingAgrees ==
    /\ \A n \in Names : Lower[Lower[n]] = Lower[n]
    /\ \A m, n \in Names : Fold[m] = Fold[n] => Lower[m] = Lower[n]

\* Two records never differ by case only, for names on which ToLower and EqualFold
\* identify the same spellings.
THEOREM CaseIsMerged == FoldingAgrees /\ Spec => []CaseMerged
<1>1. CASE FoldingAgrees
  <2>1. TypeOK => CaseMerged
    <3> SUFFICES ASSUME TypeOK, NEW r \in runs, NEW s \in runs, Fold[r.repo] = Fold[s.repo]
                 PROVE  r.repo = s.repo
      BY DEF CaseMerged
    <3>1. PICK m \in Names : r.repo = Lower[m]
      BY DEF TypeOK
    <3>2. PICK n \in Names : s.repo = Lower[n]
      BY DEF TypeOK
    <3>3. Lower[m] \in Names /\ Lower[n] \in Names
      BY IngestAssumption
    <3> QED
      BY <1>1, <3>1, <3>2, <3>3 DEF FoldingAgrees
  <2> QED
    BY <2>1, TypeCorrect, PTL
<1> QED
  BY <1>1

\* Only InsertEnvelope adds a run.
LEMMA OnlyInsert ==
    ASSUME IInv, [Next]_vars, NEW t \in runs' \ runs
    PROVE  \E p \in Posts : InsertEnvelope(p) /\ t = NewRun(p)
<1>1. CASE PruneRunsBefore
  BY <1>1 DEF PruneRunsBefore
<1>2. ASSUME NEW p \in Posts, InsertEnvelope(p)
      PROVE  \E q \in Posts : InsertEnvelope(q) /\ t = NewRun(q)
  BY <1>2, NewRunType
<1>3. CASE ~PruneRunsBefore /\ \A p \in Posts : ~InsertEnvelope(p)
  BY <1>3, OtherSteps
<1> QED
  BY <1>1, <1>2, <1>3

\* Drift is never missed: an endpoint that is not reported as new is one of a run
\* of that organization and repository that is still there.
THEOREM DriftNeverMissed == Spec => NoMissedDrift
<1>1. IInv /\ [Next]_vars =>
        \A r \in runs' \ runs : r.eps \ Recorded(r.org, r.repo) \subseteq r.new
  <2> SUFFICES ASSUME IInv, [Next]_vars, NEW t \in runs' \ runs,
                      NEW e \in t.eps, e \notin t.new
               PROVE  e \in Recorded(t.org, t.repo)
    OBVIOUS
  <2>1. PICK p \in Posts : InsertEnvelope(p) /\ t = NewRun(p)
    BY OnlyInsert
  <2>2. /\ t.org \in OrgIds /\ t.repo \in Repos /\ e \in Endpoints
        /\ Known(t.org, t.repo, e)
    <3>1. NewRun(p) \in Run
      BY <2>1, NewRunType
    <3>2. t.org = KeyOrg[post[p].key] /\ t.repo = canonical(post[p].name) /\ t.eps = post[p].eps
      BY <2>1 DEF NewRun
    <3>3. t.new = {x \in post[p].eps : ~Known(t.org, t.repo, x)}
      BY <2>1, <3>2 DEF NewRun
    <3> QED
      BY <2>1, <3>1, <3>2, <3>3 DEF Run
  <2>3. PICK s \in runs : s.org = t.org /\ s.repo = t.repo /\ e \in s.eps
    BY <2>2 DEF IInv, Backed
  <2> QED
    BY <2>3 DEF Recorded
<1> QED
  BY <1>1, Invariance, PTL DEF NoMissedDrift, Spec

-----------------------------------------------------------------------------
(* When the history is exact: if nothing is ever pruned, or while runs are *)
(* stored in the order of their times.  Two concurrent posts under         *)
(* retention can lose a row of a run that is kept.                         *)

Covered == \A t \in runs : \A e \in t.eps : Known(t.org, t.repo, e)

\* With a covering history the drift of a stored run is exact.
LEMMA ExactStep ==
    ASSUME IInv, Covered, [Next]_vars, NEW t \in runs' \ runs
    PROVE  t.new = t.eps \ Recorded(t.org, t.repo)
<1>1. PICK p \in Posts : InsertEnvelope(p) /\ t = NewRun(p)
  BY OnlyInsert
<1>2. NewRun(p) \in Run
  BY <1>1, NewRunType
<1>3. t.org = KeyOrg[post[p].key] /\ t.repo = canonical(post[p].name) /\ t.eps = post[p].eps
  BY <1>1 DEF NewRun
<1>4. t.new = {x \in t.eps : ~Known(t.org, t.repo, x)}
  BY <1>1, <1>3 DEF NewRun
<1>5. /\ t.org \in OrgIds /\ t.repo \in Repos /\ t.eps \subseteq Endpoints
  BY <1>1, <1>2 DEF Run
<1>6. ASSUME NEW e \in t.eps, Known(t.org, t.repo, e)
      PROVE  e \in Recorded(t.org, t.repo)
  <2>1. PICK s \in runs : s.org = t.org /\ s.repo = t.repo /\ e \in s.eps
    BY <1>5, <1>6 DEF IInv, Backed
  <2> QED
    BY <2>1 DEF Recorded
<1>7. ASSUME NEW e \in Recorded(t.org, t.repo)
      PROVE  Known(t.org, t.repo, e)
  <2>1. PICK s \in runs : s.org = t.org /\ s.repo = t.repo /\ e \in s.eps
    BY DEF Recorded
  <2> QED
    BY <2>1 DEF Covered
<1> QED
  BY <1>4, <1>6, <1>7

\* A stored run is covered by the rows its own transaction writes.
LEMMA InsertCovers ==
    ASSUME IInv, Covered, NEW p \in Posts, InsertEnvelope(p)
    PROVE  Covered'
<1>1. /\ runs' = runs \union {NewRun(p)} /\ NewRun(p) \in Run
      /\ NewRun(p).repo = Lower[post[p].name]
  BY NewRunType
<1>2. \A t \in runs' : t \in Run
  BY <1>1 DEF IInv, TypeOK
<1>3. post[p].now # Never
  BY DEF IInv, Stamped, InsertEnvelope, Times, Never
<1> SUFFICES ASSUME NEW t \in runs', NEW e \in t.eps
             PROVE  seen'[t.org][t.repo][e].last # Never
  BY DEF Covered, Known
<1>4. t.org \in OrgIds /\ t.repo \in Repos /\ e \in Endpoints
  BY <1>2 DEF Run
<1>5. CASE t.org = KeyOrg[post[p].key] /\ t.repo = Lower[post[p].name] /\ e \in post[p].eps
  <2>1. seen'[t.org][t.repo][e] = upsertEndpoint(seen[t.org][t.repo][e], post[p].now)
    BY <1>4, <1>5, InsertRows
  <2> QED
    BY <1>3, <2>1 DEF upsertEndpoint
<1>6. CASE ~(t.org = KeyOrg[post[p].key] /\ t.repo = Lower[post[p].name] /\ e \in post[p].eps)
  <2>1. seen'[t.org][t.repo][e] = seen[t.org][t.repo][e]
    BY <1>4, <1>6, InsertRows
  <2>2. t # NewRun(p)
    BY <1>1, <1>6 DEF NewRun
  <2>3. t \in runs
    BY <1>1, <2>2
  <2> QED
    BY <2>1, <2>3 DEF Covered, Known
<1> QED
  BY <1>5, <1>6

\* Without retention drift is exact, however many posts run at once and in whatever
\* order they are stored.
THEOREM ExactWithoutRetention ==
    Windows \subseteq {0} /\ Spec =>
        [][\A r \in runs' \ runs : r.new = r.eps \ Recorded(r.org, r.repo)]_vars
<1> DEFINE AInv == IInv /\ Covered /\ cutoff = Never
<1>1. Init => Covered /\ cutoff = Never
  BY DEF Init, Covered
<1>2. ASSUME Windows \subseteq {0}, AInv, [Next]_vars
      PROVE  (Covered /\ cutoff = Never)'
  <2>1. \A d \in Windows : ~Cutoff(d)
    BY <1>2 DEF Cutoff
  <2>2. ~PruneRunsBefore
    BY <1>2 DEF PruneRunsBefore
  <2>3. cutoff' = Never
    <3>1. ASSUME NEW p \in Posts, handleIngest(p) PROVE cutoff' = cutoff
      BY <3>1 DEF handleIngest, ingestCredential, Accept, Stamp, InsertEnvelope, Reject
    <3> QED
      BY <1>2, <2>1, <2>2, <3>1 DEF Next, vars, Tick, Revoke, PruneFails, Crash
  <2>4. Covered'
    <3>1. CASE \A p \in Posts : ~InsertEnvelope(p)
      BY <1>2, <2>2, <3>1, OtherSteps DEF Covered, Known
    <3>2. ASSUME NEW p \in Posts, InsertEnvelope(p) PROVE Covered'
      BY <1>2, <3>2, InsertCovers
    <3> QED
      BY <3>1, <3>2
  <2> QED
    BY <2>3, <2>4
<1>3. AInv /\ [Next]_vars => \A r \in runs' \ runs : r.new = r.eps \ Recorded(r.org, r.repo)
  BY ExactStep
<1>4. IInv /\ Covered /\ cutoff = Never <=> AInv
  OBVIOUS
<1>5. CASE Windows \subseteq {0}
  <2>1. AInv /\ [Next]_vars => (Covered /\ cutoff = Never)'
    BY <1>2, <1>5
  <2> HIDE DEF AInv
  <2> QED
    BY <1>1, <1>3, <1>4, <2>1, Invariance, PTL DEF Spec
<1> QED
  BY <1>5

\* While runs are stored in the order of their times last_seen only grows.
Latest == \A t \in runs : \A e \in t.eps : t.at <= seen[t.org][t.repo][e].last
FirstBeforeLast == \A o \in OrgIds, r \in Repos, e \in Endpoints :
    seen[o][r][e].first <= seen[o][r][e].last

OrderInv == inOrder => Latest /\ FirstBeforeLast

LEMMA LatestCovers ==
    ASSUME TypeOK, Latest
    PROVE  Covered
<1> SUFFICES ASSUME NEW t \in runs, NEW e \in t.eps
             PROVE  seen[t.org][t.repo][e].last # Never
  BY DEF Covered, Known
<1>1. t \in Run
  BY DEF TypeOK
<1>2. t.at \in Nat /\ t.at >= 1
  BY <1>1, IngestAssumption DEF Run, Times
<1>3. t.at <= seen[t.org][t.repo][e].last
  BY DEF Latest
<1> QED
  BY <1>2, <1>3 DEF Never

\* Rows stay dated like the latest of the runs that are kept.
LEMMA OrderInvStep ==
    ASSUME IInv, [Next]_vars, OrderInv
    PROVE  OrderInv'
<1> SUFFICES ASSUME inOrder' PROVE Latest' /\ FirstBeforeLast'
  BY DEF OrderInv
<1>1. \A o \in OrgIds, r \in Repos, e \in Endpoints :
         seen[o][r][e].first \in Nat /\ seen[o][r][e].last \in Nat
  BY IngestAssumption DEF IInv, TypeOK, Row, Times, Never
<1>2. /\ cutoff \in Nat
      /\ \A t \in runs : /\ t.at \in Nat /\ t.org \in OrgIds /\ t.repo \in Repos
                         /\ t.eps \subseteq Endpoints
  BY IngestAssumption DEF IInv, TypeOK, Run, Times, Never
<1>3. CASE PruneRunsBefore
  <2>0. Latest /\ FirstBeforeLast
    BY <1>3 DEF PruneRunsBefore, OrderInv
  <2>1. \A t \in runs' : t \in runs /\ t.at >= cutoff
    BY <1>3 DEF PruneRunsBefore
  <2>2. Latest'
    <3> SUFFICES ASSUME NEW t \in runs', NEW e \in t.eps
                 PROVE  t.at <= seen'[t.org][t.repo][e].last
      BY DEF Latest
    <3>1. t.at <= seen[t.org][t.repo][e].last
      BY <2>0, <2>1 DEF Latest
    <3>2. seen'[t.org][t.repo][e] = seen[t.org][t.repo][e]
      <4>1. t.org \in OrgIds /\ t.repo \in Repos /\ e \in Endpoints
        BY <1>2, <2>1
      <4>2. ~(seen[t.org][t.repo][e].last < cutoff)
        BY <1>1, <1>2, <2>1, <3>1, <4>1
      <4> QED
        BY <1>3, <4>1, <4>2, PruneRows
    <3> QED
      BY <3>1, <3>2
  <2>3. FirstBeforeLast'
    <3> SUFFICES ASSUME NEW o \in OrgIds, NEW r \in Repos, NEW e \in Endpoints
                 PROVE  seen'[o][r][e].first <= seen'[o][r][e].last
      BY DEF FirstBeforeLast
    <3>1. seen[o][r][e].first <= seen[o][r][e].last
      BY <2>0 DEF FirstBeforeLast
    <3>2. seen'[o][r][e] \in {NoRow, seen[o][r][e]}
      BY <1>3, PruneRows
    <3> QED
      BY <3>1, <3>2 DEF NoRow, Never
  <2> QED
    BY <2>2, <2>3
<1>4. ASSUME NEW p \in Posts, InsertEnvelope(p)
      PROVE  Latest' /\ FirstBeforeLast'
  <2>1. /\ runs' = runs \union {NewRun(p)} /\ NewRun(p) \in Run
        /\ NewRun(p).repo = Lower[post[p].name] /\ NewRun(p).org = KeyOrg[post[p].key]
        /\ NewRun(p).eps = post[p].eps /\ NewRun(p).at = post[p].now
    BY <1>4, NewRunType DEF NewRun
  <2>2. post[p].at = "stamped" /\ post[p].now \in Nat
    BY <1>4, IngestAssumption DEF InsertEnvelope, IInv, Stamped, Times
  <2>0. Latest /\ FirstBeforeLast
    BY <1>4 DEF InsertEnvelope, OrderInv
  <2>3. \A t \in runs : t.at <= post[p].now
    BY <1>4 DEF InsertEnvelope
  <2>4. \A t \in runs' : /\ t.at <= post[p].now /\ t.org \in OrgIds
                         /\ t.repo \in Repos /\ t.eps \subseteq Endpoints
    BY <1>2, <2>1, <2>2, <2>3 DEF Run
  <2>5. Latest'
    <3> SUFFICES ASSUME NEW t \in runs', NEW e \in t.eps
                 PROVE  t.at <= seen'[t.org][t.repo][e].last
      BY DEF Latest
    <3>1. CASE t.org = KeyOrg[post[p].key] /\ t.repo = Lower[post[p].name] /\ e \in post[p].eps
      <4>1. seen'[t.org][t.repo][e] = upsertEndpoint(seen[t.org][t.repo][e], post[p].now)
        BY <1>4, <2>4, <3>1, InsertRows
      <4> QED
        BY <2>4, <4>1 DEF upsertEndpoint
    <3>2. CASE ~(t.org = KeyOrg[post[p].key] /\ t.repo = Lower[post[p].name] /\ e \in post[p].eps)
      <4>1. seen'[t.org][t.repo][e] = seen[t.org][t.repo][e]
        BY <1>4, <2>4, <3>2, InsertRows
      <4>2. t # NewRun(p)
        BY <2>1, <3>2
      <4>3. t \in runs
        BY <2>1, <4>2
      <4> QED
        BY <2>0, <4>1, <4>3 DEF Latest
    <3> QED
      BY <3>1, <3>2
  <2>6. FirstBeforeLast'
    <3> SUFFICES ASSUME NEW o \in OrgIds, NEW r \in Repos, NEW e \in Endpoints
                 PROVE  seen'[o][r][e].first <= seen'[o][r][e].last
      BY DEF FirstBeforeLast
    <3>1. seen[o][r][e].first <= seen[o][r][e].last
      BY <2>0 DEF FirstBeforeLast
    <3>2. seen[o][r][e].last # Never => seen[o][r][e].last <= post[p].now
      BY <2>3 DEF IInv, Backed, Known
    <3>3. seen'[o][r][e] \in {seen[o][r][e], upsertEndpoint(seen[o][r][e], post[p].now)}
      BY <1>4, InsertRows
    <3>4. upsertEndpoint(seen[o][r][e], post[p].now).first
             <= upsertEndpoint(seen[o][r][e], post[p].now).last
      BY <1>1, <2>2, <3>1, <3>2 DEF upsertEndpoint
    <3> QED
      BY <3>1, <3>3, <3>4
  <2> QED
    BY <2>5, <2>6
<1>5. CASE ~PruneRunsBefore /\ \A p \in Posts : ~InsertEnvelope(p)
  BY <1>5, OtherSteps DEF OrderInv, Latest, FirstBeforeLast
<1> QED
  BY <1>3, <1>4, <1>5

LEMMA OrderInvariance == Spec => []OrderInv
<1>1. Init => OrderInv
  BY DEF Init, OrderInv, Latest, FirstBeforeLast, NoRow, Never
<1>2. IInv /\ OrderInv /\ [Next]_vars => OrderInv'
  BY OrderInvStep
<1> QED
  BY <1>1, <1>2, Invariance, PTL DEF Spec

LEMMA CoveredReads ==
    IInv /\ Covered => HistoryCovers
<1> SUFFICES ASSUME IInv, Covered, NEW viewer \in SUBSET OrgIds, NEW n \in Names,
                    NEW r \in RunsForRepo(viewer, n), NEW e \in r.eps
             PROVE  e \in EndpointsForRepo(viewer, n)
  BY DEF HistoryCovers
<1>1. r \in runs /\ r.org \in viewer /\ r.repo = Lower[n]
  BY DEF RunsForRepo
<1>2. r \in Run
  BY <1>1 DEF IInv, TypeOK
<1>3. e \in Endpoints
  BY <1>2 DEF Run
<1>4. Known(r.org, Lower[n], e)
  BY <1>1 DEF Covered
<1> QED
  BY <1>1, <1>3, <1>4 DEF EndpointsForRepo

\* CoversInOrder: as long as runs are stored in the order of their times retention
\* takes no row that a kept run needs, whatever else interleaves.
THEOREM CoveredInOrder == Spec => []CoversInOrder
<1>1. IInv /\ OrderInv => CoversInOrder
  BY LatestCovers, CoveredReads DEF IInv, OrderInv, CoversInOrder
<1> QED
  BY <1>1, Invariance, OrderInvariance, PTL DEF Spec

\* Where ToLower and EqualFold agree, another spelling has no record of its own.
LEMMA OneSpelling ==
    ASSUME FoldingAgrees, IInv, [Next]_vars, NEW r \in runs' \ runs
    PROVE  RecordedAs(r.org, r.repo) = Recorded(r.org, r.repo)
<1>1. ASSUME NEW t \in runs, Fold[t.repo] = Fold[r.repo]
      PROVE  t.repo = r.repo
  <2>1. PICK m \in Names : t.repo = Lower[m]
    BY DEF IInv, TypeOK
  <2>2. PICK n \in Names : r.repo = Lower[n]
    <3>1. PICK p \in Posts : InsertEnvelope(p) /\ r = NewRun(p)
      BY OnlyInsert
    <3>2. r.repo = Lower[post[p].name] /\ post[p].name \in Names
      BY <3>1, NewRunType DEF IInv, TypeOK, Post
    <3> QED
      BY <3>2
  <2>3. Lower[m] \in Names /\ Lower[n] \in Names
    BY IngestAssumption
  <2> QED
    BY <1>1, <2>1, <2>2, <2>3 DEF FoldingAgrees
<1> QED
  BY <1>1 DEF RecordedAs, Recorded

\* DriftExact: and the drift of the next run is exact, however the repository is
\* spelled, for names on which ToLower and EqualFold agree.
THEOREM ExactInOrder == FoldingAgrees /\ Spec => DriftExact
<1>1. CASE FoldingAgrees
  <2>1. IInv /\ OrderInv /\ [Next]_vars =>
          (inOrder => \A r \in runs' \ runs : r.new = r.eps \ RecordedAs(r.org, r.repo))
    BY <1>1, LatestCovers, ExactStep, OneSpelling DEF IInv, OrderInv
  <2> QED
    BY <2>1, Invariance, OrderInvariance, PTL DEF DriftExact, Spec
<1> QED
  BY <1>1

\* last_seen is the latest sighting and not before first_seen.
THEOREM LastSeenInOrder == Spec => []LastSeenIsLatest
<1>1. OrderInv => LastSeenIsLatest
  BY DEF OrderInv, Latest, FirstBeforeLast, LastSeenIsLatest
<1> QED
  BY <1>1, OrderInvariance, PTL

-----------------------------------------------------------------------------
(* Posts that come one at a time are stored in order.                      *)

\* The post in flight is dated after every stored run.
InOrder == \A t \in runs :
    /\ t.at <= clock
    /\ \A p \in Posts : post[p].at = "stamped" => t.at <= post[p].now
Dated  == \A p \in Posts : post[p].at = "stamped" => post[p].now <= clock

OneAtATime == \A p, q \in Posts : p = q

\* Steps of the goroutine and the clock keep the order of the dates.
LEMMA OrderStep ==
    ASSUME IInv, [Next]_vars, OneAtATime, InOrder, Dated
    PROVE  InOrder' /\ Dated'
<1>1. /\ clock \in Nat /\ \A t \in runs : t.at \in Nat
      /\ \A p \in Posts : post[p].now \in Nat
      /\ post \in [Posts -> Post]
  BY IngestAssumption DEF IInv, TypeOK, Run, Post, Times, Never
<1>2. CASE PruneRunsBefore
  BY <1>2 DEF PruneRunsBefore, InOrder, Dated
<1>3. ASSUME NEW p \in Posts, InsertEnvelope(p)
      PROVE  InOrder' /\ Dated'
  <2>1. runs' = runs \union {NewRun(p)} /\ NewRun(p).at = post[p].now
    BY <1>3, NewRunType DEF NewRun
  <2>2. post[p].at = "stamped" /\ clock' = clock /\ post'[p].at = "idle"
    BY <1>1, <1>3 DEF InsertEnvelope, Answer, Idle
  <2>3. \A q \in Posts : post'[q].at # "stamped"
    BY <2>2 DEF OneAtATime
  <2> QED
    BY <2>1, <2>2, <2>3 DEF InOrder, Dated
<1>4. ASSUME NEW p \in Posts, Stamp(p)
      PROVE  InOrder' /\ Dated'
  <2>1. post'[p].now = clock /\ clock' = clock /\ runs' = runs
    BY <1>1, <1>4 DEF Stamp
  <2>2. \A q \in Posts : post'[q].now = clock
    BY <2>1 DEF OneAtATime
  <2> QED
    BY <1>1, <2>1, <2>2 DEF InOrder, Dated
<1>5. ASSUME runs' = runs, clock' \in Nat, clock <= clock',
             \A q \in Posts : post'[q].at = "stamped" =>
                post[q].at = "stamped" /\ post'[q].now = post[q].now
      PROVE  InOrder' /\ Dated'
  <2>1. InOrder'
    BY <1>1, <1>5 DEF InOrder
  <2>2. Dated'
    BY <1>1, <1>5 DEF Dated
  <2> QED
    BY <2>1, <2>2
<1>6. CASE UNCHANGED vars
  BY <1>1, <1>5, <1>6 DEF vars
<1>7. CASE Tick
  BY <1>1, <1>5, <1>7 DEF Tick
<1>8. ASSUME NEW k \in Keys, Revoke(k) PROVE InOrder' /\ Dated'
  BY <1>1, <1>5, <1>8 DEF Revoke
<1>9. ASSUME NEW d \in Windows, Cutoff(d) PROVE InOrder' /\ Dated'
  BY <1>1, <1>5, <1>9 DEF Cutoff
<1>10. CASE Crash \/ PruneFails
  BY <1>1, <1>5, <1>10 DEF Crash, PruneFails, Idle
<1>11. ASSUME NEW p \in Posts, NEW k \in Keys, ingestCredential(p, k)
       PROVE  InOrder' /\ Dated'
  BY <1>1, <1>5, <1>11 DEF ingestCredential
<1>12. ASSUME NEW p \in Posts, NEW n \in Names, NEW eps \in SUBSET Endpoints, Accept(p, n, eps)
       PROVE  InOrder' /\ Dated'
  BY <1>1, <1>5, <1>12 DEF Accept
<1>13. ASSUME NEW p \in Posts, Reject(p) PROVE InOrder' /\ Dated'
  BY <1>1, <1>5, <1>13 DEF Reject, Answer, Idle
<1> QED
  BY <1>2, <1>3, <1>4, <1>6, <1>7, <1>8, <1>9, <1>10, <1>11, <1>12, <1>13
     DEF Next, handleIngest

\* One goroutine: every run is stored in order, so all of the above holds of it.
THEOREM InOrderOneAtATime == OneAtATime /\ Spec => []inOrder
<1> DEFINE SInv == inOrder = TRUE /\ InOrder /\ Dated
<1>1. Init => SInv
  BY DEF Init, InOrder, Dated, Idle
<1>2. CASE OneAtATime
  <2>1. ASSUME IInv, SInv, [Next]_vars PROVE SInv'
    <3>1. InOrder' /\ Dated'
      BY <1>2, <2>1, OrderStep
    <3>2. inOrder' = TRUE
      <4>1. CASE PruneRunsBefore
        BY <2>1, <4>1 DEF PruneRunsBefore
      <4>2. ASSUME NEW p \in Posts, InsertEnvelope(p) PROVE inOrder' = TRUE
        BY <2>1, <4>2 DEF InsertEnvelope, InOrder
      <4>3. CASE ~PruneRunsBefore /\ \A p \in Posts : ~InsertEnvelope(p)
        BY <2>1, <4>3, OtherSteps
      <4> QED
        BY <4>1, <4>2, <4>3
    <3> QED
      BY <3>1, <3>2
  <2>2. IInv /\ SInv /\ [Next]_vars => SInv'
    BY <2>1
  <2>3. SInv => inOrder
    OBVIOUS
  <2> HIDE DEF SInv
  <2> QED
    BY <1>1, <2>2, <2>3, Invariance, PTL DEF Spec
<1> QED
  BY <1>2
=============================================================================
