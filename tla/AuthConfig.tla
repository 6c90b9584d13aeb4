----------------------------- MODULE AuthConfig -----------------------------
(***************************************************************************)
(* SSO provider configuration.                                             *)
(*                                                                         *)
(* /admin/auth stores a provider's settings and rebuilds the live provider *)
(* from what is stored.  When that fails it writes the old settings back   *)
(* and rebuilds again.  Saves are serialized by authMu, so a save reads    *)
(* the settings in one step; store calls fail, an issuer does not answer,  *)
(* and the process dies between two steps.  The environment, set afresh at *)
(* every start, overrides what is stored.                                  *)
(***************************************************************************)
EXTENDS Naturals, FiniteSets

CONSTANTS
    Ids,           \* client ids, or issuers with theirs
    Blocked,       \* issuers validateIssuerURL refuses
    Dead,          \* issuers that never answer
    Secrets,       \* client secrets
    Scopes,        \* allowed GitHub organizations, allowed mail domains
    Env,           \* Env[p]: the configuration of p in the environment, when set
    Environments,  \* the sets of providers the environment may configure
    BaseURLSet,    \* whether EGRET_NEST_BASE_URL is set
    Saves,         \* goroutines that serve POST /admin/auth
    MaxStarts,     \* bound: how often the process starts
    MaxFaults      \* bound: how many store calls fail

Providers == {"github", "oidc"}
Blank     == ""
Rows      == [id : Ids \union {Blank}, secret : Secrets \union {Blank},
              scope : Scopes \union {Blank}]
Empty     == [id |-> Blank, secret |-> Blank, scope |-> Blank]

ASSUME AuthAssumption ==
    /\ Blank \notin Ids \union Secrets \union Scopes
    /\ Blocked \subseteq Ids /\ Dead \subseteq Ids
    /\ Env \in [Providers -> Rows]
    /\ \A p \in Providers : Env[p].id # Blank
    /\ Environments \subseteq SUBSET Providers
    /\ BaseURLSet \in BOOLEAN
    /\ MaxStarts \in Nat /\ MaxFaults \in Nat

VARIABLES
    stored,     \* stored[p]: the settings rows of provider p
    live,       \* live[p]: the pointer s.oauth or s.oidc; Empty is nil
    up,         \* the process is serving
    env,        \* the providers the environment of this process configures
    starts, faults,
    req,        \* req[q]: the local variables of a request goroutine
    confirmed,  \* history: confirmed[p], the rows of the last save that was confirmed
    unsure,     \* history: providers whose rows a crash or an ignored error has touched
    skewed      \* history: providers an ignored error has rebuilt from other rows

vars == <<stored, live, up, env, starts, faults, req, confirmed, unsure, skewed>>

-----------------------------------------------------------------------------

Steps   == {"idle", "write", "reload", "restore", "again"}
Request == [at : Steps, provider : Providers, form : Rows, prev : Rows, exact : BOOLEAN]
Idle    == [at |-> "idle", provider |-> "github", form |-> Empty, prev |-> Empty,
            exact |-> TRUE]

Answer(q)     == req' = [req EXCEPT ![q] = Idle]
Goto(q, step) == req' = [req EXCEPT ![q].at = step]

\* n store calls fail: bounded.
Faults(n) == faults + n <= MaxFaults /\ faults' = faults + n

\* authMu: a save that has begun holds it.
Free == \A q \in Saves : req[q].at = "idle"

\* The rows with those in lost read as unset.
Without(r, lost) == [id     |-> IF "id" \in lost THEN Blank ELSE r.id,
                     secret |-> IF "secret" \in lost THEN Blank ELSE r.secret,
                     scope  |-> IF "scope" \in lost THEN Blank ELSE r.scope]

\* newGithubOAuth, newOIDCProvider: nil unless id and secret are there.
Provider(r) == IF Blank \in {r.id, r.secret} THEN Empty ELSE r

\* A complete provider that cannot be built: discovery fails, or there is no base
\* URL for the redirect.
Unbuildable(p, r) ==
    Provider(r) # Empty /\ (~BaseURLSet \/ (p = "oidc" /\ r.id \in Dead))

\* Rows that do not load; only an issuer from the settings has to be public.
Refused(p, r) == Unbuildable(p, r) \/ (p = "oidc" /\ r.id \in Blocked)

\* The settings whose read errors effectiveAuthConfig drops.
Ignored == {<<"github", "scope">>, <<"oidc", "scope">>, <<"oidc", "id">>}
Fields(p, lost) == {f \in {"id", "scope"} : <<p, f>> \in lost}

\* What is read of the rows of p, and whether it loads; the issuer itself is read.
Seen(p, lost)  == Without(stored[p], Fields(p, lost))
Loads(p, lost) == /\ ~Unbuildable(p, Seen(p, lost))
                  /\ ~(p = "oidc" /\ stored[p].id \in Blocked)

Init ==
    /\ stored = [p \in Providers |-> Empty]
    /\ live = [p \in Providers |-> Empty]
    /\ up = FALSE /\ env = {} /\ starts = 0 /\ faults = 0
    /\ req = [q \in Saves |-> Idle]
    /\ confirmed = stored
    /\ unsure = {} /\ skewed = {}

-----------------------------------------------------------------------------
(* reloadGitHub, reloadOIDC.                                               *)

\* The provider is rebuilt from its rows and swapped in.
Rebuild(p) == \E lost \in SUBSET {x \in Ignored : x[1] = p} :
    /\ Faults(Cardinality(lost))
    /\ Loads(p, lost)
    /\ live' = [live EXCEPT ![p] = Provider(Seen(p, lost))]
    /\ skewed' = IF lost = {} THEN skewed \ {p} ELSE skewed \union {p}

\* Its rows are refused, or the issuer does not answer this time.
MayNotBuild(p) == Refused(p, stored[p]) \/ (p = "oidc" /\ stored[p].id # Blank)

RebuildFails_Swapped(p) ==                     \* a slip: the pointer is cleared first
    /\ Faults(1) \/ (Faults(0) /\ MayNotBuild(p))
    /\ live' = [live EXCEPT ![p] = Empty]

\* The settings cannot be read, or the provider cannot be built: the previous one
\* stays.
RebuildFails(p) ==
    /\ Faults(1) \/ (Faults(0) /\ MayNotBuild(p))
    /\ UNCHANGED live

-----------------------------------------------------------------------------
(* handleAuthConfigPost: saveProvider, and clearProvider with empty fields. *)

Forms == {Empty} \union {r \in Rows : r.id # Blank}

\* Under authMu: the provider is not the environment's, a secret left blank is
\* stored, and the old rows are kept.  An error in reading one counts as unset.
Snapshot(q, p, f) ==
    /\ req[q].at = "idle" /\ up /\ p \notin env
    /\ f = Empty \/ f.secret # Blank \/ stored[p].secret # Blank
    /\ \E lost \in SUBSET {"id", "secret", "scope"} :
          /\ Faults(Cardinality(lost))
          /\ req' = [req EXCEPT ![q] = [at |-> "write", provider |-> p, form |-> f,
                                        prev |-> Without(stored[p], lost),
                                        exact |-> lost = {}]]
    /\ UNCHANGED <<stored, live, up, env, starts, confirmed, unsure, skewed>>

Begin_Unlocked(q, p, f) == Snapshot(q, p, f)           \* a slip: no authMu
Begin(q, p, f) == Free /\ Snapshot(q, p, f)

\* The rows a form asks for: a blank secret keeps the old one.
Merged(old, f) ==
    IF f = Empty THEN Empty
    ELSE [id |-> f.id, scope |-> f.scope,
          secret |-> IF f.secret = Blank THEN old.secret ELSE f.secret]

\* WriteSettings, one transaction; when it fails the save is refused.
Write(q) ==
    LET p == req[q].provider
    IN /\ req[q].at = "write"
       /\ \/ /\ Faults(0)
             /\ stored' = [stored EXCEPT ![p] = Merged(@, req[q].form)]
             /\ Goto(q, "reload")
          \/ Faults(1) /\ Answer(q) /\ UNCHANGED stored
       /\ UNCHANGED <<live, up, env, starts, confirmed, unsure, skewed>>

\* The first rebuild; with it the save is confirmed.
Reload(q) ==
    LET p == req[q].provider
    IN /\ req[q].at = "reload"
       /\ \/ /\ Rebuild(p) /\ Answer(q)
             /\ confirmed' = [confirmed EXCEPT ![p] = stored[p]]
             /\ unsure' = IF p \in skewed' THEN unsure \union {p} ELSE unsure \ {p}
          \/ /\ RebuildFails(p) /\ Goto(q, "restore")
             /\ UNCHANGED <<confirmed, unsure, skewed>>
       /\ UNCHANGED <<stored, up, env, starts>>

Restore_LiveOnly(q) ==                         \* a slip: the rows are not written back
    /\ req[q].at = "restore"
    /\ Goto(q, "again") /\ Faults(0)
    /\ UNCHANGED <<stored, live, up, env, starts, confirmed, unsure, skewed>>

\* The old rows are written back; an error is ignored.
Restore(q) ==
    LET p == req[q].provider
    IN /\ req[q].at = "restore"
       /\ \/ /\ Faults(0)
             /\ stored' = [stored EXCEPT ![p] = req[q].prev]
             /\ Goto(q, "again")
             /\ unsure' = IF req[q].exact THEN unsure ELSE unsure \union {p}
          \/ /\ Faults(1) /\ UNCHANGED stored
             /\ req' = [req EXCEPT ![q].at = "again", ![q].exact = FALSE]
             /\ unsure' = unsure \union {p}
       /\ UNCHANGED <<live, up, env, starts, confirmed, skewed>>

\* The second rebuild; its error is ignored, and the save is refused either way.
ReloadAgain(q) ==
    LET p == req[q].provider
    IN /\ req[q].at = "again"
       /\ \/ Rebuild(p)
          \/ /\ RebuildFails(p)
             /\ skewed' = IF req[q].exact THEN skewed ELSE skewed \union {p}
       /\ Answer(q)
       /\ UNCHANGED <<stored, up, env, starts, confirmed, unsure>>

-----------------------------------------------------------------------------
(* The process.                                                            *)

\* New rebuilds both providers; when one cannot be rebuilt it gives up.
Start == \E e \in Environments, lost \in SUBSET Ignored :
    /\ ~up /\ starts < MaxStarts
    /\ \A x \in lost : x[1] \notin e
    /\ Faults(Cardinality(lost))
    /\ \A p \in Providers : IF p \in e THEN ~Unbuildable(p, Env[p]) ELSE Loads(p, lost)
    /\ up' = TRUE /\ starts' = starts + 1 /\ env' = e
    /\ live' = [p \in Providers |-> Provider(IF p \in e THEN Env[p] ELSE Seen(p, lost))]
    /\ skewed' = {x[1] : x \in lost}
    /\ UNCHANGED <<stored, req, confirmed, unsure>>

Crash ==
    /\ up /\ up' = FALSE
    /\ live' = [p \in Providers |-> Empty]
    /\ req' = [q \in Saves |-> Idle]
    /\ unsure' = unsure \union
         {req[q].provider : q \in {r \in Saves : req[r].at \in {"reload", "restore"}}}
    /\ skewed' = {}
    /\ UNCHANGED <<stored, env, starts, faults, confirmed>>

handleAuthConfigPost(q) ==
    \/ \E p \in Providers, f \in Forms : Begin(q, p, f)
    \/ Write(q) \/ Reload(q) \/ Restore(q) \/ ReloadAgain(q)

Next == Start \/ Crash \/ \E q \in Saves : handleAuthConfigPost(q)

Spec == Init /\ [][Next]_vars

-----------------------------------------------------------------------------
(* Properties.                                                             *)

\* Types; a provider that is live is complete and was not refused.
TypeOK ==
    /\ stored \in [Providers -> Rows] /\ confirmed \in [Providers -> Rows]
    /\ live \in [Providers -> Rows]
    /\ \A p \in Providers :
          live[p] = Provider(live[p]) /\ (p \notin env => ~Refused(p, live[p]))
    /\ up \in BOOLEAN /\ env \subseteq Providers
    /\ starts \in 0..MaxStarts /\ faults \in 0..MaxFaults
    /\ req \in [Saves -> Request]
    /\ unsure \subseteq Providers /\ skewed \subseteq Providers

\* "so the live provider and the DB stay consistent" (server/admin_auth.go:179): when
\* no save is under way the live provider is the one its rows, or the environment,
\* describe, whatever was refused, rolled back or cut off by a crash; only an error
\* the code ignores (a restore that fails, a scope or an OIDC client id that cannot be
\* read) skews them.
LiveIsStored ==
    up /\ Free => \A p \in Providers \ skewed :
        live[p] = Provider(IF p \in env THEN Env[p] ELSE stored[p])

\* A save is stored in full when it was confirmed and leaves no trace when it was
\* refused, concurrent saves of the same provider included, unless the process died
\* in the middle of it or an error was ignored.
LastSaveStands ==
    Free => \A p \in Providers \ unsure : stored[p] = confirmed[p]

\* The instance can be started again: New finds no rows it would give up on, except
\* those a crash or an ignored error left behind.
StartsAgain ==
    Free => \A p \in Providers \ unsure : ~Refused(p, stored[p])

\* The rows of p as they stand: those a save that is not confirmed would write back.
Unconfirmed(p) == {q \in Saves : req[q].provider = p /\ req[q].at \in {"reload", "restore"}}
Standing(p) ==
    IF Unconfirmed(p) = {} THEN stored[p] ELSE req[CHOOSE q \in Unconfirmed(p) : TRUE].prev

\* saveProvider "atomically writes", and "rolls the stored config back"
\* (server/admin_auth.go:176-178): seen through the rows as they stand a save is one
\* step, of the rows and of the live provider, or none.
Atomic == INSTANCE ProviderSave WITH
    rows <- [p \in Providers |-> Standing(p)], inForce <- live, running <- up, fixed <- env,
    NoRows <- Empty, Loaded <- [r \in Rows |-> Provider(r)],
    Loadable <- {x \in Providers \X Rows : ~Refused(x[1], x[2])}
SavesAtomic == Atomic!Spec
=============================================================================
