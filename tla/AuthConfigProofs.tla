-------------------------- MODULE AuthConfigProofs --------------------------
(***************************************************************************)
(* What is live is what is stored, and what is stored is what was          *)
(* confirmed, for any number of saves, settings, crashes and failing calls *)
(* but for the errors the code ignores.  Logins at the providers change    *)
(* none of it, and are judged by what was confirmed.                       *)
(***************************************************************************)
EXTENDS SSO, FiniteSetTheorems, TLAPS

Expected(p) == Provider(IF p \in env THEN Env[p] ELSE stored[p])

\* A save under way is the only one, and its provider is not the environment's.
Alone(q) ==
    req[q].at # "idle" => /\ up /\ req[q].provider \notin env
                          /\ \A r \in Saves : req[r].at # "idle" => r = q

\* The rows of p are not in the hands of a save.
Settled(p) == \A q \in Saves :
    req[q].provider = p => req[q].at \in {"idle", "write"} \/ (req[q].at = "again" /\ req[q].exact)

\* What a save knows of the rows it will write back, and of what is live meanwhile.
Knows(q) ==
    /\ req[q].at = "write" /\ req[q].exact => req[q].prev = stored[req[q].provider]
    /\ req[q].at \in {"reload", "restore"} /\ req[q].exact =>
         /\ req[q].provider \notin unsure => req[q].prev = confirmed[req[q].provider]
         /\ req[q].provider \notin skewed => live[req[q].provider] = Provider(req[q].prev)
    /\ req[q].at = "again" /\ ~req[q].exact => req[q].provider \in unsure

Consistent(p) ==
    /\ Settled(p) /\ p \notin unsure => stored[p] = confirmed[p]
    /\ Settled(p) /\ p \notin skewed /\ up => live[p] = Expected(p)
    /\ p \notin unsure => ~Refused(p, confirmed[p])

IInv == /\ TypeOK
        /\ \A q \in Saves : Alone(q) /\ Knows(q)
        /\ \A p \in Providers : Consistent(p)

-----------------------------------------------------------------------------
(* Rows.                                                                   *)

LEMMA EmptyRows ==
    /\ Empty \in Rows /\ Empty.id = Blank /\ Empty.secret = Blank
    /\ Provider(Empty) = Empty
    /\ \A p \in Providers : ~Refused(p, Empty)
BY AuthAssumption DEF Empty, Rows, Provider, Refused, Unbuildable

LEMMA ProviderType ==
    ASSUME NEW r \in Rows
    PROVE  /\ Provider(r) \in Rows /\ Provider(Provider(r)) = Provider(r)
           /\ \A p \in Providers : ~Refused(p, r) => ~Refused(p, Provider(r))
<1>1. Provider(r) = Empty \/ Provider(r) = r
  BY DEF Provider
<1> QED
  BY <1>1, EmptyRows

LEMMA WithoutType ==
    ASSUME NEW r \in Rows, NEW lost
    PROVE  Without(r, lost) \in Rows /\ (lost = {} => Without(r, lost) = r)
BY DEF Without, Rows

\* A provider that loads is not refused, whatever could not be read.
LEMMA SeenType ==
    ASSUME TypeOK, NEW p \in Providers, NEW lost, Loads(p, lost)
    PROVE  /\ Provider(Seen(p, lost)) \in Rows
           /\ Provider(Provider(Seen(p, lost))) = Provider(Seen(p, lost))
           /\ ~Refused(p, Provider(Seen(p, lost)))
<1>1. stored[p] \in Rows
  BY DEF TypeOK
<1>2. Seen(p, lost) \in Rows
  BY <1>1, WithoutType DEF Seen
<1>3. Seen(p, lost).id \in {Blank, stored[p].id}
  BY DEF Seen, Without
<1>4. ~Unbuildable(p, Seen(p, lost)) /\ (p = "oidc" => stored[p].id \notin Blocked)
  BY DEF Loads
<1>5. ~Refused(p, Seen(p, lost))
  BY <1>3, <1>4, AuthAssumption DEF Refused
<1> QED
  BY <1>2, <1>5, ProviderType

LEMMA ReadsInFull ==
    ASSUME TypeOK, NEW p \in Providers, NEW lost, \A x \in lost : x[1] # p
    PROVE  Seen(p, lost) = stored[p] /\ (Loads(p, lost) => ~Refused(p, stored[p]))
<1>1. Fields(p, lost) = {}
  BY DEF Fields
<1>2. Seen(p, lost) = stored[p]
  BY <1>1, WithoutType DEF Seen, TypeOK
<1> QED
  BY <1>2 DEF Loads, Refused

LEMMA IgnoredFinite ==
    ASSUME NEW lost \in SUBSET Ignored
    PROVE  IsFiniteSet(lost) /\ Cardinality(lost) \in Nat
<1>1. /\ IsFiniteSet({<<"github", "scope">>}) /\ IsFiniteSet({<<"oidc", "scope">>})
      /\ IsFiniteSet({<<"oidc", "id">>})
  BY FS_Singleton
<1>2. IsFiniteSet({<<"github", "scope">>} \union {<<"oidc", "scope">>})
  BY <1>1, FS_Union
<1>3. IsFiniteSet(({<<"github", "scope">>} \union {<<"oidc", "scope">>}) \union {<<"oidc", "id">>})
  BY <1>1, <1>2, FS_Union
<1>4. lost \subseteq ({<<"github", "scope">>} \union {<<"oidc", "scope">>}) \union {<<"oidc", "id">>}
  BY DEF Ignored
<1> QED
  BY <1>3, <1>4, FS_Subset, FS_CardinalityType

LEMMA FieldsFinite ==
    ASSUME NEW lost \in SUBSET {"id", "secret", "scope"}
    PROVE  IsFiniteSet(lost) /\ Cardinality(lost) \in Nat
<1>1. IsFiniteSet({"id"}) /\ IsFiniteSet({"secret"}) /\ IsFiniteSet({"scope"})
  BY FS_Singleton
<1>2. IsFiniteSet({"id"} \union {"secret"})
  BY <1>1, FS_Union
<1>3. IsFiniteSet(({"id"} \union {"secret"}) \union {"scope"})
  BY <1>1, <1>2, FS_Union
<1>4. lost \subseteq ({"id"} \union {"secret"}) \union {"scope"}
  OBVIOUS
<1> QED
  BY <1>3, <1>4, FS_Subset, FS_CardinalityType

LEMMA MergedType ==
    ASSUME NEW r \in Rows, NEW f \in Rows
    PROVE  Merged(r, f) \in Rows
BY EmptyRows DEF Merged, Rows

LEMMA FormType == Forms \subseteq Rows
BY EmptyRows DEF Forms

-----------------------------------------------------------------------------
(* Steps of a request goroutine.                                           *)

LEMMA FaultsType ==
    ASSUME TypeOK, NEW n \in Nat, Faults(n)
    PROVE  faults' \in 0..MaxFaults
BY AuthAssumption DEF TypeOK, Faults

LEMMA IdleType == Idle \in Request /\ Idle.at = "idle"
BY EmptyRows DEF Idle, Request, Steps, Providers

LEMMA AnswerType ==
    ASSUME TypeOK, NEW q \in Saves, Answer(q)
    PROVE  /\ req' \in [Saves -> Request] /\ req'[q].at = "idle"
           /\ \A r \in Saves : r # q => req'[r] = req[r]
BY IdleType DEF TypeOK, Answer

LEMMA GotoType ==
    ASSUME TypeOK, NEW q \in Saves, NEW s \in Steps, Goto(q, s)
    PROVE  /\ req' \in [Saves -> Request] /\ req'[q].at = s
           /\ req'[q].provider = req[q].provider /\ req'[q].prev = req[q].prev
           /\ req'[q].exact = req[q].exact
           /\ \A r \in Saves : r # q => req'[r] = req[r]
BY DEF TypeOK, Goto, Request

LEMMA RebuildEffect ==
    ASSUME TypeOK, NEW p \in Providers, Rebuild(p)
    PROVE  /\ faults' \in 0..MaxFaults
           /\ live' \in [Providers -> Rows] /\ skewed' \subseteq Providers
           /\ \A r \in Providers : r # p => live'[r] = live[r] /\ (r \in skewed' <=> r \in skewed)
           /\ live'[p] = Provider(live'[p]) /\ ~Refused(p, live'[p])
           /\ p \notin skewed' => live'[p] = Provider(stored[p]) /\ ~Refused(p, stored[p])
<1>1. PICK lost \in SUBSET Ignored :
        /\ Faults(Cardinality(lost)) /\ Loads(p, lost)
        /\ live' = [live EXCEPT ![p] = Provider(Seen(p, lost))]
        /\ skewed' = IF lost = {} THEN skewed \ {p} ELSE skewed \union {p}
  BY DEF Rebuild
<1>2. faults' \in 0..MaxFaults
  BY <1>1, IgnoredFinite, FaultsType
<1>3. live' \in [Providers -> Rows] /\ live'[p] = Provider(Seen(p, lost))
  BY <1>1, SeenType DEF TypeOK
<1>4. live'[p] = Provider(live'[p]) /\ ~Refused(p, live'[p])
  BY <1>1, <1>3, SeenType
<1>5. \A r \in Providers : r # p => live'[r] = live[r] /\ (r \in skewed' <=> r \in skewed)
  BY <1>1 DEF TypeOK
<1>6. skewed' \subseteq Providers /\ (p \notin skewed' => lost = {})
  BY <1>1 DEF TypeOK
<1>7. lost = {} => Seen(p, lost) = stored[p] /\ ~Refused(p, stored[p])
  BY <1>1, ReadsInFull
<1> QED
  BY <1>2, <1>3, <1>4, <1>5, <1>6, <1>7

LEMMA RebuildFailsEffect ==
    ASSUME TypeOK, NEW p \in Providers, RebuildFails(p)
    PROVE  faults' \in 0..MaxFaults /\ live' = live
BY FaultsType DEF RebuildFails

\* The providers no save has in its hands stay as they were.
LEMMA Aside ==
    ASSUME IInv, NEW q \in Saves, NEW p \in Providers, req[q].at # "idle",
           p # req[q].provider,
           \A r \in Saves : r # q => req'[r] = req[r],
           req'[q].at # "idle" => req'[q].provider = req[q].provider,
           stored'[p] = stored[p], confirmed'[p] = confirmed[p], live'[p] = live[p],
           p \in unsure' <=> p \in unsure, p \in skewed' <=> p \in skewed,
           up' = up, env' = env
    PROVE  Consistent(p)'
<1>1. Alone(q) /\ Consistent(p)
  BY DEF IInv
<1>2. \A r \in Saves : r # q => req[r].at = "idle"
  BY <1>1 DEF Alone
<1>3. Settled(p)
  BY <1>2 DEF Settled
<1>4. Expected(p)' = Expected(p)
  BY DEF Expected
<1> QED
  BY <1>1, <1>3, <1>4 DEF Consistent

\* Requests but q are at rest, before and after a step of q.
LEMMA OthersRest ==
    ASSUME IInv, NEW q \in Saves, req[q].at # "idle",
           \A r \in Saves : r # q => req'[r] = req[r]
    PROVE  /\ up /\ req[q].provider \notin env
           /\ \A r \in Saves : r # q => req[r].at = "idle" /\ req'[r].at = "idle"
BY DEF IInv, Alone

-----------------------------------------------------------------------------
(* One lemma per action: the part of IInv that speaks of saves and rows.   *)

Sound == /\ \A q \in Saves : Alone(q) /\ Knows(q)
         /\ \A p \in Providers : Consistent(p)

LEMMA BeginStep ==
    ASSUME IInv, NEW q \in Saves, NEW p \in Providers, NEW f \in Forms, Begin(q, p, f)
    PROVE  TypeOK' /\ Sound'
<1>1. PICK lost \in SUBSET {"id", "secret", "scope"} :
        /\ Faults(Cardinality(lost))
        /\ req' = [req EXCEPT ![q] = [at |-> "write", provider |-> p, form |-> f,
                      prev |-> Without(stored[p], lost), exact |-> lost = {}]]
  BY DEF Begin, Snapshot
<1>2. /\ Free /\ up /\ p \notin env
      /\ UNCHANGED <<stored, live, up, env, starts, confirmed, unsure, skewed>>
  BY DEF Begin, Snapshot
<1>3. Cardinality(lost) \in Nat
  BY FieldsFinite
<1>4. stored[p] \in Rows /\ f \in Rows
  BY FormType DEF IInv, TypeOK
<1>5. Without(stored[p], lost) \in Rows /\ (lost = {} => Without(stored[p], lost) = stored[p])
  BY <1>4, WithoutType
<1>6. faults' \in 0..MaxFaults
  BY <1>1, <1>3, FaultsType DEF IInv
<1>7. req' \in [Saves -> Request]
  BY <1>1, <1>4, <1>5 DEF IInv, TypeOK, Request, Steps
<1>8. /\ req'[q].at = "write" /\ req'[q].provider = p
      /\ req'[q].exact => req'[q].prev = stored[p]
      /\ \A r \in Saves : r # q => req'[r] = req[r]
  BY <1>1, <1>5 DEF IInv, TypeOK
<1>9. \A r \in Saves : r # q => req'[r].at = "idle"
  BY <1>2, <1>8 DEF Free
<1>10. TypeOK'
  BY <1>2, <1>6, <1>7 DEF IInv, TypeOK
<1>11. \A r \in Saves : Alone(r)' /\ Knows(r)'
  BY <1>2, <1>8, <1>9 DEF Alone, Knows
<1>12. ASSUME NEW x \in Providers
       PROVE  Consistent(x)'
  <2>1. Settled(x)
    BY <1>2 DEF Free, Settled
  <2>2. Expected(x)' = Expected(x)
    BY <1>2 DEF Expected
  <2> QED
    BY <1>2, <2>1, <2>2 DEF IInv, Consistent
<1> QED
  BY <1>10, <1>11, <1>12 DEF Sound

LEMMA WriteStep ==
    ASSUME IInv, NEW q \in Saves, Write(q)
    PROVE  TypeOK' /\ Sound'
<1>0. PICK p \in Providers : p = req[q].provider
  BY DEF IInv, TypeOK, Request
<1>1. /\ req[q].at = "write" /\ req[q].form \in Rows
      /\ stored[p] \in Rows
      /\ UNCHANGED <<live, up, env, starts, confirmed, unsure, skewed>>
  BY <1>0 DEF Write, IInv, TypeOK, Request
<1>2. Knows(q) /\ Consistent(p) /\ \A r \in Saves : Alone(r)
  BY <1>1 DEF IInv
<1>3. /\ up /\ p \notin env /\ \A r \in Saves : r # q => req[r].at = "idle"
  BY <1>0, <1>1, <1>2 DEF Alone
<1>4. Settled(p)
  BY <1>0, <1>1, <1>3 DEF Settled
<1>5. CASE /\ Faults(0)
           /\ stored' = [stored EXCEPT ![p] = Merged(@, req[q].form)]
           /\ Goto(q, "reload")
  <2>1. /\ req' \in [Saves -> Request] /\ req'[q].at = "reload"
        /\ req'[q].provider = p /\ req'[q].prev = req[q].prev
        /\ req'[q].exact = req[q].exact
        /\ \A r \in Saves : r # q => req'[r] = req[r]
    BY <1>0, <1>5, GotoType DEF IInv, Steps
  <2>2. Merged(stored[p], req[q].form) \in Rows
    BY <1>1, MergedType
  <2>3. stored' \in [Providers -> Rows] /\ \A x \in Providers : x # p => stored'[x] = stored[x]
    BY <1>5, <2>2 DEF IInv, TypeOK
  <2>4. faults' \in 0..MaxFaults
    BY <1>5, FaultsType DEF IInv
  <2>5. TypeOK'
    BY <1>1, <2>1, <2>3, <2>4 DEF IInv, TypeOK
  <2>6. Alone(q)' /\ \A r \in Saves : r # q => Alone(r)' /\ Knows(r)'
    BY <1>0, <1>1, <1>3, <2>1 DEF Alone, Knows
  <2>7. Knows(q)'
    BY <1>0, <1>1, <1>2, <1>3, <1>4, <2>1 DEF Knows, Consistent, Expected
  <2>8. ~Settled(p)'
    BY <2>1 DEF Settled
  <2>9. Consistent(p)'
    BY <1>1, <1>2, <2>8 DEF Consistent
  <2>10. \A x \in Providers : x # p => Consistent(x)'
    BY <1>0, <1>1, <2>1, <2>3, Aside
  <2> QED
    BY <2>5, <2>6, <2>7, <2>9, <2>10 DEF Sound
<1>6. CASE Faults(1) /\ Answer(q) /\ UNCHANGED stored
  <2>1. /\ req' \in [Saves -> Request] /\ req'[q].at = "idle"
        /\ \A r \in Saves : r # q => req'[r] = req[r]
    BY <1>6, AnswerType DEF IInv
  <2>2. faults' \in 0..MaxFaults
    BY <1>6, FaultsType DEF IInv
  <2>3. TypeOK'
    BY <1>1, <1>6, <2>1, <2>2 DEF IInv, TypeOK
  <2>4. \A r \in Saves : Alone(r)' /\ Knows(r)'
    BY <1>3, <2>1 DEF Alone, Knows
  <2>5. Expected(p)' = Expected(p)
    BY <1>1, <1>6 DEF Expected
  <2>6. Consistent(p)'
    BY <1>1, <1>2, <1>4, <1>6, <2>5 DEF Consistent
  <2>7. \A x \in Providers : x # p => Consistent(x)'
    BY <1>0, <1>1, <1>6, <2>1, Aside
  <2> QED
    BY <2>3, <2>4, <2>6, <2>7 DEF Sound
<1> QED
  BY <1>0, <1>5, <1>6 DEF Write

\* A save ends, or goes on, once the provider has been rebuilt.
LEMMA RebuiltType ==
    ASSUME IInv, NEW q \in Saves, NEW p \in Providers, p = req[q].provider,
           Rebuild(p), Answer(q), UNCHANGED <<stored, up, env, starts>>,
           confirmed' \in [Providers -> Rows], unsure' \subseteq Providers
    PROVE  TypeOK'
<1>1. /\ faults' \in 0..MaxFaults
      /\ live' \in [Providers -> Rows] /\ skewed' \subseteq Providers
      /\ live'[p] = Provider(live'[p]) /\ ~Refused(p, live'[p])
      /\ \A r \in Providers : r # p => live'[r] = live[r]
  BY RebuildEffect DEF IInv
<1>2. req' \in [Saves -> Request]
  BY AnswerType DEF IInv
<1>3. \A r \in Providers :
        live'[r] = Provider(live'[r]) /\ (r \notin env' => ~Refused(r, live'[r]))
  BY <1>1 DEF IInv, TypeOK
<1> QED
  BY <1>1, <1>2, <1>3 DEF IInv, TypeOK

LEMMA ReloadStep ==
    ASSUME IInv, NEW q \in Saves, Reload(q)
    PROVE  TypeOK' /\ Sound'
<1>0. PICK p \in Providers : p = req[q].provider
  BY DEF IInv, TypeOK, Request
<1>1. req[q].at = "reload" /\ stored[p] \in Rows /\ UNCHANGED <<stored, up, env, starts>>
  BY DEF Reload, IInv, TypeOK
<1>2. Knows(q) /\ Alone(q) /\ Consistent(p)
  BY DEF IInv
<1>3. /\ up /\ p \notin env /\ \A r \in Saves : r # q => req[r].at = "idle"
  BY <1>0, <1>1, <1>2 DEF Alone
<1>4. CASE /\ Rebuild(p) /\ Answer(q)
           /\ confirmed' = [confirmed EXCEPT ![p] = stored[p]]
           /\ unsure' = IF p \in skewed' THEN unsure \union {p} ELSE unsure \ {p}
  <2>1. /\ req'[q].at = "idle" /\ \A r \in Saves : r # q => req'[r] = req[r]
    BY <1>4, AnswerType DEF IInv
  <2>2. /\ \A r \in Providers : r # p => live'[r] = live[r] /\ (r \in skewed' <=> r \in skewed)
        /\ p \notin skewed' => live'[p] = Provider(stored[p]) /\ ~Refused(p, stored[p])
    BY <1>4, RebuildEffect DEF IInv
  <2>3. /\ confirmed' \in [Providers -> Rows] /\ confirmed'[p] = stored[p]
        /\ \A r \in Providers : r # p => confirmed'[r] = confirmed[r]
        /\ unsure' \subseteq Providers /\ (p \notin unsure' => p \notin skewed')
        /\ \A r \in Providers : r # p => (r \in unsure' <=> r \in unsure)
    BY <1>1, <1>4 DEF IInv, TypeOK
  <2>4. TypeOK'
    BY <1>0, <1>1, <1>4, <2>3, RebuiltType
  <2>5. \A r \in Saves : Alone(r)' /\ Knows(r)'
    BY <1>3, <2>1 DEF Alone, Knows
  <2>6. Expected(p)' = Provider(stored[p])
    BY <1>1, <1>3 DEF Expected
  <2>7. Consistent(p)'
    BY <1>1, <2>2, <2>3, <2>6 DEF Consistent
  <2>8. \A x \in Providers : x # p => Consistent(x)'
    BY <1>0, <1>1, <2>1, <2>2, <2>3, Aside
  <2> QED
    BY <2>4, <2>5, <2>7, <2>8 DEF Sound
<1>5. CASE RebuildFails(p) /\ Goto(q, "restore") /\ UNCHANGED <<confirmed, unsure, skewed>>
  <2>1. /\ req' \in [Saves -> Request] /\ req'[q].at = "restore"
        /\ req'[q].provider = p /\ req'[q].prev = req[q].prev
        /\ req'[q].exact = req[q].exact
        /\ \A r \in Saves : r # q => req'[r] = req[r]
    BY <1>0, <1>5, GotoType DEF IInv, Steps
  <2>2. faults' \in 0..MaxFaults /\ live' = live
    BY <1>5, RebuildFailsEffect DEF IInv
  <2>3. TypeOK'
    BY <1>1, <1>5, <2>1, <2>2 DEF IInv, TypeOK
  <2>4. \A r \in Saves : Alone(r)'
    BY <1>1, <1>3, <2>1 DEF Alone
  <2>5. Knows(q)' /\ \A r \in Saves : r # q => Knows(r)'
    BY <1>0, <1>1, <1>2, <1>3, <1>5, <2>1, <2>2 DEF Knows
  <2>6. ~Settled(p)'
    BY <2>1 DEF Settled
  <2>7. Consistent(p)'
    BY <1>1, <1>2, <1>5, <2>6 DEF Consistent
  <2>8. \A x \in Providers : x # p => Consistent(x)'
    BY <1>0, <1>1, <1>5, <2>1, <2>2, Aside
  <2> QED
    BY <2>3, <2>4, <2>5, <2>7, <2>8 DEF Sound
<1> QED
  BY <1>0, <1>4, <1>5 DEF Reload

LEMMA RestoreStep ==
    ASSUME IInv, NEW q \in Saves, Restore(q)
    PROVE  TypeOK' /\ Sound'
<1>0. PICK p \in Providers : p = req[q].provider
  BY DEF IInv, TypeOK, Request
<1>1. /\ req[q].at = "restore" /\ req[q].prev \in Rows
      /\ UNCHANGED <<live, up, env, starts, confirmed, skewed>>
  BY DEF Restore, IInv, TypeOK, Request
<1>2. Knows(q) /\ Alone(q) /\ Consistent(p)
  BY DEF IInv
<1>3. /\ up /\ p \notin env /\ \A r \in Saves : r # q => req[r].at = "idle"
  BY <1>0, <1>1, <1>2 DEF Alone
<1>4. CASE /\ Faults(0)
           /\ stored' = [stored EXCEPT ![p] = req[q].prev]
           /\ Goto(q, "again")
           /\ unsure' = IF req[q].exact THEN unsure ELSE unsure \union {p}
  <2>1. /\ req' \in [Saves -> Request] /\ req'[q].at = "again"
        /\ req'[q].provider = p /\ req'[q].exact = req[q].exact
        /\ \A r \in Saves : r # q => req'[r] = req[r]
    BY <1>0, <1>4, GotoType DEF IInv, Steps
  <2>2. /\ stored' \in [Providers -> Rows] /\ stored'[p] = req[q].prev
        /\ \A x \in Providers : x # p => stored'[x] = stored[x]
        /\ unsure' \subseteq Providers /\ unsure \subseteq unsure'
        /\ \A x \in Providers : x # p => (x \in unsure' <=> x \in unsure)
    BY <1>1, <1>4 DEF IInv, TypeOK
  <2>3. faults' \in 0..MaxFaults
    BY <1>4, FaultsType DEF IInv
  <2>4. TypeOK'
    BY <1>1, <2>1, <2>2, <2>3 DEF IInv, TypeOK
  <2>5. \A r \in Saves : Alone(r)'
    BY <1>1, <1>3, <2>1 DEF Alone
  <2>6. Knows(q)' /\ \A r \in Saves : r # q => Knows(r)'
    BY <1>3, <1>4, <2>1 DEF Knows
  <2>7. ASSUME req[q].exact PROVE Consistent(p)'
    <3>1. unsure' = unsure
      BY <1>4, <2>7
    <3>2. p \notin unsure' => stored'[p] = confirmed'[p]
      BY <1>0, <1>1, <1>2, <2>2, <2>7, <3>1 DEF Knows
    <3>3. p \notin skewed' => live'[p] = Provider(stored'[p])
      BY <1>0, <1>1, <1>2, <2>2, <2>7 DEF Knows
    <3>4. Expected(p)' = Provider(stored'[p])
      BY <1>1, <1>3 DEF Expected
    <3> QED
      BY <1>1, <1>2, <3>1, <3>2, <3>3, <3>4 DEF Consistent
  <2>8. ASSUME ~req[q].exact PROVE Consistent(p)'
    <3>1. ~Settled(p)'
      BY <2>1, <2>8 DEF Settled
    <3> QED
      BY <1>1, <1>2, <2>2, <3>1 DEF Consistent
  <2>9. \A x \in Providers : x # p => Consistent(x)'
    BY <1>0, <1>1, <2>1, <2>2, Aside
  <2> QED
    BY <2>4, <2>5, <2>6, <2>7, <2>8, <2>9 DEF Sound
<1>5. CASE /\ Faults(1) /\ UNCHANGED stored
           /\ req' = [req EXCEPT ![q].at = "again", ![q].exact = FALSE]
           /\ unsure' = unsure \union {p}
  <2>1. /\ req' \in [Saves -> Request] /\ req'[q].at = "again"
        /\ req'[q].provider = p /\ ~req'[q].exact
        /\ \A r \in Saves : r # q => req'[r] = req[r]
    BY <1>0, <1>5 DEF IInv, TypeOK, Request, Steps
  <2>2. /\ unsure' \subseteq Providers /\ p \in unsure' /\ unsure \subseteq unsure'
        /\ \A x \in Providers : x # p => (x \in unsure' <=> x \in unsure)
    BY <1>5 DEF IInv, TypeOK
  <2>3. faults' \in 0..MaxFaults
    BY <1>5, FaultsType DEF IInv
  <2>4. TypeOK'
    BY <1>1, <1>5, <2>1, <2>2, <2>3 DEF IInv, TypeOK
  <2>5. \A r \in Saves : Alone(r)'
    BY <1>1, <1>3, <2>1 DEF Alone
  <2>6. Knows(q)' /\ \A r \in Saves : r # q => Knows(r)'
    BY <1>3, <2>1, <2>2 DEF Knows
  <2>7. ~Settled(p)'
    BY <2>1 DEF Settled
  <2>8. Consistent(p)'
    BY <1>1, <1>2, <2>2, <2>7 DEF Consistent
  <2>9. \A x \in Providers : x # p => Consistent(x)'
    BY <1>0, <1>1, <1>5, <2>1, <2>2, Aside
  <2> QED
    BY <2>4, <2>5, <2>6, <2>8, <2>9 DEF Sound
<1> QED
  BY <1>0, <1>4, <1>5 DEF Restore

LEMMA ReloadAgainStep ==
    ASSUME IInv, NEW q \in Saves, ReloadAgain(q)
    PROVE  TypeOK' /\ Sound'
<1>0. PICK p \in Providers : p = req[q].provider
  BY DEF IInv, TypeOK, Request
<1>1. /\ req[q].at = "again" /\ Answer(q) /\ stored[p] \in Rows
      /\ UNCHANGED <<stored, up, env, starts, confirmed, unsure>>
  BY DEF ReloadAgain, IInv, TypeOK
<1>2. Knows(q) /\ Alone(q) /\ Consistent(p)
  BY <1>1 DEF IInv
<1>3. /\ up /\ p \notin env /\ \A r \in Saves : r # q => req[r].at = "idle"
  BY <1>0, <1>1, <1>2 DEF Alone
<1>4. /\ req' \in [Saves -> Request] /\ req'[q].at = "idle"
      /\ \A r \in Saves : r # q => req'[r] = req[r]
  BY <1>1, AnswerType DEF IInv
<1>5. \A r \in Saves : Alone(r)' /\ Knows(r)'
  BY <1>3, <1>4 DEF Alone, Knows
<1>6. req[q].exact => Settled(p)
  BY <1>0, <1>1, <1>3 DEF Settled
<1>7. p \notin unsure => stored[p] = confirmed[p]
  BY <1>0, <1>1, <1>2, <1>6 DEF Knows, Consistent
<1>8. Expected(p)' = Provider(stored[p]) /\ Expected(p) = Provider(stored[p])
  BY <1>1, <1>3 DEF Expected
<1>9. CASE Rebuild(p)
  <2>1. /\ \A r \in Providers : r # p => live'[r] = live[r] /\ (r \in skewed' <=> r \in skewed)
        /\ p \notin skewed' => live'[p] = Provider(stored[p])
    BY <1>9, RebuildEffect DEF IInv
  <2>2. TypeOK'
    BY <1>0, <1>1, <1>9, RebuiltType DEF IInv, TypeOK
  <2>3. Consistent(p)'
    BY <1>1, <1>2, <1>7, <1>8, <2>1 DEF Consistent
  <2>4. \A x \in Providers : x # p => Consistent(x)'
    BY <1>0, <1>1, <1>4, <2>1, Aside
  <2> QED
    BY <1>5, <2>2, <2>3, <2>4 DEF Sound
<1>10. CASE RebuildFails(p) /\ skewed' = IF req[q].exact THEN skewed ELSE skewed \union {p}
  <2>1. faults' \in 0..MaxFaults /\ live' = live
    BY <1>10, RebuildFailsEffect DEF IInv
  <2>2. /\ skewed' \subseteq Providers /\ skewed \subseteq skewed'
        /\ \A r \in Providers : r # p => (r \in skewed' <=> r \in skewed)
        /\ ~req[q].exact => p \in skewed'
    BY <1>10 DEF IInv, TypeOK
  <2>3. TypeOK'
    BY <1>1, <1>4, <2>1, <2>2 DEF IInv, TypeOK
  <2>4. p \notin skewed' => live'[p] = Provider(stored[p])
    BY <1>2, <1>3, <1>6, <1>8, <2>1, <2>2 DEF Consistent
  <2>5. Consistent(p)'
    BY <1>1, <1>2, <1>7, <1>8, <2>4 DEF Consistent
  <2>6. \A x \in Providers : x # p => Consistent(x)'
    BY <1>0, <1>1, <1>4, <2>1, <2>2, Aside
  <2> QED
    BY <1>5, <2>3, <2>5, <2>6 DEF Sound
<1> QED
  BY <1>0, <1>9, <1>10 DEF ReloadAgain

LEMMA StartStep ==
    ASSUME IInv, Start
    PROVE  TypeOK' /\ Sound'
<1>1. PICK e \in Environments, lost \in SUBSET Ignored :
        /\ ~up /\ starts < MaxStarts /\ Faults(Cardinality(lost))
        /\ \A p \in Providers : IF p \in e THEN ~Unbuildable(p, Env[p]) ELSE Loads(p, lost)
        /\ up' = TRUE /\ starts' = starts + 1 /\ env' = e
        /\ live' = [p \in Providers |-> Provider(IF p \in e THEN Env[p] ELSE Seen(p, lost))]
        /\ skewed' = {x[1] : x \in lost}
        /\ UNCHANGED <<stored, req, confirmed, unsure>>
  BY DEF Start
<1>2. faults' \in 0..MaxFaults
  BY <1>1, IgnoredFinite, FaultsType DEF IInv
<1>3. starts' \in 0..MaxStarts /\ env' \subseteq Providers
  BY <1>1, AuthAssumption DEF IInv, TypeOK
<1>4. skewed' \subseteq Providers
  BY <1>1 DEF Ignored, Providers
<1>5. ASSUME NEW p \in Providers
      PROVE  /\ live'[p] \in Rows /\ live'[p] = Provider(live'[p])
             /\ p \notin e => ~Refused(p, live'[p])
             /\ p \notin skewed' => live'[p] = Expected(p)'
  <2>1. ASSUME p \in e
        PROVE  /\ live'[p] \in Rows /\ live'[p] = Provider(live'[p])
               /\ live'[p] = Expected(p)'
    <3>1. live'[p] = Provider(Env[p])
      BY <1>1, <2>1
    <3>2. Env[p] \in Rows
      BY AuthAssumption
    <3>3. live'[p] \in Rows /\ live'[p] = Provider(live'[p])
      BY <3>1, <3>2, ProviderType
    <3>4. Expected(p)' = Provider(Env[p])
      BY <1>1, <2>1 DEF Expected
    <3> QED
      BY <3>1, <3>3, <3>4
  <2>2. ASSUME p \notin e
        PROVE  /\ live'[p] \in Rows /\ live'[p] = Provider(live'[p])
               /\ ~Refused(p, live'[p])
               /\ p \notin skewed' => live'[p] = Expected(p)'
    <3>1. Loads(p, lost) /\ live'[p] = Provider(Seen(p, lost))
      BY <1>1, <2>2
    <3>2. live'[p] \in Rows /\ live'[p] = Provider(live'[p]) /\ ~Refused(p, live'[p])
      BY <3>1, SeenType DEF IInv
    <3>3. p \notin skewed' => \A x \in lost : x[1] # p
      BY <1>1
    <3>4. p \notin skewed' => Seen(p, lost) = stored[p]
      BY <3>3, ReadsInFull DEF IInv
    <3>5. Expected(p)' = Provider(stored[p])
      BY <1>1, <2>2 DEF Expected
    <3> QED
      BY <3>1, <3>2, <3>4, <3>5
  <2> QED
    BY <2>1, <2>2
<1>6. live' \in [Providers -> Rows]
  <2>1. live' = [p \in Providers |-> live'[p]]
    BY <1>1
  <2> QED
    BY <1>5, <2>1
<1>7. TypeOK'
  BY <1>1, <1>2, <1>3, <1>4, <1>5, <1>6 DEF IInv, TypeOK
<1>8. \A q \in Saves : req[q].at = "idle"
  BY <1>1 DEF IInv, Alone
<1>9. \A q \in Saves : Alone(q)' /\ Knows(q)'
  BY <1>1, <1>8 DEF Alone, Knows
<1>10. ASSUME NEW p \in Providers
       PROVE  Consistent(p)'
  <2>1. Settled(p)
    BY <1>8 DEF Settled
  <2> QED
    BY <1>1, <1>5, <2>1 DEF IInv, Consistent
<1> QED
  BY <1>7, <1>9, <1>10 DEF Sound

LEMMA CrashStep ==
    ASSUME IInv, Crash
    PROVE  TypeOK' /\ Sound'
<1>1. /\ up' = FALSE /\ live' = [p \in Providers |-> Empty]
      /\ req' = [q \in Saves |-> Idle] /\ skewed' = {}
      /\ UNCHANGED <<stored, env, starts, faults, confirmed>>
  BY DEF Crash
<1>2. /\ unsure' \subseteq Providers /\ unsure \subseteq unsure'
      /\ \A q \in Saves : req[q].at \in {"reload", "restore"} => req[q].provider \in unsure'
  BY DEF Crash, IInv, TypeOK, Request
<1>3. req' \in [Saves -> Request] /\ \A q \in Saves : req'[q].at = "idle"
  BY <1>1, IdleType
<1>4. TypeOK'
  BY <1>1, <1>2, <1>3, EmptyRows DEF IInv, TypeOK
<1>5. \A q \in Saves : Alone(q)' /\ Knows(q)'
  BY <1>3 DEF Alone, Knows
<1>6. ASSUME NEW p \in Providers, p \notin unsure'
      PROVE  stored[p] = confirmed[p]
  <2>1. ASSUME NEW q \in Saves, req[q].provider = p
        PROVE  req[q].at \in {"idle", "write"} \/ (req[q].at = "again" /\ req[q].exact)
    BY <1>2, <1>6, <2>1 DEF IInv, Knows, TypeOK, Request, Steps
  <2>2. Settled(p)
    BY <2>1 DEF Settled
  <2> QED
    BY <1>2, <1>6, <2>2 DEF IInv, Consistent
<1>7. \A p \in Providers : Consistent(p)'
  BY <1>1, <1>2, <1>6 DEF IInv, Consistent
<1> QED
  BY <1>4, <1>5, <1>7 DEF Sound

-----------------------------------------------------------------------------
(* The invariant.                                                          *)

LEMMA InitInv == Init => IInv
<1> SUFFICES ASSUME Init PROVE IInv
  OBVIOUS
<1>1. TypeOK
  <2>1. starts \in 0..MaxStarts /\ faults \in 0..MaxFaults
    BY AuthAssumption DEF Init
  <2>2. req \in [Saves -> Request]
    BY IdleType DEF Init
  <2>3. /\ stored \in [Providers -> Rows] /\ live \in [Providers -> Rows]
        /\ \A p \in Providers :
              live[p] = Provider(live[p]) /\ (p \notin env => ~Refused(p, live[p]))
    BY EmptyRows DEF Init
  <2> QED
    BY <2>1, <2>2, <2>3 DEF Init, TypeOK
<1>2. \A q \in Saves : Alone(q) /\ Knows(q)
  BY IdleType DEF Init, Alone, Knows
<1>3. \A p \in Providers : Consistent(p)
  BY EmptyRows DEF Init, Consistent
<1> QED
  BY <1>1, <1>2, <1>3 DEF IInv

LEMMA StepInv == IInv /\ [Next]_vars => IInv'
<1> SUFFICES ASSUME IInv, [Next]_vars PROVE IInv'
  OBVIOUS
<1>1. CASE Start
  BY <1>1, StartStep DEF IInv, Sound
<1>2. CASE Crash
  BY <1>2, CrashStep DEF IInv, Sound
<1>3. ASSUME NEW q \in Saves, NEW p \in Providers, NEW f \in Forms, Begin(q, p, f)
      PROVE  IInv'
  BY <1>3, BeginStep DEF IInv, Sound
<1>4. ASSUME NEW q \in Saves, Write(q) \/ Reload(q) \/ Restore(q) \/ ReloadAgain(q)
      PROVE  IInv'
  BY <1>4, WriteStep, ReloadStep, RestoreStep, ReloadAgainStep DEF IInv, Sound
<1>5. CASE UNCHANGED vars
  BY <1>5 DEF vars, IInv, TypeOK, Alone, Knows, Consistent, Settled, Expected
<1> QED
  BY <1>1, <1>2, <1>3, <1>4, <1>5 DEF Next, handleAuthConfigPost

LEMMA Invariance == Spec => []IInv
BY InitInv, StepInv, PTL DEF Spec

LEMMA AtRest == IInv => LiveIsStored /\ LastSaveStands /\ StartsAgain
<1> SUFFICES ASSUME IInv PROVE LiveIsStored /\ LastSaveStands /\ StartsAgain
  OBVIOUS
<1>1. \A p \in Providers : Free => Settled(p)
  BY DEF Free, Settled
<1>2. LiveIsStored
  BY <1>1 DEF IInv, Consistent, Expected, LiveIsStored
<1>3. LastSaveStands
  BY <1>1 DEF IInv, Consistent, LastSaveStands
<1>4. StartsAgain
  BY <1>3 DEF IInv, Consistent, LastSaveStands, StartsAgain
<1> QED
  BY <1>2, <1>3, <1>4

-----------------------------------------------------------------------------
(* Theorems.                                                               *)

\* Types, and no incomplete or refused provider is ever live.
THEOREM TypeCorrect == Spec => []TypeOK
<1>1. IInv => TypeOK
  BY DEF IInv
<1> QED
  BY <1>1, Invariance, PTL

\* When no save is under way the live providers are the ones that are stored.
THEOREM LiveStaysStored == Spec => []LiveIsStored
BY AtRest, Invariance, PTL

\* A confirmed save is stored, and a refused one leaves nothing behind.
THEOREM SavesStand == Spec => []LastSaveStands
BY AtRest, Invariance, PTL

\* No save leaves rows with which New would give up.
THEOREM AlwaysStartsAgain == Spec => []StartsAgain
BY AtRest, Invariance, PTL

-----------------------------------------------------------------------------
(* A save is atomic while no store call fails.                             *)

Reliable == MaxFaults = 0

\* Nothing was misread.
Clean == skewed = {} /\ \A q \in Saves : req[q].exact

LEMMA NoFault ==
    ASSUME Reliable, TypeOK, NEW n \in Nat, Faults(n)
    PROVE  n = 0
<1>1. faults \in 0..0 /\ faults + n <= 0
  BY DEF Reliable, TypeOK, Faults
<1> QED
  BY <1>1

LEMMA NothingLost ==
    ASSUME Reliable, TypeOK, NEW lost, IsFiniteSet(lost), Faults(Cardinality(lost))
    PROVE  lost = {}
<1>1. Cardinality(lost) \in Nat
  BY FS_CardinalityType
<1>2. Cardinality(lost) = 0
  BY <1>1, NoFault
<1> QED
  BY <1>2, FS_EmptySet

LEMMA CleanRebuild ==
    ASSUME Reliable, TypeOK, Clean, NEW p \in Providers, Rebuild(p)
    PROVE  /\ live' = [live EXCEPT ![p] = Provider(stored[p])]
           /\ skewed' = {} /\ ~Refused(p, stored[p])
<1>1. PICK lost \in SUBSET Ignored :
        /\ Faults(Cardinality(lost)) /\ Loads(p, lost)
        /\ live' = [live EXCEPT ![p] = Provider(Seen(p, lost))]
        /\ skewed' = IF lost = {} THEN skewed \ {p} ELSE skewed \union {p}
  BY DEF Rebuild
<1>2. lost = {}
  BY <1>1, IgnoredFinite, NothingLost
<1>3. Seen(p, lost) = stored[p] /\ ~Refused(p, stored[p])
  BY <1>1, <1>2, ReadsInFull
<1> QED
  BY <1>1, <1>2, <1>3 DEF Clean

\* The rows as they stand, for requests rq and rows st.
StandsAt(p, rq, st) ==
    LET U == {q \in Saves : rq[q].provider = p /\ rq[q].at \in {"reload", "restore"}}
    IN  IF U = {} THEN st[p] ELSE rq[CHOOSE q \in U : TRUE].prev

LEMMA StandsAtRest ==
    ASSUME NEW rq, NEW st, NEW p, \A q \in Saves : rq[q].at \notin {"reload", "restore"}
    PROVE  StandsAt(p, rq, st) = st[p]
BY DEF StandsAt

LEMMA StandsUnderway ==
    ASSUME NEW rq, NEW st, NEW p, NEW q \in Saves, rq[q].at \in {"reload", "restore"},
           \A r \in Saves : r # q => rq[r].at = "idle"
    PROVE  StandsAt(p, rq, st) = IF p = rq[q].provider THEN rq[q].prev ELSE st[p]
<1> DEFINE U == {r \in Saves : rq[r].provider = p /\ rq[r].at \in {"reload", "restore"}}
<1>1. U = IF p = rq[q].provider THEN {q} ELSE {}
  OBVIOUS
<1>2. (CHOOSE r \in {q} : TRUE) = q
  OBVIOUS
<1> QED
  BY <1>1, <1>2 DEF StandsAt

\* The settings as AuthConfig and ProviderSave see them.
Settings == [p \in Providers |-> Standing(p)]

LEMMA StandingIs ==
    /\ Settings = [p \in Providers |-> StandsAt(p, req, stored)]
    /\ Settings' = [p \in Providers |-> StandsAt(p, req', stored')]
BY DEF Settings, Standing, Unconfirmed, StandsAt

LEMMA Underway ==
    ASSUME IInv, NEW q \in Saves, req[q].at \in {"reload", "restore"}
    PROVE  \A x : StandsAt(x, req, stored)
                   = IF x = req[q].provider THEN req[q].prev ELSE stored[x]
<1>1. \A r \in Saves : r # q => req[r].at = "idle"
  BY DEF IInv, Alone
<1>2. PICK rq : rq = req
  OBVIOUS
<1>3. PICK st : st = stored
  OBVIOUS
<1>4. rq[q].at \in {"reload", "restore"} /\ \A r \in Saves : r # q => rq[r].at = "idle"
  BY <1>1, <1>2
<1>5. \A x : StandsAt(x, rq, st) = IF x = rq[q].provider THEN rq[q].prev ELSE st[x]
  BY <1>4, StandsUnderway
<1> QED
  BY <1>2, <1>3, <1>5

Same == UNCHANGED <<Settings, live, up, env>>

LEMMA BeginAtomic ==
    ASSUME Reliable, IInv, Clean, NEW q \in Saves, NEW p \in Providers, NEW f \in Forms,
           Begin(q, p, f)
    PROVE  Same /\ Clean'
<1>1. PICK lost \in SUBSET {"id", "secret", "scope"} :
        /\ Faults(Cardinality(lost))
        /\ req' = [req EXCEPT ![q] = [at |-> "write", provider |-> p, form |-> f,
                      prev |-> Without(stored[p], lost), exact |-> lost = {}]]
  BY DEF Begin, Snapshot
<1>2. Free /\ UNCHANGED <<stored, live, up, env, skewed>>
  BY DEF Begin, Snapshot
<1>3. lost = {}
  BY <1>1, FieldsFinite, NothingLost DEF IInv
<1>4. \A r \in Saves : /\ req[r].at \notin {"reload", "restore"}
                       /\ req'[r].at \notin {"reload", "restore"}
                       /\ req'[r].exact
  BY <1>1, <1>2, <1>3 DEF Free, Clean, IInv, TypeOK
<1>5. Settings' = Settings
  BY <1>2, <1>4, StandsAtRest, StandingIs
<1> QED
  BY <1>2, <1>4, <1>5 DEF Same, Clean

LEMMA WriteAtomic ==
    ASSUME Reliable, IInv, Clean, NEW q \in Saves, Write(q)
    PROVE  Same /\ Clean'
<1>0. PICK p \in Providers : p = req[q].provider
  BY DEF IInv, TypeOK, Request
<1>1. ~Faults(1)
  BY NoFault DEF IInv
<1>2. /\ req[q].at = "write" /\ Goto(q, "reload")
      /\ stored' = [stored EXCEPT ![p] = Merged(@, req[q].form)]
      /\ UNCHANGED <<live, up, env, skewed>>
  BY <1>0, <1>1 DEF Write
<1>3. /\ req'[q].at = "reload" /\ req'[q].provider = p /\ req'[q].prev = req[q].prev
      /\ req'[q].exact = req[q].exact /\ \A r \in Saves : r # q => req'[r] = req[r]
  BY <1>0, <1>2, GotoType DEF IInv, Steps
<1>4. \A r \in Saves : r # q => req[r].at = "idle" /\ req'[r].at = "idle"
  BY <1>2, <1>3, OthersRest
<1>5. req[q].prev = stored[p]
  BY <1>0, <1>2 DEF IInv, Knows, Clean
<1>6. \A x \in Providers : StandsAt(x, req, stored) = stored[x]
  BY <1>2, <1>4, StandsAtRest
<1>7. \A x \in Providers : StandsAt(x, req', stored') = stored[x]
  <2>1. \A x \in Providers :
           StandsAt(x, req', stored') = IF x = p THEN req[q].prev ELSE stored'[x]
    BY <1>3, <1>4, StandsUnderway
  <2>2. \A x \in Providers : x # p => stored'[x] = stored[x]
    BY <1>2 DEF IInv, TypeOK
  <2> QED
    BY <1>5, <2>1, <2>2
<1>8. Settings' = Settings
  BY <1>6, <1>7, StandingIs
<1> QED
  BY <1>2, <1>3, <1>8 DEF Same, Clean

LEMMA ReloadAtomic ==
    ASSUME Reliable, IInv, Clean, NEW q \in Saves, Reload(q)
    PROVE  (Same \/ \E p \in Providers, r \in Rows : Atomic!Save(p, r)) /\ Clean'
<1>0. PICK p \in Providers : p = req[q].provider
  BY DEF IInv, TypeOK, Request
<1>1. req[q].at = "reload" /\ UNCHANGED <<stored, up, env>>
  BY DEF Reload
<1>2. up /\ p \notin env /\ \A r \in Saves : r # q => req[r].at = "idle"
  BY <1>0, <1>1 DEF IInv, Alone
<1>3. \A x \in Providers :
         StandsAt(x, req, stored) = IF x = p THEN req[q].prev ELSE stored[x]
  BY <1>0, <1>1, Underway
<1>4. CASE Rebuild(p) /\ Answer(q)
  <2>1. /\ req'[q].at = "idle" /\ \A r \in Saves : r # q => req'[r] = req[r]
        /\ req'[q] = Idle
    BY <1>4, AnswerType DEF IInv, TypeOK, Answer
  <2>2. \A x \in Providers : StandsAt(x, req', stored') = stored[x]
    BY <1>1, <1>2, <2>1, StandsAtRest
  <2>3. /\ live' = [live EXCEPT ![p] = Provider(stored[p])]
        /\ skewed' = {} /\ ~Refused(p, stored[p])
    BY <1>4, CleanRebuild DEF IInv
  <2>4. stored[p] \in Rows
    BY DEF IInv, TypeOK
  <2>5. Settings' = [Settings EXCEPT ![p] = stored[p]]
    BY <1>3, <2>2, StandingIs
  <2>6. Atomic!Save(p, stored[p])
    BY <1>1, <1>2, <2>3, <2>4, <2>5 DEF Atomic!Save, Settings
  <2>7. Clean'
    BY <2>1, <2>3 DEF Clean, Idle
  <2> QED
    BY <2>4, <2>6, <2>7
<1>5. CASE RebuildFails(p) /\ Goto(q, "restore") /\ UNCHANGED skewed
  <2>1. /\ req'[q].at = "restore" /\ req'[q].provider = p /\ req'[q].prev = req[q].prev
        /\ req'[q].exact = req[q].exact /\ \A r \in Saves : r # q => req'[r] = req[r]
    BY <1>0, <1>5, GotoType DEF IInv, Steps
  <2>2. \A r \in Saves : r # q => req'[r].at = "idle"
    BY <1>2, <2>1
  <2>3. \A x \in Providers :
           StandsAt(x, req', stored') = IF x = p THEN req[q].prev ELSE stored[x]
    BY <1>1, <2>1, <2>2, StandsUnderway
  <2>4. Settings' = Settings
    BY <1>3, <2>3, StandingIs
  <2>5. live' = live
    BY <1>5 DEF RebuildFails
  <2> QED
    BY <1>1, <1>5, <2>1, <2>4, <2>5 DEF Same, Clean
<1> QED
  BY <1>0, <1>4, <1>5 DEF Reload

LEMMA RestoreAtomic ==
    ASSUME Reliable, IInv, Clean, NEW q \in Saves, Restore(q)
    PROVE  Same /\ Clean'
<1>0. PICK p \in Providers : p = req[q].provider
  BY DEF IInv, TypeOK, Request
<1>1. ~Faults(1)
  BY NoFault DEF IInv
<1>2. /\ req[q].at = "restore" /\ Goto(q, "again")
      /\ stored' = [stored EXCEPT ![p] = req[q].prev]
      /\ UNCHANGED <<live, up, env, skewed>>
  BY <1>0, <1>1 DEF Restore
<1>3. /\ req'[q].at = "again" /\ req'[q].exact = req[q].exact
      /\ \A r \in Saves : r # q => req'[r] = req[r]
  BY <1>2, GotoType DEF IInv, Steps
<1>4. \A r \in Saves : r # q => req[r].at = "idle" /\ req'[r].at = "idle"
  BY <1>2, <1>3, OthersRest
<1>5. \A x \in Providers :
         StandsAt(x, req, stored) = IF x = p THEN req[q].prev ELSE stored[x]
  BY <1>0, <1>2, Underway
<1>6. \A x \in Providers : StandsAt(x, req', stored') = stored'[x]
  BY <1>3, <1>4, StandsAtRest
<1>7. \A x \in Providers : stored'[x] = IF x = p THEN req[q].prev ELSE stored[x]
  BY <1>2 DEF IInv, TypeOK
<1>8. Settings' = Settings
  BY <1>5, <1>6, <1>7, StandingIs
<1> QED
  BY <1>2, <1>3, <1>8 DEF Same, Clean

LEMMA ReloadAgainAtomic ==
    ASSUME Reliable, IInv, Clean, NEW q \in Saves, ReloadAgain(q)
    PROVE  Same /\ Clean'
<1>0. PICK p \in Providers : p = req[q].provider
  BY DEF IInv, TypeOK, Request
<1>1. req[q].at = "again" /\ Answer(q) /\ UNCHANGED <<stored, up, env>>
  BY DEF ReloadAgain
<1>2. up /\ p \notin env /\ \A r \in Saves : r # q => req[r].at = "idle"
  BY <1>0, <1>1 DEF IInv, Alone
<1>3. req'[q] = Idle /\ req'[q].at = "idle" /\ \A r \in Saves : r # q => req'[r] = req[r]
  BY <1>1, AnswerType DEF IInv, TypeOK, Answer
<1>4. Settings' = Settings
  <2>1. \A x \in Providers : StandsAt(x, req, stored) = stored[x]
    BY <1>1, <1>2, StandsAtRest
  <2>2. \A x \in Providers : StandsAt(x, req', stored') = stored[x]
    BY <1>1, <1>2, <1>3, StandsAtRest
  <2> QED
    BY <2>1, <2>2, StandingIs
<1>5. live[p] = Provider(stored[p])
  <2>1. Settled(p)
    BY <1>1, <1>2 DEF Settled, Clean
  <2> QED
    BY <1>2, <2>1 DEF IInv, Consistent, Expected, Clean
<1>6. live' = live /\ skewed' = {}
  <2>1. CASE Rebuild(p)
    BY <1>5, <2>1, CleanRebuild DEF IInv, TypeOK
  <2>2. CASE RebuildFails(p) /\ skewed' = IF req[q].exact THEN skewed ELSE skewed \union {p}
    BY <2>2 DEF RebuildFails, Clean
  <2> QED
    BY <1>0, <2>1, <2>2 DEF ReloadAgain
<1> QED
  BY <1>1, <1>3, <1>4, <1>6 DEF Same, Clean, Idle

LEMMA StartAtomic ==
    ASSUME Reliable, IInv, Clean, Start
    PROVE  Atomic!Start /\ Clean'
<1>1. PICK e \in Environments, lost \in SUBSET Ignored :
        /\ ~up /\ starts < MaxStarts /\ Faults(Cardinality(lost))
        /\ \A p \in Providers : IF p \in e THEN ~Unbuildable(p, Env[p]) ELSE Loads(p, lost)
        /\ up' = TRUE /\ starts' = starts + 1 /\ env' = e
        /\ live' = [p \in Providers |-> Provider(IF p \in e THEN Env[p] ELSE Seen(p, lost))]
        /\ skewed' = {x[1] : x \in lost}
        /\ UNCHANGED <<stored, req, confirmed, unsure>>
  BY DEF Start
<1>2. lost = {}
  BY <1>1, IgnoredFinite, NothingLost DEF IInv
<1>3. \A q \in Saves : req[q].at = "idle"
  BY <1>1 DEF IInv, Alone
<1>4. Settings' = Settings /\ \A p \in Providers : Settings[p] = stored[p]
  <2>1. \A p \in Providers : StandsAt(p, req, stored) = stored[p]
    BY <1>3, StandsAtRest
  <2> QED
    BY <1>1, <2>1, StandingIs
<1>5. ASSUME NEW p \in Providers, p \notin e
      PROVE  ~Refused(p, stored[p]) /\ live'[p] = Provider(stored[p]) /\ stored[p] \in Rows
  <2>1. Seen(p, lost) = stored[p] /\ ~Refused(p, stored[p])
    BY <1>1, <1>2, <1>5, ReadsInFull DEF IInv
  <2> QED
    BY <1>1, <1>5, <2>1 DEF IInv, TypeOK
<1>6. e \subseteq Providers
  BY AuthAssumption
<1>7. Atomic!Start
  BY <1>1, <1>4, <1>5, <1>6 DEF Atomic!Start, Settings
<1>8. Clean'
  BY <1>1, <1>2 DEF Clean
<1> QED
  BY <1>7, <1>8

LEMMA CrashAtomic ==
    ASSUME IInv, Clean, Crash
    PROVE  Atomic!Stop /\ Clean'
<1>1. /\ up /\ up' = FALSE /\ live' = [p \in Providers |-> Empty] /\ skewed' = {}
      /\ req' = [q \in Saves |-> Idle] /\ UNCHANGED <<stored, env>>
  BY DEF Crash
<1>2. \A x \in Providers : StandsAt(x, req', stored') = stored[x]
  BY <1>1, StandsAtRest DEF Idle
<1>3. \/ Settings' = Settings
      \/ \E p \in Providers \ env, r \in Rows : Settings' = [Settings EXCEPT ![p] = r]
  <2>1. CASE \A q \in Saves : req[q].at \notin {"reload", "restore"}
    <3>1. \A x \in Providers : StandsAt(x, req, stored) = stored[x]
      BY <2>1, StandsAtRest
    <3> QED
      BY <1>2, <3>1, StandingIs
  <2>2. ASSUME NEW q \in Saves, req[q].at \in {"reload", "restore"}
        PROVE  \E p \in Providers \ env, r \in Rows : Settings' = [Settings EXCEPT ![p] = r]
    <3>1. PICK p \in Providers : p = req[q].provider
      BY DEF IInv, TypeOK, Request
    <3>2. p \notin env /\ \A r \in Saves : r # q => req[r].at = "idle"
      BY <2>2, <3>1 DEF IInv, Alone
    <3>3. \A x \in Providers :
             StandsAt(x, req, stored) = IF x = p THEN req[q].prev ELSE stored[x]
      BY <2>2, <3>1, Underway
    <3>4. Settings' = [Settings EXCEPT ![p] = stored[p]] /\ stored[p] \in Rows
      BY <1>2, <3>3, StandingIs DEF IInv, TypeOK
    <3> QED
      BY <3>2, <3>4
  <2> QED
    BY <2>1, <2>2
<1>4. Atomic!Stop
  BY <1>1, <1>3 DEF Atomic!Stop, Settings
<1>5. Clean'
  BY <1>1 DEF Clean, Idle
<1> QED
  BY <1>4, <1>5

LEMMA AtomicStep ==
    Reliable /\ IInv /\ Clean /\ [Next]_vars
      => Clean' /\ [Atomic!Next]_<<Settings, live, up, env>>
<1> SUFFICES ASSUME Reliable, IInv, Clean, [Next]_vars
             PROVE  Clean' /\ (Atomic!Next \/ Same)
  BY DEF Same
<1>1. CASE Start
  BY <1>1, StartAtomic DEF Atomic!Next
<1>2. CASE Crash
  BY <1>2, CrashAtomic DEF Atomic!Next
<1>3. ASSUME NEW q \in Saves, NEW p \in Providers, NEW f \in Forms, Begin(q, p, f)
      PROVE  Clean' /\ Same
  BY <1>3, BeginAtomic
<1>4. ASSUME NEW q \in Saves, Write(q) \/ Restore(q) \/ ReloadAgain(q)
      PROVE  Clean' /\ Same
  BY <1>4, WriteAtomic, RestoreAtomic, ReloadAgainAtomic
<1>5. ASSUME NEW q \in Saves, Reload(q)
      PROVE  Clean' /\ (Atomic!Next \/ Same)
  BY <1>5, ReloadAtomic DEF Atomic!Next
<1>6. CASE UNCHANGED vars
  BY <1>6 DEF vars, Clean, Same, Settings, Standing, Unconfirmed
<1> QED
  BY <1>1, <1>2, <1>3, <1>4, <1>5, <1>6 DEF Next, handleAuthConfigPost

\* As long as no store call fails, a save of provider settings is one step of the rows
\* and the live provider together or none, whatever the issuers do, and only the death
\* of the process may leave rows that were not confirmed.
THEOREM SavesAreAtomic == Reliable /\ Spec => SavesAtomic
<1>1. CASE Reliable
  <2>1. Init => Clean
    BY DEF Init, Clean, Idle
  <2>2. Init => Atomic!Init
    <3> SUFFICES ASSUME Init PROVE Atomic!Init
      OBVIOUS
    <3>1. \A p \in Providers : StandsAt(p, req, stored) = Empty
      BY StandsAtRest DEF Init, Idle
    <3>2. Settings = [p \in Providers |-> Empty]
      BY <3>1, StandingIs
    <3> QED
      BY <3>2 DEF Init, Atomic!Init, Settings
  <2>3. IInv /\ Clean /\ [Next]_vars => Clean' /\ [Atomic!Next]_<<Settings, live, up, env>>
    BY <1>1, AtomicStep
  <2> QED
    BY <2>1, <2>2, <2>3, Invariance, PTL DEF Spec, SavesAtomic, Atomic!Spec, Settings
<1> QED
  BY <1>1

-----------------------------------------------------------------------------
(* Logins.  A step of theirs is no step of the configuration.              *)

LEMMA ConfigStep == [SSONext]_allVars => [Next]_vars
<1> SUFFICES ASSUME SSONext, ~UNCHANGED vars PROVE Next
  BY DEF allVars
<1>1. Server
  BY DEF SSONext, BeginLogin, Leaves, Callback, Arrive, Exchange, Verify, StartSession
<1> QED
  BY <1>1 DEF Server, Next

\* What a callback knows: the login is one of the browser it answers, and who was
\* barred when it began is not on the list of the provider it has loaded.
LoginInv ==
    /\ SSOTypeOK
    /\ \A b \in Browsers, p \in Providers : cookie[b][p] # 0 =>
          logins[cookie[b][p]].by = b /\ logins[cookie[b][p]].provider = p
    /\ \A c \in Callbacks : call[c].at # "idle" =>
          /\ call[c].browser = Person(c)
          /\ call[c].barred => call[c].od.scope # Blank /\ ~OnList(c)
    /\ \A c \in Callbacks : call[c].barred =>
          call[c].at \in {"idle", "exchange"} \/ (call[c].at = "verify" /\ Kind(c) = "github")

LEMMA NoCallType == NoCall \in Call /\ NoCall.at = "idle" /\ ~NoCall.barred
BY SSOAssumption, EmptyRows DEF NoCall, Call, AnyBrowser

LEMMA LoginTyped ==
    ASSUME LoginInv, NEW n \in DOMAIN logins
    PROVE  /\ n \in 1..Len(logins) /\ n \in 0..MaxLogins
           /\ logins[n] \in Login
           /\ logins[n].by \in Browsers /\ logins[n].provider \in Providers
<1>1. logins \in Seq(Login) /\ Len(logins) <= MaxLogins
  BY DEF LoginInv, SSOTypeOK
<1>2. n \in 1..Len(logins) /\ logins[n] \in Login /\ Len(logins) \in Nat
  BY <1>1
<1>3. n \in 0..MaxLogins
  BY <1>1, <1>2, SSOAssumption
<1> QED
  BY <1>2, <1>3 DEF Login

LEMMA CallTyped ==
    ASSUME LoginInv, NEW c \in Callbacks
    PROVE  /\ call[c] \in Call /\ DOMAIN call = Callbacks
           /\ call[c].at # "idle" => /\ call[c].login \in DOMAIN logins
                                    /\ Kind(c) \in Providers /\ Person(c) \in Browsers
<1>1. call[c] \in Call /\ DOMAIN call = Callbacks
  BY DEF LoginInv, SSOTypeOK
<1>2. call[c].at # "idle" => call[c].login \in DOMAIN logins
  BY DEF LoginInv, SSOTypeOK
<1> QED
  BY <1>1, <1>2, LoginTyped DEF Kind, Person

LEMMA LoginInit == SSOInit => LoginInv
<1> SUFFICES ASSUME SSOInit PROVE LoginInv
  OBVIOUS
<1>1. SSOTypeOK
  BY SSOAssumption, NoCallType DEF SSOInit, SSOTypeOK
<1> QED
  BY <1>1, NoCallType DEF SSOInit, LoginInv

LEMMA BeginLoginStep ==
    ASSUME LoginInv, TypeOK, NEW b \in Browsers, NEW p \in Providers, BeginLogin(b, p)
    PROVE  LoginInv'
<1> DEFINE l == [by |-> b, provider |-> p, id |-> live[p].id, spent |-> FALSE]
<1>1. l \in Login
  BY DEF TypeOK, Login, Rows
<1>2. /\ logins' \in Seq(Login) /\ Len(logins') = Len(logins) + 1
      /\ Len(logins) \in Nat /\ Len(logins') <= MaxLogins
      /\ logins'[Len(logins')] = l
      /\ \A n \in 1..Len(logins) : logins'[n] = logins[n]
  BY <1>1, SSOAssumption DEF BeginLogin, LoginInv, SSOTypeOK
<1> HIDE DEF l
<1>3. \A d \in Browsers, k \in Providers :
         cookie'[d][k] = IF d = b /\ k = p THEN Len(logins') ELSE cookie[d][k]
  BY DEF BeginLogin, LoginInv, SSOTypeOK
<1>4. cookie' \in [Browsers -> [Providers -> 0..Len(logins')]]
  <2>1. \A d \in Browsers, k \in Providers : cookie'[d][k] \in 0..Len(logins')
    BY <1>2, <1>3 DEF LoginInv, SSOTypeOK
  <2> QED
    BY <1>2, <2>1 DEF BeginLogin, LoginInv, SSOTypeOK
<1>5. \A c \in Callbacks : call[c].at # "idle" => call[c].login \in 1..Len(logins)
  BY DEF LoginInv, SSOTypeOK
<1>6. SSOTypeOK'
  BY <1>2, <1>4, <1>5 DEF BeginLogin, LoginInv, SSOTypeOK
<1>7. \A d \in Browsers, k \in Providers : cookie'[d][k] # 0 =>
         logins'[cookie'[d][k]].by = d /\ logins'[cookie'[d][k]].provider = k
  BY <1>2, <1>3 DEF LoginInv, SSOTypeOK, l
<1>8. \A c \in Callbacks : call[c].at # "idle" =>
         Person(c)' = Person(c) /\ Kind(c)' = Kind(c) /\ OnList(c)' = OnList(c)
  BY <1>2, <1>5 DEF BeginLogin, Person, Kind, OnList
<1> QED
  BY <1>6, <1>7, <1>8 DEF BeginLogin, LoginInv

LEMMA LeavesStep ==
    ASSUME LoginInv, NEW m \in listed, Leaves(m)
    PROVE  LoginInv'
BY DEF Leaves, LoginInv, SSOTypeOK, Person, Kind, OnList

\* Who is barred when a callback begins is barred by the provider it loads.
LEMMA BarredByLive ==
    ASSUME IInv, NEW p \in Providers, NEW b, up, live[p] # Empty, Barred(p, b)
    PROVE  live[p].scope # Blank /\ <<live[p].scope, b>> \notin listed
<1>1. Free /\ p \notin unsure /\ p \notin skewed
  BY DEF Barred
<1>2. live[p] = Provider(InForce(p))
  BY <1>1, AtRest DEF LiveIsStored, LastSaveStands, InForce
<1>3. live[p] = InForce(p)
  BY <1>2 DEF Provider
<1> QED
  BY <1>3 DEF Barred

LEMMA ArriveStep ==
    ASSUME LoginInv, IInv, NEW c \in Callbacks, NEW b \in Browsers, NEW n \in DOMAIN logins,
           Arrive(c, b, n)
    PROVE  LoginInv'
<1> DEFINE p == logins[n].provider
<1>1. /\ logins[n] \in Login /\ n \in 1..Len(logins) /\ n \in 0..MaxLogins
      /\ p \in Providers
  BY LoginTyped
<1>2. cookie[b][p] = n
  BY DEF Arrive, SameState
<1>3. logins[n].by = b
  BY <1>1, <1>2 DEF LoginInv
<1>4. live[p] \in Rows
  BY <1>1 DEF IInv, TypeOK
<1>5. Barred(p, b) => live[p].scope # Blank /\ <<live[p].scope, b>> \notin listed
  BY <1>1, BarredByLive DEF Arrive
<1>6. Barred(p, b) \in BOOLEAN
  BY DEF Barred
<1>7. /\ call'[c].at = "exchange" /\ call'[c].login = n /\ call'[c].browser = b
      /\ call'[c].od = live[p] /\ call'[c].barred = Barred(p, b)
      /\ call'[c] \in Call
      /\ \A d \in Callbacks : d # c => call'[d] = call[d]
      /\ call' \in [Callbacks -> Call]
  BY <1>1, <1>3, <1>4, <1>6 DEF Arrive, LoginInv, SSOTypeOK, Call
<1>8. SSOTypeOK'
  BY <1>7 DEF Arrive, LoginInv, SSOTypeOK
<1>9. ASSUME NEW d \in Callbacks, call'[d].at # "idle"
      PROVE  /\ call'[d].browser = Person(d)'
             /\ call'[d].barred => call'[d].od.scope # Blank /\ ~OnList(d)'
  <2>1. CASE d = c
    BY <1>3, <1>5, <1>7, <2>1 DEF Arrive, Person, OnList
  <2>2. CASE d # c
    BY <1>7, <1>9, <2>2 DEF Arrive, LoginInv, Person, OnList
  <2> QED
    BY <2>1, <2>2
<1>10. ASSUME NEW d \in Callbacks, call'[d].barred
       PROVE  \/ call'[d].at \in {"idle", "exchange"}
              \/ call'[d].at = "verify" /\ Kind(d)' = "github"
  <2>1. CASE d = c
    BY <1>7, <2>1
  <2>2. CASE d # c
    BY <1>7, <1>10, <2>2 DEF Arrive, LoginInv, Kind
  <2> QED
    BY <2>1, <2>2
<1> QED
  BY <1>8, <1>9, <1>10 DEF Arrive, LoginInv

\* A callback that is answered, or goes on with the same login, spends a code at most.
Redeemed(c) ==
    \/ UNCHANGED logins
    \/ logins' = [logins EXCEPT ![call[c].login].spent = TRUE]

LEMMA RedeemedLogins ==
    ASSUME LoginInv, NEW c \in Callbacks, call[c].at # "idle", Redeemed(c)
    PROVE  /\ logins' \in Seq(Login) /\ Len(logins') = Len(logins)
           /\ DOMAIN logins' = DOMAIN logins
           /\ \A n \in DOMAIN logins :
                 logins'[n].by = logins[n].by /\ logins'[n].provider = logins[n].provider
<1>1. CASE UNCHANGED logins
  BY <1>1 DEF LoginInv, SSOTypeOK
<1>2. CASE logins' = [logins EXCEPT ![call[c].login].spent = TRUE]
  <2>1. call[c].login \in DOMAIN logins
    BY DEF LoginInv, SSOTypeOK
  <2>2. \A n \in DOMAIN logins : logins'[n] =
           IF n = call[c].login THEN [logins[n] EXCEPT !.spent = TRUE] ELSE logins[n]
    BY <1>2, <2>1
  <2>3. \A n \in DOMAIN logins :
           /\ logins'[n] \in Login
           /\ logins'[n].by = logins[n].by /\ logins'[n].provider = logins[n].provider
    BY <2>2, LoginTyped DEF Login
  <2>4. DOMAIN logins' = 1..Len(logins) /\ Len(logins) \in Nat
    BY <1>2 DEF LoginInv, SSOTypeOK
  <2>5. logins' = [n \in 1..Len(logins) |-> logins'[n]]
    BY <1>2, <2>4 DEF LoginInv, SSOTypeOK
  <2>6. \A n \in 1..Len(logins) : logins'[n] \in Login
    BY <2>3 DEF LoginInv, SSOTypeOK
  <2>7. logins' \in Seq(Login) /\ Len(logins') = Len(logins)
    BY <2>4, <2>5, <2>6
  <2> QED
    BY <2>3, <2>4, <2>7 DEF LoginInv, SSOTypeOK
<1> QED
  BY <1>1, <1>2 DEF Redeemed

\* The cookies are kept or cleared, the others' callbacks are left alone.
Cleared(c) ==
    \/ UNCHANGED cookie
    \/ cookie' = [cookie EXCEPT ![call[c].browser][Kind(c)] = 0]

LEMMA ClearedCookies ==
    ASSUME LoginInv, NEW c \in Callbacks, call[c].at # "idle", Cleared(c)
    PROVE  /\ cookie' \in [Browsers -> [Providers -> 0..Len(logins)]]
           /\ \A b \in Browsers, p \in Providers : cookie'[b][p] \in {0, cookie[b][p]}
<1>1. Len(logins) \in Nat /\ 0 \in 0..Len(logins)
  BY DEF LoginInv, SSOTypeOK
<1>2. /\ \A b \in Browsers, p \in Providers : cookie'[b][p] \in {0, cookie[b][p]}
      /\ cookie' = [b \in Browsers |-> [p \in Providers |-> cookie'[b][p]]]
  <2>1. CASE UNCHANGED cookie
    BY <2>1 DEF LoginInv, SSOTypeOK
  <2>2. CASE cookie' = [cookie EXCEPT ![call[c].browser][Kind(c)] = 0]
    <3>1. cookie = [b \in Browsers |-> [p \in Providers |-> cookie[b][p]]]
      BY DEF LoginInv, SSOTypeOK
    <3>2. call[c].browser \in Browsers /\ Kind(c) \in Providers
      BY CallTyped DEF Call
    <3>3. \A b \in Browsers : cookie'[b] = IF b = call[c].browser
             THEN [cookie[b] EXCEPT ![Kind(c)] = 0] ELSE cookie[b]
      BY <2>2, <3>1
    <3>4. \A b \in Browsers, p \in Providers : cookie'[b][p] =
             IF b = call[c].browser /\ p = Kind(c) THEN 0 ELSE cookie[b][p]
      BY <3>1, <3>3
    <3>5. \A b \in Browsers : cookie'[b] = [p \in Providers |-> cookie'[b][p]]
      BY <3>1, <3>3
    <3>6. DOMAIN cookie' = Browsers /\ cookie' = [b \in Browsers |-> cookie'[b]]
      BY <2>2, <3>1
    <3> QED
      BY <3>4, <3>5, <3>6
  <2> QED
    BY <2>1, <2>2 DEF Cleared
<1>3. \A b \in Browsers, p \in Providers : cookie'[b][p] \in 0..Len(logins)
  BY <1>1, <1>2 DEF LoginInv, SSOTypeOK
<1> QED
  BY <1>2, <1>3

LEMMA CallbackStep ==
    ASSUME LoginInv, NEW c \in Callbacks, NEW step \in {"verify", "start"},
           call[c].at # "idle", Redeemed(c), Cleared(c), UNCHANGED listed,
           linked' \subseteq Providers \X Browsers,
           \/ call' = [call EXCEPT ![c] = NoCall]
           \/ /\ call' = [call EXCEPT ![c].at = step]
              /\ call[c].barred => step = "verify" /\ Kind(c) = "github"
    PROVE  LoginInv'
<1>1. /\ logins' \in Seq(Login) /\ Len(logins') = Len(logins)
      /\ DOMAIN logins' = DOMAIN logins
      /\ \A n \in DOMAIN logins :
            logins'[n].by = logins[n].by /\ logins'[n].provider = logins[n].provider
  BY RedeemedLogins
<1>2. /\ cookie' \in [Browsers -> [Providers -> 0..Len(logins)]]
      /\ \A b \in Browsers, p \in Providers : cookie'[b][p] \in {0, cookie[b][p]}
  BY ClearedCookies
<1>3. \A d \in Callbacks : call[d].at # "idle" => call[d].login \in DOMAIN logins
  BY DEF LoginInv, SSOTypeOK
<1>4. /\ call'[c] = NoCall \/ call'[c] = [call[c] EXCEPT !.at = step]
      /\ \A d \in Callbacks : d # c => call'[d] = call[d]
      /\ call' = [d \in Callbacks |-> call'[d]]
  BY CallTyped DEF LoginInv, SSOTypeOK
<1>5. call'[c] \in Call
  BY <1>4, CallTyped, NoCallType DEF Call
<1>6. /\ call' \in [Callbacks -> Call]
      /\ \A d \in Callbacks : d # c => call'[d] = call[d]
  BY <1>4, <1>5, CallTyped
<1>7. \A d \in Callbacks : call'[d].at # "idle" =>
         /\ call[d].at # "idle" /\ call'[d].login = call[d].login
         /\ call'[d].browser = call[d].browser /\ call'[d].od = call[d].od
         /\ call'[d].barred = call[d].barred
  <2>1. \A d \in Callbacks : d # c => call'[d] = call[d]
    BY <1>4
  <2>2. call'[c].at # "idle" => call'[c] = [call[c] EXCEPT !.at = step]
    BY <1>4, NoCallType
  <2> QED
    BY <2>1, <2>2, CallTyped DEF Call
<1>8. SSOTypeOK'
  BY <1>1, <1>2, <1>3, <1>6, <1>7 DEF LoginInv, SSOTypeOK
<1>9. \A d \in Callbacks : call'[d].at # "idle" =>
         Person(d)' = Person(d) /\ Kind(d)' = Kind(d) /\ OnList(d)' = OnList(d)
  BY <1>1, <1>3, <1>7 DEF Person, Kind, OnList
<1>10. \A b \in Browsers, p \in Providers : cookie'[b][p] # 0 =>
         logins'[cookie'[b][p]].by = b /\ logins'[cookie'[b][p]].provider = p
  <2> SUFFICES ASSUME NEW b \in Browsers, NEW p \in Providers, cookie'[b][p] # 0
               PROVE  logins'[cookie'[b][p]].by = b /\ logins'[cookie'[b][p]].provider = p
    OBVIOUS
  <2>1. cookie'[b][p] = cookie[b][p]
    BY <1>2
  <2>2. cookie[b][p] \in DOMAIN logins
    BY <2>1 DEF LoginInv, SSOTypeOK
  <2> QED
    BY <1>1, <2>1, <2>2 DEF LoginInv
<1>11. \A d \in Callbacks : call'[d].at # "idle" =>
         /\ call'[d].browser = Person(d)'
         /\ call'[d].barred => call'[d].od.scope # Blank /\ ~OnList(d)'
  BY <1>7, <1>9 DEF LoginInv
<1>12. ASSUME NEW d \in Callbacks, call'[d].barred
       PROVE  \/ call'[d].at \in {"idle", "exchange"}
              \/ call'[d].at = "verify" /\ Kind(d)' = "github"
  <2>1. CASE d # c
    BY <1>6, <1>7, <1>9, <1>12, <2>1 DEF LoginInv
  <2>2. CASE d = c /\ call' = [call EXCEPT ![c] = NoCall]
    BY <1>12, <2>2, NoCallType DEF LoginInv, SSOTypeOK
  <2>3. CASE d = c /\ call' = [call EXCEPT ![c].at = step]
                   /\ (call[c].barred => step = "verify" /\ Kind(c) = "github")
    <3>1. call'[c].at = step
      BY <2>3 DEF LoginInv, SSOTypeOK, Call
    <3> QED
      BY <1>7, <1>9, <1>12, <2>3, <3>1
  <2> QED
    BY <2>1, <2>2, <2>3
<1> QED
  BY <1>8, <1>10, <1>11, <1>12 DEF LoginInv

LEMMA ExchangeStep ==
    ASSUME LoginInv, NEW c \in Callbacks, Exchange(c)
    PROVE  LoginInv'
<1>1. /\ call[c].at # "idle" /\ Redeemed(c) /\ Cleared(c) /\ UNCHANGED listed
      /\ linked' \subseteq Providers \X Browsers
  BY DEF Exchange, Redeemed, Cleared, Reply, Proceed, LoginInv, SSOTypeOK
<1>2. /\ Kind(c) \in Providers
      /\ call[c].barred => call[c].od.scope # Blank /\ ~OnList(c)
  BY <1>1, CallTyped DEF LoginInv
<1>3. \/ call' = [call EXCEPT ![c] = NoCall]
      \/ call' = [call EXCEPT ![c].at = "verify"] /\ (call[c].barred => Kind(c) = "github")
  BY <1>2 DEF Exchange, Reply, Proceed, DomainAllowed
<1> QED
  BY <1>1, <1>3, CallbackStep

LEMMA VerifyStep ==
    ASSUME LoginInv, NEW c \in Callbacks, Verify(c)
    PROVE  LoginInv'
<1>1. call[c].at # "idle" /\ Redeemed(c) /\ Cleared(c) /\ UNCHANGED listed
  BY DEF Verify, Redeemed, Cleared, Reply, Proceed
<1>2. Kind(c) \in Providers /\ Person(c) \in Browsers
  BY <1>1, CallTyped
<1>3. linked' \subseteq Providers \X Browsers
  BY <1>2 DEF Verify, Subject, LoginInv, SSOTypeOK
<1>4. call[c].barred => Kind(c) = "github" /\ call[c].od.scope # Blank /\ ~OnList(c)
  BY <1>1 DEF Verify, LoginInv
<1>5. \/ call' = [call EXCEPT ![c] = NoCall]
      \/ call' = [call EXCEPT ![c].at = "start"] /\ ~call[c].barred
  BY <1>4 DEF Verify, Authorized, Reply, Proceed
<1> QED
  BY <1>1, <1>3, <1>5, CallbackStep

LEMMA StartSessionStep ==
    ASSUME LoginInv, NEW c \in Callbacks, StartSession(c)
    PROVE  LoginInv'
<1>1. /\ call[c].at # "idle" /\ Redeemed(c) /\ Cleared(c) /\ UNCHANGED listed
      /\ linked' \subseteq Providers \X Browsers
      /\ call' = [call EXCEPT ![c] = NoCall]
  BY DEF StartSession, Redeemed, Cleared, Reply, LoginInv, SSOTypeOK
<1> QED
  BY <1>1, CallbackStep

LEMMA ServerStep ==
    ASSUME LoginInv, Server
    PROVE  LoginInv'
<1>1. CASE UNCHANGED ssoVars
  BY <1>1 DEF ssoVars, LoginInv, SSOTypeOK, Person, Kind, OnList
<1>2. CASE call' = [c \in Callbacks |-> NoCall] /\ UNCHANGED <<logins, cookie, listed, linked>>
  BY <1>2, NoCallType DEF LoginInv, SSOTypeOK
<1> QED
  BY <1>1, <1>2 DEF Server

LEMMA LoginStep == IInv /\ LoginInv /\ [SSONext]_allVars => LoginInv'
<1> SUFFICES ASSUME IInv, LoginInv, [SSONext]_allVars PROVE LoginInv'
  OBVIOUS
<1>1. CASE Server
  BY <1>1, ServerStep
<1>2. ASSUME NEW b \in Browsers, NEW p \in Providers, BeginLogin(b, p) PROVE LoginInv'
  BY <1>2, BeginLoginStep DEF IInv
<1>3. ASSUME NEW m \in listed, Leaves(m) PROVE LoginInv'
  BY <1>3, LeavesStep
<1>4. ASSUME NEW c \in Callbacks, NEW b \in Browsers, NEW n \in DOMAIN logins, Arrive(c, b, n)
      PROVE  LoginInv'
  BY <1>4, ArriveStep
<1>5. ASSUME NEW c \in Callbacks, Exchange(c) \/ Verify(c) \/ StartSession(c)
      PROVE  LoginInv'
  BY <1>5, ExchangeStep, VerifyStep, StartSessionStep
<1>6. CASE UNCHANGED allVars
  BY <1>6 DEF allVars, ssoVars, LoginInv, SSOTypeOK, Person, Kind, OnList
<1> QED
  BY <1>1, <1>2, <1>3, <1>4, <1>5, <1>6 DEF SSONext, Callback

LEMMA LoginInvariance == SSOSpec => [](IInv /\ LoginInv)
<1>1. SSOInit => IInv
  BY InitInv DEF SSOInit
<1>2. IInv /\ [SSONext]_allVars => IInv'
  BY ConfigStep, StepInv
<1> QED
  BY <1>1, <1>2, LoginInit, LoginStep, PTL DEF SSOSpec

\* Signing in at a provider leaves its configuration alone: whatever is proved of
\* the configuration above holds while people sign in.
THEOREM LoginsConfigure == SSOSpec => Spec
<1>1. SSOInit => Init
  BY DEF SSOInit
<1> QED
  BY <1>1, ConfigStep, PTL DEF SSOSpec, Spec

\* No login ends in a browser other than the one that began it.
THEOREM OwnBrowserOnly == SSOSpec => []OwnBrowser
<1>1. LoginInv => OwnBrowser
  BY DEF LoginInv, OwnBrowser
<1> QED
  BY <1>1, LoginInvariance, PTL

\* Nobody gets past the organization or domain that was confirmed.
THEOREM ListsHold == SSOSpec => []ListHolds
<1>1. LoginInv => ListHolds
  BY DEF LoginInv, ListHolds
<1> QED
  BY <1>1, LoginInvariance, PTL
=============================================================================
