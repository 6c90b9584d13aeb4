---------------------------- MODULE PasswordHash ----------------------------
(***************************************************************************)
(* The slots that bound how many argon2id hashes run at a time.            *)
(*                                                                         *)
(* HashPassword and VerifyPassword wait for a slot, for a limited time,    *)
(* compute, and give the slot back.  hashSlots is a channel with room for  *)
(* maxConcurrentHashes entries: sending one takes a slot, receiving one    *)
(* gives a slot back, whoever does it.                                     *)
(***************************************************************************)
EXTENDS Integers, FiniteSets

CONSTANTS
    Callers,              \* goroutines that call HashPassword or VerifyPassword
    maxConcurrentHashes

ASSUME PasswordHashAssumption == maxConcurrentHashes \in Nat \ {0}

VARIABLES
    hash,       \* hash[p]: where p is in its call, or what the call returned
    hashSlots   \* how many entries the channel holds

hashing == <<hash, hashSlots>>

\* "hashed" and "busy" are the two ways a call returns.
HashSteps == {"none", "waiting", "hashing", "hashed", "busy"}

Move(p, from, to) == hash[p] = from /\ hash' = [hash EXCEPT ![p] = to]

HashInit ==
    /\ hash = [p \in Callers |-> "none"]
    /\ hashSlots = 0

CallHash(p) == Move(p, "none", "waiting") /\ UNCHANGED hashSlots

\* select: the send on the channel succeeds.
acquireHashSlot(p) ==
    /\ hashSlots < maxConcurrentHashes
    /\ Move(p, "waiting", "hashing")
    /\ hashSlots' = hashSlots + 1

TimerFires_Releases(p) ==     \* a slip: the release is deferred before the wait
    /\ Move(p, "waiting", "busy")
    /\ hashSlots > 0 /\ hashSlots' = hashSlots - 1

TimerFires_NoTimer(p) ==      \* a slip: the wait has no end
    /\ hashSlots < maxConcurrentHashes
    /\ Move(p, "waiting", "busy") /\ UNCHANGED hashSlots

\* select: the timer fires first, and the call returns ErrBusy.
TimerFires(p) == Move(p, "waiting", "busy") /\ UNCHANGED hashSlots

\* The hash is computed; the deferred receive gives the slot back.
releaseHashSlot(p) ==
    /\ hashSlots > 0
    /\ Move(p, "hashing", "hashed")
    /\ hashSlots' = hashSlots - 1

\* The caller goes on with what the call returned.
Returned(p, result) == Move(p, result, "none") /\ UNCHANGED hashSlots

HashStep(p) == acquireHashSlot(p) \/ TimerFires(p) \/ releaseHashSlot(p)

-----------------------------------------------------------------------------
(* Properties.                                                             *)

\* A caller is at one of the steps, and the channel is never overfull.
HashTypeOK ==
    /\ hash \in [Callers -> HashSteps]
    /\ hashSlots \in 0..maxConcurrentHashes

\* "Two slots cap hashing" (password.go:31): no more hashes than that run at a time,
\* because a caller that got no slot gives none back.
HashesBounded ==
    Cardinality({p \in Callers : hash[p] = "hashing"}) <= maxConcurrentHashes

\* Every slot taken is held by a hash under way, so the deferred receive never waits
\* (password.go:59) and no slot is lost, whatever timers fire meanwhile.
SlotsExact ==
    /\ hashSlots = Cardinality({p \in Callers : hash[p] = "hashing"})
    /\ \A p \in Callers : hash[p] = "hashing" => hashSlots > 0
=============================================================================
