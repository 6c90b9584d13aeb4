----------------------------- MODULE AtLeastOnce -----------------------------
(***************************************************************************)
(* What delivery promises: an attempt stores the envelope once or not at   *)
(* all, any of those under way may be lost, a job is told only when its    *)
(* envelope is stored, and a job that was told makes no further attempt.   *)
(***************************************************************************)
EXTENDS Naturals

CONSTANT Jobs

VARIABLES
    copies,     \* copies[j]: how often the envelope of j is stored
    pending,    \* pending[j]: attempts of j under way that may still store it
    told        \* jobs that know their envelope is stored

Init ==
    /\ copies = [j \in Jobs |-> 0] /\ pending = [j \in Jobs |-> 0]
    /\ told = {}

Attempt(j) ==
    /\ j \notin told
    /\ pending' = [pending EXCEPT ![j] = @ + 1]
    /\ UNCHANGED <<copies, told>>

Store(j) ==
    /\ pending[j] > 0
    /\ pending' = [pending EXCEPT ![j] = @ - 1]
    /\ copies' = [copies EXCEPT ![j] = @ + 1]
    /\ UNCHANGED told

Tell(j) ==
    /\ copies[j] > 0
    /\ told' = told \union {j}
    /\ UNCHANGED <<copies, pending>>

\* Attempts are refused, fail or are gone with the server.
Lose ==
    /\ pending' \in [Jobs -> Nat] /\ \A j \in Jobs : pending'[j] <= pending[j]
    /\ UNCHANGED <<copies, told>>

Next == Lose \/ \E j \in Jobs : Attempt(j) \/ Store(j) \/ Tell(j)

Spec == Init /\ [][Next]_<<copies, pending, told>>
=============================================================================
