----------------------------- MODULE AdminClaim -----------------------------
(***************************************************************************)
(* What first-run setup promises: an instance has no administrator until   *)
(* one account claims it, and then that account, and no other, is the      *)
(* administrator for ever.  An older database has its administrator.       *)
(***************************************************************************)
CONSTANT Logins
VARIABLE admins    \* the logins of the instance administrators

Init == admins = {} \/ \E l \in Logins : admins = {l}

Claim(l) ==
    /\ admins = {}
    /\ admins' = {l}

Next == \E l \in Logins : Claim(l)

Spec == Init /\ [][Next]_admins
=============================================================================
