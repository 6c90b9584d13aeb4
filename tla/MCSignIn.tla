------------------------------ MODULE MCSignIn ------------------------------
(* Instances of SignIn for TLC. *)
EXTENDS SignIn, TLC

\* Secrets are interchangeable, and so are goroutines that may serve the same posts.
Symmetric ==
    UNION {Permutations(S) : S \in {Secrets, Logins \ Visits, Visits \ Logins,
                                    Logins \intersect Visits}}
=============================================================================
