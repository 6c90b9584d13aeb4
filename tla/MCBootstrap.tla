---------------------------- MODULE MCBootstrap -----------------------------
(* Instances of Bootstrap for TLC. *)
EXTENDS Bootstrap

\* Every identity suggests the login "ann"; each has a suffixed one of its own.
SameLogin == [s \in Subjects |-> "ann"]
OwnSuffix == [s \in Subjects |-> IF s = "github:1" THEN "ann-gh1" ELSE "ann-2f0c"]
=============================================================================
