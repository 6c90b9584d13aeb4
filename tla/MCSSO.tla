------------------------------- MODULE MCSSO --------------------------------
(* Instances of SSO for TLC. *)
EXTENDS SSO, TLC

\* What the environment holds for a provider, when it configures it.
EnvRows == [p \in Providers |-> [id |-> "good", secret |-> "s", scope |-> "acme"]]

\* The person at b1 is a member to begin with.
OneMember == {<<"acme", "b1">>}

Symmetric == Permutations(Saves)
=============================================================================
