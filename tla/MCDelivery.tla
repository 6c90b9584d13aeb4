----------------------------- MODULE MCDelivery -----------------------------
(* Instances of Delivery for TLC. *)
EXTENDS Delivery

\* Every document of up to five lexemes.
Documents == UNION {[1..n -> Lexemes] : n \in 0..5}

\* The envelope of every job reaches an endpoint that the old history has not.
RowOf == [j \in Jobs |-> <<1, "npm">>]
=============================================================================
