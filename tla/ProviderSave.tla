---------------------------- MODULE ProviderSave ----------------------------
(***************************************************************************)
(* What saving provider settings promises while the store works: one step  *)
(* that changes the rows and the provider people sign in with together, or *)
(* nothing at all.  Only a save cut off by the end of the process may have *)
(* changed the rows; the next start finds them loadable or does not happen.*)
(***************************************************************************)
CONSTANTS
    Providers, Rows,
    NoRows,     \* the rows of a provider that is not configured
    Loaded,     \* Loaded[r]: the provider the rows r describe
    Loadable    \* <<p, r>>: p can be built from the rows r

VARIABLES
    rows,       \* the settings in force
    inForce,    \* the provider people sign in with
    running,    \* the process serves
    fixed       \* the providers its environment configures

Init ==
    /\ rows = [p \in Providers |-> NoRows] /\ inForce = rows
    /\ running = FALSE /\ fixed = {}

Start ==
    /\ ~running /\ running' = TRUE
    /\ fixed' \subseteq Providers
    /\ \A p \in Providers \ fixed' :
          <<p, rows[p]>> \in Loadable /\ inForce'[p] = Loaded[rows[p]]
    /\ UNCHANGED rows

Save(p, r) ==
    /\ running /\ p \notin fixed /\ <<p, r>> \in Loadable
    /\ rows' = [rows EXCEPT ![p] = r]
    /\ inForce' = [inForce EXCEPT ![p] = Loaded[r]]
    /\ UNCHANGED <<running, fixed>>

Stop ==
    /\ running /\ running' = FALSE
    /\ inForce' = [p \in Providers |-> NoRows]
    /\ \/ UNCHANGED rows
       \/ \E p \in Providers \ fixed, r \in Rows : rows' = [rows EXCEPT ![p] = r]
    /\ UNCHANGED fixed

Next == Start \/ Stop \/ \E p \in Providers, r \in Rows : Save(p, r)

Spec == Init /\ [][Next]_<<rows, inForce, running, fixed>>
=============================================================================
