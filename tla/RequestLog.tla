----------------------------- MODULE RequestLog -----------------------------
(***************************************************************************)
(* ringLog, the access log of the latest requests: a circular buffer that  *)
(* lives in memory and is read newest entry first.  Its methods hold a     *)
(* mutex, so each is one operator here.                                    *)
(***************************************************************************)
EXTENDS Integers, Sequences

CONSTANTS
    Capacity,   \* entries the buffer has room for
    Entries,    \* requests as the middleware records them
    NoEntry     \* the zero AccessEntry of a slot never written

ASSUME RequestLogAssumption == Capacity \in Nat \ {0} /\ NoEntry \notin Entries

Slots == 0..(Capacity - 1)
RingLog == [buf : [Slots -> Entries \union {NoEntry}], next : Slots, full : BOOLEAN]

newRingLog == [buf |-> [i \in Slots |-> NoEntry], next |-> 0, full |-> FALSE]

add_NeverFull(r, e) ==     \* a slip: the wrap is not noted
    [r EXCEPT !.buf[r.next] = e, !.next = (r.next + 1) % Capacity]

\* The newest entry takes the slot of the oldest once the buffer has wrapped.
add(r, e) ==
    LET after == (r.next + 1) % Capacity
    IN [buf |-> [r.buf EXCEPT ![r.next] = e], next |-> after, full |-> r.full \/ after = 0]

Size(r) == IF r.full THEN Capacity ELSE r.next

\* The entry written i requests ago.
Ago(r, i) == r.buf[(r.next - i + Capacity) % Capacity]

\* At most limit entries, newest first; all of them for a limit that is not positive.
recent(r, limit) ==
    LET n == IF limit <= 0 \/ limit > Size(r) THEN Size(r) ELSE limit
    IN [i \in 1..n |-> Ago(r, i)]
=============================================================================
