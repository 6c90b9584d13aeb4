----------------------------- MODULE IngestShape ----------------------------
(***************************************************************************)
(* checkIngestShape: the scan of a posted document, token by token, that   *)
(* refuses one whose decoding would take far more memory than its size     *)
(* suggests, and what it is meant to compute.                              *)
(***************************************************************************)
EXTENDS Integers, Sequences, FiniteSets, SequencesExt

CONSTANTS
    maxIngestElements,   \* array elements a document may have, over all its arrays
    maxIngestDepth       \* levels of nesting

ASSUME IngestShapeAssumption == maxIngestElements \in Nat /\ maxIngestDepth \in Nat

\* The tokens of encoding/json: an array or an object begins, one of them ends, a
\* scalar or a key, and what the decoder cannot read.
Opening == {"array", "object"}
Lexemes == Opening \union {"end", "scalar", "bad"}

Verdicts == {"ok", "tooLarge", "malformed"}

-----------------------------------------------------------------------------
(* The scan.                                                               *)

Scan(stack, elements, verdict) ==
    [stack |-> stack, elements |-> elements, verdict |-> verdict]
ScanInit == Scan(<<>>, 0, "more")

InArray(stack) == stack # <<>> /\ Last(stack) = "array"

Close(s) ==
    IF s.stack = <<>> THEN Scan(<<>>, s.elements, "malformed")
    ELSE LET rest == Front(s.stack)
         IN Scan(rest, s.elements, IF rest = <<>> THEN "ok" ELSE "more")

\* A slip: the element that reaches the limit is already refused.
Value_OneLess(s, t) ==
    LET n == IF InArray(s.stack) THEN s.elements + 1 ELSE s.elements
    IN IF n >= maxIngestElements \/ (t \in Opening /\ Len(s.stack) = maxIngestDepth)
         THEN Scan(s.stack, n, "tooLarge")
       ELSE IF t \in Opening THEN Scan(Append(s.stack, t), n, "more")
       ELSE Scan(s.stack, n, IF s.stack = <<>> THEN "ok" ELSE "more")

\* A value begins: an element if it stands directly in an array.
Value(s, t) ==
    LET n == IF InArray(s.stack) THEN s.elements + 1 ELSE s.elements
    IN IF n > maxIngestElements \/ (t \in Opening /\ Len(s.stack) = maxIngestDepth)
         THEN Scan(s.stack, n, "tooLarge")
       ELSE IF t \in Opening THEN Scan(Append(s.stack, t), n, "more")
       ELSE Scan(s.stack, n, IF s.stack = <<>> THEN "ok" ELSE "more")

ScanToken(s, t) ==
    IF s.verdict # "more" THEN s
    ELSE CASE t = "bad" -> Scan(s.stack, s.elements, "malformed")
           [] t = "end" -> Close(s)
           [] OTHER     -> Value(s, t)

\* What follows the first value is not read; a document that ends early is malformed.
checkIngestShape(doc) ==
    LET verdict == FoldLeft(ScanToken, ScanInit, doc).verdict
    IN IF verdict = "more" THEN "malformed" ELSE verdict

-----------------------------------------------------------------------------
(* What it is meant to compute.                                            *)

\* How deep a document is nested after its first i tokens.
Depth(doc, i) ==
    Cardinality({k \in 1..i : doc[k] \in Opening}) - Cardinality({k \in 1..i : doc[k] = "end"})

\* Token k opens what token i stands directly in.
Encloses(doc, k, i) ==
    /\ k < i /\ doc[k] \in Opening
    /\ Depth(doc, i - 1) = Depth(doc, k)
    /\ \A j \in k..(i - 1) : Depth(doc, j) >= Depth(doc, k)

IsElement(doc, i) ==
    doc[i] \notin {"end", "bad"} /\ \E k \in 1..(i - 1) : doc[k] = "array" /\ Encloses(doc, k, i)
Elements(doc, i) == Cardinality({k \in 1..i : IsElement(doc, k)})

\* The first value ends with token i, and everything up to there can be read.
Readable(doc, i) == \A k \in 1..i : doc[k] # "bad" /\ Depth(doc, k) >= 0
Ends(doc, i)     == Readable(doc, i) /\ Depth(doc, i) = 0 /\ \A k \in 1..(i - 1) : Depth(doc, k) > 0

\* A prefix of the first value already has too many elements or nests too deep.
Exceeds(doc, i) ==
    /\ Readable(doc, i) /\ \A k \in 1..(i - 1) : Depth(doc, k) > 0
    /\ Elements(doc, i) > maxIngestElements \/ Depth(doc, i) > maxIngestDepth

Shape(doc) ==
    IF \E i \in 1..Len(doc) : Exceeds(doc, i) THEN "tooLarge"
    ELSE IF \E i \in 1..Len(doc) : Ends(doc, i) THEN "ok"
    ELSE "malformed"
=============================================================================
