---------------------------- MODULE MCConformance ----------------------------
(* Small instances of Conformance: one client sends r1 and, once answered,  *)
(* r2; one of the two needs the other.                                      *)
EXTENDS Conformance

CONSTANTS r1, r2, q1

\* r2 waits for r1, and is taken only by a backend that holds r1.
Chain == [r \in {r1, r2} |-> IF r = r2 THEN {r1} ELSE {}]

\* r1 is taken only by a backend that holds r2: it was sent too early.
TooEarly == [r \in {r1, r2} |-> IF r = r1 THEN {r2} ELSE {}]
=============================================================================
