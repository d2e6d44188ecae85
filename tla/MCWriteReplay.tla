---------------------------- MODULE MCWriteReplay ----------------------------
(* Small instances of WriteReplay: the requests and who waited for whom. *)
EXTENDS WriteReplay

CONSTANTS r1, r2

\* One client sends r1 and, once answered, r2.
Chain == [r \in {r1, r2} |-> IF r = r2 THEN {r1} ELSE {}]

\* Two clients, each with one write.
Apart == [r \in {r1, r2} |-> {}]

\* One write, for the instances with several crashes and errors.
Alone == [r \in {r1} |-> {}]
=============================================================================
