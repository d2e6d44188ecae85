------------------------------ MODULE Comparator ------------------------------
(***************************************************************************)
(* diff.rs: whether two answers to the same read diverge, and how badly.   *)
(*                                                                         *)
(* A path stands for what the comparator asks of it.  A response is a      *)
(* record: its status; whether its body parses as JSON; the values of the  *)
(* four fields masked on /version; the rest of its value, objects being    *)
(* functions and arrays sequences, so that = is json_equal; the spelling   *)
(* (key order, white space) that only a comparison of texts can see.       *)
(***************************************************************************)
EXTENDS Naturals

Severities == {"critical", "high", "medium", "low", "noise"}

\* impl Ord for Severity
Rank == [s \in Severities |->
           CASE s = "critical" -> 5 [] s = "high" -> 4 [] s = "medium" -> 3
             [] s = "low" -> 2 [] s = "noise" -> 1]

Worse(a, b) == IF Rank[a] > Rank[b] THEN a ELSE b

\* /timeline..., /u/..., /version, /healthz, anything else.
Paths == {"timeline", "profile", "version", "healthz", "other"}

SeverityForPath(path) ==
    CASE path \in {"timeline", "profile"} -> "high"
      [] path \in {"version", "healthz"} -> "noise"
      [] OTHER -> "medium"

\* Fault: only a crash of the shadow counts as one.
SeverityForStatusDiff_ShadowOnly(path, p, s) ==
    CASE s >= 500 -> "critical"
      [] s < 500 /\ p \div 100 # s \div 100 -> Worse("high", SeverityForPath(path))
      [] OTHER -> SeverityForPath(path)

SeverityForStatusDiff(path, p, s) ==
    CASE p >= 500 \/ s >= 500 -> "critical"
      [] p < 500 /\ s < 500 /\ p \div 100 # s \div 100 -> Worse("high", SeverityForPath(path))
      [] OTHER -> SeverityForPath(path)

\* The JSON value compared: mask_version_fields takes four fields out.
Value(path, r) == <<IF path = "version" THEN "masked" ELSE r.digest, r.content>>

Text(r) == <<r.json, r.digest, r.content, r.spelling>>

BodiesAgree(path, p, s) ==
    IF p.json /\ s.json THEN Value(path, p) = Value(path, s) ELSE Text(p) = Text(s)

\* compare, without the blob.
Compare(path, p, s) ==
    IF p.status # s.status
      THEN [diverged |-> TRUE, severity |-> SeverityForStatusDiff(path, p.status, s.status)]
      ELSE IF BodiesAgree(path, p, s)
             THEN [diverged |-> FALSE, severity |-> "noise"]
             ELSE [diverged |-> TRUE, severity |-> SeverityForPath(path)]
=============================================================================
