---------------------------- MODULE ReplayLedger ----------------------------
(***************************************************************************)
(* What the durable write queue promises the operator, with nothing said   *)
(* of rows, workers, clocks or crashes: every write accepted for replay is *)
(* a debt to the shadow.  A debt is closed only when the shadow is known   *)
(* to have executed the write or the write is on record as abandoned, and  *)
(* the shadow executes nothing that was not owed and no write more than    *)
(* Limit times.                                                            *)
(***************************************************************************)
EXTENDS Naturals

CONSTANTS
    Requests,   \* the client writes
    Limit       \* the most copies of one write the shadow can execute

VARIABLES
    open,       \* writes the proxy still means to replay
    confirmed,  \* writes whose replay the shadow acknowledged
    abandoned,  \* writes on record as given up
    delivered   \* delivered[r]: copies of r the shadow has executed

ledgerVars == <<open, confirmed, abandoned, delivered>>

Owed == open \cup confirmed \cup abandoned

LedgerInit ==
    /\ open = {}
    /\ confirmed = {}
    /\ abandoned = {}
    /\ delivered = [r \in Requests |-> 0]

Owe(r) ==
    /\ r \notin Owed
    /\ open' = open \cup {r}
    /\ UNCHANGED <<confirmed, abandoned, delivered>>

\* A copy sent earlier may still arrive after the debt is closed.
Deliver(r) ==
    /\ r \in Owed
    /\ delivered[r] < Limit
    /\ delivered' = [delivered EXCEPT ![r] = @ + 1]
    /\ UNCHANGED <<open, confirmed, abandoned>>

Confirm(r) ==
    /\ r \in open
    /\ delivered[r] > 0
    /\ open' = open \ {r}
    /\ confirmed' = confirmed \cup {r}
    /\ UNCHANGED <<abandoned, delivered>>

\* Recording the loss and closing the debt are two steps.
Abandon(r) ==
    /\ r \in open
    /\ abandoned' = abandoned \cup {r}
    /\ UNCHANGED <<open, confirmed, delivered>>

Close(r) ==
    /\ r \in open \cap abandoned
    /\ open' = open \ {r}
    /\ UNCHANGED <<confirmed, abandoned, delivered>>

LedgerNext ==
    \E r \in Requests : Owe(r) \/ Deliver(r) \/ Confirm(r) \/ Abandon(r) \/ Close(r)

LedgerSafety == LedgerInit /\ [][LedgerNext]_ledgerVars

(* Every debt is closed in the end. *)
EveryDebtCloses == \A r \in Requests : (r \in open) ~> (r \notin open)

LedgerSpec == LedgerSafety /\ EveryDebtCloses
=============================================================================
