------------------------- MODULE ApprovalLifecycle -------------------------
(***************************************************************************)
(* What the approval gate promises about every request: it is pending      *)
(* until it is decided or has expired, and stays so for good; only the     *)
(* decision made last can be taken back, once, and nothing else is.        *)
(***************************************************************************)
EXTENDS Naturals

CONSTANTS
  Requests,   \* ids of requests
  NoRequest   \* no decision can be taken back

Statuses == {"absent", "pending", "approved", "rejected", "expired"}

Decided == {"approved", "rejected"}

VARIABLES
  status,     \* the status of each request
  last        \* the request whose decision can be taken back, or NoRequest

vars == <<status, last>>

Init ==
  /\ status \in [Requests -> Statuses]
  /\ last = NoRequest

\* Requests are proposed, and those that have waited too long expire, any
\* number at a time.
Propose ==
  /\ \E S \in SUBSET {r \in Requests : status[r] = "absent"} :
       status' = [r \in Requests |-> IF r \in S THEN "pending" ELSE status[r]]
  /\ last' = last

Expire ==
  /\ \E S \in SUBSET {r \in Requests : status[r] = "pending"} :
       status' = [r \in Requests |-> IF r \in S THEN "expired" ELSE status[r]]
  /\ last' = last

Decide(r) ==
  /\ status[r] = "pending"
  /\ \E s \in Decided : status' = [status EXCEPT ![r] = s]
  /\ last' \in {r, last}

TakeBack ==
  /\ last # NoRequest
  /\ status[last] \in Decided
  /\ status' = [status EXCEPT ![last] = "pending"]
  /\ last' = NoRequest

TooLate == last' = NoRequest /\ status' = status

Next == Propose \/ Expire \/ (\E r \in Requests : Decide(r)) \/ TakeBack \/ TooLate

Spec == Init /\ [][Next]_vars
=============================================================================
