------------------------------- MODULE RowLedger -------------------------------
(***************************************************************************)
(* What a batch job promises its submitter, whatever the number of         *)
(* workers, retries and redeliveries: every row of the upload is given one *)
(* outcome, once, and the file delivered at the end holds exactly those.   *)
(***************************************************************************)
CONSTANTS Rows, Outcomes
VARIABLES outcome, delivered

vars == <<outcome, delivered>>

Init ==
  /\ outcome = [r \in Rows |-> "unset"]
  /\ delivered = FALSE

(* A row gets its outcome; it is never replaced.                           *)
Record(r) ==
  /\ ~delivered
  /\ outcome[r] = "unset"
  /\ \E o \in Outcomes : outcome' = [outcome EXCEPT ![r] = o]
  /\ UNCHANGED delivered

(* The job completes once, and only with an outcome for every row.         *)
Deliver ==
  /\ ~delivered
  /\ \A r \in Rows : outcome[r] # "unset"
  /\ delivered' = TRUE
  /\ UNCHANGED outcome

Next == Deliver \/ \E r \in Rows : Record(r)

Spec == Init /\ [][Next]_vars
=============================================================================
