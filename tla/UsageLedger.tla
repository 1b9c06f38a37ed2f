------------------------------ MODULE UsageLedger ------------------------------
(***************************************************************************)
(* The usage log and its rollup (observability/llm_logging.py,             *)
(* tasks/usage_rollup_task.py).  Every model call is one row, written in a *)
(* transaction of its own; the rollup folds the rows past its watermark    *)
(* into hourly sums and advances the watermark, all in one transaction;    *)
(* the daily prune deletes old rows up to the watermark.                   *)
(*                                                                         *)
(* A row is its id.  The sums are kept as the number of times each row was *)
(* folded in.  Ids are handed out before rows are committed, so rows may   *)
(* become visible out of order.                                            *)
(*                                                                         *)
(* Beat sends a rollup every thirty seconds to a worker with two           *)
(* processes, and no lock keeps two apart.  A rollup reads the watermark   *)
(* and the rows in two statements, each of what is committed by then; its  *)
(* upserts wait for the row locks of another and add to what that one left.*)
(***************************************************************************)
EXTENDS Integers, FiniteSets

CONSTANTS
  MaxCalls,    \* bound on the rows ever written
  Batch,       \* USAGE_ROLLUP_BATCH_SIZE
  Rollups,     \* rollup tasks that may run at the same time
  MaxFailures  \* bound on the failed writes and rollups

LedgerAssumption == MaxCalls \in Nat /\ Batch \in Nat \ {0} /\ MaxFailures \in Nat

VARIABLES
  row,        \* per id, the state of its row
  watermark,  \* LlmUsageRollupWatermark.last_rolled_id
  folded,     \* per id, how often the sums contain it
  rollup,     \* per task, its open transaction
  horizon,    \* the watermark a running prune has read, or 0
  late,       \* history: rows committed after a row with a higher id
  overlapped, \* history: two rollups have been open at once
  failures

ledgerVars == <<row, watermark, folded, rollup, horizon, late, overlapped, failures>>

Calls == 1 .. MaxCalls
Idle == [step |-> "idle", from |-> 0, rows |-> {}]
Open(t) == rollup[t] # Idle

LedgerInit ==
  /\ row = [c \in Calls |-> "none"]
  /\ watermark = 0
  /\ folded = [c \in Calls |-> 0]
  /\ rollup = [t \in Rollups |-> Idle]
  /\ horizon = 0
  /\ late = {}
  /\ overlapped = FALSE
  /\ failures = 0

Failure == failures < MaxFailures /\ failures' = failures + 1

\* log_llm_call, log_cache_hit: the insert takes the next id ...
Insert(c) ==
  /\ row[c] = "none" /\ \A b \in 1 .. c - 1 : row[b] # "none"
  /\ row' = [row EXCEPT ![c] = "open"]
  /\ UNCHANGED <<watermark, folded, rollup, horizon, late, overlapped, failures>>

\* ... and the commit shows the row.
Commit(c) ==
  /\ row[c] = "open"
  /\ row' = [row EXCEPT ![c] = "stored"]
  /\ late' = late \cup {b \in {c} : \E d \in Calls : d > b /\ row[d] \in {"stored", "pruned"}}
  /\ UNCHANGED <<watermark, folded, rollup, horizon, overlapped, failures>>

\* A failed write is logged and forgotten; its id stays unused.
WriteFails(c) ==
  /\ row[c] = "open"
  /\ Failure
  /\ row' = [row EXCEPT ![c] = "lost"]
  /\ UNCHANGED <<watermark, folded, rollup, horizon, late, overlapped>>

\* rollup_llm_usage_hourly: the watermark.  The first rollup ever inserts its
\* row, and another waits for that one to end and then fails.
RollupStarts(t) ==
  /\ ~Open(t)
  /\ watermark = 0 => \A u \in Rollups : ~Open(u)
  /\ rollup' = [rollup EXCEPT ![t] = [step |-> "read", from |-> watermark, rows |-> {}]]
  /\ overlapped' = (overlapped \/ \E u \in Rollups : Open(u))
  /\ UNCHANGED <<row, watermark, folded, horizon, late, failures>>

\* The lowest ids past the watermark read, at most Batch of them.
New(from) == {c \in Calls : row[c] = "stored" /\ c > from}
NextRows(from) == {c \in New(from) : Cardinality({b \in New(from) : b <= c}) <= Batch}

RollupReads(t) ==
  /\ rollup[t].step = "read"
  /\ LET rows == NextRows(rollup[t].from)
     IN rollup' = [rollup EXCEPT ![t] =
          IF rows = {} THEN Idle ELSE [step |-> "fold", from |-> rollup[t].from, rows |-> rows]]
  /\ UNCHANGED <<row, watermark, folded, horizon, late, overlapped, failures>>

\* The watermark is set to the last row folded, even if it is past it.
RollupCommits(t) ==
  /\ rollup[t].step = "fold"
  /\ folded' = [c \in Calls |-> IF c \in rollup[t].rows THEN folded[c] + 1 ELSE folded[c]]
  /\ \E top \in rollup[t].rows : (\A c \in rollup[t].rows : c <= top) /\ watermark' = top
  /\ rollup' = [rollup EXCEPT ![t] = Idle]
  /\ UNCHANGED <<row, horizon, late, overlapped, failures>>

\* An error or a crash before the commit leaves nothing behind.
RollupFails(t) ==
  /\ Open(t)
  /\ Failure
  /\ rollup' = [rollup EXCEPT ![t] = Idle]
  /\ UNCHANGED <<row, watermark, folded, horizon, late, overlapped>>

\* prune_llm_call_logs: nothing is pruned before the first rollup.
PruneStarts ==
  /\ horizon = 0 /\ watermark # 0
  /\ horizon' = watermark
  /\ UNCHANGED <<row, watermark, folded, rollup, late, overlapped, failures>>

\* Mutant of Prunable: age alone decides.
Aged == {c \in Calls : row[c] = "stored"}

\* Rows the watermark had passed; which of them are old enough is open.
Prunable == {c \in Calls : row[c] = "stored" /\ c <= horizon}

\* An error before the commit is the empty choice.
Prune ==
  /\ horizon # 0
  /\ \E old \in SUBSET Prunable : row' = [c \in Calls |-> IF c \in old THEN "pruned" ELSE row[c]]
  /\ horizon' = 0
  /\ UNCHANGED <<watermark, folded, rollup, late, overlapped, failures>>

LedgerNext ==
  \/ \E c \in Calls : Insert(c) \/ Commit(c) \/ WriteFails(c)
  \/ \E t \in Rollups : RollupStarts(t) \/ RollupReads(t) \/ RollupCommits(t) \/ RollupFails(t)
  \/ PruneStarts \/ Prune

LedgerSpec == LedgerInit /\ [][LedgerNext]_ledgerVars

LedgerTypeOK ==
  /\ row \in [Calls -> {"none", "open", "stored", "lost", "pruned"}]
  /\ watermark \in 0 .. MaxCalls
  /\ folded \in [Calls -> Nat]
  /\ rollup \in [Rollups -> [step : {"idle", "read", "fold"}, from : 0 .. MaxCalls, rows : SUBSET Calls]]
  /\ \A t \in Rollups : Open(t) => rollup[t].step # "idle"
  /\ horizon \in 0 .. MaxCalls
  /\ late \subseteq Calls
  /\ overlapped \in BOOLEAN
  /\ failures \in 0 .. MaxFailures

(***************************************************************************)
(* A call that became visible in the order of its id is never passed by    *)
(* the watermark, nor pruned, before it was folded, whichever writes,      *)
(* rollups and prunes fail or overlap in between; and as long as no two    *)
(* rollups have been open at once, it is folded exactly once.  (A call     *)
(* whose commit a later one overtook may be skipped for good.)             *)
(***************************************************************************)
LedgerIsExact ==
  \A c \in Calls \ late :
    /\ (row[c] = "stored" /\ c <= watermark) \/ row[c] = "pruned" => folded[c] >= 1
    /\ ~overlapped =>
         /\ row[c] = "stored" => folded[c] = IF c <= watermark THEN 1 ELSE 0
         /\ row[c] = "pruned" => folded[c] = 1
================================================================================
