----------------------------- MODULE ExternalMatch -----------------------------
(***************************************************************************)
(* One job of the external title-match API:                                *)
(* src/backend/app/tasks/external_match_task.py, the retry endpoint of     *)
(* routers/external_title_match.py and the external half of the beat tick  *)
(* in tasks/agentic_scheduler_task.py.                                     *)
(*                                                                         *)
(* Unlike the spreadsheet pipelines (TitleBatch) the rows live in the      *)
(* database with a status and an attempt count of their own, a finished    *)
(* job can be reopened for its failed rows, and completion means "no row   *)
(* left in a non-terminal status", not a counter.  Each label of pc stands *)
(* before one database transaction or broker call.                         *)
(***************************************************************************)
EXTENDS Integers, FiniteSets

CONSTANTS
  Rows,          \* the rows of the submission
  Workers,       \* worker slots of the agentic queue
  Beats,         \* workers that may be executing a beat tick
  Clients,       \* API requests to /retry that may be in progress
  DbUpdate,      \* did the submission ask for a master-data sync first?
  Window,        \* read_job_window() / compute_job_window()
  Chunk,         \* AGENTIC_ROUNDROBIN_CHUNK
  MaxAttempts,   \* EXTERNAL_API_ROW_MAX_ATTEMPTS
  MaxRequests,   \* how many /retry calls one behaviour may contain
  FaultPoints,   \* pairs <<kind, label>> at which the environment may fail
  MaxFaults      \* how many faults one behaviour may contain

ASSUME ExternalAssumption ==
  /\ IsFiniteSet(Rows) /\ Rows # {}
  /\ DbUpdate \in BOOLEAN
  /\ Window \in Nat /\ Chunk \in Nat
  /\ MaxAttempts \in Nat \ {0}
  /\ MaxRequests \in Nat /\ MaxFaults \in Nat
  /\ Workers \cap Beats = {} /\ Workers \cap Clients = {} /\ Beats \cap Clients = {}

Actors == Workers \cup Beats \cup Clients

Finished == {"completed", "completed_with_errors", "failed"}  \* _TERMINAL_PHASES
Terminal == {"completed", "failed"}                           \* of a row

RowMsg(r, k) == [task |-> "row", row |-> r, tries |-> k]
DispatchMsg  == [task |-> "dispatch"]
FinalizeMsg  == [task |-> "finalize"]
RetryMsg(S)  == [task |-> "retry", rows |-> S]
NoMsg        == [task |-> "none"]

(* Celery's max_retries of external_match_row is MaxAttempts - 1.          *)
QueueMsgs == {RowMsg(r, k) : r \in Rows, k \in 0 .. MaxAttempts - 1}
               \cup {DispatchMsg, FinalizeMsg} \cup {RetryMsg(S) : S \in SUBSET Rows}

VARIABLES
  job,       \* the ApiTitleMatchJob row
  row,       \* the ApiTitleMatchRow rows: status, attempts
  queue,     \* how many copies of each message the broker holds
  pc,        \* per actor: the transaction or call it is about to make
  msg,       \* per actor: the message it executes
  rec,       \* per actor: is_retry and the outcome of its row
  want,      \* per actor: rows read, claimed or named, and how many to claim;
             \* a tick's deficit left and rows won; a phase read
  requests,  \* /retry calls so far
  faults     \* faults so far

local == <<msg, rec, want>>
vars == <<job, row, queue, pc, local, requests, faults>>

NoRec  == [retry |-> FALSE, outcome |-> "failed", rescue |-> FALSE]
NoWant == [rows |-> {}, limit |-> 0, left |-> 0, won |-> 0, seen |-> "none"]

(* _submit_job has committed the job and its rows and published dispatch.  *)
Init ==
  /\ job = [phase |-> "queued", claimed |-> FALSE,
            processed |-> 0, matched |-> 0, no_match |-> 0, failed |-> 0]
  /\ row = [r \in Rows |-> [status |-> "pending", attempts |-> 0]]
  /\ queue = [m \in QueueMsgs |-> IF m = DispatchMsg THEN 1 ELSE 0]
  /\ pc = [a \in Actors |-> "idle"]
  /\ msg = [a \in Actors |-> NoMsg]
  /\ rec = [a \in Actors |-> NoRec]
  /\ want = [a \in Actors |-> NoWant]
  /\ requests = 0
  /\ faults = 0

-----------------------------------------------------------------------------
(* Helpers.                                                                *)

Goto(a, label) == pc' = [pc EXCEPT ![a] = label]

Publish(m) == queue' = [queue EXCEPT ![m] = @ + 1]

Release(a) ==
  /\ Goto(a, "idle")
  /\ msg' = [msg EXCEPT ![a] = NoMsg]
  /\ rec' = [rec EXCEPT ![a] = NoRec]
  /\ want' = [want EXCEPT ![a] = NoWant]

Pending == {r \in Rows : row[r].status = "pending"}
Outstanding == {r \in Rows : row[r].status \notin Terminal}

Lesser(x, y) == IF x < y THEN x ELSE y

(* enqueue_next_window is called with limit n.                             *)
CallWindow(a, n) ==
  /\ want' = [want EXCEPT ![a] = [NoWant EXCEPT !.limit = n]]
  /\ Goto(a, "select")

(* A tick calls it chunk by chunk while there is deficit left.             *)
CallChunk(a, left) ==
  IF left > 0
  THEN /\ want' = [want EXCEPT ![a] = [NoWant EXCEPT
            !.limit = Lesser(IF Chunk > 0 THEN Chunk ELSE 1, left), !.left = left]]
       /\ Goto(a, "select")
       /\ UNCHANGED <<msg, rec>>
  ELSE Release(a)

(* enqueue_next_window returns n: the task ends, a tick goes on.           *)
Return(a, n) ==
  IF a \in Beats THEN CallChunk(a, IF n > 0 THEN want[a].left - n ELSE 0) ELSE Release(a)

-----------------------------------------------------------------------------
(* Taking a message.                                                       *)

Take(a) ==
  /\ pc[a] = "idle"
  /\ \E m \in QueueMsgs :
       /\ queue[m] > 0
       /\ queue' = [queue EXCEPT ![m] = @ - 1]
       /\ msg' = [msg EXCEPT ![a] = m]
       /\ Goto(a, m.task)
  /\ UNCHANGED <<job, row, rec, want, requests, faults>>

-----------------------------------------------------------------------------
(* external_match_row                                                      *)

AlwaysFirst(r) == FALSE

(* is_retry: was the row's earlier outcome counted already?                *)
IsRetry(r) == row[r].attempts > 0

LoadRow(a) ==
  /\ pc[a] = "row"
  /\ rec' = [rec EXCEPT ![a] = [NoRec EXCEPT !.retry = IsRetry(msg[a].row)]]
  /\ Goto(a, "match")
  /\ UNCHANGED <<job, row, queue, msg, want, requests, faults>>

Decide(a, o, rescue) ==
  /\ rec' = [rec EXCEPT ![a].outcome = o, ![a].rescue = rescue]
  /\ Goto(a, "commit")
  /\ UNCHANGED <<job, row, queue, msg, want, requests, faults>>

MatchSucceeds(a) ==
  /\ pc[a] = "match"
  /\ \E o \in {"matched", "no_match"} : Decide(a, o, FALSE)

(* AgenticThrottleError or AgenticError with Celery retries left: the row  *)
(* goes back to the broker with no attempt recorded.                       *)
MatchRetries(a) ==
  /\ pc[a] = "match"
  /\ msg[a].tries < MaxAttempts - 1
  /\ Publish(RowMsg(msg[a].row, msg[a].tries + 1))
  /\ Release(a)
  /\ UNCHANGED <<job, row, requests, faults>>

MatchExhausted(a) ==
  /\ pc[a] = "match"
  /\ msg[a].tries >= MaxAttempts - 1
  /\ Decide(a, "failed", FALSE)

(* No slot in time, the soft time limit, anything else.                    *)
MatchBreaks(a) ==
  /\ pc[a] = "match"
  /\ Decide(a, "failed", TRUE)

(* The row's own transaction: its terminal status and one more attempt.    *)
CommitRow(a) ==
  /\ pc[a] = "commit"
  /\ row' = [row EXCEPT ![msg[a].row] =
       [status |-> IF rec[a].outcome = "failed" THEN "failed" ELSE "completed",
        attempts |-> @.attempts + 1]]
  /\ Goto(a, "bump")
  /\ UNCHANGED <<job, queue, local, requests, faults>>

(* _bump_job_counters, in a transaction of its own: a first attempt counts *)
(* the row as processed; a retried row only moves between the outcomes.    *)
BumpCounters(a) ==
  /\ pc[a] = "bump"
  /\ job' = LET o == rec[a].outcome IN
       IF ~rec[a].retry THEN [job EXCEPT !.processed = @ + 1, ![o] = @ + 1]
       ELSE IF o = "failed" THEN job
       ELSE [job EXCEPT !.failed = @ - 1, ![o] = @ + 1]
  /\ Goto(a, "settle")
  /\ UNCHANGED <<row, queue, local, requests, faults>>

-----------------------------------------------------------------------------
(* _after_row_terminal                                                     *)

CountedDone == job.processed >= Cardinality(Rows)

(* The completion predicate: no row left in a non-terminal status.         *)
NoRowsOutstanding == Outstanding = {}

(* The cheap check before the claim.                                       *)
Settle(a) ==
  /\ pc[a] = "settle"
  /\ IF NoRowsOutstanding THEN Goto(a, "claim") /\ UNCHANGED want
     ELSE CallWindow(a, Chunk)
  /\ UNCHANGED <<job, row, queue, msg, rec, requests, faults>>

(* claim_finalize with NOT EXISTS in its WHERE clause, evaluated again.    *)
ClaimMatches == ~job.claimed /\ NoRowsOutstanding

Claim(a) ==
  /\ pc[a] = "claim"
  /\ IF ClaimMatches
     THEN job' = [job EXCEPT !.claimed = TRUE] /\ Goto(a, "publish_finalize") /\ UNCHANGED want
     ELSE CallWindow(a, Chunk) /\ UNCHANGED job
  /\ UNCHANGED <<row, queue, msg, rec, requests, faults>>

PublishFinalize(a) ==
  /\ pc[a] = "publish_finalize"
  /\ Publish(FinalizeMsg)
  /\ Release(a)
  /\ UNCHANGED <<job, row, requests, faults>>

-----------------------------------------------------------------------------
(* enqueue_next_window                                                     *)

(* The job and up to limit pending rows are read ...                       *)
SelectWindow(a) ==
  /\ pc[a] = "select"
  /\ IF want[a].limit = 0 \/ job.phase # "processing" \/ Pending = {}
     THEN Return(a, 0)
     ELSE /\ \E S \in SUBSET Pending :
               /\ Cardinality(S) = Lesser(want[a].limit, Cardinality(Pending))
               /\ want' = [want EXCEPT ![a].rows = S]
          /\ Goto(a, "claim_rows")
          /\ UNCHANGED <<msg, rec>>
  /\ UNCHANGED <<job, row, queue, requests, faults>>

Unguarded(S) == S

(* ... and each is claimed by UPDATE ... WHERE status = 'pending': only    *)
(* rows nobody else claimed meanwhile are won.                             *)
Won(S) == S \cap Pending

ClaimRows(a) ==
  /\ pc[a] = "claim_rows"
  /\ row' = [r \in Rows |-> IF r \in Won(want[a].rows)
                             THEN [row[r] EXCEPT !.status = "dispatched"] ELSE row[r]]
  /\ want' = [want EXCEPT ![a].rows = Won(@), ![a].won = Cardinality(Won(want[a].rows))]
  /\ Goto(a, "publish_rows")
  /\ UNCHANGED <<job, queue, msg, rec, requests, faults>>

PublishRow(a) ==
  /\ pc[a] = "publish_rows"
  /\ \E r \in want[a].rows :
       /\ Publish(RowMsg(r, 0))
       /\ want' = [want EXCEPT ![a].rows = @ \ {r}]
  /\ UNCHANGED <<job, row, pc, msg, rec, requests, faults>>

RowsPublished(a) ==
  /\ pc[a] = "publish_rows" /\ want[a].rows = {}
  /\ Return(a, want[a].won)
  /\ UNCHANGED <<job, row, queue, requests, faults>>

-----------------------------------------------------------------------------
(* external_dispatch_job                                                   *)

DispatchLoad(a) ==
  /\ pc[a] = "dispatch"
  /\ Goto(a, IF DbUpdate THEN "sync_mark" ELSE "d_mark")
  /\ UNCHANGED <<job, row, queue, local, requests, faults>>

SyncMark(a) ==
  /\ pc[a] = "sync_mark"
  /\ job' = [job EXCEPT !.phase = "syncing"]
  /\ Goto(a, "sync")
  /\ UNCHANGED <<row, queue, local, requests, faults>>

(* _run_sync_inline succeeds and _wait_for_index_ready returns, which it   *)
(* always does.                                                            *)
SyncRuns(a) ==
  /\ pc[a] = "sync"
  /\ Goto(a, "d_mark")
  /\ UNCHANGED <<job, row, queue, local, requests, faults>>

DispatchMark(a) ==
  /\ pc[a] = "d_mark"
  /\ job' = [job EXCEPT !.phase = "processing"]
  /\ IF Pending = {} THEN Goto(a, "publish_finalize") /\ UNCHANGED want
     ELSE CallWindow(a, Window)
  /\ UNCHANGED <<row, queue, msg, rec, requests, faults>>

(* The except block: whatever broke, the job is marked failed.             *)
DispatchFailed(a) ==
  /\ pc[a] = "d_failed"
  /\ job' = [job EXCEPT !.phase = "failed"]
  /\ Release(a)
  /\ UNCHANGED <<row, queue, requests, faults>>

-----------------------------------------------------------------------------
(* external_finalize_job: reads the job, then writes its phase.            *)

FinalPhase == IF job.failed = 0 THEN "completed" ELSE "completed_with_errors"

FinalizeLoad(a) ==
  /\ pc[a] = "finalize"
  /\ IF job.phase \in Finished
     THEN Release(a)
     ELSE /\ want' = [want EXCEPT ![a].seen = FinalPhase]
          /\ Goto(a, "f_commit")
          /\ UNCHANGED <<msg, rec>>
  /\ UNCHANGED <<job, row, queue, requests, faults>>

FinalizeCommit(a) ==
  /\ pc[a] = "f_commit"
  /\ job' = [job EXCEPT !.phase = want[a].seen]
  /\ Release(a)
  /\ UNCHANGED <<row, queue, requests, faults>>

-----------------------------------------------------------------------------
(* POST /retry and external_retry_rows_task                                *)

RetryDone(S) == {r \in S : row[r].status \in Terminal /\ row[r].attempts < MaxAttempts}

Retryable(S) == {r \in S : row[r].status = "failed" /\ row[r].attempts < MaxAttempts}

(* The conditional flip; a caller that loses gets a 409.                   *)
RetryFlip(c) ==
  /\ pc[c] = "idle"
  /\ requests < MaxRequests
  /\ job.phase \in Finished
  /\ \E S \in SUBSET Rows \ {{}} :
       want' = [want EXCEPT ![c] = [NoWant EXCEPT !.rows = S, !.seen = job.phase]]
  /\ job' = [job EXCEPT !.phase = "processing"]
  /\ requests' = requests + 1
  /\ Goto(c, "decide")
  /\ UNCHANGED <<row, queue, msg, rec, faults>>

(* Rows are read again after the commit: publish the retry, ...            *)
RetryQueued(c) ==
  /\ pc[c] = "decide"
  /\ Retryable(want[c].rows) # {}
  /\ Publish(RetryMsg(Retryable(want[c].rows)))
  /\ Release(c)
  /\ UNCHANGED <<job, row, requests, faults>>

(* Nothing to retry: the endpoint computes a phase to put back.            *)
RetryNothing(c) ==
  /\ pc[c] = "decide"
  /\ Retryable(want[c].rows) = {}
  /\ job' = [job EXCEPT !.phase = FinalPhase]
  /\ Release(c)
  /\ UNCHANGED <<row, queue, requests, faults>>

(* The retry task reads its candidates ...                                 *)
RetrySelect(a) ==
  /\ pc[a] = "retry"
  /\ IF Retryable(msg[a].rows) = {}
     THEN Release(a)
     ELSE /\ want' = [want EXCEPT ![a].rows = Retryable(msg[a].rows)]
          /\ Goto(a, "reopen")
          /\ UNCHANGED <<msg, rec>>
  /\ UNCHANGED <<job, row, queue, requests, faults>>

KeepClaim(j) == [j EXCEPT !.phase = "processing"]
Reopened(j) == [j EXCEPT !.phase = "processing", !.claimed = FALSE]

(* ... and flips them and the job in one transaction.                      *)
RetryReopen(a) ==
  /\ pc[a] = "reopen"
  /\ row' = [r \in Rows |-> IF r \in want[a].rows
                             THEN [row[r] EXCEPT !.status = "pending"] ELSE row[r]]
  /\ job' = Reopened(job)
  /\ CallWindow(a, Window)
  /\ UNCHANGED <<queue, msg, rec, requests, faults>>

-----------------------------------------------------------------------------
(* topup_agentic_queue, for this job                                       *)

UnclippedRoom == Window - Cardinality({r \in Rows : row[r].status = "dispatched"})

(* scheduler_state counts the dispatched rows, then the pending ones; the  *)
(* deficit is what the window leaves room for.                             *)
Room ==
  LET dispatched == Cardinality({r \in Rows : row[r].status = "dispatched"})
  IN IF Window > dispatched THEN Window - dispatched ELSE 0

TickStart(a) ==
  /\ pc[a] = "idle"
  /\ want' = [want EXCEPT ![a] =
       [NoWant EXCEPT !.left = IF job.phase = "processing" THEN Room ELSE 0]]
  /\ Goto(a, "tick_remaining")
  /\ UNCHANGED <<job, row, queue, msg, rec, requests, faults>>

TickRemaining(a) ==
  /\ pc[a] = "tick_remaining"
  /\ want' = [want EXCEPT ![a].left = Lesser(@, Cardinality(Pending))]
  /\ Goto(a, "sweep")
  /\ UNCHANGED <<job, row, queue, msg, rec, requests, faults>>

(* _sweep_stuck_external: processing, unclaimed and nothing outstanding.   *)
Stuck == job.phase = "processing" /\ ~job.claimed /\ NoRowsOutstanding

SweepSelect(a) ==
  /\ pc[a] = "sweep"
  /\ Goto(a, IF Stuck THEN "sweep_claim" ELSE "topup")
  /\ UNCHANGED <<job, row, queue, local, requests, faults>>

SweepClaim(a) ==
  /\ pc[a] = "sweep_claim"
  /\ IF ClaimMatches
     THEN job' = [job EXCEPT !.claimed = TRUE] /\ Goto(a, "sweep_publish")
     ELSE Goto(a, "topup") /\ UNCHANGED job
  /\ UNCHANGED <<row, queue, local, requests, faults>>

SweepPublish(a) ==
  /\ pc[a] = "sweep_publish"
  /\ Publish(FinalizeMsg)
  /\ Goto(a, "topup")
  /\ UNCHANGED <<job, row, local, requests, faults>>

TopUp(a) ==
  /\ pc[a] = "topup"
  /\ CallChunk(a, want[a].left)
  /\ UNCHANGED <<job, row, queue, requests, faults>>

-----------------------------------------------------------------------------
(* Faults: an exception where the code can meet one, a worker that dies.   *)

Fault(kind, label) ==
  /\ faults < MaxFaults
  /\ <<kind, label>> \in FaultPoints
  /\ faults' = faults + 1

(* In the row's try block: recorded as failed by the except BaseException  *)
(* branch, with the is_retry read at the start; in that branch: logged.    *)
RaiseInRow(a) ==
  /\ pc[a] \in {"commit", "bump"}
  /\ Fault("raise", IF rec[a].rescue THEN "rescue" ELSE pc[a])
  /\ IF rec[a].rescue
     THEN Release(a)
     ELSE /\ rec' = [rec EXCEPT ![a].outcome = "failed", ![a].rescue = TRUE]
          /\ Goto(a, "commit")
          /\ UNCHANGED <<msg, want>>
  /\ UNCHANGED <<job, row, queue, requests>>

(* Everywhere else an exception ends the task: swallowed or logged by its  *)
(* caller, or raised out of it (the first session of external_match_row,   *)
(* the finalize and retry tasks, the endpoint).                            *)
RaiseAndEnd(a) ==
  /\ \/ pc[a] \in {"row", "settle", "claim", "finalize", "f_commit", "retry", "reopen",
                    "decide", "d_failed", "tick_remaining", "topup"}
     \/ pc[a] \in {"select", "claim_rows", "publish_rows", "publish_finalize"}
          /\ msg[a] # DispatchMsg
  /\ pc[a] = "publish_rows" => want[a].rows # {}
  /\ Fault("raise", pc[a])
  /\ Release(a)
  /\ UNCHANGED <<job, row, queue, requests>>

RaiseInDispatch(a) ==
  /\ \/ pc[a] \in {"dispatch", "sync_mark", "sync", "d_mark"}
     \/ pc[a] \in {"select", "claim_rows", "publish_rows", "publish_finalize"}
          /\ msg[a] = DispatchMsg
  /\ pc[a] = "publish_rows" => want[a].rows # {}
  /\ Fault("raise", IF pc[a] = "sync" THEN "sync" ELSE "dispatch")
  /\ want' = [want EXCEPT ![a] = NoWant]
  /\ Goto(a, "d_failed")
  /\ UNCHANGED <<job, row, queue, msg, rec, requests>>

RaiseInSweep(a) ==
  /\ pc[a] \in {"sweep", "sweep_claim", "sweep_publish"}
  /\ Fault("raise", pc[a])
  /\ Goto(a, "topup")
  /\ UNCHANGED <<job, row, queue, local, requests>>

Crash(a) ==
  /\ pc[a] # "idle"
  /\ Fault("crash", pc[a])
  /\ Release(a)
  /\ UNCHANGED <<job, row, queue, requests>>

-----------------------------------------------------------------------------
RowStep(a) ==
  \/ LoadRow(a) \/ MatchSucceeds(a) \/ MatchRetries(a) \/ MatchExhausted(a)
  \/ MatchBreaks(a) \/ CommitRow(a) \/ BumpCounters(a)
  \/ Settle(a) \/ Claim(a) \/ PublishFinalize(a)

WindowStep(a) == SelectWindow(a) \/ ClaimRows(a) \/ PublishRow(a) \/ RowsPublished(a)

DispatchStep(a) ==
  DispatchLoad(a) \/ SyncMark(a) \/ SyncRuns(a) \/ DispatchMark(a) \/ DispatchFailed(a)

EndStep(a) == FinalizeLoad(a) \/ FinalizeCommit(a) \/ RetrySelect(a) \/ RetryReopen(a)

EndpointStep(a) == RetryQueued(a) \/ RetryNothing(a)

TickStep(a) ==
  TickRemaining(a) \/ SweepSelect(a) \/ SweepClaim(a) \/ SweepPublish(a) \/ TopUp(a)

Run(a) ==
  \/ RowStep(a) \/ WindowStep(a) \/ DispatchStep(a)
  \/ EndStep(a) \/ EndpointStep(a) \/ TickStep(a)

Raise(a) == RaiseInRow(a) \/ RaiseAndEnd(a) \/ RaiseInDispatch(a) \/ RaiseInSweep(a)

Next ==
  \/ \E a \in Workers : Take(a)
  \/ \E a \in Beats : TickStart(a)
  \/ \E a \in Clients : RetryFlip(a)
  \/ \E a \in Actors : Run(a) \/ Raise(a) \/ Crash(a)

Spec == Init /\ [][Next]_vars

(* Workers take messages and finish them, a request that was accepted is   *)
(* answered, beat ticks.  Clients need not call, faults need not happen.   *)
Fairness ==
  /\ \A a \in Workers : WF_vars(Take(a) \/ Run(a))
  /\ \A a \in Beats : WF_vars(TickStart(a) \/ Run(a))
  /\ \A a \in Clients : WF_vars(Run(a))

FairSpec == Spec /\ Fairness

-----------------------------------------------------------------------------
(* Properties.                                                             *)

Labels == {"idle", "row", "match", "commit", "bump", "settle", "claim",
           "publish_finalize", "select", "claim_rows", "publish_rows",
           "dispatch", "sync_mark", "sync", "d_mark", "d_failed",
           "finalize", "f_commit", "retry", "reopen", "decide",
           "tick_remaining", "sweep", "sweep_claim", "sweep_publish", "topup"}

Phases == {"queued", "syncing", "processing"} \cup Finished

JobType == [phase : Phases, claimed : BOOLEAN, processed : Nat, matched : Nat,
            no_match : Nat, failed : Int]

WantType == [rows : SUBSET Rows, limit : Nat, left : Nat, won : Nat,
             seen : Phases \cup {"none"}]

(* Every variable keeps its type; the retry endpoint and task name only    *)
(* rows of the job, and no deficit of a tick becomes negative.             *)
TypeOK ==
  /\ job \in JobType
  /\ row \in [Rows -> [status : {"pending", "dispatched"} \cup Terminal, attempts : Nat]]
  /\ queue \in [QueueMsgs -> Nat]
  /\ pc \in [Actors -> Labels]
  /\ msg \in [Actors -> QueueMsgs \cup {NoMsg}]
  /\ rec \in [Actors -> [retry : BOOLEAN, outcome : {"matched", "no_match", "failed"},
                          rescue : BOOLEAN]]
  /\ want \in [Actors -> WantType]
  /\ requests \in 0 .. MaxRequests
  /\ faults \in 0 .. MaxFaults

(* Rows whose outcome is committed and whose counters are not, yet.        *)
Bumping(retry, outcomes) ==
  {a \in Actors : pc[a] = "bump" /\ rec[a].retry = retry /\ rec[a].outcome \in outcomes}

Tried == {r \in Rows : row[r].attempts > 0}
Missed == {r \in Tried : row[r].status # "completed"}

(* The counters agree with the rows up to bumps under way: processed with  *)
(* the rows ever tried, failed with those of them that have not succeeded  *)
(* since, the other two with the completed rows; a retried row is not      *)
(* counted twice and its failure is taken back (is_retry).                 *)
CountersMatchRows ==
  /\ job.processed + Cardinality(Bumping(FALSE, {"matched", "no_match", "failed"}))
       = Cardinality(Tried)
  /\ job.failed + Cardinality(Bumping(FALSE, {"failed"}))
       - Cardinality(Bumping(TRUE, {"matched", "no_match"})) = Cardinality(Missed)
  /\ job.matched + job.no_match
       + Cardinality(Bumping(FALSE, {"matched", "no_match"}))
       + Cardinality(Bumping(TRUE, {"matched", "no_match"})) = Cardinality(Tried \ Missed)

(* A job is not finished while a row is pending or running, whoever won    *)
(* the claim and however often it was reopened.                            *)
FinishedMeansDone ==
  job.phase \in {"completed", "completed_with_errors"} =>
    \A r \in Rows : row[r].status \in Terminal

(* A finished job's phase tells whether a row has failed ("job phase       *)
(* reflects current row state", external_finalize_job).                    *)
PhaseReflectsRows ==
  /\ job.phase = "completed" => \A r \in Rows : row[r].status # "failed"
  /\ job.phase = "completed_with_errors" => \E r \in Rows : row[r].status = "failed"

(* A row's match, once delivered, is never lost or tried again.            *)
CompletedIsFinal ==
  [][\A r \in Rows : row[r].status = "completed" => row'[r] = row[r]]_vars

(* The guarded UPDATE lets one claimer publish a row: it is never queued,  *)
(* claimed or running twice.                                               *)
AtMostOneCopy ==
  \A r \in Rows :
    LET queued == {k \in 0 .. MaxAttempts - 1 : queue[RowMsg(r, k)] > 0}
        running == {a \in Actors : pc[a] \in {"row", "match", "commit"} /\ msg[a].row = r}
        claimed == {a \in Actors : pc[a] = "publish_rows" /\ r \in want[a].rows}
    IN /\ \A k \in 0 .. MaxAttempts - 1 : queue[RowMsg(r, k)] <= 1
       /\ Cardinality(queued) + Cardinality(running) + Cardinality(claimed) <= 1

(* A job in progress finishes, first run or reopened: the last row to end  *)
(* finds nothing outstanding and claims, or the sweep does.                *)
EveryRunEnds == job.phase = "processing" ~> job.phase \in Finished
=============================================================================
