------------------------------ MODULE TitleBatch ------------------------------
(***************************************************************************)
(* One batch title-matching job on the shared "agentic" Celery queue:      *)
(* src/backend/app/tasks/agentic_match_task.py (and its international      *)
(* mirror), the atomic claims of title_matching/dispatch_window.py and the *)
(* beat tick of tasks/agentic_scheduler_task.py, for a single job.         *)
(*                                                                         *)
(* A worker takes a message from the queue and executes it one database,   *)
(* Redis, S3 or broker call at a time; every label of pc stands just       *)
(* before such a call, so two workers and a beat tick interleave exactly   *)
(* where the code can be interrupted.  Messages are acknowledged when they *)
(* are taken (Celery's default), so a worker that dies loses its message.  *)
(***************************************************************************)
EXTENDS Integers, Sequences, FiniteSets

CONSTANTS
  N,            \* rows of the upload
  Workers,      \* worker slots of the agentic queue
  Beats,        \* workers that may be executing a beat tick
  Window,       \* read_job_window() / compute_job_window()
  Chunk,        \* AGENTIC_ROUNDROBIN_CHUNK
  MaxRetries,   \* max_retries of agentic_batch_row
  MaxAttempts,  \* max_attempts of claim_row_window
  FaultPoints,  \* pairs <<kind, label>> at which the environment may fail
  MaxFaults     \* how many faults one behaviour may contain

ASSUME SizeAssumption ==
  /\ N \in Nat
  /\ Window \in Nat
  /\ Chunk \in Nat
  /\ MaxRetries \in Nat
  /\ MaxAttempts \in Nat \ {0}
  /\ MaxFaults \in Nat

ASSUME ActorAssumption == Workers \cap Beats = {}

Actors == Workers \cup Beats
Rows == 0 .. N - 1

(* What a row can end as; "unset" is a field the results hash lacks, "gap" *)
(* the placeholder finalize_batch writes for such a field.                 *)
Outcomes == {"matched", "no_match", "failed"}

RowMsg(r, k)    == [task |-> "row", row |-> r, tries |-> k]
DispatchMsg     == [task |-> "dispatch", row |-> 0, tries |-> 0]
FinalizeMsg     == [task |-> "finalize", row |-> 0, tries |-> 0]
TickMsg         == [task |-> "tick", row |-> 0, tries |-> 0]
NoMsg           == [task |-> "none", row |-> 0, tries |-> 0]

QueueMsgs == {RowMsg(r, k) : r \in Rows, k \in 0 .. MaxRetries}
               \cup {DispatchMsg, FinalizeMsg}

VARIABLES
  job,       \* the MovieTitleBatchJob row
  results,   \* Redis hash batch:{job}:results
  rowargs,   \* does the Redis hash batch:{job}:rowargs exist?
  upload,    \* is the uploaded file still in storage?
  output,    \* the output files written: none, or one outcome per row
  queue,     \* how many copies of each message the broker holds
  pc,        \* per actor: the call it is about to make
  msg,       \* per actor: the message it executes
  rec,       \* per actor: the row outcome it is recording
  stack,     \* per actor: windows claimed and being published, inner first
  cas,       \* per actor: cursor read by claim_row_window, attempts made
  tick,      \* per actor: remaining deficit of a tick, rows published
  buf,       \* per actor: the rows finalize_batch has assembled
  faults,    \* faults so far
  counted,   \* history: rows whose counter bump has committed
  purged     \* history: has the results hash been deleted?

actorVars   == <<pc, msg, rec, stack, cas, tick, buf>>
storeVars   == <<results, rowargs, upload, output>>
historyVars == <<counted, purged>>
vars == <<job, storeVars, queue, actorVars, faults, historyVars>>

NoRec == [row |-> 0, outcome |-> "failed", rescue |-> FALSE]
NoCas == [read |-> 0, to |-> 0, attempts |-> 0]
NoTick == [deficit |-> 0, published |-> 0]

-----------------------------------------------------------------------------
(* Initial state: the upload endpoint has stored the file, committed the   *)
(* job as queued and published the dispatch task.                          *)

Init ==
  /\ job = [status |-> "queued", dispatched |-> 0, processed |-> 0,
            matched |-> 0, no_match |-> 0, failed |-> 0, claimed |-> FALSE]
  /\ results = [r \in Rows |-> "unset"]
  /\ rowargs = FALSE
  /\ upload = TRUE
  /\ output = {}
  /\ queue = [m \in QueueMsgs |-> IF m = DispatchMsg THEN 1 ELSE 0]
  /\ pc = [a \in Actors |-> "idle"]
  /\ msg = [a \in Actors |-> NoMsg]
  /\ rec = [a \in Actors |-> NoRec]
  /\ stack = [a \in Actors |-> <<>>]
  /\ cas = [a \in Actors |-> NoCas]
  /\ tick = [a \in Actors |-> NoTick]
  /\ buf = [a \in Actors |-> <<>>]
  /\ faults = 0
  /\ counted = {}
  /\ purged = FALSE

-----------------------------------------------------------------------------
(* Control helpers.                                                        *)

Lesser(x, y) == IF x < y THEN x ELSE y

Goto(a, label) == pc' = [pc EXCEPT ![a] = label]

Publish(m) == queue' = [queue EXCEPT ![m] = @ + 1]

(* The actor drops everything it was doing.                                *)
Release(a) ==
  /\ Goto(a, "idle")
  /\ msg' = [msg EXCEPT ![a] = NoMsg]
  /\ rec' = [rec EXCEPT ![a] = NoRec]
  /\ stack' = [stack EXCEPT ![a] = <<>>]
  /\ cas' = [cas EXCEPT ![a] = NoCas]
  /\ tick' = [tick EXCEPT ![a] = NoTick]
  /\ buf' = [buf EXCEPT ![a] = <<>>]

(* The tick's deficit for the job once a chunk was tried: what was pushed  *)
(* is taken off, and a try that pushed nothing ends the job's turn.        *)
AfterChunk(t) ==
  [deficit |-> IF t.published > 0 THEN t.deficit - t.published ELSE 0,
   published |-> 0]

(* A call of _after_row_terminal or enqueue_next_window returns and st is  *)
(* what is left of the windows being published: go on with the outer       *)
(* window, with the tick's rotation, or end the task.                      *)
Return(a, st) ==
  IF st = <<>> /\ msg[a] # TickMsg
  THEN Release(a)
  ELSE /\ stack' = [stack EXCEPT ![a] = st]
       /\ rec' = [rec EXCEPT ![a] = NoRec]
       /\ cas' = [cas EXCEPT ![a] = NoCas]
       /\ UNCHANGED <<msg, buf>>
       /\ IF st # <<>>
          THEN Goto(a, "publish") /\ UNCHANGED tick
          ELSE /\ Goto(a, "topup")
               /\ tick' = [tick EXCEPT ![a] = AfterChunk(tick[a])]

-----------------------------------------------------------------------------
(* Taking a message.  The broker normally hands a message out once.        *)

Entry(task) == CASE task = "row"      -> "match"
                 [] task = "dispatch" -> "d_load"
                 [] task = "finalize" -> "f_start"

Take(a) ==
  /\ pc[a] = "idle"
  /\ \E m \in QueueMsgs :
       /\ queue[m] > 0
       /\ queue' = [queue EXCEPT ![m] = @ - 1]
       /\ msg' = [msg EXCEPT ![a] = m]
       /\ Goto(a, Entry(m.task))
  /\ UNCHANGED <<job, storeVars, rec, stack, cas, tick, buf, faults, historyVars>>

-----------------------------------------------------------------------------
(* agentic_batch_row                                                       *)

Recording(a, r, o, rescue) ==
  /\ rec' = [rec EXCEPT ![a] = [row |-> r, outcome |-> o, rescue |-> rescue]]
  /\ Goto(a, "store")
  /\ UNCHANGED <<msg, stack, cas, tick, buf>>

(* run_agentic_match answered.                                             *)
MatchSucceeds(a) ==
  /\ pc[a] = "match"
  /\ \E o \in {"matched", "no_match"} : Recording(a, msg[a].row, o, FALSE)
  /\ UNCHANGED <<job, storeVars, queue, faults, historyVars>>

(* AgenticThrottleError or AgenticError with retries left: self.retry      *)
(* publishes the row again and the task ends without a terminal outcome.   *)
MatchRetries(a) ==
  /\ pc[a] = "match"
  /\ msg[a].tries < MaxRetries
  /\ Publish(RowMsg(msg[a].row, msg[a].tries + 1))
  /\ Release(a)
  /\ UNCHANGED <<job, storeVars, faults, historyVars>>

(* The same errors on the last attempt: _record_failed_row.                *)
MatchExhausted(a) ==
  /\ pc[a] = "match"
  /\ msg[a].tries >= MaxRetries
  /\ Recording(a, msg[a].row, "failed", FALSE)
  /\ UNCHANGED <<job, storeVars, queue, faults, historyVars>>

(* Anything else (no sandbox slot in time, the soft time limit): the       *)
(* except BaseException branch records the row as failed.                  *)
MatchBreaks(a) ==
  /\ pc[a] = "match"
  /\ Recording(a, msg[a].row, "failed", TRUE)
  /\ UNCHANGED <<job, storeVars, queue, faults, historyVars>>

AnyWriter(r) == TRUE

(* HSETNX answers 1 only for the first writer of the field.                *)
FirstWriter(r) == results[r] = "unset"

(* _store_row_result: only the first writer goes on to bump the counters.  *)
StoreRowResult(a) ==
  /\ pc[a] = "store"
  /\ IF FirstWriter(rec[a].row)
     THEN /\ results' = [results EXCEPT ![rec[a].row] = rec[a].outcome]
          /\ Goto(a, "bump")
     ELSE Goto(a, "settle") /\ UNCHANGED results
  /\ UNCHANGED <<job, rowargs, upload, output, queue, msg, rec, stack, cas, tick,
                 buf, faults, historyVars>>

(* _bump_counters: one server-side UPDATE of processed and the outcome's   *)
(* own counter.                                                            *)
BumpCounters(a) ==
  /\ pc[a] = "bump"
  /\ job' = [job EXCEPT !.processed = @ + 1, ![rec[a].outcome] = @ + 1]
  /\ counted' = counted \cup {rec[a].row}
  /\ Goto(a, "settle")
  /\ UNCHANGED <<storeVars, queue, msg, rec, stack, cas, tick, buf, faults, purged>>

-----------------------------------------------------------------------------
(* _after_row_terminal and claim_finalize                                  *)

EarlyClaim == ~job.claimed /\ job.processed + 1 >= N

(* The WHERE clause of claim_finalize's conditional UPDATE.                *)
ClaimMatches == ~job.claimed /\ job.processed >= N

ClaimFinalize(a) ==
  /\ pc[a] = "settle"
  /\ IF ClaimMatches
     THEN job' = [job EXCEPT !.claimed = TRUE] /\ Goto(a, "publish_finalize")
     ELSE Goto(a, "read") /\ UNCHANGED job
  /\ UNCHANGED <<storeVars, queue, msg, rec, stack, cas, tick, buf, faults, historyVars>>

(* The row that won the claim publishes finalize_batch; so does            *)
(* dispatch_batch, without a claim, for an upload with no rows.            *)
PublishFinalize(a) ==
  /\ pc[a] \in {"publish_finalize", "d_empty"}
  /\ Publish(FinalizeMsg)
  /\ Return(a, stack[a])
  /\ UNCHANGED <<job, storeVars, faults, historyVars>>

-----------------------------------------------------------------------------
(* enqueue_next_window and claim_row_window                                *)

(* How many rows this call may claim: the caller's limit argument.         *)
Limit(a) ==
  IF stack[a] # <<>> THEN Chunk
  ELSE CASE msg[a].task = "dispatch" -> Window
         [] msg[a].task = "tick" -> Lesser(IF Chunk > 0 THEN Chunk ELSE 1, tick[a].deficit)
         [] OTHER -> Chunk

(* claim_row_window reads the job row: nothing to claim, or a cursor value *)
(* and the value to swap it for.                                           *)
ReadCursor(a) ==
  /\ pc[a] = "read"
  /\ IF Limit(a) <= 0 \/ cas[a].attempts = MaxAttempts
          \/ job.status # "processing" \/ job.dispatched >= N
     THEN Return(a, stack[a])
     ELSE /\ cas' = [cas EXCEPT ![a] = [read |-> job.dispatched,
                                         to |-> Lesser(job.dispatched + Limit(a), N),
                                         attempts |-> cas[a].attempts]]
          /\ Goto(a, "cas")
          /\ UNCHANGED <<msg, rec, stack, tick, buf>>
  /\ UNCHANGED <<job, storeVars, queue, faults, historyVars>>

BlindSwap(a) == TRUE

(* UPDATE ... WHERE dispatched = <read value>: the swap succeeds only if   *)
(* nobody claimed since the read.                                          *)
CursorUnchanged(a) == job.dispatched = cas[a].read

OneBasedWindow(a) ==
  [rows |-> [i \in 1 .. cas[a].to - cas[a].read |-> cas[a].read + i], found |-> TRUE]

(* The half-open range of rows the caller now owns.                        *)
ClaimedWindow(a) ==
  [rows |-> [i \in 1 .. cas[a].to - cas[a].read |-> cas[a].read + i - 1], found |-> TRUE]

SwapCursor(a) ==
  /\ pc[a] = "cas"
  /\ IF CursorUnchanged(a)
     THEN /\ job' = [job EXCEPT !.dispatched = cas[a].to]
          /\ stack' = [stack EXCEPT ![a] = <<ClaimedWindow(a)>> \o @]
          /\ cas' = [cas EXCEPT ![a] = NoCas]
          /\ Goto(a, "args")
     ELSE /\ cas' = [cas EXCEPT ![a] = [read |-> 0, to |-> 0, attempts |-> @.attempts + 1]]
          /\ Goto(a, "read")
          /\ UNCHANGED <<job, stack>>
  /\ UNCHANGED <<storeVars, queue, msg, rec, tick, buf, faults, historyVars>>

(* _row_args_for: the cached arguments, else the upload parsed again (and  *)
(* cached again), else the window's rows are unrecoverable.                *)
FetchRowArgs(a) ==
  /\ pc[a] = "args"
  /\ stack' = [stack EXCEPT ![a][1].found = rowargs \/ upload]
  /\ rowargs' = (rowargs \/ upload)
  /\ rec' = [rec EXCEPT ![a] = NoRec]
  /\ Goto(a, "publish")
  /\ UNCHANGED <<job, results, upload, output, queue, msg, cas, tick, buf, faults, historyVars>>

(* The publish loop: one message per row, ...                              *)
PublishRow(a) ==
  /\ pc[a] = "publish"
  /\ Head(stack[a]).rows # <<>> /\ Head(stack[a]).found
  /\ Publish(RowMsg(Head(Head(stack[a]).rows), 0))
  /\ stack' = [stack EXCEPT ![a][1].rows = Tail(@)]
  /\ tick' = [tick EXCEPT ![a].published =
                IF msg[a] = TickMsg /\ Len(stack[a]) = 1 THEN @ + 1 ELSE @]
  /\ UNCHANGED <<job, storeVars, pc, msg, rec, cas, buf, faults, historyVars>>

(* ... or a failed row on the spot when its arguments are gone, through    *)
(* _record_failed_row and so through another _after_row_terminal.          *)
FailUnrecoverable(a) ==
  /\ pc[a] = "publish"
  /\ Head(stack[a]).rows # <<>> /\ ~Head(stack[a]).found
  /\ rec' = [rec EXCEPT ![a] = [row |-> Head(Head(stack[a]).rows),
                                outcome |-> "failed", rescue |-> FALSE]]
  /\ stack' = [stack EXCEPT ![a][1].rows = Tail(@)]
  /\ Goto(a, "store")
  /\ UNCHANGED <<job, storeVars, queue, msg, cas, tick, buf, faults, historyVars>>

WindowDone(a) ==
  /\ pc[a] = "publish"
  /\ Head(stack[a]).rows = <<>>
  /\ Return(a, Tail(stack[a]))
  /\ UNCHANGED <<job, storeVars, queue, faults, historyVars>>

-----------------------------------------------------------------------------
(* dispatch_batch                                                          *)

(* get_bytes and parse_upload; without the file the dispatch fails.        *)
DispatchLoad(a) ==
  /\ pc[a] = "d_load"
  /\ Goto(a, IF upload THEN "d_mark" ELSE "d_failed")
  /\ UNCHANGED <<job, storeVars, queue, msg, rec, stack, cas, tick, buf, faults, historyVars>>

(* The UPDATE that starts the job and rewinds its dispatch cursor.         *)
DispatchMark(a) ==
  /\ pc[a] = "d_mark"
  /\ job' = [job EXCEPT !.status = "processing", !.dispatched = 0]
  /\ Goto(a, IF N = 0 THEN "d_empty" ELSE "d_cache")
  /\ UNCHANGED <<storeVars, queue, msg, rec, stack, cas, tick, buf, faults, historyVars>>

(* _cache_row_args is best effort: its own fault leaves rowargs alone.     *)
CacheRowArgs(a) ==
  /\ pc[a] = "d_cache"
  /\ rowargs' = TRUE
  /\ Goto(a, "read")
  /\ UNCHANGED <<job, results, upload, output, queue, msg, rec, stack, cas, tick,
                 buf, faults, historyVars>>

DispatchFailed(a) ==
  /\ pc[a] = "d_failed"
  /\ job' = [job EXCEPT !.status = "failed"]
  /\ Release(a)
  /\ UNCHANGED <<storeVars, queue, faults, historyVars>>

-----------------------------------------------------------------------------
(* finalize_batch                                                          *)

FinalizeStart(a) ==
  /\ pc[a] = "f_start"
  /\ IF job.status = "completed"
     THEN Release(a)
     ELSE Goto(a, "f_load") /\ UNCHANGED <<msg, rec, stack, cas, tick, buf>>
  /\ UNCHANGED <<job, storeVars, queue, faults, historyVars>>

FinalizeLoadAndDrop(a) ==
  /\ pc[a] = "f_load"
  /\ upload' = FALSE
  /\ Goto(a, "f_collect")
  /\ UNCHANGED <<job, results, rowargs, output, queue, msg, rec, stack, cas, tick,
                 buf, faults, historyVars>>

(* The upload is read first; without it the task raises.                   *)
FinalizeLoad(a) ==
  /\ pc[a] = "f_load"
  /\ IF upload
     THEN Goto(a, "f_collect") /\ UNCHANGED <<msg, rec, stack, cas, tick, buf>>
     ELSE Release(a)
  /\ UNCHANGED <<job, storeVars, queue, faults, historyVars>>

(* hgetall, every missing row filled with a failed placeholder.            *)
FinalizeCollect(a) ==
  /\ pc[a] = "f_collect"
  /\ buf' = [buf EXCEPT ![a] =
               [r \in Rows |-> IF results[r] = "unset" THEN "gap" ELSE results[r]]]
  /\ Goto(a, "f_put")
  /\ UNCHANGED <<job, storeVars, queue, msg, rec, stack, cas, tick, faults, historyVars>>

FinalizePut(a) ==
  /\ pc[a] = "f_put"
  /\ output' = {buf[a]}
  /\ Goto(a, "f_complete")
  /\ UNCHANGED <<job, results, rowargs, upload, queue, msg, rec, stack, cas, tick,
                 buf, faults, historyVars>>

FinalizeComplete(a) ==
  /\ pc[a] = "f_complete"
  /\ job' = [job EXCEPT !.status = "completed"]
  /\ Goto(a, "f_clean_upload")
  /\ UNCHANGED <<storeVars, queue, msg, rec, stack, cas, tick, buf, faults, historyVars>>

CleanUpload(a) ==
  /\ pc[a] = "f_clean_upload"
  /\ upload' = FALSE
  /\ Goto(a, "f_clean_results")
  /\ UNCHANGED <<job, results, rowargs, output, queue, msg, rec, stack, cas, tick,
                 buf, faults, historyVars>>

CleanResults(a) ==
  /\ pc[a] = "f_clean_results"
  /\ results' = [r \in Rows |-> "unset"]
  /\ purged' = TRUE
  /\ Goto(a, "f_clean_rowargs")
  /\ UNCHANGED <<job, rowargs, upload, output, queue, msg, rec, stack, cas, tick,
                 buf, faults, counted>>

CleanRowArgs(a) ==
  /\ pc[a] = "f_clean_rowargs"
  /\ rowargs' = FALSE
  /\ Release(a)
  /\ UNCHANGED <<job, results, upload, output, queue, faults, historyVars>>

-----------------------------------------------------------------------------
(* topup_agentic_queue, for this job                                       *)

(* The deficit a tick sees: what scheduler_state and _round_robin_topup    *)
(* compute from the job row.                                               *)
Deficit ==
  LET outstanding == IF job.dispatched > job.processed
                     THEN job.dispatched - job.processed ELSE 0
      room == IF Window > outstanding THEN Window - outstanding ELSE 0
  IN IF job.dispatched >= N THEN 0 ELSE Lesser(room, N - job.dispatched)

TickStart(a) ==
  /\ pc[a] = "idle"
  /\ msg' = [msg EXCEPT ![a] = TickMsg]
  /\ tick' = [tick EXCEPT ![a] =
       [deficit |-> IF job.status = "processing" THEN Deficit ELSE 0, published |-> 0]]
  /\ Goto(a, "sweep_select")
  /\ UNCHANGED <<job, storeVars, queue, rec, stack, cas, buf, faults, historyVars>>

StuckAndLate ==
  /\ job.status = "processing" /\ ~job.claimed
  /\ job.dispatched >= N /\ job.processed > N

(* _sweep_stuck_domestic: the SELECT ...                                   *)
Stuck ==
  /\ job.status = "processing" /\ ~job.claimed
  /\ job.dispatched >= N /\ job.processed >= N

SweepSelect(a) ==
  /\ pc[a] = "sweep_select"
  /\ Goto(a, IF Stuck THEN "sweep_claim" ELSE "topup")
  /\ UNCHANGED <<job, storeVars, queue, msg, rec, stack, cas, tick, buf, faults, historyVars>>

(* ... the claim, which checks neither status nor dispatched again ...     *)
SweepClaim(a) ==
  /\ pc[a] = "sweep_claim"
  /\ IF ClaimMatches
     THEN job' = [job EXCEPT !.claimed = TRUE] /\ Goto(a, "sweep_publish")
     ELSE Goto(a, "topup") /\ UNCHANGED job
  /\ UNCHANGED <<storeVars, queue, msg, rec, stack, cas, tick, buf, faults, historyVars>>

(* ... and the publication.                                                *)
SweepPublish(a) ==
  /\ pc[a] = "sweep_publish"
  /\ Publish(FinalizeMsg)
  /\ Goto(a, "topup")
  /\ UNCHANGED <<job, storeVars, msg, rec, stack, cas, tick, buf, faults, historyVars>>

(* _round_robin_topup: another chunk while there is deficit, then the tick *)
(* ends.                                                                   *)
TopUp(a) ==
  /\ pc[a] = "topup"
  /\ IF tick[a].deficit > 0
     THEN Goto(a, "read") /\ UNCHANGED <<msg, rec, stack, cas, tick, buf>>
     ELSE Release(a)
  /\ UNCHANGED <<job, storeVars, queue, faults, historyVars>>

-----------------------------------------------------------------------------
(* Faults.  An exception is caught where the code catches it; a crash is a *)
(* worker process that dies (SIGKILL, the hard time limit); a redelivered  *)
(* message is handed out and stays in the broker; a miss is arguments that *)
(* neither Redis nor storage can deliver.                                  *)

Fault(kind, label) ==
  /\ faults < MaxFaults
  /\ <<kind, label>> \in FaultPoints
  /\ faults' = faults + 1

(* Raised in the row's own try block: recorded as failed by the except     *)
(* BaseException branch; raised inside that branch: logged, and the row    *)
(* has no outcome.                                                         *)
RaiseInRow(a) ==
  /\ pc[a] \in {"store", "bump"} /\ stack[a] = <<>>
  /\ Fault("raise", IF rec[a].rescue THEN "rescue" ELSE pc[a])
  /\ IF rec[a].rescue
     THEN Release(a)
     ELSE Recording(a, rec[a].row, "failed", TRUE)
  /\ UNCHANGED <<job, storeVars, queue, historyVars>>

(* Raised while recording an unrecoverable row: the publish loop logs it   *)
(* and goes on.                                                            *)
RaiseInUnrecoverable(a) ==
  /\ pc[a] \in {"store", "bump"} /\ stack[a] # <<>>
  /\ Fault("raise", pc[a])
  /\ Return(a, stack[a])
  /\ UNCHANGED <<job, storeVars, queue, historyVars>>

(* Raised by the finalize claim or its publication: _after_row_terminal    *)
(* swallows it.                                                            *)
RaiseInSettle(a) ==
  /\ pc[a] \in {"settle", "publish_finalize"}
  /\ Fault("raise", pc[a])
  /\ Return(a, stack[a])
  /\ UNCHANGED <<job, storeVars, queue, historyVars>>

(* Raised by enqueue_next_window: swallowed when _after_row_terminal made  *)
(* the call; from dispatch_batch it fails the job; from the tick it ends   *)
(* the tick.  Rows claimed and not yet published stay claimed.             *)
RaiseInWindow(a) ==
  /\ pc[a] \in {"read", "cas", "args", "publish"}
  /\ pc[a] = "publish" => Head(stack[a]).rows # <<>>
  /\ LET left == IF pc[a] \in {"args", "publish"} THEN Tail(stack[a]) ELSE stack[a]
         swallowed == left # <<>> \/ msg[a].task = "row"
     IN \/ /\ swallowed
           /\ Fault("raise", pc[a])
           /\ Return(a, left)
        \/ /\ ~swallowed /\ msg[a].task = "dispatch"
           /\ Fault("raise", "d_window")
           /\ Goto(a, "d_failed")
           /\ stack' = [stack EXCEPT ![a] = <<>>]
           /\ rec' = [rec EXCEPT ![a] = NoRec]
           /\ cas' = [cas EXCEPT ![a] = NoCas]
           /\ UNCHANGED <<msg, tick, buf>>
        \/ /\ ~swallowed /\ msg[a].task # "dispatch"
           /\ Fault("raise", pc[a])
           /\ Release(a)
  /\ UNCHANGED <<job, storeVars, queue, historyVars>>

RaiseInDispatch(a) ==
  /\ pc[a] \in {"d_load", "d_mark", "d_empty", "d_cache", "d_failed"}
  /\ Fault("raise", pc[a])
  /\ CASE pc[a] = "d_cache" -> Goto(a, "read") /\ UNCHANGED <<msg, rec, stack, cas, tick, buf>>
       [] pc[a] = "d_failed" -> Release(a)
       [] OTHER -> Goto(a, "d_failed") /\ UNCHANGED <<msg, rec, stack, cas, tick, buf>>
  /\ UNCHANGED <<job, storeVars, queue, historyVars>>

(* finalize_batch has no handler of its own up to the commit; each cleanup *)
(* step has one.                                                           *)
RaiseInFinalize(a) ==
  /\ pc[a] \in {"f_start", "f_load", "f_collect", "f_put", "f_complete",
                "f_clean_upload", "f_clean_results", "f_clean_rowargs"}
  /\ Fault("raise", pc[a])
  /\ CASE pc[a] = "f_clean_upload" ->
            Goto(a, "f_clean_results") /\ UNCHANGED <<msg, rec, stack, cas, tick, buf>>
       [] pc[a] = "f_clean_results" ->
            Goto(a, "f_clean_rowargs") /\ UNCHANGED <<msg, rec, stack, cas, tick, buf>>
       [] OTHER -> Release(a)
  /\ UNCHANGED <<job, storeVars, queue, historyVars>>

(* A failing sweep does not stop the tick.                                 *)
RaiseInSweep(a) ==
  /\ pc[a] \in {"sweep_select", "sweep_claim", "sweep_publish"}
  /\ Fault("raise", pc[a])
  /\ Goto(a, "topup")
  /\ UNCHANGED <<job, storeVars, queue, msg, rec, stack, cas, tick, buf, historyVars>>

Crash(a) ==
  /\ pc[a] # "idle"
  /\ Fault("crash", pc[a])
  /\ Release(a)
  /\ UNCHANGED <<job, storeVars, queue, historyVars>>

Redeliver(m) ==
  /\ queue[m] > 0
  /\ Fault("redeliver", m.task)
  /\ Publish(m)
  /\ UNCHANGED <<job, storeVars, actorVars, historyVars>>

ArgsMiss(a) ==
  /\ pc[a] = "args"
  /\ Fault("miss", "args")
  /\ stack' = [stack EXCEPT ![a][1].found = FALSE]
  /\ rec' = [rec EXCEPT ![a] = NoRec]
  /\ Goto(a, "publish")
  /\ UNCHANGED <<job, storeVars, queue, msg, cas, tick, buf, historyVars>>

-----------------------------------------------------------------------------
RowStep(a) ==
  \/ MatchSucceeds(a) \/ MatchRetries(a) \/ MatchExhausted(a) \/ MatchBreaks(a)
  \/ StoreRowResult(a) \/ BumpCounters(a)
  \/ ClaimFinalize(a) \/ PublishFinalize(a)

WindowStep(a) ==
  \/ ReadCursor(a) \/ SwapCursor(a) \/ FetchRowArgs(a)
  \/ PublishRow(a) \/ FailUnrecoverable(a) \/ WindowDone(a)

DispatchStep(a) ==
  \/ DispatchLoad(a) \/ DispatchMark(a) \/ CacheRowArgs(a) \/ DispatchFailed(a)

FinalizeStep(a) ==
  \/ FinalizeStart(a) \/ FinalizeLoad(a) \/ FinalizeCollect(a)
  \/ FinalizePut(a) \/ FinalizeComplete(a)
  \/ CleanUpload(a) \/ CleanResults(a) \/ CleanRowArgs(a)

TickStep(a) == SweepSelect(a) \/ SweepClaim(a) \/ SweepPublish(a) \/ TopUp(a)

Run(a) == RowStep(a) \/ WindowStep(a) \/ DispatchStep(a) \/ FinalizeStep(a) \/ TickStep(a)

Raise(a) ==
  \/ RaiseInRow(a) \/ RaiseInUnrecoverable(a) \/ RaiseInSettle(a)
  \/ RaiseInWindow(a) \/ RaiseInDispatch(a) \/ RaiseInFinalize(a) \/ RaiseInSweep(a)

Next ==
  \/ \E a \in Workers : Take(a)
  \/ \E a \in Beats : TickStart(a)
  \/ \E a \in Actors : Run(a) \/ Raise(a) \/ Crash(a) \/ ArgsMiss(a)
  \/ \E m \in QueueMsgs : Redeliver(m)

Spec == Init /\ [][Next]_vars

(* A worker that is alive takes messages and finishes what it took; beat   *)
(* keeps ticking.  Nothing is assumed of faults.                           *)
Fairness ==
  /\ \A a \in Workers : WF_vars(Take(a) \/ Run(a))
  /\ \A a \in Beats : WF_vars(TickStart(a) \/ Run(a))

FairSpec == Spec /\ Fairness

-----------------------------------------------------------------------------
(* Properties.                                                             *)

Labels == {"idle", "match", "store", "bump", "settle", "publish_finalize",
           "read", "cas", "args", "publish",
           "d_load", "d_mark", "d_empty", "d_cache", "d_failed",
           "f_start", "f_load", "f_collect", "f_put", "f_complete",
           "f_clean_upload", "f_clean_results", "f_clean_rowargs",
           "sweep_select", "sweep_claim", "sweep_publish", "topup"}

JobType == [status : {"queued", "processing", "completed", "failed"},
            dispatched : 0 .. N, processed : Nat, matched : Nat,
            no_match : Nat, failed : Nat, claimed : BOOLEAN]

WindowType == [rows : Seq(Rows), found : BOOLEAN]

DataTypes ==
  /\ job \in JobType
  /\ results \in [Rows -> Outcomes \cup {"unset"}]
  /\ rowargs \in BOOLEAN /\ upload \in BOOLEAN
  /\ output \subseteq [Rows -> Outcomes \cup {"gap"}]
  /\ queue \in [QueueMsgs -> Nat]
  /\ faults \in Nat
  /\ counted \subseteq Rows
  /\ purged \in BOOLEAN

ActorTypes ==
  /\ pc \in [Actors -> Labels]
  /\ msg \in [Actors -> QueueMsgs \cup {NoMsg, TickMsg}]
  /\ rec \in [Actors -> [row : Nat, outcome : Outcomes, rescue : BOOLEAN]]
  /\ stack \in [Actors -> Seq(WindowType)]
  /\ cas \in [Actors -> [read : 0 .. N, to : 0 .. N, attempts : 0 .. MaxAttempts]]
  /\ tick \in [Actors -> [deficit : Int, published : Nat]]
  /\ buf \in [Actors -> [Rows -> Outcomes \cup {"gap"}] \cup {<<>>}]

(* What an actor has in hand where it needs it: a row message to match, a  *)
(* row of this job to record, a claimed window to publish, a file to put.    *)
InHand ==
  \A a \in Actors :
    /\ pc[a] = "match" => msg[a] \in QueueMsgs /\ msg[a].task = "row"
    /\ pc[a] \in {"store", "bump"} => rec[a].row \in Rows
    /\ pc[a] = "cas" => cas[a].attempts < MaxAttempts
    /\ pc[a] \in {"args", "publish"} => stack[a] # <<>>
    /\ pc[a] = "f_put" => buf[a] \in [Rows -> Outcomes \cup {"gap"}]

(* Every variable keeps its type and every actor has in hand what its next *)
(* call needs; in particular the dispatch cursor never runs past the last  *)
(* row (claim_row_window's min) and only rows of the job are recorded.     *)
TypeOK == DataTypes /\ ActorTypes /\ InHand

Stored == {r \in Rows : results[r] # "unset"}

(* The counters never run ahead of the results: until the hash is deleted, *)
(* processed counts no row without a stored outcome, however often a row   *)
(* is redelivered, retried or recorded again by the rescue branch.  It is  *)
(* what HSETNX's first-writer answer is for (_store_row_result).           *)
NeverOvercounted == ~purged => job.processed <= Cardinality(Stored)

(* Whoever wins the finalize claim wins it with every row's outcome        *)
(* already stored: processed >= total must never be true earlier.          *)
FinalizeCoversAllRows == job.claimed /\ ~purged => Stored = Rows

FinalizeLabels == {"f_start", "f_load", "f_collect", "f_put", "f_complete",
                   "f_clean_upload", "f_clean_results", "f_clean_rowargs"}

(* What makes the two properties above inductive.  A row is counted after  *)
(* its outcome is stored, and each counted row once (at most one actor     *)
(* stands between _store_row_result's HSETNX and _bump_counters for it);   *)
(* the claim, a finalize message, a running finalize_batch and a deleted   *)
(* hash each mean that every row has been counted.                         *)
CountingInv ==
  /\ ~purged =>
       /\ counted \subseteq Stored
       /\ job.processed = Cardinality(counted)
       /\ \A a \in Actors : pc[a] = "bump" => rec[a].row \in Stored \ counted
       /\ \A a, b \in Actors :
            pc[a] = "bump" /\ pc[b] = "bump" /\ a # b => rec[a].row # rec[b].row
  /\ \/ job.claimed \/ purged \/ queue[FinalizeMsg] > 0
     \/ \E a \in Actors : pc[a] \in FinalizeLabels
     => counted = Rows
  /\ \A a \in Actors :
       /\ pc[a] = "d_empty" => N = 0
       /\ pc[a] \in {"publish_finalize", "sweep_publish"} => job.claimed

(* No delivered file contains the placeholder for a missing result, so a   *)
(* second look at the results hash, after it is deleted, never happens.    *)
OutputHasNoGap == \A file \in output : \A r \in Rows : file[r] # "gap"

(* finalize_batch gives up its inputs only after the output is written and *)
(* the job committed as completed, so a finalize that fails or dies at any *)
(* point leaves either a retryable job or a delivered one.                 *)
InputsOutliveTheOutput ==
  ~upload \/ purged => job.status = "completed" /\ output # {}

(* Where a row that has no stored outcome yet can be: a queued message, a  *)
(* running task, an unrecoverable row being recorded, a claimed window.    *)
QueuedCopies(r) == {k \in 0 .. MaxRetries : queue[RowMsg(r, k)] > 0}

RunningCopies(r) ==
  {a \in Actors : /\ pc[a] \in {"match", "store"}
                  /\ IF stack[a] = <<>> THEN msg[a].row = r ELSE rec[a].row = r}

ClaimedCopies(r) ==
  {c \in Actors \X (1 .. N) \X (1 .. N) :
     /\ c[2] \in DOMAIN stack[c[1]]
     /\ c[3] \in DOMAIN stack[c[1]][c[2]].rows
     /\ stack[c[1]][c[2]].rows[c[3]] = r}

(* Self-refill, nested refills, the initial window and a beat tick race to *)
(* claim rows, and still each row is published once: at any time at most   *)
(* one copy of it is queued, claimed or running (claim_row_window's "THIS  *)
(* caller alone owns").                                                    *)
AtMostOneCopy ==
  \A r \in Rows :
    /\ \A k \in 0 .. MaxRetries : queue[RowMsg(r, k)] <= 1
    /\ Cardinality(QueuedCopies(r)) + Cardinality(RunningCopies(r))
         + Cardinality(ClaimedCopies(r)) <= 1

Delivered == CHOOSE file \in output : TRUE

Ledger == INSTANCE RowLedger
  WITH outcome <- IF job.status = "completed" THEN Delivered ELSE results,
       delivered <- job.status = "completed"

(* The job keeps the ledger's promise: one outcome per row, never          *)
(* replaced, one delivery with all of them (HSETNX, claim_finalize and the *)
(* order of finalize_batch together).                                      *)
KeepsTheLedger == Ledger!Spec

(* Every submitted job completes: self-refill alone drives it to the end   *)
(* when beat is down, and the sweep and the top-up repair what an error or *)
(* a death between the counter bump and the refill leaves undone.          *)
Completes == <>(job.status = "completed")

(* Nothing is queued or running, the job is still processing, and neither  *)
(* a top-up nor the sweep applies to it.                                   *)
Wedged ==
  /\ job.status = "processing"
  /\ \A m \in QueueMsgs : queue[m] = 0
  /\ \A a \in Actors : pc[a] = "idle"
  /\ Deficit = 0
  /\ job.claimed \/ job.processed < N

(* A job is never left processing for ever: what the except BaseException  *)
(* branch of agentic_batch_row, the repair sweep and finalize_batch's      *)
(* placeholder rows are for.                                               *)
NeverWedged == ~Wedged
=============================================================================
