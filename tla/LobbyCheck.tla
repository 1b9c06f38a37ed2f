------------------------------ MODULE LobbyCheck ------------------------------
(***************************************************************************)
(* One lobby-check job: a submission of image links (routers/              *)
(* lobby_check.py), dispatched in windows to the lobby-check queue and     *)
(* extracted one image per task (tasks/lobby_check_task.py).  It is built  *)
(* like the external title match, but no beat tick tops a job up and none  *)
(* sweeps it: rows that end must publish the rest and claim the end.       *)
(*                                                                         *)
(* A label of step stands before one transaction or broker call of a task. *)
(* What the model reads off an image is left out.                          *)
(***************************************************************************)
EXTENDS Integers, FiniteSets, FiniteSetsExt

CONSTANTS
  Images,     \* the rows of the submission
  Takers,     \* worker slots of the lobby-check queue
  Window,     \* _current_window
  Refill,     \* LOBBY_CHECK_ROUNDROBIN_CHUNK
  Attempts,   \* LOBBY_CHECK_ROW_MAX_ATTEMPTS
  MaxErrors   \* bound on the database errors of one behaviour

LobbyAssumption ==
  /\ IsFiniteSet(Images) /\ 0 \notin Images   \* row 0 stands for no row
  /\ {Window, Refill, Attempts} \subseteq Nat \ {0}
  /\ MaxErrors \in Nat

VARIABLES
  job,     \* LobbyCheckJob
  image,   \* per row, LobbyCheckRow.status
  queue,   \* the messages the broker holds
  taker,   \* per worker, the task it runs
  errors,
  dropped  \* history: has the follow-up of an ended row been lost?

lobbyVars == <<job, image, queue, taker, errors, dropped>>

Free == [step |-> "free", row |-> 0, tries |-> 0, outcome |-> "none", limit |-> 0, rows |-> {}, rescue |-> FALSE]
RowMsg(i, n) == [step |-> "load", row |-> i, tries |-> n]
Finished == {"completed", "completed_with_errors", "failed"}
Pending == {i \in Images : image[i] = "pending"}
Outstanding == {i \in Images : image[i] \in {"pending", "dispatched"}}
Failed == {i \in Images : image[i] = "failed"}

\* submit_lobby_check committed the job with its rows and queued the dispatch.
LobbyInit ==
  /\ job = [phase |-> "queued", claimed |-> FALSE, processed |-> 0, succeeded |-> 0, failed |-> 0]
  /\ image = [i \in Images |-> "pending"]
  /\ queue = {[step |-> "dispatch", row |-> 0, tries |-> 0]}
  /\ taker = [t \in Takers |-> Free]
  /\ errors = 0
  /\ dropped = FALSE

Take(t) ==
  /\ taker[t] = Free
  /\ \E m \in queue : /\ queue' = queue \ {m}
                      /\ taker' = [taker EXCEPT ![t] = [Free EXCEPT !.step = m.step, !.row = m.row, !.tries = m.tries]]
  /\ UNCHANGED <<job, image, errors, dropped>>

Error == errors < MaxErrors /\ errors' = errors + 1
Goto(t, step) == taker' = [taker EXCEPT ![t].step = step]
Done(t) == taker' = [taker EXCEPT ![t] = Free]
Fill(t, limit) == taker' = [taker EXCEPT ![t].step = "select", ![t].limit = limit]

\* lobby_check_dispatch_job
Dispatch(t) ==
  /\ taker[t].step = "dispatch"
  /\ job' = [job EXCEPT !.phase = "processing"]
  /\ IF Pending = {} THEN Goto(t, "publish finalize") ELSE Fill(t, Window)
  /\ UNCHANGED <<image, queue, errors, dropped>>

\* The image is read or is refused for good; a throttled or broken call is
\* tried again while Celery has retries left.
Extract(t) ==
  /\ taker[t].step = "load"
  /\ \E outcome \in {"completed", "failed"} :
       taker' = [taker EXCEPT ![t].step = "commit", ![t].outcome = outcome]
  /\ UNCHANGED <<job, image, queue, errors, dropped>>

ExtractAgain(t) ==
  /\ taker[t].step = "load" /\ taker[t].tries < Attempts - 1
  /\ queue' = queue \cup {RowMsg(taker[t].row, taker[t].tries + 1)}
  /\ Done(t)
  /\ UNCHANGED <<job, image, errors, dropped>>

\* The row's status and the job's counters are two transactions.
CommitImage(t) ==
  /\ taker[t].step = "commit"
  /\ image' = [image EXCEPT ![taker[t].row] = taker[t].outcome]
  /\ Goto(t, "bump")
  /\ UNCHANGED <<job, queue, errors, dropped>>

Bump(t) ==
  /\ taker[t].step = "bump"
  /\ job' = [job EXCEPT !.processed = @ + 1,
                        !.succeeded = IF taker[t].outcome = "completed" THEN @ + 1 ELSE @,
                        !.failed = IF taker[t].outcome = "failed" THEN @ + 1 ELSE @]
  /\ Goto(t, "settle")
  /\ UNCHANGED <<image, queue, errors, dropped>>

\* Mutant of Rescue: the row is written as failed, the job is not told.
QuietRescue(t) == [taker EXCEPT ![t].step = "settle", ![t].outcome = "failed", ![t].rescue = TRUE]

\* The except branch goes through _record_failed_row.
Rescue(t) == [taker EXCEPT ![t].step = "commit", ![t].outcome = "failed", ![t].rescue = TRUE]

\* An error of either transaction, or the soft time limit before it.  A
\* second one, in the rescue, is swallowed.
RowBreaks(t) ==
  /\ taker[t].step \in {"commit", "bump"}
  /\ Error
  /\ taker' = IF taker[t].rescue THEN [taker EXCEPT ![t] = Free] ELSE Rescue(t)
  /\ UNCHANGED <<job, image, queue, dropped>>

NoneOutstanding == Outstanding = {}

\* _after_row_terminal: the count, then claim_finalize with the same
\* condition; whoever does not win publishes more rows.
Settle(t) ==
  /\ taker[t].step = "settle"
  /\ IF NoneOutstanding THEN Goto(t, "claim") ELSE Fill(t, Refill)
  /\ UNCHANGED <<job, image, queue, errors, dropped>>

Claim(t) ==
  /\ taker[t].step = "claim"
  /\ IF NoneOutstanding /\ ~job.claimed
     THEN job' = [job EXCEPT !.claimed = TRUE] /\ Goto(t, "publish finalize")
     ELSE Fill(t, Refill) /\ UNCHANGED job
  /\ UNCHANGED <<image, queue, errors, dropped>>

PublishFinalize(t) ==
  /\ taker[t].step = "publish finalize"
  /\ queue' = queue \cup {[step |-> "finalize", row |-> 0, tries |-> 0]}
  /\ Done(t)
  /\ UNCHANGED <<job, image, errors, dropped>>

\* enqueue_next_window: candidates are read, claimed one by one, published.
Select(t) ==
  /\ taker[t].step = "select"
  /\ IF job.phase # "processing" \/ Pending = {} THEN Done(t)
     ELSE \E rows \in UNION {kSubset(n, Pending) : n \in {Min({taker[t].limit, Cardinality(Pending)})}} :
            taker' = [taker EXCEPT ![t].step = "claim rows", ![t].rows = rows]
  /\ UNCHANGED <<job, image, queue, errors, dropped>>

\* Mutant of Won: the update is not guarded by the status.
WonAll(rows) == rows

Won(rows) == rows \cap Pending

ClaimRows(t) ==
  /\ taker[t].step = "claim rows"
  /\ image' = [i \in Images |-> IF i \in Won(taker[t].rows) THEN "dispatched" ELSE image[i]]
  /\ taker' = [taker EXCEPT ![t].step = "publish rows", ![t].rows = Won(@)]
  /\ UNCHANGED <<job, queue, errors, dropped>>

PublishRows(t) ==
  /\ taker[t].step = "publish rows"
  /\ queue' = queue \cup {RowMsg(i, 0) : i \in taker[t].rows}
  /\ Done(t)
  /\ UNCHANGED <<job, image, errors, dropped>>

\* lobby_check_finalize_job
Finalize(t) ==
  /\ taker[t].step = "finalize"
  /\ job' = IF job.phase \in Finished THEN job
            ELSE [job EXCEPT !.phase = IF job.failed = 0 THEN "completed" ELSE "completed_with_errors"]
  /\ Done(t)
  /\ UNCHANGED <<image, queue, errors, dropped>>

\* An error between two publications leaves some of the rows published; rows
\* that were claimed stay claimed.
PublishSome(t) ==
  \E some \in IF taker[t].step = "publish rows" THEN SUBSET taker[t].rows ELSE {{}} :
    queue' = queue \cup {RowMsg(i, 0) : i \in some}

\* _after_row_terminal swallows whatever goes wrong in it, the claim, its
\* message and the refill included.  Nobody makes up for a finalize_job that
\* breaks.
FollowUpLost(t) ==
  /\ \/ /\ taker[t].step \in {"settle", "claim", "select", "claim rows", "publish rows", "publish finalize"}
        /\ taker[t].row # 0
     \/ taker[t].step = "finalize"
  /\ Error
  /\ dropped' = TRUE
  /\ PublishSome(t)
  /\ Done(t)
  /\ UNCHANGED <<job, image>>

\* An error of the dispatch, wherever its rows are by then.
DispatchFails(t) ==
  /\ taker[t].step \in {"dispatch", "select", "claim rows", "publish rows", "publish finalize"}
  /\ taker[t].row = 0
  /\ Error
  /\ PublishSome(t)
  /\ Goto(t, "mark failed")
  /\ UNCHANGED <<job, image, dropped>>

\* Its handler overwrites the phase, whatever it is.  The rows keep their
\* status: those published are worked on, the others are left.
MarkFailed(t) ==
  /\ taker[t].step = "mark failed"
  /\ job' = [job EXCEPT !.phase = "failed"]
  /\ Done(t)
  /\ UNCHANGED <<image, queue, errors, dropped>>

\* An error of the handler is swallowed.
MarkFails(t) ==
  /\ taker[t].step = "mark failed"
  /\ Error
  /\ Done(t)
  /\ UNCHANGED <<job, image, queue, dropped>>

LobbyStep(t) ==
  \/ Take(t) \/ Dispatch(t) \/ Extract(t) \/ CommitImage(t) \/ Bump(t) \/ Settle(t) \/ Claim(t)
  \/ PublishFinalize(t) \/ Select(t) \/ ClaimRows(t) \/ PublishRows(t) \/ Finalize(t) \/ MarkFailed(t)

LobbyFault(t) == RowBreaks(t) \/ FollowUpLost(t) \/ DispatchFails(t) \/ MarkFails(t)

LobbyNext == \E t \in Takers : LobbyStep(t) \/ ExtractAgain(t) \/ LobbyFault(t)

LobbySpec == LobbyInit /\ [][LobbyNext]_lobbyVars

LobbyTypeOK ==
  /\ job.phase \in Finished \cup {"queued", "processing"}
  /\ {job.processed, job.succeeded, job.failed} \subseteq 0 .. Cardinality(Images)
  /\ image \in [Images -> {"pending", "dispatched", "completed", "failed"}]
  /\ \A m \in queue : m.step \in {"dispatch", "load", "finalize"} /\ m.tries \in 0 .. Attempts - 1
  /\ \A t \in Takers : taker[t].rows \subseteq Images /\ taker[t].row \in Images \cup {0}
  /\ errors \in 0 .. MaxErrors /\ dropped \in BOOLEAN

(***************************************************************************)
(* The totals a client reads agree with the rows: a finished job whose     *)
(* tasks are over counted every ended image once, under the outcome its    *)
(* row has, also when a row's transactions broke and it was recorded a     *)
(* second time.  All images have ended, unless the dispatch failed: its    *)
(* job may be at "failed" with rows nobody will take up.                   *)
(***************************************************************************)
TotalsAddUp ==
  job.phase \in Finished /\ (\A t \in Takers : taker[t] = Free) /\ errors <= 1 =>
    /\ job.processed = Cardinality(Images \ Outstanding)
    /\ job.failed = Cardinality(Failed)
    /\ job.succeeded = Cardinality((Images \ Outstanding) \ Failed)
    /\ job.phase # "failed" => Outstanding = {}

\* The job is over, or nothing will ever look at it again.
LobbyOver == dropped \/ errors > 1 \/ job.phase \in Finished
================================================================================
