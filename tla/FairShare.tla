------------------------------- MODULE FairShare -------------------------------
(***************************************************************************)
(* Several jobs on the one "agentic" queue: the window each job is given   *)
(* (title_matching/dispatch_window.py) and the beat tick that tops them up *)
(* in rotation (tasks/agentic_scheduler_task.py), over domestic,           *)
(* international and external jobs together.                               *)
(*                                                                         *)
(* TitleBatch and ExternalMatch look inside one job.  Here a job is two    *)
(* counters, and what matters is the order of the messages of different    *)
(* jobs in the queue (a Redis list, first in first out) and who still      *)
(* publishes for a job whose own refills are lost.                         *)
(***************************************************************************)
EXTENDS Integers, Sequences, FiniteSets

CONSTANTS
  Jobs,        \* job ids
  Total,       \* rows of each job
  Pipeline,    \* the pipeline each job belongs to
  JobOrder,    \* the jobs in the order the pipelines are asked for them
  Workers,     \* slots that consume the queue
  Depth,       \* target_queue_depth()
  MinWindow,   \* AGENTIC_JOB_WINDOW_MIN
  Fallback,    \* read_job_window() without a published window
  Chunk,       \* AGENTIC_ROUNDROBIN_CHUNK
  Rotations,   \* the rotation counter is kept modulo this number
  MaxFaults    \* bound on the faults of one behaviour

ASSUME ShareAssumption ==
  /\ IsFiniteSet(Jobs) /\ IsFiniteSet(Workers)
  /\ JobOrder \in Seq(Jobs) /\ \A j \in Jobs : \E k \in DOMAIN JobOrder : JobOrder[k] = j
  /\ \A k, l \in DOMAIN JobOrder : JobOrder[k] = JobOrder[l] => k = l
  /\ Total \in [Jobs -> Nat \ {0}]
  /\ DOMAIN Pipeline = Jobs
  /\ {Depth, MinWindow, Fallback, Chunk, Rotations} \subseteq Nat \ {0}
  /\ \A n \in 1 .. Cardinality(Jobs) : Rotations % n = 0
  /\ MaxFaults \in Nat

Pipelines == {Pipeline[j] : j \in Jobs}

VARIABLES
  job,       \* per job: phase, rows dispatched, rows processed
  queue,     \* the broker's list of messages
  hand,      \* per worker: the step and the job it is working for
  window,    \* the published job window, NoWindow when the key is missing
  locked,    \* does the tick lock exist?
  rotation,  \* the rotation counter
  tick,      \* the beat tick being executed
  pushed,    \* history: rows the running tick published, per job
  faults

vars == <<job, queue, hand, window, locked, rotation, tick, pushed, faults>>

NoWindow == -1
Msg(task, j) == [task |-> task, job |-> j]
Free == [step |-> "free", job |-> "none"]
Unseen == [outstanding |-> 0, remaining |-> 0]
NoTick == [step |-> "off", todo |-> {}, seen |-> [j \in Jobs |-> Unseen], share |-> 0, stuck |-> {},
           deficit |-> [j \in Jobs |-> 0], turn |-> 0]

Init ==
  /\ job = [j \in Jobs |-> [phase |-> "new", dispatched |-> 0, processed |-> 0]]
  /\ queue = <<>>
  /\ hand = [w \in Workers |-> Free]
  /\ window = NoWindow
  /\ locked = FALSE
  /\ rotation = 0
  /\ tick = NoTick
  /\ pushed = [j \in Jobs |-> 0]
  /\ faults = 0

-----------------------------------------------------------------------------
Lesser(x, y) == IF x < y THEN x ELSE y
Greater(x, y) == IF x > y THEN x ELSE y

(* A possible bug: the share may round down to nothing.                    *)
UnflooredWindow(active) == IF active <= 1 THEN Depth ELSE Depth \div active

ComputeJobWindow(active) == IF active <= 1 THEN Depth ELSE Greater(MinWindow, Depth \div active)
ReadJobWindow == IF window = NoWindow THEN Fallback ELSE window

\* Mutant of Remaining: counted from the rows that ended.
RemainingToProcess(j) == Total[j] - job[j].processed

Remaining(j) == Total[j] - job[j].dispatched
Outstanding(j) == job[j].dispatched - job[j].processed

(* What enqueue_next_window(j, limit) can still claim.                     *)
Claimable(j, limit) ==
  IF job[j].phase = "processing" THEN Lesser(limit, Remaining(j)) ELSE 0

Rows(j, n) == [i \in 1 .. n |-> Msg("row", j)]

(* enqueue_next_window: claim and publish the next rows of the job.        *)
Publish(j, n) ==
  /\ job' = [job EXCEPT ![j].dispatched = @ + n]
  /\ queue' = queue \o Rows(j, n)

Does(w, step, j) == hand' = [hand EXCEPT ![w] = [step |-> step, job |-> j]]
Done(w) == hand' = [hand EXCEPT ![w] = Free]

-----------------------------------------------------------------------------
(* Uploads and workers.                                                    *)

(* The upload endpoint queues the dispatch task behind everything else.    *)
Submit(j) ==
  /\ job[j].phase = "new"
  /\ job' = [job EXCEPT ![j].phase = "queued"]
  /\ queue' = Append(queue, Msg("dispatch", j))
  /\ UNCHANGED <<hand, window, locked, rotation, tick, pushed, faults>>

Entered(task) ==
  CASE task = "dispatch" -> "mark" [] task = "row" -> "row" [] task = "finalize" -> "finalize"

Take(w) ==
  /\ hand[w] = Free
  /\ queue # <<>>
  /\ Does(w, Entered(Head(queue).task), Head(queue).job)
  /\ queue' = Tail(queue)
  /\ UNCHANGED <<job, window, locked, rotation, tick, pushed, faults>>

(* dispatch_batch commits the job as processing ...                        *)
DispatchMark(w) ==
  /\ hand[w].step = "mark"
  /\ job' = [job EXCEPT ![hand[w].job].phase = "processing"]
  /\ Does(w, "first_window", hand[w].job)
  /\ UNCHANGED <<queue, window, locked, rotation, tick, pushed, faults>>

(* ... and publishes its first window.                                     *)
FirstWindow(w) ==
  /\ hand[w].step = "first_window"
  /\ LET j == hand[w].job IN Publish(j, Claimable(j, ReadJobWindow))
  /\ Done(w)
  /\ UNCHANGED <<window, locked, rotation, tick, pushed, faults>>

(* A row ends and is counted.                                              *)
RowEnds(w) ==
  /\ hand[w].step = "row"
  /\ job' = [job EXCEPT ![hand[w].job].processed = @ + 1]
  /\ Does(w, "settle", hand[w].job)
  /\ UNCHANGED <<queue, window, locked, rotation, tick, pushed, faults>>

AllProcessed(j) == job[j].phase = "processing" /\ job[j].processed >= Total[j]

(* claim_finalize, then the finalize message.                              *)
Finalize(j) ==
  /\ job' = [job EXCEPT ![j].phase = "claimed"]
  /\ queue' = Append(queue, Msg("finalize", j))

(* _after_row_terminal: finalize, or refill one chunk.                     *)
Settle(w) ==
  /\ hand[w].step = "settle"
  /\ LET j == hand[w].job IN
       IF AllProcessed(j) THEN Finalize(j) ELSE Publish(j, Claimable(j, Chunk))
  /\ Done(w)
  /\ UNCHANGED <<window, locked, rotation, tick, pushed, faults>>

(* _after_row_terminal swallows every error: the claim or refill is lost.  *)
SettleLost(w) ==
  /\ hand[w].step = "settle"
  /\ faults < MaxFaults
  /\ faults' = faults + 1
  /\ Done(w)
  /\ UNCHANGED <<job, queue, window, locked, rotation, tick, pushed>>

FinalizeRuns(w) ==
  /\ hand[w].step = "finalize"
  /\ job' = [job EXCEPT ![hand[w].job].phase = "completed"]
  /\ Done(w)
  /\ UNCHANGED <<queue, window, locked, rotation, tick, pushed, faults>>

-----------------------------------------------------------------------------
(* topup_agentic_queue                                                     *)

(* SET NX EX.  The lock is never deleted, it only expires; while it exists *)
(* a tick returns at once.                                                 *)
TickStart ==
  /\ tick.step = "off"
  /\ ~locked
  /\ locked' = TRUE
  /\ tick' = [NoTick EXCEPT !.step = "gather", !.todo = Pipelines]
  /\ UNCHANGED <<job, queue, hand, window, rotation, pushed, faults>>

(* The lock's time to live, or the window's, is over.                      *)
LockExpires ==
  /\ locked
  /\ locked' = FALSE
  /\ UNCHANGED <<job, queue, hand, window, rotation, tick, pushed, faults>>

WindowExpires ==
  /\ window # NoWindow
  /\ faults < MaxFaults
  /\ faults' = faults + 1
  /\ window' = NoWindow
  /\ UNCHANGED <<job, queue, hand, locked, rotation, tick, pushed>>

(* scheduler_state(): what one tick believes of a job.                     *)
(* A possible bug: outstanding rows are not taken off the window.          *)
ForgetfulSnapshot(j) ==
  IF job[j].phase = "processing"
  THEN [outstanding |-> 0, remaining |-> Remaining(j)]
  ELSE Unseen

Snapshot(j) ==
  IF job[j].phase = "processing"
  THEN [outstanding |-> Outstanding(j), remaining |-> Remaining(j)]
  ELSE Unseen

(* _gather_states asks one pipeline after the other; one that fails is     *)
(* left out of this tick.                                                  *)
Gather(p) ==
  /\ tick.step = "gather"
  /\ p \in tick.todo
  /\ tick' = [tick EXCEPT
                !.todo = @ \ {p},
                !.seen = [j \in Jobs |-> IF Pipeline[j] = p THEN Snapshot(j) ELSE @[j]]]
  /\ UNCHANGED <<job, queue, hand, window, locked, rotation, pushed, faults>>

GatherFails(p) ==
  /\ tick.step = "gather"
  /\ p \in tick.todo
  /\ faults < MaxFaults
  /\ faults' = faults + 1
  /\ tick' = [tick EXCEPT !.todo = @ \ {p}]
  /\ UNCHANGED <<job, queue, hand, window, locked, rotation, pushed>>

(* The share is computed from the jobs active now and published for the    *)
(* self-refills and first windows of all pipelines.                        *)
WriteJobWindow ==
  /\ tick.step = "gather"
  /\ tick.todo = {}
  /\ window' = ComputeJobWindow(Cardinality({j \in Jobs : job[j].phase \in {"processing", "claimed"}}))
  /\ tick' = [tick EXCEPT !.step = "sweep", !.todo = Pipelines, !.share = window']
  /\ UNCHANGED <<job, queue, hand, locked, rotation, pushed, faults>>

(* The sweep of one pipeline reads the jobs that are processed and not     *)
(* claimed, and claims one after the other if that is still so; an error   *)
(* leaves the rest of them for the next tick.                              *)
SweepSelect(p) ==
  /\ tick.step = "sweep" /\ tick.stuck = {}
  /\ p \in tick.todo
  /\ tick' = [tick EXCEPT !.todo = @ \ {p}, !.stuck = {j \in Jobs : Pipeline[j] = p /\ AllProcessed(j)}]
  /\ UNCHANGED <<job, queue, hand, window, locked, rotation, pushed, faults>>

SweepClaim(j) ==
  /\ tick.step = "sweep"
  /\ j \in tick.stuck
  /\ IF AllProcessed(j) THEN Finalize(j) ELSE UNCHANGED <<job, queue>>
  /\ tick' = [tick EXCEPT !.stuck = @ \ {j}]
  /\ UNCHANGED <<hand, window, locked, rotation, pushed, faults>>

SweepBreaks ==
  /\ tick.step = "sweep" /\ tick.stuck # {}
  /\ faults < MaxFaults
  /\ faults' = faults + 1
  /\ tick' = [tick EXCEPT !.stuck = {}]
  /\ UNCHANGED <<job, queue, hand, window, locked, rotation, pushed>>

Deficit(st, share) == Lesser(Greater(share - st.outstanding, 0), st.remaining)

(* The places in JobOrder of the jobs with a deficit: the loop of          *)
(* _round_robin_topup goes round them, past the ones that have none left.  *)
Needy(deficit) == {k \in DOMAIN JobOrder : deficit[JobOrder[k]] > 0}

(* The first turn is that of the next rotation offset.                     *)
StartTopUp ==
  /\ tick.step = "sweep" /\ tick.stuck = {}
  /\ tick.todo = {}
  /\ LET deficit == [j \in Jobs |-> Deficit(tick.seen[j], tick.share)]
         needy == Needy(deficit)
     IN IF needy = {}
        THEN tick' = NoTick /\ UNCHANGED rotation
        ELSE /\ rotation' = (rotation + 1) % Rotations
             /\ \E k \in needy :
                  /\ Cardinality({l \in needy : l < k}) = rotation' % Cardinality(needy)
                  /\ tick' = [NoTick EXCEPT !.step = "topup", !.deficit = deficit, !.turn = k]
  /\ UNCHANGED <<job, queue, hand, window, locked, pushed, faults>>

(* What is left of a job's deficit after it was offered n rows' worth.     *)
Left(deficit, n) == IF n > 0 THEN deficit - n ELSE 0

(* A possible bug: a job gets its whole deficit at once.                   *)
WholeDeficit(j) == tick.deficit[j]

Turn(j) == Lesser(Chunk, tick.deficit[j])

(* How far behind place t a place comes up, going round after t.           *)
Behind(t, k) == IF k > t THEN k ELSE k + Len(JobOrder)

(* _round_robin_topup: the job whose turn it is gets one chunk, then it is *)
(* the turn of the next job with a deficit.                                *)
TopUp ==
  /\ tick.step = "topup"
  /\ LET j == JobOrder[tick.turn]
         n == Claimable(j, Turn(j))
         deficit == [tick.deficit EXCEPT ![j] = Left(@, n)]
         needy == Needy(deficit)
     IN /\ Publish(j, n)
        /\ IF needy = {}
           THEN tick' = NoTick /\ pushed' = [i \in Jobs |-> 0]
           ELSE /\ pushed' = [pushed EXCEPT ![j] = @ + n]
                /\ \E k \in needy :
                     /\ \A l \in needy : Behind(tick.turn, k) <= Behind(tick.turn, l)
                     /\ tick' = [tick EXCEPT !.deficit = deficit, !.turn = k]
  /\ UNCHANGED <<hand, window, locked, rotation, faults>>

(* An error ends the tick; nothing of it is taken back.                    *)
TopUpBreaks ==
  /\ tick.step = "topup"
  /\ faults < MaxFaults
  /\ faults' = faults + 1
  /\ tick' = NoTick /\ pushed' = [i \in Jobs |-> 0]
  /\ UNCHANGED <<job, queue, hand, window, locked, rotation>>

-----------------------------------------------------------------------------
Work(w) ==
  \/ Take(w) \/ DispatchMark(w) \/ FirstWindow(w) \/ RowEnds(w)
  \/ Settle(w) \/ SettleLost(w) \/ FinalizeRuns(w)

Tick ==
  \/ TickStart
  \/ \E p \in Pipelines : Gather(p) \/ GatherFails(p) \/ SweepSelect(p)
  \/ WriteJobWindow
  \/ \E j \in Jobs : SweepClaim(j)
  \/ SweepBreaks
  \/ StartTopUp
  \/ TopUp \/ TopUpBreaks

Next ==
  \/ \E j \in Jobs : Submit(j)
  \/ \E w \in Workers : Work(w)
  \/ Tick
  \/ LockExpires
  \/ WindowExpires

Spec == Init /\ [][Next]_vars

(* Workers keep consuming, beat keeps sending ticks, and a key with a time *)
(* to live expires.                                                        *)
Fairness ==
  /\ \A w \in Workers : WF_vars(Work(w))
  /\ WF_vars(Tick)
  /\ WF_vars(LockExpires)

FairSpec == Spec /\ Fairness

-----------------------------------------------------------------------------
(* The type of every variable.                                             *)
Tasks == {"dispatch", "row", "finalize"}
Steps == {"mark", "first_window", "row", "settle", "finalize"}

TypeOK ==
  /\ job \in [Jobs -> [phase : {"new", "queued", "processing", "claimed", "completed"},
                       dispatched : Nat, processed : Nat]]
  /\ \A j \in Jobs : job[j].dispatched <= Total[j] /\ job[j].processed <= job[j].dispatched
  /\ queue \in Seq([task : Tasks, job : Jobs])
  /\ hand \in [Workers -> [step : Steps, job : Jobs] \cup {Free}]
  /\ window \in Nat \cup {NoWindow}
  /\ locked \in BOOLEAN
  /\ rotation \in 0 .. Rotations - 1
  /\ tick \in [step : {"off", "gather", "sweep", "topup"}, todo : SUBSET Pipelines, stuck : SUBSET Jobs,
               seen : [Jobs -> [outstanding : Nat, remaining : Nat]], share : Nat,
               deficit : [Jobs -> Nat], turn : 0 .. Len(JobOrder)]
  /\ pushed \in [Jobs -> Nat]
  /\ faults \in 0 .. MaxFaults

(* _round_robin_topup promises not to give a job its whole deficit before  *)
(* the next one: while a tick runs, no job with a deficit and rows left is *)
(* more than a chunk behind any other, whatever ends or refills in         *)
(* between.                                                                *)
RotationIsFair ==
  tick.step = "topup" =>
    \A i, j \in Jobs : tick.deficit[j] > 0 /\ Remaining(j) > 0 => pushed[i] <= pushed[j] + Chunk

(* No head-of-line blocking: however large another job is, only a bounded  *)
(* number of its messages stand in the queue in front of anybody's: a      *)
(* share for the dispatch, a share for the ticks, and the rows of workers  *)
(* that a tick counted as ended and that publish their successor later.    *)
MaxShare == Greater(Depth, Greater(MinWindow, Fallback))
Standing(i) == Cardinality({k \in DOMAIN queue : queue[k].job = i})
NobodyFloodsTheQueue == \A i \in Jobs : Standing(i) < 2 * MaxShare + Cardinality(Workers)

(* Every submitted job completes, although its own refills and its claim   *)
(* may be lost, other jobs keep the queue busy, ticks are skipped while    *)
(* the lock lives, and a share of the depth may round down to nothing.     *)
NoJobStarves == \A j \in Jobs : job[j].phase = "queued" ~> job[j].phase = "completed"
=============================================================================
