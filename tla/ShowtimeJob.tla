------------------------------ MODULE ShowtimeJob ------------------------------
(***************************************************************************)
(* A deleted-showtimes job (tasks/deleted_showtime_task.py): dispatch_job  *)
(* groups the rows by theater and date and publishes a Celery chord, one   *)
(* process_batch per group and finalize_job as its callback.  The batches  *)
(* run in parallel on the "deleted-showtimes" queue, capped per job by     *)
(* job_semaphore, and ask SerpApi through KeyRotation.                     *)
(*                                                                         *)
(* A verdict is "T" (the showtime was deleted), "F" (it is published) or   *)
(* "U" (unable to determine, or none).  A row has the verdict it is        *)
(* reported with and that of the site check, whose searches are left out.  *)
(***************************************************************************)
EXTENDS KeyRotation, FiniteSets, FiniteSetsExt

CONSTANTS
  Rows,        \* the rows of the upload
  RowsOf,      \* the rows of each batch; a row of none has no theater or date
  Cap,         \* job.workers
  Ladder,      \* fallback queries after a miss (0: fallback "off"; at most 3)
  AbortAfter,  \* DELETED_SHOWTIME_ABORT_AFTER
  GoogleSays,  \* the verdicts a listing can give a row here
  SiteSays,    \* the verdicts a site check can give a row here
  MaxFaults    \* bound on the faults of one behaviour

Batches == Callers
Missing == Rows \ UNION {RowsOf[b] : b \in Batches}

JobAssumption ==
  /\ IsFiniteSet(Rows)
  /\ RowsOf \in [Batches -> SUBSET Rows \ {{}}]
  /\ \A a, b \in Batches : a # b => RowsOf[a] \cap RowsOf[b] = {}
  /\ {Cap, AbortAfter} \subseteq Nat \ {0}
  /\ Ladder \in 0 .. 3
  /\ GoogleSays \cup SiteSays \subseteq {"T", "F", "U"}
  /\ "U" \in SiteSays
  /\ MaxFaults \in Nat

VARIABLES
  job,      \* the DeletedShowtimeJob row
  result,   \* the job's Redis hash: what is stored of each row
  batch,    \* the process_batch task of each batch
  final,    \* the step of dispatch_job, then of finalize_job
  output,   \* the verdicts written to the output and audit files
  skewed,   \* history: batches with an error that left the counters wrong
  astray,   \* history: batches with an error that left the site counters wrong
  faults

jobVars == <<job, result, batch, final, output, skewed, astray, faults>>
vars == <<rotationVars, jobVars>>

Verdicts == {"T", "F", "U"}
Unsure == [verdict |-> "U", site |-> "U"]
NoVerdicts(b) == [r \in RowsOf[b] |-> Unsure]
NotStored == [verdict |-> "none", site |-> "U"]
\* site_tally: the rows a site published ("F", verified) or lacked ("T", wrong).
Tally(site, rows) == [v \in {"T", "F"} |-> Cardinality({r \in rows : site[r] = v})]
NoTally == [v \in {"T", "F"} |-> 0]

\* batch steps: waiting to be published, queued, ..., done; "raised" and
\* "killed" tasks fail the chord, whose callback then never runs.
NewBatch(b) ==
  [step |-> "waiting", path |-> "normal", asked |-> 0, ok |-> FALSE,
   rows |-> NoVerdicts(b), tally |-> NoTally, holder |-> "none"]

Init ==
  /\ RotationInit
  /\ job = [status |-> "queued", processed |-> 0, count |-> [v \in Verdicts |-> 0],
            site |-> NoTally, failures |-> 0, aborted |-> FALSE]
  /\ result = [r \in Rows |-> NotStored]
  /\ batch = [b \in Batches |-> NewBatch(b)]
  /\ final = "dispatch"
  /\ output = [r \in Rows |-> NotStored]
  /\ skewed = {}
  /\ astray = {}
  /\ faults = 0

Fault == faults < MaxFaults /\ faults' = faults + 1

-----------------------------------------------------------------------------
(* dispatch_job *)

\* status = processing, before anything is published.
DispatchMark ==
  /\ final = "dispatch"
  /\ job' = [job EXCEPT !.status = "processing"]
  /\ final' = IF Missing = {} THEN "publish" ELSE "missing"
  /\ UNCHANGED <<rotationVars, result, batch, output, skewed, astray, faults>>

\* Rows without a theater or a date are counted first and stored after it.
CountMissing ==
  /\ final = "missing"
  /\ job' = [job EXCEPT !.processed = @ + Cardinality(Missing),
                        !.count["U"] = @ + Cardinality(Missing)]
  /\ final' = "store missing"
  /\ UNCHANGED <<rotationVars, result, batch, output, skewed, astray, faults>>

StoreMissing ==
  /\ final = "store missing"
  /\ result' = [r \in Rows |-> IF r \in Missing THEN Unsure ELSE result[r]]
  /\ final' = "publish"
  /\ UNCHANGED <<rotationVars, job, batch, output, skewed, astray, faults>>

Publish ==
  /\ final = "publish"
  /\ batch' = [b \in Batches |-> [batch[b] EXCEPT !.step = "queued"]]
  /\ final' = "chord"
  /\ UNCHANGED <<rotationVars, job, result, output, skewed, astray, faults>>

\* An error while dispatching, with any part of the chord's header already
\* published: the job fails and the chord has no callback.
DispatchFails ==
  /\ final \in {"dispatch", "missing", "store missing", "publish"}
  /\ Fault
  /\ \E some \in IF final = "publish" THEN SUBSET Batches \ {Batches} ELSE {{}} :
       batch' = [b \in Batches |-> IF b \in some THEN [batch[b] EXCEPT !.step = "queued"]
                                   ELSE batch[b]]
  /\ job' = [job EXCEPT !.status = "failed"]
  /\ final' = "none"
  /\ UNCHANGED <<rotationVars, result, output, skewed, astray>>

-----------------------------------------------------------------------------
(* process_batch *)

Held == {b \in Batches : batch[b].holder = "held"}
Go(b, step) == batch' = [batch EXCEPT ![b].step = step]
Undetermined(b) == [r \in RowsOf[b] |-> [batch[b].rows[r] EXCEPT !.verdict = "U"]]

\* The rescue overwrites the verdicts alone: the rows keep what a site said of
\* them, while its bump passes no site counts.
Rescued(b) ==
  [batch[b] EXCEPT !.path = "rescue", !.step = "store", !.ok = FALSE,
                   !.rows = Undetermined(b), !.tally = NoTally]

\* Mutant of OnError.
NarrowRescue(b) ==
  IF batch[b].step = "acquire" THEN [batch[b] EXCEPT !.step = "failing"]
  ELSE IF batch[b].path = "rescue" THEN [batch[b] EXCEPT !.step = "release"]
  ELSE Rescued(b)

\* What an error does: the broad handler catches those of the try block and
\* swallows its own; the handlers of the two key errors are not covered.
OnError(b) ==
  CASE batch[b].path = "rescue" -> [batch[b] EXCEPT !.step = "release"]
    [] batch[b].path = "exhausted" -> [batch[b] EXCEPT !.step = "failing"]
    [] OTHER -> Rescued(b)

Read(b) ==
  /\ batch[b].step = "queued"
  /\ batch' = [batch EXCEPT ![b].step = IF job.aborted THEN "store" ELSE "acquire",
                            ![b].path = IF job.aborted THEN "skipped" ELSE "normal"]
  /\ UNCHANGED <<rotationVars, job, result, final, output, skewed, astray, faults>>

\* job_semaphore.acquire: one key per holder, a free slot or a time-out.
Acquire(b) ==
  /\ batch[b].step = "acquire"
  /\ \/ /\ Cardinality(Held) < Cap
        /\ batch' = [batch EXCEPT ![b].step = "search", ![b].holder = "held"]
     \/ /\ Cardinality(Held) >= Cap
        /\ batch' = [batch EXCEPT ![b] = OnError(b)]
  /\ UNCHANGED <<rotationVars, job, result, final, output, skewed, astray, faults>>

\* Redis cannot be reached: the batch runs without a slot.
AcquireOpen(b) ==
  /\ batch[b].step = "acquire"
  /\ Fault
  /\ batch' = [batch EXCEPT ![b].step = "search", ![b].holder = "open"]
  /\ UNCHANGED <<rotationVars, job, result, final, output, skewed, astray>>

\* The holder's key expires under its batch: one search alone (3 attempts of
\* 45 s) outlasts the 120 s the key lives.
Lapse(b) ==
  /\ batch[b].holder = "held"
  /\ batch' = [batch EXCEPT ![b].holder = "lapsed"]
  /\ UNCHANGED <<rotationVars, job, result, final, output, skewed, astray, faults>>

Searching(b) == batch[b].step = "search"

Ask(b) == Searching(b) /\ Select(b) /\ UNCHANGED jobVars
TryKey(b) == Searching(b) /\ Try(b) /\ UNCHANGED jobVars
MarkKey(b) == Searching(b) /\ Mark(b) /\ UNCHANGED jobVars

\* _attempt returned: a listing, a miss the next query may repair, or a miss
\* that stays (an API error is none of the RETRYABLE_MISSES).  A fallback
\* query that finds nothing leaves the first miss.
Answer(b) ==
  /\ Searching(b)
  /\ call[b].step \in {"answer", "error"}
  /\ \E got \in IF call[b].step = "answer" THEN {"listing", "retryable", "miss"} ELSE {"miss"} :
       LET again == IF batch[b].asked = 0 THEN got = "retryable" /\ Ladder > 0
                    ELSE got # "listing" /\ batch[b].asked < Ladder
       IN batch' = [batch EXCEPT ![b].asked = IF again THEN @ + 1 ELSE @,
                                 ![b].ok = got = "listing",
                                 ![b].step = IF again THEN @ ELSE "decide"]
  /\ Return(b)
  /\ UNCHANGED <<job, result, final, output, skewed, astray, faults>>

\* AllKeysExhaustedError leaves the try block for its own handler.
Exhausted(b) ==
  /\ Searching(b)
  /\ call[b].step = "exhausted"
  /\ Return(b)
  /\ batch' = [batch EXCEPT ![b].step = "abort", ![b].path = "exhausted"]
  /\ UNCHANGED <<job, result, final, output, skewed, astray, faults>>

\* decide_rows
Decide(b) ==
  /\ batch[b].step = "decide"
  /\ \E google \in [RowsOf[b] -> IF batch[b].ok THEN GoogleSays ELSE {"U"}] :
       batch' = [batch EXCEPT ![b].step = "site",
                   ![b].rows = [r \in RowsOf[b] |-> [batch[b].rows[r] EXCEPT !.verdict = google[r]]]]
  /\ UNCHANGED <<rotationVars, job, result, final, output, skewed, astray, faults>>

\* apply_site_check: a confident site verdict wins.
Overruled(verdict, site) == IF site = "U" THEN verdict ELSE site

\* Every row is checked.  No adapter, or one that failed, is unsure of all.
SiteCheck(b) ==
  /\ batch[b].step = "site"
  /\ \E site \in [RowsOf[b] -> SiteSays] :
       batch' = [batch EXCEPT ![b].step = "store", ![b].tally = Tally(site, RowsOf[b]),
                   ![b].rows = [r \in RowsOf[b] |->
                     [verdict |-> Overruled(batch[b].rows[r].verdict, site[r]), site |-> site[r]]]]
  /\ UNCHANGED <<rotationVars, job, result, final, output, skewed, astray, faults>>

\* An error, or the soft time limit, with some rows checked, the last of them
\* perhaps not yet tallied: the handler clears every site verdict, but the
\* tally and the verdicts the site overruled stay.
SiteBreaks(b) ==
  /\ batch[b].step = "site"
  /\ Fault
  /\ \E site \in [RowsOf[b] -> SiteSays], some \in SUBSET RowsOf[b] :
       \E tallied \in {some} \cup {some \ {r} : r \in some} :
         batch' = [batch EXCEPT ![b].step = "store", ![b].tally = Tally(site, tallied),
                     ![b].rows = [r \in RowsOf[b] |->
                       [batch[b].rows[r] EXCEPT !.verdict = IF r \in some THEN Overruled(@, site[r]) ELSE @]]]
  /\ astray' = astray \cup {b}
  /\ UNCHANGED <<rotationVars, job, result, final, output, skewed>>

Store(b) ==
  /\ batch[b].step = "store"
  /\ result' = [r \in Rows |-> IF r \in RowsOf[b] THEN batch[b].rows[r] ELSE result[r]]
  /\ Go(b, "count")
  /\ UNCHANGED <<rotationVars, job, final, output, skewed, astray, faults>>

RowsWith(b, v) == Cardinality({r \in RowsOf[b] : batch[b].rows[r].verdict = v})

\* Mutant of Bump.
BumpAll(b) ==
  /\ batch[b].step = "count"
  /\ job' = [job EXCEPT !.processed = @ + Cardinality(RowsOf[b]),
                        !.count = [v \in Verdicts |-> @[v] + RowsWith(b, v)],
                        !.site = [v \in {"T", "F"} |-> @[v] + RowsWith(b, v)]]
  /\ Go(b, IF batch[b].path \in {"skipped", "exhausted"} THEN "release" ELSE "record")
  /\ UNCHANGED <<rotationVars, result, final, output, skewed, astray, faults>>

\* _bump_counters, in its own transaction.
Bump(b) ==
  /\ batch[b].step = "count"
  /\ job' = [job EXCEPT !.processed = @ + Cardinality(RowsOf[b]),
                        !.count = [v \in Verdicts |-> @[v] + RowsWith(b, v)],
                        !.site = [v \in {"T", "F"} |-> @[v] + batch[b].tally[v]]]
  /\ Go(b, IF batch[b].path \in {"skipped", "exhausted"} THEN "release" ELSE "record")
  /\ UNCHANGED <<rotationVars, result, final, output, skewed, astray, faults>>

\* _record_batch_success, or the first half of _record_batch_failure.
Record(b) ==
  /\ batch[b].step = "record"
  /\ job' = [job EXCEPT !.failures = IF batch[b].ok THEN 0
                                     ELSE IF @ < AbortAfter THEN @ + 1 ELSE @]
  /\ Go(b, IF batch[b].ok THEN "release" ELSE "judge")
  /\ UNCHANGED <<rotationVars, result, final, output, skewed, astray, faults>>

\* The counter is read back after the commit: others may have moved it.
Judge(b) ==
  /\ batch[b].step = "judge"
  /\ Go(b, IF job.failures >= AbortAfter THEN "abort" ELSE "release")
  /\ UNCHANGED <<rotationVars, job, result, final, output, skewed, astray, faults>>

MarkAborted(b) ==
  /\ batch[b].step = "abort"
  /\ job' = [job EXCEPT !.aborted = TRUE]
  /\ IF batch[b].path = "exhausted"
     THEN batch' = [batch EXCEPT ![b].step = "store", ![b].rows = Undetermined(b)]
     ELSE Go(b, "release")
  /\ UNCHANGED <<rotationVars, result, final, output, skewed, astray, faults>>

\* The finally clause; an error of the exhausted handler leaves the task.
Release(b) ==
  /\ batch[b].step \in {"release", "failing"}
  /\ batch' = [batch EXCEPT ![b].step = IF @ = "failing" THEN "raised" ELSE "done",
                            ![b].holder = "none"]
  /\ UNCHANGED <<rotationVars, job, result, final, output, skewed, astray, faults>>

Fallible == {"acquire", "search", "decide", "site", "store", "count", "record", "judge", "abort"}

\* Errors whose rows are counted twice, or never: after the count of the
\* normal path the rescue counts again, and nothing rescues the rescue.
Skews(b) ==
  \/ batch[b].path = "normal" /\ batch[b].step \in {"record", "judge", "abort"}
  \/ batch[b].path = "rescue" /\ batch[b].step \in {"store", "count"}

Fails(b) ==
  /\ batch[b].step \in Fallible
  /\ Fault
  /\ batch' = [batch EXCEPT ![b] = OnError(b)]
  /\ call' = [call EXCEPT ![b] = NoCall]
  /\ \E some \in IF batch[b].step = "store" THEN SUBSET RowsOf[b] ELSE {{}} :
       result' = [r \in Rows |-> IF r \in some THEN batch[b].rows[r] ELSE result[r]]
  /\ skewed' = IF Skews(b) THEN skewed \cup {b} ELSE skewed
  /\ astray' = IF batch[b].tally = NoTally THEN astray ELSE astray \cup {b}
  /\ UNCHANGED <<config, slot, table, refused, dark, job, final, output>>

\* The hard time limit or a lost worker: no handler runs, the holder's key
\* stays until it lapses.
Killed(b) ==
  /\ batch[b].step \in Fallible \cup {"release", "failing"}
  /\ Fault
  /\ Go(b, "killed")
  /\ call' = [call EXCEPT ![b] = NoCall]
  /\ UNCHANGED <<config, slot, table, refused, dark, job, result, final, output, skewed, astray>>

-----------------------------------------------------------------------------
(* finalize_job, the chord's callback: only when every header task succeeded *)

Terminal == {"completed", "failed"}

FinalizeStart ==
  /\ final = "chord"
  /\ \A b \in Batches : batch[b].step = "done"
  /\ IF job.status \in Terminal THEN job' = job /\ final' = "none" /\ UNCHANGED result
     ELSE IF job.aborted
     THEN /\ job' = [job EXCEPT !.status = "failed"]
          /\ final' = "none"
          /\ result' = [r \in Rows |-> NotStored]
     ELSE job' = job /\ final' = "write" /\ UNCHANGED result
  /\ UNCHANGED <<rotationVars, batch, output, skewed, astray, faults>>

\* A row nobody stored is reported as undetermined.
FinalizeWrite ==
  /\ final = "write"
  /\ output' = [r \in Rows |-> IF result[r] = NotStored THEN Unsure ELSE result[r]]
  /\ final' = "complete"
  /\ UNCHANGED <<rotationVars, job, result, batch, skewed, astray, faults>>

FinalizeComplete ==
  /\ final = "complete"
  /\ job' = [job EXCEPT !.status = "completed"]
  /\ result' = [r \in Rows |-> NotStored]
  /\ final' = "none"
  /\ UNCHANGED <<rotationVars, batch, output, skewed, astray, faults>>

\* No handler covers finalize_job: an error leaves the job processing.
FinalizeFails ==
  /\ final \in {"write", "complete"}
  /\ Fault
  /\ final' = "lost"
  /\ UNCHANGED <<rotationVars, job, result, batch, output, skewed, astray>>

Dispatch == DispatchMark \/ CountMissing \/ StoreMissing \/ Publish
Finalize == FinalizeStart \/ FinalizeWrite \/ FinalizeComplete
Search(b) == Ask(b) \/ TryKey(b) \/ MarkKey(b) \/ Answer(b) \/ Exhausted(b)
Write(b) == Store(b) \/ Bump(b) \/ Record(b) \/ Judge(b) \/ MarkAborted(b) \/ Release(b)
ProcessBatch(b) == Read(b) \/ Acquire(b) \/ Search(b) \/ Decide(b) \/ SiteCheck(b) \/ Write(b)
Faulty == DispatchFails \/ FinalizeFails \/ \E b \in Batches : AcquireOpen(b) \/ SiteBreaks(b) \/ Fails(b) \/ Killed(b)

Next ==
  \/ Dispatch
  \/ Finalize
  \/ \E b \in Batches : ProcessBatch(b) \/ Lapse(b)
  \/ Faulty
  \/ Surroundings /\ UNCHANGED jobVars

Spec == Init /\ [][Next]_vars

-----------------------------------------------------------------------------
(* Properties *)

TypeOK ==
  /\ RotationTypeOK
  /\ job.status \in {"queued", "processing"} \cup Terminal
  /\ job.processed \in Nat /\ job.failures \in 0 .. AbortAfter /\ job.aborted \in BOOLEAN
  /\ job.count \in [Verdicts -> Nat] /\ job.site \in [{"T", "F"} -> Nat]
  /\ \A r \in Rows : {result[r], output[r]} \subseteq
                        [verdict : Verdicts \cup {"none"}, site : Verdicts]
  /\ \A b \in Batches :
       /\ batch[b].step \in Fallible \cup
            {"waiting", "queued", "release", "failing", "done", "raised", "killed"}
       /\ batch[b].path \in {"normal", "skipped", "exhausted", "rescue"}
       /\ batch[b].holder \in {"none", "held", "lapsed", "open"}
       /\ batch[b].asked \in 0 .. Ladder
       /\ batch[b].rows \in [RowsOf[b] -> [verdict : Verdicts, site : Verdicts]]
       /\ batch[b].tally \in [{"T", "F"} -> Nat]
  /\ skewed \cup astray \subseteq Batches
  /\ faults \in 0 .. MaxFaults

SitesAgree ==
  \A v \in {"T", "F"} : job.site[v] = Cardinality({r \in Rows : output[r].site = v})

(***************************************************************************)
(* The counters a user polls and the report he downloads say the same: of  *)
(* a completed job every row is counted once, under the verdict the output *)
(* gives it, whatever batches were rescued, skipped or repeated on the way *)
(* and however far their site check came - unless an error hit a batch     *)
(* after its count, or hit its rescue.  The site counters agree as well,   *)
(* unless an error broke a site check or hit a batch a site knew rows of.  *)
(* A run that any batch aborted, however late, has no report.              *)
(***************************************************************************)
ReportAgreesWithCounters ==
  job.status = "completed" =>
    /\ ~job.aborted
    /\ skewed = {} =>
         /\ job.processed = Cardinality(Rows)
         /\ \A v \in Verdicts : job.count[v] = Cardinality({r \in Rows : output[r].verdict = v})
         /\ astray = {} => SitesAgree

\* A chord member the worker lost, or the key handlers let fail, and a
\* finalize_job that failed: nothing goes on after these.
ChordBroken ==
  \/ \E b \in Batches : batch[b].step = "killed"
  \/ \E b \in Batches : batch[b].step = "raised" /\ batch[b].path = "exhausted"
  \/ final = "lost"

Started == job.status = "processing"
Ended == job.status \in Terminal \/ ChordBroken
================================================================================
