---------------------------- MODULE DetectionBatch ----------------------------
(***************************************************************************)
(* One upload of amenity strings (workers/batch_worker.py, and with other  *)
(* constants movie_batch_worker.py and intl_batch_worker.py): a daemon     *)
(* thread of the web process that took the upload runs every row through   *)
(* the engine it was handed, asks Bedrock once per distinct string of the  *)
(* rows no keyword matched, and commits the review items with the result.  *)
(*                                                                         *)
(* A string is known by its deduplication key.  An engine is the set of    *)
(* keys it decides; formats, scores and the layout of the sheet are left   *)
(* out.                                                                    *)
(***************************************************************************)
EXTENDS Integers, FiniteSets, SequencesExt

CONSTANTS
  Rows,          \* the rows of the upload
  Singles,       \* strings typed in one by one, each a possible review item
  KeyOrder,      \* the deduplication keys, in the order of the upload
  KeyOf,         \* the key of each row and single string
  Procs,         \* web processes
  AiModes,       \* the modes an upload may ask for: "full", "sample", "skip"
  SampleLimit,   \* BATCH_AI_SAMPLE_LIMIT
  Reviewed,      \* are unmatched rows handed to reviewers?
  TidiesUp,      \* is the upload also removed after a failure?
  MaxFaults      \* bound on the faults of one behaviour

Keys == ToSet(KeyOrder)

BatchAssumption ==
  /\ KeyOrder \in Seq(STRING)
  /\ IsFiniteSet(Rows) /\ Rows \cap Singles = {}
  /\ KeyOf \in [Rows \cup Singles -> Keys]
  /\ AiModes \subseteq {"full", "sample", "skip"}
  /\ {SampleLimit, MaxFaults} \subseteq Nat
  /\ {Reviewed, TidiesUp} \subseteq BOOLEAN

VARIABLES
  engine,   \* per process, the keys its engine decides (app.state.engine)
  cache,    \* the keys whose suggestion Redis keeps
  batch,    \* the job row and its thread
  item,     \* per row and single string, the state of its review item
  faults

batchVars == <<engine, cache, batch, item, faults>>

Nobody == "nobody"
NoBatch == [step |-> "none", proc |-> Nobody, mode |-> "skip", status |-> "none", known |-> {},
            answer |-> [k \in Keys |-> "none"], asked |-> {}, processed |-> 0, upload |-> FALSE]

BatchInit ==
  /\ cache = {}
  /\ batch = NoBatch
  /\ item = [r \in Rows \cup Singles |-> "none"]
  /\ faults = 0

Unmatched == {r \in Rows : KeyOf[r] \notin batch.known}
RowsOf(k) == {r \in Unmatched : KeyOf[r] = k}
UnmatchedKeys == {k \in Keys : RowsOf(k) # {}}

\* The first SampleLimit of them.
Sampled ==
  {KeyOrder[n] : n \in {m \in DOMAIN KeyOrder :
     /\ KeyOrder[m] \in UnmatchedKeys
     /\ Cardinality({l \in 1 .. m : KeyOrder[l] \in UnmatchedKeys}) <= SampleLimit}}

Misses == IF Reviewed THEN Unmatched ELSE {}
Fault == faults < MaxFaults /\ faults' = faults + 1

\* The endpoint stores the file, commits the job and starts the thread with
\* the engine the process has at this moment.
Upload(p) ==
  /\ batch.step = "none"
  /\ \E mode \in AiModes :
       batch' = [batch EXCEPT !.step = "start", !.proc = p, !.mode = mode, !.status = "queued",
                              !.known = engine[p], !.upload = TRUE]
  /\ UNCHANGED <<engine, cache, item, faults>>

Start ==
  /\ batch.step = "start"
  /\ batch' = [batch EXCEPT !.step = "layer 1", !.status = "processing"]
  /\ UNCHANGED <<engine, cache, item, faults>>

\* Pass 1: the matched rows are written out and counted.
Layer1 ==
  /\ batch.step = "layer 1"
  /\ batch' = [batch EXCEPT !.processed = Cardinality(Rows \ Unmatched),
                   !.step = IF Unmatched = {} \/ batch.mode = "skip" THEN "finish" ELSE "prefill"]
  /\ UNCHANGED <<engine, cache, item, faults>>

\* One call per key: in full mode for the keys Redis has no readable
\* suggestion for (entries expire, Redis may be down), in sample mode for
\* the first SampleLimit keys.
Prefill ==
  /\ batch.step = "prefill"
  /\ \E found \in IF batch.mode = "full" THEN SUBSET (cache \cap UnmatchedKeys) ELSE {{}} :
       batch' = [batch EXCEPT
         !.step = "calls",
         !.answer = [k \in Keys |-> IF k \in found THEN "suggestion" ELSE "none"],
         !.asked = IF batch.mode = "full" THEN UnmatchedKeys \ found ELSE Sampled]
  /\ UNCHANGED <<engine, cache, item, faults>>

\* Mutant of Collect: each call counts all unmatched rows.
CollectTwice(k) ==
  /\ batch.step = "calls"
  /\ k \in batch.asked
  /\ batch' = [batch EXCEPT !.asked = @ \ {k}, !.answer[k] = "suggestion",
                            !.processed = @ + Cardinality(Unmatched)]
  /\ UNCHANGED <<engine, cache, item, faults>>

\* A call completes: the thread keeps the answer, in full mode stores it in
\* Redis (which may fail) and commits the progress.
Collect(k) ==
  /\ batch.step = "calls"
  /\ k \in batch.asked
  /\ \E answer \in {"suggestion", "failed"} :
       /\ batch' = [batch EXCEPT !.asked = @ \ {k}, !.answer[k] = answer,
                      !.processed = IF batch.mode = "full" THEN @ + Cardinality(RowsOf(k)) ELSE @]
       /\ \/ answer = "suggestion" /\ batch.mode = "full" /\ cache' = cache \cup {k}
          \/ cache' = cache
  /\ UNCHANGED <<engine, item, faults>>

Written ==
  \/ batch.step = "finish"
  \/ batch.step = "calls" /\ batch.asked = {}

WithItems(rows) == [r \in DOMAIN item |-> IF r \in rows THEN "pending" ELSE item[r]]

\* Mutant of Finish: only the answered rows are handed to the reviewers.
FinishAnswered ==
  /\ Written
  /\ batch' = [batch EXCEPT !.step = "tidy", !.status = "completed", !.processed = Cardinality(Rows)]
  /\ item' = WithItems({r \in Misses : batch.answer[KeyOf[r]] = "suggestion"})
  /\ UNCHANGED <<engine, cache, faults>>

\* The last commit: a review item for every row no keyword matched, answered
\* or not, the output and the status.
Finish ==
  /\ Written
  /\ batch' = [batch EXCEPT !.step = "tidy", !.status = "completed", !.processed = Cardinality(Rows)]
  /\ item' = WithItems(Misses)
  /\ UNCHANGED <<engine, cache, faults>>

AfterFailure == IF TidiesUp THEN "tidy" ELSE "over"

\* An exception before the last commit fails the job; an error of the
\* database itself also defeats the handler, and the status stays.
RunFails ==
  /\ batch.step \in {"start", "layer 1", "prefill", "calls", "finish"}
  /\ Fault
  /\ \E status \in {"failed", batch.status} :
       /\ batch.step = "start" => status = batch.status
       /\ batch' = [batch EXCEPT !.status = status,
                       !.step = IF batch.step = "start" THEN "over" ELSE AfterFailure]
  /\ UNCHANGED <<engine, cache, item>>

\* The output cannot be saved: the handler's commit of the failure also
\* commits the review items and the count that were waiting in the session.
SaveFails ==
  /\ Written
  /\ Fault
  /\ batch' = [batch EXCEPT !.step = AfterFailure, !.status = "failed", !.processed = Cardinality(Rows)]
  /\ item' = WithItems(Misses)
  /\ UNCHANGED <<engine, cache>>

Tidy ==
  /\ batch.step = "tidy"
  /\ batch' = [batch EXCEPT !.step = "over", !.upload = FALSE]
  /\ UNCHANGED <<engine, cache, item, faults>>

\* What a restart of its process does to the thread.
Stopped(p) == IF batch.proc = p THEN [batch EXCEPT !.step = "over"] ELSE batch

BatchStep == Start \/ Layer1 \/ Prefill \/ (\E k \in Keys : Collect(k)) \/ Finish \/ Tidy
BatchFault == RunFails \/ SaveFails
BatchNext == (\E p \in Procs : Upload(p)) \/ BatchStep \/ BatchFault

-----------------------------------------------------------------------------

BatchTypeOK ==
  /\ engine \in [Procs -> SUBSET Keys]
  /\ cache \subseteq Keys
  /\ batch.step \in {"none", "start", "layer 1", "prefill", "calls", "finish", "tidy", "over"}
  /\ batch.status \in {"none", "queued", "processing", "completed", "failed"}
  /\ batch.known \subseteq Keys /\ batch.asked \subseteq Keys
  /\ batch.answer \in [Keys -> {"none", "suggestion", "failed"}]
  /\ batch.processed \in 0 .. Cardinality(Rows)
  /\ item \in [Rows \cup Singles -> {"none", "pending", "approved", "rejected"}]
  /\ faults \in 0 .. MaxFaults

(***************************************************************************)
(* No row is lost between the batch and the review desk: a completed job   *)
(* has counted every row and left a review item for each row no keyword    *)
(* matched, also for those Bedrock gave no answer for.  A job that ended   *)
(* otherwise left all of them or none, wherever it failed or was cut off.  *)
(***************************************************************************)
EveryMissIsReviewed ==
  LET left == {r \in Rows : item[r] # "none"}
  IN /\ left \in {{}, Misses}
     /\ batch.status = "completed" => left = Misses /\ batch.processed = Cardinality(Rows)
================================================================================
