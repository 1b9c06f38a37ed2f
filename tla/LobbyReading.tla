----------------------------- MODULE LobbyReading -----------------------------
(***************************************************************************)
(* One image of a lobby check read by the model: the converse call with    *)
(* its fallback, the checks of the answer, one repair, the salvage of a    *)
(* record that contradicts itself (lobby_check/extractor.py), and the row  *)
(* it is stored in (tasks/lobby_check_task.py, lobby_check/schemas.py).    *)
(* LobbyCheck has the job around it.                                       *)
(*                                                                         *)
(* Confidences are in percent; NoValue is a missing one, Text one that is  *)
(* no number.  Of the four confidences the one of the condition is told    *)
(* apart, rest is the least of the others.                                 *)
(***************************************************************************)
EXTENDS Integers, FiniteSetsExt

CONSTANT Confidences   \* the numbers among the confidences

ReadingAssumption == Confidences \subseteq 0 .. 100

VARIABLE reading

ReviewThreshold == 70   \* LOBBY_CHECK_REVIEW_CONFIDENCE_THRESHOLD
ConflictCap == 50       \* LOBBY_CHECK_CONDITION_CONFLICT_CONFIDENCE_CAP
NoValue == -1
Text == -2
ConditionConflict == "conflict"
NoRecord == [condition |-> "none", defects |-> "none", own |-> NoValue, rest |-> NoValue, valid |-> FALSE]

\* valid: every key is there and every other value is an allowed one.
Records ==
  [condition : {"none", "good", "damaged"}, defects : {"none", "empty", "some"},
   own : Confidences \cup {NoValue, Text}, rest : Confidences \cup {NoValue, Text}, valid : BOOLEAN]

\* temperature: has no call of this process been refused for it?
ReadingInit ==
  \E temperature \in BOOLEAN :
    reading = [step |-> "fetch", attempt |-> 0, temperature |-> temperature, record |-> NoRecord,
               conflict |-> FALSE, parsed |-> NoRecord, status |-> "dispatched", review |-> FALSE]

Fail == [reading EXCEPT !.step = "end", !.status = "failed"]

\* The image, or a reason why it is none: never fetched again.
FetchImage ==
  /\ reading.step = "fetch"
  /\ reading' \in {Fail, [reading EXCEPT !.step = "call"]}

-----------------------------------------------------------------------------
(* extract_material_record                                                 *)

\* The model has no temperature: the call is made once more without it, and
\* so is every later one of the process.
TemperatureRefused ==
  /\ reading.step = "call" /\ reading.temperature
  /\ reading' = [reading EXCEPT !.temperature = FALSE]

CallConverse ==
  /\ reading.step = "call"
  /\ \E rec \in Records : reading' = [reading EXCEPT !.step = "parse", !.parsed = rec]

\* A throttled or broken call is made again by a new task while Celery has
\* retries left, by any process; any other error fails the row.
ReraiseClassified ==
  /\ reading.step = "call"
  /\ reading' \in {Fail} \cup
       {[reading EXCEPT !.step = "fetch", !.attempt = 0, !.temperature = t] : t \in BOOLEAN}

\* The answer holds no JSON.
ParseResponse ==
  /\ reading.step = "parse"
  /\ reading' = IF reading.attempt = 0 THEN [reading EXCEPT !.step = "call", !.attempt = 1] ELSE Fail

Contradicts(rec) ==
  /\ rec.condition # "none" /\ rec.defects # "none"
  /\ (rec.condition = "damaged") # (rec.defects = "some")

Validate(rec) ==
  (IF rec.valid THEN {} ELSE {"schema"}) \cup (IF Contradicts(rec) THEN {ConditionConflict} ELSE {})

\* Mutant: the salvaged condition keeps the confidence of the model.
SalvageOnly(rec) == [rec EXCEPT !.condition = IF rec.defects = "some" THEN "damaged" ELSE "good"]

\* The defects have evidence, the condition is a summary of them.
SalvageConditionConflict(rec) ==
  [rec EXCEPT !.condition = IF rec.defects = "some" THEN "damaged" ELSE "good",
              !.own = IF @ \in Confidences /\ @ < ConflictCap THEN @ ELSE ConflictCap]

ExtractMaterialRecord ==
  /\ reading.step = "parse"
  /\ LET errs == Validate(reading.parsed)
     IN reading' =
          CASE errs = {} -> [reading EXCEPT !.step = "store", !.record = reading.parsed]
            [] errs = {ConditionConflict} /\ reading.attempt = 1 ->
                 [reading EXCEPT !.step = "store", !.conflict = TRUE,
                                 !.record = SalvageConditionConflict(reading.parsed)]
            [] errs # {} /\ reading.attempt = 0 -> [reading EXCEPT !.step = "call", !.attempt = 1]
            [] OTHER -> Fail

-----------------------------------------------------------------------------
(* The row.                                                                *)

Given(rec) == {rec.own, rec.rest} \ {NoValue}

\* The counter of the job and the flag of the API (serialize_row_result).
RowNeedsReview(rec) == Given(rec) # {} /\ Min(Given(rec)) < ReviewThreshold

\* What the call log says.
Decision(rec) ==
  IF Text \in Given(rec) \/ Given(rec) = {} \/ Min(Given(rec)) < ReviewThreshold
    THEN "REVIEW" ELSE "AUTO_ACCEPT"

\* A confidence that is no number does not go into its column: the commit
\* fails and the except branch records a failed row.
StoreRow ==
  /\ reading.step = "store"
  /\ reading' = IF Text \in Given(reading.record) THEN Fail
                ELSE [reading EXCEPT !.step = "end", !.status = "completed",
                                     !.review = RowNeedsReview(reading.record)]

ReadingNext ==
  \/ FetchImage \/ TemperatureRefused \/ CallConverse \/ ReraiseClassified
  \/ ParseResponse \/ ExtractMaterialRecord \/ StoreRow

-----------------------------------------------------------------------------
(* Properties.                                                             *)

\* The type of a reading (ExtractionResult).
ReadingTypeOK ==
  /\ reading.step \in {"fetch", "call", "parse", "store", "end"}
  /\ reading.attempt \in 0 .. 1
  /\ {reading.temperature, reading.conflict, reading.review} \subseteq BOOLEAN
  /\ reading.record \in Records \cup {NoRecord} \cup [condition : {"good", "damaged"},
       defects : {"none", "empty", "some"}, own : {ConflictCap}, rest : Confidences \cup {NoValue, Text},
       valid : {TRUE}]

(***************************************************************************)
(* A stored record does not contradict itself, whatever the model answered *)
(* the second time, one that was salvaged is for a human to see ("a        *)
(* conflict is a low-confidence signal": config.py, extractor.py), and a   *)
(* record with a confidence is flagged exactly when the log says REVIEW.   *)
(***************************************************************************)
ConflictsAreReviewed ==
  reading.status = "completed" =>
    /\ ~Contradicts(reading.record)
    /\ reading.conflict => reading.review
    /\ Given(reading.record) # {} => (reading.review <=> Decision(reading.record) = "REVIEW")
================================================================================
