------------------------------ MODULE CalendarJob ------------------------------
(***************************************************************************)
(* One PDF of the calendar extraction: a Celery task decides whether it is *)
(* a release calendar, asks the model for the rows of each chunk of its    *)
(* text and stores a sheet (tasks/calendar_extract_task.py with            *)
(* calendar_extract/classify.py, extractor.py and bedrock.py).  A chunk    *)
(* the model fails on is skipped.                                          *)
(***************************************************************************)
EXTENDS Integers

CONSTANT MaxChunks

CalendarAssumption == MaxChunks \in Nat \ {0}

VARIABLE calendar

CalendarInit ==
  \E chunks \in 1 .. MaxChunks :
    calendar = [status |-> "queued", step |-> "queued", purpose |-> "classify",
                chunks |-> chunks, good |-> 0, skipped |-> 0, rows |-> FALSE,
                attempt |-> 0, temperature |-> TRUE, sheet |-> FALSE, note |-> FALSE]

\* A call starts over for each purpose and chunk.
NewCall(state, purpose) ==
  [state EXCEPT !.step = "call", !.purpose = purpose, !.attempt = 0, !.temperature = TRUE]

Ended(state, status) == [state EXCEPT !.step = "end", !.status = status]

-----------------------------------------------------------------------------
(* process_calendar_job, up to the rows.                                   *)

Start ==
  /\ calendar.step = "queued"
  /\ calendar' = [calendar EXCEPT !.step = "text", !.status = "classifying"]

Accepted(verdict) ==
  IF verdict THEN NewCall([calendar EXCEPT !.status = "processing"], "rows")
  ELSE Ended(calendar, "rejected")

\* The heuristic on the text; an ambiguous one is left to the model.
ClassifyStageA ==
  /\ calendar.step = "text"
  /\ calendar' \in {Accepted(TRUE), Accepted(FALSE), NewCall(calendar, "classify")}

-----------------------------------------------------------------------------
(* call_converse_json: two attempts, the refusal of a temperature counted. *)

NextAttempt(state) ==
  [state EXCEPT !.attempt = @ + 1, !.step = IF state.attempt = 1 THEN "raised" ELSE "call"]

TemperatureRefusal ==
  /\ calendar.step = "call" /\ calendar.temperature
  /\ calendar' = NextAttempt([calendar EXCEPT !.temperature = FALSE])

ParseFails ==
  /\ calendar.step = "call"
  /\ calendar' = NextAttempt(calendar)

CallRaises ==
  /\ calendar.step = "call"
  /\ calendar' = [calendar EXCEPT !.step = "raised"]

CallConverseJson ==
  /\ calendar.step = "call"
  /\ calendar' = [calendar EXCEPT !.step = "parsed"]

-----------------------------------------------------------------------------
(* The verdict of the model, and its rows.                                 *)

\* The chunk is done with; the last one leads to the sheet.
AfterChunk(state) ==
  IF state.good + state.skipped = state.chunks THEN [state EXCEPT !.step = "sheet"]
  ELSE NewCall(state, "rows")

SkipChunk == AfterChunk([calendar EXCEPT !.skipped = @ + 1])

ClassifyStageB ==
  /\ calendar.step = "parsed" /\ calendar.purpose = "classify"
  /\ calendar' \in {Accepted(TRUE), Accepted(FALSE)}

\* A call that raised fails the job or skips the chunk.
Raised ==
  /\ calendar.step = "raised"
  /\ calendar' = IF calendar.purpose = "rows" THEN SkipChunk ELSE [calendar EXCEPT !.step = "except"]

\* Rows, none, or some that _validate_rows refuses.
ExtractCalendarRows ==
  /\ calendar.step = "parsed" /\ calendar.purpose = "rows"
  /\ calendar' \in {SkipChunk} \cup
       {AfterChunk([calendar EXCEPT !.good = @ + 1, !.rows = @ \/ some]) : some \in BOOLEAN}

\* Without rows there is no sheet; with chunks missing, a note.
StoreSheet ==
  /\ calendar.step = "sheet"
  /\ calendar' = IF calendar.rows
                 THEN [Ended(calendar, "completed") EXCEPT !.sheet = TRUE, !.note = calendar.skipped > 0]
                 ELSE Ended(calendar, "failed")

-----------------------------------------------------------------------------
(* Failures.                                                               *)

\* The file, the text, an answer that is no object, the sheet, a commit:
\* anything else that raises reaches the except branch.
Raises ==
  /\ calendar.step \in {"queued", "text", "parsed", "sheet"}
  /\ calendar' = [calendar EXCEPT !.step = "except"]

ExceptBranch ==
  /\ calendar.step = "except"
  /\ calendar' = Ended(calendar, "failed")

\* The worker dies, or the database is gone for the except branch, too:
\* nothing looks at the job again.
Lost ==
  /\ calendar.step \notin {"end", "lost"}
  /\ calendar' = [calendar EXCEPT !.step = "lost"]

ProcessCalendarJob ==
  \/ Start \/ ClassifyStageA \/ ClassifyStageB
  \/ TemperatureRefusal \/ ParseFails \/ CallRaises \/ CallConverseJson
  \/ Raised \/ ExtractCalendarRows \/ StoreSheet
  \/ Raises \/ ExceptBranch

CalendarNext == ProcessCalendarJob \/ Lost

-----------------------------------------------------------------------------
(* Properties.                                                             *)

\* The type of a calendar job (models.py, CalendarExtractJob).
CalendarTypeOK ==
  /\ calendar.status \in {"queued", "classifying", "processing", "rejected", "failed", "completed"}
  /\ calendar.step \in {"queued", "text", "call", "parsed", "raised", "sheet", "except", "end", "lost"}
  /\ calendar.good + calendar.skipped \in 0 .. calendar.chunks
  /\ calendar.attempt \in 0 .. 2

(***************************************************************************)
(* A sheet is of the whole calendar or says what is missing: a completed   *)
(* job has a sheet with rows, has asked for every chunk, and carries a     *)
(* note when one was skipped.                                              *)
(***************************************************************************)
SheetIsAccountedFor ==
  calendar.status = "completed" =>
    /\ calendar.sheet /\ calendar.rows
    /\ calendar.good + calendar.skipped = calendar.chunks
    /\ calendar.note <=> calendar.skipped > 0

CalendarOver == calendar.step \in {"end", "lost"}
================================================================================
