------------------------------ MODULE BackOffice ------------------------------
(***************************************************************************)
(* The services behind the desks: the three review desks with their        *)
(* batches, the rotation of provider keys, the usage ledger, one look-up   *)
(* in the engines, one title in the matcher, one image in the lobby        *)
(* check's reader and one run of the data-quality scan.  They share no     *)
(* state, so a behaviour of this module is one of one service, chosen at   *)
(* the start; the variables of the others are Off.  The desks are three    *)
(* instances over the same variables.                                      *)
(***************************************************************************)
EXTENDS Integers, Sequences

CONSTANTS
  Services,                       \* the services that may be chosen
  Uploaded, Typed, Requests,      \* of each desk: rows of the upload, single strings, requests
  KeyOrder, KeyOf,                \* deduplication keys; of each desk, the key of each string
  Procs, SampleLimit, MaxMappings, MaxFaults, ProgressEvery,
  Callers, Slots, Cooldown, ProviderKeys, TableAtStart,            \* KeyRotation
  MaxCalls, RollupSize, Rollups, MaxFailures,                      \* UsageLedger
  Indexes, Strings, Ignored, Stopword, VipWord, MinLen, CircuitOf, \* DetectionCascade
  Titles, Ghosts, Modes, MatchConfidences,                         \* MatchDecision
  ReadConfidences,                                                 \* LobbyReading
  NRules, ChunkSize, Channels                                      \* RuleScan

VARIABLES
  service,
  engine, cache, batch, item, faults, mapping, desk,           \* the desks
  config, slot, table, call, refused, dark,                    \* KeyRotation
  row, watermark, folded, rollup, horizon, late, overlapped, failures,  \* UsageLedger
  scan,                                                        \* DetectionCascade
  match,                                                       \* MatchDecision
  reading,                                                     \* LobbyReading
  audit                                                        \* RuleScan

deskVars == <<engine, cache, batch, item, faults, mapping, desk>>
rotationVars == <<config, slot, table, call, refused, dark>>
ledgerVars == <<row, watermark, folded, rollup, horizon, late, overlapped, failures>>
singleVars == <<scan, match, reading, audit>>
vars == <<service, deskVars, rotationVars, ledgerVars, singleVars>>

Amenities == INSTANCE AmenityDesk
  WITH Rows <- Uploaded["amenities"], Singles <- Typed["amenities"], KeyOf <- KeyOf["amenities"],
       Desks <- Requests["amenities"], AiModes <- {"full"},
       Reviewed <- TRUE, TidiesUp <- FALSE, RebuildAlways <- FALSE

Movies == INSTANCE MovieDesk
  WITH Rows <- Uploaded["movies"], Singles <- Typed["movies"], KeyOf <- KeyOf["movies"],
       Desks <- Requests["movies"], AiModes <- {"full", "sample", "skip"},
       Reviewed <- TRUE, TidiesUp <- FALSE, RebuildAlways <- FALSE

Intl == INSTANCE IntlDesk
  WITH Rows <- Uploaded["intl"], Singles <- Typed["intl"], KeyOf <- KeyOf["intl"],
       Desks <- Requests["intl"], AiModes <- {"skip"},
       Reviewed <- FALSE, TidiesUp <- TRUE, RebuildAlways <- TRUE

Rotation == INSTANCE KeyRotation
  WITH Callers <- Callers, Slots <- Slots, Cooldown <- Cooldown, Keys <- ProviderKeys,
       TableAtStart <- TableAtStart

Ledger == INSTANCE UsageLedger
  WITH MaxCalls <- MaxCalls, Batch <- RollupSize, Rollups <- Rollups, MaxFailures <- MaxFailures

Cascade == INSTANCE DetectionCascade

Matcher == INSTANCE MatchDecision
  WITH Rows <- Titles, Ghosts <- Ghosts, Modes <- Modes, Confidences <- MatchConfidences

Reader == INSTANCE LobbyReading
  WITH Confidences <- ReadConfidences

Audit == INSTANCE RuleScan

ASSUME OfficeAssumption ==
  /\ Amenities!BatchAssumption /\ Movies!BatchAssumption /\ Intl!BatchAssumption
  /\ MaxMappings \in Nat /\ ProgressEvery \in Nat \ {0}
  /\ Rotation!RotationAssumption
  /\ Ledger!LedgerAssumption
  /\ Cascade!CascadeAssumption
  /\ Matcher!MatchAssumption
  /\ Reader!ReadingAssumption
  /\ Audit!RuleScanAssumption

-----------------------------------------------------------------------------
Off == "off"

DesksOff ==
  /\ engine = Off /\ cache = Off /\ batch = Off /\ item = Off
  /\ faults = Off /\ mapping = Off /\ desk = Off

RotationOff ==
  config = Off /\ slot = Off /\ table = Off /\ call = Off /\ refused = Off /\ dark = Off

LedgerOff ==
  /\ row = Off /\ watermark = Off /\ folded = Off /\ rollup = Off
  /\ horizon = Off /\ late = Off /\ overlapped = Off /\ failures = Off

ScanOff == scan = Off
MatchOff == match = Off
ReadingOff == reading = Off
AuditOff == audit = Off
SinglesOff == ScanOff /\ MatchOff /\ ReadingOff /\ AuditOff
QueuesOff == DesksOff /\ RotationOff /\ LedgerOff

Init ==
  /\ service \in Services
  /\ \/ service = "amenities" /\ Amenities!Init /\ RotationOff /\ LedgerOff /\ SinglesOff
     \/ service = "movies" /\ Movies!MovieInit /\ RotationOff /\ LedgerOff /\ SinglesOff
     \/ service = "intl" /\ Intl!IntlInit /\ RotationOff /\ LedgerOff /\ SinglesOff
     \/ service = "rotation" /\ Rotation!RotationInit /\ DesksOff /\ LedgerOff /\ SinglesOff
     \/ service = "ledger" /\ Ledger!LedgerInit /\ DesksOff /\ RotationOff /\ SinglesOff
     \/ service = "cascade" /\ Cascade!ScanInit /\ QueuesOff /\ MatchOff /\ ReadingOff /\ AuditOff
     \/ service = "matcher" /\ Matcher!MatchInit /\ QueuesOff /\ ScanOff /\ ReadingOff /\ AuditOff
     \/ service = "reader" /\ Reader!ReadingInit /\ QueuesOff /\ ScanOff /\ MatchOff /\ AuditOff
     \/ service = "audit" /\ Audit!RuleScanInit /\ QueuesOff /\ ScanOff /\ MatchOff /\ ReadingOff

\* Only the variables of the running service change.
OnlyDesk(name) == service = name /\ UNCHANGED <<service, rotationVars, ledgerVars, singleVars>>
OnlyRotation == service = "rotation" /\ UNCHANGED <<service, deskVars, ledgerVars, singleVars>>
OnlyLedger == service = "ledger" /\ UNCHANGED <<service, deskVars, rotationVars, singleVars>>
OnlySingle(name) == service = name /\ UNCHANGED <<service, deskVars, rotationVars, ledgerVars>>

Next ==
  \/ OnlyDesk("amenities") /\ Amenities!Next
  \/ OnlyDesk("movies") /\ Movies!MovieNext
  \/ OnlyDesk("intl") /\ Intl!IntlNext
  \/ OnlyRotation /\ Rotation!RotationNext
  \/ OnlyLedger /\ Ledger!LedgerNext
  \/ OnlySingle("cascade") /\ Cascade!ScanNext /\ UNCHANGED <<match, reading, audit>>
  \/ OnlySingle("matcher") /\ Matcher!MatchNext /\ UNCHANGED <<scan, reading, audit>>
  \/ OnlySingle("reader") /\ Reader!ReadingNext /\ UNCHANGED <<scan, match, audit>>
  \/ OnlySingle("audit") /\ Audit!RuleScanNext /\ UNCHANGED <<scan, match, reading>>

Spec == Init /\ [][Next]_vars

-----------------------------------------------------------------------------
(* Properties.                                                             *)

\* P of the desk that runs, TRUE when none does.
OfDesk(ofAmenities, ofMovies, ofIntl) ==
  CASE service = "amenities" -> ofAmenities
    [] service = "movies" -> ofMovies
    [] service = "intl" -> ofIntl
    [] OTHER -> TRUE

\* The types of every service (TypeOK of the modules).
TypeOK ==
  /\ OfDesk(Amenities!TypeOK, Movies!TypeOK, Intl!TypeOK)
  /\ service = "rotation" => Rotation!RotationTypeOK
  /\ service = "ledger" => Ledger!LedgerTypeOK
  /\ service = "cascade" => Cascade!ScanTypeOK
  /\ service = "matcher" => Matcher!MatchTypeOK
  /\ service = "reader" => Reader!ReadingTypeOK
  /\ service = "audit" => Audit!RuleScanTypeOK

\* No row is lost between a batch and the review desk, answered or not
\* (workers/batch_worker.py, movie_batch_worker.py, intl_batch_worker.py).
EveryMissIsReviewed ==
  OfDesk(Amenities!EveryMissIsReviewed, Movies!EveryMissIsReviewed, Intl!EveryMissIsReviewed)

\* The engine a request hands to its process matches what the request
\* approved (routers/review.py, amenities.py, intl_amenities.py and
\* movie_formats.py with the loaders they call).
ApprovalIsInTheEngine ==
  OfDesk(Amenities!ApprovalIsInTheEngine, Movies!ApprovalIsInTheEngine, Intl!ApprovalIsInTheEngine)

\* A provider key is held back only for its own refusal, and never a whole
\* cooldown without being offered again (deleted_showtimes/
\* serp_key_rotation.py, mark_exhausted and _select_candidates).
KeysAreHeldFairly ==
  service = "rotation" => Rotation!RefusedKeysHeal /\ Rotation!NoInheritedCooldown

\* A model call that was committed in the order of its id is summed before
\* the watermark passes it and before it is pruned, and exactly once unless
\* two rollups have overlapped (tasks/usage_rollup_task.py).
LedgerIsExact == service = "ledger" => Ledger!LedgerIsExact

\* A scan ends with the best hit of the whole string, a doubly approved
\* keyword with its higher priority (intl_detection/engine.py), and the model
\* is asked only for what no keyword matched (the three engine.py, detect).
CascadeKeepsTheBest == service = "cascade" => Cascade!CascadeKeepsTheBest

\* A format of one circuit is never shown at another, and an IMAX house
\* shows IMAX unless a keyword of the first tier was found
\* (detection/engine.py, detect and _resolve_circuit_format).
CircuitRulesHold == service = "cascade" => Cascade!CircuitRulesHold

\* A row the guardrail refused is not brought back by a later step
\* (agentic/metadata_guardrail.py, runner.py, runner_intl_v2.py).
RefusedRowsStayOut == service = "matcher" => Matcher!RefusedRowsStayOut

\* A row accepted without review has the confidence of it and is the one the
\* model named (agentic/metadata_guardrail.py, post_lookup_v2.py).
AcceptedRowsAreEndorsed == service = "matcher" => Matcher!AcceptedRowsAreEndorsed

\* A record that contradicted itself is salvaged only for a human to see
\* (lobby_check/extractor.py, tasks/lobby_check_task.py).
ConflictsAreReviewed == service = "reader" => Reader!ConflictsAreReviewed

\* A report of the data-quality scan that is sent has every rule of the pack,
\* each once but for an unlucky interrupt (dqscan/engine.py, run).
EveryRuleIsReported == service = "audit" => Audit!EveryRuleIsReported
================================================================================
