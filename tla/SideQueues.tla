------------------------------ MODULE SideQueues ------------------------------
(***************************************************************************)
(* The jobs beside the title matching: a deleted-showtimes job, a lobby    *)
(* check, the master sync and a calendar extraction, and a title batch     *)
(* without rows, which takes other paths than one with rows.  They have    *)
(* their own queues and tables and share nothing, so a behaviour of this   *)
(* module is one of one service, chosen at the start; the variables of the *)
(* others are Off.                                                         *)
(***************************************************************************)
EXTENDS Integers, TLC

CONSTANTS
  ShowtimeBatches, Showings, ShowingsOf, Cap, Ladder,     \* of the showtimes job
  AbortAfter, GoogleSays, SiteSays, ShowtimeFaults,
  KeySlots, Cooldown, ProviderKeys, TableAtStart,         \* of its provider keys
  Images, LobbyTakers, Window, Refill, Attempts, MaxErrors,   \* of the lobby check
  MaxChunks                                               \* of the calendar

VARIABLES
  service,
  job, queue, output, faults,                       \* of several services
  config, slot, table, call, refused, dark,         \* ShowtimeJob
  result, batch, final, skewed, astray,
  image, taker, errors, dropped,                    \* LobbyCheck
  master, sync, request, builder, index, spoiled,   \* MasterSync
  calendar,                                         \* CalendarJob
  results, rowargs, upload, counted, purged,        \* TitleBatch
  pc, msg, rec, stack, cas, tick, buf

showtimeVars == <<config, slot, table, call, refused, dark, result, batch, final, skewed, astray>>
lobbyVars == <<image, taker, errors, dropped>>
syncVars == <<master, sync, request, builder, index, spoiled>>
emptyVars == <<results, rowargs, upload, counted, purged, pc, msg, rec, stack, cas, tick, buf>>
vars == <<service, job, queue, output, faults, showtimeVars, lobbyVars, syncVars, calendar, emptyVars>>

Showtimes == INSTANCE ShowtimeJob
  WITH Callers <- ShowtimeBatches, Slots <- KeySlots, Cooldown <- Cooldown, Keys <- ProviderKeys,
       TableAtStart <- TableAtStart, Rows <- Showings, RowsOf <- ShowingsOf, Cap <- Cap, Ladder <- Ladder,
       AbortAfter <- AbortAfter, GoogleSays <- GoogleSays, SiteSays <- SiteSays, MaxFaults <- ShowtimeFaults

Lobby == INSTANCE LobbyCheck
  WITH Images <- Images, Takers <- LobbyTakers, Window <- Window, Refill <- Refill,
       Attempts <- Attempts, MaxErrors <- MaxErrors

SyncFilms == {"f", "g"}
SyncJobs == {1, 2}

Sync == INSTANCE MasterSync
  WITH Films <- SyncFilms, Requests <- {"r"}, Jobs <- SyncJobs, Builders <- {"b"}, StaleAfter <- 1,
       ChunkSize <- 1, MaxBuilds <- 1, MaxFaults <- 1

Calendar == INSTANCE CalendarJob WITH MaxChunks <- MaxChunks

EmptyWorkers == {"v", "w"}

Empty == INSTANCE TitleBatch
  WITH N <- 0, Workers <- EmptyWorkers, Beats <- {}, Window <- 1, Chunk <- 1, MaxRetries <- 1,
       MaxAttempts <- 1, MaxFaults <- 2,
       FaultPoints <- {<<"raise", "d_cache">>, <<"redeliver", "finalize">>}

ASSUME SideAssumption ==
  /\ Showtimes!RotationAssumption /\ Showtimes!JobAssumption
  /\ Lobby!LobbyAssumption
  /\ Sync!SyncAssumption
  /\ Calendar!CalendarAssumption

-----------------------------------------------------------------------------
Off == "off"

ShowtimesOff ==
  /\ config = Off /\ slot = Off /\ table = Off /\ call = Off /\ refused = Off /\ dark = Off
  /\ result = Off /\ batch = Off /\ final = Off /\ skewed = Off /\ astray = Off

LobbyOff == image = Off /\ taker = Off /\ errors = Off /\ dropped = Off

SyncOff ==
  /\ master = Off /\ sync = Off /\ request = Off
  /\ builder = Off /\ index = Off /\ spoiled = Off

CalendarOff == calendar = Off

EmptyOff ==
  /\ results = Off /\ rowargs = Off /\ upload = Off /\ counted = Off /\ purged = Off
  /\ pc = Off /\ msg = Off /\ rec = Off /\ stack = Off /\ cas = Off /\ tick = Off /\ buf = Off

Init ==
  \/ /\ service = "showtimes"
     /\ Showtimes!Init
     /\ queue = Off /\ LobbyOff /\ SyncOff /\ CalendarOff /\ EmptyOff
  \/ /\ service = "lobby"
     /\ Lobby!LobbyInit
     /\ output = Off /\ faults = Off /\ ShowtimesOff /\ SyncOff /\ CalendarOff /\ EmptyOff
  \/ /\ service = "sync"
     /\ Sync!SyncInit
     /\ output = Off /\ ShowtimesOff /\ LobbyOff /\ CalendarOff /\ EmptyOff
  \/ /\ service = "calendar"
     /\ Calendar!CalendarInit
     /\ job = Off /\ queue = Off /\ output = Off /\ faults = Off
     /\ ShowtimesOff /\ LobbyOff /\ SyncOff /\ EmptyOff
  \/ /\ service = "empty"
     /\ Empty!Init
     /\ ShowtimesOff /\ LobbyOff /\ SyncOff /\ CalendarOff

\* Only the variables of the running service change.
OnlyShowtimes ==
  service = "showtimes" /\ UNCHANGED <<service, queue, lobbyVars, syncVars, calendar, emptyVars>>
OnlyLobby ==
  service = "lobby" /\ UNCHANGED <<service, output, faults, showtimeVars, syncVars, calendar, emptyVars>>
OnlySync ==
  service = "sync" /\ UNCHANGED <<service, output, showtimeVars, lobbyVars, calendar, emptyVars>>
OnlyCalendar ==
  /\ service = "calendar"
  /\ UNCHANGED <<service, job, queue, output, faults, showtimeVars, lobbyVars, syncVars, emptyVars>>
OnlyEmpty == service = "empty" /\ UNCHANGED <<service, showtimeVars, lobbyVars, syncVars, calendar>>

Next ==
  \/ OnlyShowtimes /\ Showtimes!Next
  \/ OnlyLobby /\ Lobby!LobbyNext
  \/ OnlySync /\ Sync!SyncNext
  \/ OnlyCalendar /\ Calendar!CalendarNext
  \/ OnlyEmpty /\ Empty!Next

\* The fairness of each service, over its own variables.  Workers run, time
\* passes, and people keep asking for a sync.
ofShowtimes == <<job, output, faults, showtimeVars>>
ofLobby == <<job, queue, lobbyVars>>
ofSync == <<job, queue, faults, syncVars>>
ofEmpty == <<job, queue, output, faults, emptyVars>>

Fairness ==
  /\ WF_ofShowtimes(service = "showtimes" /\ Showtimes!Dispatch)
  /\ WF_ofShowtimes(service = "showtimes" /\ Showtimes!Finalize)
  /\ \A b \in ShowtimeBatches : WF_ofShowtimes(service = "showtimes" /\ Showtimes!ProcessBatch(b))
  /\ \A t \in LobbyTakers : WF_ofLobby(service = "lobby" /\ Lobby!LobbyStep(t))
  /\ WF_ofSync(service = "sync" /\ Sync!Tick)
  /\ WF_ofSync(service = "sync" /\ Sync!Ask("r"))
  /\ \A j \in SyncJobs : WF_ofSync(service = "sync" /\ Sync!SyncTask(j))
  /\ WF_ofSync(service = "sync" /\ Sync!Build("b"))
  /\ WF_calendar(service = "calendar" /\ Calendar!ProcessCalendarJob)
  /\ \A a \in EmptyWorkers : WF_ofEmpty(service = "empty" /\ (Empty!Take(a) \/ Empty!Run(a)))

FairSpec == Init /\ [][Next]_vars /\ Fairness

-----------------------------------------------------------------------------
(* Properties.                                                             *)

Runs(name, P) == service = name /\ P

\* The types of every service (TypeOK of the modules).
TypeOK ==
  CASE service = "showtimes" -> Showtimes!TypeOK
    [] service = "lobby" -> Lobby!LobbyTypeOK
    [] service = "sync" -> Sync!SyncTypeOK
    [] service = "calendar" -> Calendar!CalendarTypeOK
    [] service = "empty" -> Empty!TypeOK

\* A completed showtimes job was not aborted and reports what its counters
\* say (deleted_showtime_task.py, _bump_counters, _mark_aborted and
\* finalize_job).
ReportAgreesWithCounters == service = "showtimes" => Showtimes!ReportAgreesWithCounters

\* The totals of a finished lobby check agree with its rows
\* (lobby_check_task.py, _bump_counters and _record_failed_row); a calendar
\* sheet is of every chunk of the text, or says how many are missing
\* (calendar_extract_task.py, extractor.py extract_calendar_rows).
TotalsAddUp ==
  /\ service = "lobby" => Lobby!TotalsAddUp
  /\ service = "calendar" => Calendar!SheetIsAccountedFor

Begun ==
  CASE service = "showtimes" -> Showtimes!Started
    [] service \in {"lobby", "calendar", "empty"} -> TRUE
    [] OTHER -> FALSE

Over ==
  CASE service = "showtimes" -> Showtimes!Ended
    [] service = "lobby" -> Lobby!LobbyOver
    [] service = "calendar" -> Calendar!CalendarOver
    [] service = "empty" -> job.status = "completed"
    [] OTHER -> TRUE

(***************************************************************************)
(* Every job that was begun ends.  A showtimes job: semaphore time-outs,   *)
(* errors and their rescue never keep the chord's callback from running    *)
(* (deleted_showtime_task.py, process_batch: "would wedge the job at       *)
(* status=processing forever"); only a killed worker, an error in the      *)
(* handlers of the key errors or in finalize_job breaks the chord.  A      *)
(* lobby check: the rows alone carry it to its end (lobby_check_task.py,   *)
(* _after_row_terminal), though refills race, rows end together and a      *)
(* row's transaction breaks; only a lost refill or claim is never made up  *)
(* for.  A calendar extraction, unless its worker dies: its model calls    *)
(* and their repairs are bounded (calendar_extract/bedrock.py).  A title   *)
(* batch without rows, though no row can trigger its end                   *)
(* (agentic_match_task.py, dispatch_batch).                                *)
(***************************************************************************)
EveryJobEnds == Begun ~> Over

(***************************************************************************)
(* The films of the master reach the semantic index (prod_db_sync_task.py, *)
(* semantic_index.py build_semantic_index), also when the worker of the    *)
(* sync goes down between two chunks or just before it queues the build,   *)
(* when syncs overlap, and when a build ran on an older master: unless a   *)
(* failure was one of those the code reports and gives up on.              *)
(***************************************************************************)
FilmsReachTheIndex == Runs("sync", ~Sync!AllListed) ~> Runs("sync", Sync!AllListed \/ spoiled)

(***************************************************************************)
(* A crashed sync does not "block every future sync for this market        *)
(* forever" (movie_title_match.py, prod_db_sync_task.py): while people ask *)
(* for one, a job in flight is followed by a sync that completes.          *)
(***************************************************************************)
SyncsGoOn == Runs("sync", Sync!InFlight # {}) ~> Runs("sync", Sync!SyncCompleted)
================================================================================
