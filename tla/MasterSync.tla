------------------------------ MODULE MasterSync ------------------------------
(***************************************************************************)
(* The movie master: a sync job copies the production table into           *)
(* MovieMaster chunk by chunk (tasks/prod_db_sync_task.py), and every sync *)
(* that touched a row queues a build of the Vespa index, which feeds the   *)
(* rows the index does not list yet (tasks/semantic_tasks.py,              *)
(* title_matching/semantic_index.py).  A second request for a sync is      *)
(* answered with the job in flight, unless that one is so old that its     *)
(* worker must have crashed (routers/movie_title_match.py).                *)
(*                                                                         *)
(* A film is its id; what a row or document says is left out.  The tasks   *)
(* acknowledge late: a message in hand when the worker goes down comes     *)
(* back.  Both markets run this code over their own tables.                *)
(***************************************************************************)
EXTENDS Integers, FiniteSets

CONSTANTS
  Films,       \* the production table
  Requests,    \* web requests that may run at the same time
  Jobs,        \* sync jobs kept at the same time; a finished one may be dropped
  Builders,    \* workers that build the index
  StaleAfter,  \* _SYNC_JOB_STALE_MINUTES, in ticks
  ChunkSize,   \* _CHUNK_SIZE
  MaxBuilds,   \* bound: index builds that wait at the same time
  MaxFaults    \* bound on the faults of one behaviour

SyncAssumption ==
  /\ {StaleAfter, ChunkSize, MaxBuilds} \subseteq Nat \ {0}
  /\ MaxFaults \in Nat

VARIABLES
  master,  \* MovieMaster
  job,     \* MovieMasterSyncJob
  sync,    \* per job, its task
  request, \* POST /master/sync
  queue,   \* queued index builds
  builder, \* build_semantic_index_task
  index,   \* the films Vespa has a document for
  spoiled, \* history: a step the code gives up on has failed
  faults

syncVars == <<master, job, sync, request, queue, builder, index, spoiled, faults>>

NoJob == [status |-> "none", age |-> 0, turn |-> 0]
NoTask == [step |-> "over", left |-> {}, inserted |-> FALSE, updated |-> FALSE]
NoBuild == [step |-> "idle", rows |-> {}]
NoRequest == [step |-> "free", stale |-> {}]

SyncInit ==
  /\ master = {}
  /\ job = [j \in Jobs |-> NoJob]
  /\ sync = [j \in Jobs |-> NoTask]
  /\ request = [r \in Requests |-> NoRequest]
  /\ queue = 0
  /\ builder = [b \in Builders |-> NoBuild]
  /\ index = {}
  /\ spoiled = FALSE
  /\ faults = 0

InFlight == {j \in Jobs : job[j].status \in {"queued", "processing"}}
Fault == faults < MaxFaults /\ faults' = faults + 1

\* Mutant of Reclaimable: whatever is in flight blocks.
NeverStale(j) == FALSE

\* The job is past a sync's plausible runtime.
Reclaimable(j) == job[j].age >= StaleAfter

\* The newest job in flight decides: it is the answer, or stale, or there is none.
LookUp(r) ==
  /\ request[r].step = "free"
  /\ LET newest == {j \in InFlight : \A i \in InFlight : job[i].turn <= job[j].turn}
     IN IF newest = {} THEN request' = [request EXCEPT ![r] = [step |-> "create", stale |-> {}]]
        ELSE /\ \A j \in newest : Reclaimable(j)
             /\ request' = [request EXCEPT ![r] = [step |-> "create", stale |-> newest]]
  /\ UNCHANGED <<master, job, sync, queue, builder, index, spoiled, faults>>

\* A job dropped to make room is finished and its task is over.
Room == {j \in Jobs : (j \notin InFlight \/ \E r \in Requests : j \in request[r].stale) /\ sync[j].step = "over"}

Turn(j) == Cardinality({i \in Jobs \ {j} : job[i].status # "none"})

\* The stale job becomes failed, whatever it became meanwhile; a new job and
\* its message are written.
Create(r) ==
  /\ request[r].step = "create"
  /\ \E j \in Room :
       /\ j \in InFlight => j \in request[r].stale
       /\ job' = [i \in Jobs |->
                    IF i = j THEN [status |-> "queued", age |-> 0, turn |-> Turn(j)]
                    ELSE [job[i] EXCEPT !.status = IF i \in request[r].stale THEN "failed" ELSE @,
                                        !.turn = IF @ > job[j].turn THEN @ - 1 ELSE @]]
       /\ sync' = [sync EXCEPT ![j] = [NoTask EXCEPT !.step = "start"]]
  /\ request' = [request EXCEPT ![r] = NoRequest]
  /\ UNCHANGED <<master, queue, builder, index, spoiled, faults>>

Tick ==
  /\ \E j \in Jobs : job[j].age < StaleAfter
  /\ job' = [j \in Jobs |-> IF job[j].age < StaleAfter THEN [job[j] EXCEPT !.age = @ + 1] ELSE job[j]]
  /\ UNCHANGED <<master, sync, request, queue, builder, index, spoiled, faults>>

SyncStart(j) ==
  /\ sync[j].step = "start"
  /\ job' = [job EXCEPT ![j].status = "processing"]
  /\ sync' = [sync EXCEPT ![j] = [NoTask EXCEPT !.step = "rows", !.left = Films]]
  /\ UNCHANGED <<master, request, queue, builder, index, spoiled, faults>>

\* seed_from_rows: rows the master has count as updated, the others as
\* inserted; each chunk is committed.
SyncChunk(j) ==
  /\ sync[j].step = "rows" /\ sync[j].left # {}
  /\ \E chunk \in SUBSET sync[j].left :
       /\ Cardinality(chunk) = ChunkSize \/ (chunk = sync[j].left /\ Cardinality(chunk) < ChunkSize)
       /\ master' = master \cup chunk
       /\ sync' = [sync EXCEPT ![j].left = @ \ chunk,
                               ![j].inserted = @ \/ ~(chunk \subseteq master),
                               ![j].updated = @ \/ chunk \cap master # {}]
  /\ UNCHANGED <<job, request, queue, builder, index, spoiled, faults>>

\* Mutant of Touched: only new rows are worth a build.
Grown(j) == sync[j].inserted

Touched(j) == sync[j].inserted \/ sync[j].updated

SyncComplete(j) ==
  /\ sync[j].step = "rows" /\ sync[j].left = {}
  /\ job' = [job EXCEPT ![j].status = "completed"]
  /\ sync' = [sync EXCEPT ![j] = IF Touched(j) THEN [@ EXCEPT !.step = "build"] ELSE NoTask]
  /\ UNCHANGED <<master, request, queue, builder, index, spoiled, faults>>

QueueBuild(j) ==
  /\ sync[j].step = "build" /\ queue < MaxBuilds
  /\ queue' = queue + 1
  /\ sync' = [sync EXCEPT ![j] = NoTask]
  /\ UNCHANGED <<master, job, request, builder, index, spoiled, faults>>

\* An exception, also of the broker after the job completed: the job is
\* marked failed, unless the database refuses that too.  (A killed child
\* process, whose message counts as done, leaves the same state.)
SyncRaises(j) ==
  /\ sync[j].step # "over"
  /\ Fault
  /\ job' \in {job, [job EXCEPT ![j].status = "failed"]}
  /\ sync' = [sync EXCEPT ![j] = NoTask]
  /\ spoiled' = TRUE
  /\ UNCHANGED <<master, request, queue, builder, index>>

\* The worker goes down and the message comes back.
SyncAgain(j) ==
  /\ sync[j].step \notin {"over", "start"}
  /\ Fault
  /\ sync' = [sync EXCEPT ![j] = [NoTask EXCEPT !.step = "start"]]
  /\ UNCHANGED <<master, job, request, queue, builder, index, spoiled>>

\* build_semantic_index: the diff of the master with what Vespa lists.  A
\* listing that breaks off shows less, and rows are fed again.
BuildStart(b) ==
  /\ builder[b].step = "idle" /\ queue > 0
  /\ queue' = queue - 1
  /\ \E listed \in {index, {}} :
       builder' = [builder EXCEPT ![b] = [step |-> "feed", rows |-> master \ listed]]
  /\ UNCHANGED <<master, job, sync, request, index, spoiled, faults>>

BuildFeed(b) ==
  /\ builder[b].step = "feed"
  /\ index' = index \cup builder[b].rows
  /\ builder' = [builder EXCEPT ![b] = NoBuild]
  /\ UNCHANGED <<master, job, sync, request, queue, spoiled, faults>>

\* Bedrock or Vespa refuses some rows: they are skipped, and the build ends
\* as if it had fed them.
FeedSkips(b) ==
  /\ builder[b].step = "feed"
  /\ Fault
  /\ \E fed \in SUBSET builder[b].rows : index' = index \cup fed
  /\ builder' = [builder EXCEPT ![b] = NoBuild]
  /\ spoiled' = TRUE
  /\ UNCHANGED <<master, job, sync, request, queue>>

\* An error is retried, and a worker that goes down leaves its message.
BuildAgain(b) ==
  /\ builder[b].step = "feed"
  /\ Fault
  /\ builder' = [builder EXCEPT ![b] = NoBuild]
  /\ queue' = queue + 1
  /\ UNCHANGED <<master, job, sync, request, index, spoiled>>

SyncTask(j) == SyncStart(j) \/ SyncChunk(j) \/ SyncComplete(j) \/ QueueBuild(j)
Build(b) == BuildStart(b) \/ BuildFeed(b)
Ask(r) == LookUp(r) \/ Create(r)
SyncFault == (\E j \in Jobs : SyncRaises(j) \/ SyncAgain(j)) \/ \E b \in Builders : FeedSkips(b) \/ BuildAgain(b)

SyncNext ==
  \/ Tick \/ SyncFault
  \/ \E r \in Requests : Ask(r)
  \/ \E j \in Jobs : SyncTask(j)
  \/ \E b \in Builders : Build(b)

SyncSpec == SyncInit /\ [][SyncNext]_syncVars

SyncTypeOK ==
  /\ master \subseteq Films /\ index \subseteq master
  /\ \A j \in Jobs : /\ job[j].status \in {"none", "queued", "processing", "completed", "failed"}
                     /\ job[j].age \in 0 .. StaleAfter
                     /\ sync[j].step \in {"start", "rows", "build", "over"}
                     /\ sync[j].left \subseteq Films
  /\ \A r \in Requests : request[r].stale \subseteq Jobs
  /\ queue \in 0 .. MaxBuilds + MaxFaults
  /\ \A b \in Builders : builder[b].rows \subseteq master
  /\ faults \in 0 .. MaxFaults

AllListed == master \subseteq index
SyncCompleted == \E j \in Jobs : job[j].status = "completed"
================================================================================
